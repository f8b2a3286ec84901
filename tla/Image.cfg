SPECIFICATION Spec
CONSTANTS
    Count = 3
INVARIANTS
    MountsReleased
    AuthorisedImageIsFinal
\* A prepared image or an error is the end.
CHECK_DEADLOCK FALSE
