SPECIFICATION Spec
CONSTANTS
    Disks = {d1, d2}
    Root = d1
    Blank = Blank
    MaxChanges = 2
INVARIANTS
    TypeOK
    StagedTargetWasReviewed
    StageIsAuthorised
    PackagesOnlyWhenTheyHelp
\* A staged installation or an error is the end.
CHECK_DEADLOCK FALSE
