SPECIFICATION Spec
CONSTANTS
    MaxAge = 4
    FutureLeeway = 1
    MaxRTCOffset = 4
    MaxSkew = 7
    Horizon = 13
INVARIANTS
    
    StaleManifestRefused
\* A booted writer is the end.
CHECK_DEADLOCK FALSE
