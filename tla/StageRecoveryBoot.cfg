SPECIFICATION Spec
CONSTANTS
    MaxRuns = 1
    MaxInterrupts = 1
    MaxFaults = 0
INVARIANTS
    RecoveredHostStaysInLinux
\* The system stops once CHR runs, a torn disk does not boot, or the bounds are used up.
CHECK_DEADLOCK FALSE
