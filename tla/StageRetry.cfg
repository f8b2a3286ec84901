SPECIFICATION Spec
CONSTANTS
    MaxRuns = 2
    MaxInterrupts = 1
    MaxFaults = 1
INVARIANTS
    ErrorUndoesThisRun
    OneShot
    NoWriterAfterError
PROPERTIES
    ImplementsHandover
\* The system stops once CHR runs, a torn disk does not boot, or the bounds are used up.
CHECK_DEADLOCK FALSE
