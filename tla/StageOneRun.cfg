SPECIFICATION FairSpec
CONSTANTS
    MaxRuns = 1
    MaxInterrupts = 2
    MaxFaults = 1
INVARIANTS
    TypeOK
    ArmedEntryBoots
    CrashBootsCompletePayload
    CommitIsComplete
PROPERTIES
    EveryRunEnds
    CommitReachesWriter
\* The system stops once CHR runs, a torn disk does not boot, or the bounds are used up.
CHECK_DEADLOCK FALSE
