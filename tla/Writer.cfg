SPECIFICATION FairSpec
CONSTANTS
    Disks = {d1, d2}
    Target = d1
    Chunks = 2
    MaxUnplugs = 1
    Blank = Blank
INVARIANTS
    RebootMeansInstalled
    OnlyTheStableTargetIsWritten
    LostIdentityStops
PROPERTIES
    WriterEnds
\* A writer that has halted, returned or rebooted does nothing more.
CHECK_DEADLOCK FALSE
