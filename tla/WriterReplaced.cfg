SPECIFICATION Spec
CONSTANTS
    Disks = {d1, d2}
    Target = d1
    Chunks = 2
    MaxUnplugs = 1
    Blank = Blank
INVARIANTS
    DisappearanceHaltsBeforeWriting
\* A writer that has halted, returned or rebooted does nothing more.
CHECK_DEADLOCK FALSE
