SPECIFICATION FairSpec
CONSTANTS
    old = old
    new = new
    longer = longer
    huge = huge
    Builds <- MCBuilds
    Length <- MCLength
    Validated <- MCValidated
    Maximum = 3
    MetadataAttempts = 2
    DownloadAttempts = 3
    MaxRepublish = 2
INVARIANTS
    ImageIsOfficial
    ResumeKeepsPrefix
    ShortBodyNoticed
PROPERTIES
    PrepareEnds
\* A prepared image or an error is the end.
CHECK_DEADLOCK FALSE
