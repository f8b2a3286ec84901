SPECIFICATION Spec
CONSTANTS
    MaxWord = 31
    BuildSpare = 3
    MemorySpare = 4
    Sizes = {0, 1, 2, 5, 8, 15, 20, 31}
    Files = 2
    Node <- MCNode
    NoNode = 0
    Clusters = 8
    Entries = 11
    ClusterCells = 3
    EndMark = 13
    LastWord = 14
    MinLoader = 2
    MaxLoader = 8
    MapUnit = 2
    MaxMap = 5
    ImageSectors = 16
    TableSectors = 2
    BootSectors = 3
    SystemSectors = 4
    Graphs <- MCGraphs
    Tables <- MCTables
    Images <- MCImages
INVARIANTS
    BuildFits
    WriterFits
    RootTargetIsWholeStack
    RescueTargetIsFree
    CheckedFilesAreBuilt
    AcceptedEspIsWhole
    AcceptedPartitionsAreApart
    RewrittenPartitionIsTheEsp
\* Every behaviour ends with its answer.
CHECK_DEADLOCK FALSE
