SPECIFICATION ToolSpec
CONSTANTS
    a = a
    b = b
    NoFile = NoFile
    MaxUnsaved = 1
    LastCluster = 4
    ClusterSlots = 3
    RootSlots = 3
    Names <- MCNames
    Contents <- MCContents
    Length <- MCLength
    Paths <- MCPaths
SYMMETRY Symmetry
INVARIANTS
    FileLosesNothing
    FilesAreWhole
