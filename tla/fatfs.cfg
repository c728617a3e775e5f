SPECIFICATION Spec
CONSTANTS
    a = a
    b = b
    LastCluster = 4
    ClusterSlots = 3
    RootSlots = 4
    Names <- MCNames
    Contents <- MCContents
    Length <- MCLength
    Paths <- MCPaths
SYMMETRY Symmetry
INVARIANTS
    TypeOK
    SoundUnlessExcused
    PathsFollowTheTree
    AnswersAreTrueWithRoom
PROPERTY ImplementsFileTree
CHECK_DEADLOCK FALSE
