SPECIFICATION Spec
CONSTANTS
    Short <- MCShort
    Long <- MCLong
    Parts <- MCParts
    Tails <- MCTails
    Cut <- MCCut
    RootSlots = 5
    ClusterSlots = 6
    MaxClusters = 2
    DirNames = {"la"}
    Kinds = {"fixed", "root32", "sub"}
INVARIANTS TypeOK FilesAreFound AliasesDistinct NothingBehindTheEnd
PROPERTY OthersKept
