SPECIFICATION FileSpec
CONSTANTS
    LastCluster = 4
    BytesPerSector = 2
    SectorsPerCluster = 2
    Files = {f1, f2, f3}
    Lengths = {0, 1, 3, 8}
    MaxSize = 9
INVARIANTS FileTypeOK ReadsBack SpaceIsReturned PositionFollowsSize
PROPERTY WriteReturns
CHECK_DEADLOCK FALSE
