SPECIFICATION FileSpec
CONSTANTS
    LastCluster = 2
    BytesPerSector = 2
    SectorsPerCluster = 2
    Files = {f1, f2}
    Lengths = {1}
    MaxSize = 2
INVARIANT AcceptedFileFits
CHECK_DEADLOCK FALSE
