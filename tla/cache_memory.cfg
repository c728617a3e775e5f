SPECIFICATION Spec
CONSTANTS
    NumberOfPages = 2
    Sectors = {s1, s2, s3}
    Offsets = {o1, o2}
    Values = {zero, one}
    Zero = zero
    CACHE_FREE = free
    MaxCount = 2
SYMMETRY Interchangeable
INVARIANTS OnePagePerSector CleanPagesMatchDisc
PROPERTY ImplementsMemory
