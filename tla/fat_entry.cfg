SPECIFICATION Spec
CONSTANTS
    Types = {12, 16, 32}
    SectorSize = 4
    LastCluster = 5
    Links = {2748, 4086, 268435446}
INVARIANTS
    NothingElseIsWritten
PROPERTY EntriesAreIndependent
