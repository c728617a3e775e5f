SPECIFICATION Spec
CONSTANT LastCluster = 5
INVARIANTS TypeOK ChainsDisjoint NoCycle ChainsAllocated NothingLeaks PastEndOnlyWhenFull IInv
PROPERTIES ChainsKept ImplementsOwnership
