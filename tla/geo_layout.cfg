SPECIFICATION Spec
CONSTANT Volumes <- AllVolumes
INVARIANTS TypeOK MountFindsFormat ClustersAreOnDisc TableIsLargeEnough
PROPERTY LoadedAsSaved
CHECK_DEADLOCK FALSE
