SPECIFICATION LoopSpec
CONSTANT LastCluster = 4
PROPERTIES ImplementsCalls EveryCallReturns
