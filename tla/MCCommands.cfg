SPECIFICATION Spec
CONSTANTS
  None = ""
  p1 = p1
  p2 = p2
  Clusters <- TwoClusters
  Registries <- TwoRegistries
  ProductOf <- MCProductOf
  DefaultCluster <- MCDefaultCluster
  AliasOf <- MCAliasOf
  DefaultRegistry = "ctlptl-registry"
  Ports <- TwoPorts
  Procs <- TwoProcs
  Requests <- AllRequests
  Worlds <- MCWorlds
  Faults <- FaultyFirst
ACTION_CONSTRAINT Turns
INVARIANT TypeOK
INVARIANT SameFileIsUp
PROPERTY AppliedFileHolds
PROPERTY DeletedIsGone
PROPERTY CascadeIsComplete
CHECK_DEADLOCK FALSE
