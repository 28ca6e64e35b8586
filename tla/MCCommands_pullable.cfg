SPECIFICATION Spec
CONSTANTS
  None = ""
  p1 = p1
  p2 = p2
  Clusters <- TwoClusters
  Registries <- TwoRegistries
  ProductOf <- MCProductOf
  DefaultCluster <- MCDefaultCluster
  AliasOf <- MCAliasOf
  DefaultRegistry = "ctlptl-registry"
  Ports <- TwoPorts
  Procs <- TwoProcs
  Requests <- AllRequests
  Worlds <- MCWorlds
  Faults <- Nobody
ACTION_CONSTRAINT Turns
PROPERTY AppliedIsPullable
CHECK_DEADLOCK FALSE
