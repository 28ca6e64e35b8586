SPECIFICATION MCSpec
CONSTANTS
  p1 = p1
  p2 = p2
  kind1 = kind1
  kind2 = kind2
  k3d1 = k3d1
  mini1 = mini1
  Names <- AllNames
  Procs <- TwoProcs
  PrefixOf <- MCPrefixOf
  Requests <- AllRequests
  Tools <- MCTools
  Worlds <- MCWorlds
  Faulty <- Nowhere
PROPERTY RefusedCostsNothing
ACTION_CONSTRAINT SharedOrInTurn
CHECK_DEADLOCK FALSE
