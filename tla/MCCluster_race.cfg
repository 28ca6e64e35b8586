SPECIFICATION RaceSpec
CONSTANTS
  p1 = p1
  p2 = p2
  kind1 = kind1
  k3d1 = k3d1
  kind2 = kind2
  k3d2 = k3d2
  desktop = desktop
  Daemon = Daemon
  Names <- KindOnly
  Procs <- TwoProcs
  ProductOf <- MCProductOf
  Requests <- RaceRequests
  Worlds <- RaceWorlds
  Faulty <- Nowhere
  LocalDesktop = FALSE
  Ports <- TwoPorts
  DefaultVersion <- MCDefaultVersion
  Versions <- MCVersions
INVARIANT SameSpecHolds
PROPERTY EveryCallReturns
CHECK_DEADLOCK FALSE
