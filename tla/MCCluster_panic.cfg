SPECIFICATION SoloSpec
CONSTANTS
  p1 = p1
  p2 = p2
  kind1 = kind1
  k3d1 = k3d1
  kind2 = kind2
  k3d2 = k3d2
  desktop = desktop
  Daemon = Daemon
  Names <- SoloNames
  Procs <- TwoProcs
  ProductOf <- MCProductOf
  Requests <- SoloRequests
  Worlds <- SoloWorlds
  Faulty <- Nowhere
  LocalDesktop = TRUE
  Ports <- TwoPorts
  DefaultVersion <- MCDefaultVersion
  Versions <- MCVersions
ACTION_CONSTRAINT Turns
INVARIANT DeleteNeverPanics
CHECK_DEADLOCK FALSE
