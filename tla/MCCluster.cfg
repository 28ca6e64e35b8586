SPECIFICATION MCSpec
CONSTANTS
  p1 = p1
  p2 = p2
  kind1 = kind1
  k3d1 = k3d1
  kind2 = kind2
  k3d2 = k3d2
  desktop = desktop
  Daemon = Daemon
  Names <- AllNames
  Procs <- TwoProcs
  ProductOf <- MCProductOf
  Requests <- AllRequests
  Worlds <- AllWorlds
  Faulty <- RetryNames
  LocalDesktop = TRUE
  Ports <- TwoPorts
  DefaultVersion <- MCDefaultVersion
  Versions <- MCVersions
ACTION_CONSTRAINT Turns
SYMMETRY Symmetry
INVARIANT TypeOK
PROPERTY AppliedHolds
PROPERTY MatchIsKept
PROPERTY DeletedIsGone
PROPERTY RetrySucceeds
CHECK_DEADLOCK FALSE
