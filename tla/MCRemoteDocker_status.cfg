SPECIFICATION MCSpec
CONSTANTS
  p1 = p1
  p2 = p2
  c1 = c1
  c2 = c2
  Clusters <- TwoClusters
  NoCluster = NoCluster
  PortOf <- MCPortOf
  Procs <- TwoProcs
  Requests <- MCRequests
  Worlds <- MCWorlds
  Service = Service
  ServiceConfig <- MCServiceConfig
  Daemon = Daemon
  NoConfig = NoConfig
  Before = Before
  MaxMishaps = 1
ACTION_CONSTRAINT RivalsOnly
PROPERTY RunningIsSeen
CHECK_DEADLOCK FALSE
