SPECIFICATION MCSpec
CONSTANTS
  p1 = p1
  p2 = p2
  p3 = p3
  n1 = n1
  n2 = n2
  Daemon = Daemon
  NoConfig = NoConfig
  Names <- TwoNames
  Calls <- ThreeCalls
  Configs <- TwoConfigs
INVARIANT TypeOK
INVARIANT ServiceUp
INVARIANT SomeCallSucceeds
PROPERTY UpIsStable
PROPERTY EnsuresService
PROPERTY SettlesUp
CHECK_DEADLOCK FALSE
