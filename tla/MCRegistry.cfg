SPECIFICATION MCSpec
CONSTANTS
  p1 = p1
  p2 = p2
  n1 = n1
  n2 = n2
  n3 = n3
  Daemon = Daemon
  NoConfig = NoConfig
  Names <- AllNames
  Calls <- TwoCalls
  Configs <- AllConfigs
  Requests <- AllRequests
  ImageEnv <- MCImageEnv
  FreePorts <- OnlyPort
  Faulty <- FaultyOnly
  Tables <- AllTables
ACTION_CONSTRAINT Turns
SYMMETRY Symmetry
INVARIANT TypeOK
INVARIANT RegistryUp
INVARIANT SameSpecHolds
PROPERTY AppliedMatches
PROPERTY PreservesTheRest
PROPERTY UpToDateIsKept
PROPERTY CreateSparesExisting
PROPERTY RetrySucceeds
CHECK_DEADLOCK FALSE
