SPECIFICATION MCSpec
CONSTANTS
  p1 = p1
  p2 = p2
  Procs <- TwoProcs
  Requests <- AllRequests
  Worlds <- MCWorlds
  MaxCPUs = 4
  Faults <- First
INVARIANT TypeOK
INVARIANT SomeSetSurvives
PROPERTY DoesWhatIsAsked
PROPERTY AloneSucceeds
PROPERTY RestartTakesEffect
PROPERTY EveryCallReturns
ACTION_CONSTRAINT RivalsOnly
CHECK_DEADLOCK FALSE
