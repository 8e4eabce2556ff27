SPECIFICATION FairSpec
CONSTANTS
  Threads    = {t1, t2}
  Sessions   = {s1}
  Signals    <- FewSignals
  Graded     <- AllSignals
  Medium     = 70
  High       = 80
  Critical   = 90
  MaxCalls   = 3
  MaxForeign = 1
INVARIANTS
  RaisedIsAudited
  LastEntryCoversState
  ModifierOnlyTightens
PROPERTIES
  ChainReachesLog
  LoweredAfterAudit
CHECK_DEADLOCK FALSE
