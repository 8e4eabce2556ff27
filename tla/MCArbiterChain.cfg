SPECIFICATION Spec
CONSTANTS
  Threads    = {t1, t2}
  Sessions   = {s1}
  Signals    <- FewSignals
  Graded     <- AllSignals
  Medium     = 70
  High       = 80
  Critical   = 90
  MaxCalls   = 2
  MaxForeign = 0
INVARIANTS
  PrevIsPredecessor
CHECK_DEADLOCK FALSE
