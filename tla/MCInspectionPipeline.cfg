SPECIFICATION Spec
CHECK_DEADLOCK FALSE
SYMMETRY ThreadSymmetry
CONSTANTS
  Threads = {t1, t2}
  Sessions = {s1}
  Kinds = {"inbound", "outbound", "end", "reset"}
  Signals <- AllSignals
  Advised = {"Clear", "Elevated"}
  Medium = 70
  High = 80
  Critical = 90
  BlockThreshold = 70
  MaxCalls = 5
  MaxOverlapping = 3
INVARIANTS
  ApprovalAccountsForEveryLayer
  AnswerIsKept
  NoConstitutionalBlock
  EndClearsItsMaps
  FloorBindsItsTurn
