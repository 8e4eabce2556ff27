SPECIFICATION FairSpec
CHECK_DEADLOCK FALSE
CONSTANTS
  Callers <- Requests
  Nobody = 0
  Sessions = {s1}
  Payloads <- Texts
  DriftThreshold = 650
  Q09Threshold = 2
  SuspicionLimit = 2
  MaxToolCalls = 8
  MaxConnections = 2
  MaxHeaders = 1
  MaxRequests = 4
INVARIANTS
  EntryStays
  EvaluationSeesItsPast
PROPERTIES
  RefusedOnlyWhenFull
  EndsUnlessFed
