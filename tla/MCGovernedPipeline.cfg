SPECIFICATION GSpec
CONSTANTS
  Threads     = {t1, t2}
  Approvals   <- MCApprovals
  NoContext   = NoContext
  MaxVerdicts = 2
  Levels      = {3}
  Calls       <- MCCalls
  Found       <- MCFound
  Presented   <- MCPresented
  Digests     <- MCDigests
  Empty       = Empty
  Ttl         = 1
  MaxTime     = 1
  MaxEvents   = 4
SYMMETRY ThreadSymmetry
CHECK_DEADLOCK FALSE
INVARIANTS
  CapabilityTracesToApproval
  ToldIsUsable
  DeliveredToItsCall
  EvidenceFollowsCause
  EvidenceIsComplete
  OutboundNamesItsApproval
PROPERTIES
  UsesStore
