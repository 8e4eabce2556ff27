SPECIFICATION Spec
CONSTANTS
  Requests  <- MCRequests
  Presented <- MCPresented
  Digests   <- MCDigests
  Empty     = ""
  Ttl       = 1
  MaxTime   = 3
INVARIANTS
  OneCapabilityPerTransaction
  AtMostOneExecution
  ExecutionsMatchDecision
  FreshCapabilityIsSpendable
PROPERTIES
  ImplementsSingleUse
