SPECIFICATION Spec
CHECK_DEADLOCK FALSE
CONSTANTS
  Threads = {t1, t2}
  Sessions = {"s1", "s2"}
  Classes = {"deploy"}
  Risks = {45, 60, 96}
  Agencies = {0, 3}
  Issued <- TwoTokens
  Durations = {1}
  MaxNow = 2
  MaxCalls = 4
PROPERTIES
  AuthorizedOnStandingGrant
