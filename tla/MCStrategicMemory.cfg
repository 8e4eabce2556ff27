SPECIFICATION Spec
CHECK_DEADLOCK FALSE
SYMMETRY Symmetric
CONSTANTS
  Threads = {t1, t2}
  Sessions = {s1}
  Actors = {a1}
  Hashes = {h1, h2, h3}
  Durable = TRUE
  MaxTurns = 3
  MaxRestarts = 1
INVARIANTS
  PersistedStays
PROPERTIES
  CampaignStays
