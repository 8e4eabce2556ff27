SPECIFICATION SessionSpec
CHECK_DEADLOCK FALSE
CONSTANTS
  Signals <- AllSignals
  Classes = {"Benign", "Boundary", "Extraction", "AuthorityClaim"}
  MaxRetained = 3
  Window = 2
  MaxIngests = 5
INVARIANTS
  WindowLosesNothing
PROPERTIES
  EscalationRemembered
  StateFollowsThreat
