SPECIFICATION Spec
SYMMETRY Symmetric
CONSTANTS
  Payloads  = {authorized, refused}
  Keys      = {k1, k2}
  MaxEvents = 3
  MaxEpochs = 2
  MaxSink   = 2
  MaxCheckpoints = 1
INVARIANTS
  NothingLost
  SinkInOrder
  ReceiptsTruthful
  SnapshotVerifies
  CheckpointHonoured
  TamperingDetected
  TruncationDetected
CHECK_DEADLOCK FALSE
