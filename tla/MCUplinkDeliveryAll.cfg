SPECIFICATION Spec
CONSTANTS
  Event = {e1, e2}
  Snapshot = {s1}
  NoItem = NoItem
  Payload <- MCPayload
  ByteSize <- MCByteSize
  MaxBytes = 2
  MaxAge = 0
  Threshold = 1
  Recovery = 0
  BatchSize = 2
  MaxAttempts = 2
  Expires = TRUE
  OthersRecover = TRUE
  MaxFaults = 1
  MaxRestarts = 1
  MaxFailures = 3
SYMMETRY Symmetry
INVARIANTS AcknowledgedIsIngested
PROPERTIES LiveSessionIsKept RealtimeIsFirstDelivery
