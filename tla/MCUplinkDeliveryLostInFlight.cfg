SPECIFICATION Spec
CONSTANTS
  Event = {e1, e2}
  Snapshot = {}
  NoItem = NoItem
  Payload <- MCPayload
  ByteSize <- MCByteSize
  MaxBytes = 2
  MaxAge = 0
  Threshold = 1
  Recovery = 0
  BatchSize = 1
  MaxAttempts = 2
  Expires = TRUE
  OthersRecover = FALSE
  MaxFaults = 1
  MaxRestarts = 0
  MaxFailures = 3
PROPERTY NoSilentLoss
