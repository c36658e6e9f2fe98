SPECIFICATION Spec
CONSTANTS
  small = small
  large = large
  oversized = oversized
  Payload <- MCPayload
  ByteSize <- MCByteSize
  MaxBytes = 4
  MaxAge = 1
  MaxSequence = 5
  MaxDropped = 5
INVARIANTS TypeOK NoGap WithinByteLimit
PROPERTIES NothingLeavesUncounted ImplementsLog
