SPECIFICATION ThreadsSpec
CONSTANTS
  a = a
  b = b
  NoItem = NoItem
  Enqueuer = {s1, s2}
  Reader = {u1}
  Payload <- MCPayload
  ByteSize <- MCOneSize
  Expires = TRUE
  Resumes = TRUE
  MaxBytes = 1
  MaxAge = 0
  MaxSequence = 3
  MaxDropped = 2
SYMMETRY Symmetry
INVARIANTS ThreadsTypeOK ResumeRepairs
