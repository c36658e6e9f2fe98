SPECIFICATION Spec
CONSTANTS
  Threshold = 2
  Recovery = 2
  Prober = {p1, p2}
  Observer = {o1}
  NoPermit = NoPermit
  MaxFailures = 4
INVARIANTS TypeOK HalfOpenHasOneOwner
PROPERTIES StaleSuccessNeverCloses ProbeOnlyAfterQuiet Recovers
