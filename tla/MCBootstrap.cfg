SPECIFICATION Spec
CONSTANTS
  None = None
  Key <- MCKey
  CredentialInAnswer = TRUE
  MaxFaults = 2
  MaxEnds = 2
INVARIANTS TypeOK
PROPERTIES EnrolledOnce WaitsForBinding WholeIdentityGoesLive
