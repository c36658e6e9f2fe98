SPECIFICATION Spec
CONSTANTS
  None = None
  Key <- MCKey
  CredentialInAnswer = TRUE
  MaxFaults = 0
  MaxEnds = 1
PROPERTY BoundGoesLive
