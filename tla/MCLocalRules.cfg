SPECIFICATION Spec
CONSTANTS
  first = first
  second = second
  other = other
  e1 = e1
  e2 = e2
  sensor = sensor
  door = door
  Package <- MCPackage
  Event = {e1}
  RuleOf <- MCRuleOf
  Invalid = {other}
  Outcome <- MCOutcome
  Refused <- MCRefused
  MaxRows = 6
  UploadLimit = 2
  MaxTakes = 2
  MaxFaults = 1
  MaxCrashes = 1
CHECK_DEADLOCK FALSE
INVARIANTS TypeOK ActedOnce ActedOnRecord
PROPERTIES PackagesConverge EvidenceReachesCore
