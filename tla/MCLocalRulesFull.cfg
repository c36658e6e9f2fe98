SPECIFICATION Spec
CONSTANTS
  first = first
  second = second
  other = other
  e1 = e1
  e2 = e2
  sensor = sensor
  door = door
  Package <- MCPackage
  Event = {e1, e2}
  RuleOf <- MCRuleOf
  Invalid = {}
  Outcome <- MCOutcome
  Refused <- MCRefused
  MaxRows = 2
  UploadLimit = 2
  MaxTakes = 2
  MaxFaults = 0
  MaxCrashes = 0
CHECK_DEADLOCK FALSE
INVARIANTS ReservationKept
PROPERTIES PruneSparesEvidence
