SPECIFICATION Spec
CONSTANTS
  lamp = lamp
  NumCommands = 3
  Light <- MCLight
  LightOf <- MCLightOf
  GoalOf <- MCGoalOf
  NotAllowlisted = {3}
  ClaimLimit = 2
  MaxAttempts = 2
  MaxFaults = 2
  MaxCrashes = 1
INVARIANTS TypeOK OneVerdict ExecutedWasAccepted
PROPERTIES NoCallAfterResult CallsKeepOrder EveryCommandAnswered
