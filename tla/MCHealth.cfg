CONSTANTS
  UnhealthyThreshold = 2
  HealthyThreshold = 3
  Cooldown = 3
  Cap = 4
  Steps <- MCSteps
SPECIFICATION FairSpec
INVARIANTS TypeOK CountersAreStreaks
PROPERTIES StaysForCooldown TransitionsEarned ProbesDecide
