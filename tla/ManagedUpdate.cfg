SPECIFICATION FairSpec
CONSTANTS
  Newest = 2
  MaxInstalls = 1
  MaxCrashes = 1
  MaxDeaths = 1
  MaxFaults = 1
  MaxDamage = 1
INVARIANTS
  OnlyClosed
  RunsSelected
  HealthyTrue
  Recoverable
PROPERTIES
  Concludes
CHECK_DEADLOCK FALSE
