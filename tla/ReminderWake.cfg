SPECIFICATION FairSpec
CONSTANTS
  daily = daily once = once codex = codex caelis = caelis
  Schedule = {daily, once}
  Provider = {codex, caelis}
  Slot <- Slots
  Allowed <- Windows
  Origin <- SameOrigin
  Batching = {codex}
  MaxTime = 4
  MaxWakes = 3
  MaxEdits = 3
  MaxDelays = 1
  MaxFaults = 1
  MaxRestarts = 1
INVARIANTS TypeOK RemindsOnce GivenIsFenced RightRuntime AcceptedTrue
PROPERTY DueReminds
CHECK_DEADLOCK FALSE
