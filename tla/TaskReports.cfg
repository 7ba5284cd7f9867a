SPECIFICATION FairSpec
CONSTANTS
  MaxRuns = 2
  MaxDelays = 1
  MaxFaults = 1
  MaxRestarts = 1
INVARIANTS TypeOK GivenIsKept SettledTrue OnlyLatestPending PausedQuiet RetiredForGood
PROPERTY EndReported
