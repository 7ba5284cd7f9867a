SPECIFICATION FairSpec
CONSTANTS
  start = start send1 = send1 send2 = send2
  Start = start
  Sends = {send1}
  None = None
  Ends = {"completed"}
  Shared = TRUE
  MaxLag = 1
  MaxTurns = 2
  MaxFaults = 0
  MaxStops = 0
  MaxRestarts = 0
INVARIANT TerminalTrue
PROPERTY EndShown
CHECK_DEADLOCK FALSE
