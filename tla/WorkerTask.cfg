SPECIFICATION Spec
CONSTANTS
  start = start send1 = send1 send2 = send2
  Start = start
  Sends = {send1}
  None = None
  Ends = {"completed"}
  Shared = FALSE
  MaxLag = 1
  MaxTurns = 2
  MaxFaults = 1
  MaxStops = 1
  MaxRestarts = 1
INVARIANTS DispatchedOnce ReceiptsTrue StopsItsTurn
CHECK_DEADLOCK FALSE
