SPECIFICATION Spec
CONSTANTS
  Processes = {p1, p2}
  Records = 4
  MaxPoll = 2
  MaxStarts = 3
  MaxErrors = 1
INVARIANT NoLoss
CHECK_DEADLOCK FALSE
