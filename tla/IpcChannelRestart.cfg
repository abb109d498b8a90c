SPECIFICATION RestartingSpec
CONSTANTS
  CAPACITY = 2
  IndexModulus = 8
  Signals = 4
  Restarts = 1
INVARIANT ReaderSeesPayload
CHECK_DEADLOCK FALSE
