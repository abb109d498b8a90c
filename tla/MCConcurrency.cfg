SPECIFICATION Spec
CONSTANTS
  Capacity = 4
  IndexModulus = 8
  Transactions = 19
  CAPACITY = 2
  UsizeModulus = 4
  Signals = 6
  Restarts = 0
  Slots = 2
  Trades = 5
  Goroutines = {w1, w2}
  TaskCount = 4
  size = 3
  Jobs = 3
  numWorkers = 4
  Iterations = 2
  Cells = {0, 1}
  Chunks = 4
  PoolSize = 3
  InitialSizes = {0, 2}
  MaxProcesses = 4
  MaxChurn = 3
  Input <- Powers
  ScanSizes = {0, 3, 6, 9}
  blockSize = 8
  warpSize = 4
  ReductionSizes = {0, 3, 7}
  workGroupSize = 4
  subGroupSize = 2
  Tile = 2
  MatrixSizes = {0, 1, 2, 3, 4}
  WarpRows = 2
  WarpCols = 2
INVARIANTS NoSlotRace PipelineDelivers EachJobRunsOnce NoIncrementLost OutputIsComplete BufferIsExact ScanIsExact ReductionIsSum 
PROPERTIES BuffersAreFifo ProgramsEnd
