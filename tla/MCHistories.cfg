SPECIFICATION SuiteSpec
CONSTANTS
  META_SIZE = 1
  Sizes = {1, 2}
  SizeModulus = 16
  HeapLimit = 8
  OthersRace = FALSE
  Levels = {l1, l2}
  Lots = {1, 2}
  Capacity = 4
  VolumeModulus = 4
  NULL = NULL
  Prices = {1, 2, 3}
  Quantities = {1, 2, 3}
  MaxOrders = 4
  ByteBase = 3
  AddOrderSize = 4
  MessageSizes = {1, 4, 5}
  MaxMessages = 3
  UintModulus = 256
  Digits = {0, 1, 2, 5, 8, 9}
  MaxDigits = 4
  Processes = {p1, p2}
  Records = 4
  MaxPoll = 2
  MaxStarts = 3
  MaxErrors = 1
  Window = 1
  MaxTime = 2
  MaxEvents = 4
  NoTimer = NoTimer
  Withdrawals = {w1, w2}
  Attempts = {t1, t2, t3}
  Sums = {0, 1}
  MaxVersion = 4
  NoView = NoView
  Encoders = {e1, e2, e3}
  MaxSessions = 2
INVARIANTS HeapIsSound BookIsSound FeedIsRead StreamIsExact AlertsAreExact WithdrawalsAreSound EncodersAreSound
PROPERTIES ImplementsQueues
SYMMETRY Symmetry
CHECK_DEADLOCK FALSE
