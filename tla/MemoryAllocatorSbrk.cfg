SPECIFICATION Spec
CONSTANTS
  META_SIZE = 1
  Sizes = {1, 2}
  SizeModulus = 16
  HeapLimit = 8
  OthersRace = TRUE
INVARIANT NoOverlap
CHECK_DEADLOCK FALSE
