SPECIFICATION Spec
CONSTANTS
  InitialSizes = {0, 2}
  MaxProcesses = 4
  MaxChurn = 3
INVARIANT ErrorMeansFailure
