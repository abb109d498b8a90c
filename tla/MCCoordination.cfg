SPECIFICATION SuiteSpec
CONSTANTS
  Banks = {source, dest}
  id = 1
  MaxTerm = 3
  MaxRPCs = 3
  Locations = 5
  Capacity = 2
  Window = 2
INVARIANTS VerdictIsTrue AnswersAreComplete
PROPERTIES ImplementsAtomicCommit Phase1Ends OneCandidacyPerTerm NodeMakesProgress TaskEnds
