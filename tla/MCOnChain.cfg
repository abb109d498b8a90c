SPECIFICATION SuiteSpec
CONSTANTS
  Voters = {v1, v2}
  Proposals = {1, 2}
  Domains = {here, elsewhere}
  DOMAIN_SEPARATOR = here
  MaxNonce = 1
  MaxTime = 1
  Inputs <- SmallInputs
  Amounts = {0, 1, 4, 9}
  WordModulus = 256
  FeeScale = 10
  FeeKept = 9
  MaxReserve = 20
  MaxDepth = 2
  Transactions = {t1, t2}
  MaxTransactions = 9
  Threads = {1, 2}
  NonceEnd = 3
  Bytes = {0, 9, 16}
  HashLen = 2
  difficulty_prefix_zeros = 3
INVARIANTS VotesAreSigned IsSqrt BlockIsSound
PROPERTIES ShareValueNeverDrops AlgorithmsEnd
