------------------------------ MODULE MCOnChain ------------------------------
(* Model checking of the blockchain components: the governance contract,    *)
(* the market maker and its square root, the Merkle root and the parallel   *)
(* miner.  `subject' says which of them a behaviour is about; the other     *)
(* ones stay as they were initially.                                        *)
EXTENDS DaoGovernance, NewtonSqrt

CONSTANTS Amounts, WordModulus, FeeScale, FeeKept, MaxReserve, MaxDepth,   \* of the pool
          Transactions, MaxTransactions,                    \* of the Merkle root
          Threads, NonceEnd, Bytes, HashLen, difficulty_prefix_zeros   \* of the miner

VARIABLES
  subject,
  reserve, totalSupply, status, balance, calls, before,
  transactions, current_level, root,
  hash, found, winning_nonce, untried, pc, current_nonce, seen, any, nonce, result

Amm    == INSTANCE ConstantProductAMM
Merkle == INSTANCE MerkleRoot
Miner  == INSTANCE PowMiner WITH MaxNonce <- NonceEnd

ASSUME OnChainAssumption == Amm!WordAssumption /\ Miner!MinerAssumption

SmallInputs == 0..1100

ammVars == <<reserve, totalSupply, status, balance, calls, before>>
merkleVars == <<transactions, current_level, root>>
minerVars == <<hash, found, winning_nonce, untried, pc, current_nonce, seen, any, nonce, result>>

(* What the algorithms are given matters when they are the subject. *)
SqrtIdle == y = 0 /\ z = 0 /\ x = 0 /\ done = TRUE
MerkleIdle == transactions = <<>> /\ current_level = <<>> /\ root = Merkle!None
MinerIdle ==
  /\ hash = <<>> /\ found = FALSE /\ winning_nonce = 0 /\ untried = {}
  /\ pc = <<>> /\ current_nonce = <<>> /\ seen = {} /\ any = FALSE
  /\ nonce = Miner!Unset /\ result = "none"

SuiteInit ==
  /\ subject \in {"dao", "sqrt", "amm", "merkle", "miner"}
  /\ Init /\ Amm!Init
  /\ IF subject = "sqrt" THEN SqrtInit ELSE SqrtIdle
  /\ IF subject = "merkle" THEN Merkle!Init ELSE MerkleIdle
  /\ IF subject = "miner" THEN Miner!Init ELSE MinerIdle

(* Nobody need call a contract, and _sqrt returns. *)
AtRest == subject \in {"dao", "amm"} \/ (subject = "sqrt" /\ done)

SuiteNext ==
  /\ UNCHANGED subject
  /\ \/ subject = "dao" /\ Next /\ UNCHANGED <<sqrtVars, ammVars, merkleVars, minerVars>>
     \/ subject = "sqrt" /\ SqrtNext /\ UNCHANGED <<vars, ammVars, merkleVars, minerVars>>
     \/ subject = "amm" /\ Amm!Next /\ UNCHANGED <<vars, sqrtVars, merkleVars, minerVars>>
     \/ subject = "merkle" /\ Merkle!Next /\ UNCHANGED <<vars, sqrtVars, ammVars, minerVars>>
     \/ subject = "miner" /\ Miner!Next /\ UNCHANGED <<vars, sqrtVars, ammVars, merkleVars>>
     \/ AtRest /\ UNCHANGED <<vars, sqrtVars, ammVars, merkleVars, minerVars>>

(* The algorithms run to their end and the miner's threads are scheduled;   *)
(* nothing is assumed of those who call the contracts.                      *)
SuiteFairness ==
  /\ WF_sqrtVars(subject = "sqrt" /\ SqrtNext)
  /\ WF_merkleVars(subject = "merkle" /\ Merkle!Next)
  /\ WF_minerVars(subject = "miner" /\ Miner!Return)
  /\ \A t \in Threads : WF_minerVars(subject = "miner" /\ Miner!Worker(t))

SuiteSpec ==
  /\ SuiteInit
  /\ [][SuiteNext]_<<subject, vars, sqrtVars, ammVars, merkleVars, minerVars>>
  /\ SuiteFairness

-----------------------------------------------------------------------------
(* What a share of the pool is worth never drops, whatever token contracts  *)
(* do while swap and addLiquidity call them.                                *)
ShareValueNeverDrops == Amm!ShareValueNeverDrops

(* A block is sound: calculate_merkle_root returns the root of the binary   *)
(* tree over all the transactions, whatever their number; when              *)
(* mine_block_parallel succeeds, the nonce in the header is one whose hash  *)
(* has the required zeros, whichever workers have won or aborted; and it    *)
(* fails only if no nonce of the range is good enough.                      *)
BlockIsSound == Merkle!RootIsTree /\ Miner!VerdictIsMined

(* The loops of _sqrt and calculate_merkle_root end, and so does the search *)
(* of mine_block_parallel.                                                  *)
AlgorithmsEnd ==
  /\ subject = "sqrt" => SqrtEnds
  /\ subject = "merkle" => Merkle!Terminates
  /\ subject = "miner" => Miner!Ends
=============================================================================
