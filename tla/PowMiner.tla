------------------------------ MODULE PowMiner ------------------------------
(* mine_block_parallel of                                                   *)
(* 08-Web3-and-Cryptographic-Blockchains/merkle-tree-pow-miner.rs: Rayon    *)
(* workers try the nonces and report through two relaxed atomics.           *)
EXTENDS Integers, Sequences

CONSTANTS Threads,   \* of the Rayon pool
          MaxNonce,  \* stands for u64::MAX, which the range excludes
          Bytes,     \* the values a byte of a hash takes: 0, some below 16, some above
          HashLen,   \* bytes in a hash
          difficulty_prefix_zeros

MinerAssumption ==
  /\ MaxNonce \in Nat /\ HashLen \in Nat \ {0} /\ difficulty_prefix_zeros \in Nat
  /\ Bytes \subseteq 0..255

VARIABLES
  hash,           \* hash[nonce] of the header with that nonce, any function
  found, winning_nonce,
  untried,        \* the nonces no worker has taken
  pc,             \* pc[t]: where the closure of find_any stands in worker t
  current_nonce,  \* current_nonce[t]: its argument
  seen,           \* the workers that have read or written found = true
  any,            \* a closure has returned true: Rayon hands out no more items
  nonce,          \* header_template.nonce, or Unset
  result          \* what mine_block_parallel returns

vars == <<hash, found, winning_nonce, untried, pc, current_nonce, seen, any, nonce, result>>

Nonces == 0 .. MaxNonce - 1
Unset == -1

(* Only nonces of the range are tried and reported; u64::MAX is not one.    *)
TypeOK ==
  /\ hash \in [Nonces -> [1..HashLen -> Bytes]]
  /\ found \in BOOLEAN /\ winning_nonce \in Nonces \union {0}
  /\ untried \subseteq Nonces
  /\ pc \in [Threads -> {"idle", "load", "hash", "nonce"}]
  /\ current_nonce \in [Threads -> Nonces \union {0}]
  /\ seen \subseteq Threads /\ any \in BOOLEAN
  /\ nonce \in Nonces \union {Unset} /\ result \in {"none", "true", "false"}

Init ==
  /\ hash \in [Nonces -> [1..HashLen -> Bytes]]
  /\ found = FALSE /\ winning_nonce = 0
  /\ untried = Nonces
  /\ pc = [t \in Threads |-> "idle"] /\ current_nonce = [t \in Threads |-> 0]
  /\ seen = {} /\ any = FALSE
  /\ nonce = Unset /\ result = "none"

-----------------------------------------------------------------------------
(* The counting loop: 2 for each leading zero byte, 1 more when the byte    *)
(* that stops it is below 16.                                               *)
ZeroCount(h) ==
  LET zeros == {n \in 0..HashLen : \A i \in 1..n : h[i] = 0}
      n == CHOOSE k \in zeros : \A m \in zeros : m <= k
  IN  2 * n + (IF n < HashLen /\ h[n + 1] < 16 THEN 1 ELSE 0)

(* Rayon gives the worker a nonce nobody has had.  Work stealing makes the  *)
(* order arbitrary.  That an item was found reaches a worker at some time   *)
(* only: it may take more items after another worker's success.             *)
Take(t) ==
  /\ result = "none" /\ pc[t] = "idle"
  /\ \E n \in untried : /\ untried' = untried \ {n}
                        /\ current_nonce' = [current_nonce EXCEPT ![t] = n]
  /\ pc' = [pc EXCEPT ![t] = "load"]
  /\ UNCHANGED <<hash, found, winning_nonce, seen, any, nonce, result>>

(* found.load(Relaxed) is true: the closure returns true. *)
LoadTrue(t) ==
  /\ pc[t] = "load" /\ found
  /\ pc' = [pc EXCEPT ![t] = "idle"]
  /\ seen' = seen \union {t} /\ any' = TRUE
  /\ UNCHANGED <<hash, found, winning_nonce, untried, current_nonce, nonce, result>>

(* It is false, or was: a relaxed load may miss another worker's store, but *)
(* not after this worker has seen it.                                       *)
LoadFalse(t) ==
  /\ pc[t] = "load" /\ t \notin seen
  /\ pc' = [pc EXCEPT ![t] = "hash"]
  /\ UNCHANGED <<hash, found, winning_nonce, untried, current_nonce, seen, any, nonce, result>>

(* The hash meets the target, and found is stored. *)
Hit(t) ==
  /\ pc[t] = "hash" /\ ZeroCount(hash[current_nonce[t]]) >= difficulty_prefix_zeros
  /\ found' = TRUE /\ seen' = seen \union {t}
  /\ pc' = [pc EXCEPT ![t] = "nonce"]
  /\ UNCHANGED <<hash, winning_nonce, untried, current_nonce, any, nonce, result>>

(* mutant: after a miss the closure is run again *)
MissAgain(t) ==
  /\ pc[t] = "hash" /\ ZeroCount(hash[current_nonce[t]]) < difficulty_prefix_zeros
  /\ pc' = [pc EXCEPT ![t] = "load"]
  /\ UNCHANGED <<hash, found, winning_nonce, untried, current_nonce, seen, any, nonce, result>>

Miss(t) ==
  /\ pc[t] = "hash" /\ ZeroCount(hash[current_nonce[t]]) < difficulty_prefix_zeros
  /\ pc' = [pc EXCEPT ![t] = "idle"]
  /\ UNCHANGED <<hash, found, winning_nonce, untried, current_nonce, seen, any, nonce, result>>

(* winning_nonce.store: the last of several winners stays. *)
StoreNonce(t) ==
  /\ pc[t] = "nonce"
  /\ winning_nonce' = current_nonce[t] /\ any' = TRUE
  /\ pc' = [pc EXCEPT ![t] = "idle"]
  /\ UNCHANGED <<hash, found, untried, current_nonce, seen, nonce, result>>

(* mutant: the calling thread looks at found without waiting for the pool *)
JoinedNot == found \/ untried = {}

(* find_any returns when every worker is done, having run out of nonces or  *)
(* been stopped; their stores happen before the loads of the caller.        *)
Joined == (\A t \in Threads : pc[t] = "idle") /\ (any \/ untried = {})

Return ==
  /\ result = "none" /\ Joined
  /\ IF found THEN result' = "true" /\ nonce' = winning_nonce
              ELSE result' = "false" /\ UNCHANGED nonce
  /\ UNCHANGED <<hash, found, winning_nonce, untried, pc, current_nonce, seen, any>>

Returned == result # "none" /\ UNCHANGED vars

Worker(t) ==
  Take(t) \/ LoadTrue(t) \/ LoadFalse(t) \/ Hit(t) \/ Miss(t) \/ StoreNonce(t)

Next == (\E t \in Threads : Worker(t)) \/ Return \/ Returned

(* Workers and caller are threads of the system scheduler. *)
Fairness == WF_vars(Return) /\ \A t \in Threads : WF_vars(Worker(t))

Spec == Init /\ [][Next]_vars /\ Fairness

-----------------------------------------------------------------------------
(* The hexadecimal digits of a hash, and whether the first k are zeros.     *)
Digit(h, i) == LET byte == h[(i + 1) \div 2] IN IF i % 2 = 1 THEN byte \div 16 ELSE byte % 16
MeetsTarget(n, k) == k <= 2 * HashLen /\ \A i \in 1..k : Digit(hash[n], i) = 0

(* The nonce in the header is one whose hash has the required zeros: found  *)
(* is stored before winning_nonce, several workers may win, and a worker    *)
(* that aborts returns true as well with a nonce of its own.                *)
HeaderIsMined == result = "true" => MeetsTarget(nonce, difficulty_prefix_zeros)

(* The search fails only if no nonce of the range is good enough.           *)
FailsOnlyIfNone ==
  result = "false" => \A n \in Nonces : ~MeetsTarget(n, difficulty_prefix_zeros)

(* What mine_block_parallel says of the range is true, found or not.        *)
VerdictIsMined == HeaderIsMined /\ FailsOnlyIfNone

(* The search ends.                                                         *)
Ends == <>(result # "none")
=============================================================================
