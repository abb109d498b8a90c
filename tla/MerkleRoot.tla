----------------------------- MODULE MerkleRoot -----------------------------
(* calculate_merkle_root of                                                 *)
(* 08-Web3-and-Cryptographic-Blockchains/merkle-tree-pow-miner.rs: the loop *)
(* that hashes pairs level by level.  A hash is the tuple that was hashed,  *)
(* which is what a collision-free sha256_double amounts to.                 *)
EXTENDS Integers, Sequences, SequencesExt

CONSTANTS Transactions,     \* what is hashed of a transaction (not its signature)
          MaxTransactions

VARIABLES transactions, current_level, root

vars == <<transactions, current_level, root>>

sha256_double(data) == <<"sha256", data>>
None == <<>>
Zero == <<"zero">>   \* [0; 32]

Leaves(txs) == [i \in DOMAIN txs |-> sha256_double(txs[i])]

Init ==
  /\ transactions \in BoundedSeq(Transactions, MaxTransactions)
  /\ current_level = Leaves(transactions)
  /\ root = None

(* mutant: an odd level is not evened out, and chunks(2) drops the last *)
EvenedNot(level) == SubSeq(level, 1, 2 * (Len(level) \div 2))

Evened(level) == IF Len(level) % 2 # 0 THEN Append(level, Last(level)) ELSE level

(* chunks(2).map(...) *)
HashPairs(level) ==
  [i \in 1 .. Len(level) \div 2 |-> sha256_double(<<level[2 * i - 1], level[2 * i]>>)]

(* One turn of the while loop. *)
Reduce ==
  /\ Len(current_level) > 1
  /\ current_level' = HashPairs(Evened(current_level))
  /\ UNCHANGED <<transactions, root>>

ReturnZero ==
  /\ root = None /\ transactions = <<>>
  /\ root' = Zero
  /\ UNCHANGED <<transactions, current_level>>

Return ==
  /\ root = None /\ Len(current_level) = 1
  /\ root' = current_level[1]
  /\ UNCHANGED <<transactions, current_level>>

Returned == root # None /\ UNCHANGED vars

Next == Reduce \/ ReturnZero \/ Return \/ Returned

Spec == Init /\ [][Next]_vars /\ WF_vars(Next)

-----------------------------------------------------------------------------
(* The reference, from the top: a tree is a pair of trees of half its span, *)
(* and where the right one would have no leaf the left one takes its place. *)
(* Subtrees[h].at[i] is the tree of height h whose first leaf is the i-th.  *)
Doubled(t) ==
  [span |-> 2 * t.span,
   at |-> [i \in DOMAIN transactions |->
             sha256_double(<<t.at[i], t.at[IF i + t.span <= Len(transactions) THEN i + t.span ELSE i]>>)]]

Subtrees[h \in Nat] ==
  IF h = 0 THEN [span |-> 1, at |-> Leaves(transactions)] ELSE Doubled(Subtrees[h - 1])

(* The smallest of them that spans all the leaves. *)
Height ==
  CHOOSE h \in 0..Len(transactions) :
    /\ Subtrees[h].span >= Len(transactions)
    /\ \A k \in 0..(h - 1) : Subtrees[k].span < Len(transactions)

Tree == Subtrees[Height].at[1]

(* What calculate_merkle_root returns is the root of the binary tree over   *)
(* all the transactions in their order, whatever their number; a level of   *)
(* odd length may occur at any height.                                      *)
RootIsTree ==
  root # None => root = IF transactions = <<>> THEN Zero ELSE Tree

(* The loop ends: also the evened levels shrink.                            *)
Terminates == <>(root # None)
=============================================================================
