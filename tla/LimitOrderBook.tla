--------------------------- MODULE LimitOrderBook ---------------------------
(* The price levels of 02-High-Frequency-Trading-Engine/                    *)
(* cache-line-optimized-limit-order-book.c: doubly linked lists threaded    *)
(* through nodes that are claimed, once each, from a pool.  The engine that *)
(* uses them cancels an order it has inserted, at its level, once.          *)
EXTENDS Integers, SequencesExt

CONSTANTS
  Levels, Quantities,
  Capacity,         \* nodes in the pool
  VolumeModulus,    \* 2^32 in the code
  NULL

NullAssumption == Capacity \in Nat /\ NULL \notin 1..Capacity /\ VolumeModulus \in Nat \ {0}

VARIABLES
  next_free_index,
  next, prev, quantity,         \* the nodes 1..Capacity
  head, tail, total_volume,     \* the levels
  live                          \* the nodes the engine holds, with their level

vars == <<next_free_index, next, prev, quantity, head, tail, total_volume, live>>

Nodes == 1..Capacity
Pointer == Nodes \union {NULL}

(* Pointers are NULL or point into the pool, and the volume stays in its word.*)
TypeOK ==
  /\ next_free_index \in 0..Capacity
  /\ next \in [Nodes -> Pointer] /\ prev \in [Nodes -> Pointer]
  /\ quantity \in [Nodes -> Quantities]
  /\ head \in [Levels -> Pointer] /\ tail \in [Levels -> Pointer]
  /\ total_volume \in [Levels -> 0..(VolumeModulus - 1)]
  /\ live \subseteq Levels \X Nodes

(* init_order_pool leaves the nodes uninitialised. *)
Init ==
  /\ next_free_index = 0
  /\ next \in {[n \in Nodes |-> p] : p \in Pointer} /\ prev = next
  /\ quantity \in {[n \in Nodes |-> q] : q \in Quantities}
  /\ head = [l \in Levels |-> NULL] /\ tail = head
  /\ total_volume = [l \in Levels |-> 0]
  /\ live = {}

-----------------------------------------------------------------------------
(* allocate_order_from_pool; with none left the order is not inserted. *)
allocate_order_from_pool ==
  next_free_index < Capacity /\ next_free_index' = next_free_index + 1

(* mutant: the previous node is not linked to the new one *)
linkAtTailHeadOnly(l, n) ==
  head' = [head EXCEPT ![l] = IF tail[l] = NULL THEN n ELSE @] /\ next' = [next EXCEPT ![n] = NULL]
linkAtTail(l, n) ==
  IF tail[l] # NULL
  THEN next' = [next EXCEPT ![n] = NULL, ![tail[l]] = n] /\ UNCHANGED head
  ELSE next' = [next EXCEPT ![n] = NULL] /\ head' = [head EXCEPT ![l] = n]

(* insert_order_at_level *)
insert_order_at_level(l, q) ==
  LET n == next_free_index + 1 IN
  /\ allocate_order_from_pool
  /\ linkAtTail(l, n)
  /\ prev' = [prev EXCEPT ![n] = tail[l]]
  /\ tail' = [tail EXCEPT ![l] = n]
  /\ quantity' = [quantity EXCEPT ![n] = q]
  /\ total_volume' = [total_volume EXCEPT ![l] = (@ + q) % VolumeModulus]
  /\ live' = live \union {<<l, n>>}

(* The two halves of unlinking a node. *)
unlinkForward(l, n) ==
  IF prev[n] # NULL
  THEN next' = [next EXCEPT ![prev[n]] = next[n]] /\ UNCHANGED head
  ELSE head' = [head EXCEPT ![l] = next[n]] /\ UNCHANGED next

unlinkBackward(l, n) ==
  IF next[n] # NULL
  THEN prev' = [prev EXCEPT ![next[n]] = prev[n]] /\ UNCHANGED tail
  ELSE tail' = [tail EXCEPT ![l] = prev[n]] /\ UNCHANGED prev

volumeWithout(l, n) == (total_volume[l] - quantity[n]) % VolumeModulus

(* cancel_order; the node does not go back to the pool. *)
cancel_order(l, n) ==
  /\ <<l, n>> \in live
  /\ unlinkForward(l, n) /\ unlinkBackward(l, n)
  /\ total_volume' = [total_volume EXCEPT ![l] = volumeWithout(l, n)]
  /\ live' = live \ {<<l, n>>}
  /\ UNCHANGED <<next_free_index, quantity>>

Next ==
  \E l \in Levels :
    \/ \E q \in Quantities : insert_order_at_level(l, q)
    \/ \E n \in Nodes : cancel_order(l, n)

Spec == Init /\ [][Next]_vars

-----------------------------------------------------------------------------
(* Walk[k][n] is the nodes met from n on along next, k of them at most. *)
Walk[k \in Nat] ==
  [n \in Pointer |-> IF n = NULL \/ k = 0 THEN <<>> ELSE <<n>> \o Walk[k - 1][next[n]]]

Forward(l) == Walk[Capacity + 1][head[l]]

(* The nodes of a level from its head on are its queue. *)
Queues == INSTANCE PriceQueues
            WITH Orders <- Nodes, queue <- [l \in Levels |-> Forward(l)], volume <- total_volume

(* The pointers implement queues in order of arrival: an insertion goes to  *)
(* the end and a cancellation takes out one order and moves no other.       *)
ImplementsQueues == Queues!Spec
=============================================================================
