---------------------------- MODULE PriceQueues ----------------------------
(* What a price level promises: orders wait in the order they came in, any  *)
(* of them may be cancelled, and the level knows its volume.                *)
EXTENDS Integers, SequencesExt

CONSTANTS Levels, Orders, Quantities, VolumeModulus

VARIABLES
  queue,       \* the orders of each level, first come first
  quantity,    \* of each order
  volume

Init ==
  /\ queue = [l \in Levels |-> <<>>]
  /\ quantity \in [Orders -> Quantities]
  /\ volume = [l \in Levels |-> 0]

Waiting(o) == \E l \in Levels : o \in Range(queue[l])

Insert(l, o, q) ==
  /\ volume' = [volume EXCEPT ![l] = (@ + q) % VolumeModulus]
  /\ quantity' = [quantity EXCEPT ![o] = q]
  /\ ~Waiting(o) /\ queue' = [queue EXCEPT ![l] = Append(@, o)]

Cancel(l, o) ==
  /\ volume' = [volume EXCEPT ![l] = (@ - quantity[o]) % VolumeModulus]
  /\ UNCHANGED quantity
  /\ \E i \in 1..Len(queue[l]) : queue[l][i] = o /\ queue' = [queue EXCEPT ![l] = RemoveAt(@, i)]

Next ==
  \E l \in Levels, o \in Orders :
    Cancel(l, o) \/ \E q \in Quantities : Insert(l, o, q)

Spec == Init /\ [][Next]_<<queue, quantity, volume>>
=============================================================================
