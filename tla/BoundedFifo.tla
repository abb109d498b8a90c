---------------------------- MODULE BoundedFifo ----------------------------
(* What a bounded single-producer single-consumer queue promises: the items *)
(* come out in the order they went in, each once, at most Capacity waiting. *)
EXTENDS Naturals, Sequences

CONSTANTS Capacity, Items

VARIABLES queue, received

Init == queue = <<>> /\ received = <<>>

Enqueue(x) ==
  /\ Len(queue) < Capacity
  /\ queue' = Append(queue, x)
  /\ UNCHANGED received

Dequeue ==
  /\ queue # <<>>
  /\ received' = Append(received, Head(queue))
  /\ queue' = Tail(queue)

Next == (\E x \in Items : Enqueue(x)) \/ Dequeue

Spec == Init /\ [][Next]_<<queue, received>>
=============================================================================
