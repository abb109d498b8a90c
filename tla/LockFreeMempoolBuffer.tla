------------------------ MODULE LockFreeMempoolBuffer ------------------------
(* The lock-free ring buffer of                                             *)
(* 02-High-Frequency-Trading-Engine/lock-free-ring-buffer.cpp and the two   *)
(* threads of simulate_gossip_protocol that share it.  Each index has one   *)
(* writer, whose own (relaxed) loads are exact; the other thread's acquire  *)
(* load may return any value the index has had since that thread last read  *)
(* it.  size_t is counted modulo IndexModulus.                              *)
EXTENDS Integers, Sequences

CONSTANTS
  Capacity,       \* the template parameter, 1024 in the simulation
  IndexModulus,   \* 2^64 in the code
  Transactions    \* how many the simulation sends, 50000 in the code

BufferAssumption ==
  /\ Capacity \in Nat \ {0} /\ Transactions \in Nat
  /\ IndexModulus \in Nat /\ IndexModulus > Capacity
  /\ IndexModulus % Capacity = 0   \* both are powers of 2

VARIABLES
  buffer_, head_, tail_,
  i,          \* the transaction the network thread is sending
  push,       \* the step of push() the network thread is at
  seen_tail,  \* current_tail of push()
  pop,        \* the step of pop() the mining thread is at
  seen_head,  \* current_head of pop()
  item,       \* item of pop()
  processed   \* what pop() has returned; processed_count is its length

producer == <<i, push, seen_tail>>
consumer == <<pop, seen_head, item, processed>>
vars == <<buffer_, head_, tail_, producer, consumer>>

Empty == 0      \* a slot, or an item, that was never written
Indices == 0..(IndexModulus - 1)

(* Indices wrap within their width, and slots hold transactions or nothing. *)
TypeOK ==
  /\ buffer_ \in [0..(Capacity - 1) -> 0..Transactions]
  /\ head_ \in Indices /\ tail_ \in Indices
  /\ i \in 1..(Transactions + 1)
  /\ push \in {"load", "write", "store"} /\ pop \in {"load", "read", "store"}
  /\ seen_tail \in Indices /\ seen_head \in Indices
  /\ item \in 0..Transactions /\ processed \in Seq(0..Transactions)

Init ==
  /\ buffer_ = [s \in 0..(Capacity - 1) |-> Empty]
  /\ head_ = 0 /\ tail_ = 0
  /\ i = 1 /\ push = "load" /\ seen_tail = 0
  /\ pop = "load" /\ seen_head = 0 /\ item = Empty /\ processed = <<>>

-----------------------------------------------------------------------------
(* What an acquire load of an index may return, given what it returned last.*)
Visible(seen, index) ==
  {(seen + d) % IndexModulus : d \in 0..((index - seen) % IndexModulus)}

(* index & (Capacity - 1) *)
Slot(index) == index % Capacity

(* mutant: full only once one more item than fits is waiting *)
FullOffByOne(tail) == (head_ - tail) % IndexModulus = Capacity + 1
Full(tail) == (head_ - tail) % IndexModulus = Capacity

(* push(): a full buffer returns false and the network thread tries again.  *)
PushLoad(tail) ==
  /\ push = "load" /\ i <= Transactions
  /\ seen_tail' = tail
  /\ push' = IF Full(tail) THEN "load" ELSE "write"
  /\ UNCHANGED <<buffer_, head_, tail_, i, consumer>>

PushWrite ==
  /\ push = "write"
  /\ buffer_' = [buffer_ EXCEPT ![Slot(head_)] = i]
  /\ push' = "store"
  /\ UNCHANGED <<head_, tail_, i, seen_tail, consumer>>

PushStore ==
  /\ push = "store"
  /\ head_' = (head_ + 1) % IndexModulus
  /\ i' = i + 1 /\ push' = "load"
  /\ UNCHANGED <<buffer_, tail_, seen_tail, consumer>>

-----------------------------------------------------------------------------
(* pop(): an empty buffer returns nullopt and the mining thread tries again.*)
PopLoad(head) ==
  /\ pop = "load" /\ Len(processed) < Transactions
  /\ seen_head' = head
  /\ pop' = IF tail_ = head THEN "load" ELSE "read"
  /\ UNCHANGED <<buffer_, head_, tail_, item, processed, producer>>

PopRead ==
  /\ pop = "read"
  /\ item' = buffer_[Slot(tail_)] /\ pop' = "store"
  /\ UNCHANGED <<buffer_, head_, tail_, seen_head, processed, producer>>

(* mutant: the slot is never given back *)
PopStoreKeepsTail ==
  /\ pop = "store"
  /\ UNCHANGED tail_
  /\ processed' = Append(processed, item) /\ pop' = "load"
  /\ UNCHANGED <<buffer_, head_, seen_head, item, producer>>

PopStore ==
  /\ pop = "store"
  /\ tail_' = (tail_ + 1) % IndexModulus
  /\ processed' = Append(processed, item) /\ pop' = "load"
  /\ UNCHANGED <<buffer_, head_, seen_head, item, producer>>

Push == (\E t \in Visible(seen_tail, tail_) : PushLoad(t)) \/ PushWrite \/ PushStore
Pop  == (\E h \in Visible(seen_head, head_) : PopLoad(h)) \/ PopRead \/ PopStore

(* Both threads have ended and been joined. *)
Joined ==
  i > Transactions /\ Len(processed) = Transactions /\ UNCHANGED vars

Next == Push \/ Pop \/ Joined

(* Both threads run, and a thread that keeps loading an index eventually    *)
(* sees the other's last store (C++ asks that of an implementation).        *)
Fairness ==
  /\ WF_vars(Push) /\ SF_vars(PushLoad(tail_))
  /\ WF_vars(Pop) /\ SF_vars(PopLoad(head_))

Spec == Init /\ [][Next]_vars /\ Fairness

-----------------------------------------------------------------------------
(* The network thread never writes a slot the mining thread may be reading: *)
(* the slots are plain memory, and the race would be undefined behaviour.   *)
NoSlotRace ==
  ~(push = "write" /\ pop \in {"read", "store"} /\ Slot(head_) = Slot(tail_))

(* The transactions between tail_ and head_ are the queue. *)
Queue == [k \in 1..((head_ - tail_) % IndexModulus) |-> buffer_[Slot(tail_ + k - 1)]]

Fifo == INSTANCE BoundedFifo WITH
  Items <- 1..Transactions, queue <- Queue, received <- processed

(* The ring buffer implements a bounded FIFO queue: push() accepts at its   *)
(* end while there is room, and pop() takes from its front.                 *)
ImplementsBoundedFifo == Fifo!Spec

AtEnd == Len(processed) = Transactions

(* The simulation ends: neither spinning thread waits for the other for     *)
(* ever.                                                                    *)
AllProcessed == <>AtEnd
=============================================================================
