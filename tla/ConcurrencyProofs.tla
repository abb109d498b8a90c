-------------------------- MODULE ConcurrencyProofs -------------------------
(* What MCConcurrency checks on small instances, for every value of the     *)
(* constants: each program's inductive invariant, that its steps keep it,   *)
(* and what follows.                                                        *)
EXTENDS MCConcurrency, Lemmas

-----------------------------------------------------------------------------
(* The disruptor.                                                           *)

(* What happens to the disruptor is a step of its module or nothing.        *)
LEMMA LmaxStep == Next => [Lmax!Next]_lmaxVars
  BY DEF Next, RingNext, ThreadNext, DeviceNext, rings, lmaxVars

(* What its constants may be.                                               *)
LEMMA LmaxAssumption == Slots \in Nat \ {0} /\ Trades \in Nat
  BY ConcurrencyAssumption DEF Lmax!DisruptorAssumption

(* The producer's view of the consumer lags behind it, and while it writes  *)
(* the gate it has seen is less than a lap away.                            *)
LmaxInv ==
  /\ producerSequence \in Nat /\ consumerSequence \in Nat /\ gate \in Nat
  /\ gate <= consumerSequence
  /\ publishing # "claim" => producerSequence > 0
  /\ publishing \in Lmax!Fields => producerSequence - 1 - gate < Slots

(* claim, the spinning and the writes keep it so.                           *)
LEMMA LmaxInductive == Spec => []LmaxInv
<1>1. Init => LmaxInv
  BY DEF Init, LmaxInv, Lmax!Init, Lmax!Fields
<1>2. LmaxInv /\ [Next]_all => LmaxInv'
  <2> SUFFICES ASSUME LmaxInv, [Lmax!Next]_lmaxVars PROVE LmaxInv'
    BY LmaxStep DEF all, rings, lmaxVars
  <2> USE LmaxAssumption DEF LmaxInv, Lmax!Fields, Lmax!Claimed
  <2>1. CASE Lmax!Claim
    BY <2>1 DEF Lmax!Claim
  <2>2. ASSUME NEW seen \in gate..consumerSequence, Lmax!WaitForConsumer(seen)
        PROVE  LmaxInv'
    BY <2>2 DEF Lmax!WaitForConsumer, Lmax!GateOpen
  <2>3. ASSUME NEW f \in Lmax!Fields, Lmax!WriteField(f)
        PROVE  LmaxInv'
    BY <2>3 DEF Lmax!WriteField
  <2>4. CASE Lmax!WaitForProducer
    BY <2>4 DEF Lmax!WaitForProducer
  <2>5. ASSUME NEW f \in Lmax!Fields, Lmax!ReadField(f)
        PROVE  LmaxInv'
    BY <2>5 DEF Lmax!ReadField, Lmax!Finish
  <2>6. CASE UNCHANGED lmaxVars
    BY <2>6 DEF lmaxVars
  <2> QED BY <2>1, <2>2, <2>3, <2>4, <2>5, <2>6
          DEF Lmax!Next, Lmax!Producer, Lmax!Consumer, Lmax!Ended, Lmax!vars, lmaxVars
<1> QED BY <1>1, <1>2, PTL DEF Spec

(* A slot that is written is one lap ahead of any that is unread.           *)
LEMMA LmaxNoLap == LmaxInv => Lmax!NoLapOverwrite
<1> SUFFICES ASSUME LmaxInv, publishing \in Lmax!Fields,
                    NEW s \in consumerSequence..(producerSequence - 2)
             PROVE  s % Slots # (producerSequence - 1) % Slots
  BY DEF Lmax!NoLapOverwrite, Lmax!Slot, Lmax!Claimed, LmaxInv
<1> DEFINE b == producerSequence - 1
<1>1. s \in Int /\ b \in Int /\ s < b /\ b - s < Slots
  BY LmaxAssumption DEF LmaxInv, Lmax!Fields
<1> HIDE DEF b
<1>2. s % Slots # b % Slots
  BY <1>1, LmaxAssumption, ModDistinct
<1> QED BY <1>2 DEF b

-----------------------------------------------------------------------------
(* The mempool buffer.                                                      *)

(* What happens to the mempool buffer is a step of its module or nothing.   *)
LEMMA MempoolStep == Next => [Mempool!Next]_mempoolVars
  BY DEF Next, RingNext, ThreadNext, DeviceNext, rings, mempoolVars

(* What its constants may be.                                               *)
LEMMA MempoolAssumption ==
  /\ Capacity \in Nat \ {0} /\ Transactions \in Nat
  /\ IndexModulus \in Nat \ {0} /\ IndexModulus > Capacity
  BY ConcurrencyAssumption DEF Mempool!BufferAssumption

(* head_ and tail_ are counts that have wrapped.                            *)
Wrap(a) == a % IndexModulus

(* The indices, wrapped as they are, keep what the code computes from them: *)
(* the next index, the distance and the slot.                               *)
LEMMA MempoolIndices ==
  ASSUME NEW a \in Int, NEW b \in Int
  PROVE  /\ Wrap(Wrap(a) + b) = Wrap(a + b)
         /\ a <= b /\ b - a < IndexModulus => (Wrap(b) - Wrap(a)) % IndexModulus = b - a
         /\ Mempool!Slot(Wrap(a)) = Mempool!Slot(a)
         /\ Mempool!Slot(a) \in 0..(Capacity - 1)
         /\ a < b /\ b - a < Capacity => Mempool!Slot(a) # Mempool!Slot(b)
<1> USE MempoolAssumption
<1>1. Wrap(Wrap(a) + b) = Wrap(a + b)
  BY ModPlus DEF Wrap
<1>2. a <= b /\ b - a < IndexModulus => (Wrap(b) - Wrap(a)) % IndexModulus = b - a
  BY WrappedDistance DEF Wrap
<1>3. IndexModulus % Capacity = 0
  BY ConcurrencyAssumption DEF Mempool!BufferAssumption
<1>4. Mempool!Slot(Wrap(a)) = Mempool!Slot(a)
  BY <1>3, ModMod DEF Wrap, Mempool!Slot
<1>5. Mempool!Slot(a) \in 0..(Capacity - 1)
  BY DivMod DEF Mempool!Slot
<1>6. a < b /\ b - a < Capacity => Mempool!Slot(a) # Mempool!Slot(b)
  BY ModDistinct DEF Mempool!Slot
<1> QED BY <1>1, <1>2, <1>4, <1>5, <1>6

(* How many transactions were pushed and popped: head_ and tail_ unwrapped. *)
Pushed == i - 1
Popped == Len(processed)

(* A transaction is pushed while there are some.                            *)
MempoolTypes ==
  /\ i \in 1..(Transactions + 1) /\ item \in Int /\ processed \in Seq(Int)
  /\ buffer_ \in [0..(Capacity - 1) -> Int]
  /\ push \in {"load", "write", "store"} /\ pop \in {"load", "read", "store"}
  /\ push # "load" => i <= Transactions

(* The indices are those counts.                                            *)
MempoolCounts ==
  /\ Popped <= Pushed
  /\ head_ = Wrap(Pushed) /\ tail_ = Wrap(Popped)

(* What push() has loaded of tail_ was its value at some time, and there is *)
(* room even if it is old.                                                  *)
ProducerView ==
  \E s \in 0..Popped :
    /\ seen_tail = Wrap(s)
    /\ Pushed - s <= Capacity
    /\ push # "load" => Pushed - s < Capacity

(* What pop() has loaded of head_ was its value at some time since the last *)
(* pop.                                                                     *)
ConsumerView ==
  \E h \in Popped..Pushed :
    /\ seen_head = Wrap(h)
    /\ pop # "load" => Popped < h

(* The slots between the counts hold the transactions that were not popped  *)
(* yet, the one being pushed included once it is written.                   *)
MempoolContents ==
  /\ \A t \in Popped..(Pushed - 1) : buffer_[Mempool!Slot(t)] = t + 1
  /\ push = "store" => buffer_[Mempool!Slot(Pushed)] = i
  /\ pop = "store" => item = Popped + 1

(* The inductive invariant of the buffer.                                   *)
MempoolInv ==
  MempoolTypes /\ MempoolCounts /\ ProducerView /\ ConsumerView /\ MempoolContents

(* So the counts are at most Capacity apart.                                *)
LEMMA MempoolDistance ==
  MempoolInv => /\ Pushed \in Nat /\ Popped \in Nat /\ Popped <= Pushed
                /\ Pushed - Popped <= Capacity
                /\ push # "load" => Pushed - Popped < Capacity
                /\ pop # "load" => Popped < Pushed
<1> SUFFICES ASSUME MempoolInv
             PROVE  /\ Pushed \in Nat /\ Popped \in Nat /\ Popped <= Pushed
                    /\ Pushed - Popped <= Capacity
                    /\ push # "load" => Pushed - Popped < Capacity
                    /\ pop # "load" => Popped < Pushed
  OBVIOUS
<1>1. Pushed \in Nat /\ Popped \in Nat /\ Popped <= Pushed
  BY MempoolAssumption DEF MempoolInv, MempoolTypes, MempoolCounts, Pushed, Popped
<1> QED BY <1>1, MempoolAssumption DEF MempoolInv, ProducerView, ConsumerView

(* push() and pop() keep the invariant, whatever the one sees of the other. *)
LEMMA MempoolInductive == Spec => []MempoolInv
<1>1. Init => MempoolInv
  <2> SUFFICES ASSUME Mempool!Init PROVE MempoolInv
    BY DEF Init
  <2> USE MempoolAssumption DEF Mempool!Init, Mempool!Empty, Pushed, Popped
  <2>1. Wrap(0) = 0
    BY ModSmall DEF Wrap
  <2>2. MempoolTypes
    BY DEF MempoolTypes
  <2>3. MempoolCounts /\ MempoolContents
    BY <2>1 DEF MempoolCounts, MempoolContents
  <2>4. ProducerView /\ ConsumerView
    BY <2>1 DEF ProducerView, ConsumerView
  <2> QED BY <2>2, <2>3, <2>4 DEF MempoolInv
<1>2. MempoolInv /\ [Next]_all => MempoolInv'
  <2> SUFFICES ASSUME MempoolInv, [Mempool!Next]_mempoolVars PROVE MempoolInv'
    BY MempoolStep DEF all, rings, mempoolVars
  <2>0. /\ Pushed \in Nat /\ Popped \in Nat /\ Popped <= Pushed /\ Pushed - Popped <= Capacity
        /\ push # "load" => Pushed - Popped < Capacity
        /\ pop # "load" => Popped < Pushed
        /\ head_ = Wrap(Pushed) /\ tail_ = Wrap(Popped)
        /\ Capacity \in Nat /\ IndexModulus \in Nat /\ Capacity < IndexModulus
    BY MempoolDistance, MempoolAssumption DEF MempoolInv, MempoolCounts
  <2>1. ASSUME NEW tail \in Mempool!Visible(seen_tail, tail_), Mempool!PushLoad(tail)
        PROVE  MempoolInv'
    <3>1. PICK s \in 0..Popped : seen_tail = Wrap(s) /\ Pushed - s <= Capacity
      BY DEF MempoolInv, ProducerView
    <3>2. (tail_ - seen_tail) % IndexModulus = Popped - s
      BY <2>0, <3>1, MempoolIndices
    <3>3. PICK d \in 0..(Popped - s) : tail = Wrap(seen_tail + d)
      BY <3>2, <2>1 DEF Mempool!Visible, Wrap
    <3> DEFINE u == s + d
    <3>4. /\ u \in 0..Popped /\ u \in Int /\ Pushed \in Int /\ u <= Pushed
          /\ Pushed - u <= Capacity /\ Pushed - u < IndexModulus
      BY <2>0, <3>1, <3>3
    <3>5. tail = Wrap(u)
      BY <2>0, <3>1, <3>3, MempoolIndices
    <3> HIDE DEF u
    <3>6. (head_ - tail) % IndexModulus = Pushed - u
      BY <3>4, <3>5, <2>0, MempoolIndices
    <3>7. UNCHANGED <<Pushed, Popped>>
      BY <2>1 DEF Mempool!PushLoad, Mempool!consumer, Pushed, Popped
    <3>8. push' # "load" => Pushed - u < Capacity
      BY <2>0, <2>1, <3>4, <3>6 DEF Mempool!PushLoad, Mempool!Full
    <3>9. ProducerView'
      BY <3>4, <3>5, <3>7, <3>8, <2>1 DEF ProducerView, Mempool!PushLoad
    <3>10. (MempoolTypes /\ MempoolCounts /\ ConsumerView /\ MempoolContents)'
      BY <2>1, <3>7 DEF Mempool!PushLoad, MempoolInv, MempoolTypes, MempoolCounts, ConsumerView,
         MempoolContents, Mempool!consumer
    <3> QED BY <3>9, <3>10 DEF MempoolInv
  <2>2. CASE Mempool!PushWrite
    <3>1. UNCHANGED <<Pushed, Popped>>
      BY <2>2 DEF Mempool!PushWrite, Mempool!consumer, Pushed, Popped
    <3>2. Mempool!Slot(head_) = Mempool!Slot(Pushed)
      BY <2>0, MempoolIndices
    <3>3. \A t \in Int : Mempool!Slot(t) \in 0..(Capacity - 1)
      BY <2>0, MempoolIndices
    <3>4. \A t \in Popped..(Pushed - 1) : Mempool!Slot(t) # Mempool!Slot(Pushed)
      BY <2>0, <2>2, MempoolIndices DEF Mempool!PushWrite
    <3>5. buffer_' = [buffer_ EXCEPT ![Mempool!Slot(Pushed)] = i]
      BY <2>2, <3>2 DEF Mempool!PushWrite
    <3>6. MempoolContents'
      <4>1. \A t \in Popped..(Pushed - 1) : buffer_'[Mempool!Slot(t)] = t + 1
        <5> SUFFICES ASSUME NEW t \in Popped..(Pushed - 1)
                     PROVE  buffer_'[Mempool!Slot(t)] = t + 1
          OBVIOUS
        <5>1. Mempool!Slot(t) \in 0..(Capacity - 1) /\ Mempool!Slot(t) # Mempool!Slot(Pushed)
          BY <2>0, <3>3, <3>4
        <5>2. buffer_[Mempool!Slot(t)] = t + 1 /\ buffer_ \in [0..(Capacity - 1) -> Int]
          BY DEF MempoolInv, MempoolContents, MempoolTypes
        <5> QED BY <3>5, <5>1, <5>2
      <4>2. buffer_'[Mempool!Slot(Pushed)] = i /\ i' = i /\ push' = "store"
        BY <2>0, <2>2, <3>3, <3>5 DEF Mempool!PushWrite, MempoolInv, MempoolTypes
      <4>3. UNCHANGED <<pop, item>>
        BY <2>2 DEF Mempool!PushWrite, Mempool!consumer
      <4> QED BY <4>1, <4>2, <4>3, <3>1 DEF MempoolContents, MempoolInv
    <3>7. MempoolTypes'
      <4>1. buffer_ \in [0..(Capacity - 1) -> Int] /\ i \in Int
        BY MempoolAssumption DEF MempoolInv, MempoolTypes
      <4>2. buffer_' \in [0..(Capacity - 1) -> Int]
        BY <3>5, <4>1
      <4> QED BY <2>2, <4>2 DEF Mempool!PushWrite, MempoolInv, MempoolTypes, Mempool!consumer
    <3>8. (MempoolCounts /\ ProducerView /\ ConsumerView)'
      BY <2>2, <3>1 DEF Mempool!PushWrite, MempoolInv, MempoolCounts, ConsumerView,
         ProducerView, Mempool!consumer
    <3> QED BY <3>6, <3>7, <3>8 DEF MempoolInv
  <2>3. CASE Mempool!PushStore
    <3>1. Pushed' = Pushed + 1 /\ Popped' = Popped
      BY <2>3 DEF Mempool!PushStore, Mempool!consumer, Pushed, Popped, MempoolInv, MempoolTypes
    <3>2. head_' = Wrap(head_ + 1)
      BY <2>3 DEF Mempool!PushStore, Wrap
    <3>3. head_' = Wrap(Pushed')
      BY <3>1, <3>2, <2>0, MempoolIndices
    <3>4. MempoolTypes' /\ MempoolCounts'
      BY <2>0, <2>3, <3>1, <3>3, MempoolAssumption DEF Mempool!PushStore, MempoolInv, MempoolTypes,
         MempoolCounts, Mempool!consumer
    <3>5. ProducerView' /\ ConsumerView'
      BY <2>0, <2>3, <3>1 DEF Mempool!PushStore, MempoolInv, ProducerView, ConsumerView,
         Mempool!consumer
    <3>6. MempoolContents'
      <4>1. buffer_[Mempool!Slot(Pushed)] = Pushed + 1
        BY <2>3 DEF Mempool!PushStore, MempoolInv, MempoolContents, MempoolTypes, Pushed
      <4>2. \A t \in Popped..Pushed : buffer_[Mempool!Slot(t)] = t + 1
        BY <2>0, <4>1 DEF MempoolInv, MempoolContents
      <4> QED BY <2>0, <2>3, <3>1, <4>2
            DEF Mempool!PushStore, MempoolInv, MempoolContents, Mempool!consumer
    <3> QED BY <3>4, <3>5, <3>6 DEF MempoolInv
  <2>4. ASSUME NEW head \in Mempool!Visible(seen_head, head_), Mempool!PopLoad(head)
        PROVE  MempoolInv'
    <3>1. PICK h \in Popped..Pushed : seen_head = Wrap(h)
      BY DEF MempoolInv, ConsumerView
    <3>2. (head_ - seen_head) % IndexModulus = Pushed - h
      BY <2>0, <3>1, MempoolIndices
    <3>3. PICK d \in 0..(Pushed - h) : head = Wrap(seen_head + d)
      BY <3>2, <2>4 DEF Mempool!Visible, Wrap
    <3> DEFINE u == h + d
    <3>4. u \in Popped..Pushed
      BY <2>0, <3>1, <3>3
    <3>5. head = Wrap(u)
      BY <2>0, <3>1, <3>3, MempoolIndices
    <3>6. UNCHANGED <<Pushed, Popped>>
      BY <2>4 DEF Mempool!PopLoad, Mempool!producer, Pushed, Popped
    <3> HIDE DEF u
    <3>7. pop' # "load" => Popped < u
      BY <2>0, <2>4, <3>4, <3>5 DEF Mempool!PopLoad
    <3>8. ConsumerView'
      BY <3>4, <3>5, <3>6, <3>7, <2>4 DEF ConsumerView, Mempool!PopLoad
    <3>9. (MempoolTypes /\ MempoolCounts /\ ProducerView /\ MempoolContents)'
      BY <2>4, <3>6 DEF Mempool!PopLoad, MempoolInv, MempoolTypes, MempoolCounts, ProducerView,
         MempoolContents, Mempool!producer
    <3> QED BY <3>8, <3>9 DEF MempoolInv
  <2>5. CASE Mempool!PopRead
    <3>1. UNCHANGED <<Pushed, Popped>>
      BY <2>5 DEF Mempool!PopRead, Mempool!producer, Pushed, Popped
    <3>2. Mempool!Slot(tail_) = Mempool!Slot(Popped)
      BY <2>0, MempoolIndices
    <3>3. item' = Popped + 1
      BY <2>0, <2>5, <3>2 DEF Mempool!PopRead, MempoolInv, MempoolContents
    <3>4. MempoolTypes' /\ MempoolCounts'
      BY <2>5, <3>1, <3>3, <2>0 DEF Mempool!PopRead, MempoolInv, MempoolTypes, MempoolCounts,
         Mempool!producer
    <3>5. ProducerView' /\ ConsumerView' /\ MempoolContents'
      BY <2>5, <3>1, <3>3 DEF Mempool!PopRead, MempoolInv, ProducerView, ConsumerView,
         MempoolContents, Mempool!producer
    <3> QED BY <3>4, <3>5 DEF MempoolInv
  <2>6. CASE Mempool!PopStore
    <3>1. Pushed' = Pushed /\ Popped' = Popped + 1
      BY <2>6 DEF Mempool!PopStore, Mempool!producer, Pushed, Popped, MempoolInv, MempoolTypes
    <3>2. tail_' = Wrap(tail_ + 1)
      BY <2>6 DEF Mempool!PopStore, Wrap
    <3>3. tail_' = Wrap(Popped')
      BY <3>1, <3>2, <2>0, MempoolIndices
    <3>4. MempoolTypes' /\ MempoolCounts'
      BY <2>0, <2>6, <3>1, <3>3 DEF Mempool!PopStore, MempoolInv, MempoolTypes, MempoolCounts,
         Mempool!producer
    <3>5. ProducerView'
      BY <2>0, <2>6, <3>1 DEF Mempool!PopStore, MempoolInv, ProducerView, Mempool!producer
    <3>6. ConsumerView'
      BY <2>0, <2>6, <3>1 DEF Mempool!PopStore, MempoolInv, ConsumerView, Mempool!producer
    <3>7. MempoolContents'
      BY <2>0, <2>6, <3>1 DEF Mempool!PopStore, MempoolInv, MempoolContents, Pushed,
         Mempool!producer
    <3> QED BY <3>4, <3>5, <3>6, <3>7 DEF MempoolInv
  <2>7. CASE UNCHANGED mempoolVars
    BY <2>7 DEF mempoolVars, MempoolInv, MempoolTypes, MempoolCounts, ProducerView, ConsumerView,
         MempoolContents, Pushed, Popped
  <2> QED BY <2>1, <2>2, <2>3, <2>4, <2>5, <2>6, <2>7
          DEF Mempool!Next, Mempool!Push, Mempool!Pop, Mempool!Joined, Mempool!vars, mempoolVars,
              Mempool!producer, Mempool!consumer
<1> QED BY <1>1, <1>2, PTL DEF Spec

(* The slot that is written is not one that is read.                        *)
LEMMA MempoolNoRace == MempoolInv => Mempool!NoSlotRace
<1> SUFFICES ASSUME MempoolInv, push = "write", pop \in {"read", "store"}
             PROVE  Mempool!Slot(head_) # Mempool!Slot(tail_)
  BY DEF Mempool!NoSlotRace
<1>1. Pushed \in Int /\ Popped \in Int /\ Popped < Pushed /\ Pushed - Popped < Capacity
  BY MempoolDistance
<1>2. Mempool!Slot(head_) = Mempool!Slot(Pushed) /\ Mempool!Slot(tail_) = Mempool!Slot(Popped)
  BY <1>1, MempoolIndices DEF MempoolInv, MempoolCounts
<1> QED BY <1>1, <1>2, MempoolIndices

(* The transactions the ring holds, oldest first.                           *)
MempoolQueue == [n \in 1..(Pushed - Popped) |-> Popped + n]

(* The refinement mapping reads them off the slots.                         *)
LEMMA MempoolQueueIs == MempoolInv => Mempool!Queue = MempoolQueue
<1> SUFFICES ASSUME MempoolInv PROVE Mempool!Queue = MempoolQueue
  OBVIOUS
<1>1. /\ Pushed \in Int /\ Popped \in Int /\ Popped <= Pushed /\ Pushed - Popped < IndexModulus
      /\ head_ = Wrap(Pushed) /\ tail_ = Wrap(Popped)
  BY MempoolDistance, MempoolAssumption DEF MempoolInv, MempoolCounts
<1>2. (head_ - tail_) % IndexModulus = Pushed - Popped
  BY <1>1, MempoolIndices
<1>3. ASSUME NEW n \in 1..(Pushed - Popped)
      PROVE  buffer_[Mempool!Slot(tail_ + n - 1)] = Popped + n
  <2> DEFINE t == Popped + n - 1  m == n - 1
  <2>1. t \in Popped..(Pushed - 1) /\ t \in Int /\ t + 1 = Popped + n /\ m \in Int /\ t = Popped + m
    BY <1>1
  <2>2. tail_ \in Int /\ tail_ + n - 1 = tail_ + m
    BY <1>1, MempoolAssumption DEF Wrap
  <2> HIDE DEF t, m
  <2>3. Mempool!Slot(Wrap(Popped) + m) = Mempool!Slot(t)
    <3>1. (Wrap(Popped) + m) \in Int
      BY <2>1, <2>2, <1>1
    <3>2. Wrap(Wrap(Popped) + m) = Wrap(t)
      BY <1>1, <2>1, MempoolIndices
    <3> QED BY <3>1, <3>2, <2>1, MempoolIndices
  <2> QED BY <1>1, <2>1, <2>2, <2>3 DEF MempoolInv, MempoolContents
<1> QED BY <1>2, <1>3 DEF MempoolQueue, Mempool!Queue

(* Every step of push() and pop() is one of the bounded queue, or none.     *)
LEMMA MempoolRefines ==
  Spec => Mempool!ImplementsBoundedFifo
<1>0. (MempoolInv => Mempool!Queue = MempoolQueue)'
  BY MempoolQueueIs, PTL
<1>1. Init /\ MempoolInv => Mempool!Fifo!Init
  BY MempoolQueueIs DEF Mempool!Fifo!Init, Init, Mempool!Init, MempoolQueue, Pushed, Popped
<1>2. MempoolInv /\ MempoolInv' /\ [Next]_all => [Mempool!Fifo!Next]_<<Mempool!Queue, processed>>
  <2> SUFFICES ASSUME MempoolInv, MempoolInv', [Mempool!Next]_mempoolVars
               PROVE  [Mempool!Fifo!Next]_<<Mempool!Queue, processed>>
    BY MempoolStep DEF all, rings, mempoolVars
  <2>1. Mempool!Queue = MempoolQueue /\ Mempool!Queue' = MempoolQueue'
    BY <1>0, MempoolQueueIs
  <2>2. /\ Pushed \in Nat /\ Popped \in Nat /\ Popped <= Pushed /\ Capacity \in Nat
        /\ push # "load" => Pushed - Popped < Capacity
        /\ pop # "load" => Popped < Pushed
        /\ processed \in Seq(Int) /\ i \in Int /\ Pushed = i - 1
    BY MempoolDistance, MempoolAssumption, SMTT(60) DEF MempoolInv, MempoolTypes, Pushed
  <2>3. CASE Mempool!PushStore
    <3>1. Pushed' = Pushed + 1 /\ Popped' = Popped /\ processed' = processed
      BY <2>2, <2>3 DEF Mempool!PushStore, Mempool!consumer, Pushed, Popped
    <3>2. MempoolQueue' = Append(MempoolQueue, i) /\ Len(MempoolQueue) < Capacity
      BY <2>2, <2>3, <3>1 DEF MempoolQueue, Mempool!PushStore
    <3>3. i \in 1..Transactions
      BY <2>3, MempoolAssumption DEF Mempool!PushStore, MempoolInv, MempoolTypes
    <3> QED BY <2>1, <3>1, <3>2, <3>3 DEF Mempool!Fifo!Next, Mempool!Fifo!Enqueue
  <2>4. CASE Mempool!PopStore
    <3>1. Pushed' = Pushed /\ Popped' = Popped + 1
      BY <2>2, <2>4 DEF Mempool!PopStore, Mempool!producer, Pushed, Popped
    <3>2. item = Popped + 1
      BY <2>4 DEF Mempool!PopStore, MempoolInv, MempoolContents
    <3>3. MempoolQueue # <<>> /\ Head(MempoolQueue) = item /\ MempoolQueue' = Tail(MempoolQueue)
      <4>1. Pushed - Popped \in Nat \ {0} /\ Pushed' - Popped' = (Pushed - Popped) - 1
        BY <2>2, <2>4, <3>1 DEF Mempool!PopStore
      <4>2. Len(MempoolQueue) = Pushed - Popped /\ MempoolQueue \in Seq(Int)
        BY <2>2, <4>1 DEF MempoolQueue
      <4>3. MempoolQueue # <<>> /\ Head(MempoolQueue) = item
        BY <2>2, <3>2, <4>1, <4>2 DEF MempoolQueue
      <4>4. MempoolQueue' = Tail(MempoolQueue)
        <5> DEFINE m == Pushed - Popped
        <5>1. Tail([n \in 1..m |-> Popped + n]) = [n \in 1..(m - 1) |-> (Popped + 1) + n]
          <6>1. m \in Nat \ {0} /\ Popped \in Int
            BY <2>2, <4>1
          <6> HIDE DEF m
          <6> QED BY <6>1, RunTail, Zenon
        <5>2. MempoolQueue' = [n \in 1..(m - 1) |-> (Popped + 1) + n]
          BY <3>1, <4>1 DEF MempoolQueue
        <5> QED BY <5>1, <5>2 DEF MempoolQueue
      <4> QED BY <4>3, <4>4
    <3> QED BY <2>1, <2>4, <3>3 DEF Mempool!Fifo!Next, Mempool!Fifo!Dequeue, Mempool!PopStore
  <2>5. CASE UNCHANGED <<i, processed>>
    BY <2>1, <2>5 DEF MempoolQueue, Pushed, Popped
  <2> QED BY <2>3, <2>4, <2>5
          DEF Mempool!Next, Mempool!Push, Mempool!Pop, Mempool!Joined, Mempool!vars, mempoolVars,
              Mempool!producer, Mempool!consumer, Mempool!PushLoad, Mempool!PushWrite,
              Mempool!PopLoad, Mempool!PopRead
<1> QED BY <1>1, <1>2, MempoolInductive, PTL DEF Spec, Mempool!ImplementsBoundedFifo, Mempool!Fifo!Spec

-----------------------------------------------------------------------------
(* The shared-memory channel.                                               *)

(* What happens to the channel is a step of its module or nothing.          *)
LEMMA IpcStep == Next => [Ipc!Next]_ipcVars
  BY DEF Next, RingNext, ThreadNext, DeviceNext, rings, ipcVars

(* What its constants may be.                                               *)
LEMMA IpcAssumption ==
  /\ CAPACITY \in Nat \ {0} /\ Signals \in Nat
  /\ UsizeModulus \in Nat \ {0} /\ UsizeModulus > CAPACITY
  BY ConcurrencyAssumption DEF Ipc!ChannelAssumption

(* The indices are counts that have wrapped; a slot is a count modulo       *)
(* CAPACITY.                                                                *)
UWrap(a) == a % UsizeModulus
USlot(a) == a % CAPACITY

(* As for the mempool buffer.  A slot is taken of the wrapped index, which  *)
(* is the slot of the count if CAPACITY divides the modulus or nothing      *)
(* wraps.                                                                   *)
LEMMA IpcIndices ==
  ASSUME NEW a \in Int, NEW b \in Int
  PROVE  /\ UWrap(UWrap(a) + b) = UWrap(a + b)
         /\ a <= b /\ b - a < UsizeModulus => (UWrap(b) - UWrap(a)) % UsizeModulus = b - a
         /\ a \in 0..Signals => USlot(UWrap(a)) = USlot(a)
         /\ USlot(a) \in 0..(CAPACITY - 1)
         /\ a < b /\ b - a < CAPACITY => USlot(a) # USlot(b)
<1> USE IpcAssumption
<1>1. UWrap(UWrap(a) + b) = UWrap(a + b)
  BY ModPlus DEF UWrap
<1>2. a <= b /\ b - a < UsizeModulus => (UWrap(b) - UWrap(a)) % UsizeModulus = b - a
  BY WrappedDistance DEF UWrap
<1>3. a \in 0..Signals => USlot(UWrap(a)) = USlot(a)
  <2>1. CASE UsizeModulus % CAPACITY = 0
    BY <2>1, ModMod DEF UWrap, USlot
  <2>2. CASE Signals < UsizeModulus
    BY <2>2, ModSmall DEF UWrap
  <2> QED BY <2>1, <2>2, ConcurrencyAssumption DEF Ipc!ChannelAssumption
<1>4. USlot(a) \in 0..(CAPACITY - 1)
  BY DivMod DEF USlot
<1>5. a < b /\ b - a < CAPACITY => USlot(a) # USlot(b)
  BY ModDistinct DEF USlot
<1> QED BY <1>1, <1>2, <1>3, <1>4, <1>5

(* How many signals were published and consumed: the indices unwrapped.     *)
Written == Len(published)
Read == Len(consumed)

(* publish() or consume() has seen the other's index and is at work.        *)
Publishing == publish \in {"write", "store"}
Consuming  == consume \in {"read", "store"}

(* A signal is published once at most, and only to a mapped region.         *)
IpcTypes ==
  /\ published \in Seq(Int) /\ consumed \in Seq(Int) /\ payload \in Int
  /\ buffer \in [0..(CAPACITY - 1) -> Int]
  /\ publish \in {"off", "load", "write", "store"}
  /\ calls \in 0..Signals /\ Written <= calls
  /\ Publishing => Written < calls
  /\ ~mapped => ~Consuming
  /\ publish = "off" => Written = 0 /\ ~mapped

(* The indices are those counts.                                            *)
IpcCounts ==
  /\ Read <= Written
  /\ write_index = UWrap(Written) /\ read_index = UWrap(Read)
  /\ Consuming => Read < Written /\ current_read = read_index

(* What publish() has loaded of read_index was its value at some time, and  *)
(* there is room even if it is old.                                         *)
PublisherView ==
  \E s \in 0..Read :
    /\ seen_read = UWrap(s)
    /\ Written - s <= CAPACITY
    /\ Publishing => Written - s < CAPACITY

(* The slots between the counts hold what was published and not consumed.   *)
IpcContents ==
  /\ \A t \in Read..(Written - 1) : buffer[USlot(t)] = published[t + 1]
  /\ publish = "store" => buffer[USlot(Written)] = calls
  /\ consume = "store" => payload = published[Read + 1]

(* The inductive invariant of the channel.                                  *)
IpcInv == IpcTypes /\ IpcCounts /\ PublisherView /\ IpcContents

(* So the counts are at most CAPACITY apart.                                *)
LEMMA IpcDistance ==
  IpcInv => /\ Written \in Nat /\ Read \in Nat /\ Read <= Written
            /\ Written - Read <= CAPACITY
            /\ Publishing => Written - Read < CAPACITY
            /\ Consuming => Read < Written
            /\ Written <= Signals /\ Read <= Signals
<1> SUFFICES ASSUME IpcInv
             PROVE  /\ Written \in Nat /\ Read \in Nat /\ Read <= Written
                    /\ Written - Read <= CAPACITY
                    /\ Publishing => Written - Read < CAPACITY
                    /\ Consuming => Read < Written
                    /\ Written <= Signals /\ Read <= Signals
  OBVIOUS
<1>1. /\ Written \in Nat /\ Read \in Nat /\ Read <= Written /\ Written <= Signals
      /\ Consuming => Read < Written
  BY IpcAssumption DEF IpcInv, IpcTypes, IpcCounts, Written, Read
<1> QED BY <1>1, IpcAssumption DEF IpcInv, PublisherView

(* publish() and consume() keep the invariant, also when a signal is        *)
(* dropped.                                                                 *)
LEMMA IpcInductive == Spec => []IpcInv
<1>1. Init => IpcInv
  <2> SUFFICES ASSUME Ipc!Init PROVE IpcInv
    BY DEF Init
  <2> USE IpcAssumption DEF Ipc!Init, Ipc!Zeroed, Written, Read, Publishing, Consuming
  <2>1. UWrap(0) = 0
    BY ModSmall DEF UWrap
  <2>2. IpcTypes
    <3>1. ~mapped
      BY Zenon
    <3> QED BY <3>1 DEF IpcTypes
  <2>3. IpcCounts /\ IpcContents
    BY <2>1 DEF IpcCounts, IpcContents
  <2>4. PublisherView
    BY <2>1 DEF PublisherView
  <2> QED BY <2>2, <2>3, <2>4 DEF IpcInv
<1>2. IpcInv /\ [Next]_all => IpcInv'
  <2> SUFFICES ASSUME IpcInv, [Ipc!Next]_ipcVars PROVE IpcInv'
    BY IpcStep DEF all, rings, ipcVars
  <2>0. /\ Written \in Nat /\ Read \in Nat /\ Read <= Written /\ Written - Read <= CAPACITY
        /\ Publishing => Written - Read < CAPACITY
        /\ Consuming => Read < Written
        /\ Written <= Signals /\ Read <= Signals
        /\ write_index = UWrap(Written) /\ read_index = UWrap(Read)
        /\ CAPACITY \in Nat /\ UsizeModulus \in Nat /\ CAPACITY < UsizeModulus
        /\ Signals \in Nat
    BY IpcDistance, IpcAssumption DEF IpcInv, IpcCounts
  <2>1. CASE Ipc!NewProducer
    <3> USE <2>1 DEF Ipc!NewProducer, Ipc!OpenAsProducer
    <3>1. UNCHANGED <<published, consumed, calls, consume, payload, current_read>> 
      BY DEF Ipc!consumer
    <3>2. Written = 0 /\ Read = 0 /\ Written' = 0 /\ Read' = 0
      BY <2>0, <3>1 DEF IpcInv, IpcTypes, Written, Read
    <3>3. UWrap(0) = 0
      BY IpcAssumption, ModSmall DEF UWrap
    <3>4. ~Consuming /\ ~Consuming' /\ ~Publishing'
      BY <2>0, <3>1, <3>2 DEF Consuming, Publishing
    <3>5. IpcTypes'
      BY <3>1, <3>2, <3>4 DEF IpcInv, IpcTypes, Ipc!Zeroed
    <3>6. IpcCounts' /\ PublisherView'
      BY <3>2, <3>3, <3>4, <2>0 DEF IpcCounts, PublisherView
    <3>7. IpcContents'
      BY <3>2, <3>4 DEF IpcContents, Consuming
    <3> QED BY <3>5, <3>6, <3>7 DEF IpcInv
  <2>2. CASE Ipc!NewConsumer
    <3>1. /\ UNCHANGED <<Written, Read, Publishing>> /\ ~Consuming' /\ consume' # "store"
          /\ UNCHANGED <<mapped, buffer, write_index, read_index, publish, seen_read, calls, published,
                consumed, payload>>
      BY <2>2 DEF Ipc!NewConsumer, Ipc!producer, Written, Read, Publishing, Consuming
    <3> QED BY <3>1 DEF IpcInv, IpcTypes, IpcCounts, PublisherView, IpcContents
  <2>3. CASE Ipc!PublishLoad
    <3>1. PICK s \in 0..Read : seen_read = UWrap(s) /\ Written - s <= CAPACITY
      BY DEF IpcInv, PublisherView
    <3>2. (read_index - seen_read) % UsizeModulus = Read - s
      BY <2>0, <3>1, IpcIndices
    <3>3. PICK read \in Ipc!Visible(seen_read, read_index) :
            seen_read' = read /\ publish' = IF Ipc!Full(read) THEN "load" ELSE "write"
      BY <2>3 DEF Ipc!PublishLoad
    <3>4. PICK d \in 0..(Read - s) : read = UWrap(seen_read + d)
      BY <3>2, <3>3 DEF Ipc!Visible, UWrap
    <3> DEFINE u == s + d
    <3>5. /\ u \in 0..Read /\ u \in Int /\ Written \in Int /\ u <= Written
          /\ Written - u <= CAPACITY /\ Written - u < UsizeModulus
      BY <2>0, <3>1, <3>4
    <3>6. read = UWrap(u)
      BY <2>0, <3>1, <3>4, IpcIndices
    <3> HIDE DEF u
    <3>7. (write_index - read) % UsizeModulus = Written - u
      BY <3>5, <3>6, <2>0, IpcIndices
    <3>8. /\ UNCHANGED <<Written, Read, mapped, buffer, write_index, read_index, published, consumed,
                         consume, current_read, payload, Consuming>>
          /\ publish = "load" /\ publish' \in {"load", "write"} /\ calls' = calls + 1 /\ calls < Signals
      BY <2>3 DEF Ipc!PublishLoad, Ipc!consumer, Written, Read, Consuming
    <3>9. Publishing' => Written - u < CAPACITY
      BY <2>0, <3>3, <3>5, <3>7 DEF Ipc!Full, Publishing
    <3>10. PublisherView'
      BY <3>3, <3>5, <3>6, <3>8, <3>9 DEF PublisherView
    <3>11. IpcTypes'
      BY <2>0, <3>8 DEF IpcInv, IpcTypes, Publishing
    <3>12. IpcCounts' /\ IpcContents'
      BY <3>8 DEF IpcInv, IpcCounts, IpcContents
    <3> QED BY <3>10, <3>11, <3>12 DEF IpcInv
  <2>4. CASE Ipc!PublishWrite
    <3>1. /\ UNCHANGED <<Written, Read, Consuming, mapped, write_index, read_index, seen_read, calls,
                         published, consumed, consume, current_read, payload>>
          /\ publish = "write" /\ publish' = "store" /\ Publishing /\ Publishing'
      BY <2>4 DEF Ipc!PublishWrite, Ipc!consumer, Written, Read, Publishing, Consuming
    <3>2. USlot(write_index) = USlot(Written)
      BY <2>0, IpcIndices
    <3>3. \A t \in Int : USlot(t) \in 0..(CAPACITY - 1)
      BY <2>0, IpcIndices
    <3>4. \A t \in Read..(Written - 1) : USlot(t) # USlot(Written)
      BY <2>0, <3>1, IpcIndices
    <3>5. buffer' = [buffer EXCEPT ![USlot(Written)] = calls]
      BY <2>4, <3>2 DEF Ipc!PublishWrite, USlot
    <3>6. buffer \in [0..(CAPACITY - 1) -> Int] /\ calls \in Int
      BY <2>0 DEF IpcInv, IpcTypes
    <3>7. IpcContents'
      <4>1. \A t \in Read..(Written - 1) : buffer'[USlot(t)] = published[t + 1]
        <5> SUFFICES ASSUME NEW t \in Read..(Written - 1)
                     PROVE  buffer'[USlot(t)] = published[t + 1]
          OBVIOUS
        <5>1. USlot(t) \in 0..(CAPACITY - 1) /\ USlot(t) # USlot(Written)
          BY <2>0, <3>3, <3>4
        <5>2. buffer[USlot(t)] = published[t + 1]
          BY DEF IpcInv, IpcContents
        <5> QED BY <3>5, <3>6, <5>1, <5>2
      <4>2. buffer'[USlot(Written)] = calls
        BY <2>0, <3>3, <3>5, <3>6
      <4> QED BY <4>1, <4>2, <3>1 DEF IpcContents, IpcInv
    <3>8. buffer' \in [0..(CAPACITY - 1) -> Int]
      BY <3>5, <3>6
    <3>9. IpcTypes'
      BY <3>1, <3>8 DEF IpcInv, IpcTypes
    <3>10. (IpcCounts /\ PublisherView)'
      BY <3>1 DEF IpcInv, IpcCounts, PublisherView
    <3> QED BY <3>7, <3>9, <3>10 DEF IpcInv
  <2>5. CASE Ipc!PublishStore
    <3>1. /\ UNCHANGED <<Read, Consuming, mapped, buffer, read_index, seen_read, calls,
                         consumed, consume, current_read, payload>>
          /\ publish = "store" /\ publish' = "load" /\ Publishing /\ ~Publishing'
          /\ published' = Append(published, calls)
      BY <2>5 DEF Ipc!PublishStore, Ipc!consumer, Read, Publishing, Consuming
    <3>2. published \in Seq(Int) /\ calls \in Int
      BY <2>0 DEF IpcInv, IpcTypes
    <3>3. Written' = Written + 1 /\ published' \in Seq(Int)
      BY <3>1, <3>2 DEF Written
    <3>4. write_index' = UWrap(write_index + 1)
      BY <2>5 DEF Ipc!PublishStore, UWrap
    <3>5. write_index' = UWrap(Written')
      BY <3>3, <3>4, <2>0, IpcIndices
    <3>6. IpcTypes'
      BY <2>0, <3>1, <3>3 DEF IpcInv, IpcTypes
    <3>7. IpcCounts'
      BY <2>0, <3>1, <3>3, <3>5 DEF IpcInv, IpcCounts
    <3>8. PublisherView'
      BY <2>0, <3>1, <3>3 DEF IpcInv, PublisherView
    <3>9. \A t \in 1..Written : published'[t] = published[t]
      BY <3>1, <3>2 DEF Written
    <3>10. published'[Written + 1] = calls
      BY <3>1, <3>2 DEF Written
    <3>11. \A t \in Read..Written : buffer[USlot(t)] = published'[t + 1]
      <4>1. \A t \in Read..(Written - 1) : t + 1 \in 1..Written /\ buffer[USlot(t)] = published[t + 1]
        BY <2>0 DEF IpcInv, IpcContents
      <4>2. buffer[USlot(Written)] = calls
        BY <3>1 DEF IpcInv, IpcContents
      <4>3. SUFFICES ASSUME NEW t \in Read..Written PROVE buffer[USlot(t)] = published'[t + 1]
        OBVIOUS
      <4>4. CASE t = Written
        BY <3>10, <4>2, <4>4
      <4>5. CASE t \in Read..(Written - 1)
        BY <3>9, <4>1, <4>5
      <4> QED BY <2>0, <4>4, <4>5
    <3>12. consume = "store" => payload = published'[Read + 1]
      BY <2>0, <3>9 DEF IpcInv, IpcContents, Consuming
    <3>13. IpcContents'
      <4>1. Read..Written = Read'..(Written' - 1)
        BY <2>0, <3>1, <3>3
      <4> QED BY <3>1, <3>11, <3>12, <4>1 DEF IpcContents
    <3> QED BY <3>6, <3>7, <3>8, <3>13 DEF IpcInv
  <2>6. CASE Ipc!ConsumeLoad
    <3>1. /\ UNCHANGED <<Written, Read, Publishing, mapped, buffer, write_index, read_index, publish,
                         seen_read, calls, published, consumed, payload>>
          /\ current_read' = read_index /\ mapped
      BY <2>6 DEF Ipc!ConsumeLoad, Ipc!producer, Written, Read, Publishing
    <3>2. PICK write \in Ipc!Visible(read_index, write_index) :
            consume' = IF read_index = write THEN "load" ELSE "read"
      BY <2>6 DEF Ipc!ConsumeLoad
    <3>3. (write_index - read_index) % UsizeModulus = Written - Read
      BY <2>0, IpcIndices
    <3>4. PICK d \in 0..(Written - Read) : write = UWrap(read_index + d)
      BY <3>2, <3>3 DEF Ipc!Visible, UWrap
    <3>5. write = UWrap(Read + d)
      BY <2>0, <3>4, IpcIndices
    <3>6. Consuming' => Read < Written
      BY <2>0, <3>2, <3>4, <3>5 DEF Consuming
    <3>7. consume' # "store"
      BY <3>2
    <3>8. IpcTypes'
      BY <3>1 DEF IpcInv, IpcTypes
    <3>9. IpcCounts'
      BY <3>1, <3>6 DEF IpcInv, IpcCounts
    <3>10. PublisherView' /\ IpcContents'
      BY <3>1, <3>7 DEF IpcInv, PublisherView, IpcContents
    <3> QED BY <3>8, <3>9, <3>10 DEF IpcInv
  <2>7. CASE Ipc!ConsumeUnmapped
    <3>1. /\ UNCHANGED <<Written, Read, Publishing>> /\ ~Consuming' /\ consume' # "store"
          /\ UNCHANGED <<mapped, buffer, write_index, read_index, publish, seen_read, calls, published,
                consumed, payload>>
      BY <2>7 DEF Ipc!ConsumeUnmapped, Ipc!producer, Written, Read, Publishing, Consuming
    <3> QED BY <3>1 DEF IpcInv, IpcTypes, IpcCounts, PublisherView, IpcContents
  <2>8. CASE Ipc!ConsumeRead
    <3>1. /\ UNCHANGED <<Written, Read, Publishing, mapped, buffer, write_index, read_index, publish,
                         seen_read, calls, published, consumed, current_read>>
          /\ Consuming /\ Consuming' /\ payload' = buffer[USlot(current_read)]
      BY <2>8 DEF Ipc!ConsumeRead, Ipc!producer, Written, Read, Publishing, Consuming, USlot
    <3>2. current_read = UWrap(Read) /\ Read < Written
      BY <2>0, <3>1 DEF IpcInv, IpcCounts
    <3>3. USlot(current_read) = USlot(Read)
      BY <2>0, <3>2, IpcIndices
    <3>4. payload' = published[Read + 1]
      BY <2>0, <3>1, <3>2, <3>3 DEF IpcInv, IpcContents
    <3>5. payload' \in Int
      BY <2>0, <3>2, <3>4, SMTT(60) DEF IpcInv, IpcTypes, Written
    <3>6. IpcTypes' /\ IpcCounts'
      BY <3>1, <3>5 DEF IpcInv, IpcTypes, IpcCounts
    <3>7. PublisherView' /\ IpcContents'
      BY <3>1, <3>4 DEF IpcInv, PublisherView, IpcContents
    <3> QED BY <3>6, <3>7 DEF IpcInv
  <2>9. CASE Ipc!ConsumeStore
    <3>1. /\ UNCHANGED <<Written, Publishing, mapped, buffer, write_index, publish,
                         seen_read, calls, published, payload>>
          /\ Consuming /\ ~Consuming' /\ consumed' = Append(consumed, payload)
          /\ consume' = "load" /\ read_index' = UWrap(current_read + 1)
      BY <2>9 DEF Ipc!ConsumeStore, Ipc!producer, Written, Publishing, Consuming, UWrap
    <3>2. Read' = Read + 1 /\ consumed' \in Seq(Int)
      BY <3>1 DEF IpcInv, IpcTypes, Read
    <3>3. current_read = UWrap(Read) /\ Read < Written
      BY <2>0, <3>1 DEF IpcInv, IpcCounts
    <3>4. read_index' = UWrap(Read')
      BY <2>0, <3>1, <3>2, <3>3, IpcIndices
    <3>5. IpcTypes' /\ IpcCounts'
      BY <2>0, <3>1, <3>2, <3>3, <3>4 DEF IpcInv, IpcTypes, IpcCounts
    <3>6. PublisherView'
      BY <2>0, <3>1, <3>2 DEF IpcInv, PublisherView
    <3>7. IpcContents'
      BY <2>0, <3>1, <3>2 DEF IpcInv, IpcContents
    <3> QED BY <3>5, <3>6, <3>7 DEF IpcInv
  <2>10. CASE UNCHANGED ipcVars
    BY <2>10 DEF ipcVars, IpcInv, IpcTypes, IpcCounts, PublisherView, IpcContents, Written, Read,
         Publishing, Consuming
  <2> QED BY <2>1, <2>2, <2>3, <2>4, <2>5, <2>6, <2>7, <2>8, <2>9, <2>10
          DEF Ipc!Next, Ipc!Producer, Ipc!Consumer
<1> QED BY <1>1, <1>2, PTL DEF Spec

(* The slot that is written is not one that is read.                        *)
LEMMA IpcNoRace == IpcInv => Ipc!NoSlotRace
<1> SUFFICES ASSUME IpcInv, publish = "write", consume = "read"
             PROVE  USlot(write_index) # USlot(current_read)
  BY DEF Ipc!NoSlotRace, USlot
<1>1. /\ Written \in Int /\ Read \in Int /\ Read < Written /\ Written - Read < CAPACITY
      /\ Written \in 0..Signals /\ Read \in 0..Signals
      /\ write_index = UWrap(Written) /\ current_read = UWrap(Read)
  BY IpcDistance, IpcAssumption DEF IpcInv, IpcCounts, Publishing, Consuming
<1>2. USlot(write_index) = USlot(Written) /\ USlot(current_read) = USlot(Read)
  BY <1>1, IpcIndices
<1> QED BY <1>1, <1>2, IpcIndices

(* The signals the ring holds, oldest first.                                *)
IpcQueue == [n \in 1..(Written - Read) |-> published[Read + n]]

(* The refinement mapping reads them off the slots.                         *)
LEMMA IpcQueueIs == IpcInv => Ipc!Queue = IpcQueue
<1> SUFFICES ASSUME IpcInv PROVE Ipc!Queue = IpcQueue
  OBVIOUS
<1>1. /\ Written \in Nat /\ Read \in Nat /\ Read <= Written /\ Written - Read < UsizeModulus
      /\ write_index = UWrap(Written) /\ read_index = UWrap(Read) /\ Written <= Signals
      /\ Signals \in Nat
  BY IpcDistance, IpcAssumption DEF IpcInv, IpcCounts
<1>2. (write_index - read_index) % UsizeModulus = Written - Read
  BY <1>1, IpcIndices
<1>3. ASSUME NEW n \in 1..(Written - Read)
      PROVE  buffer[USlot(UWrap(read_index + n - 1))] = published[Read + n]
  <2> DEFINE t == Read + n - 1  m == n - 1
  <2>1. /\ t \in Read..(Written - 1) /\ t \in 0..Signals /\ t \in Int /\ t + 1 = Read + n
        /\ m \in Int /\ t = Read + m
    BY <1>1
  <2>2. read_index \in Int /\ read_index + n - 1 = read_index + m
    BY <1>1, IpcAssumption DEF UWrap
  <2> HIDE DEF t, m
  <2>3. UWrap(UWrap(Read) + m) = UWrap(t)
    BY <1>1, <2>1, IpcIndices
  <2>4. USlot(UWrap(t)) = USlot(t)
    BY <2>1, IpcIndices
  <2> QED BY <1>1, <2>1, <2>2, <2>3, <2>4 DEF IpcInv, IpcContents
<1> QED BY <1>2, <1>3 DEF IpcQueue, Ipc!Queue, USlot, UWrap

(* Every step of publish() and consume() is one of the bounded queue, or    *)
(* none.                                                                    *)
LEMMA IpcRefines == Spec => Ipc!ImplementsBoundedFifo
<1>0. (IpcInv => Ipc!Queue = IpcQueue)'
  BY IpcQueueIs, PTL
<1>1. Init /\ IpcInv => Ipc!Fifo!Init
  BY IpcQueueIs DEF Ipc!Fifo!Init, Init, Ipc!Init, IpcQueue, Written, Read
<1>2. IpcInv /\ IpcInv' /\ [Next]_all => [Ipc!Fifo!Next]_<<Ipc!Queue, consumed>>
  <2> SUFFICES ASSUME IpcInv, IpcInv', [Ipc!Next]_ipcVars
               PROVE  [Ipc!Fifo!Next]_<<Ipc!Queue, consumed>>
    BY IpcStep DEF all, rings, ipcVars
  <2>1. Ipc!Queue = IpcQueue /\ Ipc!Queue' = IpcQueue'
    BY <1>0, IpcQueueIs
  <2>2. /\ Written \in Nat /\ Read \in Nat /\ Read <= Written /\ CAPACITY \in Nat
        /\ Publishing => Written - Read < CAPACITY
        /\ Consuming => Read < Written
        /\ published \in Seq(Int) /\ Len(published) = Written /\ consumed \in Seq(Int)
        /\ payload \in Int
    BY IpcDistance, IpcAssumption DEF IpcInv, IpcTypes, Written
  <2>3. CASE Ipc!PublishStore
    <3>1. calls \in 1..Signals /\ Publishing
      BY <2>2, <2>3, IpcAssumption DEF Ipc!PublishStore, IpcInv, IpcTypes, Publishing
    <3>2. published' = Append(published, calls) /\ consumed' = consumed /\ Read' = Read
      BY <2>3 DEF Ipc!PublishStore, Ipc!consumer, Read
    <3>3. /\ Written' = Written + 1 /\ published'[Written + 1] = calls
          /\ \A n \in 1..Written : published'[n] = published[n]
      BY <2>2, <3>1, <3>2 DEF Written
    <3>4. IpcQueue' = Append(IpcQueue, calls) /\ Len(IpcQueue) < CAPACITY
      <4> DEFINE m == Written - Read
      <4>1. m \in Nat /\ m < CAPACITY /\ Written' - Read' = m + 1 /\ Read + (m + 1) = Written + 1
        BY <2>2, <3>1, <3>2, <3>3
      <4>2. \A n \in 1..m : Read + n \in 1..Written
        BY <2>2
      <4>3. IpcQueue' = [n \in 1..(m + 1) |-> published'[Read + n]]
        BY <3>2, <4>1 DEF IpcQueue
      <4>4. IpcQueue = [n \in 1..m |-> published[Read + n]]
        BY DEF IpcQueue
      <4>5. IpcQueue \in Seq(Int) /\ Len(IpcQueue) = m
        BY <2>2, <4>1, <4>2, <4>4
      <4> DEFINE t == [n \in 1..(m + 1) |-> published'[Read + n]]
      <4>6. \A n \in 1..(m + 1) : Append(IpcQueue, calls)[n] = t[n]
        <5> SUFFICES ASSUME NEW n \in 1..(m + 1)
                     PROVE  Append(IpcQueue, calls)[n] = published'[Read + n]
          OBVIOUS
        <5>1. CASE n = m + 1
          BY <3>1, <3>3, <4>1, <4>5, <5>1
        <5>2. CASE n \in 1..m
          <6>1. Append(IpcQueue, calls)[n] = IpcQueue[n]
            BY <3>1, <4>5, <5>2
          <6>2. IpcQueue[n] = published[Read + n]
            BY <4>4, <5>2
          <6>3. published'[Read + n] = published[Read + n]
            BY <3>3, <4>2, <5>2
          <6> QED BY <6>1, <6>2, <6>3
        <5>3. n = m + 1 \/ n \in 1..m
          <6> HIDE DEF m
          <6> QED BY <4>1
        <5> QED BY <5>1, <5>2, <5>3
      <4>7. t \in Seq(Int) /\ Len(t) = m + 1
        <5>1. \A n \in 1..(m + 1) : published'[Read + n] \in Int
          <6>1. published' \in Seq(Int) /\ Len(published') = Written + 1
            BY <2>2, <3>1, <3>2
          <6> QED BY <2>2, <4>1, <6>1
        <5> QED BY <4>1, <5>1
      <4>8. Append(IpcQueue, calls) \in Seq(Int) /\ Len(Append(IpcQueue, calls)) = m + 1
        BY <3>1, <4>1, <4>5
      <4> HIDE DEF t
      <4>9. Append(IpcQueue, calls) = t
        BY <4>6, <4>7, <4>8, SeqEqual
      <4> QED BY <4>1, <4>3, <4>5, <4>9 DEF t
    <3> QED BY <2>1, <3>1, <3>2, <3>4 DEF Ipc!Fifo!Next, Ipc!Fifo!Enqueue
  <2>4. CASE Ipc!ConsumeStore
    <3>1. Consuming /\ consumed' = Append(consumed, payload) /\ UNCHANGED <<Written, published>>
      BY <2>4 DEF Ipc!ConsumeStore, Ipc!producer, Written, Consuming
    <3>2. Read' = Read + 1 /\ payload = published[Read + 1]
      BY <2>2, <2>4, <3>1 DEF Ipc!ConsumeStore, IpcInv, IpcContents, Read
    <3>3. IpcQueue # <<>> /\ Head(IpcQueue) = payload /\ IpcQueue' = Tail(IpcQueue)
      <4> DEFINE m == Written - Read
      <4>1. m \in Nat \ {0} /\ Written' - Read' = m - 1 /\ Read + m <= Len(published)
        BY <2>2, <3>1, <3>2
      <4>2. IpcQueue = [n \in 1..m |-> published[Read + n]] /\ IpcQueue # <<>>
        BY <4>1 DEF IpcQueue
      <4>3. IpcQueue' = [n \in 1..(m - 1) |-> published[(Read + 1) + n]]
        BY <3>1, <3>2, <4>1 DEF IpcQueue
      <4> HIDE DEF m
      <4>4. /\ Head([n \in 1..m |-> published[Read + n]]) = published[Read + 1]
            /\ Tail([n \in 1..m |-> published[Read + n]])
                 = [n \in 1..(m - 1) |-> published[(Read + 1) + n]]
        BY <2>2, <4>1, WindowTail, ZenonT(60)
      <4> QED BY <3>2, <4>2, <4>3, <4>4
    <3> QED BY <2>1, <3>1, <3>3 DEF Ipc!Fifo!Next, Ipc!Fifo!Dequeue
  <2>5. CASE UNCHANGED <<published, consumed>>
    BY <2>1, <2>5 DEF IpcQueue, Written, Read
  <2> QED BY <2>3, <2>4, <2>5
          DEF Ipc!Next, Ipc!Producer, Ipc!Consumer, ipcVars, Ipc!producer, Ipc!consumer,
              Ipc!NewProducer, Ipc!OpenAsProducer, Ipc!PublishLoad, Ipc!PublishWrite,
              Ipc!NewConsumer, Ipc!ConsumeLoad, Ipc!ConsumeUnmapped, Ipc!ConsumeRead
<1> QED BY <1>1, <1>2, IpcInductive, PTL DEF Spec, Ipc!ImplementsBoundedFifo, Ipc!Fifo!Spec

(* For any capacities, moduli and numbers of items: no ring's writer ever   *)
(* writes a slot its reader may be reading or has yet to read.              *)
THEOREM SlotsDoNotRace == Spec => []NoSlotRace
<1>1. LmaxInv /\ MempoolInv /\ IpcInv => NoSlotRace
  BY LmaxNoLap, MempoolNoRace, IpcNoRace DEF NoSlotRace
<1> QED BY <1>1, LmaxInductive, MempoolInductive, IpcInductive, PTL

(* For any capacities, moduli and numbers of items: the mempool buffer and  *)
(* the shared-memory channel implement the bounded FIFO queue.              *)
THEOREM BuffersRefine == Spec => BuffersAreFifo
  BY MempoolRefines, IpcRefines DEF BuffersAreFifo

-----------------------------------------------------------------------------
(* The pipeline.                                                            *)

(* What happens to the pipeline is a step of its module or nothing.         *)
LEMMA PipelineStep == Next => [Pipeline!Next]_pipelineVars
  BY DEF Next, RingNext, ThreadNext, DeviceNext, threads, pipelineVars

(* Tasks are numbers.                                                       *)
PipelineTypes ==
  /\ feed \in Nat \ {0}
  /\ worker \in [Goroutines -> Int] /\ mux \in [Goroutines -> Int]
  /\ results \in Seq(Int)

(* A task that a worker is at was fed and is nowhere else.                  *)
WorkerOnce == \A w \in Goroutines : worker[w] > 0 =>
  /\ worker[w] < feed
  /\ \A v \in Goroutines : (worker[v] = worker[w] => v = w) /\ mux[v] # worker[w]
  /\ \A n \in 1..Len(results) : results[n] # worker[w]

(* The same of a task that fanIn forwards ...                               *)
MuxOnce == \A w \in Goroutines : mux[w] > 0 =>
  /\ mux[w] < feed
  /\ \A v \in Goroutines : mux[v] = mux[w] => v = w
  /\ \A n \in 1..Len(results) : results[n] # mux[w]

(* ... and of one that has come out.                                        *)
ResultsOnce == \A n \in 1..Len(results) :
  /\ results[n] \in 1..(feed - 1)
  /\ \A m \in 1..Len(results) : results[m] = results[n] => m = n

(* Nothing that was fed is missing unless the context was cancelled.        *)
NothingDropped == ~ctxDone =>
  \A t \in 1..(feed - 1) :
    \/ \E w \in Goroutines : worker[w] = t \/ mux[w] = t
    \/ \E n \in 1..Len(results) : results[n] = t

(* Who has ended before whom.                                               *)
EndsInOrder ==
  /\ inputClosed /\ ~ctxDone => feed > TaskCount
  /\ \A w \in Goroutines : worker[w] < 0 => ctxDone \/ inputClosed
  /\ \A w \in Goroutines : mux[w] < 0 => ctxDone \/ worker[w] < 0
  /\ streamClosed => \A w \in Goroutines : mux[w] = -1

(* The inductive invariant of the pipeline.                                 *)
PipelineInv ==
  PipelineTypes /\ WorkerOnce /\ MuxOnce /\ ResultsOnce /\ NothingDropped /\ EndsInOrder

(* Every goroutine keeps it, at whatever point the context is cancelled.    *)
LEMMA PipelineInductive == Spec => []PipelineInv
<1>1. Init => PipelineInv
  <2> SUFFICES ASSUME Pipeline!Init PROVE PipelineInv
    BY DEF Init
  <2>1. ~inputClosed /\ ~streamClosed
    BY Zenon DEF Pipeline!Init
  <2> QED BY <2>1 DEF Pipeline!Init, Pipeline!Idle, PipelineInv, PipelineTypes, WorkerOnce, MuxOnce,
             ResultsOnce, NothingDropped, EndsInOrder
<1>2. PipelineInv /\ [Next]_all => PipelineInv'
  <2> SUFFICES ASSUME PipelineInv, [Pipeline!Next]_pipelineVars PROVE PipelineInv'
    BY PipelineStep DEF all, threads, pipelineVars
  <2> USE DEF PipelineInv, Pipeline!Idle, Pipeline!Ended
  <2>1. CASE Pipeline!Timeout
    <3>1. UNCHANGED <<feed, inputClosed, worker, mux, streamClosed, results>>
      BY <2>1 DEF Pipeline!Timeout
    <3>2. ctxDone'
      BY <2>1, Zenon DEF Pipeline!Timeout
    <3> QED BY <3>1, <3>2 DEF PipelineTypes, WorkerOnce, MuxOnce, ResultsOnce, NothingDropped,
             EndsInOrder
  <2>2. CASE Pipeline!CloseInput
    <3>1. UNCHANGED <<ctxDone, feed, worker, mux, streamClosed, results>> /\ (ctxDone \/ feed > TaskCount)
      BY <2>2 DEF Pipeline!CloseInput
    <3>2. inputClosed'
      BY <2>2, Zenon DEF Pipeline!CloseInput
    <3> QED BY <3>1, <3>2 DEF PipelineTypes, WorkerOnce, MuxOnce, ResultsOnce, NothingDropped,
             EndsInOrder
  <2>3. ASSUME NEW w \in Goroutines, Pipeline!Feed(w) PROVE PipelineInv'
    <3>1. /\ UNCHANGED <<ctxDone, inputClosed, mux, streamClosed, results>>
          /\ worker[w] = 0 /\ ~inputClosed /\ feed' = feed + 1
          /\ worker' = [worker EXCEPT ![w] = feed]
      BY <2>3 DEF Pipeline!Feed
    <3>2. PipelineTypes'
      BY <3>1 DEF PipelineTypes
    <3>3. worker'[w] = feed /\ \A v \in Goroutines \ {w} : worker'[v] = worker[v]
      BY <3>1 DEF PipelineTypes
    <3>4. WorkerOnce'
      <4> SUFFICES ASSUME NEW v \in Goroutines, worker'[v] > 0
                   PROVE  /\ worker'[v] < feed + 1
                          /\ \A u \in Goroutines : /\ worker'[u] = worker'[v] => u = v
                                                   /\ mux[u] # worker'[v]
                          /\ \A n \in 1..Len(results) : results[n] # worker'[v]
        BY <3>1 DEF WorkerOnce
      <4>1. \A u \in Goroutines : worker[u] < feed /\ mux[u] < feed
        BY DEF PipelineTypes, WorkerOnce, MuxOnce
      <4>2. CASE v = w
        BY <3>3, <4>1, <4>2 DEF PipelineTypes, ResultsOnce
      <4>3. CASE v # w
        BY <3>3, <4>1, <4>3, SMTT(60) DEF PipelineTypes, WorkerOnce
      <4> QED BY <4>2, <4>3
    <3>5. MuxOnce' /\ ResultsOnce'
      BY <3>1, SMTT(60) DEF PipelineTypes, MuxOnce, ResultsOnce
    <3>6. NothingDropped'
      <4> SUFFICES ASSUME ~ctxDone, NEW t \in 1..feed
                   PROVE  \/ \E v \in Goroutines : worker'[v] = t \/ mux[v] = t
                          \/ \E n \in 1..Len(results) : results[n] = t
        <5>1. 1..(feed' - 1) = 1..feed
          BY <3>1 DEF PipelineTypes
        <5> QED BY <3>1, <5>1 DEF NothingDropped
      <4>1. CASE t = feed
        BY <3>3, <4>1
      <4>2. CASE t \in 1..(feed - 1)
        <5>1. \A v \in Goroutines : worker[v] = t => v # w
          BY <3>1, <4>2 DEF PipelineTypes
        <5> QED BY <3>3, <4>2, <5>1 DEF NothingDropped
      <4> QED BY <4>1, <4>2 DEF PipelineTypes
    <3>7. EndsInOrder'
      BY <3>1, <3>3 DEF PipelineTypes, EndsInOrder
    <3> QED BY <3>2, <3>4, <3>5, <3>6, <3>7
  <2>4. ASSUME NEW w \in Goroutines, Pipeline!WorkerReturns(w) PROVE PipelineInv'
    <3>1. /\ UNCHANGED <<ctxDone, feed, inputClosed, mux, streamClosed, results>>
          /\ worker[w] = 0 /\ (ctxDone \/ inputClosed)
          /\ worker' = [worker EXCEPT ![w] = -1]
      BY <2>4 DEF Pipeline!WorkerReturns
    <3>2. PipelineTypes'
      BY <3>1 DEF PipelineTypes
    <3>3. worker'[w] = -1 /\ \A v \in Goroutines \ {w} : worker'[v] = worker[v]
      BY <3>1 DEF PipelineTypes
    <3>4. WorkerOnce' /\ MuxOnce' /\ ResultsOnce'
      BY <3>1, <3>3, SMTT(60) DEF PipelineTypes, WorkerOnce, MuxOnce, ResultsOnce
    <3>5. NothingDropped'
      <4> SUFFICES ASSUME ~ctxDone, NEW t \in 1..(feed - 1)
                   PROVE  \/ \E v \in Goroutines : worker'[v] = t \/ mux[v] = t
                          \/ \E n \in 1..Len(results) : results[n] = t
        BY <3>1 DEF NothingDropped
      <4>1. \A v \in Goroutines : worker[v] = t => v # w
        BY <3>1 DEF PipelineTypes
      <4> QED BY <3>3, <4>1 DEF NothingDropped
    <3>6. EndsInOrder'
      BY <3>1, <3>3 DEF PipelineTypes, EndsInOrder
    <3> QED BY <3>2, <3>4, <3>5, <3>6
  <2>5. ASSUME NEW w \in Goroutines, Pipeline!HandOver(w) PROVE PipelineInv'
    <3>1. /\ UNCHANGED <<ctxDone, feed, inputClosed, streamClosed, results>>
          /\ worker[w] > 0 /\ mux[w] = 0
          /\ mux' = [mux EXCEPT ![w] = worker[w]] /\ worker' = [worker EXCEPT ![w] = 0]
      BY <2>5 DEF Pipeline!HandOver
    <3>2. PipelineTypes'
      BY <3>1 DEF PipelineTypes
    <3>3. /\ worker'[w] = 0 /\ \A v \in Goroutines \ {w} : worker'[v] = worker[v]
          /\ mux'[w] = worker[w] /\ \A v \in Goroutines \ {w} : mux'[v] = mux[v]
      BY <3>1 DEF PipelineTypes
    <3>4. WorkerOnce' 
      BY <3>1, <3>3 DEF PipelineTypes, WorkerOnce
    <3>5. MuxOnce' /\ ResultsOnce'
      BY <3>1, <3>3 DEF PipelineTypes, WorkerOnce, MuxOnce, ResultsOnce
    <3>6. NothingDropped'
      BY <3>1, <3>3, ZenonT(60) DEF PipelineTypes, NothingDropped
    <3>7. EndsInOrder'
      BY <3>1, <3>3 DEF PipelineTypes, EndsInOrder
    <3> QED BY <3>2, <3>4, <3>5, <3>6, <3>7
  <2>6. ASSUME NEW w \in Goroutines, Pipeline!Deliver(w) PROVE PipelineInv'
    <3>1. /\ UNCHANGED <<ctxDone, feed, inputClosed, worker, streamClosed>>
          /\ mux[w] > 0 /\ ~streamClosed
          /\ mux' = [mux EXCEPT ![w] = 0] /\ results' = Append(results, mux[w])
      BY <2>6 DEF Pipeline!Deliver
    <3>2. PipelineTypes'
      BY <3>1 DEF PipelineTypes
    <3>3. mux'[w] = 0 /\ \A v \in Goroutines \ {w} : mux'[v] = mux[v]
      BY <3>1 DEF PipelineTypes
    <3>4. /\ Len(results') = Len(results) + 1 /\ results'[Len(results) + 1] = mux[w]
          /\ \A n \in 1..Len(results) : results'[n] = results[n]
          /\ Len(results) \in Nat
      BY <3>1 DEF PipelineTypes
    <3>5. 1..Len(results') = 1..Len(results) \union {Len(results) + 1}
      BY <3>4
    <3>6. WorkerOnce' 
      BY <3>1, <3>3, <3>4, <3>5 DEF PipelineTypes, WorkerOnce
    <3>7. MuxOnce'
      BY <3>1, <3>3, <3>4, <3>5 DEF PipelineTypes, MuxOnce
    <3>8. ResultsOnce'
      BY <3>1, <3>3, <3>4, <3>5, SMTT(60) DEF PipelineTypes, MuxOnce, ResultsOnce
    <3>9. NothingDropped'
      <4> SUFFICES ASSUME ~ctxDone, NEW t \in 1..(feed - 1)
                   PROVE  \/ \E v \in Goroutines : worker[v] = t \/ mux'[v] = t
                          \/ \E n \in 1..Len(results') : results'[n] = t
        BY <3>1 DEF NothingDropped
      <4>1. CASE \E v \in Goroutines : worker[v] = t
        BY <4>1
      <4>2. CASE \E v \in Goroutines : mux[v] = t
        BY <3>3, <3>4, <3>5, <4>2
      <4>3. CASE \E n \in 1..Len(results) : results[n] = t
        BY <3>4, <3>5, <4>3
      <4> QED BY <4>1, <4>2, <4>3 DEF NothingDropped
    <3>10. EndsInOrder'
      BY <3>1, <3>3 DEF PipelineTypes, EndsInOrder
    <3> QED BY <3>2, <3>6, <3>7, <3>8, <3>9, <3>10
  <2>7. ASSUME NEW w \in Goroutines, Pipeline!MultiplexReturns(w) PROVE PipelineInv'
    <3>1. /\ UNCHANGED <<ctxDone, feed, inputClosed, worker, streamClosed, results>>
          /\ (mux[w] > 0 /\ ctxDone) \/ (mux[w] = 0 /\ worker[w] = -1)
          /\ mux' = [mux EXCEPT ![w] = -1]
      BY <2>7 DEF Pipeline!MultiplexReturns
    <3>2. PipelineTypes'
      BY <3>1 DEF PipelineTypes
    <3>3. mux'[w] = -1 /\ \A v \in Goroutines \ {w} : mux'[v] = mux[v]
      BY <3>1 DEF PipelineTypes
    <3>4. WorkerOnce' /\ MuxOnce' /\ ResultsOnce'
      BY <3>1, <3>3, SMTT(60) DEF PipelineTypes, WorkerOnce, MuxOnce, ResultsOnce
    <3>5. NothingDropped'
      BY <3>1, <3>3 DEF PipelineTypes, NothingDropped
    <3>6. EndsInOrder'
      BY <3>1, <3>3 DEF PipelineTypes, EndsInOrder
    <3> QED BY <3>2, <3>4, <3>5, <3>6
  <2>8. CASE Pipeline!CloseStream
    <3>1. UNCHANGED <<ctxDone, feed, inputClosed, worker, mux, results>> /\ Pipeline!Waited
      BY <2>8 DEF Pipeline!CloseStream
    <3> QED BY <3>1 DEF PipelineTypes, WorkerOnce, MuxOnce, ResultsOnce, NothingDropped,
             EndsInOrder, Pipeline!Waited
  <2>9. CASE UNCHANGED <<ctxDone, feed, inputClosed, worker, mux, streamClosed, results>>
    BY <2>9 DEF PipelineTypes, WorkerOnce, MuxOnce, ResultsOnce, NothingDropped, EndsInOrder
  <2> QED BY <2>1, <2>2, <2>3, <2>4, <2>5, <2>6, <2>7, <2>8, <2>9
          DEF Pipeline!Next, Pipeline!Goroutine, Pipeline!MainReturns, Pipeline!vars, pipelineVars
<1> QED BY <1>1, <1>2, PTL DEF Spec

(* It says what PipelineDelivers says.                                      *)
LEMMA PipelineSafe == PipelineInv => Pipeline!PipelineDelivers
<1> SUFFICES ASSUME PipelineInv PROVE Pipeline!PipelineDelivers
  OBVIOUS
<1> USE DEF PipelineInv, PipelineTypes
<1>1. Pipeline!NoSendOnClosed
  BY DEF Pipeline!NoSendOnClosed, EndsInOrder, Pipeline!Ended
<1>2. Pipeline!TaskInOnePlace
  <2> SUFFICES ASSUME NEW t \in 1..TaskCount
               PROVE  LET w1 == {w \in Goroutines : worker[w] = t}
                          w2 == {w \in Goroutines : mux[w] = t}
                          r  == {n \in 1..Len(results) : results[n] = t}
                      IN  /\ t >= feed => w1 = {} /\ w2 = {} /\ r = {}
                          /\ \A a, b \in (w1 \X {1}) \union (w2 \X {2}) \union (r \X {3}) : a = b
    BY DEF Pipeline!TaskInOnePlace
  <2> DEFINE w1 == {w \in Goroutines : worker[w] = t}
             w2 == {w \in Goroutines : mux[w] = t}
             r  == {n \in 1..Len(results) : results[n] = t}
  <2>1. t \in Nat /\ t > 0
    BY ConcurrencyAssumption DEF Pipeline!PipelineAssumption
  <2>2. t >= feed => w1 = {} /\ w2 = {} /\ r = {}
    BY <2>1, SMTT(60) DEF WorkerOnce, MuxOnce, ResultsOnce
  <2>3. /\ \A w, v \in w1 : w = v
        /\ \A w, v \in w2 : w = v
        /\ \A w, v \in r : w = v
    BY <2>1 DEF WorkerOnce, MuxOnce, ResultsOnce
  <2>4. (w1 # {} => w2 = {} /\ r = {}) /\ (w2 # {} => r = {})
    BY <2>1 DEF WorkerOnce, MuxOnce
  <2> HIDE DEF w1, w2, r
  <2>5. \A a, b \in (w1 \X {1}) \union (w2 \X {2}) \union (r \X {3}) : a = b
    <3>1. CASE w1 # {}
      <4>1. (w1 \X {1}) \union (w2 \X {2}) \union (r \X {3}) = w1 \X {1}
        BY <2>4, <3>1
      <4>2. \A a, b \in w1 \X {1} : a = b
        BY <2>3, SMTT(60)
      <4> QED BY <4>1, <4>2
    <3>2. CASE w1 = {} /\ w2 # {}
      <4>1. (w1 \X {1}) \union (w2 \X {2}) \union (r \X {3}) = w2 \X {2}
        BY <2>4, <3>2
      <4>2. \A a, b \in w2 \X {2} : a = b
        BY <2>3, SMTT(60)
      <4> QED BY <4>1, <4>2
    <3>3. CASE w1 = {} /\ w2 = {}
      <4>1. (w1 \X {1}) \union (w2 \X {2}) \union (r \X {3}) = r \X {3}
        BY <3>3
      <4>2. \A a, b \in r \X {3} : a = b
        BY <2>3
      <4> QED BY <4>1, <4>2
    <3> QED BY <3>1, <3>2, <3>3
  <2> QED BY <2>2, <2>5 DEF w1, w2, r
<1>3. Pipeline!CompleteUnlessCancelled
  <2> SUFFICES ASSUME streamClosed, ~ctxDone, NEW t \in 1..TaskCount
               PROVE  \E n \in 1..Len(results) : results[n] = t
    BY DEF Pipeline!CompleteUnlessCancelled
  <2>1. \A w \in Goroutines : mux[w] = -1 /\ worker[w] < 0
    BY DEF EndsInOrder
  <2>2. Goroutines # {} /\ TaskCount \in Nat
    BY ConcurrencyAssumption DEF Pipeline!PipelineAssumption
  <2>3. feed > TaskCount
    BY <2>1, <2>2 DEF EndsInOrder
  <2>4. t \in 1..(feed - 1) /\ \A w \in Goroutines : worker[w] # t /\ mux[w] # t
    BY <2>1, <2>2, <2>3
  <2> QED BY <2>4 DEF NothingDropped
<1> QED BY <1>1, <1>2, <1>3 DEF Pipeline!PipelineDelivers

-----------------------------------------------------------------------------
(* The thread pool.                                                         *)

(* What happens to the thread pool is a step of its module or nothing.      *)
LEMMA PoolStep == Next => [Pool!Next]_poolVars
  BY DEF Next, RingNext, ThreadNext, DeviceNext, threads, poolVars

(* What its constants may be.                                               *)
LEMMA PoolAssumption == size \in Nat \ {0} /\ Jobs \in Nat \ {0}
  BY ConcurrencyAssumption DEF Pool!PoolAssumption

(* A message is a number, and so is what a worker runs.                     *)
PoolTypes ==
  /\ channel \in Seq(Int) /\ job \in [1..size -> Int] /\ ownerStep \in Nat \ {0}
  /\ thread \in [1..size -> {"lock", "recv", "job", "stopped", "panicked"}]
  /\ runs \in [1..Jobs -> Int]

(* The jobs 1..r were received, and the messages that wait are the next     *)
(* ones and then Terminates.                                                *)
Received(r) ==
  /\ \A j \in 1..Jobs : runs[j] = IF j <= r THEN 1 ELSE 0
  /\ \A n \in 1..Len(channel) : channel[n] = IF r + n <= Jobs THEN r + n ELSE 0
  /\ \A w \in 1..size : thread[w] = "stopped" => r = Jobs

(* What the owner has sent.                                                 *)
SentBy(r) ==
  /\ owner = "execute" => ownerStep = r + Len(channel) + 1 /\ ownerStep <= Jobs
  /\ owner \in {"terminate", "join", "dropped"} => r + Len(channel) >= Jobs

(* A job that was received is with a worker or has ended.                   *)
JobsAt(r) ==
  /\ finished \subseteq 1..r
  /\ \A w \in 1..size : thread[w] = "job" => job[w] \in 1..r
  /\ \A j \in 1..r : j \in finished \/ \E w \in 1..size : thread[w] = "job" /\ job[w] = j

(* The workers the owner has joined.                                        *)
JoinedInOrder ==
  /\ owner = "join" => ownerStep <= size /\ \A w \in 1..size : w < ownerStep => thread[w] = "stopped"
  /\ owner = "dropped" => \A w \in 1..size : thread[w] = "stopped"

(* The inductive invariant of the pool.                                     *)
PoolInv ==
  PoolTypes /\ JoinedInOrder /\ \E r \in 0..Jobs : Received(r) /\ SentBy(r) /\ JobsAt(r)

(* The workers and the owner keep it, panics included.                      *)
LEMMA PoolInductive == Spec => []PoolInv
<1> USE PoolAssumption
<1>1. Init => PoolInv
  <2> SUFFICES ASSUME Pool!Init PROVE PoolInv
    BY DEF Init
  <2>1. PoolTypes /\ JoinedInOrder
    BY DEF Pool!Init, Pool!Ids, PoolTypes, JoinedInOrder
  <2>2. Received(0) /\ SentBy(0) /\ JobsAt(0)
    BY DEF Pool!Init, Pool!Ids, Received, SentBy, JobsAt
  <2> QED BY <2>1, <2>2 DEF PoolInv
<1>2. PoolInv /\ [Next]_all => PoolInv'
  <2> SUFFICES ASSUME PoolInv, [Pool!Next]_poolVars PROVE PoolInv'
    BY PoolStep DEF all, threads, poolVars
  <2> USE DEF Pool!Ids
  <2>0. PICK r \in 0..Jobs : Received(r) /\ SentBy(r) /\ JobsAt(r)
    BY DEF PoolInv
  <2>00. PoolTypes /\ JoinedInOrder
    BY DEF PoolInv
  <2>1. ASSUME NEW w \in 1..size, Pool!Lock(w) PROVE PoolInv'
    <3>1. /\ UNCHANGED <<channel, job, runs, finished, owner, ownerStep>>
          /\ thread[w] = "lock" /\ thread' = [thread EXCEPT ![w] = "recv"]
      BY <2>1 DEF Pool!Lock
    <3>2. PoolTypes' /\ JoinedInOrder'
      BY <2>00, <3>1 DEF PoolTypes, JoinedInOrder
    <3>3. Received(r)' /\ SentBy(r)' /\ JobsAt(r)'
      BY <2>0, <2>00, <3>1 DEF PoolTypes, Received, SentBy, JobsAt
    <3> QED BY <3>2, <3>3 DEF PoolInv
  <2>2. ASSUME NEW w \in 1..size, Pool!Receive(w), Head(channel) = 0 PROVE PoolInv'
    <3>1. /\ UNCHANGED <<job, runs, finished, owner, ownerStep>>
          /\ thread[w] = "recv" /\ thread' = [thread EXCEPT ![w] = "stopped"]
          /\ channel # <<>> /\ channel' = Tail(channel)
      BY <2>2 DEF Pool!Receive, Pool!Terminate
    <3>2. /\ Len(channel) \in Nat \ {0} /\ Len(channel') = Len(channel) - 1 /\ channel' \in Seq(Int)
          /\ Head(channel) = channel[1]
          /\ \A n \in 1..Len(channel') : n + 1 \in 1..Len(channel) /\ channel'[n] = channel[n + 1]
      BY <2>00, <3>1 DEF PoolTypes
    <3>3. r = Jobs
      BY <2>0, <2>2, <3>2 DEF Received
    <3>4. PoolTypes' /\ JoinedInOrder'
      BY <2>00, <3>1, <3>2 DEF PoolTypes, JoinedInOrder
    <3>5. Received(r)'
      BY <2>0, <2>00, <3>1, <3>2, <3>3 DEF PoolTypes, Received
    <3>6. SentBy(r)'
      BY <2>0, <3>1, <3>2, <3>3 DEF SentBy
    <3>7. \A v \in 1..size : thread'[v] = "job" <=> thread[v] = "job"
      BY <2>00, <3>1 DEF PoolTypes
    <3>8. JobsAt(r)'
      BY <2>0, <3>1, <3>7 DEF JobsAt
    <3> QED BY <3>4, <3>5, <3>6, <3>8 DEF PoolInv
  <2>3. ASSUME NEW w \in 1..size, Pool!Receive(w), Head(channel) # 0 PROVE PoolInv'
    <3>1. /\ UNCHANGED <<finished, owner, ownerStep>>
          /\ thread[w] = "recv" /\ thread' = [thread EXCEPT ![w] = "job"]
          /\ channel # <<>> /\ channel' = Tail(channel)
          /\ job' = [job EXCEPT ![w] = Head(channel)]
          /\ runs' = [runs EXCEPT ![Head(channel)] = @ + 1]
      BY <2>3 DEF Pool!Receive, Pool!Terminate
    <3>2. /\ Len(channel) \in Nat \ {0} /\ Len(channel') = Len(channel) - 1 /\ channel' \in Seq(Int)
          /\ Head(channel) = channel[1]
          /\ \A n \in 1..Len(channel') : n + 1 \in 1..Len(channel) /\ channel'[n] = channel[n + 1]
      BY <2>00, <3>1 DEF PoolTypes
    <3>3. Head(channel) = r + 1 /\ r + 1 \in 1..Jobs
      BY <2>0, <2>3, <3>2 DEF Received
    <3>41. JoinedInOrder'
      BY <2>00, <3>1 DEF PoolTypes, JoinedInOrder
    <3>42. runs' \in [1..Jobs -> Int]
      BY <2>00, <3>1, <3>3, SMTT(60) DEF PoolTypes
    <3>43. job' \in [1..size -> Int]
      BY <2>00, <3>1, <3>3, SMTT(60) DEF PoolTypes
    <3>4. PoolTypes' /\ JoinedInOrder'
      BY <2>00, <3>1, <3>2, <3>41, <3>42, <3>43 DEF PoolTypes
    <3>5. Received(r + 1)'
      <4>1. \A j \in 1..Jobs : runs'[j] = IF j <= r + 1 THEN 1 ELSE 0
        BY <2>0, <2>00, <3>1, <3>3, SMTT(60) DEF PoolTypes, Received
      <4>2. \A n \in 1..Len(channel') : channel'[n] = IF r + 1 + n <= Jobs THEN r + 1 + n ELSE 0
        BY <2>0, <3>2 DEF Received
      <4>3. \A v \in 1..size : thread'[v] = "stopped" => r + 1 = Jobs
        BY <2>0, <2>00, <3>1, <3>3 DEF PoolTypes, Received
      <4> QED BY <4>1, <4>2, <4>3 DEF Received
    <3>6. SentBy(r + 1)'
      BY <2>0, <3>1, <3>2, <3>3 DEF SentBy
    <3>7. JobsAt(r + 1)'
      <4>1. finished' \subseteq 1..(r + 1)
        BY <2>0, <3>1, <3>3 DEF JobsAt
      <4>0. r \in Nat /\ 1..r \subseteq 1..(r + 1) /\ r + 1 \in 1..(r + 1)
        BY PoolAssumption
      <4>2. ASSUME NEW v \in 1..size, thread'[v] = "job" PROVE job'[v] \in 1..(r + 1)
        <5>1. CASE v = w
          BY <2>00, <3>1, <3>3, <4>0, <5>1 DEF PoolTypes
        <5>2. CASE v # w
          <6>1. thread[v] = "job" /\ job'[v] = job[v]
            BY <2>00, <3>1, <4>2, <5>2 DEF PoolTypes
          <6> QED BY <2>0, <4>0, <6>1 DEF JobsAt
        <5> QED BY <5>1, <5>2
      <4>3. ASSUME NEW j \in 1..(r + 1)
            PROVE  j \in finished' \/ \E v \in 1..size : thread'[v] = "job" /\ job'[v] = j
        <5>1. CASE j = r + 1
          BY <2>00, <3>1, <3>3, <5>1 DEF PoolTypes
        <5>2. CASE j \in 1..r
          BY <2>0, <2>00, <3>1, <5>2 DEF PoolTypes, JobsAt
        <5> QED BY <5>1, <5>2
      <4> QED BY <4>1, <4>2, <4>3 DEF JobsAt
    <3>8. r + 1 \in 0..Jobs
      BY <3>3
    <3> QED BY <3>4, <3>5, <3>6, <3>7, <3>8 DEF PoolInv
  <2>4. ASSUME NEW w \in 1..size, Pool!JobReturns(w) \/ Pool!JobPanics(w) PROVE PoolInv'
    <3>1. PICK next \in {"lock", "panicked"} :
             /\ UNCHANGED <<channel, job, runs, owner, ownerStep>>
             /\ thread[w] = "job" /\ thread' = [thread EXCEPT ![w] = next]
             /\ finished' = finished \union {job[w]}
      BY <2>4 DEF Pool!JobReturns, Pool!JobPanics, Pool!FinishJob
    <3>2. PoolTypes' /\ JoinedInOrder'
      BY <2>00, <3>1 DEF PoolTypes, JoinedInOrder
    <3>3. Received(r)' /\ SentBy(r)'
      BY <2>0, <2>00, <3>1 DEF PoolTypes, Received, SentBy
    <3>4. JobsAt(r)'
      <4>1. \A v \in 1..size : v # w => thread'[v] = thread[v]
        BY <2>00, <3>1 DEF PoolTypes
      <4>2. thread'[w] # "job"
        BY <2>00, <3>1 DEF PoolTypes
      <4> QED BY <2>0, <3>1, <4>1, <4>2, ZenonT(60) DEF JobsAt
    <3> QED BY <3>2, <3>3, <3>4 DEF PoolInv
  <2>5. ASSUME Pool!Execute \/ Pool!SendTerminate, Pool!ReceiverGone PROVE PoolInv'
    <3>1. UNCHANGED <<channel, thread, job, runs, finished, ownerStep>> /\ owner' = "panicked"
      BY <2>5 DEF Pool!Execute, Pool!SendTerminate, Pool!Send
    <3>2. PoolTypes' /\ JoinedInOrder'
      BY <2>00, <3>1 DEF PoolTypes, JoinedInOrder
    <3>3. Received(r)' /\ SentBy(r)' /\ JobsAt(r)'
      BY <2>0, <3>1 DEF Received, SentBy, JobsAt
    <3> QED BY <3>2, <3>3 DEF PoolInv
  <2>6. ASSUME Pool!Execute, ~Pool!ReceiverGone PROVE PoolInv'
    <3>1. /\ UNCHANGED <<thread, job, runs, finished>> /\ channel' = Append(channel, ownerStep)
          /\ owner = "execute"
          /\ IF ownerStep < Jobs THEN ownerStep' = ownerStep + 1 /\ owner' = "execute"
                                 ELSE ownerStep' = 1 /\ owner' = "terminate"
      BY <2>6 DEF Pool!Execute, Pool!Send
    <3>2. /\ Len(channel) \in Nat /\ Len(channel') = Len(channel) + 1 /\ channel' \in Seq(Int)
          /\ \A n \in 1..Len(channel) : channel'[n] = channel[n]
          /\ channel'[Len(channel) + 1] = ownerStep
      BY <2>00, <3>1 DEF PoolTypes
    <3>3. ownerStep = r + Len(channel) + 1 /\ ownerStep <= Jobs
      BY <2>0, <3>1 DEF SentBy
    <3>4. PoolTypes' /\ JoinedInOrder'
      BY <2>00, <3>1, <3>2, SMTT(60) DEF PoolTypes, JoinedInOrder
    <3>5. \A n \in 1..Len(channel') : channel'[n] = IF r + n <= Jobs THEN r + n ELSE 0
      <4> SUFFICES ASSUME NEW n \in 1..Len(channel')
                   PROVE  channel'[n] = IF r + n <= Jobs THEN r + n ELSE 0
        OBVIOUS
      <4>1. CASE n \in 1..Len(channel)
        BY <2>0, <3>2, <4>1 DEF Received
      <4>2. CASE n = Len(channel) + 1
        BY <3>2, <3>3, <4>2
      <4> QED BY <3>2, <4>1, <4>2
    <3>6. Received(r)'
      BY <2>0, <3>1, <3>5 DEF Received
    <3>7. SentBy(r)'
      BY <3>1, <3>2, <3>3, <2>00, SMTT(60) DEF SentBy, PoolTypes
    <3>8. JobsAt(r)'
      BY <2>0, <3>1 DEF JobsAt
    <3> QED BY <3>4, <3>6, <3>7, <3>8 DEF PoolInv
  <2>7. ASSUME Pool!SendTerminate, ~Pool!ReceiverGone PROVE PoolInv'
    <3>1. /\ UNCHANGED <<thread, job, runs, finished>> /\ channel' = Append(channel, 0)
          /\ owner = "terminate"
          /\ IF ownerStep < size THEN ownerStep' = ownerStep + 1 /\ owner' = "terminate"
                                 ELSE ownerStep' = 1 /\ owner' = "join"
      BY <2>7 DEF Pool!SendTerminate, Pool!Send, Pool!Terminate
    <3>2. /\ Len(channel) \in Nat /\ Len(channel') = Len(channel) + 1 /\ channel' \in Seq(Int)
          /\ \A n \in 1..Len(channel) : channel'[n] = channel[n]
          /\ channel'[Len(channel) + 1] = 0
      BY <2>00, <3>1 DEF PoolTypes
    <3>3. r + Len(channel) >= Jobs
      BY <2>0, <3>1 DEF SentBy
    <3>4. PoolTypes' /\ JoinedInOrder'
      BY <2>00, <3>1, <3>2, SMTT(60) DEF PoolTypes, JoinedInOrder
    <3>5. \A n \in 1..Len(channel') : channel'[n] = IF r + n <= Jobs THEN r + n ELSE 0
      <4> SUFFICES ASSUME NEW n \in 1..Len(channel')
                   PROVE  channel'[n] = IF r + n <= Jobs THEN r + n ELSE 0
        OBVIOUS
      <4>1. CASE n \in 1..Len(channel)
        BY <2>0, <3>2, <4>1 DEF Received
      <4>2. CASE n = Len(channel) + 1
        BY <3>2, <3>3, <4>2
      <4> QED BY <3>2, <4>1, <4>2
    <3>6. Received(r)'
      BY <2>0, <3>1, <3>5 DEF Received
    <3>7. SentBy(r)'
      BY <3>1, <3>2, <3>3, <2>00 DEF SentBy, PoolTypes
    <3>8. JobsAt(r)'
      BY <2>0, <3>1 DEF JobsAt
    <3> QED BY <3>4, <3>6, <3>7, <3>8 DEF PoolInv
  <2>8. CASE Pool!Join
    <3>1. /\ UNCHANGED <<channel, thread, job, runs, finished>> /\ owner = "join"
          /\ thread[ownerStep] \in {"stopped", "panicked"}
          /\ IF thread[ownerStep] = "panicked" THEN owner' = "panicked" /\ UNCHANGED ownerStep
             ELSE IF ownerStep < size THEN ownerStep' = ownerStep + 1 /\ UNCHANGED owner
             ELSE owner' = "dropped" /\ UNCHANGED ownerStep
      BY <2>8 DEF Pool!Join, Pool!Over
    <3>2. PoolTypes'
      BY <2>00, <3>1, SMTT(60) DEF PoolTypes
    <3>3. JoinedInOrder'
      BY <2>00, <3>1, SMTT(60) DEF PoolTypes, JoinedInOrder
    <3>4. Received(r)' /\ SentBy(r)' /\ JobsAt(r)'
      BY <2>0, <3>1 DEF Received, SentBy, JobsAt
    <3> QED BY <3>2, <3>3, <3>4 DEF PoolInv
  <2>9. CASE UNCHANGED poolVars
    BY <2>9 DEF poolVars, PoolInv, PoolTypes, JoinedInOrder, Received, SentBy, JobsAt
  <2> QED BY <2>1, <2>2, <2>3, <2>4, <2>5, <2>6, <2>7, <2>8, <2>9
          DEF Pool!Next, Pool!Owner, Pool!Worker, Pool!Ended, Pool!vars, poolVars
<1> QED BY <1>1, <1>2, PTL DEF Spec

(* It says what EachJobRunsOnce says: a worker that stops has seen a        *)
(* Terminate, which was sent behind the last job.                           *)
LEMMA PoolSafe == PoolInv => Pool!EachJobRunsOnce
<1> SUFFICES ASSUME PoolInv PROVE Pool!EachJobRunsOnce
  OBVIOUS
<1>1. PICK r \in 0..Jobs : Received(r) /\ JobsAt(r)
  BY DEF PoolInv
<1>2. Pool!RunAtMostOnce
  BY <1>1, PoolAssumption DEF Received, Pool!RunAtMostOnce
<1>3. ASSUME owner = "dropped" PROVE finished = 1..Jobs
  <2>1. \A w \in 1..size : thread[w] = "stopped"
    BY <1>3 DEF PoolInv, JoinedInOrder
  <2>2. 1 \in 1..size
    BY PoolAssumption
  <2>3. r = Jobs
    BY <1>1, <2>1, <2>2 DEF Received
  <2> QED BY <1>1, <2>1, <2>3 DEF JobsAt
<1> QED BY <1>2, <1>3 DEF Pool!EachJobRunsOnce, Pool!DropWaitsForJobs

-----------------------------------------------------------------------------
(* The transcoding orchestrator.                                            *)

(* What happens to the orchestrator is a step of its module or nothing.     *)
LEMMA HlsStep == Next => [Hls!Next]_hlsVars
  BY DEF Next, RingNext, ThreadNext, DeviceNext, threads, hlsVars

(* What its constants may be.                                               *)
LEMMA HlsAssumption == Chunks \in Nat \ {0} /\ PoolSize \in Nat \ {0}
  BY ConcurrencyAssumption DEF Hls!OrchestratorAssumption

(* The profiles are these two.                                              *)
LEMMA TwoProfiles ==
  /\ Len(Hls!Profiles) = 2 /\ Hls!Profiles[1] = "1080p" /\ Hls!Profiles[2] = "720p"
  /\ Hls!Resolutions = {"1080p", "720p"}
  BY DEF Hls!Profiles, Hls!Resolutions, Hls!Range

(* Every number below 2 * Chunks names a task of its own.                   *)
LEMMA TasksAreDistinct ==
  /\ \A n \in 0 .. 2 * Chunks - 1 : Hls!TaskAt(n) \in Hls!Tasks
  /\ \A n, m \in 0 .. 2 * Chunks - 1 : Hls!TaskAt(n) = Hls!TaskAt(m) => n = m
<1> USE HlsAssumption
<1>1. \A n \in 0 .. 2 * Chunks - 1 :
        /\ n \div Chunks \in {0, 1} /\ n % Chunks \in 0 .. Chunks - 1
        /\ n = (n \div Chunks) * Chunks + (n % Chunks)
  <2> TAKE n \in 0 .. 2 * Chunks - 1
  <2>1. CASE n < Chunks
    <3>1. n = 0 * Chunks + n /\ n \in 0 .. Chunks - 1
      BY <2>1
    <3>2. n % Chunks = n /\ n \div Chunks = 0
      BY <2>1, Z3
    <3> QED BY <3>1, <3>2
  <2>2. CASE ~(n < Chunks)
    <3>1. n = 1 * Chunks + (n - Chunks) /\ n - Chunks \in 0 .. Chunks - 1
      BY <2>2
    <3>2. n % Chunks = n - Chunks /\ n \div Chunks = 1
      BY <2>2, Z3
    <3>3. (n \div Chunks) * Chunks = Chunks /\ n \div Chunks \in {0, 1}
      BY <3>2
    <3>4. n \div Chunks \in {0, 1} /\ n % Chunks \in 0 .. Chunks - 1
      BY <3>1, <3>2
    <3>5. n = Chunks + (n % Chunks)
      BY <3>2
    <3> QED BY <3>3, <3>4, <3>5
  <2> QED BY <2>1, <2>2
<1>2. ASSUME NEW n \in 0 .. 2 * Chunks - 1
      PROVE  Hls!TaskAt(n) = <<IF n \div Chunks = 0 THEN "1080p" ELSE "720p", n % Chunks>>
  BY <1>1, TwoProfiles DEF Hls!TaskAt
<1>3. \A n \in 0 .. 2 * Chunks - 1 : Hls!TaskAt(n) \in Hls!Tasks
  BY <1>1, <1>2, TwoProfiles DEF Hls!Tasks
<1>4. ASSUME NEW n \in 0 .. 2 * Chunks - 1, NEW m \in 0 .. 2 * Chunks - 1,
             Hls!TaskAt(n) = Hls!TaskAt(m)
      PROVE  n = m
  <2>1. n % Chunks = m % Chunks /\ (n \div Chunks = 0 <=> m \div Chunks = 0)
    BY <1>2, <1>4
  <2>2. n \div Chunks = m \div Chunks
    BY <1>1, <2>1
  <2> QED BY <1>1, <2>1, <2>2
<1> QED BY <1>3, <1>4

(* Only the tasks of the two profiles are queued, run and listed.           *)
HlsTypes ==
  /\ main \in {"submit", "join", "ended", "failed"} /\ step \in 0 .. 2 * Chunks
  /\ queue \in Seq(Hls!Tasks) /\ running \subseteq Hls!Tasks /\ done \subseteq Hls!Tasks
  /\ stage \in [Hls!Resolutions -> {"pending", "joining", "opened", "written", "failed"}]
  /\ file \in [Hls!Resolutions -> Seq(Hls!Tasks) \union {Hls!NoFile}]

(* How many tasks a thread of the pool has taken.                           *)
Taken == step - Len(queue)

(* The queue holds the tasks that were submitted last, in their order;      *)
(* those before them run or are done.                                       *)
TasksInOrder ==
  /\ Taken >= 0 /\ (main = "submit" => step < 2 * Chunks)
  /\ \A n \in 1..Len(queue) : queue[n] = Hls!TaskAt(Taken + n - 1)
  /\ \A t \in running \union done : \E n \in 0 .. Taken - 1 : t = Hls!TaskAt(n)
  /\ running \intersect done = {}

(* A manifest is begun when its segments are complete, and main ends when   *)
(* the manifests are over.                                                  *)
StagesFollow ==
  /\ \A r \in Hls!Resolutions : stage[r] # "pending" => Hls!AllOf(r)
  /\ \A r \in Hls!Resolutions : stage[r] = "written" => file[r] = Hls!Segments(r)
  /\ main \in {"ended", "failed"} => \A r \in Hls!Resolutions : stage[r] \in Hls!Over
  /\ main = "ended" => \A r \in Hls!Resolutions : stage[r] = "written"

(* The inductive invariant of the orchestrator.                             *)
HlsInv == HlsTypes /\ TasksInOrder /\ StagesFollow

(* main, the pool's threads and the stages keep it, failures included.      *)
LEMMA HlsInductive == Spec => []HlsInv
<1> USE HlsAssumption
<1>1. Init => HlsInv
  <2> SUFFICES ASSUME Hls!Init PROVE HlsInv
    BY DEF Init
  <2>1. HlsTypes
    BY DEF Hls!Init, HlsTypes
  <2>2. TasksInOrder
    BY DEF Hls!Init, TasksInOrder, Taken
  <2>3. StagesFollow
    BY DEF Hls!Init, StagesFollow
  <2> QED BY <2>1, <2>2, <2>3 DEF HlsInv
<1>2. HlsInv /\ [Next]_all => HlsInv'
  <2> SUFFICES ASSUME HlsInv, [Hls!Next]_hlsVars PROVE HlsInv'
    BY HlsStep DEF all, threads, hlsVars
  <2>0. HlsTypes /\ TasksInOrder /\ StagesFollow
    BY DEF HlsInv
  <2>1. CASE Hls!Submit
    <3>1. /\ main = "submit" /\ queue' = Append(queue, Hls!TaskAt(step)) /\ step' = step + 1
          /\ main' = IF step' = 2 * Chunks THEN "join" ELSE main
          /\ UNCHANGED <<running, done, stage, file>>
      BY <2>1, TwoProfiles DEF Hls!Submit
    <3>2. step \in 0 .. 2 * Chunks - 1 /\ Hls!TaskAt(step) \in Hls!Tasks
      BY <2>0, <3>1, TasksAreDistinct DEF HlsTypes, TasksInOrder
    <3>3. /\ Len(queue) \in Nat /\ Len(queue') = Len(queue) + 1 /\ queue' \in Seq(Hls!Tasks)
          /\ \A n \in 1..Len(queue) : queue'[n] = queue[n]
          /\ queue'[Len(queue) + 1] = Hls!TaskAt(step)
      BY <2>0, <3>1, <3>2 DEF HlsTypes
    <3>4. HlsTypes'
      BY <2>0, <3>1, <3>2, <3>3 DEF HlsTypes
    <3>5. Taken' = Taken /\ Taken \in Int /\ Taken + Len(queue) = step
      <4>1. step \in Int /\ step' = step + 1 /\ Len(queue) \in Int /\ Len(queue') = Len(queue) + 1
        BY <3>1, <3>2, <3>3
      <4> QED BY <4>1 DEF Taken
    <3>6. ASSUME NEW n \in 1..Len(queue') PROVE queue'[n] = Hls!TaskAt(Taken + n - 1)
      <4>1. CASE n \in 1..Len(queue)
        BY <2>0, <3>3, <4>1 DEF TasksInOrder
      <4>2. CASE n = Len(queue) + 1
        <5>1. Taken + n - 1 = step
          BY <3>3, <3>5, <4>2
        <5> QED BY <3>3, <4>2, <5>1
      <4> QED BY <3>3, <4>1, <4>2
    <3>7. main' = "submit" => step' < 2 * Chunks
      BY <3>1, <3>2
    <3>8. TasksInOrder'
      BY <2>0, <3>1, <3>5, <3>6, <3>7 DEF TasksInOrder
    <3>9. StagesFollow'
      BY <2>0, <3>1 DEF StagesFollow, Hls!AllOf, Hls!Complete
    <3> QED BY <3>4, <3>8, <3>9 DEF HlsInv
  <2>2. CASE Hls!StartTask
    <3>1. /\ queue # <<>> /\ running' = running \union {Head(queue)} /\ queue' = Tail(queue)
          /\ UNCHANGED <<main, step, done, stage, file>>
      BY <2>2 DEF Hls!StartTask
    <3>2. /\ Len(queue) \in Nat \ {0} /\ Len(queue') = Len(queue) - 1 /\ queue' \in Seq(Hls!Tasks)
          /\ Head(queue) = queue[1] /\ queue[1] \in Hls!Tasks
          /\ \A n \in 1..Len(queue') : n + 1 \in 1..Len(queue) /\ queue'[n] = queue[n + 1]
      BY <2>0, <3>1 DEF HlsTypes
    <3>3. HlsTypes'
      BY <2>0, <3>1, <3>2 DEF HlsTypes
    <3>4. Taken' = Taken + 1 /\ Taken \in Nat /\ Taken < step
      BY <2>0, <3>1, <3>2 DEF Taken, HlsTypes, TasksInOrder
    <3>5. Head(queue) = Hls!TaskAt(Taken)
      <4>1. Taken + 1 - 1 = Taken /\ 1 \in 1..Len(queue)
        BY <3>2, <3>4
      <4> QED BY <2>0, <3>2, <4>1 DEF TasksInOrder
    <3>6. ASSUME NEW n \in 1..Len(queue') PROVE queue'[n] = Hls!TaskAt(Taken' + n - 1)
      <4>1. Taken' + n - 1 = Taken + (n + 1) - 1
        BY <3>2, <3>4
      <4> QED BY <2>0, <3>2, <4>1 DEF TasksInOrder
    <3>7. Head(queue) \notin done
      <4> SUFFICES ASSUME NEW n \in 0 .. Taken - 1, Hls!TaskAt(n) = Hls!TaskAt(Taken) PROVE FALSE
        BY <2>0, <3>5 DEF TasksInOrder
      <4>1. n \in 0 .. 2 * Chunks - 1 /\ Taken \in 0 .. 2 * Chunks - 1
        BY <2>0, <3>4 DEF HlsTypes
      <4> QED BY <3>4, <4>1, TasksAreDistinct
    <3>8. \A t \in running' \union done' : \E n \in 0 .. Taken' - 1 : t = Hls!TaskAt(n)
      <4>1. 0 .. Taken - 1 \subseteq 0 .. Taken' - 1 /\ Taken \in 0 .. Taken' - 1
        BY <3>4
      <4> QED BY <2>0, <3>1, <3>5, <4>1 DEF TasksInOrder
    <3>9. TasksInOrder'
      BY <2>0, <3>1, <3>4, <3>6, <3>7, <3>8 DEF TasksInOrder
    <3>10. StagesFollow'
      BY <2>0, <3>1 DEF StagesFollow, Hls!AllOf, Hls!Complete
    <3> QED BY <3>3, <3>9, <3>10 DEF HlsInv
  <2>3. ASSUME NEW t \in Hls!Tasks, Hls!ExecuteFFmpeg(t) PROVE HlsInv'
    <3>1. /\ t \in running /\ running' = running \ {t} /\ done' = done \union {t}
          /\ UNCHANGED <<main, step, queue, stage, file>>
      BY <2>3 DEF Hls!ExecuteFFmpeg
    <3>2. HlsTypes'
      BY <2>0, <3>1 DEF HlsTypes
    <3>3. TasksInOrder'
      BY <2>0, <3>1 DEF TasksInOrder, Taken
    <3>4. StagesFollow'
      BY <2>0, <3>1 DEF StagesFollow, Hls!AllOf, Hls!Complete
    <3> QED BY <3>2, <3>3, <3>4 DEF HlsInv
  <2>4. ASSUME NEW r \in Hls!Resolutions, Hls!Manifest(r) PROVE HlsInv'
    <3>1. UNCHANGED <<main, step, queue, running, done>>
      BY <2>4 DEF Hls!Manifest, Hls!StartManifest, Hls!OpenManifest, Hls!WriteManifest, Hls!FailManifest
    <3>2. TasksInOrder'
      BY <2>0, <3>1 DEF TasksInOrder, Taken
    <3>3. PICK next \in {"joining", "opened", "written", "failed"},
               f \in Seq(Hls!Tasks) \union {Hls!NoFile} :
            /\ stage' = [stage EXCEPT ![r] = next] /\ file' = [file EXCEPT ![r] = f]
            /\ stage[r] \in {"pending", "joining", "opened"} /\ Hls!AllOf(r)
            /\ next = "written" => f = Hls!Segments(r)
      <4>1. Hls!Segments(r) \in Seq(Hls!Tasks) /\ <<>> \in Seq(Hls!Tasks)
        BY DEF Hls!Segments, Hls!Tasks
      <4>2. file[r] \in Seq(Hls!Tasks) \union {Hls!NoFile} /\ file = [file EXCEPT ![r] = file[r]]
        BY <2>0 DEF HlsTypes
      <4>3. CASE Hls!StartManifest(r)
        BY <4>2, <4>3 DEF Hls!StartManifest
      <4>4. CASE Hls!OpenManifest(r)
        BY <4>1, <4>4 DEF Hls!OpenManifest, Hls!AllOf
      <4>5. CASE Hls!WriteManifest(r)
        BY <2>0, <4>1, <4>5 DEF Hls!WriteManifest, StagesFollow
      <4>6. CASE Hls!FailManifest(r)
        BY <4>2, <4>6 DEF Hls!FailManifest, Hls!AllOf
      <4> QED BY <2>4, <4>3, <4>4, <4>5, <4>6 DEF Hls!Manifest
    <3>4. HlsTypes'
      BY <2>0, <3>1, <3>3 DEF HlsTypes
    <3>5. /\ \A q \in Hls!Resolutions : Hls!AllOf(q)' <=> Hls!AllOf(q)
          /\ \A q \in Hls!Resolutions : q # r => stage'[q] = stage[q] /\ file'[q] = file[q]
          /\ stage'[r] = next /\ file'[r] = f
      BY <2>0, <3>1, <3>3 DEF HlsTypes, Hls!AllOf, Hls!Complete
    <3>6. main \notin {"ended", "failed"}
      BY <2>0, <3>3 DEF StagesFollow, Hls!Over
    <3>7. StagesFollow'
      BY <2>0, <3>1, <3>3, <3>5, <3>6 DEF StagesFollow, Hls!Segments
    <3> QED BY <3>2, <3>4, <3>7 DEF HlsInv
  <2>5. CASE Hls!JoinReturns \/ Hls!JoinThrows
    <3>1. /\ UNCHANGED <<step, queue, running, done, stage, file>> /\ main = "join"
          /\ main' \in {"ended", "failed"}
          /\ \A r \in Hls!Resolutions : stage[r] \in Hls!Over
          /\ main' = "ended" => \A r \in Hls!Resolutions : stage[r] = "written"
      BY <2>5 DEF Hls!JoinReturns, Hls!JoinThrows, Hls!Joined, Hls!Over
    <3>2. HlsTypes'
      BY <2>0, <3>1 DEF HlsTypes
    <3>3. TasksInOrder'
      BY <2>0, <3>1 DEF TasksInOrder, Taken
    <3>4. StagesFollow'
      BY <2>0, <3>1 DEF StagesFollow, Hls!AllOf, Hls!Complete
    <3> QED BY <3>2, <3>3, <3>4 DEF HlsInv
  <2>6. CASE UNCHANGED hlsVars
    BY <2>6, <2>0 DEF hlsVars, HlsInv, HlsTypes, TasksInOrder, Taken, StagesFollow, Hls!AllOf,
                      Hls!Complete
  <2> QED BY <2>1, <2>2, <2>3, <2>4, <2>5, <2>6 DEF Hls!Next, Hls!Main, Hls!Ended, Hls!vars, hlsVars
<1> QED BY <1>1, <1>2, PTL DEF Spec

(* It says what OutputIsComplete says: a task that waits or runs is not     *)
(* done.                                                                    *)
LEMMA HlsSafe == HlsInv => Hls!OutputIsComplete
<1> SUFFICES ASSUME HlsInv PROVE Hls!OutputIsComplete
  OBVIOUS
<1> USE HlsAssumption
<1>0. HlsTypes /\ TasksInOrder /\ StagesFollow
  BY DEF HlsInv
<1>1. Hls!PlaylistIsComplete
  <2> SUFFICES ASSUME main = "ended", NEW r \in Hls!Resolutions
               PROVE  Len(file[r]) = Chunks /\ \A n \in 1..Chunks : file[r][n] = <<r, n - 1>>
    BY DEF Hls!PlaylistIsComplete
  <2>1. file[r] = [n \in 1..Chunks |-> <<r, n - 1>>]
    BY <1>0 DEF StagesFollow, Hls!Segments
  <2>2. file[r] \in Seq(Hls!Resolutions \X Int) /\ DOMAIN file[r] = 1..Chunks
    BY <2>1
  <2> QED BY <2>1, <2>2
<1>2. Hls!NothingLeftBehind
  <2> SUFFICES ASSUME \A r \in Hls!Resolutions : stage[r] \in Hls!Over
               PROVE  queue = <<>> /\ running = {}
    BY <1>0 DEF Hls!NothingLeftBehind, StagesFollow
  <2>1. Hls!Tasks \subseteq done
    BY <1>0 DEF StagesFollow, Hls!Over, Hls!AllOf, Hls!Complete, Hls!Tasks
  <2>2. running = {}
    BY <1>0, <2>1 DEF HlsTypes, TasksInOrder
  <2>3. ASSUME queue # <<>> PROVE FALSE
    <3>1. Len(queue) \in Nat \ {0} /\ Len(queue) <= step /\ queue[1] \in Hls!Tasks
          /\ Taken \in 0 .. 2 * Chunks - 1
      BY <1>0, <2>3 DEF HlsTypes, TasksInOrder, Taken
    <3>2. queue[1] = Hls!TaskAt(Taken)
      <4>1. Taken + 1 - 1 = Taken /\ 1 \in 1..Len(queue)
        BY <3>1
      <4> QED BY <1>0, <4>1 DEF TasksInOrder
    <3>3. PICK n \in 0 .. Taken - 1 : queue[1] = Hls!TaskAt(n)
      BY <1>0, <2>1, <3>1 DEF TasksInOrder
    <3>4. n \in 0 .. 2 * Chunks - 1 /\ n < Taken
      BY <3>1
    <3>5. Hls!TaskAt(n) = Hls!TaskAt(Taken)
      BY <3>2, <3>3
    <3>6. n = Taken
      BY <3>1, <3>4, <3>5, TasksAreDistinct
    <3> QED BY <3>1, <3>4, <3>6
  <2> QED BY <2>2, <2>3
<1> QED BY <1>1, <1>2 DEF Hls!OutputIsComplete

-----------------------------------------------------------------------------
(* The spin lock.                                                           *)

(* What happens to the workers is a step of their module or nothing.        *)
LEMMA LockStep == Next => [Lock!Next]_lockVars
  BY DEF Next, RingNext, ThreadNext, DeviceNext, threads, lockVars

(* What their constants may be.                                             *)
LEMMA LockAssumption == numWorkers \in Nat \ {0} /\ Iterations \in Nat /\ IsFiniteSet(Cells)
  BY ConcurrencyAssumption DEF Lock!SpinLockAssumption, Lock!IsFiniteSet, IsFiniteSet

(* What main adds up, under the name the sum has outside its module.        *)
LEMMA LockTotal == ASSUME NEW data PROVE Lock!Total(data) = SumFunctionOnSet(data, Cells)
  BY DEF Lock!Total, Lock!SumFunctionOnSet, Lock!FoldFunctionOnSet, Lock!MapThenFoldSet,
         SumFunctionOnSet, FoldFunctionOnSet, MapThenFoldSet

(* There are numWorkers of them.                                            *)
LEMMA LockWorkers ==
  /\ IsFiniteSet(Lock!Workers) /\ Cardinality(Lock!Workers) = numWorkers
  BY LockAssumption, FS_Interval DEF Lock!Workers

(* The workers main has seen exit.                                          *)
Left == {w \in Lock!Workers : pc[w] = "exited"}

(* No worker takes more turns than its loop has.                            *)
LockTypes ==
  /\ mutex \in {0, 1} /\ sharedData \in [Cells -> Int]
  /\ pc \in [Lock!Workers -> {"spin", "critical", "release", "exiting", "exited"}]
  /\ turns \in [Lock!Workers -> 0..Iterations]

(* The cells hold every turn that was begun but the one of the worker that  *)
(* has the lock and has not added yet.                                      *)
TurnsAreCounted ==
  SumFunctionOnSet(sharedData, Cells) =
    SumFunctionOnSet(turns, Lock!Workers)
      - (IF \E w \in Lock!Workers : pc[w] = "critical" THEN 1 ELSE 0)

(* Who leaves has taken all its turns, and main has counted who left.       *)
ExitsAreCounted ==
  /\ \A w \in Lock!Workers : pc[w] \in {"exiting", "exited"} => turns[w] = Iterations
  /\ completedWorkers = Cardinality(Left)
  /\ sum # -1 => completedWorkers = numWorkers /\ sum = numWorkers * Iterations

(* The inductive invariant of the workers.                                  *)
LockInv == LockTypes /\ Lock!MutualExclusion /\ TurnsAreCounted /\ ExitsAreCounted

(* Its sums are of integers.                                                *)
LEMMA TurnsSum ==
  ASSUME LockTypes
  PROVE  /\ \A w \in Lock!Workers : turns[w] \in Int
         /\ \A k_1 \in Cells : sharedData[k_1] \in Int
         /\ SumFunctionOnSet(turns, Lock!Workers) \in Int
         /\ SumFunctionOnSet(sharedData, Cells) \in Int
<1>1. /\ \A w \in Lock!Workers : turns[w] \in Int
      /\ \A k_1 \in Cells : sharedData[k_1] \in Int
  BY LockAssumption DEF LockTypes
<1> QED BY <1>1, SumInt, LockWorkers, LockAssumption

(* When main has counted them all, all have left.                           *)
LEMMA ExitedSum ==
  ASSUME LockTypes
  PROVE  /\ Cardinality(Left) \in 0..numWorkers
         /\ Cardinality(Left) = numWorkers => Left = Lock!Workers
  <1>1. Left \in SUBSET Lock!Workers
    BY DEF Left
  <1> QED BY <1>1, LockWorkers, LockAssumption, FS_Subset, FS_CardinalityType

(* The lock, the increments and the exits keep it.                          *)
LEMMA LockInductive == Spec => []LockInv
<1> USE LockAssumption
<1>1. Init => LockInv
  <2> SUFFICES ASSUME Lock!Init PROVE LockInv
    BY DEF Init
  <2>1. LockTypes /\ Lock!MutualExclusion
    BY DEF Lock!Init, LockTypes, Lock!MutualExclusion, Lock!Inside, Lock!LOCKED, Lock!UNLOCKED
  <2>2. TurnsAreCounted
    <3>1. SumFunctionOnSet(sharedData, Cells) = Cardinality(Cells) * 0
      BY SumConstant DEF Lock!Init
    <3>2. SumFunctionOnSet(turns, Lock!Workers) = Cardinality(Lock!Workers) * 0
      BY SumConstant, LockWorkers DEF Lock!Init
    <3>3. Cardinality(Cells) * 0 = 0 /\ Cardinality(Lock!Workers) * 0 = 0
      BY FS_CardinalityType, LockWorkers
    <3>4. ~ \E w \in Lock!Workers : pc[w] = "critical"
      BY DEF Lock!Init
    <3> QED BY <3>1, <3>2, <3>3, <3>4 DEF TurnsAreCounted
  <2>3. ExitsAreCounted
    <3>1. Left = {}
      BY DEF Lock!Init, Left
    <3> QED BY <3>1, FS_EmptySet DEF Lock!Init, ExitsAreCounted, Lock!Unknown
  <2> QED BY <2>1, <2>2, <2>3 DEF LockInv
<1>2. LockInv /\ [Next]_all => LockInv'
  <2> SUFFICES ASSUME LockInv, [Lock!Next]_lockVars PROVE LockInv'
    BY LockStep DEF all, threads, lockVars
  <2>0. LockTypes /\ Lock!MutualExclusion /\ TurnsAreCounted /\ ExitsAreCounted
    BY DEF LockInv
  <2>1. ASSUME NEW w \in Lock!Workers, Lock!Acquire(w) PROVE LockInv'
    <3>1. /\ pc[w] = "spin" /\ turns[w] < Iterations /\ mutex = 0 /\ mutex' = 1
          /\ pc' = [pc EXCEPT ![w] = "critical"] /\ turns' = [turns EXCEPT ![w] = @ + 1]
          /\ UNCHANGED <<sharedData, completedWorkers, sum>>
      BY <2>1 DEF Lock!Acquire, Lock!UNLOCKED, Lock!LOCKED
    <3>2. LockTypes'
      BY <2>0, <3>1 DEF LockTypes
    <3>3. Lock!Inside = {} /\ Lock!Inside' = {w}
      BY <2>0, <3>1 DEF LockTypes, Lock!MutualExclusion, Lock!Inside, Lock!LOCKED
    <3>4. Lock!MutualExclusion'
      BY <3>1, <3>3 DEF Lock!MutualExclusion, Lock!LOCKED
    <3>5. TurnsAreCounted'
      <4>1. SumFunctionOnSet(turns', Lock!Workers)
              = SumFunctionOnSet(turns, Lock!Workers) - turns[w] + turns'[w]
        <5>1. /\ \A y \in Lock!Workers : turns[y] \in Int
              /\ turns'[w] \in Int /\ \A y \in Lock!Workers \ {w} : turns'[y] = turns[y]
          BY <2>0, <3>1 DEF LockTypes
        <5> QED BY <5>1, SumChange, LockWorkers
      <4>2. turns'[w] = turns[w] + 1 /\ turns[w] \in Int
        BY <2>0, <3>1 DEF LockTypes
      <4>3. ~(\E v \in Lock!Workers : pc[v] = "critical") /\ \E v \in Lock!Workers : pc'[v] = "critical"
        BY <2>0, <3>1, <3>3 DEF LockTypes, Lock!Inside
      <4> QED BY <2>0, <3>1, <4>1, <4>2, <4>3, TurnsSum DEF TurnsAreCounted
    <3>6. ExitsAreCounted'
      <4>1. Left' = Left
        BY <2>0, <3>1 DEF LockTypes, Left
      <4> QED BY <2>0, <3>1, <4>1 DEF LockTypes, ExitsAreCounted
    <3> QED BY <3>2, <3>4, <3>5, <3>6 DEF LockInv
  <2>2. ASSUME NEW w \in Lock!Workers, Lock!Increment(w) PROVE LockInv'
    <3>1. PICK n \in Cells : sharedData' = [sharedData EXCEPT ![n] = @ + 1]
      BY <2>2 DEF Lock!Increment
    <3>2. /\ pc[w] = "critical" /\ pc' = [pc EXCEPT ![w] = "release"]
          /\ UNCHANGED <<mutex, turns, completedWorkers, sum>>
      BY <2>2 DEF Lock!Increment
    <3>3. LockTypes'
      BY <2>0, <3>1, <3>2 DEF LockTypes
    <3>4. Lock!Inside' = Lock!Inside
      BY <2>0, <3>2 DEF LockTypes, Lock!Inside
    <3>5. Lock!MutualExclusion'
      BY <2>0, <3>2, <3>4 DEF Lock!MutualExclusion
    <3>6. TurnsAreCounted'
      <4>1. SumFunctionOnSet(sharedData', Cells)
              = SumFunctionOnSet(sharedData, Cells) - sharedData[n] + sharedData'[n]
        <5>1. /\ \A y \in Cells : sharedData[y] \in Int
              /\ sharedData'[n] \in Int /\ \A y \in Cells \ {n} : sharedData'[y] = sharedData[y]
          BY <2>0, <3>1 DEF LockTypes
        <5> QED BY <5>1, SumChange
      <4>2. sharedData'[n] = sharedData[n] + 1 /\ sharedData[n] \in Int
        BY <2>0, <3>1 DEF LockTypes
      <4>3. (\E v \in Lock!Workers : pc[v] = "critical") /\ ~ \E v \in Lock!Workers : pc'[v] = "critical"
        BY <2>0, <3>2 DEF LockTypes, Lock!MutualExclusion, Lock!Inside
      <4> QED BY <2>0, <3>2, <4>1, <4>2, <4>3, TurnsSum DEF TurnsAreCounted
    <3>7. ExitsAreCounted'
      <4>1. Left' = Left
        BY <2>0, <3>2 DEF LockTypes, Left
      <4> QED BY <2>0, <3>2, <4>1 DEF LockTypes, ExitsAreCounted
    <3> QED BY <3>3, <3>5, <3>6, <3>7 DEF LockInv
  <2>3. ASSUME NEW w \in Lock!Workers, Lock!Release(w) \/ Lock!Finish(w) PROVE LockInv'
    <3>1. PICK next \in {"spin", "exiting"} :
            /\ pc' = [pc EXCEPT ![w] = next]
            /\ next = "spin" => pc[w] = "release" /\ mutex' = 0
            /\ next = "exiting" => pc[w] = "spin" /\ mutex' = mutex /\ turns[w] = Iterations
            /\ UNCHANGED <<sharedData, turns, completedWorkers, sum>>
      BY <2>3 DEF Lock!Release, Lock!Finish, Lock!UNLOCKED
    <3>2. LockTypes'
      BY <2>0, <3>1 DEF LockTypes
    <3>3. Lock!MutualExclusion'
      <4>1. CASE next = "spin"
        <5>1. Lock!Inside = {w} /\ Lock!Inside' = {}
          BY <2>0, <3>1, <4>1 DEF LockTypes, Lock!MutualExclusion, Lock!Inside
        <5> QED BY <3>1, <4>1, <5>1 DEF Lock!MutualExclusion, Lock!LOCKED
      <4>2. CASE next = "exiting"
        <5>1. Lock!Inside = Lock!Inside'
          BY <2>0, <3>1, <4>2 DEF LockTypes, Lock!Inside
        <5> QED BY <2>0, <3>1, <4>2, <5>1 DEF Lock!MutualExclusion
      <4> QED BY <4>1, <4>2
    <3>4. TurnsAreCounted'
      <4>1. (\E v \in Lock!Workers : pc'[v] = "critical") <=> \E v \in Lock!Workers : pc[v] = "critical"
        BY <2>0, <3>1 DEF LockTypes
      <4> QED BY <2>0, <3>1, <4>1 DEF TurnsAreCounted
    <3>5. ExitsAreCounted'
      <4>1. Left' = Left
        BY <2>0, <3>1 DEF LockTypes, Left
      <4> QED BY <2>0, <3>1, <4>1 DEF LockTypes, ExitsAreCounted
    <3> QED BY <3>2, <3>3, <3>4, <3>5 DEF LockInv
  <2>4. ASSUME NEW w \in Lock!Workers, Lock!OnExit(w) PROVE LockInv'
    <3>1. /\ pc[w] = "exiting" /\ pc' = [pc EXCEPT ![w] = "exited"]
          /\ completedWorkers' = completedWorkers + 1
          /\ sum' = IF completedWorkers' = numWorkers THEN Lock!Total(sharedData) ELSE sum
          /\ UNCHANGED <<mutex, sharedData, turns>>
      BY <2>4 DEF Lock!OnExit
    <3>2. LockTypes'
      BY <2>0, <3>1 DEF LockTypes
    <3>3. Lock!Inside' = Lock!Inside
      BY <2>0, <3>1 DEF LockTypes, Lock!Inside
    <3>4. Lock!MutualExclusion'
      BY <2>0, <3>1, <3>3 DEF Lock!MutualExclusion
    <3>5. (\E v \in Lock!Workers : pc'[v] = "critical") <=> \E v \in Lock!Workers : pc[v] = "critical"
      BY <2>0, <3>1 DEF LockTypes
    <3>6. TurnsAreCounted'
      BY <2>0, <3>1, <3>5 DEF TurnsAreCounted
    <3>7. Left' = Left \union {w} /\ w \notin Left
      BY <2>0, <3>1 DEF LockTypes, Left
    <3>8. Cardinality(Left') = Cardinality(Left) + 1
      <4>1. IsFiniteSet(Left)
        BY LockWorkers, FS_Subset DEF Left
      <4> QED BY <3>7, <4>1, FS_AddElement
    <3>9. sum = -1
      <4> SUFFICES ASSUME Cardinality(Left) = numWorkers PROVE FALSE
        BY <2>0 DEF ExitsAreCounted
      <4> QED BY <2>0, <3>7, ExitedSum
    <3>10. ASSUME completedWorkers' = numWorkers PROVE sum' = numWorkers * Iterations
      <4>1. Cardinality(Left') = numWorkers
        BY <2>0, <3>1, <3>8, <3>10 DEF ExitsAreCounted
      <4>2. (LockTypes => (Cardinality(Left) = numWorkers => Left = Lock!Workers))'
        BY ExitedSum, PTL
      <4>3. \A v \in Lock!Workers : pc'[v] = "exited"
        BY <3>2, <4>1, <4>2 DEF Left
      <4>4. \A v \in Lock!Workers : turns[v] = Iterations
        BY <2>0, <3>1, <4>3 DEF LockTypes, ExitsAreCounted
      <4>5. SumFunctionOnSet(turns, Lock!Workers) = Cardinality(Lock!Workers) * Iterations
        BY <4>4, LockWorkers, SumConstant
      <4>6. SumFunctionOnSet(sharedData, Cells) = SumFunctionOnSet(turns, Lock!Workers)
        <5>1. ~ \E v \in Lock!Workers : pc[v] = "critical"
          BY <3>5, <4>3
        <5> QED BY <2>0, <5>1, TurnsSum DEF TurnsAreCounted
      <4> QED BY <3>1, <3>10, <4>5, <4>6, LockWorkers, LockTotal
    <3>11. ExitsAreCounted'
      <4>1. \A v \in Lock!Workers : pc'[v] \in {"exiting", "exited"} => turns'[v] = Iterations
        BY <2>0, <3>1 DEF LockTypes, ExitsAreCounted
      <4>2. completedWorkers' = Cardinality(Left')
        BY <2>0, <3>1, <3>8 DEF ExitsAreCounted
      <4>3. sum' # -1 => completedWorkers' = numWorkers /\ sum' = numWorkers * Iterations
        BY <3>1, <3>9, <3>10
      <4> QED BY <4>1, <4>2, <4>3 DEF ExitsAreCounted
    <3> QED BY <3>2, <3>4, <3>6, <3>11 DEF LockInv
  <2>5. CASE UNCHANGED lockVars
    BY <2>0, <2>5 DEF lockVars, LockInv, LockTypes, TurnsAreCounted, ExitsAreCounted, Left,
                      Lock!MutualExclusion, Lock!Inside
  <2> QED BY <2>1, <2>2, <2>3, <2>4, <2>5 DEF Lock!Next, Lock!Worker, Lock!Exited, Lock!vars, lockVars
<1> QED BY <1>1, <1>2, PTL DEF Spec

(* It says what NoIncrementLost says.                                       *)
LEMMA LockSafe == LockInv => Lock!NoIncrementLost
  BY DEF LockInv, ExitsAreCounted, Lock!NoIncrementLost, Lock!SumIsComplete, Lock!Unknown

(* For any goroutines and number of tasks: the pipeline sends on no closed  *)
(* channel, repeats nothing, and is complete unless it was cancelled.       *)
THEOREM PipelineIsSound == Spec => []PipelineDelivers
<1>1. PipelineInv => PipelineDelivers
  BY PipelineSafe DEF PipelineDelivers
<1> QED BY <1>1, PipelineInductive, PTL

(* For any size of the pool and number of jobs: each job runs once at most, *)
(* and when drop returns all have.                                          *)
THEOREM JobsRunOnce == Spec => []EachJobRunsOnce
<1>1. PoolInv => EachJobRunsOnce
  BY PoolSafe DEF EachJobRunsOnce
<1> QED BY <1>1, PoolInductive, PTL

(* For any number of workers, turns and cells: one worker at a time holds   *)
(* the spin lock, and the sum main prints is that of all the turns.         *)
THEOREM IncrementsAreKept == Spec => []NoIncrementLost
<1>1. LockInv => NoIncrementLost
  BY LockSafe DEF NoIncrementLost
<1> QED BY <1>1, LockInductive, PTL

(* For any number of chunks and threads: when main ends, nothing is left at *)
(* work, and unless a manifest failed both list all their segments in       *)
(* order.                                                                   *)
THEOREM PlaylistsAreComplete == Spec => []OutputIsComplete
<1>1. HlsInv => OutputIsComplete
  BY HlsSafe DEF OutputIsComplete
<1> QED BY <1>1, HlsInductive, PTL

-----------------------------------------------------------------------------
(* The process list.                                                        *)

(* What happens to the process list is a step of its module or nothing.     *)
LEMMA ListStep == Next => [List!Next]_listVars
  BY DEF Next, RingNext, ThreadNext, DeviceNext, devices, listVars

(* What its constants may be.                                               *)
LEMMA ListAssumption == InitialSizes \subseteq Nat /\ MaxProcesses \in Nat \ {0}
  BY ConcurrencyAssumption DEF List!ListAssumption

(* The buffer is as large as the kernel is told, and allocated is whether   *)
(* there is one.                                                            *)
ListInv ==
  /\ processes \in Nat /\ bufferSize \in Nat /\ list \in Int /\ allocated \in Nat
  /\ mainAt \in {"load", "resolve", "query"} /\ list # -1 => bufferSize <= list
  /\ mainAt # "return0" => allocated = IF list = -1 THEN 0 ELSE 1
  /\ mainAt = "return0" => allocated = 0

(* The queries, the growth and the reallocations keep it so.                *)
LEMMA ListInductive == Spec => []ListInv
<1>1. Init => ListInv
  BY ListAssumption DEF Init, List!Init, ListInv, List!NULL
<1>2. ListInv /\ [Next]_all => ListInv'
  <2> SUFFICES ASSUME ListInv, [List!Next]_listVars PROVE ListInv'
    BY ListStep DEF all, devices, listVars
  <2> USE ListAssumption DEF ListInv, List!Goto, List!NULL
  <2>1. CASE List!LoadLibrary \/ List!GetProcAddress
    BY <2>1 DEF List!LoadLibrary, List!GetProcAddress
  <2>2. CASE List!QueryMismatch \/ List!QuerySuccess \/ List!QueryFailure
    BY <2>2 DEF List!QueryMismatch, List!QuerySuccess, List!QueryFailure
  <2>3. CASE List!Reallocate
    BY <2>3 DEF List!Reallocate, List!free
  <2>4. CASE List!ParseFailed \/ List!ParseElse
    BY <2>4 DEF List!ParseFailed, List!ParseElse
  <2>5. CASE List!WalkEntry \/ List!WalkFaults
    BY <2>5 DEF List!WalkEntry, List!WalkFaults
  <2>6. CASE List!Release
    BY <2>6 DEF List!Release, List!free
  <2>7. CASE List!Churn
    BY <2>7 DEF List!Churn
  <2>8. CASE UNCHANGED listVars
    BY <2>8 DEF listVars
  <2> QED BY <2>1, <2>2, <2>3, <2>4, <2>5, <2>6, <2>7, <2>8
          DEF List!Next, List!Main, List!Rest, List!vars, listVars
<1> QED BY <1>1, <1>2, PTL DEF Spec

(* It says what BufferIsExact says.                                         *)
LEMMA ListIsExact == ListInv => List!BufferIsExact
  BY DEF ListInv, List!BufferIsExact, List!NULL

(* However many processes there are and however often their number grows    *)
(* between two queries: the kernel is told the size the buffer has, and no  *)
(* buffer is lost.                                                          *)
THEOREM BuffersAreExact == Spec => []BufferIsExact
<1>1. ListInv => BufferIsExact
  BY ListIsExact DEF BufferIsExact
<1> QED BY <1>1, ListInductive, PTL

-----------------------------------------------------------------------------
(* The tensor-core kernel.                                                  *)

(* What happens to the tensor-core kernel is a step of its module or        *)
(* nothing.                                                                 *)
LEMMA TensorStep == Next => [Tensor!Next]_tensorVars
  BY DEF Next, RingNext, ThreadNext, DeviceNext, devices, tensorVars

(* What its constants may be.                                               *)
LEMMA TensorAssumption ==
  /\ Tile \in Nat \ {0} /\ WarpRows \in Nat \ {0} /\ WarpCols \in Nat \ {0}
  /\ MatrixSizes \subseteq Nat
  /\ \A d \in MatrixSizes : WarpRows * Tile >= d /\ WarpCols * Tile >= d
  BY ConcurrencyAssumption DEF Tensor!MatMulAssumption

(* The matrices are of sizes the launch covers.                             *)
Sized == M \in MatrixSizes /\ N \in MatrixSizes /\ K \in MatrixSizes
(* The loop's i behind the loop.                                            *)
End == K + ((-K) % Tile)

(* What is known of the sizes.                                              *)
LEMMA SizesAre ==
  ASSUME Sized
  PROVE  /\ M \in Nat /\ N \in Nat /\ K \in Nat
         /\ WarpRows * Tile >= M /\ WarpCols * Tile >= N
         /\ Tensor!Spoilt \in 0..(Tile - 1) /\ (N + Tensor!Spoilt) % Tile = 0
         /\ N % Tile = 0 => Tensor!Spoilt = 0
         /\ End \in Nat /\ End % Tile = 0 /\ K <= End /\ End < K + Tile
         /\ K % Tile = 0 => End = K
<1>1. /\ M \in Nat /\ N \in Nat /\ K \in Nat /\ Tile \in Nat \ {0}
      /\ WarpRows * Tile >= M /\ WarpCols * Tile >= N
  BY TensorAssumption DEF Sized
<1>2. /\ (-N) % Tile \in 0..(Tile - 1) /\ (N + ((-N) % Tile)) % Tile = 0
      /\ N % Tile = 0 => (-N) % Tile = 0
  BY ONLY <1>1, RoundedUp
<1> DEFINE r == (-K) % Tile
<1>3. /\ r \in 0..(Tile - 1) /\ (K + r) % Tile = 0
      /\ K % Tile = 0 => r = 0
  BY ONLY <1>1, RoundedUp
<1> HIDE DEF r
<1>4. K + r \in Nat /\ K <= K + r /\ K + r < K + Tile /\ (K % Tile = 0 => K + r = K)
  BY <1>1, <1>3
<1> QED BY <1>1, <1>2, <1>3, <1>4 DEF Tensor!Spoilt, End, r

(* The row and the column of c that a cell of the tile of warp w is.        *)
RowOf(w, cell) == w[1] * Tile + cell[1]
ColOf(w, cell) == w[2] * Tile + cell[2]
(* The products of the first m columns of a row of a with a column of b, as *)
(* b is stored.                                                             *)
Dot(row, col, m) == [n \in 1..m |-> <<row * K + (n - 1), Tensor!StoredAt(n - 1, col)>>]

(* The numbers a cell is computed from.                                     *)
LEMMA CellTypes ==
  ASSUME NEW w \in Tensor!Warps, NEW cell \in Tensor!TileCells
  PROVE  /\ w[1] \in Nat /\ w[2] \in Nat /\ cell[1] \in 0..(Tile - 1) /\ cell[2] \in 0..(Tile - 1)
         /\ w[1] * Tile \in Int /\ w[2] * Tile \in Int
         /\ RowOf(w, cell) \in Int /\ ColOf(w, cell) \in Int
<1> USE TensorAssumption
<1>1. w[1] \in Nat /\ w[2] \in Nat /\ cell[1] \in 0..(Tile - 1) /\ cell[2] \in 0..(Tile - 1)
  BY DEF Tensor!Warps, Tensor!TileCells
<1>2. w[1] * Tile \in Int /\ w[2] * Tile \in Int
  BY <1>1
<1> QED BY <1>1, <1>2 DEF RowOf, ColOf

(* A tile more of products behind those of the first m columns.             *)
LEMMA DotGrows ==
  ASSUME Sized, NEW w \in Tensor!Warps, NEW cell \in Tensor!TileCells, k[w] \in Nat, k[w] % Tile = 0
  PROVE  Dot(RowOf(w, cell), ColOf(w, cell), k[w]) \o
           [n \in 1..Tile |-> <<Tensor!A_frag(w, cell[1], n - 1), Tensor!B_frag(w, n - 1, cell[2])>>]
         = Dot(RowOf(w, cell), ColOf(w, cell), k[w] + Tile)
<1> DEFINE a == k[w]  r == RowOf(w, cell)  o == ColOf(w, cell)
           d == Dot(r, o, a)
           e == [n \in 1..Tile |-> <<Tensor!A_frag(w, cell[1], n - 1), Tensor!B_frag(w, n - 1, cell[2])>>]
           f == Dot(r, o, a + Tile)
<1>0. /\ w[1] \in Nat /\ w[2] \in Nat /\ cell[1] \in 0..(Tile - 1) /\ cell[2] \in 0..(Tile - 1)
      /\ w[1] * Tile \in Int /\ w[2] * Tile \in Int /\ r \in Int /\ o \in Int /\ a \in Nat
      /\ Tile \in Nat \ {0} /\ K \in Nat /\ N \in Nat /\ a % Tile = 0
  BY CellTypes, TensorAssumption, SizesAre
<1>1. ASSUME NEW n \in 1..Tile
      PROVE  /\ Tensor!A_frag(w, cell[1], n - 1) = r * K + (a + n - 1)
             /\ Tensor!B_frag(w, n - 1, cell[2]) = Tensor!StoredAt(a + n - 1, o)
  <2>1. Tensor!A_frag(w, cell[1], n - 1) = r * K + (a + n - 1)
    <3>1. (w[1] * Tile + cell[1]) * K = (w[1] * Tile) * K + cell[1] * K
      BY <1>0
    <3> QED BY <1>0, <3>1 DEF Tensor!A_frag, RowOf
  <2>2. (a + (n - 1)) % Tile = n - 1 /\ (a + (n - 1)) - ((a + (n - 1)) % Tile) = a
    <3>1. n - 1 \in 0..(Tile - 1)
      BY <1>0
    <3>2. a \in Int
      BY <1>0
    <3> HIDE DEF a
    <3> QED BY ONLY <1>0, <3>1, <3>2, InTile
  <2>3. (w[2] * Tile) % Tile = 0
    <3>1. w[2] \in Int /\ Tile \in Nat \ {0}
      BY <1>0
    <3> QED BY ONLY <3>1, Multiple
  <2>4. o % Tile = cell[2] /\ o - (o % Tile) = w[2] * Tile
    BY <1>0, <2>3, InTile DEF ColOf
  <2>5. Tensor!StoredAt(a + (n - 1), o) = (a + cell[2]) * N + w[2] * Tile + (n - 1)
    <3>1. ((a + (n - 1)) - ((a + (n - 1)) % Tile)) + (o % Tile) = a + cell[2]
      BY <2>2, <2>4
    <3>2. Tensor!StoredAt(a + (n - 1), o) = (a + cell[2]) * N + (w[2] * Tile) + (n - 1)
      BY ONLY <3>1, <2>2, <2>4, Zenon DEF Tensor!StoredAt
    <3> QED BY <3>2
  <2>6. (a + cell[2]) * N = a * N + cell[2] * N
    BY <1>0
  <2>7. Tensor!B_frag(w, n - 1, cell[2]) = a * N + w[2] * Tile + cell[2] * N + (n - 1)
    BY <1>0 DEF Tensor!B_frag
  <2>8. a + n - 1 = a + (n - 1)
    BY <1>0
  <2>9. a * N \in Int /\ cell[2] * N \in Int
    BY <1>0
  <2>10. Tensor!B_frag(w, n - 1, cell[2]) = Tensor!StoredAt(a + (n - 1), o)
    BY <1>0, <2>5, <2>6, <2>7, <2>9, SMTT(60)
  <2> QED BY <2>1, <2>8, <2>10
<1>2. d = [n \in 1..a |-> <<r * K + (n - 1), Tensor!StoredAt(n - 1, o)>>]
      /\ f = [n \in 1..(a + Tile) |-> <<r * K + (n - 1), Tensor!StoredAt(n - 1, o)>>]
  BY DEF Dot
<1> HIDE DEF a, r, o, d, f, e
<1> DEFINE S == Int \X Int
<1>12. ASSUME NEW n \in Nat PROVE <<r * K + n, Tensor!StoredAt(n, o)>> \in S
  <2>1. r * K \in Int /\ n % Tile \in Int /\ o % Tile \in Int
    BY <1>0
  <2>2. ((n - (n % Tile)) + (o % Tile)) * N \in Int
    BY <1>0, <2>1
  <2>3. Tensor!StoredAt(n, o) \in Int
    BY <1>0, <2>1, <2>2 DEF Tensor!StoredAt
  <2> QED BY <2>1, <2>3
<1>13. \A n \in 1..(a + Tile) : n - 1 \in Nat
  BY <1>0
<1>14. \A n \in 1..(a + Tile) : <<r * K + (n - 1), Tensor!StoredAt(n - 1, o)>> \in S
  BY <1>12, <1>13
<1> HIDE DEF S
<1>3. d \in Seq(S) /\ Len(d) = a
  <2>1. 1..a \subseteq 1..(a + Tile)
    BY <1>0
  <2>2. \A n \in 1..a : d[n] \in S
    BY <1>2, <1>14, <2>1, Zenon
  <2>3. d = [n \in 1..a |-> d[n]]
    BY <1>2
  <2> QED BY ONLY <1>0, <2>2, <2>3, IsSeq
<1>4. f \in Seq(S) /\ Len(f) = a + Tile
  <2>1. \A n \in 1..(a + Tile) : f[n] \in S
    BY <1>2, <1>14, Zenon
  <2>2. f = [n \in 1..(a + Tile) |-> f[n]]
    BY <1>2
  <2>3. a + Tile \in Nat
    BY <1>0
  <2> QED BY ONLY <2>1, <2>2, <2>3, IsSeq
<1>5. \A n \in 1..Tile : e[n] = f[a + n]
  <2> TAKE n \in 1..Tile
  <2>1. a + n \in 1..(a + Tile) /\ a + n - 1 = (a + n) - 1
    BY <1>0
  <2>2. e[n] = <<r * K + (a + n - 1), Tensor!StoredAt(a + n - 1, o)>>
    BY <1>1 DEF e
  <2> QED BY <1>2, <2>1, <2>2
<1>6. DOMAIN e = 1..Tile
  BY DEF e
<1>7. e \in Seq(S) /\ Len(e) = Tile
  <2>1. \A n \in 1..Tile : e[n] \in S
    <3> TAKE n \in 1..Tile
    <3>1. a + n \in 1..(a + Tile)
      BY <1>0
    <3> QED BY <1>4, <1>5, <3>1
  <2>2. e = [n \in 1..Tile |-> e[n]]
    BY DEF e
  <2> HIDE DEF e
  <2> QED BY ONLY <1>0, <2>1, <2>2, IsSeq
<1>8. d \o e \in Seq(S) /\ Len(d \o e) = a + Tile
      /\ \A n \in 1..(a + Tile) : (d \o e)[n] = IF n <= a THEN d[n] ELSE e[n - a]
  BY <1>3, <1>7, ConcatProperties, ZenonT(60)
<1>9. \A n \in 1..(a + Tile) : (d \o e)[n] = f[n]
  <2> TAKE n \in 1..(a + Tile)
  <2>1. CASE n <= a
    BY <1>0, <1>2, <1>8, <2>1
  <2>2. CASE ~(n <= a)
    <3>1. n - a \in 1..Tile /\ a + (n - a) = n
      BY <1>0, <2>2
    <3> QED BY <1>5, <1>8, <2>2, <3>1
  <2> QED BY <2>1, <2>2
<1>10. d \o e = f
  BY <1>4, <1>8, <1>9, SeqEqual
<1> QED BY <1>10 DEF a, r, o, d, e, f

(* What the fragment of warp w holds behind the first m columns of a.       *)
Product(w, m) == [cell \in Tensor!TileCells |-> Dot(RowOf(w, cell), ColOf(w, cell), m)]
(* How many columns warp w has gone through, in whole tiles.                *)
Through(w) == IF k[w] <= End THEN k[w] ELSE End
(* The warp that computes a number of c, and where the number lies.         *)
Owner(row, col) == <<row \div Tile, col \div Tile>>
Place(row, col) == row * N + col
(* The number of c in its place.                                            *)
Exact(row, col) ==
  \/ c[Place(row, col)] = Dot(row, col, End)
  \/ c[Place(row, col)] = Tensor!Unwritten /\ k[Owner(row, col)] # Tensor!Stored
(* The matrices are made of whole tiles.                                    *)
Whole == M % Tile = 0 /\ N % Tile = 0 /\ K % Tile = 0

(* Where the warps are, and which arrays there are.                         *)
TensorTypes ==
  /\ k \in [Tensor!Warps -> Nat]
  /\ \A w \in Tensor!Warps : k[w] = Tensor!Stored \/ (k[w] % Tile = 0 /\ k[w] <= End)
  /\ DOMAIN frag = Tensor!Warps /\ DOMAIN c = 0..(M * N - 1)

(* The fragment of a warp holds the products of the columns it has gone     *)
(* through, in order; a number that is stored is the whole product, but in  *)
(* the columns a last tile reaches over; whole tiles are all that is        *)
(* accessed.                                                                *)
TensorInv ==
  /\ Sized
  /\ TensorTypes
  /\ \A w \in Tensor!Warps : Tensor!InBounds(w) => frag[w] = Product(w, Through(w))
  /\ \A row \in 0..(M - 1), col \in Tensor!Spoilt..(N - 1) : Exact(row, col)
  /\ Whole => ~stray

(* The launch's arguments do not change, and what is computed from them does*)
(* not.                                                                     *)
LEMMA SizesStay ==
  ASSUME M' = M, N' = N, K' = K
  PROVE  /\ Sized' = Sized /\ End' = End /\ Whole' = Whole
         /\ Tensor!Stored' = Tensor!Stored /\ Tensor!Spoilt' = Tensor!Spoilt
         /\ \A w : Tensor!InBounds(w)' = Tensor!InBounds(w)
         /\ \A w, m : Product(w, m)' = Product(w, m)
         /\ \A row, col, m : Dot(row, col, m)' = Dot(row, col, m)
         /\ \A row, col : Place(row, col)' = Place(row, col)
<1>1. Sized' = Sized /\ End' = End /\ Whole' = Whole
  BY DEF Sized, End, Whole
<1>2. Tensor!Stored' = Tensor!Stored /\ Tensor!Spoilt' = Tensor!Spoilt
  BY DEF Tensor!Stored, Tensor!Spoilt
<1>3. \A w : Tensor!InBounds(w)' = Tensor!InBounds(w)
  BY DEF Tensor!InBounds
<1>4. \A row, col, m : Dot(row, col, m)' = Dot(row, col, m)
  <2>1. \A row, col : Tensor!StoredAt(row, col)' = Tensor!StoredAt(row, col)
    BY DEF Tensor!StoredAt
  <2> QED BY <2>1 DEF Dot
<1>5. \A w, m : Product(w, m)' = Product(w, m)
  BY <1>4 DEF Product, RowOf, ColOf
<1>6. \A row, col : Place(row, col)' = Place(row, col)
  BY DEF Place
<1> QED BY <1>1, <1>2, <1>3, <1>4, <1>5, <1>6

(* The warp of a number is one of the grid, and not beyond its edge.        *)
LEMMA OwnerIs ==
  ASSUME Sized, NEW row \in 0..(M - 1), NEW col \in 0..(N - 1)
  PROVE  /\ Owner(row, col) \in Tensor!Warps
         /\ Tensor!InBounds(Owner(row, col))
         /\ <<row % Tile, col % Tile>> \in Tensor!TileCells
         /\ RowOf(Owner(row, col), <<row % Tile, col % Tile>>) = row
         /\ ColOf(Owner(row, col), <<row % Tile, col % Tile>>) = col
<1> DEFINE a == row \div Tile  r == row % Tile  b == col \div Tile  s == col % Tile
<1>0. /\ row \in Nat /\ col \in Nat /\ row < M /\ col < N /\ M \in Nat \ {0} /\ N \in Nat \ {0}
      /\ WarpRows * Tile >= M /\ WarpCols * Tile >= N
  BY SizesAre
<1>1. a \in Int /\ r \in 0..(Tile - 1) /\ row = Tile * a + r
  BY <1>0, TensorAssumption, DivMod
<1>2. b \in Int /\ s \in 0..(Tile - 1) /\ col = Tile * b + s
  BY <1>0, TensorAssumption, DivMod
<1> HIDE DEF a, r, b, s
<1>3. ASSUME NEW x \in Int, NEW y \in 0..(Tile - 1), NEW z \in Nat, z = Tile * x + y,
             NEW d \in Nat \ {0}, z < d, NEW g \in Nat \ {0}, g * Tile >= d
      PROVE  x \in 0..(g - 1) /\ x * Tile < d /\ x * Tile + y = z
  <2>1. Tile \in Nat \ {0} /\ x * Tile = Tile * x /\ Tile * x \in Int
    BY TensorAssumption
  <2>2. x * Tile < d /\ x * Tile + y = z
    BY <1>3, <2>1
  <2>3. ~(x < 0)
    <3> SUFFICES ASSUME x < 0 PROVE FALSE
      OBVIOUS
    <3>1. -x - 1 \in Nat
      OBVIOUS
    <3>2. Tile * (-x - 1) >= 0
      BY <2>1, <3>1
    <3>3. Tile * (-x - 1) = -(Tile * x) - Tile
      BY <2>1
    <3> QED BY <1>3, <2>1, <3>2, <3>3
  <2>4. ~(x >= g)
    <3> SUFFICES ASSUME x >= g PROVE FALSE
      OBVIOUS
    <3>1. x - g \in Nat
      OBVIOUS
    <3>2. Tile * (x - g) >= 0
      BY <2>1, <3>1
    <3>3. Tile * (x - g) = x * Tile - g * Tile
      BY <2>1
    <3>4. g * Tile \in Int
      BY <2>1
    <3> QED BY <1>3, <2>1, <2>2, <3>2, <3>3, <3>4
  <2> QED BY <2>2, <2>3, <2>4
<1>4. a \in 0..(WarpRows - 1) /\ a * Tile < M /\ a * Tile + r = row
  BY <1>0, <1>1, <1>3, TensorAssumption
<1>5. b \in 0..(WarpCols - 1) /\ b * Tile < N /\ b * Tile + s = col
  BY <1>0, <1>2, <1>3, TensorAssumption
<1>6. /\ <<a, b>> \in Tensor!Warps /\ <<r, s>> \in Tensor!TileCells /\ Tensor!InBounds(<<a, b>>)
      /\ RowOf(<<a, b>>, <<r, s>>) = row /\ ColOf(<<a, b>>, <<r, s>>) = col
  BY <1>1, <1>2, <1>4, <1>5 DEF Tensor!Warps, Tensor!TileCells, Tensor!InBounds, RowOf, ColOf
<1> QED BY <1>6 DEF Owner, a, b, r, s

(* The last tile of a row may reach over its end, and the store lays the    *)
(* tile out row by row.                                                     *)
LEMMA CellIs ==
  ASSUME Sized, NEW w \in Tensor!Warps, NEW cell \in Tensor!TileCells, Tensor!InBounds(w)
  PROVE  /\ Tensor!C_frag(w, cell) = RowOf(w, cell) * N + ColOf(w, cell)
         /\ ColOf(w, cell) \in 0..(N + Tensor!Spoilt - 1)
<1>0. /\ w[1] \in Nat /\ w[2] \in Nat /\ cell[1] \in 0..(Tile - 1) /\ cell[2] \in 0..(Tile - 1)
      /\ w[1] * Tile \in Int /\ w[2] * Tile \in Int
      /\ RowOf(w, cell) \in Int /\ ColOf(w, cell) \in Int
      /\ Tile \in Nat \ {0} /\ N \in Nat
      /\ Tensor!Spoilt \in Nat /\ (N + Tensor!Spoilt) % Tile = 0
  BY CellTypes, TensorAssumption, SizesAre
<1>1. Tensor!C_frag(w, cell) = RowOf(w, cell) * N + ColOf(w, cell)
  <2>1. (w[1] * Tile + cell[1]) * N = (w[1] * Tile) * N + cell[1] * N
    <3>1. w[1] * Tile \in Int /\ cell[1] \in Int /\ N \in Int
      BY <1>0
    <3> DEFINE b == w[1] * Tile
    <3> HIDE DEF b
    <3> QED BY ONLY <3>1 DEF b
  <2>2. (w[1] * Tile) * N \in Int /\ cell[1] * N \in Int
    BY <1>0
  <2>3. /\ RowOf(w, cell) * N = (w[1] * Tile) * N + cell[1] * N
        /\ ColOf(w, cell) = w[2] * Tile + cell[2]
        /\ Tensor!C_frag(w, cell) = (w[1] * Tile) * N + w[2] * Tile + cell[1] * N + cell[2]
    BY ONLY <2>1 DEF RowOf, ColOf, Tensor!C_frag
  <2> DEFINE p == (w[1] * Tile) * N  q == cell[1] * N  r == w[2] * Tile
  <2>4. p \in Int /\ q \in Int /\ r \in Int /\ cell[2] \in Int
    BY ONLY <1>0, <2>2
  <2>5. RowOf(w, cell) * N = p + q /\ ColOf(w, cell) = r + cell[2]
        /\ Tensor!C_frag(w, cell) = p + r + q + cell[2]
    BY ONLY <2>3
  <2> HIDE DEF p, q, r
  <2> QED BY ONLY <2>4, <2>5
<1>2. ColOf(w, cell) \in 0..(N + Tensor!Spoilt - 1)
  <2> DEFINE n == N + Tensor!Spoilt  b == w[2] * Tile
  <2>1. b < n /\ n \in Int /\ n % Tile = 0 /\ n = N + Tensor!Spoilt
    BY <1>0 DEF Tensor!InBounds
  <2>2. b % Tile = 0 /\ b \in Int
    BY ONLY <1>0, w[2] \in Int, Multiple
  <2>3. b >= 0
    BY <1>0
  <2>4. ColOf(w, cell) = b + cell[2]
    BY DEF ColOf
  <2> HIDE DEF n, b
  <2>5. b + Tile <= n
    BY ONLY <1>0, <2>1, <2>2, NextMultiple
  <2>6. N + Tensor!Spoilt - 1 = n - 1
    BY <1>0, <2>1
  <2> QED BY <1>0, <2>1, <2>2, <2>3, <2>4, <2>5, <2>6
<1> QED BY <1>1, <1>2

(* A cell of a warp in bounds is stored in its place, and nowhere else      *)
(* behind the columns that are reached over.                                *)
LEMMA CellIsPlaced ==
  ASSUME Sized, NEW w \in Tensor!Warps, NEW cell \in Tensor!TileCells, Tensor!InBounds(w),
         NEW row \in 0..(M - 1), NEW col \in Tensor!Spoilt..(N - 1)
  PROVE  Tensor!C_frag(w, cell) = Place(row, col) <=> RowOf(w, cell) = row /\ ColOf(w, cell) = col
<1> DEFINE r == RowOf(w, cell)  s == ColOf(w, cell)  o == Tensor!Spoilt
<1>0. /\ r \in Int /\ M \in Nat /\ N \in Nat /\ o \in Nat /\ s \in 0..(N + o - 1)
      /\ Tensor!C_frag(w, cell) = r * N + s
  BY CellTypes, CellIs, SizesAre
<1>1. row \in Int /\ col \in 0..(N - 1) /\ col >= o /\ N \in Nat \ {0}
  BY <1>0
<1> HIDE DEF r, s, o
<1>2. ASSUME r * N + s = row * N + col PROVE r = row /\ s = col
  <2>1. CASE s < N
    <3>1. s \in 0..(N - 1)
      BY <1>0, <2>1
    <3> QED BY ONLY <1>0, <1>1, <1>2, <3>1, OnePlace
  <2>2. CASE s >= N
    <3> DEFINE x == r + 1  y == s - N
    <3>1. y < o /\ y >= 0 /\ x \in Int /\ y \in Int
      BY <1>0, <2>2
    <3>2. x * N + y = row * N + col
      <4>1. (r + 1) * N = r * N + N /\ r * N \in Int /\ row * N \in Int
        BY <1>0, <1>1
      <4> QED BY <1>0, <1>1, <1>2, <4>1
    <3> HIDE DEF x, y
    <3>3. y \in 0..(N - 1)
      BY <1>0, <1>1, <3>1
    <3>4. y = col
      BY ONLY <1>1, <3>1, <3>2, <3>3, OnePlace
    <3> QED BY <1>0, <1>1, <3>1, <3>4
  <2> QED BY <1>0, <2>1, <2>2
<1> QED BY <1>0, <1>2 DEF Place, r, s

(* Every number has a place in c.                                           *)
LEMMA PlaceIsIn ==
  ASSUME Sized, NEW row \in 0..(M - 1), NEW col \in 0..(N - 1)
  PROVE  Place(row, col) \in 0..(M * N - 1)
  BY SizesAre, InRows DEF Place

(* A warp in bounds reads and writes whole matrices only.                   *)
LEMMA NothingElse ==
  ASSUME Sized, Whole, NEW w \in Tensor!Warps, NEW x \in Tensor!TileCells, Tensor!InBounds(w)
  PROVE  /\ Tensor!C_frag(w, x) < M * N
         /\ k[w] \in Nat /\ k[w] % Tile = 0 /\ k[w] < K =>
              Tensor!A_frag(w, x[1], x[2]) < M * K /\ Tensor!B_frag(w, x[1], x[2]) < K * N
<1>0. /\ w[1] \in Nat /\ w[2] \in Nat /\ x[1] \in 0..(Tile - 1) /\ x[2] \in 0..(Tile - 1)
      /\ w[1] * Tile \in Int /\ w[2] * Tile \in Int
      /\ Tile \in Nat \ {0} /\ M \in Nat /\ N \in Nat /\ K \in Nat /\ Tensor!Spoilt = 0
      /\ M % Tile = 0 /\ N % Tile = 0 /\ K % Tile = 0
  BY CellTypes, TensorAssumption, SizesAre DEF Whole
<1> DEFINE p == w[1] * Tile  q == w[2] * Tile
<1>1. p < M /\ q < N /\ p \in Int /\ q \in Int /\ p >= 0 /\ q >= 0
  <2>1. p < M /\ q < N /\ p \in Int /\ q \in Int
    BY <1>0 DEF Tensor!InBounds
  <2>2. w[1] \in Nat /\ w[2] \in Nat /\ Tile \in Nat
    BY <1>0
  <2>3. w[1] * Tile >= 0 /\ w[2] * Tile >= 0
    BY ONLY <2>2
  <2> QED BY <2>1, <2>3
<1>2. p % Tile = 0 /\ q % Tile = 0
  BY ONLY <1>0, w[1] \in Int, w[2] \in Int, Multiple
<1>3. RowOf(w, x) = p + x[1] /\ ColOf(w, x) = q + x[2]
  BY DEF RowOf, ColOf
<1>4. p * K \in Int /\ p * N \in Int /\ x[1] * K \in Int /\ x[2] * N \in Int
      /\ (p + x[1]) * K = p * K + x[1] * K
  BY <1>0, <1>1
<1>5. Tensor!A_frag(w, x[1], x[2]) = p * K + k[w] + x[1] * K + x[2]
      /\ Tensor!B_frag(w, x[1], x[2]) = k[w] * N + q + x[2] * N + x[1]
  BY DEF Tensor!A_frag, Tensor!B_frag
<1> HIDE DEF p, q
<1>6. p + Tile <= M /\ q + Tile <= N
  <2>1. p \in Int /\ M \in Int /\ p % Tile = 0 /\ M % Tile = 0 /\ p < M /\ Tile \in Nat \ {0}
    BY <1>0, <1>1, <1>2
  <2>2. q \in Int /\ N \in Int /\ q % Tile = 0 /\ N % Tile = 0 /\ q < N
    BY <1>0, <1>1, <1>2
  <2>3. p + Tile <= M
    BY ONLY <2>1, NextMultiple
  <2>4. q + Tile <= N
    BY ONLY <2>1, <2>2, NextMultiple
  <2> QED BY <2>3, <2>4
<1>7. p + x[1] \in 0..(M - 1) /\ q + x[1] \in 0..(N - 1) /\ q + x[2] \in 0..(N - 1)
  BY <1>0, <1>1, <1>6
<1>8. Tensor!C_frag(w, x) < M * N
  <2>1. Tensor!C_frag(w, x) = (p + x[1]) * N + (q + x[2])
    BY <1>3, CellIs
  <2>2. (p + x[1]) * N + (q + x[2]) \in 0..(M * N - 1)
    BY ONLY <1>0, <1>7, InRows
  <2>3. M * N \in Int
    BY <1>0
  <2> QED BY <2>1, <2>2, <2>3
<1>9. ASSUME k[w] \in Nat, k[w] % Tile = 0, k[w] < K
      PROVE  Tensor!A_frag(w, x[1], x[2]) < M * K /\ Tensor!B_frag(w, x[1], x[2]) < K * N
  <2> DEFINE a == k[w]
  <2>1. a \in Nat /\ a % Tile = 0 /\ a < K
    BY <1>9
  <2> HIDE DEF a
  <2>2. a + Tile <= K
    <3>1. a \in Int /\ K \in Int /\ a % Tile = 0 /\ K % Tile = 0 /\ a < K /\ Tile \in Nat \ {0}
      BY <1>0, <2>1
    <3> QED BY ONLY <3>1, NextMultiple
  <2>3. a + x[2] \in 0..(K - 1)
    BY <1>0, <2>1, <2>2
  <2>4. (p + x[1]) * K + (a + x[2]) \in 0..(M * K - 1)
    BY ONLY <1>0, <1>7, <2>3, InRows
  <2>5. (a + x[2]) * N + (q + x[1]) \in 0..(K * N - 1)
    BY ONLY <1>0, <1>7, <2>3, InRows
  <2>6. Tensor!A_frag(w, x[1], x[2]) = (p + x[1]) * K + (a + x[2])
    BY <1>0, <1>4, <1>5, <2>1 DEF a
  <2>7. (a + x[2]) * N = a * N + x[2] * N /\ a * N \in Int
    <3>1. a \in Int /\ x[2] \in Int /\ N \in Int
      BY <1>0, <2>1
    <3> QED BY ONLY <3>1
  <2>8. Tensor!B_frag(w, x[1], x[2]) = (a + x[2]) * N + (q + x[1])
    <3>1. Tensor!B_frag(w, x[1], x[2]) = a * N + q + x[2] * N + x[1]
      BY <1>5 DEF a
    <3> QED BY <1>0, <1>1, <1>4, <2>7, <3>1
  <2>9. M * K \in Int /\ K * N \in Int
    BY <1>0
  <2> QED BY <2>4, <2>5, <2>6, <2>8, <2>9
<1> QED BY <1>8, <1>9

(* mma_sync adds the products of the next tile of columns.                  *)
LEMMA MultipliedIs ==
  ASSUME Sized, NEW w \in Tensor!Warps, k[w] \in Nat, k[w] % Tile = 0, frag[w] = Product(w, k[w])
  PROVE  Tensor!Multiplied(w) = Product(w, k[w] + Tile)
<1>1. ASSUME NEW cell \in Tensor!TileCells
      PROVE  frag[w][cell] \o [n \in 1..Tile |-> <<Tensor!A_frag(w, cell[1], n - 1), Tensor!B_frag(w, n - 1, cell[2])>>]
               = Dot(RowOf(w, cell), ColOf(w, cell), k[w] + Tile)
  <2>1. frag[w][cell] = Dot(RowOf(w, cell), ColOf(w, cell), k[w])
    BY DEF Product
  <2> QED BY <2>1, DotGrows
<1> QED BY ONLY <1>1, Zenon DEF Tensor!Multiplied, Product

(* A turn of the loop keeps the invariant.                                  *)
LEMMA AccumulateKeeps ==
  ASSUME TensorInv, NEW w \in Tensor!Warps, Tensor!Accumulate(w)
  PROVE  TensorInv'
<1>1. /\ k[w] < K /\ k' = [k EXCEPT ![w] = @ + Tile] /\ c' = c /\ M' = M /\ N' = N /\ K' = K
      /\ frag' = IF Tensor!InBounds(w) THEN [frag EXCEPT ![w] = Tensor!Multiplied(w)] ELSE frag
  BY DEF Tensor!Accumulate
<1>0. /\ Sized /\ TensorTypes /\ Tile \in Nat \ {0} /\ K \in Nat /\ End \in Nat /\ End % Tile = 0
      /\ K <= End /\ End < K + Tile /\ Tensor!Stored = K + Tile
      /\ k \in [Tensor!Warps -> Nat] /\ DOMAIN frag = Tensor!Warps /\ k[w] \in Nat
  BY TensorAssumption, SizesAre DEF TensorInv, TensorTypes, Tensor!Stored
<1>2. k[w] % Tile = 0 /\ k[w] + Tile <= End /\ (k[w] + Tile) % Tile = 0 /\ k[w] + Tile \in Nat
  <2>1. k[w] % Tile = 0
    BY <1>0, <1>1 DEF TensorTypes
  <2>2. k[w] < End
    BY <1>0, <1>1
  <2> DEFINE a == k[w]
  <2>3. a \in Nat /\ a % Tile = 0 /\ a < End
    BY <1>0, <2>1, <2>2
  <2> HIDE DEF a
  <2>4. a + Tile <= End /\ (a + Tile) % Tile = 0 /\ a + Tile \in Nat
    <3>1. a \in Int /\ End \in Int /\ a % Tile = 0 /\ End % Tile = 0 /\ a < End /\ Tile \in Nat \ {0}
      BY <1>0, <2>3
    <3>2. a + Tile <= End
      BY ONLY <3>1, NextMultiple
    <3>3. (a + Tile) % Tile = 0
      BY ONLY <3>1, MultipleNext
    <3> QED BY <2>3, <3>1, <3>2, <3>3
  <2> QED BY <2>3, <2>4 DEF a
<1>3. k'[w] = k[w] + Tile /\ \A v \in Tensor!Warps \ {w} : k'[v] = k[v]
  BY <1>0, <1>1
<1>s. /\ Sized' = Sized /\ End' = End /\ Whole' = Whole
      /\ Tensor!Stored' = Tensor!Stored /\ Tensor!Spoilt' = Tensor!Spoilt
      /\ \A v : Tensor!InBounds(v)' = Tensor!InBounds(v)
      /\ \A v, m : Product(v, m)' = Product(v, m)
      /\ \A row, col, m : Dot(row, col, m)' = Dot(row, col, m)
      /\ \A row, col : Place(row, col)' = Place(row, col)
  BY <1>1, SizesStay, Zenon
<1>4. TensorTypes'
  <2>1. k' \in [Tensor!Warps -> Nat] /\ DOMAIN frag' = Tensor!Warps /\ DOMAIN c' = 0..(M' * N' - 1)
    BY <1>0, <1>1, <1>2 DEF TensorTypes
  <2>2. ASSUME NEW v \in Tensor!Warps
        PROVE  k'[v] = Tensor!Stored \/ (k'[v] % Tile = 0 /\ k'[v] <= End)
    BY <1>0, <1>2, <1>3 DEF TensorTypes
  <2> QED BY <1>s, <2>1, <2>2 DEF TensorTypes
<1>5. ASSUME NEW v \in Tensor!Warps, Tensor!InBounds(v)' PROVE frag'[v] = Product(v, Through(v))'
  <2>0. frag[v] = Product(v, Through(v)) /\ Tensor!InBounds(v)
    BY <1>5, <1>s DEF TensorInv
  <2>1. CASE v = w
    <3>1. Through(v) = k[w]
      BY <1>0, <1>1, <2>1 DEF Through
    <3>2. Through(v)' = k[w] + Tile
      BY <1>2, <1>3, <1>s, <2>1 DEF Through
    <3>3. frag'[v] = Tensor!Multiplied(w)
      BY <1>0, <1>1, <2>0, <2>1
    <3>4. Tensor!Multiplied(w) = Product(w, k[w] + Tile)
      BY <1>0, <1>2, <2>0, <2>1, <3>1, MultipliedIs
    <3>5. Product(v, Through(v))' = Product(w, k[w] + Tile)
      BY <1>s, <2>1, <3>2
    <3> QED BY <3>3, <3>4, <3>5
  <2>2. CASE v # w
    <3>1. frag'[v] = frag[v]
      BY <1>0, <1>1, <2>2
    <3>2. Through(v)' = Through(v)
      BY <1>3, <1>s, <2>2 DEF Through
    <3>3. Product(v, Through(v))' = Product(v, Through(v))
      BY <1>s, <3>2
    <3> QED BY <2>0, <3>1, <3>3
  <2> QED BY <2>1, <2>2
<1>6. ASSUME NEW row \in 0..(M - 1), NEW col \in Tensor!Spoilt..(N - 1) PROVE Exact(row, col)'
  <2>1. Exact(row, col)
    BY DEF TensorInv
  <2>2. k[Owner(row, col)] # Tensor!Stored => k'[Owner(row, col)] # Tensor!Stored
    <3>1. k'[w] # Tensor!Stored
      BY <1>0, <1>2, <1>3
    <3>2. Owner(row, col) \in Tensor!Warps
      <4>1. col \in 0..(N - 1)
        BY <1>0, SizesAre
      <4> QED BY <1>0, <4>1, OwnerIs
    <3> QED BY <1>3, <3>1, <3>2
  <2>3. Owner(row, col)' = Owner(row, col) /\ Tensor!Unwritten' = Tensor!Unwritten
    BY DEF Owner, Tensor!Unwritten
  <2>4. Place(row, col)' = Place(row, col) /\ Dot(row, col, End)' = Dot(row, col, End)
    BY <1>s
  <2> QED BY <1>1, <1>s, <2>1, <2>2, <2>3, <2>4 DEF Exact
<1>7. Whole' => ~stray'
  <2> SUFFICES ASSUME Whole PROVE ~stray'
    BY <1>s
  <2>1. ~stray
    BY DEF TensorInv
  <2>2. ASSUME Tensor!InBounds(w), NEW x \in Tensor!TileCells
        PROVE  ~(Tensor!A_frag(w, x[1], x[2]) >= M * K) /\ ~(Tensor!B_frag(w, x[1], x[2]) >= K * N)
    <3>1. Tensor!A_frag(w, x[1], x[2]) < M * K /\ Tensor!B_frag(w, x[1], x[2]) < K * N
      BY <1>0, <1>1, <1>2, <2>2, NothingElse
    <3>2. /\ Tensor!A_frag(w, x[1], x[2]) \in Int /\ Tensor!B_frag(w, x[1], x[2]) \in Int
          /\ M * K \in Int /\ K * N \in Int
      <4>1. M \in Nat /\ N \in Nat /\ K \in Nat /\ k[w] \in Nat /\ x[1] \in Int /\ x[2] \in Int
            /\ w[1] * Tile \in Int /\ w[2] * Tile \in Int
        BY <1>0, SizesAre, CellTypes
      <4>2. /\ (w[1] * Tile) * K \in Int /\ x[1] * K \in Int /\ k[w] * N \in Int /\ x[2] * N \in Int
            /\ M * K \in Int /\ K * N \in Int
        BY <4>1
      <4> QED BY <4>1, <4>2 DEF Tensor!A_frag, Tensor!B_frag
    <3> QED BY <3>1, <3>2
  <2>3. CASE Tensor!InBounds(w)
    <3>1. stray' = (stray \/ \E x \in Tensor!TileCells : Tensor!A_frag(w, x[1], x[2]) >= M * K
                                                          \/ Tensor!B_frag(w, x[1], x[2]) >= K * N)
      BY <2>3, Zenon DEF Tensor!Accumulate
    <3> QED BY <2>1, <2>2, <2>3, <3>1, Zenon
  <2>4. CASE ~Tensor!InBounds(w)
    BY <2>1, <2>4, Zenon DEF Tensor!Accumulate
  <2> QED BY <2>3, <2>4
<1>8. /\ \A v \in Tensor!Warps : Tensor!InBounds(v)' => frag'[v] = Product(v, Through(v))'
      /\ \A row \in 0..(M' - 1), col \in Tensor!Spoilt'..(N' - 1) : Exact(row, col)'
  BY <1>1, <1>s, <1>5, <1>6, Zenon
<1> QED BY <1>0, <1>s, <1>4, <1>7, <1>8 DEF TensorInv

(* store_matrix_sync keeps the invariant: behind the columns that are       *)
(* reached over it writes the tile of its warp only.                        *)
LEMMA StoreKeeps ==
  ASSUME TensorInv, NEW w \in Tensor!Warps, Tensor!Store(w)
  PROVE  TensorInv'
<1> DEFINE Hit(n) == {x \in Tensor!TileCells : Tensor!InBounds(w) /\ Tensor!C_frag(w, x) = n}
           written == {n \in DOMAIN c : Hit(n) # {}}
<1>1. /\ k[w] >= K /\ k[w] # Tensor!Stored /\ k' = [k EXCEPT ![w] = Tensor!Stored]
      /\ frag' = frag /\ M' = M /\ N' = N /\ K' = K
      /\ stray' = (stray \/ (Tensor!InBounds(w) /\ \E x \in Tensor!TileCells : Tensor!C_frag(w, x) >= M * N))
  BY DEF Tensor!Store
<1>w. PICK last \in [written -> Tensor!TileCells] :
        /\ \A n \in written : last[n] \in Hit(n)
        /\ c' = [n \in DOMAIN c |-> IF n \in written THEN frag[w][last[n]] ELSE c[n]]
  BY Zenon DEF Tensor!Store
<1>0. /\ Sized /\ TensorTypes /\ Tile \in Nat \ {0} /\ K \in Nat /\ End \in Nat /\ End % Tile = 0
      /\ K <= End /\ End < K + Tile /\ Tensor!Stored = K + Tile
      /\ k \in [Tensor!Warps -> Nat] /\ DOMAIN c = 0..(M * N - 1) /\ k[w] \in Nat
  BY TensorAssumption, SizesAre DEF TensorInv, TensorTypes, Tensor!Stored
<1>2. k'[w] = Tensor!Stored /\ \A v \in Tensor!Warps \ {w} : k'[v] = k[v]
  BY <1>0, <1>1
<1>3. k[w] = End /\ Tensor!Stored > End /\ Tensor!Stored \in Nat
  <2> DEFINE a == k[w]
  <2>1. a \in Int /\ End \in Int /\ a % Tile = 0 /\ a <= End /\ a >= K /\ Tile \in Nat \ {0}
    BY <1>0, <1>1 DEF TensorTypes
  <2>2. a + Tile > End
    BY <1>0, <2>1
  <2> HIDE DEF a
  <2>3. ~(a < End)
    <3> SUFFICES ASSUME a < End PROVE FALSE
      OBVIOUS
    <3>1. a + Tile <= End
      BY ONLY <1>0, <2>1, a < End, NextMultiple
    <3> QED BY <2>1, <2>2, <3>1
  <2>4. a = End
    BY <2>1, <2>3
  <2> QED BY <1>0, <2>4 DEF a
<1>s. /\ Sized' = Sized /\ End' = End /\ Whole' = Whole
      /\ Tensor!Stored' = Tensor!Stored /\ Tensor!Spoilt' = Tensor!Spoilt
      /\ \A v : Tensor!InBounds(v)' = Tensor!InBounds(v)
      /\ \A v, m : Product(v, m)' = Product(v, m)
      /\ \A row, col, m : Dot(row, col, m)' = Dot(row, col, m)
      /\ \A row, col : Place(row, col)' = Place(row, col)
  BY <1>1, SizesStay, Zenon
<1>4. TensorTypes'
  <2>1. k' \in [Tensor!Warps -> Nat] /\ DOMAIN frag' = Tensor!Warps /\ DOMAIN c' = 0..(M' * N' - 1)
    <3>1. DOMAIN c' = DOMAIN c
      BY <1>w
    <3> QED BY <1>0, <1>1, <1>3, <3>1 DEF TensorTypes
  <2>2. ASSUME NEW v \in Tensor!Warps
        PROVE  k'[v] = Tensor!Stored \/ (k'[v] % Tile = 0 /\ k'[v] <= End)
    BY <1>0, <1>2 DEF TensorTypes
  <2> QED BY <1>s, <2>1, <2>2 DEF TensorTypes
<1>5. ASSUME NEW v \in Tensor!Warps, Tensor!InBounds(v)' PROVE frag'[v] = Product(v, Through(v))'
  <2>0. frag[v] = Product(v, Through(v))
    BY <1>5, <1>s DEF TensorInv
  <2>1. Through(v)' = Through(v)
    <3>1. CASE v = w
      BY <1>0, <1>2, <1>3, <1>s, <3>1 DEF Through
    <3>2. CASE v # w
      BY <1>2, <1>s, <3>2 DEF Through
    <3> QED BY <3>1, <3>2
  <2>2. Product(v, Through(v))' = Product(v, Through(v))
    BY <1>s, <2>1
  <2> QED BY <1>1, <2>0, <2>2
<1>6. ASSUME NEW row \in 0..(M - 1), NEW col \in Tensor!Spoilt..(N - 1) PROVE Exact(row, col)'
  <2> DEFINE n == Place(row, col)
  <2>a. col \in 0..(N - 1)
    BY <1>0, SizesAre
  <2>0. Exact(row, col) /\ n \in DOMAIN c
    BY <1>0, <2>a, PlaceIsIn DEF TensorInv
  <2>b. n' = n /\ Dot(row, col, End)' = Dot(row, col, End)
        /\ Owner(row, col)' = Owner(row, col) /\ Tensor!Unwritten' = Tensor!Unwritten
    BY <1>s DEF Owner, Tensor!Unwritten
  <2>c. Owner(row, col) \in Tensor!Warps
    BY <1>0, <2>a, OwnerIs
  <2> HIDE DEF n, Hit, written
  <2>1. CASE ~(n \in written)
    <3>1. c'[n] = c[n]
      BY <1>w, <2>0, <2>1
    <3>2. Owner(row, col) # w
      <4> SUFFICES ASSUME Owner(row, col) = w PROVE FALSE
        OBVIOUS
      <4>1. <<row % Tile, col % Tile>> \in Hit(n)
        <5> DEFINE x == <<row % Tile, col % Tile>>
        <5>1. x \in Tensor!TileCells /\ Tensor!InBounds(w) /\ RowOf(w, x) = row /\ ColOf(w, x) = col
          BY <1>0, <2>a, OwnerIs
        <5> HIDE DEF x
        <5>2. Tensor!C_frag(w, x) = n
          BY <1>0, <5>1, CellIsPlaced DEF n
        <5>3. x \in Hit(n)
          BY <5>1, <5>2 DEF Hit
        <5> QED BY <5>3 DEF x
      <4> QED BY <2>0, <2>1, <4>1 DEF written
    <3>3. k'[Owner(row, col)] = k[Owner(row, col)]
      BY <1>2, <2>c, <3>2
    <3> QED BY <1>s, <2>0, <2>b, <3>1, <3>3 DEF Exact, n
  <2>2. CASE n \in written
    <3> DEFINE x == last[n]
    <3>1. x \in Hit(n) /\ c'[n] = frag[w][x]
      BY <1>w, <2>0, <2>2
    <3> HIDE DEF x
    <3>3. x \in Tensor!TileCells /\ Tensor!InBounds(w) /\ Tensor!C_frag(w, x) = n
      BY <3>1 DEF Hit
    <3>4. RowOf(w, x) = row /\ ColOf(w, x) = col
      BY <1>0, <3>3, CellIsPlaced DEF n
    <3>5. frag[w] = Product(w, End)
      BY <1>0, <1>3, <3>3 DEF TensorInv, Through
    <3>6. frag[w][x] = Dot(row, col, End)
      BY <3>3, <3>4, <3>5 DEF Product
    <3> QED BY <1>s, <2>b, <3>1, <3>6 DEF Exact, n
  <2> QED BY <2>1, <2>2
<1>7. Whole' => ~stray'
  <2> SUFFICES ASSUME Whole PROVE ~stray'
    BY <1>s
  <2>1. ~stray
    BY DEF TensorInv
  <2>2. ASSUME Tensor!InBounds(w), NEW x \in Tensor!TileCells PROVE ~(Tensor!C_frag(w, x) >= M * N)
    <3>1. Tensor!C_frag(w, x) < M * N
      BY <1>0, <2>2, NothingElse
    <3>2. Tensor!C_frag(w, x) \in Int /\ M * N \in Int
      <4>1. M \in Nat /\ N \in Nat /\ x[1] \in Int /\ x[2] \in Int
            /\ w[1] * Tile \in Int /\ w[2] * Tile \in Int
        <5>1. M \in Nat /\ N \in Nat
          BY <1>0, SizesAre
        <5>2. /\ x[1] \in 0..(Tile - 1) /\ x[2] \in 0..(Tile - 1)
              /\ w[1] * Tile \in Int /\ w[2] * Tile \in Int
          BY CellTypes
        <5> QED BY ONLY <5>1, <5>2
      <4>2. (w[1] * Tile) * N \in Int /\ x[1] * N \in Int /\ M * N \in Int
        BY <4>1
      <4> QED BY <4>1, <4>2 DEF Tensor!C_frag
    <3> QED BY <3>1, <3>2
  <2> QED BY <1>1, <2>1, <2>2, Zenon
<1>8. /\ \A v \in Tensor!Warps : Tensor!InBounds(v)' => frag'[v] = Product(v, Through(v))'
      /\ \A row \in 0..(M' - 1), col \in Tensor!Spoilt'..(N' - 1) : Exact(row, col)'
  BY <1>1, <1>s, <1>5, <1>6, Zenon
<1> QED BY <1>0, <1>s, <1>4, <1>7, <1>8 DEF TensorInv

(* So it always holds.                                                      *)
LEMMA TensorInductive == Spec => []TensorInv
<1>1. Init => TensorInv
  <2> SUFFICES ASSUME Tensor!Init PROVE TensorInv
    BY DEF Init
  <2>1. c = [n \in 0..(M * N - 1) |-> Tensor!Unwritten] /\ k = [w \in Tensor!Warps |-> 0]
        /\ frag = [w \in Tensor!Warps |-> [cell \in Tensor!TileCells |-> <<>>]]
        /\ stray = FALSE /\ Sized
    BY DEF Tensor!Init, Sized
  <2>2. 0 % Tile = 0 /\ 0 <= End /\ 0 # Tensor!Stored
    <3>1. Tile \in Nat \ {0} /\ K \in Nat /\ End \in Nat
      BY <2>1, TensorAssumption, SizesAre
    <3>2. 0 % Tile = 0
      BY ONLY <3>1
    <3> QED BY ONLY <3>1, <3>2 DEF Tensor!Stored
  <2>3. TensorTypes
    BY <2>1, <2>2 DEF TensorTypes
  <2>4. ASSUME NEW w \in Tensor!Warps PROVE frag[w] = Product(w, Through(w))
    <3>1. Through(w) = 0
      BY <2>1, <2>2 DEF Through
    <3>2. \A row, col : Dot(row, col, 0) = <<>>
      BY DEF Dot
    <3> QED BY <2>1, <3>1, <3>2 DEF Product
  <2>5. ASSUME NEW row \in 0..(M - 1), NEW col \in Tensor!Spoilt..(N - 1) PROVE Exact(row, col)
    <3>1. col \in 0..(N - 1)
      BY <2>1, SizesAre
    <3>2. Place(row, col) \in 0..(M * N - 1) /\ Owner(row, col) \in Tensor!Warps
      BY <2>1, <3>1, PlaceIsIn, OwnerIs
    <3> QED BY <2>1, <2>2, <3>2 DEF Exact
  <2> QED BY <2>1, <2>3, <2>4, <2>5 DEF TensorInv
<1>2. TensorInv /\ [Next]_all => TensorInv'
  <2> SUFFICES ASSUME TensorInv, [Tensor!Next]_tensorVars PROVE TensorInv'
    BY TensorStep DEF all, devices, tensorVars
  <2>1. ASSUME NEW w \in Tensor!Warps, Tensor!Accumulate(w) \/ Tensor!Store(w) PROVE TensorInv'
    BY <2>1, AccumulateKeeps, StoreKeeps
  <2>2. CASE UNCHANGED tensorVars
    <3>1. M' = M /\ N' = N /\ K' = K /\ c' = c /\ k' = k /\ frag' = frag /\ stray' = stray
      BY <2>2 DEF tensorVars
    <3> QED BY <3>1 DEF TensorInv, Sized, TensorTypes, Through, End, Exact, Place, Owner, Whole, Product, Dot,
              RowOf, ColOf, Tensor!InBounds, Tensor!Stored, Tensor!Spoilt, Tensor!StoredAt, Tensor!Unwritten
  <2> QED BY <2>1, <2>2 DEF Tensor!Next, Tensor!Rest, Tensor!vars, tensorVars
<1> QED BY <1>1, <1>2, PTL DEF Spec

(* It says what ProductIsExact says.                                        *)
LEMMA TensorIsExact == TensorInv => Tensor!ProductIsExact
<1> SUFFICES ASSUME TensorInv PROVE Tensor!ProductIsExact
  OBVIOUS
<1>0. /\ Sized /\ K \in Nat /\ End \in Nat /\ K <= End /\ Tensor!Spoilt \in Nat
      /\ K % Tile = 0 => End = K
  BY SizesAre DEF TensorInv
<1>1. ASSUME NEW row \in 0..(M - 1), NEW col \in Tensor!Spoilt..(N - 1)
      PROVE  LET number == c[row * N + col]
             IN  \/ /\ Len(number) >= K /\ (K % Tile = 0 => Len(number) = K)
                    /\ \A n \in 1..K : number[n] = <<row * K + (n - 1), Tensor!StoredAt(n - 1, col)>>
                 \/ number = Tensor!Unwritten /\ \E w \in Tensor!Warps : k[w] # Tensor!Stored
  <2> DEFINE number == c[row * N + col]
  <2>1. \/ number = Dot(row, col, End)
        \/ number = Tensor!Unwritten /\ k[Owner(row, col)] # Tensor!Stored
    BY DEF TensorInv, Exact, Place
  <2>2. Owner(row, col) \in Tensor!Warps
    <3>1. col \in 0..(N - 1)
      BY <1>0
    <3> QED BY <1>0, <3>1, OwnerIs
  <2> HIDE DEF number
  <2>3. CASE number = Dot(row, col, End)
    <3>1. number = [n \in 1..End |-> <<row * K + (n - 1), Tensor!StoredAt(n - 1, col)>>]
      BY <2>3 DEF Dot
    <3>2. Len(number) = End
      BY <1>0, <3>1
    <3>3. \A n \in 1..K : n \in 1..End
      BY <1>0
    <3>4. \A n \in 1..K : number[n] = <<row * K + (n - 1), Tensor!StoredAt(n - 1, col)>>
      BY <3>1, <3>3
    <3>5. Len(number) >= K /\ (K % Tile = 0 => Len(number) = K)
      BY <1>0, <3>2
    <3> QED BY <3>4, <3>5 DEF number
  <2>4. CASE number = Tensor!Unwritten /\ k[Owner(row, col)] # Tensor!Stored
    BY <2>2, <2>4 DEF number
  <2> QED BY <2>1, <2>3, <2>4
<1>2. (\A d \in {M, N, K} : d % Tile = 0) => ~stray
  BY DEF TensorInv, Whole
<1> QED BY <1>1, <1>2, Zenon DEF Tensor!ProductIsExact

(* For any tile size, matrices of any size and any grid that covers them,   *)
(* whatever the order of the warps: every number of c starts with the       *)
(* products of its row and its column, each once and in order, and is the   *)
(* dot product if K is made of whole tiles, or its warp has yet to store it;*)
(* only in the first columns, where a last tile reaches over the end of the *)
(* row above, may it be another's; and no memory but that of the arrays is  *)
(* accessed if all three sizes are whole tiles.                             *)
THEOREM ProductsAreExact == Spec => []ProductIsExact
<1>1. TensorInv => ProductIsExact
  BY TensorIsExact DEF ProductIsExact
<1> QED BY <1>1, TensorInductive, PTL

-----------------------------------------------------------------------------
(* The reduction over sub-groups.                                           *)

(* What happens to the reduction is a step of its module or nothing.        *)
LEMMA ReductionStep == Next => [Reduction!Next]_reductionVars
  BY DEF Next, RingNext, ThreadNext, DeviceNext, devices, reductionVars

(* What its constants may be.                                               *)
LEMMA ReductionConstants ==
  /\ ReductionSizes \subseteq Nat /\ \A n \in ReductionSizes : \A t \in 0..(n - 1) : t \in DOMAIN Input /\ Input[t] \in Int
  /\ subGroupSize \in Nat \ {0} /\ workGroupSize \in Nat \ {0} /\ workGroupSize % subGroupSize = 0
  BY ConcurrencyAssumption DEF Reduction!ReductionAssumption

(* The sum its module takes is the sum the lemmas are about.                *)
LEMMA ReductionSum ==
  ASSUME NEW f, NEW S
  PROVE  Reduction!SumFunctionOnSet(f, S) = SumFunctionOnSet(f, S)
  BY DEF Reduction!SumFunctionOnSet, Reduction!FoldFunctionOnSet, Reduction!MapThenFoldSet,
         SumFunctionOnSet, FoldFunctionOnSet, MapThenFoldSet

(* A work item is in one sub-group.                                         *)
LEMMA LanesApart ==
  ASSUME NEW s \in Nat, NEW v \in Nat, NEW t \in Reduction!Lanes(s), t \in Reduction!Lanes(v)
  PROVE  s = v
<1>1. /\ subGroupSize \in Nat \ {0} /\ s * subGroupSize \in Int /\ v * subGroupSize \in Int /\ t \in Int
      /\ t - s * subGroupSize \in 0..(subGroupSize - 1) /\ t - v * subGroupSize \in 0..(subGroupSize - 1)
  <2>1. subGroupSize \in Nat \ {0} /\ s * subGroupSize \in Int /\ v * subGroupSize \in Int
    BY ReductionConstants
  <2> QED BY <2>1 DEF Reduction!Lanes
<1> DEFINE a == s * subGroupSize  b == t - a  d == v * subGroupSize  e == t - d
<1>2. a + b = d + e
  BY <1>1
<1>3. s * subGroupSize + b = v * subGroupSize + e /\ b \in 0..(subGroupSize - 1) /\ e \in 0..(subGroupSize - 1)
  BY <1>1, <1>2
<1> HIDE DEF b, e
<1>4. s \in Int /\ v \in Int
  OBVIOUS
<1> QED BY ONLY <1>1, <1>3, <1>4, OnePlace

(* A sub-group is within one work-group, and its items follow in it.        *)
LEMMA LaneIsIn ==
  ASSUME NEW s \in Nat, NEW t \in Reduction!Lanes(s)
  PROVE  \E g \in Int, n \in 0..(workGroupSize - 1) :
           g = Reduction!WorkGroup(s) /\ n = t % workGroupSize /\ g * workGroupSize + n = t
<1> DEFINE w == workGroupSize  z == subGroupSize  a == s * z  p == a \div w  h == a % w  d == w \div z  r == t - a
<1>0. w \in Nat \ {0} /\ z \in Nat \ {0} /\ w % z = 0 /\ a \in Nat
  BY ReductionConstants
<1>1. t \in Nat /\ r \in 0..(z - 1) /\ t = a + r
  BY <1>0 DEF Reduction!Lanes
<1>3. Reduction!WorkGroup(s) = p
  BY DEF Reduction!WorkGroup
<1>4. d \in Int /\ w = z * d
  BY <1>0, DivMod
<1>5. a = z * s
  BY <1>0
<1> HIDE DEF w, z, a, d, r
<1>2. p \in Int /\ h \in 0..(w - 1) /\ a = w * p + h
  BY ONLY <1>0, a \in Int, DivMod
<1> HIDE DEF p, h
<1>6. h = z * (s - d * p)
  <2>1. h = z * s - (z * d) * p
    BY <1>0, <1>2, <1>4, <1>5
  <2> QED BY <1>0, <1>2, <1>4, <2>1
<1>7. h % z = 0
  <2> DEFINE q == s - d * p
  <2>1. q \in Int /\ h = z * q + 0 /\ 0 \in 0..(z - 1) /\ h \in Int
    BY <1>0, <1>2, <1>4, <1>6
  <2> HIDE DEF q
  <2> QED BY ONLY <1>0, <2>1, ModIs
<1>8. h + z <= w
  <2>1. h \in Int /\ w \in Int /\ h < w
    BY <1>0, <1>2
  <2> QED BY ONLY <1>0, <1>7, <2>1, NextMultiple
<1> DEFINE x == h + r
<1>9. x \in 0..(w - 1) /\ t = w * p + x /\ t \in Int
  BY <1>0, <1>1, <1>2, <1>8
<1> HIDE DEF x
<1>10. t % w = x
  BY ONLY <1>0, <1>2, <1>9, ModIs
<1> DEFINE m == t % w
<1>11. m = x
  BY ONLY <1>10
<1> HIDE DEF m
<1>12. p * w + m = t
  <2>1. p * w = w * p /\ w * p \in Int
    BY <1>0, <1>2
  <2>2. x \in Int
    BY <1>9
  <2>3. p * w + x = t
    BY ONLY <1>9, <2>1, <2>2
  <2> QED BY ONLY <1>11, <2>3
<1>13. m \in 0..(w - 1)
  BY ONLY <1>9, <1>11
<1>14. p = Reduction!WorkGroup(s) /\ m = t % w
  BY <1>3 DEF m
<1>15. \E g \in Int, n \in 0..(w - 1) : g = Reduction!WorkGroup(s) /\ n = t % w /\ g * w + n = t
  BY ONLY <1>2, <1>12, <1>13, <1>14, Zenon
<1> QED BY <1>15 DEF w

(* The sub-groups divide the work items, of which there are enough.         *)
LEMMA ItemsAreDivided ==
  ASSUME itemCount \in Nat
  PROVE  /\ Reduction!numWorkItems \in Nat /\ itemCount <= Reduction!numWorkItems
         /\ Reduction!SubGroups \subseteq Nat
         /\ \A s \in Reduction!SubGroups : Reduction!Lanes(s) \subseteq 0..(Reduction!numWorkItems - 1)
         /\ \A t \in 0..(Reduction!numWorkItems - 1) : \E s \in Reduction!SubGroups : t \in Reduction!Lanes(s)
<1> DEFINE w == workGroupSize  z == subGroupSize  b == itemCount + w - 1  e == b \div w  y == e * w
           x == y \div z
<1>0. w \in Nat \ {0} /\ z \in Nat \ {0} /\ w % z = 0 /\ itemCount \in Nat /\ b \in Nat
  BY ReductionConstants
<1>1. Reduction!numWorkItems = y /\ Reduction!SubGroups = 0..(x - 1)
      /\ \A s : Reduction!Lanes(s) = (s * z)..(s * z + z - 1)
  BY DEF Reduction!numWorkItems, Reduction!SubGroups, Reduction!Lanes
<1>2. b = itemCount + w - 1
  OBVIOUS
<1> HIDE DEF w, z, b
<1>3. e \in Int /\ b % w \in 0..(w - 1) /\ b = w * e + (b % w)
  BY ONLY <1>0, b \in Int, DivMod
<1>4. e \in Nat
  <2> SUFFICES ASSUME ~(e >= 0) PROVE FALSE
    BY <1>3
  <2>1. -e - 1 \in Nat
    BY <1>3
  <2>2. w * (-e - 1) >= 0
    BY <1>0, <2>1
  <2>3. w * (-e - 1) = -(w * e) - w /\ w * e \in Int
    BY <1>0, <1>3
  <2> QED BY <1>0, <1>3, <2>2, <2>3
<1> DEFINE d == w \div z
<1>5. d \in Int /\ w = z * d
  BY <1>0, DivMod
<1> HIDE DEF e, d
<1>6. y \in Nat /\ w * e = y /\ w * e \in Int
  BY <1>0, <1>4
<1>7. itemCount <= y
  <2>1. b % w <= w - 1 /\ b % w \in Int
    BY <1>0, <1>3
  <2> QED BY ONLY <1>0, <1>2, <1>3, <1>6, <2>1
<1>8. y = z * (d * e)
  BY <1>0, <1>4, <1>5
<1> HIDE DEF y
<1>9. y % z = 0
  <2> DEFINE q == d * e
  <2>1. q \in Int /\ y \in Int /\ y = z * q + 0 /\ 0 \in 0..(z - 1)
    BY <1>0, <1>4, <1>5, <1>6, <1>8
  <2> HIDE DEF q
  <2> QED BY ONLY <1>0, <2>1, ModIs
<1>10. x \in Int /\ y = z * x
  BY <1>0, <1>6, <1>9, DivMod
<1> HIDE DEF x
<1>11. 0..(x - 1) \subseteq Nat
  OBVIOUS
<1>12. ASSUME NEW s \in 0..(x - 1) PROVE (s * z)..(s * z + z - 1) \subseteq 0..(y - 1)
  <2>1. s \in Nat /\ x - 1 - s \in Nat /\ s * z \in Nat
    BY <1>0, <1>10
  <2>2. z * (x - 1 - s) >= 0
    BY <1>0, <2>1
  <2>3. z * (x - 1 - s) = z * x - z - s * z
    BY <1>0, <1>10, <2>1
  <2>4. s * z + z <= y
    BY <1>0, <1>6, <1>10, <2>1, <2>2, <2>3
  <2> QED BY <1>0, <1>6, <2>1, <2>4
<1>13. ASSUME NEW t \in 0..(y - 1) PROVE \E s \in 0..(x - 1) : t \in (s * z)..(s * z + z - 1)
  <2> DEFINE s == t \div z  r == t % z
  <2>0. t \in Int /\ t >= 0 /\ t < y
    BY <1>6
  <2>1. s \in Int /\ r \in 0..(z - 1) /\ t = z * s + r
    BY ONLY <1>0, <2>0, DivMod
  <2> HIDE DEF s, r
  <2>2. ~(s < 0)
    <3> SUFFICES ASSUME s < 0 PROVE FALSE
      OBVIOUS
    <3>1. -s - 1 \in Nat
      BY <2>1
    <3>2. z * (-s - 1) >= 0
      BY <1>0, <3>1
    <3>3. z * (-s - 1) = -(z * s) - z /\ z * s \in Int
      BY <1>0, <2>1
    <3> QED BY <1>0, <2>0, <2>1, <3>2, <3>3
  <2>3. ~(s >= x)
    <3> SUFFICES ASSUME s >= x PROVE FALSE
      OBVIOUS
    <3>1. s - x \in Nat
      BY <1>10, <2>1
    <3>2. z * (s - x) >= 0
      BY <1>0, <3>1
    <3>3. z * (s - x) = z * s - z * x /\ z * s \in Int /\ z * x \in Int
      BY <1>0, <1>10, <2>1
    <3> QED BY <1>0, <1>10, <2>0, <2>1, <3>2, <3>3
  <2>4. s \in 0..(x - 1)
    BY <1>10, <2>1, <2>2, <2>3
  <2>5. s * z = z * s /\ s * z \in Int
    BY <1>0, <2>1
  <2>6. t \in (s * z)..(s * z + z - 1)
    BY <1>0, <2>0, <2>1, <2>5
  <2> QED BY <2>4, <2>6
<1>14. \A s \in Reduction!SubGroups : Reduction!Lanes(s) \subseteq 0..(Reduction!numWorkItems - 1)
  BY ONLY <1>1, <1>12
<1>15. \A t \in 0..(Reduction!numWorkItems - 1) : \E s \in Reduction!SubGroups : t \in Reduction!Lanes(s)
  BY ONLY <1>1, <1>13
<1> QED BY <1>1, <1>6, <1>7, <1>11, <1>14, <1>15

(* The data, with zeros behind their end.                                   *)
Padded == [t \in Nat |-> IF t < itemCount THEN Input[t] ELSE 0]
(* The work items of the sub-groups that have added their sum.              *)
Added == UNION {Reduction!Lanes(s) : s \in {v \in Reduction!SubGroups : at[v] = "end"}}
(* The lanes of sub-group s have stored their elements.                     *)
Loaded(s) == \A t \in Reduction!Lanes(s) :
               localCache[Reduction!WorkGroup(s)][t % workGroupSize] = Padded[t]

(* Where the sub-groups are, and which memory there is.                     *)
ReductionTypes ==
  /\ itemCount \in ReductionSizes
  /\ at \in [Reduction!SubGroups -> {"load", "barrier", "reduce", "add", "end"}]
  /\ localCache \in [Reduction!WorkGroups -> [0..(workGroupSize - 1) -> Int]]
  /\ DOMAIN laneSum = Reduction!SubGroups

(* What the host has done: before the submission no sub-group runs; then    *)
(* the result is the sum over the sub-groups that have added theirs; after  *)
(* wait() all of them have.                                                 *)
HostKnows ==
  /\ caller \in {"start", "crashed"} => \A s \in Reduction!SubGroups : at[s] = "load"
  /\ caller = "submitted" =>
       /\ deviceData = [t \in 0..(itemCount - 1) |-> Input[t]]
       /\ deviceResult = SumFunctionOnSet(Padded, Added)
  /\ caller \in {"waited", "returned"} =>
       /\ \A s \in Reduction!SubGroups : at[s] = "end"
       /\ finalResult = SumFunctionOnSet(Input, 0..(itemCount - 1))
  /\ caller \in {"start", "submitted", "waited", "returned", "crashed"}

(* Behind its load a sub-group has its elements in local memory, and behind *)
(* its reduction it has their sum.                                          *)
ReductionInv ==
  /\ ReductionTypes /\ HostKnows
  /\ \A s \in Reduction!SubGroups : at[s] # "load" => Loaded(s)
  /\ \A s \in Reduction!SubGroups : at[s] \in {"add", "end"} =>
       laneSum[s] = SumFunctionOnSet(Padded, Reduction!Lanes(s))

(* The padded data are the data, and zeros.                                 *)
LEMMA PaddedIs ==
  ASSUME itemCount \in ReductionSizes
  PROVE  /\ itemCount \in Nat /\ \A t \in Nat : Padded[t] \in Int
         /\ \A t \in Nat : t < itemCount => Padded[t] = Input[t]
         /\ \A t \in Nat : t >= itemCount => Padded[t] = 0
<1>1. itemCount \in Nat /\ \A t \in 0..(itemCount - 1) : Input[t] \in Int
  BY ReductionConstants
<1>2. \A t \in Nat : t < itemCount => t \in 0..(itemCount - 1)
  BY <1>1
<1> QED BY <1>1, <1>2 DEF Padded

(* A sub-group has finitely many lanes.                                     *)
LEMMA LanesFinite ==
  ASSUME NEW s \in Nat
  PROVE  IsFiniteSet(Reduction!Lanes(s)) /\ Reduction!Lanes(s) \subseteq Nat
<1>1. s * subGroupSize \in Nat /\ s * subGroupSize + subGroupSize - 1 \in Int
  BY ReductionConstants
<1> QED BY <1>1, FS_Interval, SMTT(60) DEF Reduction!Lanes

(* So have all that have added, and no lane is beyond the work items.       *)
LEMMA AddedIsFinite ==
  ASSUME itemCount \in Nat
  PROVE  IsFiniteSet(Added) /\ Added \subseteq 0..(Reduction!numWorkItems - 1) /\ Added \subseteq Nat
<1>1. Added \subseteq 0..(Reduction!numWorkItems - 1) /\ Reduction!numWorkItems \in Nat
  BY ItemsAreDivided DEF Added
<1> DEFINE m == Reduction!numWorkItems
<1> HIDE DEF m
<1>2. IsFiniteSet(0..(m - 1)) /\ 0..(m - 1) \subseteq Nat
  BY <1>1, FS_Interval DEF m
<1>3. Added \subseteq 0..(m - 1)
  BY <1>1 DEF m
<1>4. IsFiniteSet(Added) /\ Added \subseteq Nat
  BY ONLY <1>2, <1>3, FS_Subset
<1> QED BY <1>1, <1>4

(* A load fills the places of its sub-group only, with the elements.        *)
LEMMA LoadKeeps ==
  ASSUME ReductionInv, NEW s \in Reduction!SubGroups, Reduction!Load(s)
  PROVE  ReductionInv'
<1>0. /\ itemCount \in Nat /\ s \in Nat /\ Reduction!SubGroups \subseteq Nat /\ ReductionTypes /\ HostKnows
      /\ itemCount \in ReductionSizes
  BY PaddedIs, ItemsAreDivided DEF ReductionInv, ReductionTypes
<1> DEFINE g == Reduction!WorkGroup(s)
           new == [n \in DOMAIN localCache[g] |->
                    LET globalId == g * workGroupSize + n
                    IN  IF globalId \notin Reduction!Lanes(s) THEN localCache[g][n]
                        ELSE IF globalId < itemCount THEN deviceData[globalId] ELSE 0]
<1>1. /\ caller # "start" /\ caller # "crashed" /\ at[s] = "load" /\ at' = [at EXCEPT ![s] = "barrier"]
      /\ localCache' = [localCache EXCEPT ![g] = new]
      /\ UNCHANGED <<itemCount, caller, deviceData, deviceResult, laneSum, finalResult>>
  BY DEF Reduction!Load, Reduction!Step
<1>2. g \in Reduction!WorkGroups /\ DOMAIN localCache[g] = 0..(workGroupSize - 1)
  BY <1>0 DEF Reduction!WorkGroups, ReductionTypes
<1>3. caller = "submitted" /\ deviceData = [t \in 0..(itemCount - 1) |-> Input[t]]
  BY <1>0, <1>1 DEF HostKnows
<1>4. ASSUME NEW n \in 0..(workGroupSize - 1), g * workGroupSize + n \in Reduction!Lanes(s)
      PROVE  new[n] = Padded[g * workGroupSize + n]
  <2> DEFINE t == g * workGroupSize + n
  <2>1. t \in Nat
    BY <1>0, <1>4, LanesFinite
  <2>2. new[n] = IF t < itemCount THEN deviceData[t] ELSE 0
    BY <1>2, <1>4
  <2> HIDE DEF t, new
  <2>3. t < itemCount => t \in 0..(itemCount - 1)
    BY <1>0, <2>1
  <2> QED BY <1>0, <1>3, <2>1, <2>2, <2>3, PaddedIs DEF t, Padded
<1>5. ASSUME NEW n \in 0..(workGroupSize - 1), g * workGroupSize + n \notin Reduction!Lanes(s)
      PROVE  new[n] = localCache[g][n]
  <2> DEFINE t == g * workGroupSize + n
  <2>1. new[n] = IF t \notin Reduction!Lanes(s) THEN localCache[g][n]
                  ELSE IF t < itemCount THEN deviceData[t] ELSE 0
    BY <1>2
  <2>2. t \notin Reduction!Lanes(s)
    BY <1>5
  <2> HIDE DEF t, new
  <2> QED BY ONLY <2>1, <2>2
<1>6. new \in [0..(workGroupSize - 1) -> Int]
  <2> SUFFICES ASSUME NEW n \in 0..(workGroupSize - 1) PROVE new[n] \in Int
    BY <1>2
  <2>1. CASE g * workGroupSize + n \in Reduction!Lanes(s)
    <3>1. g * workGroupSize + n \in Nat
      BY <1>0, <2>1, LanesFinite
    <3> HIDE DEF new
    <3> QED BY <1>0, <1>4, <2>1, <3>1, PaddedIs
  <2>2. CASE g * workGroupSize + n \notin Reduction!Lanes(s)
    <3>1. localCache[g][n] \in Int
      BY <1>0, <1>2 DEF ReductionTypes
    <3> HIDE DEF new
    <3> QED BY <1>5, <2>2, <3>1
  <2> QED BY <2>1, <2>2
<1> HIDE DEF new
<1>7. /\ localCache'[g] = new /\ \A h \in Reduction!WorkGroups : h # g => localCache'[h] = localCache[h]
      /\ at'[s] = "barrier" /\ \A v \in Reduction!SubGroups : v # s => at'[v] = at[v]
  BY <1>0, <1>1, <1>2 DEF ReductionTypes
<1>8. Reduction!SubGroups' = Reduction!SubGroups /\ Reduction!WorkGroups' = Reduction!WorkGroups /\ Padded' = Padded
  BY <1>1 DEF Reduction!SubGroups, Reduction!WorkGroups, Reduction!numWorkItems, Padded
<1>9. ReductionTypes'
  BY <1>0, <1>1, <1>2, <1>6, <1>8 DEF ReductionTypes
<1>10. ASSUME NEW v \in Reduction!SubGroups, at'[v] # "load" PROVE Loaded(v)'
  <2> SUFFICES ASSUME NEW t \in Reduction!Lanes(v)
               PROVE  localCache'[Reduction!WorkGroup(v)][t % workGroupSize] = Padded[t]
    BY <1>8 DEF Loaded
  <2>0. v \in Nat
    BY <1>0
  <2>1. PICK h \in Int, n \in 0..(workGroupSize - 1) :
          h = Reduction!WorkGroup(v) /\ n = t % workGroupSize /\ h * workGroupSize + n = t
    BY <2>0, LaneIsIn
  <2>4. (at[v] # "load" => localCache[h][n] = Padded[t]) /\ h \in Reduction!WorkGroups
    BY <2>1 DEF ReductionInv, Loaded, Reduction!WorkGroups
  <2> SUFFICES localCache'[h][n] = Padded[t]
    BY <2>1
  <2>2. CASE v = s
    <3>1. h = g /\ g * workGroupSize + n = t /\ t \in Reduction!Lanes(s)
      BY <2>1, <2>2
    <3> QED BY <1>4, <1>7, <2>1, <3>1
  <2>3. CASE v # s
    <3>1. localCache[h][n] = Padded[t]
      BY <1>7, <1>10, <2>3, <2>4
    <3>2. t \notin Reduction!Lanes(s)
      BY <1>0, <2>0, <2>3, LanesApart
    <3>3. CASE h = g
      <4>1. g * workGroupSize + n \notin Reduction!Lanes(s)
        BY <2>1, <3>2, <3>3
      <4> QED BY <1>5, <1>7, <2>1, <3>1, <3>3, <4>1
    <3>4. CASE h # g
      BY <1>7, <2>4, <3>1, <3>4
    <3> QED BY <3>3, <3>4
  <2> QED BY <2>2, <2>3
<1>11. ASSUME NEW v \in Reduction!SubGroups, at'[v] \in {"add", "end"}
       PROVE  laneSum'[v] = SumFunctionOnSet(Padded', Reduction!Lanes(v))
  <2>1. v # s /\ at[v] \in {"add", "end"}
    BY <1>7, <1>11
  <2> QED BY <1>1, <1>8, <2>1 DEF ReductionInv
<1>12. Added' = Added
  BY <1>1, <1>7, <1>8 DEF Added
<1>13. HostKnows'
  BY <1>1, <1>3, <1>0, <1>8, <1>12 DEF HostKnows
<1> QED BY <1>8, <1>9, <1>10, <1>11, <1>13 DEF ReductionInv

(* The calls of the host keep the invariant; wait() finds every sub-group   *)
(* at its end, so that the result is the sum of all the data.               *)
LEMMA HostKeeps ==
  ASSUME ReductionInv, Reduction!Submit \/ Reduction!AllocationFails \/ Reduction!Wait \/ Reduction!Free
  PROVE  ReductionInv'
<1>0. itemCount \in ReductionSizes /\ itemCount \in Nat /\ ReductionTypes /\ HostKnows
  BY PaddedIs DEF ReductionInv, ReductionTypes
<1>1. UNCHANGED <<itemCount, at, localCache, laneSum>>
  BY DEF Reduction!Submit, Reduction!AllocationFails, Reduction!Wait, Reduction!Free
<1>2. Reduction!SubGroups' = Reduction!SubGroups /\ Reduction!WorkGroups' = Reduction!WorkGroups
      /\ Padded' = Padded /\ Added' = Added
  BY <1>1 DEF Reduction!SubGroups, Reduction!WorkGroups, Reduction!numWorkItems, Padded, Added
<1>3. ReductionTypes'
  BY <1>0, <1>1, <1>2 DEF ReductionTypes
<1>4. HostKnows'
  <2>1. CASE Reduction!Submit
    <3>1. caller = "start" /\ caller' = "submitted" /\ deviceData' = [t \in 0..(itemCount - 1) |-> Input[t]]
          /\ deviceResult' = 0
      BY <2>1 DEF Reduction!Submit
    <3>2. Added = {}
      BY <1>0, <3>1 DEF HostKnows, Added
    <3>3. deviceResult' = SumFunctionOnSet(Padded', Added')
      BY <1>2, <3>1, <3>2, SumEmpty
    <3> QED BY <1>1, <3>1, <3>3 DEF HostKnows
  <2>2. CASE Reduction!AllocationFails
    <3>1. caller = "start" /\ caller' = "crashed"
      BY <2>2 DEF Reduction!AllocationFails
    <3> QED BY <1>0, <1>1, <1>2, <3>1 DEF HostKnows
  <2>3. CASE Reduction!Wait
    <3>1. caller = "submitted" /\ caller' = "waited" /\ finalResult' = deviceResult
          /\ \A s \in Reduction!SubGroups : at[s] = "end"
      BY <2>3 DEF Reduction!Wait
    <3> DEFINE m == Reduction!numWorkItems
    <3>2. m \in Nat /\ itemCount <= m
      BY <1>0, ItemsAreDivided
    <3>3. Added = 0..(m - 1)
      <4>1. Added \subseteq 0..(m - 1)
        BY <1>0, AddedIsFinite
      <4>2. \A t \in 0..(m - 1) : t \in Added
        BY <1>0, <3>1, ItemsAreDivided DEF Added
      <4> QED BY <4>1, <4>2
    <3> HIDE DEF m
    <3>4. \A t \in 0..(itemCount - 1) : Input[t] \in Int /\ Padded[t] = Input[t]
      <4>1. \A t \in 0..(itemCount - 1) : t \in Nat /\ t < itemCount
        BY <1>0
      <4> QED BY <1>0, <4>1, PaddedIs
    <3>5. \A t \in itemCount..(m - 1) : Padded[t] = 0
      <4>1. \A t \in itemCount..(m - 1) : t \in Nat /\ t >= itemCount
        BY <1>0, <3>2
      <4> QED BY <1>0, <4>1, PaddedIs
    <3>6. SumFunctionOnSet(Padded, 0..(m - 1)) = SumFunctionOnSet(Input, 0..(itemCount - 1))
      BY ONLY <1>0, <3>2, <3>4, <3>5, SumPadded
    <3>7. finalResult' = SumFunctionOnSet(Input, 0..(itemCount - 1))
      BY <1>0, <3>1, <3>3, <3>6 DEF HostKnows
    <3> QED BY <1>1, <1>2, <3>1, <3>7 DEF HostKnows
  <2>4. CASE Reduction!Free
    <3>1. caller = "waited" /\ caller' = "returned" /\ finalResult' = finalResult
      BY <2>4 DEF Reduction!Free
    <3> QED BY <1>0, <1>1, <1>2, <3>1 DEF HostKnows
  <2> QED BY <2>1, <2>2, <2>3, <2>4
<1>5. \A s \in Reduction!SubGroups : Loaded(s) => Loaded(s)'
  BY <1>1, <1>2 DEF Loaded
<1> QED BY <1>1, <1>2, <1>3, <1>4, <1>5 DEF ReductionInv

(* The barrier opens for sub-groups that have loaded.                       *)
LEMMA BarrierKeeps ==
  ASSUME ReductionInv, NEW g \in Reduction!WorkGroups, Reduction!Barrier(g)
  PROVE  ReductionInv'
<1> DEFINE members == {s \in Reduction!SubGroups : Reduction!WorkGroup(s) = g}
<1>0. itemCount \in ReductionSizes /\ itemCount \in Nat /\ ReductionTypes /\ HostKnows
  BY PaddedIs DEF ReductionInv, ReductionTypes
<1>1. /\ UNCHANGED <<itemCount, caller, deviceData, deviceResult, localCache, laneSum, finalResult>>
      /\ \A s \in members : at[s] = "barrier"
      /\ at' = [s \in Reduction!SubGroups |-> IF s \in members THEN "reduce" ELSE at[s]]
  BY DEF Reduction!Barrier
<1>2. Reduction!SubGroups' = Reduction!SubGroups /\ Reduction!WorkGroups' = Reduction!WorkGroups
      /\ Padded' = Padded
  BY <1>1 DEF Reduction!SubGroups, Reduction!WorkGroups, Reduction!numWorkItems, Padded
<1>3. PICK leader \in members : TRUE
  BY DEF Reduction!WorkGroups
<1> HIDE DEF members
<1>4. \A s \in Reduction!SubGroups : IF s \in members THEN at[s] = "barrier" /\ at'[s] = "reduce"
                                                     ELSE at'[s] = at[s]
  BY <1>1
<1>5. Added' = Added
  BY <1>2, <1>4 DEF Added
<1>6. ReductionTypes'
  BY <1>0, <1>1, <1>2 DEF ReductionTypes
<1>7. HostKnows'
  <2>1. caller = "submitted"
    <3>1. leader \in Reduction!SubGroups /\ at[leader] = "barrier"
      BY <1>1, <1>3 DEF members
    <3> QED BY <1>0, <3>1 DEF HostKnows
  <2> QED BY <1>0, <1>1, <1>2, <1>5, <2>1 DEF HostKnows
<1>8. \A s \in Reduction!SubGroups : at'[s] # "load" => Loaded(s)'
  <2>1. \A s \in Reduction!SubGroups : Loaded(s) => Loaded(s)'
    BY <1>1, <1>2 DEF Loaded
  <2> QED BY <1>4, <2>1 DEF ReductionInv
<1>9. \A s \in Reduction!SubGroups : at'[s] \in {"add", "end"} => at[s] \in {"add", "end"}
  BY <1>4
<1> QED BY <1>1, <1>2, <1>6, <1>7, <1>8, <1>9 DEF ReductionInv

(* The lanes read what they have loaded.                                    *)
LEMMA ReduceKeeps ==
  ASSUME ReductionInv, NEW s \in Reduction!SubGroups, Reduction!Reduce(s)
  PROVE  ReductionInv'
<1>0. /\ itemCount \in ReductionSizes /\ itemCount \in Nat /\ ReductionTypes /\ HostKnows
      /\ s \in Nat
  BY PaddedIs, ItemsAreDivided DEF ReductionInv, ReductionTypes
<1> DEFINE f == [t \in Reduction!Lanes(s) |-> localCache[Reduction!WorkGroup(s)][Reduction!localId(t)]]
<1>1. /\ UNCHANGED <<itemCount, caller, deviceData, deviceResult, localCache, finalResult>>
      /\ caller # "start" /\ caller # "crashed" /\ at[s] = "reduce" /\ at' = [at EXCEPT ![s] = "add"]
      /\ laneSum' = [laneSum EXCEPT ![s] = Reduction!SumFunctionOnSet(f, Reduction!Lanes(s))]
  BY DEF Reduction!Reduce, Reduction!Step
<1>2. Reduction!SubGroups' = Reduction!SubGroups /\ Reduction!WorkGroups' = Reduction!WorkGroups
      /\ Padded' = Padded
  BY <1>1 DEF Reduction!SubGroups, Reduction!WorkGroups, Reduction!numWorkItems, Padded
<1>3. at'[s] = "add" /\ \A v \in Reduction!SubGroups : v # s => at'[v] = at[v] /\ laneSum'[v] = laneSum[v]
  BY <1>0, <1>1 DEF ReductionTypes
<1>4. laneSum'[s] = SumFunctionOnSet(Padded, Reduction!Lanes(s))
  <2>1. \A t \in Reduction!Lanes(s) : f[t] = Padded[t]
    BY <1>1 DEF ReductionInv, Loaded, Reduction!localId
  <2> HIDE DEF f
  <2>2. \A t \in Reduction!Lanes(s) : Padded[t] \in Int /\ f[t] \in Int
    BY <1>0, <2>1, LanesFinite, PaddedIs
  <2>3. SumFunctionOnSet(f, Reduction!Lanes(s)) = SumFunctionOnSet(Padded, Reduction!Lanes(s))
    BY <1>0, <2>1, <2>2, LanesFinite, SumSame
  <2>4. laneSum'[s] = Reduction!SumFunctionOnSet(f, Reduction!Lanes(s))
    BY <1>0, <1>1 DEF ReductionTypes
  <2> QED BY <2>3, <2>4, ReductionSum
<1> HIDE DEF f
<1>5. Added' = Added
  BY <1>1, <1>2, <1>3 DEF Added
<1>6. ReductionTypes'
  BY <1>0, <1>1, <1>2 DEF ReductionTypes
<1>7. HostKnows'
  <2>1. caller = "submitted"
    BY <1>0, <1>1 DEF HostKnows
  <2> QED BY <1>0, <1>1, <1>2, <1>5, <2>1 DEF HostKnows
<1>8. \A v \in Reduction!SubGroups : at'[v] # "load" => Loaded(v)'
  <2>1. \A v \in Reduction!SubGroups : Loaded(v) => Loaded(v)'
    BY <1>1, <1>2 DEF Loaded
  <2> QED BY <1>1, <1>3, <2>1 DEF ReductionInv
<1>9. \A v \in Reduction!SubGroups : at'[v] \in {"add", "end"} =>
        laneSum'[v] = SumFunctionOnSet(Padded, Reduction!Lanes(v))
  BY <1>3, <1>4 DEF ReductionInv
<1> QED BY <1>1, <1>2, <1>6, <1>7, <1>8, <1>9 DEF ReductionInv

(* fetch_add adds the elements of lanes nobody has added before.            *)
LEMMA AddKeeps ==
  ASSUME ReductionInv, NEW s \in Reduction!SubGroups, Reduction!Add(s)
  PROVE  ReductionInv'
<1>0. /\ itemCount \in ReductionSizes /\ itemCount \in Nat /\ ReductionTypes /\ HostKnows
      /\ s \in Nat /\ Reduction!SubGroups \subseteq Nat
  BY PaddedIs, ItemsAreDivided DEF ReductionInv, ReductionTypes
<1>1. /\ UNCHANGED <<itemCount, caller, deviceData, localCache, laneSum, finalResult>>
      /\ caller # "start" /\ caller # "crashed" /\ at[s] = "add" /\ at' = [at EXCEPT ![s] = "end"]
      /\ deviceResult' = deviceResult + laneSum[s]
  BY DEF Reduction!Add, Reduction!Step
<1>2. Reduction!SubGroups' = Reduction!SubGroups /\ Reduction!WorkGroups' = Reduction!WorkGroups
      /\ Padded' = Padded
  BY <1>1 DEF Reduction!SubGroups, Reduction!WorkGroups, Reduction!numWorkItems, Padded
<1>3. at'[s] = "end" /\ \A v \in Reduction!SubGroups : v # s => at'[v] = at[v]
  BY <1>0, <1>1 DEF ReductionTypes
<1>4. laneSum[s] = SumFunctionOnSet(Padded, Reduction!Lanes(s))
  BY <1>1 DEF ReductionInv
<1>5. Added' = Added \union Reduction!Lanes(s)
  BY <1>1, <1>2, <1>3 DEF Added
<1>6. Added \intersect Reduction!Lanes(s) = {}
  <2> SUFFICES ASSUME NEW t \in Reduction!Lanes(s), t \in Added PROVE FALSE
    OBVIOUS
  <2>1. PICK v \in Reduction!SubGroups : at[v] = "end" /\ t \in Reduction!Lanes(v)
    BY DEF Added
  <2>2. v = s
    BY <1>0, <2>1, LanesApart
  <2> QED BY <1>1, <2>1, <2>2
<1>7. SumFunctionOnSet(Padded, Added') = SumFunctionOnSet(Padded, Added) + SumFunctionOnSet(Padded, Reduction!Lanes(s))
  <2>1. \A t \in Added \union Reduction!Lanes(s) : Padded[t] \in Int
    BY <1>0, AddedIsFinite, LanesFinite, PaddedIs
  <2>2. IsFiniteSet(Added) /\ IsFiniteSet(Reduction!Lanes(s))
    BY <1>0, AddedIsFinite, LanesFinite
  <2> QED BY ONLY <1>5, <1>6, <2>1, <2>2, SumUnion
<1>8. ReductionTypes'
  BY <1>0, <1>1, <1>2 DEF ReductionTypes
<1>9. HostKnows'
  <2>1. caller = "submitted" /\ deviceResult = SumFunctionOnSet(Padded, Added)
    BY <1>0, <1>1 DEF HostKnows
  <2>2. deviceResult' = SumFunctionOnSet(Padded', Added')
    BY <1>1, <1>2, <1>4, <1>7, <2>1
  <2> QED BY <1>0, <1>1, <1>2, <2>1, <2>2 DEF HostKnows
<1>10. \A v \in Reduction!SubGroups : at'[v] # "load" => Loaded(v)'
  <2>1. \A v \in Reduction!SubGroups : Loaded(v) => Loaded(v)'
    BY <1>1, <1>2 DEF Loaded
  <2> QED BY <1>1, <1>3, <2>1 DEF ReductionInv
<1>11. \A v \in Reduction!SubGroups : at'[v] \in {"add", "end"} => at[v] \in {"add", "end"}
  BY <1>1, <1>3
<1> QED BY <1>1, <1>2, <1>8, <1>9, <1>10, <1>11 DEF ReductionInv

(* So it always holds.                                                      *)
LEMMA ReductionInductive == Spec => []ReductionInv
<1>1. Init => ReductionInv
  <2> SUFFICES ASSUME Init PROVE ReductionInv
    OBVIOUS
  <2>1. /\ itemCount \in ReductionSizes /\ caller = "start" /\ at = [s \in Reduction!SubGroups |-> "load"]
        /\ localCache = [g \in Reduction!WorkGroups |-> [n \in 0..(workGroupSize - 1) |-> -1]]
        /\ laneSum = [s \in Reduction!SubGroups |-> -1]
    BY DEF Init, Reduction!Init, Reduction!Unwritten
  <2>2. ReductionTypes /\ HostKnows
    BY <2>1 DEF ReductionTypes, HostKnows
  <2> QED BY <2>1, <2>2 DEF ReductionInv
<1>2. ReductionInv /\ [Next]_all => ReductionInv'
  <2> SUFFICES ASSUME ReductionInv, [Reduction!Next]_reductionVars PROVE ReductionInv'
    BY ReductionStep DEF all, devices, reductionVars
  <2>1. ASSUME NEW s \in Reduction!SubGroups, Reduction!Load(s) \/ Reduction!Reduce(s) \/ Reduction!Add(s)
        PROVE  ReductionInv'
    BY <2>1, LoadKeeps, ReduceKeeps, AddKeeps
  <2>2. ASSUME NEW g \in Reduction!WorkGroups, Reduction!Barrier(g) PROVE ReductionInv'
    BY <2>2, BarrierKeeps
  <2>3. CASE Reduction!Host
    BY <2>3, HostKeeps DEF Reduction!Host
  <2>4. CASE UNCHANGED reductionVars
    <3>1. /\ Reduction!SubGroups' = Reduction!SubGroups /\ Reduction!WorkGroups' = Reduction!WorkGroups
          /\ Padded' = Padded /\ Added' = Added
      BY <2>4 DEF reductionVars, Reduction!SubGroups, Reduction!WorkGroups, Reduction!numWorkItems, Padded, Added
    <3>2. \A s : Loaded(s)' = Loaded(s)
      BY <2>4, <3>1 DEF reductionVars, Loaded
    <3> QED BY <2>4, <3>1, <3>2 DEF reductionVars, ReductionInv, ReductionTypes, HostKnows
  <2> QED BY <2>1, <2>2, <2>3, <2>4 DEF Reduction!Next, Reduction!Kernel, Reduction!Rest, Reduction!vars, reductionVars
<1> QED BY <1>1, <1>2, PTL DEF Spec

(* However much data there is and however large the groups are, whatever    *)
(* the order of the sub-groups: once waited for, every sub-group has ended  *)
(* and finalResult is the sum of the data, the padding not counted.         *)
THEOREM ReductionsAreSums == Spec => []ReductionIsSum
<1>1. ReductionInv => ReductionIsSum
  BY ReductionSum DEF ReductionInv, HostKnows, ReductionIsSum, Reduction!ReductionIsSum
<1> QED BY <1>1, ReductionInductive, PTL

-----------------------------------------------------------------------------
(* The prefix sums of the wavefronts.                                       *)

(* The data, with zeros behind their end.                                   *)
Filled == [t \in Nat |-> IF t < dataSize THEN Input[t] ELSE 0]
(* Where the sum of a lane begins, that has added those up to the offset.   *)
From(lane, offset) == IF lane >= offset THEN lane - offset + 1 ELSE 0
(* The sum a lane has when it has added those up to the offset.             *)
Window(w, lane, offset) ==
  SumFunctionOnSet(Filled, (w * warpSize + From(lane, offset))..(w * warpSize + lane))

(* What the constants of the scan may be.                                   *)
LEMMA ScanConstants ==
  /\ ScanSizes \subseteq Nat /\ \A n \in ScanSizes : \A t \in 0..(n - 1) : t \in DOMAIN Input /\ Input[t] \in Int
  /\ warpSize \in Nat \ {0} /\ blockSize \in Nat \ {0} /\ blockSize % warpSize = 0
  BY ConcurrencyAssumption DEF Scan!ScanAssumption

(* The sum its module takes is the sum the lemmas are about.                *)
LEMMA ScanSum ==
  ASSUME NEW f, NEW S
  PROVE  Scan!SumFunctionOnSet(f, S) = SumFunctionOnSet(f, S)
  BY DEF Scan!SumFunctionOnSet, Scan!FoldFunctionOnSet, Scan!MapThenFoldSet,
         SumFunctionOnSet, FoldFunctionOnSet, MapThenFoldSet

(* The filled data are the data, and zeros.                                 *)
LEMMA FilledIs ==
  ASSUME dataSize \in ScanSizes
  PROVE  dataSize \in Nat /\ (\A t \in Nat : Filled[t] \in Int)
         /\ \A t \in 0..(dataSize - 1) : t \in Nat /\ Input[t] \in Int /\ Filled[t] = Input[t]
<1>1. dataSize \in Nat /\ \A t \in 0..(dataSize - 1) : Input[t] \in Int
  BY ScanConstants
<1>2. \A t \in Nat : t < dataSize => t \in 0..(dataSize - 1)
  BY <1>1
<1> QED BY <1>1, <1>2 DEF Filled

(* The numbers of a range are finitely many.                                *)
LEMMA WindowIsInt ==
  ASSUME dataSize \in ScanSizes, NEW a \in Nat, NEW b \in Int
  PROVE  IsFiniteSet(a..b) /\ \A t \in a..b : t \in Nat /\ Filled[t] \in Int
<1>1. \A t \in a..b : t \in Nat
  OBVIOUS
<1> QED BY <1>1, FilledIs, FS_Interval, SMTT(60)

(* A lane begins with its own element.                                      *)
LEMMA FirstWindow ==
  ASSUME dataSize \in ScanSizes, NEW w \in Nat, NEW lane \in Nat
  PROVE  Window(w, lane, 1) = Filled[w * warpSize + lane]
<1> DEFINE x == w * warpSize + lane
<1>1. x \in Nat /\ w * warpSize + From(lane, 1) = x
  BY ScanConstants DEF From
<1>2. Window(w, lane, 1) = SumFunctionOnSet(Filled, x..x)
  BY <1>1 DEF Window
<1> HIDE DEF x
<1>3. x..x = {x} /\ x \in Int /\ {x} \ {x} = {}
  BY <1>1
<1>4. IsFiniteSet(x..x) /\ \A t \in x..x : Filled[t] \in Int
  BY <1>1, <1>3, WindowIsInt
<1>5. SumFunctionOnSet(Filled, x..x) = Filled[x] + SumFunctionOnSet(Filled, {})
  BY <1>3, <1>4, SumSplit
<1>6. Filled[x] \in Int
  BY <1>3, <1>4
<1>7. Window(w, lane, 1) = Filled[x]
  BY <1>2, <1>5, <1>6, SumEmpty
<1> QED BY <1>7 DEF x

(* A turn of the loop joins the sums of two ranges that meet: the lane adds *)
(* the sum of the lane an offset below, and then reaches twice as far.      *)
LEMMA WindowGrows ==
  ASSUME dataSize \in ScanSizes, NEW w \in Nat, NEW lane \in Nat, NEW offset \in Nat \ {0}
  PROVE  Window(w, lane, 2 * offset) =
           IF lane >= offset THEN Window(w, lane, offset) + Window(w, lane - offset, offset)
                             ELSE Window(w, lane, offset)
<1> DEFINE a == w * warpSize  from == From(lane, 2 * offset)
<1>0. a \in Nat
  BY ScanConstants
<1>1. Window(w, lane, 2 * offset) = SumFunctionOnSet(Filled, (a + from)..(a + lane))
  BY DEF Window
<1>2. CASE lane >= offset
  <2> DEFINE A == (a + from)..(a + (lane - offset))  B == (a + (lane - offset + 1))..(a + lane)
  <2>1. from = From(lane - offset, offset) /\ from \in Nat /\ from <= lane - offset + 1
        /\ lane - offset + 1 = From(lane, offset)
    BY <1>2 DEF From
  <2>2. Window(w, lane, offset) = SumFunctionOnSet(Filled, B)
        /\ Window(w, lane - offset, offset) = SumFunctionOnSet(Filled, A)
    BY <2>1 DEF Window
  <2> HIDE DEF a, from
  <2>3. A \union B = (a + from)..(a + lane) /\ A \intersect B = {}
    BY <1>0, <1>2, <2>1
  <2>4. IsFiniteSet(A) /\ IsFiniteSet(B) /\ (\A t \in A : Filled[t] \in Int) /\ (\A t \in B : Filled[t] \in Int)
    <3>1. a + from \in Nat /\ a + (lane - offset + 1) \in Nat /\ a + lane \in Int /\ a + (lane - offset) \in Int
      BY <1>0, <1>2, <2>1
    <3> QED BY <3>1, WindowIsInt
  <2> HIDE DEF A, B
  <2>5. SumFunctionOnSet(Filled, A \union B) = SumFunctionOnSet(Filled, A) + SumFunctionOnSet(Filled, B)
    <3>1. \A t \in A \union B : Filled[t] \in Int
      BY <2>4
    <3> QED BY ONLY <2>3, <2>4, <3>1, SumUnion
  <2>6. SumFunctionOnSet(Filled, A) \in Int /\ SumFunctionOnSet(Filled, B) \in Int
    BY <2>4, SumInt
  <2>7. Window(w, lane, 2 * offset) = Window(w, lane, offset) + Window(w, lane - offset, offset)
    <3>1. Window(w, lane, 2 * offset) = SumFunctionOnSet(Filled, A \union B)
      BY ONLY <1>1, <2>3
    <3>2. SumFunctionOnSet(Filled, A) + SumFunctionOnSet(Filled, B) = SumFunctionOnSet(Filled, B) + SumFunctionOnSet(Filled, A)
      BY ONLY <2>6
    <3> QED BY ONLY <2>2, <2>5, <3>1, <3>2, Zenon
  <2> QED BY <1>2, <2>7, Zenon
<1>3. CASE ~(lane >= offset)
  <2>1. from = From(lane, offset)
    BY <1>3 DEF From
  <2> QED BY <1>1, <1>3, <2>1 DEF Window
<1> QED BY <1>2, <1>3

(* A window over all of its wavefront is what the element is to hold.       *)
LEMMA LastWindow ==
  ASSUME dataSize \in ScanSizes, NEW t \in 0..(dataSize - 1), NEW offset \in Nat, offset >= warpSize
  PROVE  /\ t \div warpSize \in Nat /\ t % warpSize \in Scan!Lanes
         /\ Window(t \div warpSize, t % warpSize, offset) = SumFunctionOnSet(Input, (t - (t % warpSize))..t)
<1> DEFINE w == t \div warpSize  lane == t % warpSize  z == warpSize
<1>0. z \in Nat \ {0} /\ t \in Nat /\ t \in Int /\ t < dataSize /\ dataSize \in Nat
  BY ScanConstants, FilledIs
<1> HIDE DEF z
<1>1. w \in Int /\ lane \in 0..(z - 1) /\ t = z * w + lane
  BY ONLY <1>0, DivMod DEF z
<1> HIDE DEF w, lane
<1>2. w \in Nat
  <2> SUFFICES ASSUME w < 0 PROVE FALSE
    BY <1>1
  <2>1. -w - 1 \in Nat
    BY <1>1
  <2>2. z * (-w - 1) >= 0
    BY <1>0, <2>1
  <2>3. z * (-w - 1) = -(z * w) - z /\ z * w \in Int
    BY <1>0, <1>1
  <2> QED BY <1>0, <1>1, <2>2, <2>3
<1>3. From(lane, offset) = 0
  BY <1>0, <1>1 DEF From, z
<1>4. w * z = z * w /\ z * w \in Nat
  BY <1>0, <1>2
<1>5. w * z + 0 = t - lane /\ w * z + lane = t /\ t - lane \in Nat
  BY <1>0, <1>1, <1>4
<1>6. Window(w, lane, offset) = SumFunctionOnSet(Filled, (t - lane)..t)
  BY <1>3, <1>5 DEF Window, z
<1>7. \A x \in (t - lane)..t : x \in 0..(dataSize - 1)
  BY <1>0, <1>1, <1>5
<1>8. SumFunctionOnSet(Filled, (t - lane)..t) = SumFunctionOnSet(Input, (t - lane)..t)
  <2>1. \A x \in (t - lane)..t : Filled[x] = Input[x] /\ Filled[x] \in Int
    BY <1>7, FilledIs
  <2> QED BY <1>0, <1>5, <2>1, WindowIsInt, SumSame, ZenonT(60)
<1>9. lane \in Scan!Lanes
  BY <1>1 DEF Scan!Lanes, z
<1> QED BY <1>2, <1>6, <1>8, <1>9 DEF w, lane

(* Every element has its wavefront.                                         *)
LEMMA WaveOf ==
  ASSUME dataSize \in ScanSizes, NEW t \in 0..(dataSize - 1)
  PROVE  t \div warpSize \in Scan!Waves
<1> DEFINE n == blockSize  z == warpSize  b == dataSize + n - 1  e == b \div n  d == n \div z
           w == t \div z
<1>0. z \in Nat \ {0} /\ n \in Nat \ {0} /\ n % z = 0 /\ dataSize \in Nat /\ t \in Nat /\ t < dataSize /\ b \in Nat
  BY ScanConstants, FilledIs
<1>1. Scan!Waves = 0..(e * d - 1)
  BY DEF Scan!Waves, Scan!gridSize
<1>2. b = dataSize + n - 1
  OBVIOUS
<1>3. w \in Nat
  BY LastWindow, ScanConstants
<1> HIDE DEF n, z, b
<1>4. e \in Int /\ b % n \in 0..(n - 1) /\ b = n * e + (b % n)
  BY ONLY <1>0, b \in Int, DivMod
<1>5. d \in Int /\ n = z * d
  BY <1>0, DivMod
<1>6. t % z \in 0..(z - 1) /\ t = z * w + (t % z)
  BY ONLY <1>0, t \in Int, DivMod
<1> HIDE DEF e, d, w
<1> DEFINE x == e * d
<1>7. n * e = z * x /\ z * x \in Int /\ x \in Int /\ z * w \in Int
  BY <1>0, <1>3, <1>4, <1>5
<1> HIDE DEF x
<1>8. z * w < z * x
  <2>1. b % n <= n - 1 /\ b % n \in Int /\ t % z >= 0 /\ t % z \in Int
    BY <1>0, <1>4, <1>6
  <2> QED BY ONLY <1>0, <1>2, <1>4, <1>6, <1>7, <2>1
<1>9. w < x
  <2> SUFFICES ASSUME ~(w < x) PROVE FALSE
    OBVIOUS
  <2>1. w - x \in Nat
    BY <1>3, <1>7
  <2>2. z * (w - x) >= 0
    BY <1>0, <2>1
  <2>3. z * (w - x) = z * w - z * x
    BY <1>0, <1>3, <1>7
  <2> QED BY <1>7, <1>8, <2>2, <2>3
<1>10. w \in 0..(x - 1)
  BY <1>3, <1>7, <1>9
<1> QED BY <1>1, <1>10 DEF x, w, z

(* Element t of the result: the sum of its wavefront up to and with it.     *)
Prefix(t) == SumFunctionOnSet(Input, (t - (t % warpSize))..t)

(* The lanes of wavefront w have added the elements up to the offset.       *)
Adding(w) ==
  /\ wave[w].offset \in 1..(2 * warpSize - 1)
  /\ wave[w].val = [lane \in Scan!Lanes |-> Window(w, lane, wave[w].offset)]
(* The wavefront has written its sums.                                      *)
Stored(w) ==
  /\ Scan!Ended(w)
  /\ \A t \in Scan!Elements : t \div warpSize = w => d_out[t] = Prefix(t)

(* How far the operations of the stream have come. *)
Fresh    == h_data = [t \in Scan!Elements |-> Input[t]] /\ \A w \in Scan!Waves : wave[w] = Scan!Idle
Filling  == /\ d_in = [t \in Scan!Elements |-> Input[t]]
            /\ \A w \in Scan!Waves : wave[w] = Scan!Idle \/ Adding(w) \/ Stored(w)
(* The kernel has written all of them.                                      *)
Computed == \A t \in Scan!Elements : d_out[t] = Prefix(t)
(* The host has them.                                                       *)
Returned == \A t \in Scan!Elements : h_data[t] = Prefix(t)

(* What the stream holds after so many host calls, and what was reached.    *)
Course ==
  \/ host \in 0..3 /\ launched = FALSE /\ stream = <<>> /\ Fresh
  \/ host = 4 /\ launched = FALSE /\ stream = <<"copyIn">> /\ Fresh
  \/ host = 4 /\ launched = FALSE /\ stream = <<>> /\ Filling
  \/ host = 5 /\ launched = FALSE /\ stream \in {<<"copyIn">>, <<>>}
  \/ host = 6 /\ launched = FALSE /\ stream \in {<<"copyIn", "copyOut">>, <<"copyOut">>, <<>>}
  \/ host = 5 /\ launched = TRUE /\ stream = <<"copyIn", "launch">> /\ Fresh
  \/ host = 5 /\ launched = TRUE /\ stream = <<"launch">> /\ Filling
  \/ host = 5 /\ launched = TRUE /\ stream = <<>> /\ Computed
  \/ host = 6 /\ launched = TRUE /\ stream = <<"copyIn", "launch", "copyOut">> /\ Fresh
  \/ host = 6 /\ launched = TRUE /\ stream = <<"launch", "copyOut">> /\ Filling
  \/ host = 6 /\ launched = TRUE /\ stream = <<"copyOut">> /\ Computed
  \/ host = 6 /\ launched = TRUE /\ stream = <<>> /\ Returned
  \/ host \in 7..10 /\ stream = <<>> /\ (launched = TRUE => Returned)

(* The stream holds what the calls of the host have put into it and has not *)
(* ended; every operation that has ended has done its work.                 *)
ScanInv ==
  /\ dataSize \in ScanSizes /\ DOMAIN wave = Scan!Waves
  /\ host \in 0..10 \union {-1} /\ launched \in {TRUE, FALSE}
  /\ host # -1 => Course

(* What happens to the scan is a step of its module or nothing.             *)
LEMMA ScanStep == Next => [Scan!Next]_scanVars
  BY DEF Next, RingNext, ThreadNext, DeviceNext, devices, scanVars

(* Which call is made after how many.                                       *)
LEMMA CallIs ==
  ASSUME NEW name, Scan!Call(name)
  PROVE  /\ host \in 0..9 /\ host' = host + 1
         /\ host = 0 => name = "hipStreamCreate"
         /\ host \in {1, 2} => name = "hipMalloc"
         /\ host = 3 => name = "copyIn"
         /\ host = 4 => name = "launch"
         /\ host = 5 => name = "copyOut"
         /\ host = 6 => name = "hipStreamSynchronize"
         /\ host \in {7, 8} => name = "hipFree"
         /\ host = 9 => name = "hipStreamDestroy"
  BY DEF Scan!Call, Scan!Calls

(* The sums depend on how much data there is, which does not change.        *)
LEMMA SameWindows ==
  ASSUME dataSize' = dataSize
  PROVE  /\ \A w, lane, offset : Window(w, lane, offset)' = Window(w, lane, offset)
         /\ Scan!Waves' = Scan!Waves /\ Scan!Elements' = Scan!Elements
<1>1. Filled' = Filled
  BY DEF Filled
<1> QED BY <1>1 DEF Window, From, Scan!Elements, Scan!Waves, Scan!gridSize

(* The invariant, but for what the stream holds.                            *)
LEMMA CourseIsEnough ==
  ASSUME ScanInv, dataSize' = dataSize, DOMAIN wave' = DOMAIN wave, host' \in 0..10,
         launched' = TRUE \/ launched' = FALSE, Course'
  PROVE  ScanInv'
<1>1. Scan!Waves' = Scan!Waves
  BY DEF Scan!Waves, Scan!gridSize
<1>2. host' \in 0..10 \union {-1} /\ launched' \in {TRUE, FALSE}
  OBVIOUS
<1> QED BY <1>1, <1>2 DEF ScanInv

(* The calls that put nothing into the stream, and the synchronization.     *)
LEMMA CallReturnsKeeps ==
  ASSUME ScanInv, Scan!CallReturns \/ Scan!Synchronize
  PROVE  ScanInv'
<1>1. PICK name \in {"hipStreamCreate", "hipMalloc", "hipFree", "hipStreamDestroy", "hipStreamSynchronize"} :
        Scan!Call(name) /\ (name = "hipStreamSynchronize" => stream = <<>>)
  BY DEF Scan!CallReturns, Scan!Synchronize
<1>2. UNCHANGED <<dataSize, stream, launched, h_data, d_in, d_out, wave>>
  BY DEF Scan!CallReturns, Scan!Synchronize
<1>3. /\ host \in {0, 1, 2, 6, 7, 8, 9} /\ host' = host + 1
      /\ host = 6 => stream = <<>>
  BY <1>1, CallIs
<1>4. (Fresh => Fresh') /\ (Returned => Returned') /\ Scan!Waves' = Scan!Waves
  BY <1>2 DEF Fresh, Returned, Scan!Elements, Scan!Waves, Scan!gridSize, Prefix
<1>5. Course
  BY <1>3 DEF ScanInv
<1>9. dataSize' = dataSize /\ DOMAIN wave' = DOMAIN wave /\ (launched' = TRUE \/ launched' = FALSE)
  BY <1>2 DEF ScanInv
<1>6. CASE host \in {0, 1, 2}
  <2>1. launched = FALSE /\ stream = <<>> /\ Fresh
    BY <1>5, <1>6 DEF Course
  <2>2. host' \in 0..3
    BY <1>3, <1>6
  <2>3. Course' /\ host' \in 0..10
    BY <1>2, <1>4, <2>1, <2>2 DEF Course
  <2> QED BY <1>9, <2>3, CourseIsEnough
<1>7. CASE host = 6
  <2>1. host' = 7 /\ stream = <<>> /\ (launched = TRUE => Returned)
    BY <1>3, <1>5, <1>7 DEF Course
  <2>2. Course' /\ host' \in 0..10
    BY <1>2, <1>4, <2>1 DEF Course
  <2> QED BY <1>9, <2>2, CourseIsEnough
<1>8. CASE host \in {7, 8, 9}
  <2>1. host' \in 7..10 /\ stream = <<>> /\ (launched = TRUE => Returned)
    BY <1>3, <1>5, <1>8 DEF Course
  <2>2. Course' /\ host' \in 0..10
    BY <1>2, <1>4, <2>1 DEF Course
  <2> QED BY <1>9, <2>2, CourseIsEnough
<1> QED BY <1>3, <1>6, <1>7, <1>8

(* The copies and the launch, accepted or not, go behind what is there.     *)
LEMMA EnqueueKeeps ==
  ASSUME ScanInv, Scan!EnqueueCopy \/ Scan!Launch
  PROVE  ScanInv'
<1>1. UNCHANGED <<dataSize, h_data, d_in, d_out, wave>>
  BY DEF Scan!EnqueueCopy, Scan!Launch
<1>2. Scan!Waves' = Scan!Waves /\ Scan!Elements' = Scan!Elements
  BY <1>1 DEF Scan!Elements, Scan!Waves, Scan!gridSize
<1>3. Fresh => Fresh'
  BY <1>1, <1>2 DEF Fresh
<1>4. Filling => Filling'
  <2>1. \A w : Adding(w)' <=> Adding(w)
    BY <1>1, SameWindows DEF Adding
  <2>2. \A w : Stored(w)' <=> Stored(w)
    BY <1>1, <1>2 DEF Stored, Scan!Ended, Prefix
  <2> QED BY <1>1, <1>2, <2>1, <2>2 DEF Filling
<1>5. Computed => Computed'
  BY <1>1, <1>2 DEF Computed, Prefix
<1>8. dataSize' = dataSize /\ DOMAIN wave' = DOMAIN wave
  BY <1>1
<1>6. CASE Scan!EnqueueCopy
  <2>1. PICK name \in {"copyIn", "copyOut"} : Scan!Call(name) /\ stream' = Append(stream, name)
    BY <1>6 DEF Scan!EnqueueCopy
  <2>2. launched' = launched
    BY <1>6 DEF Scan!EnqueueCopy
  <2>3. host' = host + 1 /\ ((host = 3 /\ name = "copyIn") \/ (host = 5 /\ name = "copyOut"))
    BY <2>1, CallIs
  <2>4. Course
    BY <2>3 DEF ScanInv
  <2>5. CASE host = 3
    <3>1. launched = FALSE /\ stream = <<>> /\ Fresh
      BY <2>4, <2>5 DEF Course
    <3>2. stream' = <<"copyIn">> /\ host' = 4 /\ launched' = FALSE
      BY <2>1, <2>2, <2>3, <2>5, <3>1
    <3>3. Course'
      BY <1>3, <3>1, <3>2 DEF Course
    <3>4. host' \in 0..10 /\ (launched' = TRUE \/ launched' = FALSE)
      BY <3>2
    <3> QED BY <1>8, <3>3, <3>4, CourseIsEnough
  <2>6. CASE host = 5
    <3>1. host' = 6 /\ stream' = Append(stream, "copyOut")
      BY <2>1, <2>3, <2>6
    <3>2. /\ stream = <<"copyIn", "launch">> => stream' = <<"copyIn", "launch", "copyOut">>
          /\ stream = <<"launch">> => stream' = <<"launch", "copyOut">>
          /\ stream = <<"copyIn">> => stream' = <<"copyIn", "copyOut">>
          /\ stream = <<>> => stream' = <<"copyOut">>
      <4>1. /\ Append(<<"copyIn", "launch">>, "copyOut") = <<"copyIn", "launch", "copyOut">>
            /\ Append(<<"launch">>, "copyOut") = <<"launch", "copyOut">>
            /\ Append(<<"copyIn">>, "copyOut") = <<"copyIn", "copyOut">>
            /\ Append(<<>>, "copyOut") = <<"copyOut">>
        BY AppendToOne, AppendToTwo
      <4> QED BY ONLY <3>1, <4>1, Zenon
    <3>3. CASE launched = FALSE
      <4>1. stream = <<"copyIn">> \/ stream = <<>>
        BY <2>4, <2>6, <3>3 DEF Course
      <4>2. stream' = <<"copyIn", "copyOut">> \/ stream' = <<"copyOut">>
        BY <3>2, <4>1
      <4>3. Course'
        BY <2>2, <3>1, <3>3, <4>2 DEF Course
      <4>4. host' \in 0..10 /\ (launched' = TRUE \/ launched' = FALSE)
        BY <2>2, <3>1, <3>3
      <4> QED BY <1>8, <4>3, <4>4, CourseIsEnough
    <3>4. CASE launched = TRUE
      <4>1. \/ stream = <<"copyIn", "launch">> /\ Fresh
            \/ stream = <<"launch">> /\ Filling
            \/ stream = <<>> /\ Computed
        BY <2>4, <2>6, <3>4 DEF Course
      <4>2. \/ stream' = <<"copyIn", "launch", "copyOut">> /\ Fresh'
            \/ stream' = <<"launch", "copyOut">> /\ Filling'
            \/ stream' = <<"copyOut">> /\ Computed'
        BY <1>3, <1>4, <1>5, <3>2, <4>1, Zenon
      <4>3. Course'
        BY <2>2, <3>1, <3>4, <4>2 DEF Course
      <4>4. host' \in 0..10 /\ (launched' = TRUE \/ launched' = FALSE)
        BY <2>2, <3>1, <3>4
      <4> QED BY <1>8, <4>3, <4>4, CourseIsEnough
    <3> QED BY <3>3, <3>4 DEF ScanInv
  <2> QED BY <2>3, <2>5, <2>6
<1>7. CASE Scan!Launch
  <2>1. Scan!Call("launch")
    BY <1>7 DEF Scan!Launch
  <2>2. host = 4 /\ host' = 5
    BY <2>1, CallIs
  <2>3. Course
    BY <2>2 DEF ScanInv
  <2>4. launched = FALSE /\ ((stream = <<"copyIn">> /\ Fresh) \/ (stream = <<>> /\ Filling))
    BY <2>2, <2>3 DEF Course
  <2>5. CASE UNCHANGED <<launched, stream>>
    <3>1. stream' \in {<<"copyIn">>, <<>>} /\ launched' = FALSE
      BY <2>4, <2>5
    <3>2. Course'
      BY <2>2, <3>1 DEF Course
    <3>3. host' \in 0..10 /\ (launched' = TRUE \/ launched' = FALSE)
      BY <2>2, <3>1
    <3> QED BY <1>8, <3>2, <3>3, CourseIsEnough
  <2>6. CASE launched' = TRUE /\ stream' = Append(stream, "launch")
    <3>1. /\ Append(<<"copyIn">>, "launch") = <<"copyIn", "launch">>
          /\ Append(<<>>, "launch") = <<"launch">>
      BY AppendToOne
    <3>2. \/ stream' = <<"copyIn", "launch">> /\ Fresh'
          \/ stream' = <<"launch">> /\ Filling'
      BY ONLY <1>3, <1>4, <2>4, <2>6, <3>1, Zenon
    <3>3. Course'
      BY <2>2, <2>6, <3>2 DEF Course
    <3>4. host' \in 0..10 /\ (launched' = TRUE \/ launched' = FALSE)
      BY <2>2, <2>6
    <3> QED BY <1>8, <3>3, <3>4, CourseIsEnough
  <2> QED BY <1>7, <2>5, <2>6 DEF Scan!Launch
<1> QED BY <1>6, <1>7

(* After a failed call the process is gone.                                 *)
LEMMA CallFailsKeeps == ASSUME ScanInv, Scan!CallFails PROVE ScanInv'
<1>1. host' = -1 /\ UNCHANGED <<dataSize, launched, wave>>
  BY DEF Scan!CallFails, Scan!Exited
<1>2. Scan!Waves' = Scan!Waves /\ launched' \in {TRUE, FALSE}
  BY <1>1, SameWindows DEF ScanInv
<1> QED BY <1>1, <1>2 DEF ScanInv

(* What runs, and what the stream holds when it has ended.                  *)
LEMMA RunningIs ==
  ASSUME ScanInv, NEW name \in {"copyIn", "launch", "copyOut"}, Scan!Running(name)
  PROVE  /\ host \in {4, 5, 6} /\ Course /\ host \in 0..10
         /\ name = "copyIn" =>
              \/ launched = FALSE /\ host = 4 /\ Tail(stream) = <<>> /\ Fresh
              \/ launched = FALSE /\ host = 5 /\ Tail(stream) = <<>>
              \/ launched = FALSE /\ host = 6 /\ Tail(stream) = <<"copyOut">>
              \/ launched = TRUE /\ host = 5 /\ Tail(stream) = <<"launch">> /\ Fresh
              \/ launched = TRUE /\ host = 6 /\ Tail(stream) = <<"launch", "copyOut">> /\ Fresh
         /\ name = "launch" =>
              /\ launched = TRUE /\ Filling
              /\ \/ host = 5 /\ stream = <<"launch">> /\ Tail(stream) = <<>>
                 \/ host = 6 /\ stream = <<"launch", "copyOut">> /\ Tail(stream) = <<"copyOut">>
         /\ name = "copyOut" =>
              /\ host = 6 /\ Tail(stream) = <<>>
              /\ launched = TRUE => Computed
<1>1. host # -1 /\ Course /\ stream # <<>> /\ Head(stream) = name
  BY DEF Scan!Running, Scan!Exited, ScanInv
<1>2. /\ Tail(<<"copyIn">>) = <<>> /\ Tail(<<"launch">>) = <<>> /\ Tail(<<"copyOut">>) = <<>>
      /\ Tail(<<"copyIn", "copyOut">>) = <<"copyOut">> /\ Tail(<<"copyIn", "launch">>) = <<"launch">>
      /\ Tail(<<"launch", "copyOut">>) = <<"copyOut">>
      /\ Tail(<<"copyIn", "launch", "copyOut">>) = <<"launch", "copyOut">>
  BY TailOfTwo, TailOfThree
<1>3. /\ Head(<<"copyIn">>) = "copyIn" /\ Head(<<"launch">>) = "launch" /\ Head(<<"copyOut">>) = "copyOut"
      /\ Head(<<"copyIn", "copyOut">>) = "copyIn" /\ Head(<<"copyIn", "launch">>) = "copyIn"
      /\ Head(<<"launch", "copyOut">>) = "launch" /\ Head(<<"copyIn", "launch", "copyOut">>) = "copyIn"
  OBVIOUS
<1>4. host \in {4, 5, 6}
  BY <1>1 DEF Course
<1>5. CASE host = 4
  <2>1. launched = FALSE /\ stream = <<"copyIn">> /\ Fresh
    BY <1>1, <1>5 DEF Course
  <2> QED BY <1>1, <1>2, <1>3, <1>5, <2>1
<1>6. CASE host = 5
  <2>1. \/ launched = FALSE /\ stream = <<"copyIn">>
        \/ launched = TRUE /\ stream = <<"copyIn", "launch">> /\ Fresh
        \/ launched = TRUE /\ stream = <<"launch">> /\ Filling
    BY <1>1, <1>6 DEF Course
  <2>2. CASE launched = FALSE /\ stream = <<"copyIn">>
    BY <1>1, <1>2, <1>3, <1>6, <2>2
  <2>3. CASE launched = TRUE /\ stream = <<"copyIn", "launch">> /\ Fresh
    BY <1>1, <1>2, <1>3, <1>6, <2>3
  <2>4. CASE launched = TRUE /\ stream = <<"launch">> /\ Filling
    BY <1>1, <1>2, <1>3, <1>6, <2>4
  <2> QED BY <2>1, <2>2, <2>3, <2>4
<1>7. CASE host = 6
  <2>1. \/ launched = FALSE /\ stream = <<"copyIn", "copyOut">>
        \/ launched = FALSE /\ stream = <<"copyOut">>
        \/ launched = TRUE /\ stream = <<"copyIn", "launch", "copyOut">> /\ Fresh
        \/ launched = TRUE /\ stream = <<"launch", "copyOut">> /\ Filling
        \/ launched = TRUE /\ stream = <<"copyOut">> /\ Computed
    BY <1>1, <1>7 DEF Course
  <2>2. CASE launched = FALSE /\ stream = <<"copyIn", "copyOut">>
    BY <1>1, <1>2, <1>3, <1>7, <2>2
  <2>3. CASE launched = FALSE /\ stream = <<"copyOut">>
    BY <1>1, <1>2, <1>3, <1>7, <2>3
  <2>4. CASE launched = TRUE /\ stream = <<"copyIn", "launch", "copyOut">> /\ Fresh
    BY <1>1, <1>2, <1>3, <1>7, <2>4
  <2>5. CASE launched = TRUE /\ stream = <<"launch", "copyOut">> /\ Filling
    BY <1>1, <1>2, <1>3, <1>7, <2>5
  <2>6. CASE launched = TRUE /\ stream = <<"copyOut">> /\ Computed
    BY <1>1, <1>2, <1>3, <1>7, <2>6
  <2> QED BY <2>1, <2>2, <2>3, <2>4, <2>5, <2>6
<1> QED BY <1>4, <1>5, <1>6, <1>7

(* The copy to the device runs before any wavefront has begun.              *)
LEMMA CopyInKeeps == ASSUME ScanInv, Scan!CopyIn PROVE ScanInv'
<1>1. /\ Scan!Running("copyIn") /\ stream' = Tail(stream) /\ d_in' = h_data
      /\ UNCHANGED <<dataSize, host, launched, h_data, d_out, wave>>
  BY DEF Scan!CopyIn
<1>2. dataSize' = dataSize /\ DOMAIN wave' = DOMAIN wave /\ Scan!Waves' = Scan!Waves /\ Scan!Elements' = Scan!Elements
  BY <1>1, SameWindows
<1>3. Fresh => Fresh' /\ Filling'
  BY <1>1, <1>2 DEF Fresh, Filling, Scan!Idle
<1>4. host' \in 0..10 /\ (launched' = TRUE \/ launched' = FALSE)
  BY <1>1, RunningIs
<1>5. \/ launched' = FALSE /\ host' = 4 /\ stream' = <<>> /\ Filling'
      \/ launched' = FALSE /\ host' = 5 /\ stream' = <<>>
      \/ launched' = FALSE /\ host' = 6 /\ stream' = <<"copyOut">>
      \/ launched' = TRUE /\ host' = 5 /\ stream' = <<"launch">> /\ Filling'
      \/ launched' = TRUE /\ host' = 6 /\ stream' = <<"launch", "copyOut">> /\ Filling'
  BY <1>1, <1>3, RunningIs
<1>6. Course'
  BY <1>5 DEF Course
<1> QED BY <1>2, <1>4, <1>6, CourseIsEnough

(* The copy to the host runs when every wavefront has ended, if any ran.    *)
LEMMA CopyOutKeeps == ASSUME ScanInv, Scan!CopyOut PROVE ScanInv'
<1>1. /\ Scan!Running("copyOut") /\ stream' = Tail(stream) /\ h_data' = d_out
      /\ UNCHANGED <<dataSize, host, launched, d_in, d_out, wave>>
  BY DEF Scan!CopyOut
<1>2. dataSize' = dataSize /\ DOMAIN wave' = DOMAIN wave /\ Scan!Elements' = Scan!Elements
  BY <1>1, SameWindows
<1>3. Computed => Returned'
  BY <1>1, <1>2 DEF Computed, Returned, Prefix
<1>4. launched = TRUE \/ launched = FALSE
  BY DEF ScanInv
<1>5. host' = 6 /\ stream' = <<>> /\ (launched' = TRUE => Returned') /\ (launched' = TRUE \/ launched' = FALSE)
  BY <1>1, <1>3, <1>4, RunningIs
<1>6. Course' /\ host' \in 0..10
  BY <1>5 DEF Course
<1> QED BY <1>2, <1>5, <1>6, CourseIsEnough

(* The kernel's steps leave the stream alone.                               *)
LEMMA FillingIsEnough ==
  ASSUME ScanInv, Scan!Running("launch"), Filling', UNCHANGED <<dataSize, host, stream, launched>>,
         DOMAIN wave' = DOMAIN wave
  PROVE  ScanInv'
<1>1. host \in 0..10 /\ launched = TRUE
      /\ ((host = 5 /\ stream = <<"launch">>) \/ (host = 6 /\ stream = <<"launch", "copyOut">>))
  BY RunningIs
<1>2. Course'
  BY <1>1 DEF Course
<1>3. host' \in 0..10 /\ (launched' = TRUE \/ launched' = FALSE) /\ dataSize' = dataSize
  BY <1>1
<1> QED BY <1>2, <1>3, CourseIsEnough

(* The kernel ends when every element has been written.                     *)
LEMMA KernelEndsKeeps == ASSUME ScanInv, Scan!KernelEnds PROVE ScanInv'
<1>1. /\ Scan!Running("launch") /\ (\A w \in Scan!Waves : Scan!Ended(w)) /\ stream' = Tail(stream)
      /\ UNCHANGED <<dataSize, host, launched, h_data, d_in, d_out, wave>>
  BY DEF Scan!KernelEnds
<1>2. dataSize' = dataSize /\ DOMAIN wave' = DOMAIN wave /\ Scan!Elements' = Scan!Elements
  BY <1>1, SameWindows
<1>3. Filling /\ launched = TRUE /\ dataSize \in ScanSizes
      /\ ((host = 5 /\ Tail(stream) = <<>>) \/ (host = 6 /\ Tail(stream) = <<"copyOut">>))
  BY <1>1, RunningIs DEF ScanInv
<1>4. Computed
  <2> SUFFICES ASSUME NEW t \in Scan!Elements PROVE d_out[t] = Prefix(t)
    BY DEF Computed
  <2> DEFINE w == t \div warpSize
  <2>1. w \in Scan!Waves
    BY <1>3, WaveOf DEF Scan!Elements
  <2>2. t \div warpSize = w
    OBVIOUS
  <2> HIDE DEF w
  <2>3. Stored(w)
    <3>1. Scan!Ended(w) /\ warpSize \in Nat \ {0}
      BY <1>1, <2>1, ScanConstants
    <3>2. wave[w] # Scan!Idle /\ ~Adding(w)
      BY <3>1 DEF Scan!Ended, Scan!Idle, Adding
    <3> QED BY <1>3, <2>1, <3>2 DEF Filling
  <2> QED BY <2>2, <2>3 DEF Stored
<1>5. Computed'
  BY <1>1, <1>2, <1>4 DEF Computed, Prefix
<1>6. host' \in 0..10 /\ (launched' = TRUE \/ launched' = FALSE)
  BY <1>1, <1>3
<1>7. Course'
  BY <1>1, <1>3, <1>5 DEF Course
<1> QED BY <1>2, <1>6, <1>7, CourseIsEnough

(* A wavefront that does its next step leaves the others as they are.       *)
LEMMA WaveKeeps ==
  ASSUME ScanInv, NEW w \in Scan!Waves, NEW new, Scan!Running("launch"),
         UNCHANGED <<dataSize, host, stream, launched, h_data, d_in>>,
         wave' = [wave EXCEPT ![w] = new],
         \A v \in Scan!Waves : v # w /\ Stored(v) => \A t \in Scan!Elements : t \div warpSize = v => d_out'[t] = d_out[t],
         Adding(w)' \/ Stored(w)'
  PROVE  ScanInv'
<1>1. Filling /\ DOMAIN wave = Scan!Waves
  BY RunningIs DEF ScanInv
<1>2. DOMAIN wave' = DOMAIN wave /\ \A v \in Scan!Waves : v # w => wave'[v] = wave[v]
  BY <1>1
<1>3. dataSize' = dataSize /\ d_in' = d_in
  OBVIOUS
<1>4. \A v, lane, offset : Window(v, lane, offset)' = Window(v, lane, offset)
  BY <1>3, SameWindows
<1>5. Scan!Waves' = Scan!Waves /\ Scan!Elements' = Scan!Elements
  BY <1>3, SameWindows
<1>6. ASSUME NEW v \in Scan!Waves, v # w PROVE wave'[v] = Scan!Idle \/ Adding(v)' \/ Stored(v)'
  <2>1. wave'[v] = wave[v]
    BY <1>2, <1>6
  <2>2. wave[v] = Scan!Idle \/ Adding(v) \/ Stored(v)
    BY <1>1 DEF Filling
  <2>3. CASE Adding(v)
    BY <1>4, <2>1, <2>3 DEF Adding
  <2>4. CASE Stored(v)
    BY <1>5, <1>6, <2>1, <2>4 DEF Stored, Scan!Ended, Prefix
  <2> QED BY <2>1, <2>2, <2>3, <2>4
<1>7. Filling'
  <2>1. d_in' = [t \in Scan!Elements' |-> Input[t]]
    BY <1>1, <1>3, <1>5 DEF Filling
  <2>2. \A v \in Scan!Waves' : wave'[v] = Scan!Idle \/ Adding(v)' \/ Stored(v)'
    BY <1>5, <1>6
  <2> QED BY <2>1, <2>2 DEF Filling, Scan!Idle
<1> QED BY <1>2, <1>7, FillingIsEnough

(* The lanes load their elements, those behind the end of the data nothing. *)
LEMMA LoadWaveKeeps ==
  ASSUME ScanInv, NEW w \in Scan!Waves, Scan!LoadWave(w)
  PROVE  ScanInv'
<1> DEFINE val == [lane \in Scan!Lanes |->
                    IF Scan!tid(w, lane) < dataSize THEN d_in[Scan!tid(w, lane)] ELSE 0]
           new == [offset |-> 1, val |-> val]
<1>1. /\ Scan!Running("launch") /\ wave' = [wave EXCEPT ![w] = new]
      /\ UNCHANGED <<dataSize, host, stream, launched, h_data, d_in, d_out>>
  BY DEF Scan!LoadWave
<1>2. dataSize \in ScanSizes /\ DOMAIN wave = Scan!Waves /\ d_in = [t \in Scan!Elements |-> Input[t]]
  BY <1>1, RunningIs DEF ScanInv, Filling
<1>3. dataSize \in Nat /\ warpSize \in Nat \ {0} /\ w \in Nat
  <2>1. w \in Nat
    BY DEF Scan!Waves
  <2> QED BY <1>2, <2>1, FilledIs, ScanConstants
<1>4. val = [lane \in Scan!Lanes |-> Window(w, lane, 1)]
  <2> SUFFICES ASSUME NEW lane \in Scan!Lanes PROVE val[lane] = Window(w, lane, 1)
    OBVIOUS
  <2> DEFINE x == w * warpSize + lane
  <2>1. lane \in Nat /\ x \in Nat
    BY <1>3 DEF Scan!Lanes
  <2>2. val[lane] = IF x < dataSize THEN d_in[x] ELSE 0
    BY DEF Scan!tid
  <2>3. Window(w, lane, 1) = Filled[x]
    BY <1>2, <1>3, <2>1, FirstWindow
  <2> HIDE DEF x, val
  <2>4. x < dataSize => x \in Scan!Elements
    BY <1>3, <2>1 DEF Scan!Elements
  <2>5. Filled[x] = IF x < dataSize THEN Input[x] ELSE 0
    BY <2>1 DEF Filled
  <2>6. x < dataSize => d_in[x] = Input[x]
    BY <1>2, <2>4
  <2> QED BY <2>2, <2>3, <2>5, <2>6
<1> HIDE DEF val
<1>5. Adding(w)'
  <2>1. wave'[w] = new
    BY <1>1, <1>2
  <2>2. wave'[w].offset = 1 /\ wave'[w].val = val
    BY <2>1
  <2>3. \A lane : Window(w, lane, 1)' = Window(w, lane, 1)
    BY <1>1, SameWindows
  <2>4. 1 \in 1..(2 * warpSize - 1)
    BY <1>3
  <2> QED BY <1>4, <2>2, <2>3, <2>4 DEF Adding
<1> QED BY <1>1, <1>5, WaveKeeps

(* A turn of the loop.                                                      *)
LEMMA ShiftWaveKeeps ==
  ASSUME ScanInv, NEW w \in Scan!Waves, Scan!ShiftWave(w)
  PROVE  ScanInv'
<1> DEFINE offset == wave[w].offset  val == wave[w].val
           new == [offset |-> 2 * offset, val |-> Scan!Shifted(val, offset)]
<1>1. /\ Scan!Running("launch") /\ wave' = [wave EXCEPT ![w] = new] /\ offset \in 1..(warpSize - 1)
      /\ UNCHANGED <<dataSize, host, stream, launched, h_data, d_in, d_out>>
  BY DEF Scan!ShiftWave
<1>2. dataSize \in ScanSizes /\ DOMAIN wave = Scan!Waves /\ warpSize \in Nat \ {0} /\ w \in Nat
  <2>1. w \in Nat
    BY DEF Scan!Waves
  <2> QED BY <2>1, ScanConstants DEF ScanInv
<1>3. val = [lane \in Scan!Lanes |-> Window(w, lane, offset)]
  <2>1. wave[w] = Scan!Idle \/ Adding(w) \/ Stored(w)
    BY <1>1, RunningIs DEF Filling
  <2>2. wave[w] # Scan!Idle /\ ~Scan!Ended(w)
    BY <1>1, <1>2 DEF Scan!Idle, Scan!Ended
  <2> QED BY <2>1, <2>2 DEF Adding, Stored
<1> HIDE DEF offset, val
<1>4. Scan!Shifted(val, offset) = [lane \in Scan!Lanes |-> Window(w, lane, 2 * offset)]
  <2> SUFFICES ASSUME NEW lane \in Scan!Lanes
               PROVE  (IF lane >= offset THEN val[lane] + val[lane - offset] ELSE val[lane])
                        = Window(w, lane, 2 * offset)
    BY DEF Scan!Shifted
  <2>1. lane \in Nat /\ offset \in Nat \ {0}
    BY <1>1, <1>2 DEF Scan!Lanes
  <2>2. Window(w, lane, 2 * offset) =
          IF lane >= offset THEN Window(w, lane, offset) + Window(w, lane - offset, offset)
                            ELSE Window(w, lane, offset)
    BY <1>2, <2>1, WindowGrows
  <2>3. lane >= offset => lane - offset \in Scan!Lanes
    BY <1>2, <2>1 DEF Scan!Lanes
  <2> QED BY <1>3, <2>2, <2>3
<1>5. Adding(w)'
  <2>1. wave'[w] = new
    BY <1>1, <1>2
  <2>2. wave'[w].offset = 2 * offset /\ wave'[w].val = Scan!Shifted(val, offset)
    BY <2>1
  <2>3. \A lane, x : Window(w, lane, x)' = Window(w, lane, x)
    BY <1>1, SameWindows
  <2>4. 2 * offset \in 1..(2 * warpSize - 1)
    BY <1>1, <1>2
  <2> QED BY <1>4, <2>2, <2>3, <2>4 DEF Adding
<1> HIDE DEF new
<1> QED BY <1>1, <1>5, WaveKeeps

(* The lanes within the data write what they have: all that is before them. *)
LEMMA StoreWaveKeeps ==
  ASSUME ScanInv, NEW w \in Scan!Waves, Scan!StoreWave(w)
  PROVE  ScanInv'
<1> DEFINE new == [offset |-> 2 * warpSize, val |-> <<>>]
<1>1. /\ Scan!Running("launch") /\ wave' = [wave EXCEPT ![w] = new]
      /\ wave[w].offset >= warpSize /\ ~Scan!Ended(w)
      /\ d_out' = [t \in Scan!Elements |-> IF t \div warpSize = w THEN wave[w].val[t % warpSize] ELSE d_out[t]]
      /\ UNCHANGED <<dataSize, host, stream, launched, h_data, d_in>>
  BY DEF Scan!StoreWave
<1>2. dataSize \in ScanSizes /\ DOMAIN wave = Scan!Waves /\ warpSize \in Nat \ {0}
  BY ScanConstants DEF ScanInv
<1>3. Adding(w)
  <2>1. wave[w] = Scan!Idle \/ Adding(w) \/ Stored(w)
    BY <1>1, RunningIs DEF Filling
  <2>2. wave[w] # Scan!Idle
    BY <1>1, <1>2 DEF Scan!Idle
  <2> QED BY <1>1, <2>1, <2>2 DEF Stored
<1>4. ASSUME NEW t \in Scan!Elements, t \div warpSize = w PROVE d_out'[t] = Prefix(t)
  <2>1. d_out'[t] = wave[w].val[t % warpSize]
    BY <1>1, <1>4
  <2> DEFINE offset == wave[w].offset
  <2>2. wave[w].val = [lane \in Scan!Lanes |-> Window(w, lane, offset)] /\ offset \in Nat /\ offset >= warpSize
    BY <1>1, <1>2, <1>3 DEF Adding
  <2> HIDE DEF offset
  <2>3. t % warpSize \in Scan!Lanes /\ Window(t \div warpSize, t % warpSize, offset) = Prefix(t)
    BY <1>2, <2>2, LastWindow DEF Scan!Elements, Prefix
  <2> QED BY <1>4, <2>1, <2>2, <2>3
<1>5. Stored(w)'
  <2>1. wave'[w] = new /\ Scan!Elements' = Scan!Elements
    BY <1>1, <1>2, SameWindows
  <2>2. wave'[w].offset = 2 * warpSize
    BY <2>1
  <2> QED BY <1>4, <2>1, <2>2 DEF Stored, Scan!Ended, Prefix
<1>6. \A v \in Scan!Waves : v # w /\ Stored(v) => \A t \in Scan!Elements : t \div warpSize = v => d_out'[t] = d_out[t]
  BY <1>1
<1> HIDE DEF new
<1> QED BY <1>1, <1>5, <1>6, WaveKeeps

(* So it always holds.                                                      *)
LEMMA ScanInductive == Spec => []ScanInv
<1>1. Init => ScanInv
  <2> SUFFICES ASSUME Init PROVE ScanInv
    OBVIOUS
  <2>1. /\ dataSize \in ScanSizes /\ host = 0 /\ stream = <<>> /\ launched = FALSE
        /\ h_data = [t \in Scan!Elements |-> Input[t]] /\ wave = [w \in Scan!Waves |-> Scan!Idle]
    BY DEF Init, Scan!Init
  <2>2. Fresh
    BY <2>1 DEF Fresh
  <2>3. Course
    BY <2>1, <2>2 DEF Course
  <2>4. DOMAIN wave = Scan!Waves
    BY <2>1
  <2>5. host \in 0..10 \union {-1}
    BY <2>1
  <2>6. launched \in {TRUE, FALSE}
    BY <2>1, Zenon
  <2> QED BY <2>1, <2>3, <2>4, <2>5, <2>6, Zenon DEF ScanInv
<1>2. ScanInv /\ [Next]_all => ScanInv'
  <2> SUFFICES ASSUME ScanInv, [Scan!Next]_scanVars PROVE ScanInv'
    BY ScanStep DEF all, devices, scanVars
  <2>1. CASE Scan!Host
    BY <2>1, CallReturnsKeeps, EnqueueKeeps, CallFailsKeeps DEF Scan!Host
  <2>2. ASSUME NEW w \in Scan!Waves, Scan!Wave(w) PROVE ScanInv'
    BY <2>2, LoadWaveKeeps, ShiftWaveKeeps, StoreWaveKeeps DEF Scan!Wave
  <2>3. CASE Scan!Device
    BY <2>2, <2>3, CopyInKeeps, CopyOutKeeps, KernelEndsKeeps DEF Scan!Device
  <2>4. CASE UNCHANGED scanVars
    <3>1. UNCHANGED <<dataSize, host, stream, launched, h_data, d_in, d_out, wave>>
      BY <2>4 DEF scanVars
    <3>2. Scan!Waves' = Scan!Waves /\ Scan!Elements' = Scan!Elements
      BY <3>1, SameWindows
    <3>3. Course => Course'
      <4>1. \A w, lane, x : Window(w, lane, x)' = Window(w, lane, x)
        BY <3>1, SameWindows
      <4>2. \A w : (Adding(w)' <=> Adding(w)) /\ (Stored(w)' <=> Stored(w))
        BY <3>1, <3>2, <4>1 DEF Adding, Stored, Scan!Ended, Prefix
      <4>3. (Fresh => Fresh') /\ (Computed => Computed') /\ (Returned => Returned')
        BY <3>1, <3>2 DEF Fresh, Computed, Returned, Prefix, Scan!Idle
      <4>4. Filling => Filling'
        BY <3>1, <3>2, <4>2 DEF Filling, Scan!Idle
      <4> QED BY <3>1, <4>3, <4>4 DEF Course
    <3> QED BY <3>1, <3>2, <3>3 DEF ScanInv
  <2> QED BY <2>1, <2>3, <2>4 DEF Scan!Next, Scan!Rest, Scan!vars, scanVars
<1> QED BY <1>1, <1>2, PTL DEF Spec

(* However much data there is, whatever the sizes of block and wavefront    *)
(* and the order of the wavefronts: once synchronized, the stream is empty, *)
(* and if the kernel was accepted every element of h_data is the sum of its *)
(* wavefront up to and with it.                                             *)
THEOREM ScansAreExact == Spec => []ScanIsExact
<1>1. ScanInv => ScanIsExact
  <2> SUFFICES ASSUME ScanInv, Scan!Synchronized PROVE stream = <<>> /\ (launched => Returned)
    BY ScanSum DEF ScanIsExact, Scan!ScanIsExact, Returned, Prefix
  <2>1. host \in 7..10 /\ Course
    BY DEF ScanInv, Scan!Synchronized
  <2>2. stream = <<>> /\ (launched = TRUE => Returned)
    BY <2>1 DEF Course
  <2> QED BY <2>2
<1> QED BY <1>1, ScanInductive, PTL
=============================================================================
