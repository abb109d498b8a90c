---------------------------- MODULE LmaxDisruptor ----------------------------
(* The disruptor of                                                         *)
(* 02-High-Frequency-Trading-Engine/LmaxDisruptorSimulator.java with the    *)
(* producer and the consumer thread of main.  Trade n, counted from 1, gets *)
(* sequence n - 1.  The event's fields are plain Java memory and publish    *)
(* announces a sequence before it writes them.                              *)
EXTENDS Naturals

CONSTANTS Capacity,   \* 1024 in main
          Trades      \* 50000 in main

DisruptorAssumption == Capacity \in Nat \ {0} /\ Trades \in Nat

VARIABLES
  entries,            \* entries[s][f]: the trade that last wrote field f of slot s
  producerSequence, consumerSequence,
  publish,            \* the step of publish(), which works on producerSequence - 1
  gate,               \* the consumerSequence the producer has last seen
  consume,            \* the step of consume()
  event               \* the fields consume() has read of its event

vars == <<entries, producerSequence, consumerSequence, publish, gate, consume, event>>

Fields == {"quantity", "symbol"}    \* price is never read
Blank == [f \in Fields |-> 0]       \* a pre-allocated TradeEvent

(* Sequences never pass the number of trades; slots hold trades or blanks.  *)
TypeOK ==
  /\ entries \in [0..(Capacity - 1) -> [Fields -> 0..Trades]]
  /\ producerSequence \in 0..Trades /\ consumerSequence \in 0..Trades
  /\ gate \in 0..Trades
  /\ publish \in {"claim", "wait"} \union Fields
  /\ consume \in {"wait"} \union Fields
  /\ event \in [Fields -> 0..Trades]

Init ==
  /\ entries = [s \in 0..(Capacity - 1) |-> Blank]
  /\ producerSequence = 0 /\ consumerSequence = 0
  /\ publish = "claim" /\ gate = 0
  /\ consume = "wait" /\ event = Blank

-----------------------------------------------------------------------------
Slot(sequence) == sequence % Capacity           \* sequence & mask
Claimed == producerSequence - 1

(* getAndIncrement() *)
Claim ==
  /\ publish = "claim" /\ producerSequence < Trades
  /\ producerSequence' = producerSequence + 1 /\ publish' = "wait"
  /\ UNCHANGED <<entries, consumerSequence, gate, consume, event>>

(* mutant: the gate lets the producer in one event early *)
GateOpenEarly(seen) == Claimed - seen <= Capacity
GateOpen(seen) == Claimed - seen < Capacity

(* The spin on consumerSequence, whose lazySet may become visible late.     *)
WaitForConsumer(seen) ==
  /\ publish = "wait"
  /\ gate' = seen
  /\ publish' = IF GateOpen(seen) THEN "quantity" ELSE "wait"
  /\ UNCHANGED <<entries, producerSequence, consumerSequence, consume, event>>

WriteField(f) ==
  /\ publish = f
  /\ entries' = [entries EXCEPT ![Slot(Claimed)][f] = Claimed + 1]
  /\ publish' = IF f = "quantity" THEN "symbol" ELSE "claim"
  /\ UNCHANGED <<producerSequence, consumerSequence, gate, consume, event>>

(* The spin on producerSequence. *)
WaitForProducer ==
  /\ consume = "wait" /\ consumerSequence < producerSequence
  /\ consume' = "quantity"
  /\ UNCHANGED <<entries, producerSequence, consumerSequence, publish, gate, event>>

(* A plain read that races with the write of its own sequence may return    *)
(* the value before it, that of the previous lap, even when the write is    *)
(* done; older values are ordered before by getAndIncrement().              *)
PreviousLap(sequence) == IF sequence < Capacity THEN 0 ELSE sequence + 1 - Capacity

(* mutant: the consumer does not advance *)
FinishWithoutAdvance == UNCHANGED consumerSequence
Finish == consumerSequence' = consumerSequence + 1

ReadField(f) ==
  /\ consume = f
  /\ \E v \in {entries[Slot(consumerSequence)][f], PreviousLap(consumerSequence)} :
       event' = [event EXCEPT ![f] = v]
  /\ IF f = "quantity" THEN consume' = "symbol" /\ UNCHANGED consumerSequence
                       ELSE consume' = "wait" /\ Finish
  /\ UNCHANGED <<entries, producerSequence, publish, gate>>

Producer == \/ Claim \/ (\E seen \in gate..consumerSequence : WaitForConsumer(seen))
            \/ \E f \in Fields : WriteField(f)
Consumer == WaitForProducer \/ \E f \in Fields : ReadField(f)

Ended == consumerSequence = Trades /\ publish = "claim" /\ UNCHANGED vars

Next == Producer \/ Consumer \/ Ended

(* Both threads run, and a lazySet becomes visible in the end.              *)
Fairness ==
  /\ WF_vars(Producer) /\ SF_vars(WaitForConsumer(consumerSequence))
  /\ WF_vars(Consumer)

Spec == Init /\ [][Next]_vars /\ Fairness

-----------------------------------------------------------------------------
(* The producer never writes an event the consumer has yet to read for an   *)
(* earlier sequence, however late it learns of the consumer's progress.     *)
NoLapOverwrite ==
  publish \in Fields => \A s \in consumerSequence..(Claimed - 1) : Slot(s) # Slot(Claimed)

AtEnd == consumerSequence = Trades /\ publish = "claim"

(* Every trade of main is consumed and both threads end: neither spin waits *)
(* for ever.                                                                *)
AllConsumed == <>AtEnd

(* Line 58: "Spin until the producer has moved past our target sequence":   *)
(* what consume() then prints is the trade published under that sequence.   *)
ConsumesItsTrade ==
  [][consumerSequence' # consumerSequence =>
       \A f \in Fields : event'[f] = consumerSequence + 1]_vars
=============================================================================
