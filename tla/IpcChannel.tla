----------------------------- MODULE IpcChannel -----------------------------
(* The shared-memory queue of                                               *)
(* 02-High-Frequency-Trading-Engine/inter-process-communication.rs between  *)
(* a publishing and a consuming process, either of which may be started     *)
(* first.  A producer that is restarted sets the region to zero again.  An  *)
(* acquire load may return any value of the other's index since the last    *)
(* load.  A signal is its number in the order of the publish() calls, the   *)
(* all-zero SignalPayload is 0, and usize is counted modulo IndexModulus.   *)
EXTENDS Integers, Sequences

CONSTANTS CAPACITY,
          IndexModulus,  \* 2^64 in the code
          Signals,       \* bound: how many publish() calls are made
          Restarts       \* bound: how often the producer process is restarted

ChannelAssumption ==
  /\ CAPACITY \in Nat \ {0} /\ IndexModulus \in Nat /\ IndexModulus > CAPACITY
  /\ Signals \in Nat /\ Restarts \in Nat
  \* a power of 2, or else the indices must never wrap
  /\ IndexModulus % CAPACITY = 0 \/ Signals < IndexModulus

VARIABLES
  mapped,     \* the region has its size: a producer has called ftruncate
  buffer, write_index, read_index,
  publish,    \* where the producer is: not started, or a step of publish()
  seen_read,  \* current_read of publish()
  calls,      \* publish() calls made
  published,  \* the signals for which publish() returned true
  restarts,
  consume,    \* where the consumer is
  current_read, payload,  \* locals of consume()
  consumed    \* the payloads consume() has returned

producer == <<publish, seen_read, calls, published, restarts>>
consumer == <<consume, current_read, payload, consumed>>
vars == <<mapped, buffer, write_index, read_index, producer, consumer>>

Indices == 0..(IndexModulus - 1)
Zeroed == [s \in 0..(CAPACITY - 1) |-> 0]

(* Indices wrap within their width, and slots hold payloads or zero.        *)
TypeOK ==
  /\ mapped \in BOOLEAN
  /\ buffer \in [0..(CAPACITY - 1) -> 0..Signals]
  /\ write_index \in Indices /\ read_index \in Indices /\ seen_read \in Indices
  /\ publish \in {"off", "load", "write", "store"} /\ calls \in 0..Signals
  /\ published \in Seq(1..Signals) /\ restarts \in 0..Restarts
  /\ consume \in {"off", "load", "read", "store", "killed"}
  /\ current_read \in Indices /\ payload \in 0..Signals /\ consumed \in Seq(0..Signals)

Init ==
  /\ mapped = FALSE /\ buffer = Zeroed /\ write_index = 0 /\ read_index = 0
  /\ publish = "off" /\ seen_read = 0 /\ calls = 0 /\ published = <<>> /\ restarts = 0
  /\ consume = "off" /\ current_read = 0 /\ payload = 0 /\ consumed = <<>>

-----------------------------------------------------------------------------
(* new(name, true) *)
OpenAsProducer ==
  /\ mapped' = TRUE
  /\ buffer' = Zeroed /\ write_index' = 0 /\ read_index' = 0
  /\ publish' = "load" /\ seen_read' = 0
  /\ UNCHANGED <<calls, published, consumer>>

NewProducer == publish = "off" /\ OpenAsProducer /\ UNCHANGED restarts

(* A new process takes the place of a producer that has died. *)
RestartProducer ==
  publish # "off" /\ restarts < Restarts /\ restarts' = restarts + 1 /\ OpenAsProducer

(* new(name, false): maps the region whatever its size.                     *)
NewConsumer ==
  /\ consume = "off" /\ consume' = "load"
  /\ UNCHANGED <<mapped, buffer, write_index, read_index, current_read, payload, consumed, producer>>

Visible(seen, index) ==
  {(seen + d) % IndexModulus : d \in 0..((index - seen) % IndexModulus)}

Full(read) == (write_index - read) % IndexModulus >= CAPACITY

(* A full queue drops the signal. *)
PublishLoad ==
  /\ publish = "load" /\ calls < Signals
  /\ calls' = calls + 1
  /\ \E read \in Visible(seen_read, read_index) :
       /\ seen_read' = read
       /\ publish' = IF Full(read) THEN "load" ELSE "write"
  /\ UNCHANGED <<mapped, buffer, write_index, read_index, published, restarts, consumer>>

PublishWrite ==
  /\ publish = "write"
  /\ buffer' = [buffer EXCEPT ![write_index % CAPACITY] = calls]
  /\ publish' = "store"
  /\ UNCHANGED <<mapped, write_index, read_index, seen_read, calls, published, restarts, consumer>>

PublishStore ==
  /\ publish = "store"
  /\ write_index' = (write_index + 1) % IndexModulus
  /\ published' = Append(published, calls) /\ publish' = "load"
  /\ UNCHANGED <<mapped, buffer, read_index, seen_read, calls, restarts, consumer>>

-----------------------------------------------------------------------------

(* The load of write_index may be stale, down to the reader's own index.    *)
ConsumeLoad ==
  /\ consume = "load" /\ mapped
  /\ current_read' = read_index
  /\ \E write \in Visible(read_index, write_index) :
       consume' = IF read_index = write THEN "load" ELSE "read"
  /\ UNCHANGED <<mapped, buffer, write_index, read_index, payload, consumed, producer>>

(* A region without a size cannot be touched: SIGBUS. *)
ConsumeUnmapped ==
  /\ consume = "load" /\ ~mapped /\ consume' = "killed"
  /\ UNCHANGED <<mapped, buffer, write_index, read_index, current_read, payload, consumed, producer>>

ConsumeRead ==
  /\ consume = "read"
  /\ payload' = buffer[current_read % CAPACITY] /\ consume' = "store"
  /\ UNCHANGED <<mapped, buffer, write_index, read_index, current_read, consumed, producer>>

(* mutant: the index moves past a signal that was not read *)
ConsumeStoreSkips ==
  /\ consume = "store"
  /\ read_index' = (current_read + 2) % IndexModulus
  /\ consumed' = Append(consumed, payload) /\ consume' = "load"
  /\ UNCHANGED <<mapped, buffer, write_index, current_read, payload, producer>>

ConsumeStore ==
  /\ consume = "store"
  /\ read_index' = (current_read + 1) % IndexModulus
  /\ consumed' = Append(consumed, payload) /\ consume' = "load"
  /\ UNCHANGED <<mapped, buffer, write_index, current_read, payload, producer>>

Producer == NewProducer \/ PublishLoad \/ PublishWrite \/ PublishStore
Consumer == NewConsumer \/ ConsumeLoad \/ ConsumeUnmapped \/ ConsumeRead \/ ConsumeStore

Next == Producer \/ Consumer

Spec == Init /\ [][Next]_vars
RestartingSpec == Init /\ [][Next \/ RestartProducer]_vars

-----------------------------------------------------------------------------
(* A slot is never written while the other process may be reading it.       *)
NoSlotRace ==
  ~(publish = "write" /\ consume = "read" /\ write_index % CAPACITY = current_read % CAPACITY)

(* The signals between read_index and write_index are the queue. *)
Queue == [k \in 1..((write_index - read_index) % IndexModulus) |->
            buffer[((read_index + k - 1) % IndexModulus) % CAPACITY]]

Fifo == INSTANCE BoundedFifo WITH
  Capacity <- CAPACITY, Items <- 1..Signals, queue <- Queue, received <- consumed

(* The channel implements a bounded FIFO queue, whatever publish() drops.   *)
ImplementsBoundedFifo == Fifo!Spec

(* Line 97, "the reader sees the payload *before* seeing the updated        *)
(* index": also when the producer restarts, nothing comes out that was      *)
(* never put in.                                                            *)
ReaderSeesPayload == \A k \in 1..Len(consumed) : consumed[k] # 0
=============================================================================
