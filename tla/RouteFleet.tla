----------------------------- MODULE RouteFleet -----------------------------
(* route_fleet of                                                           *)
(* 06-Platform-Engineering-and-Gateways/grpc-bidirectional-streaming-microservice.rs: *)
(* a task answers each location of the inbound stream with an instruction,  *)
(* pushed through a bounded channel to the outbound stream.  The client and *)
(* the connection, which the code uses through tonic, are modelled as the   *)
(* code sees them.                                                          *)
EXTENDS Integers, Sequences

CONSTANTS Locations,     \* how many locations a client sends at most
          Capacity,      \* of mpsc::channel, 128
          Window         \* locations in flight: HTTP/2 flow control

RouteFleetAssumption ==
  /\ Locations \in Nat /\ Capacity \in Nat \ {0} /\ Window \in Nat \ {0}

VARIABLES
  sent,      \* how many locations the client has sent
  closed,    \* the client has ended its half of the stream
  inbound,   \* inbound_stream: location numbers, or Error
  task,      \* the spawned task: "next", "send" or "over"
  location,  \* the location it is answering
  channel,   \* instructions between tx and rx
  rx,        \* "open" or "dropped", with the outbound stream
  received,  \* the instructions the client has got
  ended      \* the client has seen the end of the outbound stream

vars == <<sent, closed, inbound, task, location, channel, rx, received, ended>>

Error == 0
Instruction(n) == <<"cmd", n>>

(* The channel never holds more than its capacity.                          *)
TypeOK ==
  /\ sent \in 0..Locations /\ closed \in BOOLEAN
  /\ inbound \in Seq(0..Locations)
  /\ task \in {"next", "send", "over"} /\ location \in 0..Locations
  /\ channel \in Seq({Instruction(n) : n \in 1..Locations}) /\ Len(channel) <= Capacity
  /\ rx \in {"open", "dropped"}
  /\ received \in Seq({Instruction(n) : n \in 1..Locations}) /\ ended \in BOOLEAN

Init ==
  /\ sent = 0 /\ closed = FALSE /\ inbound = <<>>
  /\ task = "next" /\ location = 0
  /\ channel = <<>> /\ rx = "open"
  /\ received = <<>> /\ ended = FALSE

-----------------------------------------------------------------------------
(* The client sends a location. *)
ClientSend ==
  /\ ~closed /\ sent < Locations /\ Len(inbound) < Window
  /\ sent' = sent + 1 /\ inbound' = Append(inbound, sent')
  /\ UNCHANGED <<closed, task, location, channel, rx, received, ended>>

(* The client has no more to send. *)
ClientClose ==
  /\ ~closed /\ closed' = TRUE
  /\ UNCHANGED <<sent, inbound, task, location, channel, rx, received, ended>>

(* A frame cannot be read: an Err is the last item of the stream. *)
ReadFails ==
  /\ ~closed /\ closed' = TRUE
  /\ inbound' = Append(inbound, Error)
  /\ UNCHANGED <<sent, task, location, channel, rx, received, ended>>

(* The connection is lost: tonic drops the outbound stream, and the inbound *)
(* one ends with an error.                                                  *)
Disconnect ==
  /\ rx = "open" /\ ~ended
  /\ rx' = "dropped" /\ channel' = <<>>
  /\ closed' = TRUE /\ inbound' = IF closed THEN inbound ELSE Append(inbound, Error)
  /\ UNCHANGED <<sent, task, location, received, ended>>

-----------------------------------------------------------------------------
(* inbound_stream.next().await yields an item. *)
NextItem ==
  /\ task = "next" /\ inbound # <<>>
  /\ inbound' = Tail(inbound)
  /\ IF Head(inbound) = Error
       THEN task' = "over" /\ UNCHANGED location
       ELSE location' = Head(inbound) /\ task' = "send"
  /\ UNCHANGED <<sent, closed, channel, rx, received, ended>>

(* mutant: the task keeps polling an ended stream *)
NextNonePolling == task = "next" /\ inbound = <<>> /\ closed /\ UNCHANGED vars

(* It yields None, and the loop ends. *)
NextNone ==
  /\ task = "next" /\ inbound = <<>> /\ closed
  /\ task' = "over"
  /\ UNCHANGED <<sent, closed, inbound, location, channel, rx, received, ended>>

(* tx.send(...).await: it waits for room in the channel. *)
SendInstruction ==
  /\ task = "send" /\ rx = "open" /\ Len(channel) < Capacity
  /\ channel' = Append(channel, Instruction(location)) /\ task' = "next"
  /\ UNCHANGED <<sent, closed, inbound, location, rx, received, ended>>

(* The receiver is gone: send fails, also while it waits, and the loop ends. *)
SendFails ==
  /\ task = "send" /\ rx = "dropped" /\ task' = "over"
  /\ UNCHANGED <<sent, closed, inbound, location, channel, rx, received, ended>>

-----------------------------------------------------------------------------
(* The client gets an instruction. *)
ClientReceive ==
  /\ rx = "open" /\ channel # <<>>
  /\ received' = Append(received, Head(channel)) /\ channel' = Tail(channel)
  /\ UNCHANGED <<sent, closed, inbound, task, location, rx, ended>>

(* mutant: the outbound stream ends with the task *)
OutboundEndsEarly ==
  /\ rx = "open" /\ task = "over" /\ ~ended
  /\ ended' = TRUE
  /\ UNCHANGED <<sent, closed, inbound, task, location, channel, rx, received>>

(* ReceiverStream ends when tx is gone, dropped with the task, and the      *)
(* channel is empty.                                                        *)
OutboundEnds ==
  /\ rx = "open" /\ task = "over" /\ channel = <<>> /\ ~ended
  /\ ended' = TRUE
  /\ UNCHANGED <<sent, closed, inbound, task, location, channel, rx, received>>

Task == NextItem \/ NextNone \/ SendInstruction \/ SendFails
Client == ClientSend \/ ClientClose \/ ReadFails \/ Disconnect

Over == task = "over" /\ (ended \/ rx = "dropped") /\ UNCHANGED vars

Next == Task \/ Client \/ ClientReceive \/ OutboundEnds \/ Over

(* Tokio runs the task, and the client reads what it is sent.  A client may *)
(* stay silent for ever.                                                    *)
Fairness == WF_vars(Task) /\ WF_vars(ClientReceive \/ OutboundEnds)

Spec == Init /\ [][Next]_vars /\ Fairness

-----------------------------------------------------------------------------
(* What reaches the client answers its locations one by one in the order it *)
(* sent them, none skipped and none twice, also when the channel was full.  *)
AnsweredInOrder ==
  LET answers == received \o channel
  IN  rx = "open" => answers = [n \in 1 .. Len(answers) |-> Instruction(n)]

(* A client that sees its stream end has an answer to every location it     *)
(* sent, also when reading failed after them: instructions in the channel   *)
(* outlive the task that sent them.                                         *)
CompleteAtEnd == ended => Len(received) = sent

(* The two together: a client gets the answers to its locations, in order,  *)
(* and all of them unless it goes away.                                     *)
AnswersAreComplete == AnsweredInOrder /\ CompleteAtEnd

(* Once the client is done or gone the task ends, whatever it waits for: an *)
(* item, room in the channel, or a receiver that is no longer there; and    *)
(* the stream of a client that is still there ends with it.                 *)
TaskEnds == closed ~> task = "over" /\ (ended \/ rx = "dropped")
=============================================================================
