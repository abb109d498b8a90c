------------------------------ MODULE RaftNode ------------------------------
(* One node of 07-Real-Time-Event-Streaming/raft-consensus-log-appender.go: *)
(* the goroutines RunElectionTimer and BroadcastAppendEntries and the       *)
(* handler ReceiveAppendEntriesRPC, which share the node behind mu.  The    *)
(* peers are external: RequestVote is a stub in the code, so winning an     *)
(* election, with the broadcaster started then, is the peers' doing, and    *)
(* AppendEntries may come with any term.  Shutdown closes shutdownChan.     *)
EXTENDS Integers

CONSTANTS id,         \* this node
          MaxTerm,    \* bound on terms
          MaxRPCs     \* bound on the AppendEntries that arrive

NodeAssumption == id \in Nat /\ MaxTerm \in Nat /\ MaxRPCs \in Nat

VARIABLES
  state, currentTerm, votedFor,   \* the RaftNode, behind mu
  timer,        \* the election timer: running, or fired with timer.C full
  loop,         \* where RunElectionTimer is
  broadcast,    \* whether BroadcastAppendEntries runs
  shutdown,     \* shutdownChan is closed
  rpcs          \* AppendEntries received

node == <<state, currentTerm, votedFor>>
vars == <<node, timer, loop, broadcast, shutdown, rpcs>>

(* The node has a role of the protocol and votes for nobody but itself.     *)
TypeOK ==
  /\ state \in {"Follower", "Candidate", "Leader"}
  /\ currentTerm \in 0..MaxTerm /\ votedFor \in {-1, id}
  /\ timer \in {"running", "fired", "stopped"}
  /\ loop \in {"select", "expired", "reset", "returned"}
  /\ broadcast \in {"off", "on"} /\ shutdown \in BOOLEAN
  /\ rpcs \in 0..MaxRPCs

(* NewRaftNode, and go RunElectionTimer(). *)
Init ==
  /\ state = "Follower" /\ currentTerm = 0 /\ votedFor = -1
  /\ timer = "running" /\ loop = "select" /\ broadcast = "off"
  /\ shutdown = FALSE /\ rpcs = 0

-----------------------------------------------------------------------------
TimerFires ==
  /\ timer = "running" /\ timer' = "fired"
  /\ UNCHANGED <<node, loop, broadcast, shutdown, rpcs>>

(* case <-timer.C; the goroutine goes for the mutex next. *)
TimerReceived ==
  /\ loop = "select" /\ timer = "fired"
  /\ loop' = "expired" /\ timer' = "stopped"
  /\ UNCHANGED <<node, broadcast, shutdown, rpcs>>

becomeCandidate ==
  state' = "Candidate" /\ currentTerm' = currentTerm + 1 /\ votedFor' = id

(* The critical section behind an expired timer. *)
Expired ==
  /\ loop = "expired" /\ loop' = "reset"
  /\ \/ state # "Leader" /\ currentTerm < MaxTerm /\ becomeCandidate
     \/ state = "Leader" /\ UNCHANGED node
  /\ UNCHANGED <<timer, broadcast, shutdown, rpcs>>

(* mutant: the timer is not set again after an election *)
ResetTimerOnce ==
  /\ loop = "reset" /\ loop' = "select"
  /\ UNCHANGED timer
  /\ UNCHANGED <<node, broadcast, shutdown, rpcs>>

(* Stop, drain and Reset, or the Reset of the next cycle. *)
ResetTimer ==
  /\ loop = "reset" /\ loop' = "select"
  /\ timer' = "running"
  /\ UNCHANGED <<node, broadcast, shutdown, rpcs>>

LoopShutdown ==
  /\ loop = "select" /\ shutdown
  /\ loop' = "returned" /\ timer' = "stopped"
  /\ UNCHANGED <<node, broadcast, shutdown, rpcs>>

-----------------------------------------------------------------------------
(* mutant: any term is recognized *)
RecognizesAny(term) == TRUE
Recognizes(term) == term >= currentTerm

(* The send on heartbeatChan succeeds only while the timer loop is parked   *)
(* in its select; otherwise the signal is dropped.                          *)
ReceiveAppendEntriesRPC(term) ==
  /\ rpcs < MaxRPCs /\ rpcs' = rpcs + 1
  /\ IF Recognizes(term)
       THEN /\ currentTerm' = term /\ state' = "Follower" /\ votedFor' = -1
            /\ \/ loop = "select" /\ loop' = "reset"
               \/ UNCHANGED loop
       ELSE UNCHANGED <<node, loop>>
  /\ UNCHANGED <<timer, broadcast, shutdown>>

(* External: a majority has voted for the candidate. *)
WinElection ==
  /\ state = "Candidate" /\ state' = "Leader" /\ broadcast' = "on"
  /\ UNCHANGED <<currentTerm, votedFor, timer, loop, shutdown, rpcs>>

(* mutant: a demoted node keeps its broadcaster *)
BroadcastReturnsOnShutdown ==
  /\ broadcast = "on" /\ shutdown /\ broadcast' = "off"
  /\ UNCHANGED <<node, timer, loop, shutdown, rpcs>>

(* A tick finds the node demoted, or shutdownChan closed; a tick of a       *)
(* leader changes nothing here.                                             *)
BroadcastReturns ==
  /\ broadcast = "on" /\ (state # "Leader" \/ shutdown) /\ broadcast' = "off"
  /\ UNCHANGED <<node, timer, loop, shutdown, rpcs>>

Shutdown ==
  /\ ~shutdown /\ shutdown' = TRUE
  /\ UNCHANGED <<node, timer, loop, broadcast, rpcs>>

TimerLoop == TimerReceived \/ Expired \/ ResetTimer \/ LoopShutdown

Next ==
  \/ TimerFires \/ TimerLoop \/ WinElection \/ BroadcastReturns \/ Shutdown
  \/ \E term \in 0..MaxTerm : ReceiveAppendEntriesRPC(term)

(* The goroutines run, the timer and the ticker fire.  Nothing is assumed   *)
(* of the peers.                                                            *)
Fairness == WF_vars(TimerFires) /\ WF_vars(TimerLoop) /\ WF_vars(BroadcastReturns)

Spec == Init /\ [][Next]_vars /\ Fairness

-----------------------------------------------------------------------------
(* The term never goes back, and a candidacy always has a term of its own:  *)
(* the node never campaigns twice in one term.                              *)
OneCandidacyPerTerm ==
  [][/\ currentTerm' >= currentTerm
     /\ state' = "Candidate" /\ state # "Candidate" => currentTerm' > currentTerm]_vars

(* Without a leader that is heard, an election is called (line 68).         *)
ElectionIsCalled ==
  (state = "Follower" /\ currentTerm < MaxTerm) ~>
    (state # "Follower" \/ currentTerm = MaxTerm \/ shutdown)

(* A broadcaster of a node that stays demoted stops (line 113).             *)
DemotedFallsSilent == (broadcast = "on" /\ state # "Leader") ~> (broadcast = "off" \/ state = "Leader")
=============================================================================
