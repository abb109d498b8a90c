--------------------------- MODULE MCCoordination ---------------------------
(* Model checking of the three components that talk to other processes over *)
(* a network: the two-phase commit coordinator, the Raft node and the       *)
(* streaming route_fleet service.  They do not interact: `subject' says     *)
(* which of them a behaviour is about, and the other ones stay as they were *)
(* initially.                                                               *)
EXTENDS TwoPhaseCommit

CONSTANTS id, MaxTerm, MaxRPCs,          \* of the Raft node
          Locations, Capacity, Window    \* of route_fleet

VARIABLES
  subject,
  state, currentTerm, votedFor, timer, loop, broadcast, shutdown, rpcs,
  sent, closed, inbound, task, location, channel, rx, received, ended

Node  == INSTANCE RaftNode
Fleet == INSTANCE RouteFleet

ASSUME CoordinationAssumption == Node!NodeAssumption /\ Fleet!RouteFleetAssumption

nodeVars == <<state, currentTerm, votedFor, timer, loop, broadcast, shutdown, rpcs>>
fleetVars == <<sent, closed, inbound, task, location, channel, rx, received, ended>>

SuiteInit == subject \in {"commit", "raft", "fleet"} /\ Init /\ Node!Init /\ Fleet!Init

(* A transaction may end or wait, and a node that was shut down stops. *)
SuiteNext ==
  /\ UNCHANGED subject
  /\ \/ subject = "commit" /\ Next /\ UNCHANGED <<nodeVars, fleetVars>>
     \/ subject = "raft" /\ Node!Next /\ UNCHANGED <<vars, fleetVars>>
     \/ subject = "fleet" /\ Fleet!Next /\ UNCHANGED <<vars, nodeVars>>
     \/ subject # "fleet" /\ UNCHANGED <<vars, nodeVars, fleetVars>>

SuiteFairness ==
  \/ subject = "commit" /\ Fairness
  \/ subject = "raft" /\ Node!Fairness
  \/ subject = "fleet" /\ Fleet!Fairness

SuiteSpec == SuiteInit /\ [][SuiteNext]_<<subject, vars, nodeVars, fleetVars>> /\ SuiteFairness

-----------------------------------------------------------------------------
(* The term of a Raft node never goes back, and it never campaigns twice in *)
(* one term.                                                                *)
OneCandidacyPerTerm == Node!OneCandidacyPerTerm

(* RunElectionTimer calls an election when no leader is heard, and          *)
(* BroadcastAppendEntries of a node that stays demoted returns.             *)
NodeMakesProgress ==
  subject = "raft" => Node!ElectionIsCalled /\ Node!DemotedFallsSilent

(* What reaches the client of route_fleet answers its locations one by one  *)
(* in the order it sent them, also when the channel was full; and when it   *)
(* sees the stream end, none is without an answer.                          *)
AnswersAreComplete == Fleet!AnswersAreComplete

(* The task route_fleet has spawned ends once its client is done or gone.   *)
TaskEnds == subject = "fleet" => Fleet!TaskEnds
=============================================================================
