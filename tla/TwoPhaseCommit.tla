--------------------------- MODULE TwoPhaseCommit ---------------------------
(* The two-phase commit coordinator of                                      *)
(* 04-Distributed-Banking-Ledgers/two-phase-commit-distributed-coordinator. *)
(* One ExecuteTransaction call talks to the banks through RPCs that its     *)
(* goroutines issue concurrently.  The banks (the BankNode interface) and   *)
(* the network are external: a request may be delayed, also past the error  *)
(* its caller has already seen, or lost, and so may an answer.              *)
EXTENDS Naturals, FiniteSets

CONSTANT Banks          \* the code's SourceBank and DestBank

ASSUME BanksAssumption == Banks # {}

VARIABLES
  pc,       \* where ExecuteTransaction is, or what it returned
  crashed,  \* the coordinator process has died; nothing it knew is on disk
  expired,  \* the 5-second context has passed its deadline
  call,     \* call[b]: the goroutine calling bank b in the current phase
  net,      \* net[b]: the requests on their way to bank b
  bank      \* bank[b]: the state of the transaction at bank b

vars == <<pc, crashed, expired, call, net, bank>>

Requests   == {"prepare", "commit", "rollback"}
Returned   == {"ok", "aborted", "heuristic"}
BankStates == {"working", "prepared", "committed", "aborted"}

(* The coordinator is in one of its phases, and each bank in one state of its*)
(* protocol.                                                                *)
TypeOK ==
  /\ pc \in {"idle"} \union Requests \union Returned
  /\ crashed \in BOOLEAN /\ expired \in BOOLEAN
  /\ call \in [Banks -> {"none", "pending", "ok", "err"}]
  /\ net \in [Banks -> SUBSET Requests]
  /\ bank \in [Banks -> BankStates]

Init ==
  /\ pc = "idle" /\ crashed = FALSE /\ expired = FALSE
  /\ call = [b \in Banks |-> "none"]
  /\ net = [b \in Banks |-> {}]
  /\ bank = [b \in Banks |-> "working"]

-----------------------------------------------------------------------------
(* Both goroutines of a phase are started together, each with its request.  *)
Broadcast(request) ==
  /\ pc' = request
  /\ call' = [b \in Banks |-> "pending"]
  /\ net' = [b \in Banks |-> net[b] \union {request}]
  /\ UNCHANGED <<crashed, expired, bank>>

(* wg.Wait(): every goroutine of the phase has returned. *)
AllReturned == \A b \in Banks : call[b] # "pending"
AllSucceeded == \A b \in Banks : call[b] = "ok"

StartTransaction ==
  /\ ~crashed /\ pc = "idle"
  /\ Broadcast("prepare")

(* mutant: only the last error drained from the channel counts *)
Phase1SuccessLastError == \E b \in Banks : call[b] = "ok"
Phase1Success == AllSucceeded

EvaluatePhase1 ==
  /\ ~crashed /\ pc = "prepare" /\ AllReturned
  /\ Broadcast(IF Phase1Success THEN "commit" ELSE "rollback")

(* mutant: the commit errors are not looked at *)
EvaluatePhase2IgnoringErrors ==
  /\ ~crashed /\ pc \in {"commit", "rollback"} /\ AllReturned
  /\ pc' = IF pc = "commit" THEN "ok" ELSE "aborted"
  /\ UNCHANGED <<crashed, expired, call, net, bank>>

(* A failed Commit is reported as a heuristic exception; what the Rollback  *)
(* calls return is dropped.                                                 *)
EvaluatePhase2 ==
  /\ ~crashed /\ pc \in {"commit", "rollback"} /\ AllReturned
  /\ pc' = IF pc = "rollback" THEN "aborted"
           ELSE IF AllSucceeded THEN "ok" ELSE "heuristic"
  /\ UNCHANGED <<crashed, expired, call, net, bank>>

-----------------------------------------------------------------------------
(* The deadline passes. *)
Expire ==
  /\ pc # "idle" /\ ~expired
  /\ expired' = TRUE
  /\ UNCHANGED <<pc, crashed, call, net, bank>>

CallFails(b) ==
  /\ ~crashed /\ call[b] = "pending"
  /\ call' = [call EXCEPT ![b] = "err"]
  /\ UNCHANGED <<pc, crashed, expired, net, bank>>

(* mutant: Prepare, too, is called with context.Background() *)
PrepareIgnoresDeadline(b) == FALSE /\ CallFails(b)

(* Prepare gets the context, so a pending call returns once it expires.     *)
PrepareTimesOut(b) == pc = "prepare" /\ expired /\ CallFails(b)

(* mutant: a transport error leaves the slot of the channel unset *)
TransportErrorUnrecorded(b) ==
  /\ ~crashed /\ call[b] = "pending"
  /\ call' = [call EXCEPT ![b] = "error"]
  /\ UNCHANGED <<pc, crashed, expired, net, bank>>

(* Any call may fail on the connection.                                     *)
TransportError(b) == CallFails(b)

Lose(b, request) ==
  /\ request \in net[b]
  /\ net' = [net EXCEPT ![b] = @ \ {request}]
  /\ UNCHANGED <<pc, crashed, expired, call, bank>>

Crash ==
  /\ pc # "idle" /\ ~crashed
  /\ crashed' = TRUE
  /\ UNCHANGED <<pc, expired, call, net, bank>>

-----------------------------------------------------------------------------
(* External: what a bank does with a request and whether it grants it.  A   *)
(* bank that has aborted the transaction refuses a late Prepare; one that   *)
(* has promised neither commits nor aborts on its own.                      *)
BankOutcomes(state, request) ==
  CASE request = "prepare" ->
         IF state = "working" THEN {<<"prepared", "ok">>, <<"aborted", "err">>}
                              ELSE {<<state, "err">>}
    [] request = "commit" ->
         {<<state, "err">>} \union
           IF state = "prepared" THEN {<<"committed", "ok">>} ELSE {}
    [] request = "rollback" ->
         {<<state, "err">>} \union
           IF state # "committed" THEN {<<"aborted", "ok">>} ELSE {}

(* The bank handles a request; its answer reaches the goroutine if that is  *)
(* still waiting for this request, or gets lost.                            *)
BankHandles(b, request) ==
  /\ request \in net[b]
  /\ net' = [net EXCEPT ![b] = @ \ {request}]
  /\ \E o \in BankOutcomes(bank[b], request) :
       /\ bank' = [bank EXCEPT ![b] = o[1]]
       /\ \/ UNCHANGED call
          \/ /\ ~crashed /\ pc = request /\ call[b] = "pending"
             /\ call' = [call EXCEPT ![b] = o[2]]
  /\ UNCHANGED <<pc, crashed, expired>>

Coordinator == StartTransaction \/ EvaluatePhase1 \/ EvaluatePhase2

Next ==
  \/ Coordinator \/ Expire \/ Crash
  \/ \E b \in Banks :
       \/ PrepareTimesOut(b) \/ TransportError(b)
       \/ \E request \in Requests : BankHandles(b, request) \/ Lose(b, request)

(* The goroutines run and timers fire.  No fairness for the banks, the      *)
(* network or the calls of phase 2, which carry context.Background().       *)
Fairness ==
  /\ WF_vars(Coordinator) /\ WF_vars(Expire)
  /\ \A b \in Banks : WF_vars(PrepareTimesOut(b))

Spec == Init /\ [][Next]_vars /\ Fairness

-----------------------------------------------------------------------------
(* The banks agree: no bank has committed what another has aborted, in any  *)
(* interleaving of delayed requests, lost answers, timeouts and a crash of  *)
(* the coordinator between its two phases.                                  *)
BanksAgree ==
  \A b, c \in Banks : ~(bank[b] = "committed" /\ bank[c] = "aborted")

(* What ExecuteTransaction returns is true of all banks: nil means all have *)
(* committed; the abort error means that none has and that no request still *)
(* under way can make one commit; and only a heuristic exception leaves the *)
(* outcome open, with no bank rolled back.                                  *)
VerdictIsTrue ==
  \A b \in Banks :
    /\ pc = "ok" => bank[b] = "committed"
    /\ pc = "aborted" => bank[b] # "committed" /\ "commit" \notin net[b]
    /\ pc = "heuristic" => bank[b] \in {"prepared", "committed"}

AC == INSTANCE AtomicCommit

(* ExecuteTransaction with its network implements the abstract commitment:  *)
(* every step is one of a bank that prepares, commits or aborts, or none.   *)
ImplementsAtomicCommit == AC!Spec

(* Phase 1 ends even when a bank never answers, because Prepare gets the    *)
(* context with the deadline, unless the coordinator dies.                  *)
Phase1Ends == (pc = "prepare") ~> (pc # "prepare" \/ crashed)
=============================================================================
