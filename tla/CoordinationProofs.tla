------------------------- MODULE CoordinationProofs -------------------------
(* For every set of banks the commit coordinator keeps the banks in         *)
(* agreement, tells the truth about them and implements AtomicCommit; for   *)
(* every node and every order of RPCs and timeouts a Raft term is           *)
(* campaigned in once; and for every channel capacity route_fleet answers   *)
(* every location in order.                                                 *)
EXTENDS MCCoordination, Lemmas, TLAPS

-----------------------------------------------------------------------------
(* The two-phase commit coordinator.                                        *)

(* The coordinator has decided to commit.  A crash does not undo that. *)
Committing == pc \in {"commit", "ok", "heuristic"}

(* Before the decision: no commit request exists, and a Prepare that was    *)
(* answered "ok" has made its bank promise and is no longer under way.      *)
VotesAreBinding ==
  ~Committing => \A b \in Banks :
    /\ bank[b] # "committed" /\ "commit" \notin net[b]
    /\ pc = "prepare" /\ call[b] = "ok" =>
         bank[b] = "prepared" /\ "prepare" \notin net[b]
    /\ pc \in {"idle", "prepare"} => "rollback" \notin net[b]

(* After it: every bank has promised, and only commit requests are left.    *)
DecisionIsSafe ==
  Committing => \A b \in Banks :
    /\ bank[b] \in {"prepared", "committed"}
    /\ net[b] \subseteq {"commit"}
    /\ call[b] = "ok" => bank[b] = "committed"
    /\ pc = "ok" => call[b] = "ok"

IInv == TypeOK /\ VotesAreBinding /\ DecisionIsSafe

(* Before the transaction nobody has voted.                                 *)
LEMMA InitInv == Init => IInv
  BY DEF Init, IInv, TypeOK, VotesAreBinding, DecisionIsSafe, Committing,
         Requests, Returned, BankStates

(* What a bank may do with a request, case by case.                         *)
LEMMA OutcomeCases ==
  ASSUME NEW s \in BankStates, NEW r \in Requests, NEW o \in BankOutcomes(s, r)
  PROVE  /\ o[1] \in BankStates /\ o[2] \in {"ok", "err"}
         /\ o[1] # s => \/ r = "prepare" /\ s = "working" /\ o[1] \in {"prepared", "aborted"}
                        \/ r = "commit" /\ s = "prepared" /\ o[1] = "committed"
                        \/ r = "rollback" /\ s # "committed" /\ o[1] = "aborted"
         /\ r = "prepare" /\ o[2] = "ok" => o[1] = "prepared"
         /\ r = "commit" /\ o[2] = "ok" => o[1] = "committed"
  BY DEF BankOutcomes, BankStates, Requests

(* A bank that handles a request keeps the invariant.                       *)
LEMMA HandleInv ==
  ASSUME IInv, NEW b \in Banks, NEW r \in Requests, BankHandles(b, r)
  PROVE  IInv'
<1> USE DEF IInv, TypeOK, Requests, Returned, BankStates, Committing
<1>1. PICK o \in BankOutcomes(bank[b], r) :
        /\ bank' = [bank EXCEPT ![b] = o[1]]
        /\ \/ UNCHANGED call
           \/ /\ pc = r /\ call[b] = "pending"
              /\ call' = [call EXCEPT ![b] = o[2]]
  BY DEF BankHandles
<1>2. /\ UNCHANGED <<pc, crashed, expired>>
      /\ r \in net[b] /\ net' = [net EXCEPT ![b] = @ \ {r}]
  BY DEF BankHandles
<1>3. /\ o[1] \in BankStates /\ o[2] \in {"ok", "err"}
      /\ o[1] # bank[b] =>
           \/ r = "prepare" /\ bank[b] = "working" /\ o[1] \in {"prepared", "aborted"}
           \/ r = "commit" /\ bank[b] = "prepared" /\ o[1] = "committed"
           \/ r = "rollback" /\ bank[b] # "committed" /\ o[1] = "aborted"
      /\ r = "prepare" /\ o[2] = "ok" => o[1] = "prepared"
      /\ r = "commit" /\ o[2] = "ok" => o[1] = "committed"
  <2>1. bank[b] \in BankStates OBVIOUS
  <2> QED BY <2>1, OutcomeCases
<1>4. TypeOK'
  BY <1>1, <1>2, <1>3
<1>5. VotesAreBinding'
  BY <1>1, <1>2, <1>3 DEF VotesAreBinding
<1>6. DecisionIsSafe'
  BY <1>1, <1>2, <1>3 DEF DecisionIsSafe
<1> QED BY <1>4, <1>5, <1>6

(* Every step of coordinator, banks and network keeps it.                   *)
LEMMA StepInv == IInv /\ [Next]_vars => IInv'
<1> SUFFICES ASSUME IInv, [Next]_vars PROVE IInv'
  OBVIOUS
<1> USE DEF IInv, TypeOK, VotesAreBinding, DecisionIsSafe, Committing,
            Requests, Returned, BankStates
<1>1. CASE StartTransaction
  BY <1>1 DEF StartTransaction, Broadcast
<1>2. CASE EvaluatePhase1
  <2>1. CASE Phase1Success
    BY <1>2, <2>1 DEF EvaluatePhase1, Broadcast, Phase1Success, AllSucceeded
  <2>2. CASE ~Phase1Success
    BY <1>2, <2>2 DEF EvaluatePhase1, Broadcast
  <2> QED BY <2>1, <2>2
<1>3. CASE EvaluatePhase2
  BY <1>3 DEF EvaluatePhase2, AllSucceeded
<1>4. CASE Expire
  BY <1>4 DEF Expire
<1>5. CASE Crash
  BY <1>5 DEF Crash
<1>6. ASSUME NEW b \in Banks, CallFails(b) PROVE IInv'
  BY <1>6 DEF CallFails
<1>7. ASSUME NEW b \in Banks, NEW r \in Requests, Lose(b, r) PROVE IInv'
  BY <1>7 DEF Lose
<1>8. ASSUME NEW b \in Banks, NEW r \in Requests, BankHandles(b, r) PROVE IInv'
  BY <1>8, HandleInv
<1>9. CASE UNCHANGED vars
  BY <1>9 DEF vars
<1> QED
  BY <1>1, <1>2, <1>3, <1>4, <1>5, <1>6, <1>7, <1>8, <1>9
     DEF Next, Coordinator, PrepareTimesOut, TransportError

(* The inductive invariant holds of every behaviour. *)
THEOREM Invariance == Spec => []IInv
  BY InitInv, StepInv, PTL DEF Spec

(* No two banks ever disagree, for every set of banks and every order of    *)
(* delivery, loss, timeout and crash around ExecuteTransaction.             *)
THEOREM Agreement == Spec => []BanksAgree
<1>1. IInv => BanksAgree
  BY DEF IInv, VotesAreBinding, DecisionIsSafe, Committing, BanksAgree
<1> QED BY <1>1, Invariance, PTL

(* The value ExecuteTransaction returns is true of every bank. *)
THEOREM Verdict == Spec => []VerdictIsTrue
<1>1. IInv => VerdictIsTrue
  BY DEF IInv, VotesAreBinding, DecisionIsSafe, Committing, VerdictIsTrue
<1> QED BY <1>1, Invariance, PTL

(* Every step of the coordinator, the network and the banks is a step of    *)
(* AtomicCommit or leaves the banks alone.                                  *)
THEOREM Refinement == Spec => ImplementsAtomicCommit
<1>1. Init => AC!Init
  BY DEF Init, AC!Init
<1>2. IInv /\ [Next]_vars => [AC!Next]_bank
  <2> SUFFICES ASSUME IInv, [Next]_vars, bank' # bank PROVE AC!Next
    OBVIOUS
  <2>1. PICK b \in Banks, r \in Requests : BankHandles(b, r)
    BY DEF Next, vars, Coordinator, StartTransaction, EvaluatePhase1,
           EvaluatePhase2, Broadcast, Expire, Crash, PrepareTimesOut,
           TransportError, CallFails, Lose
  <2>2. PICK o \in BankOutcomes(bank[b], r) : bank' = [bank EXCEPT ![b] = o[1]]
    BY <2>1 DEF BankHandles
  <2>3. bank[b] \in BankStates /\ bank \in [Banks -> BankStates] /\ r \in net[b]
    BY <2>1 DEF IInv, TypeOK, BankHandles
  <2>4. \/ r = "prepare" /\ bank[b] = "working" /\ o[1] \in {"prepared", "aborted"}
        \/ r = "commit" /\ bank[b] = "prepared" /\ o[1] = "committed"
        \/ r = "rollback" /\ bank[b] # "committed" /\ o[1] = "aborted"
    BY <2>2, <2>3, OutcomeCases
  <2>5. CASE o[1] = "prepared"
    BY <2>2, <2>4, <2>5 DEF AC!Next, AC!Promise
  <2>6. CASE o[1] = "committed"
    BY <2>2, <2>3, <2>4, <2>6
       DEF IInv, VotesAreBinding, DecisionIsSafe, AC!Next, AC!Commit
  <2>7. CASE o[1] = "aborted"
    <3>1. ~Committing
      BY <2>3, <2>4, <2>7 DEF IInv, DecisionIsSafe
    <3>2. bank[b] # "aborted"
      BY <2>2, <2>3, <2>7
    <3> QED
      BY <2>2, <2>3, <2>4, <2>7, <3>1, <3>2
         DEF IInv, VotesAreBinding, AC!Next, AC!Abort, BankStates
  <2> QED BY <2>4, <2>5, <2>6, <2>7
<1> QED BY <1>1, <1>2, Invariance, PTL DEF Spec, ImplementsAtomicCommit, AC!Spec

-----------------------------------------------------------------------------
(* The Raft node.                                                           *)

(* What happens to the Raft node is a step of its module or nothing.        *)
LEMMA NodeStep == SuiteNext => [Node!Next]_nodeVars
  BY DEF SuiteNext, nodeVars

(* The term is a number.                                                    *)
NodeTypes == currentTerm \in Nat

(* No handler, timer or election lowers the term, and becoming a candidate  *)
(* raises it.                                                               *)
LEMMA TermNeverFalls ==
  NodeTypes /\ [SuiteNext]_<<subject, vars, nodeVars, fleetVars>> =>
    /\ NodeTypes'
    /\ currentTerm' >= currentTerm
    /\ state' = "Candidate" /\ state # "Candidate" => currentTerm' > currentTerm
<1> SUFFICES ASSUME NodeTypes, [Node!Next]_nodeVars
             PROVE  /\ NodeTypes' /\ currentTerm' >= currentTerm
                    /\ state' = "Candidate" /\ state # "Candidate" => currentTerm' > currentTerm
  BY NodeStep DEF nodeVars
<1> USE DEF NodeTypes
<1>1. CASE Node!Expired
  BY <1>1 DEF Node!Expired, Node!becomeCandidate, Node!node
<1>2. ASSUME NEW term \in 0..MaxTerm, Node!ReceiveAppendEntriesRPC(term)
      PROVE  /\ NodeTypes' /\ currentTerm' >= currentTerm
             /\ state' = "Candidate" /\ state # "Candidate" => currentTerm' > currentTerm
  BY <1>2 DEF Node!ReceiveAppendEntriesRPC, Node!Recognizes, Node!node
<1>3. CASE Node!WinElection
  BY <1>3 DEF Node!WinElection
<1>4. CASE UNCHANGED <<state, currentTerm>>
  BY <1>4
<1> QED BY <1>1, <1>2, <1>3, <1>4
        DEF Node!Next, Node!TimerFires, Node!TimerLoop, Node!TimerReceived, Node!ResetTimer,
            Node!LoopShutdown, Node!BroadcastReturns, Node!Shutdown, Node!node, nodeVars

(* Whatever RPCs, timeouts and shutdowns come in which order, the term of a *)
(* Raft node never goes back and it campaigns at most once per term.        *)
THEOREM CandidaciesHaveTerms == SuiteSpec => OneCandidacyPerTerm
<1>1. SuiteInit => NodeTypes
  BY DEF SuiteInit, Node!Init, NodeTypes
<1>2. NodeTypes /\ [SuiteNext]_<<subject, vars, nodeVars, fleetVars>> =>
        /\ NodeTypes'
        /\ [/\ currentTerm' >= currentTerm
            /\ state' = "Candidate" /\ state # "Candidate" => currentTerm' > currentTerm]_(Node!vars)
  BY TermNeverFalls
<1> QED BY <1>1, <1>2, PTL DEF SuiteSpec, OneCandidacyPerTerm, Node!OneCandidacyPerTerm

-----------------------------------------------------------------------------
(* The streaming route_fleet service.                                       *)

(* What happens to route_fleet is a step of its module or nothing.          *)
LEMMA FleetStep == SuiteNext => [Fleet!Next]_fleetVars
  BY DEF SuiteNext, fleetVars

(* The instructions that answer locations.                                  *)
Answers == {"cmd"} \X Int

(* What the streams, the channel and the task hold.                         *)
FleetTypes ==
  /\ sent \in Nat /\ inbound \in Seq(Int) /\ task \in {"next", "send", "over"}
  /\ channel \in Seq(Answers) /\ received \in Seq(Answers) /\ rx \in {"open", "dropped"}

(* How many locations were answered, and how many were taken. *)
Answered == Len(received) + Len(channel)
Looked == IF task = "send" THEN Answered + 1 ELSE Answered

(* The client has the first answers, the channel the next ones, and the     *)
(* task holds the location that comes then.                                 *)
InOrder ==
  /\ \A n \in 1..Len(received) : received[n] = Fleet!Instruction(n)
  /\ \A n \in 1..Len(channel) : channel[n] = Fleet!Instruction(Len(received) + n)
  /\ task = "send" => location = Looked

(* The inbound stream holds the other ones, and an error at most behind them.*)
Waiting ==
  /\ Looked <= sent
  /\ \A n \in 1..(sent - Looked) : inbound[n] = Looked + n
  /\ \/ Len(inbound) = sent - Looked
     \/ closed /\ Len(inbound) = sent - Looked + 1 /\ inbound[Len(inbound)] = 0

(* The inductive invariant of route_fleet: while the receiver exists        *)
(* nothing is lost on the way from the inbound stream to the client, and    *)
(* the task is over only when it has answered everything.                   *)
FleetInv ==
  /\ FleetTypes
  /\ rx = "open" => InOrder
  /\ rx = "open" /\ task # "over" => Waiting
  /\ rx = "open" /\ task = "over" => closed /\ Answered = sent
  /\ ended => rx = "open" /\ task = "over" /\ channel = <<>>

(* Client, task and network keep the invariant.                             *)
LEMMA FleetInductive == SuiteSpec => []FleetInv
<1>1. SuiteInit => FleetInv
  <2> SUFFICES ASSUME Fleet!Init PROVE FleetInv
    BY DEF SuiteInit
  <2>1. ~ended
    BY Zenon DEF Fleet!Init
  <2>2. /\ sent = 0 /\ inbound = <<>> /\ task = "next" /\ channel = <<>> /\ rx = "open"
        /\ received = <<>> /\ location \in Int
    BY DEF Fleet!Init
  <2>3. Len(inbound) = 0 /\ Len(channel) = 0 /\ Len(received) = 0
    BY <2>2
  <2>4. Answered = 0 /\ Looked = 0
    BY <2>2, <2>3 DEF Answered, Looked
  <2>5. FleetTypes
    BY <2>2 DEF FleetTypes
  <2>6. InOrder
    BY <2>2, <2>3 DEF InOrder
  <2>7. Waiting
    BY <2>2, <2>3, <2>4 DEF Waiting
  <2> QED BY <2>1, <2>2, <2>5, <2>6, <2>7 DEF FleetInv
<1>2. FleetInv /\ [SuiteNext]_<<subject, vars, nodeVars, fleetVars>> => FleetInv'
  <2> SUFFICES ASSUME FleetInv, [Fleet!Next]_fleetVars PROVE FleetInv'
    BY FleetStep DEF fleetVars
  <2>0. FleetTypes
    BY DEF FleetInv
  <2>1. CASE Fleet!ClientSend
    <3>0. ~closed /\ UNCHANGED closed
      BY <2>1, Zenon DEF Fleet!ClientSend
    <3>1. /\ sent' = sent + 1 /\ inbound' = Append(inbound, sent + 1)
          /\ UNCHANGED <<task, location, channel, rx, received, ended>>
      BY <2>1 DEF Fleet!ClientSend
    <3>2. /\ Len(inbound') = Len(inbound) + 1 /\ inbound' \in Seq(Int) /\ Len(inbound) \in Nat
          /\ \A n \in 1..Len(inbound) : inbound'[n] = inbound[n]
          /\ inbound'[Len(inbound) + 1] = sent + 1
      BY <2>0, <3>1 DEF FleetTypes
    <3>3. FleetTypes'
      BY <2>0, <3>1, <3>2 DEF FleetTypes
    <3>4. Answered' = Answered /\ Looked' = Looked /\ Answered \in Nat /\ Looked \in Nat /\ sent \in Nat
      BY <2>0, <3>1 DEF FleetTypes, Answered, Looked
    <3>5. rx' = "open" => InOrder'
      BY <3>1, <3>4 DEF FleetInv, InOrder
    <3>6. ASSUME rx = "open", task # "over" PROVE Waiting'
      <4>1. Waiting
        BY <3>6 DEF FleetInv
      <4>2. Len(inbound) = sent - Looked /\ Looked <= sent
        BY <3>0, <4>1 DEF Waiting
      <4>3. ASSUME NEW n \in 1..(sent + 1 - Looked) PROVE inbound'[n] = Looked + n
        <5>1. CASE n \in 1..(sent - Looked)
          BY <3>2, <4>1, <4>2, <5>1 DEF Waiting
        <5>2. CASE n = sent - Looked + 1
          BY <3>2, <3>4, <4>2, <5>2
        <5> QED BY <3>4, <4>2, <5>1, <5>2
      <4> QED BY <3>1, <3>2, <3>4, <4>2, <4>3 DEF Waiting
    <3> QED BY <3>0, <3>1, <3>3, <3>5, <3>6 DEF FleetInv
  <2>2. ASSUME Fleet!ClientClose \/ (Fleet!ReadFails /\ rx = "open") PROVE FleetInv'
    <3>0. ~closed /\ closed'
      BY <2>2, Zenon DEF Fleet!ClientClose, Fleet!ReadFails
    <3>1. UNCHANGED <<sent, task, location, channel, rx, received, ended>>
      BY <2>2 DEF Fleet!ClientClose, Fleet!ReadFails
    <3>2. inbound' = inbound \/ inbound' = Append(inbound, 0)
      BY <2>2 DEF Fleet!ClientClose, Fleet!ReadFails, Fleet!Error
    <3>3. /\ inbound' \in Seq(Int) /\ Len(inbound) \in Nat
          /\ \A n \in 1..Len(inbound) : inbound'[n] = inbound[n]
          /\ \/ Len(inbound') = Len(inbound)
             \/ Len(inbound') = Len(inbound) + 1 /\ inbound'[Len(inbound')] = 0
      <4>1. CASE inbound' = inbound
        BY <2>0, <4>1 DEF FleetTypes
      <4>2. CASE inbound' = Append(inbound, 0)
        BY <2>0, <4>2 DEF FleetTypes
      <4> QED BY <3>2, <4>1, <4>2
    <3>4. FleetTypes'
      BY <2>0, <3>1, <3>3 DEF FleetTypes
    <3>5. Answered' = Answered /\ Looked' = Looked /\ Looked \in Nat /\ sent \in Nat
      BY <2>0, <3>1 DEF FleetTypes, Answered, Looked
    <3>6. rx' = "open" => InOrder'
      BY <3>1, <3>5 DEF FleetInv, InOrder
    <3>7. ASSUME rx = "open", task # "over" PROVE Waiting'
      <4>1. Waiting
        BY <3>7 DEF FleetInv
      <4>2. Len(inbound) = sent - Looked /\ Looked <= sent
        BY <3>0, <4>1 DEF Waiting
      <4>3. ASSUME NEW n \in 1..(sent - Looked) PROVE inbound'[n] = Looked + n
        BY <3>3, <4>1, <4>2 DEF Waiting
      <4> QED BY <3>0, <3>1, <3>3, <3>5, <4>2, <4>3 DEF Waiting
    <3> QED BY <3>0, <3>1, <3>4, <3>5, <3>6, <3>7 DEF FleetInv
  <2>3. ASSUME Fleet!Disconnect \/ (Fleet!ReadFails /\ rx = "dropped") PROVE FleetInv'
    <3>1. /\ rx' = "dropped" /\ UNCHANGED <<sent, task, received>>
          /\ inbound' = inbound \/ inbound' = Append(inbound, 0)
          /\ channel' = channel \/ channel' = <<>>
      BY <2>3 DEF Fleet!Disconnect, Fleet!ReadFails, Fleet!Error
    <3>2. ~ended'
      <4>1. CASE Fleet!Disconnect
        BY <4>1, Zenon DEF Fleet!Disconnect
      <4>2. CASE Fleet!ReadFails /\ rx = "dropped"
        BY <4>2 DEF Fleet!ReadFails, FleetInv
      <4> QED BY <2>3, <4>1, <4>2
    <3>3. FleetTypes'
      <4>1. inbound' \in Seq(Int)
        <5>1. CASE inbound' = inbound
          BY <2>0, <5>1 DEF FleetTypes
        <5>2. CASE inbound' = Append(inbound, 0)
          BY <2>0, <5>2 DEF FleetTypes
        <5> QED BY <3>1, <5>1, <5>2
      <4>2. channel' \in Seq(Answers)
        <5>1. <<>> \in Seq(Answers)
          OBVIOUS
        <5> QED BY <2>0, <3>1, <5>1 DEF FleetTypes
      <4>3. location' = location
        BY <2>3 DEF Fleet!Disconnect, Fleet!ReadFails
      <4> QED BY <2>0, <3>1, <4>1, <4>2, <4>3 DEF FleetTypes
    <3> QED BY <3>1, <3>2, <3>3 DEF FleetInv
  <2>4. CASE Fleet!NextItem
    <3>0. UNCHANGED <<closed, ended>>
      BY <2>4 DEF Fleet!NextItem
    <3>1. /\ task = "next" /\ inbound # <<>> /\ inbound' = Tail(inbound)
          /\ UNCHANGED <<sent, channel, rx, received>>
          /\ \/ Head(inbound) = 0 /\ task' = "over"
             \/ Head(inbound) # 0 /\ task' = "send" /\ location' = Head(inbound)
      BY <2>4 DEF Fleet!NextItem, Fleet!Error
    <3>2. /\ Len(inbound) \in Nat \ {0} /\ Len(inbound') = Len(inbound) - 1 /\ inbound' \in Seq(Int)
          /\ Head(inbound) = inbound[1]
          /\ \A n \in 1..Len(inbound') : n + 1 \in 1..Len(inbound) /\ inbound'[n] = inbound[n + 1]
      BY <2>0, <3>1 DEF FleetTypes
    <3>3. FleetTypes' /\ ~ended
      BY <2>0, <3>1, <3>2 DEF FleetTypes, FleetInv
    <3>4. Answered' = Answered /\ Looked = Answered /\ Answered \in Nat /\ sent \in Nat
      BY <2>0, <3>1 DEF FleetTypes, Answered, Looked
    <3>5. ASSUME rx = "open" PROVE Waiting /\ InOrder
      BY <3>1, <3>5 DEF FleetInv
    <3>6. ASSUME rx = "open", Head(inbound) = 0, task' = "over"
          PROVE  InOrder' /\ closed' /\ Answered' = sent'
      <4>1. sent = Looked
        <5> SUFFICES ASSUME Looked < sent PROVE FALSE
          BY <3>4, <3>5, <3>6 DEF Waiting
        <5>1. inbound[1] = Looked + 1
          BY <3>4, <3>5, <3>6 DEF Waiting
        <5> QED BY <3>2, <3>4, <3>6, <5>1
      <4>2. closed
        BY <3>2, <3>4, <3>5, <3>6, <4>1 DEF Waiting
      <4> QED BY <3>0, <3>1, <3>4, <3>5, <3>6, <4>1, <4>2 DEF InOrder
    <3>7. ASSUME rx = "open", Head(inbound) # 0, task' = "send", location' = Head(inbound)
          PROVE  InOrder' /\ Waiting'
      <4>1. Looked < sent
        <5> SUFFICES ASSUME Looked = sent PROVE FALSE
          BY <3>4, <3>5, <3>7 DEF Waiting
        <5> QED BY <3>2, <3>4, <3>5, <3>7 DEF Waiting
      <4>2. inbound[1] = Looked + 1 /\ Looked' = Looked + 1
        BY <3>4, <3>5, <3>7, <4>1 DEF Waiting, Looked
      <4>3. InOrder'
        BY <3>1, <3>2, <3>4, <3>5, <3>7, <4>2 DEF InOrder
      <4>4. ASSUME NEW n \in 1..(sent - Looked') PROVE inbound'[n] = Looked' + n
        <5>1. n + 1 \in 1..(sent - Looked) /\ n \in 1..Len(inbound') /\ Looked + (n + 1) = Looked' + n
          BY <3>2, <3>4, <3>5, <3>7, <4>1, <4>2 DEF Waiting
        <5> QED BY <3>2, <3>5, <3>7, <5>1 DEF Waiting
      <4>5. \/ Len(inbound') = sent - Looked'
            \/ closed /\ Len(inbound') = sent - Looked' + 1 /\ inbound'[Len(inbound')] = 0
        BY <3>2, <3>4, <3>5, <3>7, <4>1, <4>2 DEF Waiting
      <4> QED BY <3>0, <3>1, <3>4, <4>1, <4>2, <4>3, <4>4, <4>5 DEF Waiting
    <3> QED BY <3>0, <3>1, <3>3, <3>6, <3>7 DEF FleetInv
  <2>5. CASE Fleet!NextNone
    <3>0. closed /\ UNCHANGED <<closed, ended>>
      BY <2>5, Zenon DEF Fleet!NextNone
    <3>1. /\ task = "next" /\ task' = "over" /\ inbound = <<>>
          /\ UNCHANGED <<sent, inbound, location, channel, rx, received>>
      BY <2>5 DEF Fleet!NextNone
    <3>2. FleetTypes' /\ ~ended
      BY <2>0, <3>1 DEF FleetTypes, FleetInv
    <3>3. Answered' = Answered /\ Looked = Answered /\ Answered \in Nat /\ sent \in Nat
      BY <2>0, <3>1 DEF FleetTypes, Answered, Looked
    <3>4. ASSUME rx = "open" PROVE InOrder' /\ Answered' = sent'
      <4>1. Waiting /\ InOrder
        BY <3>1, <3>4 DEF FleetInv
      <4>2. Len(inbound) = 0
        BY <3>1
      <4> QED BY <3>1, <3>3, <4>1, <4>2 DEF Waiting, InOrder
    <3> QED BY <3>0, <3>1, <3>2, <3>4 DEF FleetInv
  <2>6. CASE Fleet!SendInstruction
    <3>0. UNCHANGED <<closed, ended>>
      BY <2>6 DEF Fleet!SendInstruction
    <3>1. /\ task = "send" /\ task' = "next" /\ rx = "open"
          /\ channel' = Append(channel, Fleet!Instruction(location))
          /\ UNCHANGED <<sent, inbound, rx, received>>
      BY <2>6 DEF Fleet!SendInstruction
    <3>2. Waiting /\ InOrder /\ ~ended
      BY <3>1 DEF FleetInv
    <3>3. Answered \in Nat /\ Looked = Answered + 1 /\ location = Answered + 1
          /\ Len(received) \in Nat /\ Len(channel) \in Nat
      BY <2>0, <3>1, <3>2 DEF FleetTypes, Answered, Looked, InOrder
    <3>4. Fleet!Instruction(location) \in Answers
      BY <3>3 DEF Fleet!Instruction, Answers
    <3>5. /\ Len(channel') = Len(channel) + 1 /\ channel' \in Seq(Answers)
          /\ \A n \in 1..Len(channel) : channel'[n] = channel[n]
          /\ channel'[Len(channel) + 1] = Fleet!Instruction(location)
      BY <2>0, <3>1, <3>4 DEF FleetTypes
    <3>6. FleetTypes'
      BY <2>0, <3>1, <3>5 DEF FleetTypes
    <3>7. Answered' = Answered + 1 /\ Looked' = Looked
      BY <3>1, <3>3, <3>5 DEF Answered, Looked
    <3>8. Waiting'
      BY <3>0, <3>1, <3>2, <3>7 DEF Waiting
    <3>9. ASSUME NEW n \in 1..Len(channel') PROVE channel'[n] = Fleet!Instruction(Len(received) + n)
      <4>1. CASE n \in 1..Len(channel)
        BY <3>2, <3>5, <4>1 DEF InOrder
      <4>2. CASE n = Len(channel) + 1
        <5>1. location = Len(received) + n
          BY <3>3, <4>2 DEF Answered
        <5> QED BY <3>5, <4>2, <5>1
      <4> QED BY <3>3, <3>5, <4>1, <4>2
    <3>10. InOrder'
      BY <3>1, <3>2, <3>9 DEF InOrder
    <3> QED BY <3>0, <3>1, <3>2, <3>6, <3>8, <3>10 DEF FleetInv
  <2>7. CASE Fleet!SendFails
    <3>1. /\ rx = "dropped" /\ task' = "over"
          /\ UNCHANGED <<sent, inbound, location, channel, rx, received, ended>>
      BY <2>7 DEF Fleet!SendFails
    <3> QED BY <3>1 DEF FleetInv, FleetTypes
  <2>8. CASE Fleet!ClientReceive
    <3>0. UNCHANGED <<closed, ended>>
      BY <2>8 DEF Fleet!ClientReceive
    <3>1. /\ rx = "open" /\ channel # <<>> /\ received' = Append(received, Head(channel))
          /\ channel' = Tail(channel) /\ UNCHANGED <<sent, inbound, task, location, rx>>
      BY <2>8 DEF Fleet!ClientReceive
    <3>2. InOrder /\ ~ended
      BY <3>1 DEF FleetInv
    <3>3. /\ Len(channel) \in Nat \ {0} /\ Len(channel') = Len(channel) - 1 /\ channel' \in Seq(Answers)
          /\ Head(channel) = channel[1] /\ channel[1] \in Answers
          /\ \A n \in 1..Len(channel') : n + 1 \in 1..Len(channel) /\ channel'[n] = channel[n + 1]
      BY <2>0, <3>1 DEF FleetTypes
    <3>4. /\ Len(received) \in Nat /\ Len(received') = Len(received) + 1 /\ received' \in Seq(Answers)
          /\ \A n \in 1..Len(received) : received'[n] = received[n]
          /\ received'[Len(received) + 1] = channel[1]
      BY <2>0, <3>1, <3>3 DEF FleetTypes
    <3>5. FleetTypes'
      BY <2>0, <3>1, <3>3, <3>4 DEF FleetTypes
    <3>6. Answered' = Answered /\ Looked' = Looked
      BY <3>1, <3>3, <3>4 DEF Answered, Looked
    <3>7. ASSUME NEW n \in 1..Len(received') PROVE received'[n] = Fleet!Instruction(n)
      <4>1. CASE n \in 1..Len(received)
        BY <3>2, <3>4, <4>1 DEF InOrder
      <4>2. CASE n = Len(received) + 1
        BY <3>2, <3>3, <3>4, <4>2 DEF InOrder
      <4> QED BY <3>4, <4>1, <4>2
    <3>8. ASSUME NEW n \in 1..Len(channel') PROVE channel'[n] = Fleet!Instruction(Len(received') + n)
      <4>1. Len(received') + n = Len(received) + (n + 1)
        BY <3>3, <3>4
      <4> QED BY <3>2, <3>3, <4>1 DEF InOrder
    <3>9. InOrder'
      BY <3>1, <3>2, <3>6, <3>7, <3>8 DEF InOrder
    <3>10. Waiting => Waiting'
      BY <3>0, <3>1, <3>6 DEF Waiting
    <3> QED BY <3>0, <3>1, <3>2, <3>5, <3>6, <3>9, <3>10 DEF FleetInv
  <2>9. CASE Fleet!OutboundEnds
    <3>1. /\ rx = "open" /\ task = "over" /\ channel = <<>>
          /\ UNCHANGED <<sent, closed, inbound, task, location, channel, rx, received>>
      BY <2>9 DEF Fleet!OutboundEnds
    <3>2. FleetTypes' /\ InOrder' /\ Answered' = Answered
      BY <3>1 DEF FleetInv, FleetTypes, InOrder, Looked, Answered
    <3> QED BY <3>1, <3>2 DEF FleetInv
  <2>10. CASE UNCHANGED fleetVars
    BY <2>10 DEF fleetVars, FleetInv, FleetTypes, InOrder, Waiting, Looked, Answered
  <2>11. rx \in {"open", "dropped"}
    BY <2>0 DEF FleetTypes
  <2> QED BY <2>1, <2>2, <2>3, <2>4, <2>5, <2>6, <2>7, <2>8, <2>9, <2>10, <2>11
          DEF Fleet!Next, Fleet!Task, Fleet!Client, Fleet!Over, Fleet!vars, fleetVars
<1> QED BY <1>1, <1>2, PTL DEF SuiteSpec

(* It says what the client may rely on.                                     *)
LEMMA FleetSafe == FleetInv => AnswersAreComplete
<1> SUFFICES ASSUME FleetInv PROVE AnswersAreComplete
  OBVIOUS
<1>0. FleetTypes
  BY DEF FleetInv
<1>1. Fleet!AnsweredInOrder
  <2> SUFFICES ASSUME rx = "open"
               PROVE  received \o channel = [n \in 1..Len(received \o channel) |-> Fleet!Instruction(n)]
    BY DEF Fleet!AnsweredInOrder
  <2> DEFINE s == received \o channel
             t == [n \in 1..Len(s) |-> Fleet!Instruction(n)]
  <2>1. /\ s \in Seq(Answers) /\ Len(s) = Len(received) + Len(channel)
        /\ Len(received) \in Nat /\ Len(channel) \in Nat
        /\ \A n \in 1..Len(s) : s[n] = IF n <= Len(received) THEN received[n] ELSE channel[n - Len(received)]
    BY <1>0 DEF FleetTypes
  <2> HIDE DEF s
  <2>2. \A n \in 1..Len(s) : s[n] = Fleet!Instruction(n)
    <3> TAKE n \in 1..Len(s)
    <3>1. CASE n <= Len(received)
      <4>1. n \in 1..Len(received) /\ s[n] = received[n]
        BY <2>1, <3>1
      <4> QED BY <4>1 DEF FleetInv, InOrder
    <3>2. CASE ~(n <= Len(received))
      <4> DEFINE m == n - Len(received)
      <4>1. m \in 1..Len(channel) /\ Len(received) + m = n /\ s[n] = channel[m]
        BY <2>1, <3>2
      <4> HIDE DEF m
      <4> QED BY <4>1 DEF FleetInv, InOrder
    <3> QED BY <3>1, <3>2
  <2>3. t \in Seq(Answers) /\ Len(t) = Len(s) /\ \A n \in 1..Len(s) : t[n] = Fleet!Instruction(n)
    BY <2>1 DEF Fleet!Instruction, Answers
  <2> HIDE DEF t
  <2>4. s = t
    BY <2>1, <2>2, <2>3, SeqEqual
  <2> QED BY <2>4 DEF s, t
<1>2. Fleet!CompleteAtEnd
  <2> SUFFICES ASSUME ended PROVE Len(received) = sent
    BY DEF Fleet!CompleteAtEnd
  <2>1. Answered = sent /\ channel = <<>>
    BY DEF FleetInv
  <2> QED BY <1>0, <2>1 DEF Answered, FleetTypes
<1> QED BY <1>1, <1>2 DEF AnswersAreComplete, Fleet!AnswersAreComplete

(* For every number of locations, channel capacity and window: the answers  *)
(* reach the client in the order of its locations, and a client that sees   *)
(* the stream end has them all.                                             *)
THEOREM FleetAnswersAll == SuiteSpec => []AnswersAreComplete
  BY FleetInductive, FleetSafe, PTL
=============================================================================
