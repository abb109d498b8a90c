------------------------- MODULE EventSourcedLedger -------------------------
(* 04-Distributed-Banking-Ledgers/event-sourced-ledger-engine.cs: servers   *)
(* process withdrawals from one account whose only state is its stream of   *)
(* events.  A withdrawal may be attempted more than once, by one server     *)
(* after another or by two at a time, always with the arguments its client  *)
(* chose.  The event store is an interface in the code: it is taken to      *)
(* append atomically and only to the version it is told to expect.          *)
EXTENDS Integers, Sequences

CONSTANTS
  Withdrawals,   \* what clients ask for
  Attempts,      \* calls of ProcessWithdrawalAsync
  Amounts,       \* amounts asked for and deposited; some not positive
  MaxVersion,    \* events modelled
  NoView

LedgerAssumption == Amounts \subseteq Int /\ MaxVersion \in Nat /\ NoView \notin Withdrawals

VARIABLES
  store,      \* the stream
  args,       \* of each withdrawal: [amount, expectedVersion]
  serves,     \* the withdrawal each attempt is for
  view,       \* how much of the stream an attempt has read
  status      \* "new", "append", "done", "refused", "conflict", "unknown"

vars == <<store, args, serves, view, status>>

Versions == 0..MaxVersion
Status == {"new", "append", "done", "refused", "conflict", "unknown"}
Event == [kind : {"opened", "deposited", "withdrawn"}, version : Versions,
          amount : Amounts \union {0}, by : Withdrawals \union {NoView}]

(* The stream holds well-formed events; an attempt is in one of the outcomes*)
(* of the handler.                                                          *)
TypeOK ==
  /\ store \in Seq(Event)
  /\ args \in [Withdrawals -> [amount : Amounts, expectedVersion : Versions]]
  /\ serves \in [Attempts -> Withdrawals]
  /\ view \in [Attempts -> Versions \union {NoView}]
  /\ status \in [Attempts -> Status]

Init ==
  /\ store = <<>>
  /\ args \in [Withdrawals -> [amount : Amounts, expectedVersion : Versions]]
  /\ serves \in [Attempts -> Withdrawals]
  /\ view = [t \in Attempts |-> NoView]
  /\ status = [t \in Attempts |-> "new"]

-----------------------------------------------------------------------------
(* A new BankAccountAggregate. *)
NewAggregate == [balance |-> 0, version |-> 0, active |-> FALSE]

ApplyEvent(account, event) ==
  [version |-> event.version,
   active  |-> account.active \/ event.kind = "opened",
   balance |-> CASE event.kind = "opened"    -> 0
                 [] event.kind = "deposited" -> account.balance + event.amount
                 [] event.kind = "withdrawn" -> account.balance - event.amount]

(* The aggregate after the first n events. *)
Rehydrate[n \in 0..Len(store)] ==
  IF n = 0 THEN NewAggregate ELSE ApplyEvent(Rehydrate[n - 1], store[n])

(* The three checks of Withdraw. *)
CanWithdraw(account, amount) ==
  account.active /\ amount > 0 /\ account.balance - amount >= 0

VersionMatches(account, t) == account.version = args[serves[t]].expectedVersion

(* ReadStreamAsync answers; the aggregate is rebuilt and asked to withdraw. *)
ReadStream(t) ==
  LET account == Rehydrate[Len(store)] IN
  /\ status[t] = "new"
  /\ view' = [view EXCEPT ![t] = Len(store)]
  /\ status' = [status EXCEPT ![t] =
       IF ~VersionMatches(account, t) THEN "conflict"
       ELSE IF CanWithdraw(account, args[serves[t]].amount) THEN "append" ELSE "refused"]
  /\ UNCHANGED <<store, args, serves>>

(* mutant: the service tells the store to expect whatever it has *)
CommitVersionLatest(t) == Len(store)
(* The version the service tells the store to expect. *)
CommitVersion(t) == args[serves[t]].expectedVersion

Withdrawn(t) ==
  [kind |-> "withdrawn", version |-> Rehydrate[view[t]].version + 1,
   amount |-> args[serves[t]].amount, by |-> serves[t]]

(* AppendEventsAsync succeeds; the answer may be lost. *)
AppendEvents(t) ==
  /\ status[t] = "append" /\ Len(store) = CommitVersion(t) /\ Len(store) < MaxVersion
  /\ store' = Append(store, Withdrawn(t))
  /\ \E s \in {"done", "unknown"} : status' = [status EXCEPT ![t] = s]
  /\ UNCHANGED <<args, serves, view>>

(* AppendEventsAsync finds another version. *)
AppendConflict(t) ==
  /\ status[t] = "append" /\ Len(store) # CommitVersion(t)
  /\ status' = [status EXCEPT ![t] = "conflict"]
  /\ UNCHANGED <<store, args, serves, view>>

(* The server dies, or the store does not answer, before the append. *)
Fail(t) ==
  /\ status[t] \in {"new", "append"}
  /\ status' = [status EXCEPT ![t] = "unknown"]
  /\ UNCHANGED <<store, args, serves, view>>

(* Others open the account and deposit money. *)
OtherEvent(kind, amount) ==
  /\ Len(store) < MaxVersion
  /\ store' = Append(store, [kind |-> kind, version |-> Len(store) + 1, amount |-> amount,
                             by |-> NoView])
  /\ UNCHANGED <<args, serves, view, status>>

Open == store = <<>> /\ OtherEvent("opened", 0)
Deposit(amount) == store # <<>> /\ amount > 0 /\ OtherEvent("deposited", amount)

Next ==
  \/ \E t \in Attempts : ReadStream(t) \/ AppendEvents(t) \/ AppendConflict(t) \/ Fail(t)
  \/ Open
  \/ \E amount \in Amounts : Deposit(amount)

Spec == Init /\ [][Next]_vars

-----------------------------------------------------------------------------
(* "Insufficient funds": no prefix of the stream, that is no state the      *)
(* account was ever in, has a negative balance.                             *)
NeverOverdrawn == \A n \in 0..Len(store) : Rehydrate[n].balance >= 0

(* A withdrawal is made once, whatever the number of attempts and whatever  *)
(* became of their answers.                                                 *)
WithdrawnOnce ==
  \A m, n \in 1..Len(store) :
    store[m].by = store[n].by /\ store[n].by \in Withdrawals => m = n
(* WithdrawAsync under retries and races: each withdrawal once at most, and *)
(* only what the account has.                                               *)
WithdrawalsAreSound == NeverOverdrawn /\ WithdrawnOnce
=============================================================================
