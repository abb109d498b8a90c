-------------------------- MODULE FinancialTransfer --------------------------
(* The stored procedure process_financial_transfer of                       *)
(* 04-Distributed-Banking-Ledgers/acid-double-entry-transfer.sql, called by *)
(* concurrent sessions at PostgreSQL's READ COMMITTED level.  A call is one *)
(* transaction: others see its writes when it returns, its row locks are    *)
(* held until then, and an exception trapped by the block undoes both.  The *)
(* tables are external; the idempotency key is the primary key of           *)
(* processed_transactions.                                                  *)
EXTENDS Integers, FiniteSets, Functions

CONSTANTS
  Sessions,     \* the calls, retries of the same request included
  Accounts,     \* the account_ids that have a row in accounts
  Opening,      \* Opening[a]: the balance a starts with
  Request       \* Request[s]: [key, source, dest, amount] of call s

NULL  == -1
NoOne == "no one"

ASSUME TransferAssumption ==
  /\ NoOne \notin Sessions
  /\ Accounts \subseteq Nat /\ IsFiniteSet(Accounts)
  /\ Opening \in [Accounts -> Nat]
  /\ Request \in [Sessions -> [key : Nat, source : Nat, dest : Nat, amount : Nat]]

VARIABLES
  pc,         \* pc[s]: the statement session s executes next, or its result
  holder,     \* holder[a]: the session that holds the row lock of a, or NoOne
  v_source_balance, \* v_source_balance[s], NULL when no row was found
  balance,    \* accounts.balance, as committed
  ledger_entries,   \* committed rows, each naming the call that inserted it
  processed_transactions, failed_transactions   \* committed keys

vars == <<pc, holder, v_source_balance, balance, ledger_entries,
          processed_transactions, failed_transactions>>
tables == <<balance, ledger_entries, processed_transactions, failed_transactions>>

key(s)    == Request[s].key
source(s) == Request[s].source
dest(s)   == Request[s].dest
amount(s) == Request[s].amount
Entries == [call : Sessions, account : Nat, type : {"DEBIT", "CREDIT"}, amount : Nat]

(* A row lock has one holder, and the tables hold what the procedure inserts.*)
TypeOK ==
  /\ pc \in [Sessions -> {"check", "lock1", "lock2", "query", "post", "true", "false"}]
  /\ holder \in [Accounts -> Sessions \union {NoOne}]
  /\ v_source_balance \in [Sessions -> Nat \union {NULL}]
  /\ balance \in [Accounts -> Int]
  /\ ledger_entries \subseteq Entries
  /\ processed_transactions \subseteq Nat /\ failed_transactions \subseteq Nat

Init ==
  /\ pc = [s \in Sessions |-> "check"]
  /\ holder = [a \in Accounts |-> NoOne]
  /\ v_source_balance = [s \in Sessions |-> NULL]
  /\ balance = Opening
  /\ ledger_entries = {}
  /\ processed_transactions = {} /\ failed_transactions = {}

-----------------------------------------------------------------------------
Goto(s, label) == pc' = [pc EXCEPT ![s] = label]

(* The end of the transaction, or of the block an exception aborts. *)
ReleaseLocks(s) == holder' = [a \in Accounts |-> IF holder[a] = s THEN NoOne ELSE holder[a]]

(* 1. A committed key means the transfer was done: report success. *)
CheckIdempotency(s) ==
  /\ pc[s] = "check"
  /\ Goto(s, IF key(s) \in processed_transactions THEN "true" ELSE "lock1")
  /\ UNCHANGED <<holder, v_source_balance, tables>>

(* mutant: the rows are locked in the order of the parameters *)
FirstLockUnordered(s) == source(s)

(* 2. The smaller id first. *)
FirstLock(s) == IF source(s) < dest(s) THEN source(s) ELSE dest(s)
SecondLock(s) == IF FirstLock(s) = source(s) THEN dest(s) ELSE source(s)

(* mutant: SELECT without FOR UPDATE *)
SelectForUpdateNoLock(s, a) == UNCHANGED holder

(* SELECT ... FOR UPDATE waits for the row lock; no row, no lock. *)
SelectForUpdate(s, a) ==
  IF a \in Accounts THEN /\ holder[a] \in {NoOne, s}
                         /\ holder' = [holder EXCEPT ![a] = s]
                    ELSE UNCHANGED holder

(* 3. The two row locks. *)
LockFirst(s) ==
  /\ pc[s] = "lock1" /\ SelectForUpdate(s, FirstLock(s))
  /\ Goto(s, "lock2")
  /\ UNCHANGED <<v_source_balance, tables>>

LockSecond(s) ==
  /\ pc[s] = "lock2" /\ SelectForUpdate(s, SecondLock(s))
  /\ Goto(s, "query")
  /\ UNCHANGED <<v_source_balance, tables>>

Balance(a) == IF a \in Accounts THEN balance[a] ELSE NULL

(* 4. Re-query under the locks. *)
QueryBalance(s) ==
  /\ pc[s] = "query"
  /\ v_source_balance' = [v_source_balance EXCEPT ![s] = Balance(source(s))]
  /\ Goto(s, "post")
  /\ UNCHANGED <<holder, tables>>

(* v_source_balance < p_transfer_amount is not true of a NULL balance, so   *)
(* only a row that is there can be short.                                   *)
InsufficientFunds(s) == v_source_balance[s] # NULL /\ v_source_balance[s] < amount(s)

(* RAISE check_violation, trapped at the end of the block. *)
RejectTransfer(s) ==
  /\ pc[s] = "post" /\ InsufficientFunds(s)
  /\ failed_transactions' = failed_transactions \union {key(s)}
  /\ ReleaseLocks(s) /\ Goto(s, "false")
  /\ UNCHANGED <<v_source_balance, balance, ledger_entries, processed_transactions>>

Entry(s, a, t) == [call |-> s, account |-> a, type |-> t, amount |-> amount(s)]

(* mutant: the credit is posted to the ledger but the balance is not updated *)
NewBalanceNoCredit(s) ==
  [a \in Accounts |-> balance[a] - (IF a = source(s) THEN amount(s) ELSE 0)]

(* 6. The two UPDATEs; an id without a row updates nothing. *)
NewBalance(s) ==
  [a \in Accounts |-> balance[a] - (IF a = source(s) THEN amount(s) ELSE 0)
                                 + (IF a = dest(s) THEN amount(s) ELSE 0)]

(* mutant: no unique key on the idempotency key *)
DuplicateKeyUnnoticed(s) == FALSE

(* The INSERT of step 7 finds the key of a transfer that committed since    *)
(* step 1 looked.                                                           *)
DuplicateKey(s) == key(s) \in processed_transactions

(* 5.-7. The writes, made visible together when the call returns TRUE. *)
PostTransfer(s) ==
  /\ pc[s] = "post" /\ ~InsufficientFunds(s) /\ ~DuplicateKey(s)
  /\ ledger_entries' = ledger_entries \union
       {Entry(s, source(s), "DEBIT"), Entry(s, dest(s), "CREDIT")}
  /\ balance' = NewBalance(s)
  /\ processed_transactions' = processed_transactions \union {key(s)}
  /\ ReleaseLocks(s) /\ Goto(s, "true")
  /\ UNCHANGED <<v_source_balance, failed_transactions>>

(* WHEN OTHERS: the unique violation, or a failure of the database during   *)
(* any statement; everything is undone.                                     *)
FailOther(s) ==
  /\ pc[s] \in {"check", "lock1", "lock2", "query", "post"}
  /\ ReleaseLocks(s) /\ Goto(s, "false")
  /\ UNCHANGED <<v_source_balance, tables>>

DuplicateFails(s) ==
  pc[s] = "post" /\ ~InsufficientFunds(s) /\ DuplicateKey(s) /\ FailOther(s)

Step(s) ==
  \/ CheckIdempotency(s) \/ LockFirst(s) \/ LockSecond(s) \/ QueryBalance(s)
  \/ RejectTransfer(s) \/ PostTransfer(s) \/ DuplicateFails(s)

Done == (\A s \in Sessions : pc[s] \in {"true", "false"}) /\ UNCHANGED vars

Next == (\E s \in Sessions : Step(s) \/ FailOther(s)) \/ Done

(* A session runs on unless it waits for a lock; the lock queue is fair.    *)
Spec == Init /\ [][Next]_vars /\ \A s \in Sessions : SF_vars(Step(s))

(* The same with a database in which no statement fails by itself.          *)
HealthySpec == Init /\ [][(\E s \in Sessions : Step(s)) \/ Done]_vars

-----------------------------------------------------------------------------
(* No account is ever overdrawn, however the checks of concurrent transfers *)
(* interleave with each other's updates (steps 3 and 4).                    *)
NoOverdraft == \A a \in Accounts : balance[a] >= 0

(* Step 1: a request is posted at most once, also when a retry overlaps the *)
(* call it repeats.                                                         *)
PostedOnce ==
  \A e, f \in ledger_entries : key(e.call) = key(f.call) => e.call = f.call

Posted(a, t) == {e \in ledger_entries : e.account = a /\ e.type = t}
Total(S) == SumFunction([e \in S |-> e.amount])

(* Step 6: the cached balance of an account is what its ledger entries add  *)
(* up to.                                                                   *)
BalanceMatchesLedger ==
  \A a \in Accounts :
    balance[a] = Opening[a] + Total(Posted(a, "CREDIT")) - Total(Posted(a, "DEBIT"))

(* Step 2: the locks cannot end up in a circle, so every call returns.      *)
EveryCallReturns == <>(\A s \in Sessions : pc[s] \in {"true", "false"})

(* Lines 51 and 58, "The Double-Entry Ledger Insert" and "Materialize the   *)
(* View": a debit and an equal credit reach the cached balances together,   *)
(* which then neither gain nor lose money.                                  *)
MoneyConserved == SumFunction(balance) = SumFunction(Opening)
-----------------------------------------------------------------------------
(* What the runs give the constants: opposite transfers between accounts 1  *)
(* and 2, a retry of the first, and one that competes for the money of 1.   *)
R(k, a, b, x) == [key |-> k, source |-> a, dest |-> b, amount |-> x]
MCOpening == <<2, 1, 0>>
MCRequest ==
  [s \in Sessions |-> CASE s \in {"pay", "retry"} -> R(1, 2, 1, 1)
                       [] s = "back" -> R(2, 1, 2, 2)
                       [] s = "spend" -> R(3, 1, 3, 2)]

(* A source id that has no row in accounts. *)
MCUnknownSource == [MCRequest EXCEPT !["pay"].source = 9]
=============================================================================
