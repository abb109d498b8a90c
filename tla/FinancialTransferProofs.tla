----------------------- MODULE FinancialTransferProofs -----------------------
(* For every set of accounts and of concurrent calls: no account is         *)
(* overdrawn, no request is posted twice, the balances are those of the     *)
(* ledger, and as long as every account has a row no money is lost.         *)
EXTENDS FinancialTransfer, Lemmas

(* A call past LockFirst or LockSecond still holds the rows it locked.      *)
LocksHeld ==
  \A s \in Sessions : \A a \in Accounts :
    /\ pc[s] = "lock2" /\ a = FirstLock(s) => holder[a] = s
    /\ pc[s] \in {"query", "post"} /\ a \in {source(s), dest(s)} => holder[a] = s

(* So the balance it has read is not stale when it posts.                   *)
ReadIsFresh ==
  \A s \in Sessions :
    pc[s] = "post" /\ source(s) \in Accounts => v_source_balance[s] = balance[source(s)]

(* Whoever has posted entries has recorded its key. *)
KeysRecorded == \A e \in ledger_entries : key(e.call) \in processed_transactions

IInv == TypeOK /\ NoOverdraft /\ LocksHeld /\ ReadIsFresh /\ KeysRecorded /\ PostedOnce

(* The arguments of a call are what the procedure declares.                 *)
LEMMA RequestType ==
  ASSUME NEW s \in Sessions
  PROVE  key(s) \in Nat /\ source(s) \in Nat /\ dest(s) \in Nat /\ amount(s) \in Nat
  BY TransferAssumption DEF key, source, dest, amount

(* Before any call, all balances are the opening ones and no lock is held.  *)
LEMMA InitInv == Init => IInv
<1> SUFFICES ASSUME Init PROVE IInv
  OBVIOUS
<1> USE TransferAssumption DEF Init, NULL
<1>1. TypeOK
  BY DEF TypeOK
<1>2. NoOverdraft /\ LocksHeld /\ ReadIsFresh /\ KeysRecorded /\ PostedOnce
  BY DEF NoOverdraft, LocksHeld, ReadIsFresh, KeysRecorded, PostedOnce
<1> QED BY <1>1, <1>2 DEF IInv

(* Taking a row lock takes nothing from another call.                       *)
LEMMA SelectKeeps ==
  ASSUME IInv, NEW s \in Sessions, NEW a, SelectForUpdate(s, a)
  PROVE  /\ holder' \in [Accounts -> Sessions \union {NoOne}]
         /\ a \in Accounts => holder'[a] = s
         /\ \A t \in Sessions, c \in Accounts : holder[c] = t => holder'[c] = t
  BY TransferAssumption DEF IInv, TypeOK, SelectForUpdate

(* A SELECT ... FOR UPDATE keeps the invariant, whether it gets its row or not.*)
LEMMA LockInv ==
  ASSUME IInv, NEW s \in Sessions, LockFirst(s) \/ LockSecond(s)
  PROVE  IInv'
<1> PICK a : /\ a = IF pc[s] = "lock1" THEN FirstLock(s) ELSE SecondLock(s)
             /\ SelectForUpdate(s, a)
  BY DEF LockFirst, LockSecond
<1>1. /\ holder' \in [Accounts -> Sessions \union {NoOne}]
      /\ a \in Accounts => holder'[a] = s
      /\ \A t \in Sessions, c \in Accounts : holder[c] = t => holder'[c] = t
  BY SelectKeeps
<1>2. /\ pc[s] \in {"lock1", "lock2"}
      /\ pc' = [pc EXCEPT ![s] = IF pc[s] = "lock1" THEN "lock2" ELSE "query"]
      /\ UNCHANGED <<v_source_balance, tables>>
  BY DEF LockFirst, LockSecond, Goto
<1> USE DEF IInv, tables
<1>3. TypeOK'
  BY <1>1, <1>2 DEF TypeOK
<1>4. LocksHeld'
  BY <1>1, <1>2 DEF LocksHeld, TypeOK, FirstLock, SecondLock, source, dest
<1>5. (NoOverdraft /\ ReadIsFresh /\ KeysRecorded /\ PostedOnce)'
  BY <1>2 DEF TypeOK, NoOverdraft, ReadIsFresh, KeysRecorded, PostedOnce, source, key
<1> QED BY <1>3, <1>4, <1>5

(* A call that ends frees its own rows only. *)
LEMMA ReleaseInv ==
  ASSUME IInv, NEW s \in Sessions, ReleaseLocks(s), NEW r \in {"true", "false"}, Goto(s, r)
  PROVE  /\ pc' \in [Sessions -> {"check", "lock1", "lock2", "query", "post", "true", "false"}]
         /\ holder' \in [Accounts -> Sessions \union {NoOne}]
         /\ LocksHeld'
<1>1. /\ pc' \in [Sessions -> {"check", "lock1", "lock2", "query", "post", "true", "false"}]
      /\ holder' \in [Accounts -> Sessions \union {NoOne}]
  BY DEF IInv, TypeOK, ReleaseLocks, Goto
<1>2. LocksHeld'
  BY DEF IInv, TypeOK, ReleaseLocks, Goto, LocksHeld, FirstLock, source, dest
<1> QED BY <1>1, <1>2

(* The writes keep it: the balance they were checked against is still current.*)
LEMMA PostInv ==
  ASSUME IInv, NEW s \in Sessions, PostTransfer(s)
  PROVE  IInv'
<1> USE DEF IInv
<1>1. /\ key(s) \in Nat /\ source(s) \in Nat /\ dest(s) \in Nat /\ amount(s) \in Nat
  BY RequestType
<1>2. /\ pc[s] = "post" /\ ~InsufficientFunds(s) /\ ~DuplicateKey(s)
      /\ ledger_entries' = ledger_entries \union
           {Entry(s, source(s), "DEBIT"), Entry(s, dest(s), "CREDIT")}
      /\ balance' = NewBalance(s)
      /\ processed_transactions' = processed_transactions \union {key(s)}
      /\ ReleaseLocks(s) /\ Goto(s, "true")
      /\ UNCHANGED <<v_source_balance, failed_transactions>>
  BY DEF PostTransfer
<1>3. /\ pc' \in [Sessions -> {"check", "lock1", "lock2", "query", "post", "true", "false"}]
      /\ holder' \in [Accounts -> Sessions \union {NoOne}]
      /\ LocksHeld'
  BY <1>2, ReleaseInv
<1>4. \A a \in Accounts : /\ balance'[a] \in Int
                          /\ balance'[a] >= 0
  <2> SUFFICES ASSUME NEW a \in Accounts PROVE balance'[a] \in Int /\ balance'[a] >= 0
    OBVIOUS
  <2>1. balance[a] \in Int /\ balance[a] >= 0
    BY DEF TypeOK, NoOverdraft
  <2>2. a = source(s) => balance[a] >= amount(s)
    BY <1>1, <1>2, <2>1 DEF ReadIsFresh, InsufficientFunds, NULL
  <2>3. balance'[a] = balance[a] - (IF a = source(s) THEN amount(s) ELSE 0)
                                 + (IF a = dest(s) THEN amount(s) ELSE 0)
    BY <1>2 DEF NewBalance
  <2> QED BY <1>1, <2>1, <2>2, <2>3
<1>5. NoOverdraft'
  BY <1>4 DEF NoOverdraft
<1>6. TypeOK'
  <2>1. balance' \in [Accounts -> Int]
    BY <1>2, <1>4 DEF NewBalance
  <2>2. ledger_entries' \subseteq Entries
    BY <1>1, <1>2 DEF TypeOK, Entries, Entry
  <2> QED BY <1>1, <1>2, <1>3, <2>1, <2>2 DEF TypeOK
<1>7. ReadIsFresh'
  <2> SUFFICES ASSUME NEW t \in Sessions, pc'[t] = "post", source(t) \in Accounts
               PROVE  v_source_balance[t] = balance'[source(t)]
    BY <1>2 DEF ReadIsFresh, source
  <2>1. t # s /\ pc[t] = "post"
    BY <1>2 DEF Goto, TypeOK
  <2>2. source(t) # source(s) /\ source(t) # dest(s)
    BY <1>2, <2>1 DEF LocksHeld
  <2>3. balance'[source(t)] = balance[source(t)]
    BY <1>2, <2>2 DEF NewBalance, TypeOK
  <2> QED BY <2>1, <2>3 DEF ReadIsFresh
<1>8. KeysRecorded'
  BY <1>2 DEF KeysRecorded, Entry, key
<1>9. PostedOnce'
  <2> SUFFICES ASSUME NEW e \in ledger_entries', NEW f \in ledger_entries',
                      key(e.call) = key(f.call)
               PROVE  e.call = f.call
    BY DEF PostedOnce, key
  <2>1. \A g \in ledger_entries' : g \in ledger_entries \/ g.call = s
    BY <1>2 DEF Entry
  <2>2. \A g \in ledger_entries : key(g.call) # key(s)
    BY <1>2 DEF KeysRecorded, DuplicateKey
  <2> QED BY <2>1, <2>2 DEF PostedOnce
<1> QED BY <1>3, <1>5, <1>6, <1>7, <1>8, <1>9

(* Every statement keeps the invariant.                                     *)
LEMMA StepInv == IInv /\ [Next]_vars => IInv'
<1> SUFFICES ASSUME IInv, [Next]_vars PROVE IInv'
  OBVIOUS
<1> USE DEF IInv
<1>1. ASSUME NEW s \in Sessions, CheckIdempotency(s) PROVE IInv'
  <2> USE <1>1 DEF CheckIdempotency, Goto, tables, TypeOK
  <2>1. TypeOK' /\ NoOverdraft'
    BY DEF NoOverdraft
  <2>2. LocksHeld'
    BY DEF LocksHeld, FirstLock, source, dest
  <2>3. (ReadIsFresh /\ KeysRecorded /\ PostedOnce)'
    BY DEF ReadIsFresh, KeysRecorded, PostedOnce, source, key
  <2> QED BY <2>1, <2>2, <2>3
<1>2. ASSUME NEW s \in Sessions, QueryBalance(s) PROVE IInv'
  <2> USE <1>2 DEF QueryBalance, Goto, tables, TypeOK, NULL
  <2>1. TypeOK' /\ NoOverdraft'
    BY DEF NoOverdraft, Balance
  <2>2. LocksHeld'
    BY DEF LocksHeld, FirstLock, source, dest
  <2>3. ReadIsFresh'
    BY DEF ReadIsFresh, source, Balance
  <2>4. (KeysRecorded /\ PostedOnce)'
    BY DEF KeysRecorded, PostedOnce, key
  <2> QED BY <2>1, <2>2, <2>3, <2>4
<1>3. ASSUME NEW s \in Sessions, RejectTransfer(s) \/ FailOther(s) PROVE IInv'
  <2>1. /\ ReleaseLocks(s) /\ Goto(s, "false")
        /\ UNCHANGED <<v_source_balance, balance, ledger_entries, processed_transactions>>
        /\ failed_transactions' \subseteq failed_transactions \union {key(s)}
    BY <1>3 DEF RejectTransfer, FailOther, tables
  <2>2. /\ pc' \in [Sessions -> {"check", "lock1", "lock2", "query", "post", "true", "false"}]
        /\ holder' \in [Accounts -> Sessions \union {NoOne}]
        /\ LocksHeld'
    BY <2>1, ReleaseInv
  <2>3. TypeOK'
    BY <2>1, <2>2, RequestType DEF TypeOK
  <2>4. ReadIsFresh'
    BY <2>1 DEF ReadIsFresh, TypeOK, Goto, source
  <2>5. (NoOverdraft /\ KeysRecorded /\ PostedOnce)'
    BY <2>1 DEF NoOverdraft, KeysRecorded, PostedOnce, key
  <2> QED BY <2>2, <2>3, <2>4, <2>5
<1>4. CASE UNCHANGED vars
  BY <1>4 DEF vars, TypeOK, NoOverdraft, LocksHeld, ReadIsFresh, KeysRecorded,
              PostedOnce, FirstLock, source, dest, key
<1> QED
  BY <1>1, <1>2, <1>3, <1>4, LockInv, PostInv DEF Next, Step, DuplicateFails, Done

(* The strengthened invariant holds in every reachable state. *)
THEOREM Invariance == Spec => []IInv
<1>1. Init => IInv
  BY InitInv
<1>2. IInv /\ [Next]_vars => IInv'
  BY StepInv
<1> QED BY <1>1, <1>2, PTL DEF Spec

(* However many transfers run concurrently, the check of step 4 is made     *)
(* under locks that still hold when step 6 takes the money.                 *)
THEOREM NeverOverdrawn == Spec => []NoOverdraft
<1>1. IInv => NoOverdraft
  BY DEF IInv
<1> QED BY <1>1, Invariance, PTL

(* The unique key catches the retry that step 1 could not see.              *)
THEOREM NeverPostedTwice == Spec => []PostedOnce
<1>1. IInv => PostedOnce
  BY DEF IInv
<1> QED BY <1>1, Invariance, PTL

-----------------------------------------------------------------------------
(* A total grows by the amount of a new entry.                              *)
LEMMA TotalAdd ==
  ASSUME NEW S, IsFiniteSet(S), \A f \in S : f.amount \in Int, NEW e, e \notin S, e.amount \in Int
  PROVE  Total(S \union {e}) = Total(S) + e.amount
<1> DEFINE T == S \union {e}
           f == [x \in T |-> x.amount]
           g == [x \in S |-> x.amount]
<1>1. IsFiniteSet(T) /\ e \in T /\ T \ {e} = S
  BY FS_AddElement
<1>2. (\A x \in T : f[x] \in Int) /\ (\A x \in S : f[x] \in Int /\ f[x] = g[x]) /\ f[e] = e.amount
  OBVIOUS
<1>3. Total(T) = SumFunctionOnSet(f, T) /\ Total(S) = SumFunctionOnSet(g, S)
  BY DEF Total, SumFunction
<1> HIDE DEF T, f, g
<1>4. SumFunctionOnSet(f, T) = f[e] + SumFunctionOnSet(f, S)
  BY <1>1, <1>2, SumSplit
<1>5. SumFunctionOnSet(f, S) = SumFunctionOnSet(g, S) /\ SumFunctionOnSet(f, S) \in Int
  BY <1>2, SumSame, SumInt
<1>6. Total(T) = Total(S) + e.amount
  BY <1>2, <1>3, <1>4, <1>5
<1> QED BY <1>6 DEF T

(* The ledger stays finite, which is what its totals need.                  *)
LedgerInv == IsFiniteSet(ledger_entries) /\ BalanceMatchesLedger

(* The entries of an account have a total.                                  *)
LEMMA TotalInt ==
  ASSUME IInv, LedgerInv, NEW a, NEW t
  PROVE  /\ IsFiniteSet(Posted(a, t)) /\ \A e \in Posted(a, t) : e.amount \in Int
         /\ Total(Posted(a, t)) \in Int
<1>1. IsFiniteSet(Posted(a, t)) /\ \A e \in Posted(a, t) : e.amount \in Int
  BY FS_Subset DEF LedgerInv, Posted, IInv, TypeOK, Entries
<1> DEFINE g == [e \in Posted(a, t) |-> e.amount]
<1>2. \A e \in Posted(a, t) : g[e] \in Int
  BY <1>1
<1>3. SumFunctionOnSet(g, Posted(a, t)) \in Int
  BY <1>1, <1>2, SumInt
<1> QED BY <1>1, <1>3 DEF Total, SumFunction

(* What step 5 adds to the entries of an account it adds to its totals:     *)
(* the entries are new, as none of this call is there.                      *)
LEMMA PostedGrows ==
  ASSUME IInv, LedgerInv, NEW s \in Sessions, PostTransfer(s), NEW a \in Accounts
  PROVE  /\ Total(Posted(a, "DEBIT")') = Total(Posted(a, "DEBIT"))
                                           + (IF a = source(s) THEN amount(s) ELSE 0)
         /\ Total(Posted(a, "CREDIT")') = Total(Posted(a, "CREDIT"))
                                           + (IF a = dest(s) THEN amount(s) ELSE 0)
<1> DEFINE d == Entry(s, source(s), "DEBIT")
           c == Entry(s, dest(s), "CREDIT")
<1>1. ledger_entries' = ledger_entries \union {d, c}
  BY DEF PostTransfer
<1>2. d \notin ledger_entries /\ c \notin ledger_entries
  BY DEF PostTransfer, DuplicateKey, IInv, KeysRecorded, Entry
<1>3. /\ d.account = source(s) /\ d.type = "DEBIT" /\ d.amount = amount(s)
      /\ c.account = dest(s) /\ c.type = "CREDIT" /\ c.amount = amount(s)
  BY DEF Entry
<1> HIDE DEF d, c
<1>4. amount(s) \in Int
  BY RequestType
<1>5. ASSUME NEW t PROVE /\ IsFiniteSet(Posted(a, t)) /\ \A e \in Posted(a, t) : e.amount \in Int
                         /\ Total(Posted(a, t)) \in Int
  BY TotalInt
<1>6. Posted(a, "DEBIT")' = IF a = source(s) THEN Posted(a, "DEBIT") \union {d} ELSE Posted(a, "DEBIT")
  BY <1>1, <1>3 DEF Posted
<1>7. Posted(a, "CREDIT")' = IF a = dest(s) THEN Posted(a, "CREDIT") \union {c} ELSE Posted(a, "CREDIT")
  BY <1>1, <1>3 DEF Posted
<1>8. d \notin Posted(a, "DEBIT") /\ c \notin Posted(a, "CREDIT")
  BY <1>2 DEF Posted
<1>9. Total(Posted(a, "DEBIT") \union {d}) = Total(Posted(a, "DEBIT")) + amount(s)
  BY <1>3, <1>4, <1>5, <1>8, TotalAdd
<1>10. Total(Posted(a, "CREDIT") \union {c}) = Total(Posted(a, "CREDIT")) + amount(s)
  BY <1>3, <1>4, <1>5, <1>8, TotalAdd
<1>11. Total(Posted(a, "DEBIT")') = Total(Posted(a, "DEBIT")) + (IF a = source(s) THEN amount(s) ELSE 0)
  <2>1. Total(Posted(a, "DEBIT")) \in Int
    BY <1>5
  <2>2. CASE a = source(s)
    BY <1>6, <1>9, <2>2
  <2>3. CASE a # source(s)
    BY <1>6, <2>1, <2>3
  <2> QED BY <2>2, <2>3
<1>12. Total(Posted(a, "CREDIT")') = Total(Posted(a, "CREDIT")) + (IF a = dest(s) THEN amount(s) ELSE 0)
  <2>1. Total(Posted(a, "CREDIT")) \in Int
    BY <1>5
  <2>2. CASE a = dest(s)
    BY <1>7, <1>10, <2>2
  <2>3. CASE a # dest(s)
    BY <1>7, <2>1, <2>3
  <2> QED BY <2>2, <2>3
<1> QED BY <1>11, <1>12

(* The balances follow the ledger: nothing else writes the two tables.      *)
LEMMA LedgerStep == IInv /\ LedgerInv /\ [Next]_vars => LedgerInv'
<1> SUFFICES ASSUME IInv, LedgerInv, [Next]_vars PROVE LedgerInv'
  OBVIOUS
<1>1. ASSUME NEW s \in Sessions, PostTransfer(s) PROVE LedgerInv'
  <2>1. IsFiniteSet(ledger_entries')
    <3>1. ledger_entries' =
            (ledger_entries \union {Entry(s, source(s), "DEBIT")}) \union {Entry(s, dest(s), "CREDIT")}
      BY <1>1 DEF PostTransfer
    <3> QED BY <3>1, FS_AddElement DEF LedgerInv
  <2>2. ASSUME NEW a \in Accounts
        PROVE  balance'[a] = Opening[a] + Total(Posted(a, "CREDIT")') - Total(Posted(a, "DEBIT")')
    <3> DEFINE c == Total(Posted(a, "CREDIT"))
               d == Total(Posted(a, "DEBIT"))
               x == IF a = dest(s) THEN amount(s) ELSE 0
               y == IF a = source(s) THEN amount(s) ELSE 0
    <3>1. balance[a] = Opening[a] + c - d /\ balance'[a] = balance[a] - y + x
      BY <1>1 DEF LedgerInv, BalanceMatchesLedger, PostTransfer, NewBalance
    <3>2. Total(Posted(a, "CREDIT")') = c + x /\ Total(Posted(a, "DEBIT")') = d + y
      BY <1>1, PostedGrows
    <3>3. c \in Int /\ d \in Int /\ x \in Int /\ y \in Int /\ Opening[a] \in Int
      BY TotalInt, RequestType, TransferAssumption
    <3> HIDE DEF c, d, x, y
    <3> QED BY <3>1, <3>2, <3>3
  <2> QED BY <2>1, <2>2 DEF LedgerInv, BalanceMatchesLedger, Posted
<1>2. CASE UNCHANGED <<balance, ledger_entries>>
  BY <1>2 DEF LedgerInv, BalanceMatchesLedger, Posted
<1> QED
  BY <1>1, <1>2 DEF Next, Step, Done, vars, tables, CheckIdempotency, LockFirst, LockSecond, QueryBalance,
                    RejectTransfer, DuplicateFails, FailOther

(* However calls interleave, fail and are repeated, the balance that step 6 *)
(* caches for an account is what its ledger entries add up to.              *)
THEOREM BalancesAreTheLedgers == Spec => []BalanceMatchesLedger
<1>1. Init => LedgerInv
  <2> SUFFICES ASSUME Init PROVE LedgerInv
    OBVIOUS
  <2>1. ASSUME NEW a, NEW t PROVE Posted(a, t) = {}
    BY DEF Init, Posted
  <2>2. Total({}) = 0
    BY SumEmpty DEF Total, SumFunction
  <2>3. \A a \in Accounts : balance[a] = Opening[a] /\ Opening[a] \in Int
    BY TransferAssumption DEF Init
  <2>4. BalanceMatchesLedger
    <3> SUFFICES ASSUME NEW a \in Accounts
                 PROVE  balance[a] = Opening[a] + Total(Posted(a, "CREDIT")) - Total(Posted(a, "DEBIT"))
      BY DEF BalanceMatchesLedger
    <3>1. Total(Posted(a, "CREDIT")) = 0 /\ Total(Posted(a, "DEBIT")) = 0
      BY <2>1, <2>2
    <3> QED BY <2>3, <3>1
  <2> QED BY <2>4, FS_EmptySet DEF Init, LedgerInv
<1>2. IInv /\ LedgerInv /\ [Next]_vars => LedgerInv'
  BY LedgerStep
<1>3. LedgerInv => BalanceMatchesLedger
  BY DEF LedgerInv
<1> QED BY <1>1, <1>2, <1>3, Invariance, PTL DEF Spec

(* What step 6 takes from one account it gives to the other.                *)
LEMMA PostKeepsSum ==
  ASSUME IInv, NEW s \in Sessions, source(s) \in Accounts, dest(s) \in Accounts
  PROVE  SumFunctionOnSet(NewBalance(s), Accounts) = SumFunctionOnSet(balance, Accounts)
<1> DEFINE m == [balance EXCEPT ![source(s)] = @ - amount(s)]
           n == [m EXCEPT ![dest(s)] = @ + amount(s)]
<1>1. amount(s) \in Int /\ balance \in [Accounts -> Int] /\ IsFiniteSet(Accounts)
  BY RequestType, TransferAssumption DEF IInv, TypeOK
<1>2. /\ \A a \in Accounts : balance[a] \in Int
      /\ m[source(s)] = balance[source(s)] - amount(s) /\ m[source(s)] \in Int
      /\ \A a \in Accounts \ {source(s)} : m[a] = balance[a]
  BY <1>1
<1>3. /\ \A a \in Accounts : m[a] \in Int
      /\ n[dest(s)] = m[dest(s)] + amount(s) /\ n[dest(s)] \in Int
      /\ \A a \in Accounts \ {dest(s)} : n[a] = m[a]
  BY <1>1
<1>4. NewBalance(s) = n
  <2> SUFFICES ASSUME NEW a \in Accounts
               PROVE  n[a] = balance[a] - (IF a = source(s) THEN amount(s) ELSE 0)
                                        + (IF a = dest(s) THEN amount(s) ELSE 0)
    BY <1>1 DEF NewBalance
  <2>1. n[a] = IF a = dest(s) THEN m[a] + amount(s) ELSE m[a]
    BY <1>1
  <2>2. m[a] = IF a = source(s) THEN balance[a] - amount(s) ELSE balance[a]
    BY <1>1
  <2>3. balance[a] \in Int
    BY <1>1
  <2> HIDE DEF m, n
  <2> QED BY <1>1, <2>1, <2>2, <2>3
<1> HIDE DEF m, n
<1>5. SumFunctionOnSet(m, Accounts) = SumFunctionOnSet(balance, Accounts) - balance[source(s)] + m[source(s)]
  BY <1>1, <1>2, SumChange
<1>6. SumFunctionOnSet(n, Accounts) = SumFunctionOnSet(m, Accounts) - m[dest(s)] + n[dest(s)]
  BY <1>1, <1>3, SumChange
<1>7. SumFunctionOnSet(balance, Accounts) \in Int /\ balance[source(s)] \in Int /\ m[dest(s)] \in Int
  BY <1>1, <1>2, <1>3, SumInt
<1> QED BY <1>1, <1>2, <1>3, <1>4, <1>5, <1>6, <1>7

(* As long as both ids of every request have a row, the cached balances     *)
(* neither gain nor lose money.  Without that condition it is false: the    *)
(* run FinancialTransferUnknown shows it.                                   *)
THEOREM MoneyIsConserved ==
  ASSUME \A s \in Sessions : source(s) \in Accounts /\ dest(s) \in Accounts
  PROVE  Spec => []MoneyConserved
<1> DEFINE Kept == DOMAIN balance = Accounts /\ MoneyConserved
<1>1. Init => Kept
  BY TransferAssumption DEF Init, MoneyConserved
<1>2. IInv /\ Kept /\ [Next]_vars => Kept'
  <2> SUFFICES ASSUME IInv, Kept, [Next]_vars PROVE Kept'
    OBVIOUS
  <2>1. ASSUME NEW s \in Sessions, PostTransfer(s) PROVE Kept'
    <3>1. balance' = NewBalance(s) /\ DOMAIN balance' = Accounts
      BY <2>1 DEF PostTransfer, NewBalance
    <3>2. SumFunctionOnSet(balance', Accounts) = SumFunctionOnSet(balance, Accounts)
      BY <3>1, PostKeepsSum
    <3> QED BY <3>1, <3>2 DEF MoneyConserved, SumFunction
  <2>2. CASE UNCHANGED balance
    BY <2>2 DEF MoneyConserved
  <2> QED
    BY <2>1, <2>2 DEF Next, Step, Done, vars, tables, CheckIdempotency, LockFirst, LockSecond,
                      QueryBalance, RejectTransfer, DuplicateFails, FailOther
<1>3. Kept => MoneyConserved
  OBVIOUS
<1> QED BY <1>1, <1>2, <1>3, Invariance, PTL DEF Spec
=============================================================================
