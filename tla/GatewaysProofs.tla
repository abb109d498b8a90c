--------------------------- MODULE GatewaysProofs ---------------------------
(* The gateways, for all values of their constants: the rate limit for any  *)
(* number of handlers and addresses, any rate and any capacity; the         *)
(* addresses of forwarded frames; and the order of policy statements.       *)
EXTENDS MCGateways, Lemmas, TLAPS

-----------------------------------------------------------------------------
(* The rate limiter.                                                        *)

(* No time stamp lies in the future. *)
InThePast ==
  /\ since <= clock
  /\ \A a \in Addrs : lastAdmit[a] <= clock
  /\ \A b \in Buckets : lastRefill[b] <= clock

(* The map holds buckets made for their address. *)
OwnBucket ==
  \A a \in Addrs : visitors[a] # NoBucket => \E h \in Handlers : visitors[a] = <<a, h>>

(* A bucket that waits for LoadOrStore is full and not in the map. *)
NewBucket ==
  \A h \in Handlers : pc[h] = "store" =>
    /\ bucket[h] = <<addr[h], h>> /\ tokens[bucket[h]] = Capacity
    /\ visitors[addr[h]] # bucket[h]

(* What a bucket granted since the observer started, and still holds, is    *)
(* covered by its capacity and its refills.                                 *)
Spent(a) ==
  LET b == visitors[a] IN
  \/ admitted[a] = 0
  \/ /\ b # NoBucket /\ since <= lastRefill[b]
     /\ admitted[a] * Unit + tokens[b] <= Capacity + Rate * (lastRefill[b] - since)

(* A bucket keeps what it was refilled with since its last grant. *)
Saved(a) ==
  LET b == visitors[a] IN
  b # NoBucket =>
    \/ tokens[b] = Capacity
    \/ Rate * (lastRefill[b] - lastAdmit[a]) <= tokens[b]

Accounts == \A a \in Addrs : Spent(a) /\ Saved(a)

(* A handler about to call Allow has a bucket. *)
BucketInUse == \A h \in Handlers : pc[h] = "allow" => visitors[addr[h]] # NoBucket

IInv ==
  TypeOK /\ InThePast /\ OwnBucket /\ NewBucket /\ BucketInUse /\ OneBucket /\ Accounts

-----------------------------------------------------------------------------

(* The refill of a span of time is a number of units.                       *)
LEMMA RefillIsNat ==
  ASSUME NEW x \in Nat, NEW y \in Nat, x <= y
  PROVE  Rate * (y - x) \in Nat
<1>1. Rate \in Nat /\ y - x \in Nat
  BY GatewayAssumption
<1> QED BY <1>1

(* The refill of a span is the sum of those of its parts.                   *)
LEMMA RefillSplits ==
  ASSUME NEW x \in Nat, NEW y \in Nat, NEW z \in Nat
  PROVE  /\ Rate * (x - z) = Rate * (x - y) + Rate * (y - z)
         /\ Rate * (y - z) \in Int
BY GatewayAssumption

(* One more grant costs one more token.                                     *)
LEMMA GrantCosts ==
  ASSUME NEW n \in Nat
  PROVE  (n + 1) * Unit = n * Unit + Unit /\ n * Unit \in Nat
BY GatewayAssumption

(* Allow's refill never loses a token below the capacity nor invents one. *)
LEMMA RefilledBounds ==
  ASSUME TypeOK, InThePast, NEW b \in Buckets
  PROVE  /\ Refilled(b) \in 0..Capacity
         /\ Rate * (clock - lastRefill[b]) \in Nat
         /\ Refilled(b) <= tokens[b] + Rate * (clock - lastRefill[b])
         /\ \/ Refilled(b) = Capacity
            \/ Refilled(b) = tokens[b] + Rate * (clock - lastRefill[b])
<1>1. /\ lastRefill[b] \in Nat /\ clock \in Nat /\ tokens[b] \in 0..Capacity
      /\ lastRefill[b] <= clock /\ Capacity \in Nat
  BY GatewayAssumption DEF TypeOK, InThePast
<1>2. Rate * (clock - lastRefill[b]) \in Nat
  BY <1>1, RefillIsNat
<1> QED BY <1>1, <1>2 DEF Refilled

(* The gateway starts with no buckets and all accounts balanced.            *)
LEMMA InitInv == Init => IInv
<1> SUFFICES ASSUME Init PROVE IInv
  OBVIOUS
<1>1. TypeOK /\ InThePast
  BY GatewayAssumption DEF Init, TypeOK, InThePast, PC
<1>2. OwnBucket /\ NewBucket /\ BucketInUse /\ OneBucket /\ Accounts
  BY DEF Init, OwnBucket, NewBucket, BucketInUse, OneBucket, Accounts, Spent, Saved
<1> QED BY <1>1, <1>2 DEF IInv

(* A new bucket is not yet in the map, so that no account changes. *)
LEMMA LoadMissedInv ==
  ASSUME IInv, NEW h \in Handlers, LoadMissed(h)
  PROVE  IInv'
<1> USE DEF IInv
<1> PICK a \in Addrs : a = addr[h]
  BY DEF TypeOK
<1> DEFINE b == <<a, h>>
<1>1. b \in Buckets /\ visitors[a] = NoBucket /\ Capacity \in Nat
  BY GatewayAssumption DEF LoadMissed, Buckets
<1>2. /\ bucket' = [bucket EXCEPT ![h] = b] /\ tokens' = [tokens EXCEPT ![b] = Capacity]
      /\ lastRefill' = [lastRefill EXCEPT ![b] = clock] /\ pc' = [pc EXCEPT ![h] = "store"]
      /\ UNCHANGED <<clock, visitors, addr, observer>>
  BY DEF LoadMissed
<1>3. \A c \in Addrs : visitors[c] # b
  BY <1>1, GatewayAssumption DEF OwnBucket, Buckets
<1>4. TypeOK'
  BY <1>1, <1>2 DEF TypeOK, PC, observer
<1>5. (InThePast /\ OwnBucket)'
  BY <1>1, <1>2 DEF InThePast, OwnBucket, TypeOK, observer
<1>6. (NewBucket /\ BucketInUse /\ OneBucket)'
  BY <1>1, <1>2, <1>3 DEF NewBucket, BucketInUse, OneBucket, TypeOK, Buckets
<1>7. \A c \in Addrs : visitors[c] # NoBucket =>
        tokens'[visitors[c]] = tokens[visitors[c]] /\ lastRefill'[visitors[c]] = lastRefill[visitors[c]]
  BY <1>1, <1>2, <1>3 DEF TypeOK
<1>8. Accounts'
  BY <1>2, <1>7 DEF Accounts, Spent, Saved, observer
<1> QED BY <1>4, <1>5, <1>6, <1>8

(* LoadOrStore keeps the invariant: the first handler's bucket stays, and the*)
(* others give theirs up.                                                   *)
LEMMA LoadOrStoreInv ==
  ASSUME IInv, NEW h \in Handlers, LoadOrStore(h)
  PROVE  IInv'
<1> USE DEF IInv
<1> PICK a \in Addrs : a = addr[h]
  BY DEF TypeOK
<1>1. CASE visitors[a] = NoBucket
  <2>1. /\ visitors' = [visitors EXCEPT ![a] = <<a, h>>] /\ bucket' = [bucket EXCEPT ![h] = <<a, h>>]
        /\ pc' = [pc EXCEPT ![h] = "allow"] /\ bucket[h] = <<a, h>>
        /\ UNCHANGED <<clock, tokens, lastRefill, addr, observer>>
    BY <1>1 DEF LoadOrStore, NewBucket
  <2>2. <<a, h>> \in Buckets /\ <<a, h>> # NoBucket /\ tokens[<<a, h>>] = Capacity
    BY <2>1, GatewayAssumption DEF Buckets, LoadOrStore, NewBucket
  <2>3. TypeOK'
    BY <2>1, <2>2 DEF TypeOK, PC, observer
  <2>4. InThePast'
    BY <2>1 DEF InThePast, observer
  <2>5. OwnBucket'
    BY <2>1 DEF OwnBucket, TypeOK
  <2>6. NewBucket'
    <3> SUFFICES ASSUME NEW g \in Handlers, pc[g] = "store", g # h
                 PROVE  /\ bucket[g] = <<addr[g], g>> /\ tokens[bucket[g]] = Capacity
                        /\ visitors'[addr[g]] # bucket[g]
      BY <2>1 DEF NewBucket, TypeOK
    <3>1. bucket[g] = <<addr[g], g>> /\ tokens[bucket[g]] = Capacity /\ visitors[addr[g]] # bucket[g]
      BY DEF NewBucket
    <3>2. <<addr[g], g>> # <<a, h>>
      OBVIOUS
    <3>3. visitors'[addr[g]] = <<a, h>> \/ visitors'[addr[g]] = visitors[addr[g]]
      BY <2>1 DEF TypeOK
    <3> QED BY <3>1, <3>2, <3>3
  <2>7. (BucketInUse /\ OneBucket)'
    BY <1>1, <2>1, <2>2 DEF BucketInUse, OneBucket, TypeOK
  <2>8. Accounts'
    BY <1>1, <2>1, <2>2 DEF Accounts, Spent, Saved, observer, TypeOK
  <2> QED BY <2>3, <2>4, <2>5, <2>6, <2>7, <2>8
<1>2. CASE visitors[a] # NoBucket
  <2>1. /\ visitors' = visitors /\ bucket' = [bucket EXCEPT ![h] = visitors[a]]
        /\ pc' = [pc EXCEPT ![h] = "allow"]
        /\ UNCHANGED <<clock, tokens, lastRefill, addr, observer>>
    BY <1>2 DEF LoadOrStore, TypeOK
  <2>2. TypeOK'
    BY <2>1 DEF TypeOK, PC, observer
  <2>3. (InThePast /\ OwnBucket /\ Accounts)'
    BY <2>1 DEF InThePast, OwnBucket, Accounts, Spent, Saved, observer
  <2>4. (NewBucket /\ BucketInUse /\ OneBucket)'
    BY <1>2, <2>1 DEF NewBucket, BucketInUse, OneBucket, TypeOK
  <2> QED BY <2>2, <2>3, <2>4
<1> QED BY <1>1, <1>2

(* Allow by handler h for address a leaves its bucket at the clock with t   *)
(* units; it remains to show that the account of a is right.                *)
LEMMA AllowInv ==
  ASSUME IInv, NEW h \in Handlers, pc[h] = "allow", NEW a \in Addrs, a = addr[h],
         NEW t \in 0..Capacity,
         tokens' = [tokens EXCEPT ![visitors[a]] = t],
         lastRefill' = [lastRefill EXCEPT ![visitors[a]] = clock],
         pc' = [pc EXCEPT ![h] = "idle"],
         UNCHANGED <<clock, visitors, addr, bucket, since>>,
         admitted' \in [Addrs -> Nat], lastAdmit' \in [Addrs -> 0..MaxTime],
         \A c \in Addrs \ {a} : admitted'[c] = admitted[c] /\ lastAdmit'[c] = lastAdmit[c],
         lastAdmit'[a] <= clock, Spent(a)', Saved(a)'
  PROVE  IInv'
<1> USE DEF IInv
<1>1. visitors[a] \in Buckets /\ clock \in 0..MaxTime /\ MaxTime \in Nat
  BY GatewayAssumption DEF BucketInUse, TypeOK
<1>2. \A c \in Addrs : visitors[c] # NoBucket /\ c # a => visitors[c] # visitors[a]
  BY DEF OwnBucket, BucketInUse
<1>3. TypeOK'
  BY <1>1 DEF TypeOK, PC
<1>4. InThePast'
  <2>1. \A c \in Addrs : lastAdmit'[c] <= clock
    BY DEF InThePast
  <2>2. \A b \in Buckets : lastRefill'[b] <= clock
    BY <1>1 DEF InThePast, TypeOK
  <2> QED BY <2>1, <2>2 DEF InThePast
<1>5. (OwnBucket /\ BucketInUse /\ OneBucket)'
  BY DEF OwnBucket, BucketInUse, OneBucket, TypeOK
<1>6. NewBucket'
  <2> SUFFICES ASSUME NEW g \in Handlers, pc[g] = "store"
               PROVE  tokens'[bucket[g]] = tokens[bucket[g]]
    BY DEF NewBucket, TypeOK
  <2>1. bucket[g] = <<addr[g], g>> /\ visitors[addr[g]] # bucket[g] /\ addr[g] \in Addrs
    BY DEF NewBucket, TypeOK
  <2>2. PICK k \in Handlers : visitors[a] = <<a, k>>
    BY DEF OwnBucket, BucketInUse
  <2>3. bucket[g] # visitors[a] /\ bucket[g] \in Buckets
    BY <2>1, <2>2, SMTT(60) DEF Buckets
  <2> QED BY <2>3 DEF TypeOK
<1>7. Accounts'
  <2> SUFFICES ASSUME NEW c \in Addrs, c # a PROVE Spent(c)' /\ Saved(c)'
    BY DEF Accounts
  <2>1. visitors[c] # NoBucket => /\ tokens'[visitors[c]] = tokens[visitors[c]]
                                  /\ lastRefill'[visitors[c]] = lastRefill[visitors[c]]
    BY <1>1, <1>2 DEF TypeOK
  <2> QED BY <2>1 DEF Accounts, Spent, Saved
<1> QED BY <1>3, <1>4, <1>5, <1>6, <1>7

(* The quantities of one call of Allow. *)
LEMMA AllowFacts ==
  ASSUME IInv, NEW a \in Addrs, visitors[a] # NoBucket, NEW b, b = visitors[a]
  PROVE  /\ b \in Buckets /\ Unit \in Nat /\ Unit > 0 /\ Capacity \in Nat
         /\ clock \in Nat /\ since \in Nat /\ since <= clock
         /\ lastRefill[b] \in Nat /\ lastRefill[b] <= clock
         /\ lastAdmit[a] \in Nat /\ admitted[a] \in Nat /\ tokens[b] \in 0..Capacity
         /\ Rate * (clock - since) \in Nat
         /\ Rate * (clock - since) = Rate * (clock - lastRefill[b]) + Rate * (lastRefill[b] - since)
         /\ Rate * (clock - lastAdmit[a])
              = Rate * (clock - lastRefill[b]) + Rate * (lastRefill[b] - lastAdmit[a])
         /\ Rate * (lastRefill[b] - since) \in Int /\ Rate * (lastRefill[b] - lastAdmit[a]) \in Int
<1>1. /\ b \in Buckets /\ Unit \in Nat /\ Unit > 0 /\ Capacity \in Nat
      /\ clock \in Nat /\ since \in Nat /\ since <= clock
      /\ lastRefill[b] \in Nat /\ lastRefill[b] <= clock
      /\ lastAdmit[a] \in Nat /\ admitted[a] \in Nat /\ tokens[b] \in 0..Capacity
  BY GatewayAssumption DEF IInv, TypeOK, InThePast
<1>2. Rate * (clock - since) \in Nat
  BY <1>1, RefillIsNat
<1> PICK c \in Nat, s \in Nat, l \in Nat, m \in Nat :
           c = clock /\ s = since /\ l = lastRefill[b] /\ m = lastAdmit[a]
  BY <1>1
<1>3. Rate * (c - s) = Rate * (c - l) + Rate * (l - s) /\ Rate * (l - s) \in Int
  BY ONLY RefillSplits, c \in Nat, s \in Nat, l \in Nat, ZenonT(60)
<1>4. Rate * (c - m) = Rate * (c - l) + Rate * (l - m) /\ Rate * (l - m) \in Int
  BY ONLY RefillSplits, c \in Nat, m \in Nat, l \in Nat, ZenonT(60)
<1> QED BY <1>1, <1>2, <1>3, <1>4

(* A granted request takes its token out of the refilled bucket.            *)
LEMMA GrantInv ==
  ASSUME IInv, NEW h \in Handlers, Grant(h)
  PROVE  IInv'
<1> PICK a \in Addrs : a = addr[h]
  BY DEF IInv, TypeOK
<1> PICK b : b = visitors[a]
  OBVIOUS
<1> PICK r : r = Refilled(b)
  OBVIOUS
<1> DEFINE D == Rate * (clock - lastRefill[b])
<1>1. b # NoBucket /\ bucket[h] = b /\ pc[h] = "allow"
  BY DEF IInv, BucketInUse, OneBucket, Grant
<1>2. /\ b \in Buckets /\ r \in 0..Capacity /\ D \in Nat /\ r <= tokens[b] + D
  BY <1>1, AllowFacts, RefilledBounds DEF IInv
<1>3. /\ r >= Unit /\ tokens' = [tokens EXCEPT ![b] = r - Unit]
      /\ lastRefill' = [lastRefill EXCEPT ![b] = clock] /\ pc' = [pc EXCEPT ![h] = "idle"]
      /\ admitted' = [admitted EXCEPT ![a] = @ + 1] /\ lastAdmit' = [lastAdmit EXCEPT ![a] = clock]
      /\ UNCHANGED <<clock, visitors, addr, bucket, since>>
  BY <1>1 DEF Grant
<1>4. /\ tokens'[b] = r - Unit /\ lastRefill'[b] = clock /\ admitted'[a] = admitted[a] + 1
      /\ lastAdmit'[a] = clock
  BY <1>2, <1>3 DEF IInv, TypeOK
<1>5. /\ Unit \in Nat /\ Unit > 0 /\ Capacity \in Nat /\ since <= clock
      /\ Rate * (clock - since) \in Nat /\ tokens[b] \in 0..Capacity /\ admitted[a] \in Nat
      /\ Rate * (clock - since) = D + Rate * (lastRefill[b] - since)
      /\ Rate * (lastRefill[b] - since) \in Int
      /\ (admitted[a] + 1) * Unit = admitted[a] * Unit + Unit /\ admitted[a] * Unit \in Nat
      /\ clock - clock = 0 /\ Rate * 0 = 0
  BY <1>1, AllowFacts, GrantCosts, GatewayAssumption
<1>6. (admitted[a] + 1) * Unit + (r - Unit) <= Capacity + Rate * (clock - since)
  <2>1. CASE admitted[a] = 0
    <3>1. admitted[a] * Unit = 0
      BY <1>5, <2>1
    <3> HIDE DEF D
    <3> QED BY <1>2, <1>3, <1>5, <3>1
  <2>2. CASE admitted[a] # 0
    <3>1. admitted[a] * Unit + tokens[b] <= Capacity + Rate * (lastRefill[b] - since)
      BY <2>2 DEF IInv, Accounts, Spent
    <3> HIDE DEF D
    <3> QED BY <1>2, <1>3, <1>5, <3>1
  <2> QED BY <2>1, <2>2
<1>7. Spent(a)'
  BY <1>1, <1>3, <1>4, <1>5, <1>6 DEF Spent
<1>8. Saved(a)'
  BY <1>2, <1>3, <1>4, <1>5 DEF Saved
<1>9. /\ admitted' \in [Addrs -> Nat] /\ lastAdmit' \in [Addrs -> 0..MaxTime]
      /\ \A c \in Addrs \ {a} : admitted'[c] = admitted[c] /\ lastAdmit'[c] = lastAdmit[c]
      /\ lastAdmit'[a] <= clock /\ r - Unit \in 0..Capacity
  BY <1>2, <1>3, <1>4, <1>5, GatewayAssumption DEF IInv, TypeOK
<1> QED BY <1>1, <1>3, <1>7, <1>8, <1>9, AllowInv

(* A refused request keeps what the refill has added.                       *)
LEMMA RefuseInv ==
  ASSUME IInv, NEW h \in Handlers, Refuse(h)
  PROVE  IInv'
<1> PICK a \in Addrs : a = addr[h]
  BY DEF IInv, TypeOK
<1> PICK b : b = visitors[a]
  OBVIOUS
<1> PICK r : r = Refilled(b)
  OBVIOUS
<1> DEFINE D == Rate * (clock - lastRefill[b])
<1>1. b # NoBucket /\ bucket[h] = b /\ pc[h] = "allow"
  BY DEF IInv, BucketInUse, OneBucket, Refuse
<1>2. /\ b \in Buckets /\ r \in 0..Capacity /\ D \in Nat /\ r <= tokens[b] + D
      /\ r = Capacity \/ r = tokens[b] + D
  BY <1>1, AllowFacts, RefilledBounds DEF IInv
<1>3. /\ tokens' = [tokens EXCEPT ![b] = r]
      /\ lastRefill' = [lastRefill EXCEPT ![b] = clock] /\ pc' = [pc EXCEPT ![h] = "idle"]
      /\ UNCHANGED <<clock, visitors, addr, bucket, since, admitted, lastAdmit>>
  BY <1>1 DEF Refuse, observer
<1>4. tokens'[b] = r /\ lastRefill'[b] = clock
  BY <1>2, <1>3 DEF IInv, TypeOK
<1>5. /\ Unit \in Nat /\ Capacity \in Nat /\ since <= clock
      /\ tokens[b] \in 0..Capacity /\ admitted[a] \in Nat
      /\ Rate * (clock - since) = D + Rate * (lastRefill[b] - since)
      /\ Rate * (lastRefill[b] - since) \in Int
      /\ Rate * (clock - lastAdmit[a]) = D + Rate * (lastRefill[b] - lastAdmit[a])
      /\ Rate * (lastRefill[b] - lastAdmit[a]) \in Int
      /\ admitted[a] * Unit \in Nat
  BY <1>1, AllowFacts, GrantCosts
<1>6. admitted[a] = 0 \/ admitted[a] * Unit + r <= Capacity + Rate * (clock - since)
  <2> SUFFICES ASSUME admitted[a] # 0
               PROVE  admitted[a] * Unit + r <= Capacity + Rate * (clock - since)
    OBVIOUS
  <2>1. admitted[a] * Unit + tokens[b] <= Capacity + Rate * (lastRefill[b] - since)
    BY DEF IInv, Accounts, Spent
  <2> HIDE DEF D
  <2> QED BY <1>2, <1>5, <2>1
<1>7. Spent(a)'
  BY <1>1, <1>3, <1>4, <1>5, <1>6 DEF Spent
<1>8. r = Capacity \/ Rate * (clock - lastAdmit[a]) <= r
  <2>1. tokens[b] = Capacity \/ Rate * (lastRefill[b] - lastAdmit[a]) <= tokens[b]
    BY <1>1 DEF IInv, Accounts, Saved
  <2> HIDE DEF D
  <2> QED BY <1>2, <1>5, <2>1
<1>9. Saved(a)'
  BY <1>3, <1>4, <1>8 DEF Saved
<1>10. /\ admitted' \in [Addrs -> Nat] /\ lastAdmit' \in [Addrs -> 0..MaxTime]
       /\ lastAdmit'[a] <= clock
  BY <1>3 DEF IInv, TypeOK, InThePast
<1> QED BY <1>1, <1>2, <1>3, <1>7, <1>9, <1>10, AllowInv

(* Every step keeps the invariant.                                          *)
LEMMA StepInv == IInv /\ [Next]_vars => IInv'
<1> SUFFICES ASSUME IInv, [Next]_vars PROVE IInv'
  OBVIOUS
<1> USE DEF IInv
<1>1. CASE Tick
  <2>1. TypeOK' /\ InThePast'
    BY <1>1, GatewayAssumption DEF Tick, gateway, observer, TypeOK, InThePast
  <2>2. (OwnBucket /\ NewBucket /\ BucketInUse /\ OneBucket /\ Accounts)'
    BY <1>1 DEF Tick, gateway, observer, OwnBucket, NewBucket, BucketInUse, OneBucket,
                Accounts, Spent, Saved
  <2> QED BY <2>1, <2>2
<1>2. CASE Observe
  <2>1. TypeOK' /\ InThePast'
    BY <1>2 DEF Observe, gateway, TypeOK, InThePast
  <2>2. (OwnBucket /\ NewBucket /\ BucketInUse /\ OneBucket /\ Accounts)'
    BY <1>2 DEF Observe, gateway, OwnBucket, NewBucket, BucketInUse, OneBucket,
                Accounts, Spent, Saved
  <2> QED BY <2>1, <2>2
<1>3. ASSUME NEW h \in Handlers, NEW a \in Addrs, Receive(h, a) PROVE IInv'
  <2>1. TypeOK' /\ InThePast'
    BY <1>3 DEF Receive, observer, TypeOK, InThePast, PC
  <2>2. (OwnBucket /\ Accounts)'
    BY <1>3 DEF Receive, observer, OwnBucket, Accounts, Spent, Saved
  <2>3. \A g \in Handlers : g = h \/ (pc'[g] = pc[g] /\ addr'[g] = addr[g])
    BY <1>3 DEF Receive, TypeOK
  <2>4. pc'[h] = "load" /\ UNCHANGED <<visitors, tokens, bucket>>
    BY <1>3 DEF Receive, TypeOK
  <2>5. (NewBucket /\ BucketInUse /\ OneBucket)'
    BY <2>3, <2>4 DEF NewBucket, BucketInUse, OneBucket
  <2> QED BY <2>1, <2>2, <2>5
<1>4. ASSUME NEW h \in Handlers, LoadFound(h) PROVE IInv'
  <2>1. TypeOK' /\ InThePast'
    BY <1>4 DEF LoadFound, observer, TypeOK, InThePast, PC
  <2>2. (OwnBucket /\ NewBucket /\ BucketInUse /\ OneBucket /\ Accounts)'
    BY <1>4 DEF LoadFound, observer, TypeOK, OwnBucket, NewBucket, BucketInUse, OneBucket,
                Accounts, Spent, Saved
  <2> QED BY <2>1, <2>2
<1>5. CASE UNCHANGED vars
  BY <1>5 DEF vars, gateway, observer, TypeOK, InThePast, OwnBucket, NewBucket, BucketInUse,
              OneBucket, Accounts, Spent, Saved
<1> QED
  BY <1>1, <1>2, <1>3, <1>4, <1>5, LoadMissedInv, LoadOrStoreInv, GrantInv, RefuseInv DEF Next, Handle

(* The account of an address bounds what it was granted. *)
LEMMA Limits == IInv => RateLimited
<1> SUFFICES ASSUME IInv, NEW a \in Addrs
             PROVE  admitted[a] * Unit <= Capacity + Rate * (clock - since)
  BY DEF RateLimited
<1>1. CASE admitted[a] = 0
  <2>1. /\ clock \in Nat /\ since \in Nat /\ since <= clock /\ Capacity \in Nat
        /\ admitted[a] * Unit = 0
    BY <1>1, GatewayAssumption DEF IInv, TypeOK, InThePast
  <2>2. Rate * (clock - since) \in Nat
    BY <2>1, RefillIsNat
  <2> QED BY <2>1, <2>2
<1>2. CASE admitted[a] # 0
  <2> PICK b : b = visitors[a]
    OBVIOUS
  <2>1. /\ b # NoBucket
        /\ admitted[a] * Unit + tokens[b] <= Capacity + Rate * (lastRefill[b] - since)
    BY <1>2 DEF IInv, Accounts, Spent
  <2>2. /\ Rate * (clock - since) = Rate * (clock - lastRefill[b]) + Rate * (lastRefill[b] - since)
        /\ Rate * (lastRefill[b] - since) \in Int /\ tokens[b] \in 0..Capacity /\ Capacity \in Nat
        /\ admitted[a] * Unit \in Nat
    BY <2>1, AllowFacts, GrantCosts
  <2>3. Rate * (clock - lastRefill[b]) \in Nat
    BY <2>1, AllowFacts, RefilledBounds DEF IInv
  <2> QED BY <2>1, <2>2, <2>3
<1> QED BY <1>1, <1>2

(* No interleaving of handlers that create, load, store and use buckets     *)
(* lets an address exceed its burst and rate from any instant on.           *)
THEOREM RateIsLimited == Spec => [](RateLimited /\ OneBucket)
<1>1. IInv => OneBucket
  BY DEF IInv
<1> QED BY <1>1, InitInv, StepInv, Limits, PTL DEF Spec

(* Refused requests cost nothing: while a bucket can hold a token, an       *)
(* address that has waited for one since its last grant is never refused.   *)
THEOREM RefusalsAreFree ==
  ASSUME Capacity >= Unit
  PROVE  Spec => RefusedIsSpent
<1> DEFINE Spends(h) == pc[h] = "allow" /\ pc'[h] = "idle" /\ UNCHANGED admitted
                          => Rate * (clock - lastAdmit[addr[h]]) < Unit
<1>1. ASSUME IInv, Next, NEW h \in Handlers, pc[h] = "allow", pc'[h] = "idle", UNCHANGED admitted
      PROVE  Rate * (clock - lastAdmit[addr[h]]) < Unit
  <2> PICK a \in Addrs : a = addr[h]
    BY <1>1 DEF IInv, TypeOK
  <2> PICK b : b = visitors[a]
    OBVIOUS
  <2>1. ~Grant(h)
    BY <1>1 DEF Grant, IInv, TypeOK
  <2>2. Refuse(h)
    <3>1. ASSUME NEW g \in Handlers, Handle(g) PROVE g = h
      BY <1>1, <3>1 DEF Handle, Receive, LoadFound, LoadMissed, LoadOrStore, Grant, Refuse, IInv, TypeOK
    <3>2. Handle(h)
      BY <1>1, <3>1 DEF Next, Tick, Observe, gateway
    <3> QED BY <1>1, <2>1, <3>2 DEF Handle, Receive, LoadFound, LoadMissed, LoadOrStore
  <2>3. b # NoBucket /\ bucket[h] = b
    BY <1>1 DEF IInv, BucketInUse, OneBucket
  <2> DEFINE D == Rate * (clock - lastRefill[b])
  <2>4. /\ Capacity \in Nat /\ Unit \in Nat /\ tokens[b] \in 0..Capacity
        /\ Rate * (clock - lastAdmit[a]) = D + Rate * (lastRefill[b] - lastAdmit[a])
        /\ Rate * (lastRefill[b] - lastAdmit[a]) \in Int
    BY <1>1, <2>3, AllowFacts
  <2>5. D \in Nat /\ (Refilled(b) = Capacity \/ Refilled(b) = tokens[b] + D)
    BY <1>1, <2>3, AllowFacts, RefilledBounds DEF IInv
  <2>6. Refilled(b) < Unit
    BY <2>2, <2>3 DEF Refuse
  <2>7. tokens[b] = Capacity \/ Rate * (lastRefill[b] - lastAdmit[a]) <= tokens[b]
    BY <1>1, <2>3 DEF IInv, Accounts, Saved
  <2> HIDE DEF D
  <2> QED BY <2>4, <2>5, <2>6, <2>7
<1>2. IInv /\ [Next]_vars => [\A h \in Handlers : Spends(h)]_vars
  BY <1>1
<1> QED BY <1>2, InitInv, StepInv, PTL DEF Spec, RefusedIsSpent

-----------------------------------------------------------------------------
(* The switch.                                                              *)

(* What happens to the switch is a step of its module or nothing.           *)
LEMMA SwitchStep ==
  [SuiteNext]_<<subject, vars, policies, switchVars>> =>
    /\ subject' = subject
    /\ \/ UNCHANGED switchVars
       \/ subject = "switch" /\ Switch!Next
  BY DEF SuiteNext, switchVars

(* What its constants may be.                                               *)
LEMMA SwitchConstants ==
  /\ Switches \intersect Hosts = {} /\ "dropped" \notin Switch!Nodes
  /\ \A s \in Switches : Wires[s][0] \in Hosts /\ Len(Tables[s]) \in Nat \ {0}
  /\ \A s \in Switches : \A v \in 1..Len(Tables[s]) : \A e \in Tables[s][v] :
       e.action = "ipv4_forward" => e.dstAddr = Macs[Wires[s][e.port]]
  BY GatewaysAssumption DEF Switch!SwitchAssumption

(* The inductive invariant: tables are installed by their number, and a     *)
(* frame on a link names it.                                                *)
SwitchInv == subject = "switch" =>
  /\ {"ethSrc", "ethDst", "ttl"} \subseteq DOMAIN hdr
  /\ \A s \in Switches : version[s] \in 1..Len(Tables[s])
  /\ DOMAIN version = Switches
  /\ via = "untouched" => at \notin Switches
  /\ Switch!FramesNameTheirLink

(* Every step of controller, switches and links keeps the invariant.        *)
LEMMA SwitchKeeps == SwitchInv /\ [SuiteNext]_<<subject, vars, policies, switchVars>> => SwitchInv'
<1> SUFFICES ASSUME SwitchInv, subject = "switch", subject' = subject, [Switch!Next]_switchVars PROVE SwitchInv'
  BY SwitchStep DEF SwitchInv
<1>0. /\ {"ethSrc", "ethDst", "ttl"} \subseteq DOMAIN hdr
      /\ \A s \in Switches : version[s] \in 1..Len(Tables[s])
      /\ DOMAIN version = Switches
      /\ via = "untouched" => at \notin Switches
      /\ at \in Switch!Nodes /\ via # "untouched" => hdr.ethSrc = Macs[from] /\ hdr.ethDst = Macs[at]
  BY DEF SwitchInv, Switch!FramesNameTheirLink
<1>1. ASSUME NEW s \in Switches, Switch!ApplyForward(s) PROVE SwitchInv'
  <2>1. PICK e \in Switch!Hit(s) : e.action = "ipv4_forward" /\ Switch!ipv4_forward(s, e)
    BY <1>1 DEF Switch!ApplyForward
  <2>2. e \in Tables[s][version[s]]
    BY DEF Switch!Hit, Switch!BestMatch, Switch!ipv4_lpm
  <2>3. e.dstAddr = Macs[Wires[s][e.port]]
    BY <1>0, <2>1, <2>2, SwitchConstants
  <2>4. at = s /\ via # "untouched" /\ at \in Switch!Nodes /\ UNCHANGED version
    BY <1>0, <1>1 DEF Switch!ApplyForward, Switch!Nodes
  <2>5. hdr.ethDst = Macs[s]
    BY <1>0, <2>4
  <2>6. at' = Wires[s][e.port] /\ from' = s /\ via' = "ipv4_forward"
    BY <2>1 DEF Switch!ipv4_forward, Switch!Emit
  <2>7. PICK t : hdr' = [hdr EXCEPT !.ethSrc = hdr.ethDst, !.ethDst = e.dstAddr, !.ttl = t]
    BY <2>1 DEF Switch!ipv4_forward
  <2>8. /\ DOMAIN hdr' = DOMAIN hdr /\ hdr'.ethSrc = Macs[s] /\ hdr'.ethDst = Macs[Wires[s][e.port]]
    BY <1>0, <2>3, <2>5, <2>7
  <2> QED BY <1>0, <2>4, <2>6, <2>8 DEF SwitchInv, Switch!FramesNameTheirLink
<1>2. ASSUME NEW s \in Switches, Switch!ApplyDrop(s) PROVE SwitchInv'
  <2>1. at' = "dropped" /\ UNCHANGED <<version, hdr, from, via>>
    BY <1>2 DEF Switch!ApplyDrop
  <2> QED BY <1>0, <2>1, SwitchConstants DEF SwitchInv, Switch!FramesNameTheirLink, Switch!Nodes
<1>3. ASSUME NEW s \in Switches, Switch!ApplyNoAction(s) \/ Switch!SkipTable(s) PROVE SwitchInv'
  <2>1. at' = Wires[s][0] /\ via' = "untouched" /\ UNCHANGED <<version, hdr>>
    BY <1>3 DEF Switch!ApplyNoAction, Switch!SkipTable, Switch!Emit
  <2>2. at' \notin Switches
    BY <2>1, SwitchConstants
  <2> QED BY <1>0, <2>1, <2>2 DEF SwitchInv, Switch!FramesNameTheirLink
<1>4. ASSUME NEW s \in Switches, Switch!Populate(s) PROVE SwitchInv'
  <2>1. version' = [version EXCEPT ![s] = @ + 1] /\ version[s] < Len(Tables[s]) /\ UNCHANGED <<hdr, at, from, via>>
    BY <1>4 DEF Switch!Populate
  <2>2. version[s] \in 1..Len(Tables[s])
    BY <1>0
  <2>3. version[s] + 1 \in 1..Len(Tables[s])
    BY <2>1, <2>2
  <2>4. DOMAIN version' = Switches /\ \A t \in Switches : version'[t] \in 1..Len(Tables[t])
    BY <1>0, <2>1, <2>3
  <2> QED BY <1>0, <2>1, <2>4 DEF SwitchInv, Switch!FramesNameTheirLink
<1>5. CASE UNCHANGED switchVars
  BY <1>0, <1>5 DEF switchVars, SwitchInv, Switch!FramesNameTheirLink
<1>6. CASE Switch!Rest
  BY <1>5, <1>6 DEF Switch!Rest, Switch!vars, switchVars
<1> QED BY <1>1, <1>2, <1>3, <1>4, <1>5, <1>6 DEF Switch!Next, Switch!MyIngress

(* For every topology whose tables name the neighbour at each port: a frame *)
(* that a switch sends carries the addresses of its link.                   *)
THEOREM FramesAreAddressed == SuiteSpec => []FramesNameTheirLink
<1>1. SuiteInit => SwitchInv
  <2> SUFFICES ASSUME Switch!Init PROVE SwitchInv
    BY DEF SuiteInit, SwitchInv
  <2>1. /\ version = [s \in Switches |-> 1] /\ at \in Switches /\ via = "host"
        /\ hdr \in Switch!Headers /\ hdr.ethDst = Macs[at] /\ hdr.ethSrc = Macs[from]
    BY DEF Switch!Init
  <2>2. {"ethSrc", "ethDst", "ttl"} \subseteq DOMAIN hdr
    BY <2>1 DEF Switch!Headers
  <2>3. \A s \in Switches : 1 \in 1..Len(Tables[s])
    BY SwitchConstants
  <2> QED BY <2>1, <2>2, <2>3 DEF SwitchInv, Switch!FramesNameTheirLink
<1>2. SwitchInv => FramesNameTheirLink
  BY DEF SwitchInv, FramesNameTheirLink
<1> QED BY <1>1, <1>2, SwitchKeeps, PTL DEF SuiteSpec

-----------------------------------------------------------------------------
(* The policy engine.                                                       *)

(* What happens to the policy engine is a step of its module or nothing.    *)
LEMMA PolicyStep ==
  [SuiteNext]_<<subject, vars, policies, switchVars>> => [Policy!Next]_policies
  BY DEF SuiteNext

(* What the loop returns from statement n on, when A are the statements     *)
(* that apply, D those that deny, and a is the answer so far.               *)
Outcome(A, D, L, n, a) == (\A k \in n..L : k \in A => k \notin D) /\ (a \/ \E k \in n..L : k \in A)

(* One turn of the loop, in which f is what the later turns return.         *)
Iteration(A, D, L, f, n, a) ==
  IF n > L THEN a ELSE IF n \notin A THEN f[n + 1][a] ELSE IF n \in D THEN FALSE ELSE f[n + 1][TRUE]

(* f lists what the loop returns from each statement on.                    *)
IsScan(A, D, L, f) == f = [n \in 1..(L + 1) |-> [a \in BOOLEAN |-> Iteration(A, D, L, f, n, a)]]

(* The outcome from a statement on follows from the next one.               *)
LEMMA OutcomeSteps ==
  ASSUME NEW A, NEW D, NEW L \in Nat, NEW n \in 1..(L + 1), NEW a \in BOOLEAN
  PROVE  /\ Outcome(A, D, L, n, a) \in BOOLEAN
         /\ n > L => Outcome(A, D, L, n, a) = a
         /\ n <= L /\ n \notin A => Outcome(A, D, L, n, a) = Outcome(A, D, L, n + 1, a)
         /\ n <= L /\ n \in A /\ n \in D => Outcome(A, D, L, n, a) = FALSE
         /\ n <= L /\ n \in A /\ n \notin D => Outcome(A, D, L, n, a) = Outcome(A, D, L, n + 1, TRUE)
<1>1. Outcome(A, D, L, n, a) \in BOOLEAN
  BY DEF Outcome
<1>2. n > L => n..L = {}
  OBVIOUS
<1>3. n <= L => \A k : k \in n..L <=> k = n \/ k \in (n + 1)..L
  OBVIOUS
<1>4. n > L => Outcome(A, D, L, n, a) = a
  BY <1>2, Zenon DEF Outcome
<1>5. n <= L /\ n \notin A => Outcome(A, D, L, n, a) = Outcome(A, D, L, n + 1, a)
  <2> SUFFICES ASSUME n <= L, n \notin A PROVE Outcome(A, D, L, n, a) <=> Outcome(A, D, L, n + 1, a)
    BY DEF Outcome
  <2> QED BY <1>3, Zenon DEF Outcome
<1>6. n <= L /\ n \in A /\ n \in D => Outcome(A, D, L, n, a) = FALSE
  BY <1>3, Zenon DEF Outcome
<1>7. n <= L /\ n \in A /\ n \notin D => Outcome(A, D, L, n, a) = Outcome(A, D, L, n + 1, TRUE)
  <2> SUFFICES ASSUME n <= L, n \in A, n \notin D PROVE Outcome(A, D, L, n, a) <=> Outcome(A, D, L, n + 1, TRUE)
    BY DEF Outcome
  <2> QED BY <1>3, Zenon DEF Outcome
<1> QED BY <1>1, <1>4, <1>5, <1>6, <1>7

(* So it is what one turn of the loop computes.                             *)
LEMMA IterationIs ==
  ASSUME NEW A, NEW D, NEW L \in Nat, NEW f, NEW n \in 1..(L + 1), NEW a \in BOOLEAN,
         n <= L => f[n + 1][a] = Outcome(A, D, L, n + 1, a) /\ f[n + 1][TRUE] = Outcome(A, D, L, n + 1, TRUE)
  PROVE  Outcome(A, D, L, n, a) = Iteration(A, D, L, f, n, a)
<1>1. n > L \/ (n <= L /\ ~(n > L))
  OBVIOUS
<1>2. CASE n > L
  <2>0. n..L = {}
    BY <1>2
  <2>1. Outcome(A, D, L, n, a) <=> a
    BY <2>0, Zenon DEF Outcome
  <2>2. Outcome(A, D, L, n, a) = a
    BY <2>1 DEF Outcome
  <2> QED BY <1>2, <2>2, Zenon DEF Iteration
<1>3. CASE n <= L /\ ~(n > L) /\ n \notin A
  BY <1>3, OutcomeSteps, ZenonT(60) DEF Iteration
<1>4. CASE n <= L /\ ~(n > L) /\ n \in A /\ n \in D
  BY <1>4, OutcomeSteps, Zenon DEF Iteration
<1>5. CASE n <= L /\ ~(n > L) /\ n \in A /\ n \notin D
  BY <1>5, OutcomeSteps, ZenonT(60) DEF Iteration
<1> QED BY <1>1, <1>2, <1>3, <1>4, <1>5

(* There is such a list.                                                    *)
LEMMA ScanExists ==
  ASSUME NEW A, NEW D, NEW L \in Nat
  PROVE  \E f : IsScan(A, D, L, f)
<1> DEFINE f == [n \in 1..(L + 1) |-> [a \in BOOLEAN |-> Outcome(A, D, L, n, a)]]
<1>1. ASSUME NEW n \in 1..(L + 1), NEW a \in BOOLEAN
      PROVE  Outcome(A, D, L, n, a) = Iteration(A, D, L, f, n, a)
  <2>1. f[n][a] = Outcome(A, D, L, n, a)
    OBVIOUS
  <2>2. n <= L => n + 1 \in 1..(L + 1) /\ TRUE \in BOOLEAN
    OBVIOUS
  <2>3. n <= L => f[n + 1][a] = Outcome(A, D, L, n + 1, a) /\ f[n + 1][TRUE] = Outcome(A, D, L, n + 1, TRUE)
    BY <2>2
  <2> HIDE DEF f
  <2> QED BY <2>3, IterationIs
<1>2. f = [n \in 1..(L + 1) |-> [a \in BOOLEAN |-> Iteration(A, D, L, f, n, a)]]
  <2> DEFINE g == [n \in 1..(L + 1) |-> [a \in BOOLEAN |-> Iteration(A, D, L, f, n, a)]]
  <2> HIDE DEF f
  <2> SUFFICES f = g
    OBVIOUS
  <2>1. \A n \in 1..(L + 1), a \in BOOLEAN : f[n][a] = g[n][a]
    BY <1>1 DEF f
  <2> QED BY <1>1 DEF f
<1> QED BY <1>2 DEF IsScan

(* It is the only one: the last statement where another differed would not  *)
(* differ.                                                                  *)
LEMMA ScanIs ==
  ASSUME NEW A, NEW D, NEW L \in Nat, NEW f, IsScan(A, D, L, f)
  PROVE  \A n \in 1..(L + 1), a \in BOOLEAN : f[n][a] = Outcome(A, D, L, n, a)
<1> DEFINE Good(n) == \A a \in BOOLEAN : f[n][a] = Outcome(A, D, L, n, a)
           bad == {m \in Nat : m <= L /\ ~Good(L + 1 - m)}
<1>0. ASSUME NEW n \in 1..(L + 1), NEW a \in BOOLEAN PROVE f[n][a] = Iteration(A, D, L, f, n, a)
  BY DEF IsScan
<1>1. bad = {}
  <2> SUFFICES ASSUME bad # {} PROVE FALSE
    OBVIOUS
  <2>1. PICK m \in bad : \A k \in bad : m <= k
    BY LeastNumber, bad \subseteq Nat
  <2>2. PICK n \in 1..(L + 1) : n = L + 1 - m
    BY <2>1, L + 1 - m \in 1..(L + 1)
  <2>3. n \in 1..(L + 1) /\ m \in Nat /\ ~Good(n)
    BY <2>1, <2>2
  <2> HIDE DEF Good
  <2>4. n <= L => Good(n + 1)
    <3> SUFFICES ASSUME n <= L PROVE Good(n + 1)
      OBVIOUS
    <3>1. m - 1 \in Nat /\ m - 1 <= L /\ L + 1 - (m - 1) = n + 1 /\ ~(m <= m - 1)
      BY <2>1, <2>2
    <3>2. m - 1 \notin bad
      BY <2>1, <3>1
    <3> QED BY <3>1, <3>2
  <2>5. ASSUME NEW a \in BOOLEAN PROVE f[n][a] = Outcome(A, D, L, n, a)
    <3>1. n <= L => f[n + 1][a] = Outcome(A, D, L, n + 1, a) /\ f[n + 1][TRUE] = Outcome(A, D, L, n + 1, TRUE)
      BY <2>4 DEF Good
    <3>0. f[n][a] = Iteration(A, D, L, f, n, a) /\ n \in 1..(L + 1)
      BY <1>0, <2>3
    <3>3. Outcome(A, D, L, n, a) = Iteration(A, D, L, f, n, a)
      BY <3>1, IterationIs
    <3> QED BY <3>0, <3>3, Zenon
  <2> QED BY <2>3, <2>5 DEF Good
<1>2. ASSUME NEW n \in 1..(L + 1) PROVE Good(n)
  <2>1. L + 1 - n \in Nat /\ L + 1 - n <= L /\ L + 1 - (L + 1 - n) = n
    OBVIOUS
  <2> HIDE DEF Good
  <2>2. L + 1 - n \notin bad
    BY <1>1
  <2> QED BY <2>1, <2>2
<1> QED BY <1>2

(* The policies are a list of statements.                                   *)
PolicyInv == policies \in Seq(Policy!Statement)

(* The loop grants what some statement allows and none denies.              *)
LEMMA AuthorizeIs ==
  ASSUME PolicyInv, NEW ctx, NEW action, NEW resource
  PROVE  Policy!authorize(policies, ctx, action, resource) <=>
           /\ Policy!Decides("Allow", ctx, action, resource)
           /\ ~Policy!Decides("Deny", ctx, action, resource)
<1> DEFINE L == Len(policies)
           App(k) == Policy!Applies(policies[k], ctx, action, resource)
           A == {k \in 1..L : App(k)}
           D == {k \in 1..L : policies[k].effect = "Deny"}
           body(f, n, a) == IF n > L THEN a ELSE IF ~App(n) THEN f[n + 1][a]
                            ELSE IF policies[n].effect = "Deny" THEN FALSE ELSE f[n + 1][TRUE]
           table(f) == [n \in 1..(L + 1) |-> [a \in BOOLEAN |-> body(f, n, a)]]
<1>1. L \in Nat /\ \A k \in 1..L : policies[k].effect \in {"Allow", "Deny"}
  <2>1. L \in Nat /\ \A k \in 1..L : policies[k] \in Policy!Statement
    BY DEF PolicyInv
  <2> QED BY <2>1 DEF Policy!Statement
<1>2. Policy!authorize(policies, ctx, action, resource) = (CHOOSE f : f = table(f))[1][FALSE]
  BY DEF Policy!authorize
<1>3. A \subseteq 1..L /\ D \subseteq 1..L /\ \A k \in 1..L : (k \in A <=> App(k)) /\ (k \in D <=> policies[k].effect = "Deny")
  OBVIOUS
<1>4. ASSUME NEW f, NEW n \in 1..(L + 1), NEW a \in BOOLEAN
      PROVE  body(f, n, a) = Iteration(A, D, L, f, n, a)
  <2>1. ~(n > L) => n \in 1..L
    BY <1>1
  <2> HIDE DEF A, D, App, L
  <2> QED BY <1>3, <2>1 DEF Iteration
<1>5. ASSUME NEW f PROVE f = table(f) <=> IsScan(A, D, L, f)
  <2> HIDE DEF body, A, D, L
  <2>1. table(f) = [n \in 1..(L + 1) |-> [a \in BOOLEAN |-> Iteration(A, D, L, f, n, a)]]
    BY <1>4
  <2> HIDE DEF table
  <2> QED BY <2>1 DEF IsScan
<1> DEFINE scan == CHOOSE f : f = table(f)
<1> HIDE DEF table, A, D, L
<1>6. IsScan(A, D, L, scan)
  <2>1. \E f : IsScan(A, D, L, f)
    BY <1>1, ScanExists
  <2>2. \E f : f = table(f)
    BY <1>5, <2>1
  <2>3. scan = table(scan)
    BY <2>2
  <2> QED BY <1>5, <2>3
<1> HIDE DEF scan
<1>7. scan[1][FALSE] = Outcome(A, D, L, 1, FALSE)
  <2>1. 1 \in 1..(L + 1) /\ FALSE \in BOOLEAN /\ L \in Nat
    BY <1>1
  <2>2. \A n \in 1..(L + 1), a \in BOOLEAN : scan[n][a] = Outcome(A, D, L, n, a)
    BY <1>6, <2>1, ScanIs
  <2> QED BY <2>1, <2>2, Zenon
<1>8. 1..L = DOMAIN policies
  BY DEF L, PolicyInv
<1>9. Outcome(A, D, L, 1, FALSE) <=> /\ \E k \in 1..L : App(k)
                                     /\ ~ \E k \in 1..L : App(k) /\ policies[k].effect = "Deny"
  <2> HIDE DEF App
  <2> QED BY <1>3 DEF Outcome
<1>10. Policy!Decides("Deny", ctx, action, resource) <=> \E k \in 1..L : App(k) /\ policies[k].effect = "Deny"
  BY <1>8 DEF Policy!Decides
<1>11. Policy!Decides("Allow", ctx, action, resource) <=> \E k \in 1..L : App(k) /\ policies[k].effect = "Allow"
  BY <1>8 DEF Policy!Decides
<1>12. (\E k \in 1..L : App(k)) <=> (\E k \in 1..L : App(k) /\ policies[k].effect = "Allow")
                                      \/ (\E k \in 1..L : App(k) /\ policies[k].effect = "Deny")
  <2> HIDE DEF App
  <2> QED BY <1>1
<1> HIDE DEF App
<1> QED BY <1>2, <1>7, <1>9, <1>10, <1>11, <1>12 DEF scan

(* For every list of statements: the answer does not depend on their order, *)
(* although the loop returns early.                                         *)
THEOREM OrderDoesNotMatter == SuiteSpec => []OrderIrrelevant
<1>1. SuiteInit => PolicyInv
  BY DEF SuiteInit, Policy!Init, PolicyInv
<1>2. PolicyInv /\ [SuiteNext]_<<subject, vars, policies, switchVars>> => PolicyInv'
  <2> SUFFICES ASSUME PolicyInv, [Policy!Next]_policies PROVE PolicyInv'
    BY PolicyStep
  <2>1. CASE Policy!Next
    <3>1. PICK statement \in Policy!Statement : policies' = Append(policies, statement)
      BY <2>1 DEF Policy!Next, Policy!attach_policy
    <3> QED BY <3>1 DEF PolicyInv
  <2> QED BY <2>1 DEF PolicyInv
<1>3. PolicyInv => OrderIrrelevant
  BY AuthorizeIs DEF OrderIrrelevant, Policy!OrderIrrelevant
<1> QED BY <1>1, <1>2, <1>3, PTL DEF SuiteSpec
=============================================================================
