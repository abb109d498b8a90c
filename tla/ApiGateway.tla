----------------------------- MODULE ApiGateway -----------------------------
(* The rate limiter of 06-Platform-Engineering-and-Gateways/                *)
(* zero-copy-api-gateway.go as its concurrent request handlers use it: the  *)
(* sync.Map of buckets, their creation by Load and LoadOrStore, and the     *)
(* token bucket.  Tokens are counted in units, so that the refill of one    *)
(* tick is a whole number; time.Now is the monotonic clock.                 *)
(*                                                                          *)
(* since, admitted and lastAdmit observe the gateway: they count what each  *)
(* address was granted since an instant that may be any.                    *)
EXTENDS Integers

CONSTANTS
  Handlers,    \* goroutines serving requests
  Addrs,       \* the values of r.RemoteAddr
  Unit,        \* units per token
  Rate,        \* units per tick of the clock
  Capacity,    \* units a bucket holds
  MaxTime,     \* ticks modelled
  NoBucket

ASSUME GatewayAssumption ==
  /\ Unit \in Nat \ {0} /\ Rate \in Nat /\ Capacity \in Nat /\ MaxTime \in Nat
  /\ NoBucket \notin Addrs \X Handlers

VARIABLES
  clock,
  visitors,   \* the map: the bucket of each address, or NoBucket
  tokens,     \* of each bucket, named by its address and its creator
  lastRefill,
  pc,         \* of each handler: "idle", "load", "store", "allow"
  addr,       \* the address of its request
  bucket,     \* the bucket GetBucket returned or is about to store
  since, admitted, lastAdmit

gateway == <<visitors, tokens, lastRefill, pc, addr, bucket>>
observer == <<since, admitted, lastAdmit>>
vars == <<clock, gateway, observer>>

Buckets == Addrs \X Handlers
PC == {"idle", "load", "store", "allow"}

(* A bucket never holds more than its capacity, and Allow's arithmetic never*)
(* leaves a negative or a fractional unit behind.                           *)
TypeOK ==
  /\ clock \in 0..MaxTime
  /\ visitors \in [Addrs -> Buckets \union {NoBucket}]
  /\ tokens \in [Buckets -> 0..Capacity]
  /\ lastRefill \in [Buckets -> 0..MaxTime]
  /\ pc \in [Handlers -> PC]
  /\ addr \in [Handlers -> Addrs]
  /\ bucket \in [Handlers -> Buckets \union {NoBucket}]
  /\ since \in 0..MaxTime
  /\ admitted \in [Addrs -> Nat]
  /\ lastAdmit \in [Addrs -> 0..MaxTime]

Init ==
  /\ clock = 0
  /\ visitors = [a \in Addrs |-> NoBucket]
  /\ tokens = [b \in Buckets |-> 0] /\ lastRefill = [b \in Buckets |-> 0]
  /\ pc = [h \in Handlers |-> "idle"]
  /\ addr \in [Handlers -> Addrs]
  /\ bucket = [h \in Handlers |-> NoBucket]
  /\ since = 0 /\ admitted = [a \in Addrs |-> 0] /\ lastAdmit = [a \in Addrs |-> 0]

-----------------------------------------------------------------------------
Receive(h, a) ==
  /\ pc[h] = "idle"
  /\ pc' = [pc EXCEPT ![h] = "load"] /\ addr' = [addr EXCEPT ![h] = a]
  /\ UNCHANGED <<clock, visitors, tokens, lastRefill, bucket, observer>>

(* GetBucket: Load finds the bucket of the address. *)
LoadFound(h) ==
  /\ pc[h] = "load" /\ visitors[addr[h]] # NoBucket
  /\ bucket' = [bucket EXCEPT ![h] = visitors[addr[h]]]
  /\ pc' = [pc EXCEPT ![h] = "allow"]
  /\ UNCHANGED <<clock, visitors, tokens, lastRefill, addr, observer>>

(* GetBucket: Load finds nothing and a full bucket is made. *)
LoadMissed(h) ==
  LET b == <<addr[h], h>> IN
  /\ pc[h] = "load" /\ visitors[addr[h]] = NoBucket
  /\ bucket' = [bucket EXCEPT ![h] = b]
  /\ tokens' = [tokens EXCEPT ![b] = Capacity]
  /\ lastRefill' = [lastRefill EXCEPT ![b] = clock]
  /\ pc' = [pc EXCEPT ![h] = "store"]
  /\ UNCHANGED <<clock, visitors, addr, observer>>

(* mutant: Store in place of LoadOrStore *)
LoadOrStoreOverwrites(h) ==
  /\ pc[h] = "store"
  /\ visitors' = [visitors EXCEPT ![addr[h]] = bucket[h]]
  /\ pc' = [pc EXCEPT ![h] = "allow"]
  /\ UNCHANGED <<clock, tokens, lastRefill, addr, bucket, observer>>

(* GetBucket: LoadOrStore keeps the bucket that is already there. *)
LoadOrStore(h) ==
  LET a == addr[h]
      b == IF visitors[a] = NoBucket THEN bucket[h] ELSE visitors[a]
  IN  /\ pc[h] = "store"
      /\ visitors' = [visitors EXCEPT ![a] = b]
      /\ bucket' = [bucket EXCEPT ![h] = b]
      /\ pc' = [pc EXCEPT ![h] = "allow"]
      /\ UNCHANGED <<clock, tokens, lastRefill, addr, observer>>

(* The tokens of a bucket after the refill of Allow. *)
Refilled(b) ==
  LET sum == tokens[b] + Rate * (clock - lastRefill[b])
  IN  IF sum > Capacity THEN Capacity ELSE sum

(* Allow takes a token and the request goes to the proxy. *)
Grant(h) ==
  LET b == bucket[h] IN
  /\ pc[h] = "allow" /\ Refilled(b) >= Unit
  /\ tokens' = [tokens EXCEPT ![b] = Refilled(b) - Unit]
  /\ lastRefill' = [lastRefill EXCEPT ![b] = clock]
  /\ pc' = [pc EXCEPT ![h] = "idle"]
  /\ admitted' = [admitted EXCEPT ![addr[h]] = @ + 1]
  /\ lastAdmit' = [lastAdmit EXCEPT ![addr[h]] = clock]
  /\ UNCHANGED <<clock, visitors, addr, bucket, since>>

(* mutant: a refused request forgets the fraction it has refilled *)
RefuseForgets(h) ==
  LET b == bucket[h] IN
  /\ pc[h] = "allow" /\ Refilled(b) < Unit
  /\ lastRefill' = [lastRefill EXCEPT ![b] = clock]
  /\ pc' = [pc EXCEPT ![h] = "idle"]
  /\ UNCHANGED <<clock, tokens, visitors, addr, bucket, observer>>

(* Allow finds no token: 429. *)
Refuse(h) ==
  LET b == bucket[h] IN
  /\ pc[h] = "allow" /\ Refilled(b) < Unit
  /\ tokens' = [tokens EXCEPT ![b] = Refilled(b)]
  /\ lastRefill' = [lastRefill EXCEPT ![b] = clock]
  /\ pc' = [pc EXCEPT ![h] = "idle"]
  /\ UNCHANGED <<clock, visitors, addr, bucket, observer>>

Tick ==
  /\ clock < MaxTime /\ clock' = clock + 1
  /\ UNCHANGED <<gateway, observer>>

(* The observer starts to count anew. *)
Observe ==
  /\ since' = clock /\ admitted' = [a \in Addrs |-> 0]
  /\ UNCHANGED <<clock, gateway, lastAdmit>>

Handle(h) ==
  \/ \E a \in Addrs : Receive(h, a)
  \/ LoadFound(h) \/ LoadMissed(h) \/ LoadOrStore(h) \/ Grant(h) \/ Refuse(h)

Next == Tick \/ Observe \/ \E h \in Handlers : Handle(h)

Spec == Init /\ [][Next]_vars

-----------------------------------------------------------------------------
(* "Ensures precise rate limiting": from any instant on, an address is not  *)
(* granted more than a full bucket and the refill since then, whatever the  *)
(* handlers that create and use its bucket do at the same time.             *)
RateLimited ==
  \A a \in Addrs : admitted[a] * Unit <= Capacity + Rate * (clock - since)

(* Handlers of one address use one bucket, the one in the map.              *)
OneBucket ==
  \A h \in Handlers : pc[h] = "allow" => bucket[h] = visitors[addr[h]]

(* A request is refused only while the refill since the last granted one is *)
(* below a token: refused requests do not slow the refill down.             *)
RefusedIsSpent ==
  [][\A h \in Handlers :
       pc[h] = "allow" /\ pc'[h] = "idle" /\ UNCHANGED admitted
         => Rate * (clock - lastAdmit[addr[h]]) < Unit]_vars
=============================================================================
