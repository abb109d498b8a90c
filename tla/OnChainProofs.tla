---------------------------- MODULE OnChainProofs ---------------------------
(* For all voters, proposals and bounds a vote is counted once, as it was   *)
(* signed; _sqrt is exact for every number; the worth of a share never      *)
(* drops, for every fee and word size; and the block's Merkle root and      *)
(* nonce are right, for every number of transactions, threads and nonces.   *)
EXTENDS MCOnChain, Lemmas, TLAPS

-----------------------------------------------------------------------------
(* The governance contract.                                                 *)

(* What makes a replay fail: the nonces of a voter's accepted signatures    *)
(* are exactly those the contract has counted past.                         *)
NoncesUsed ==
  \A v \in Voters :
    /\ \A s \in accepted : s.signer = v => s.digest.nonce < nonces[v]
    /\ \A n \in 0 .. nonces[v] - 1 :
         \E s \in accepted : s.signer = v /\ s.digest.nonce = n

(* Of the votes a voter has signed with one nonce one is accepted.          *)
Unique ==
  \A s, t \in accepted : s.signer = t.signer /\ s.digest.nonce = t.digest.nonce => s = t

(* Every accepted signature is its voter's own, made for this deployment.   *)
VotersOwn ==
  \A s \in accepted : s.signer = s.digest.voter /\ s.digest.domain = DOMAIN_SEPARATOR

(* The inductive invariant of the contract.                                 *)
DaoInv ==
  /\ TypeOK /\ IsFiniteSet(accepted)
  /\ VotesAreSigned /\ VotersOwn /\ NoncesUsed /\ Unique

(* A signature that castVoteBySignature accepts is over the voter's current *)
(* nonce and this deployment, and was never accepted before.                *)
LEMMA Fresh ==
  ASSUME DaoInv, NEW voter \in Voters, NEW proposalId \in Proposals, NEW support \in BOOLEAN,
         NEW deadline, NEW signature \in Signatures,
         castVoteBySignature(voter, proposalId, support, deadline, signature)
  PROVE  /\ signature \notin accepted
         /\ signature.signer = voter
         /\ signature.digest.voter = voter
         /\ signature.digest.domain = DOMAIN_SEPARATOR
         /\ signature.digest.proposalId = proposalId
         /\ signature.digest.support = support
         /\ signature.digest.nonce = nonces[voter]
<1>1. /\ signature.signer = voter
      /\ signature.digest = [domain |-> DOMAIN_SEPARATOR, voter |-> voter,
                             proposalId |-> proposalId, support |-> support,
                             nonce |-> nonces[voter]]
  BY Zenon DEF castVoteBySignature, ecrecoverIs, digest
<1>2. /\ signature.digest.voter = voter /\ signature.digest.domain = DOMAIN_SEPARATOR
      /\ signature.digest.proposalId = proposalId /\ signature.digest.support = support
      /\ signature.digest.nonce = nonces[voter]
  BY <1>1
<1>3. signature \notin accepted
  <2>1. nonces[voter] \in Nat
    BY DaoAssumption DEF DaoInv, TypeOK
  <2>2. \A s \in accepted : s.signer = voter => s.digest.nonce < nonces[voter]
    BY DEF DaoInv, NoncesUsed
  <2> QED BY <1>1, <1>2, <2>1, <2>2
<1> QED BY <1>1, <1>2, <1>3

(* The constructor's state satisfies the invariant. *)
LEMMA DaoInitially == Init => DaoInv
<1> SUFFICES ASSUME Init PROVE DaoInv
  OBVIOUS
<1>1. TypeOK
  BY DaoAssumption DEF Init, TypeOK
<1>2. IsFiniteSet(accepted)
  BY FS_EmptySet DEF Init
<1>3. VotesAreSigned
  <2> SUFFICES ASSUME NEW p \in Proposals PROVE proposalVotes[p] = Cardinality(Supporting(p))
    BY DEF VotesAreSigned
  <2>1. Supporting(p) = {}
    BY DEF Supporting, Init
  <2>2. proposalVotes[p] = 0
    BY DEF Init
  <2> QED BY <2>1, <2>2, FS_EmptySet
<1>4. VotersOwn /\ NoncesUsed /\ Unique
  BY DEF Init, VotersOwn, NoncesUsed, Unique
<1> QED BY <1>1, <1>2, <1>3, <1>4 DEF DaoInv

(* castVoteBySignature keeps it: the signature it accepts is a new one. *)
LEMMA CastKeeps ==
  ASSUME DaoInv, NEW voter \in Voters, NEW proposalId \in Proposals, NEW support \in BOOLEAN,
         NEW deadline \in 0..MaxTime, NEW signature \in Signatures,
         castVoteBySignature(voter, proposalId, support, deadline, signature)
  PROVE  DaoInv'
<1>f. /\ signature \notin accepted
      /\ signature.signer = voter
      /\ signature.digest.voter = voter
      /\ signature.digest.domain = DOMAIN_SEPARATOR
      /\ signature.digest.proposalId = proposalId
      /\ signature.digest.support = support
      /\ signature.digest.nonce = nonces[voter]
  BY Fresh
<1>a. /\ accepted' = accepted \union {signature} /\ timestamp' = timestamp
      /\ nonces' = [nonces EXCEPT ![voter] = @ + 1] /\ nonces[voter] <= MaxNonce
      /\ proposalVotes' = [proposalVotes EXCEPT ![proposalId] = IF support THEN @ + 1 ELSE @]
  BY DEF castVoteBySignature, Count
<1>t. TypeOK
  BY DEF DaoInv
<1>1. TypeOK'
  <2>1. nonces[voter] \in 0 .. MaxNonce + 1
    BY <1>t DEF TypeOK
  <2>2. nonces' \in [Voters -> 0 .. MaxNonce + 1]
    BY <1>t, <1>a, <2>1, DaoAssumption DEF TypeOK
  <2>3. proposalVotes' \in [Proposals -> Nat]
    BY <1>t, <1>a DEF TypeOK
  <2> QED BY <1>t, <1>a, <2>2, <2>3 DEF TypeOK
<1>2. IsFiniteSet(accepted)'
  BY <1>a, FS_AddElement DEF DaoInv
<1>3. VotesAreSigned'
  <2> SUFFICES ASSUME NEW p \in Proposals PROVE proposalVotes'[p] = Cardinality(Supporting(p)')
    BY DEF VotesAreSigned
  <2>1. proposalVotes[p] = Cardinality(Supporting(p)) /\ proposalVotes[p] \in Nat
    BY <1>t DEF DaoInv, VotesAreSigned, TypeOK
  <2>2. IsFiniteSet(Supporting(p)) /\ signature \notin Supporting(p)
    BY <1>f, FS_Subset DEF DaoInv, Supporting
  <2>3. CASE p = proposalId /\ support
    <3>1. Supporting(p)' = Supporting(p) \union {signature}
      BY <1>a, <1>f, <2>3 DEF Supporting
    <3>2. Cardinality(Supporting(p) \union {signature}) = Cardinality(Supporting(p)) + 1
      BY <2>2, FS_AddElement
    <3>3. proposalVotes'[p] = proposalVotes[p] + 1
      BY <1>a, <1>t, <2>3 DEF TypeOK
    <3> QED BY <2>1, <3>1, <3>2, <3>3
  <2>4. CASE ~(p = proposalId /\ support)
    <3>1. Supporting(p)' = Supporting(p)
      BY <1>a, <1>f, <2>4 DEF Supporting
    <3>2. proposalVotes'[p] = proposalVotes[p]
      BY <1>a, <1>t, <2>4 DEF TypeOK
    <3> QED BY <2>1, <3>1, <3>2
  <2> QED BY <2>3, <2>4
<1>4. VotersOwn'
  BY <1>a, <1>f DEF DaoInv, VotersOwn
<1>5. NoncesUsed'
  <2> SUFFICES ASSUME NEW v \in Voters
               PROVE  /\ \A s \in accepted' : s.signer = v => s.digest.nonce < nonces'[v]
                      /\ \A n \in 0 .. nonces'[v] - 1 :
                           \E s \in accepted' : s.signer = v /\ s.digest.nonce = n
    BY DEF NoncesUsed
  <2>1. /\ \A s \in accepted : s.signer = v => s.digest.nonce < nonces[v]
        /\ \A n \in 0 .. nonces[v] - 1 :
             \E s \in accepted : s.signer = v /\ s.digest.nonce = n
    BY DEF DaoInv, NoncesUsed
  <2>2. nonces[v] \in Nat /\ nonces'[v] = IF v = voter THEN nonces[v] + 1 ELSE nonces[v]
    BY <1>t, <1>a, DaoAssumption DEF TypeOK
  <2>3. \A s \in accepted : s.digest.nonce \in Int
    BY <1>t DEF TypeOK, Signatures, Digests
  <2>4. \A s \in accepted' : s.signer = v => s.digest.nonce < nonces'[v]
    BY <1>a, <1>f, <2>1, <2>2, <2>3
  <2>5. ASSUME NEW n \in 0 .. nonces'[v] - 1
        PROVE  \E s \in accepted' : s.signer = v /\ s.digest.nonce = n
    <3>1. CASE n = nonces[v] /\ v = voter
      BY <1>a, <1>f, <3>1
    <3>2. CASE n \in 0 .. nonces[v] - 1
      BY <1>a, <2>1, <3>2
    <3> QED BY <2>2, <2>5, <3>1, <3>2
  <2> QED BY <2>4, <2>5
<1>6. Unique'
  <2>1. \A s \in accepted : s.signer = voter => s.digest.nonce < nonces[voter]
    BY DEF DaoInv, NoncesUsed
  <2>2. nonces[voter] \in Nat /\ \A s \in accepted : s.digest.nonce \in Int
    BY <1>t, DaoAssumption DEF TypeOK, Signatures, Digests
  <2>3. \A s \in accepted : ~(s.signer = signature.signer /\ s.digest.nonce = signature.digest.nonce)
    BY <1>f, <2>1, <2>2
  <2>4. Unique
    BY DEF DaoInv
  <2> QED BY <1>a, <2>3, <2>4 DEF Unique
<1> QED BY <1>1, <1>2, <1>3, <1>4, <1>5, <1>6 DEF DaoInv

(* So does every step; a new block changes the timestamp only. *)
LEMMA DaoKeeps == DaoInv /\ [Next]_vars => DaoInv'
<1> SUFFICES ASSUME DaoInv, [Next]_vars PROVE DaoInv'
  OBVIOUS
<1>1. CASE \E voter \in Voters, proposalId \in Proposals, support \in BOOLEAN,
              deadline \in 0..MaxTime, signature \in Signatures :
             castVoteBySignature(voter, proposalId, support, deadline, signature)
  BY <1>1, CastKeeps
<1>2. ASSUME UNCHANGED <<nonces, proposalVotes, accepted>>, timestamp' \in 0..MaxTime
      PROVE  DaoInv'
  BY <1>2 DEF DaoInv, TypeOK, VotesAreSigned, Supporting, VotersOwn, NoncesUsed, Unique
<1>3. CASE NextBlock
  <2>1. timestamp' \in 0..MaxTime
    BY <1>3, DaoAssumption DEF NextBlock, DaoInv, TypeOK
  <2> QED BY <1>2, <1>3, <2>1 DEF NextBlock
<1>4. CASE UNCHANGED vars
  <2>1. timestamp' \in 0..MaxTime
    BY <1>4 DEF vars, DaoInv, TypeOK
  <2> QED BY <1>2, <1>4, <2>1 DEF vars
<1> QED BY <1>1, <1>3, <1>4 DEF Next

(* The invariant holds throughout. *)
LEMMA DaoInductive == Spec => []DaoInv
<1> QED BY DaoInitially, DaoKeeps, PTL DEF Spec

(* A proposal has as many votes as different signatures in its favour were  *)
(* accepted, however castVoteBySignature is called.                         *)
THEOREM VotesCounted == Spec => []VotesAreSigned
<1>1. DaoInv => VotesAreSigned
  BY DEF DaoInv
<1> QED BY <1>1, DaoInductive, PTL

(* It implies the order in which nonces are used. *)
LEMMA DaoInvOneVote == DaoInv => OneVotePerNonce
<1> SUFFICES ASSUME DaoInv PROVE OneVotePerNonce
  OBVIOUS
<1>1. Unique
  BY DEF DaoInv
<1>2. ASSUME NEW s \in accepted, NEW n \in 0 .. s.digest.nonce
      PROVE  \E t \in accepted : t.signer = s.signer /\ t.digest.nonce = n
  <2>1. s.signer \in Voters /\ s.digest.nonce \in Nat
    BY DEF DaoInv, TypeOK, Signatures, Digests
  <2>2. nonces[s.signer] \in Nat
    BY <2>1, DaoAssumption DEF DaoInv, TypeOK
  <2>3. s.digest.nonce < nonces[s.signer]
    BY <2>1 DEF DaoInv, NoncesUsed
  <2>4. n \in 0 .. nonces[s.signer] - 1
    BY <2>1, <2>2, <2>3
  <2> QED BY <2>1, <2>4 DEF DaoInv, NoncesUsed
<1> QED BY <1>1, <1>2 DEF OneVotePerNonce, Unique

(* Of the votes a voter signed with one nonce one counts, and the nonces    *)
(* are used without gaps.                                                   *)
THEOREM NoncesInOrder == Spec => []OneVotePerNonce
<1> QED BY DaoInvOneVote, DaoInductive, PTL

-----------------------------------------------------------------------------
(* The square root.                                                         *)

(* A guess was made at the start or improved from the one before it. *)
GuessOf == \/ z = y /\ x = firstGuess(y)
           \/ x = improved(y, z)

(* The inductive invariant of the loop.                                     *)
SqrtInv ==
  /\ GuessesOK /\ IsSqrt
  /\ ~done => /\ y > 3 /\ z > 0 /\ x > 0 /\ GuessOf
              /\ (z + 1) * (z + 1) > y /\ (x + 1) * (x + 1) > y

(* What integer division by a guess yields.                                 *)
LEMMA Division ==
  ASSUME NEW n \in Nat, NEW g \in Nat, g > 0
  PROVE  /\ n \div g \in Nat
         /\ g * (n \div g) <= n
         /\ n < g * (n \div g) + g
OBVIOUS

(* What integer division by two yields.                                     *)
LEMMA Halving ==
  ASSUME NEW n \in Nat
  PROVE  n \div 2 \in Nat /\ 2 * (n \div 2) <= n /\ n <= 2 * (n \div 2) + 1
OBVIOUS

(* The product of two numbers is at most the square of their mean. *)
LEMMA MeanSquared ==
  ASSUME NEW a \in Nat, NEW b \in Nat, NEW m \in Nat, a + b <= 2 * m
  PROVE  a * b <= m * m
<1>1. (a - b) * (a - b) >= 0
  OBVIOUS
<1>2. 4 * (a * b) = (a + b) * (a + b) - (a - b) * (a - b)
  OBVIOUS
<1>3. (a + b) * (a + b) <= (2 * m) * (2 * m)
  OBVIOUS
<1>4. (2 * m) * (2 * m) = 4 * (m * m)
  OBVIOUS
<1> QED BY <1>1, <1>2, <1>3, <1>4

(* An improved guess does not fall below the root. *)
LEMMA Improves ==
  ASSUME NEW n \in Nat, n > 3, NEW g \in Nat, g > 0
  PROVE  /\ improved(n, g) \in Nat /\ improved(n, g) > 0
         /\ (improved(n, g) + 1) * (improved(n, g) + 1) > n
         /\ improved(n, g) >= g => g * g <= n
<1> PICK q : q = n \div g
  OBVIOUS
<1> PICK i : i = improved(n, g)
  OBVIOUS
<1>1. q \in Nat /\ g * q <= n /\ n < g * q + g
  BY Division
<1>2. i = (q + g) \div 2
  BY DEF improved
<1>3. i \in Nat /\ 2 * i <= q + g /\ q + g <= 2 * i + 1
  BY <1>1, <1>2, Halving
<1>4. i > 0
  <2>1. CASE g = 1
    BY <1>1, <1>3, <2>1
  <2>2. CASE g > 1
    BY <1>1, <1>3, <2>2
  <2> QED BY <2>1, <2>2
<1>5. (i + 1) * (i + 1) > n
  <2>1. g * (q + 1) <= (i + 1) * (i + 1)
    BY <1>1, <1>3, MeanSquared
  <2>2. g * (q + 1) = g * q + g
    BY <1>1
  <2>3. g * q \in Nat /\ (i + 1) * (i + 1) \in Nat
    BY <1>1, <1>3
  <2> QED BY <1>1, <2>1, <2>2, <2>3
<1>6. ASSUME i >= g PROVE g * g <= n
  <2>1. g <= q
    BY <1>1, <1>3, <1>6
  <2>2. g * g <= g * q
    BY <1>1, <2>1
  <2> QED BY <1>1, <2>2
<1> QED BY <1>3, <1>4, <1>5, <1>6

(* The first guess of _sqrt is above the root.                              *)
LEMMA SqrtInitially == SqrtInit => SqrtInv
<1> SUFFICES ASSUME SqrtInit PROVE SqrtInv
  OBVIOUS
<1>1. y \in Nat /\ y \in Inputs
  BY DEF SqrtInit
<1>2. CASE y > 3
  <2>1. z = y /\ x = firstGuess(y) /\ done = FALSE
    BY <1>2 DEF SqrtInit
  <2>2. x \in Nat /\ 2 * x >= y + 1 /\ x > 0
    BY <1>1, <2>1, Halving DEF firstGuess
  <2>3. (z + 1) * (z + 1) = z * z + 2 * z + 1 /\ z * z \in Nat
    BY <1>1, <2>1
  <2>4. (x + 1) * (x + 1) = x * x + 2 * x + 1 /\ x * x \in Nat
    BY <2>2
  <2>5. (z + 1) * (z + 1) > y /\ (x + 1) * (x + 1) > y
    BY <1>1, <2>1, <2>2, <2>3, <2>4
  <2>6. GuessesOK /\ IsSqrt /\ GuessOf
    BY <1>1, <2>1, <2>2 DEF GuessesOK, IsSqrt, GuessOf
  <2>7. z > 0
    BY <1>1, <1>2, <2>1
  <2> QED BY <1>2, <2>2, <2>5, <2>6, <2>7 DEF SqrtInv
<1>3. CASE y <= 3
  <2>1. y \in {0, 1, 2, 3}
    BY <1>1, <1>3
  <2>2. done = TRUE /\ x = 0 /\ z = IF y = 0 THEN 0 ELSE 1
    BY <1>1, <1>3 DEF SqrtInit
  <2>3. z \in Nat /\ z * z <= y /\ (z + 1) * (z + 1) > y
    BY <2>1, <2>2
  <2> QED BY <1>1, <2>2, <2>3 DEF SqrtInv, GuessesOK, IsSqrt
<1> QED BY <1>1, <1>2, <1>3

(* Every turn of the loop keeps the invariant.                              *)
LEMMA SqrtKeeps == SqrtInv /\ [SqrtNext]_sqrtVars => SqrtInv'
<1> SUFFICES ASSUME SqrtInv, [SqrtNext]_sqrtVars PROVE SqrtInv'
  OBVIOUS
<1>0. y \in Nat /\ y \in Inputs /\ x \in Nat /\ z \in Nat
  BY DEF SqrtInv, GuessesOK
<1>1. CASE Turn
  <2>1. /\ y' = y /\ done' = FALSE /\ done = FALSE /\ z' = x /\ x' = improved(y, x)
        /\ y > 3 /\ x > 0 /\ (x + 1) * (x + 1) > y
    BY <1>1 DEF Turn, SqrtInv, GuessesOK
  <2>2. x' \in Nat /\ x' > 0 /\ (x' + 1) * (x' + 1) > y
    BY <1>0, <2>1, Improves
  <2> QED BY <1>0, <2>1, <2>2 DEF SqrtInv, GuessesOK, IsSqrt, GuessOf
<1>2. CASE Leave
  <2>1. /\ y' = y /\ z' = z /\ x' = x /\ done' = TRUE
        /\ x >= z /\ y > 3 /\ z > 0 /\ GuessOf /\ (z + 1) * (z + 1) > y
    BY <1>2 DEF Leave, SqrtInv
  <2>2. ~(z = y /\ x = firstGuess(y))
    BY <1>0, <2>1, Halving DEF firstGuess
  <2>3. z * z <= y
    BY <1>0, <2>1, <2>2, Improves DEF GuessOf
  <2> QED BY <1>0, <2>1, <2>3 DEF SqrtInv, GuessesOK, IsSqrt
<1>3. CASE UNCHANGED sqrtVars
  BY <1>3 DEF sqrtVars, SqrtInv, GuessesOK, IsSqrt, GuessOf
<1> QED BY <1>1, <1>2, <1>3 DEF SqrtNext

(* For every input the pool's square root is exact, rounded down.           *)
THEOREM SqrtIsExact == SqrtSpec => []IsSqrt
<1>1. SqrtInv => IsSqrt
  BY DEF SqrtInv
<1> QED BY <1>1, SqrtInitially, SqrtKeeps, PTL DEF SqrtSpec

(* No guess falls below the root.                                           *)
THEOREM GuessesStayAbove == SqrtSpec => []NeverBelowRoot
<1>1. SqrtInv => NeverBelowRoot
  BY DEF SqrtInv, NeverBelowRoot
<1> QED BY <1>1, SqrtInitially, SqrtKeeps, PTL DEF SqrtSpec

-----------------------------------------------------------------------------
(* The market maker.                                                        *)

(* What happens to the pool is a step of its module or nothing.             *)
LEMMA AmmStep ==
  [SuiteNext]_<<subject, vars, sqrtVars, ammVars, merkleVars, minerVars>> => [Amm!Next]_(Amm!vars)
  BY DEF SuiteNext, ammVars, Amm!vars

(* What its constants may be.                                               *)
LEMMA AmmConstants ==
  WordModulus \in Nat \ {0} /\ Amounts \subseteq Nat /\ FeeScale \in Nat /\ FeeKept \in 1..FeeScale
  BY OnChainAssumption DEF Amm!WordAssumption

(* Products of larger numbers are larger.                                   *)
LEMMA ProductMonotone ==
  ASSUME NEW a \in Nat, NEW b \in Nat, NEW c \in Nat, NEW d \in Nat, a >= b, c >= d
  PROVE  a * c >= b * d
<1>1. a * c >= b * c
  <2>1. (a - b) * c >= 0
    BY a - b \in Nat
  <2> QED BY <2>1
<1>2. b * c >= b * d
  <2>1. b * (c - d) >= 0
    BY c - d \in Nat
  <2> QED BY <2>1
<1> QED BY <1>1, <1>2

(* A sign does not change when a factor is positive.                        *)
LEMMA ProductPositive ==
  ASSUME NEW a \in Int, NEW b \in Nat \ {0}, a * b >= 0 PROVE a >= 0
<1> SUFFICES ASSUME a <= -1 PROVE FALSE
  OBVIOUS
<1>1. (-1 - a) * b >= 0
  BY -1 - a \in Nat
<1>2. a * b <= -1 * b
  BY <1>1
<1> QED BY <1>2

(* A swap with any fee does not lower the product of the reserves.          *)
LEMMA ProductKept ==
  ASSUME NEW rin \in Nat, NEW rout \in Nat, NEW a \in Nat, NEW out \in Nat,
         NEW kept \in Nat \ {0}, NEW scale \in Nat, kept <= scale,
         out * (rin * scale + a * kept) <= rout * a * kept
  PROVE  (rin + a) * (rout - out) >= rin * rout
<1>1. out * rin * kept <= out * rin * scale
  <2>1. out * rin \in Nat
    OBVIOUS
  <2> QED BY <2>1, ProductMonotone
<1>2. out * (rin * scale + a * kept) = out * rin * scale + out * a * kept
  OBVIOUS
<1>3. out * rin * kept + out * a * kept <= rout * a * kept
  BY <1>1, <1>2
<1>4. (a * rout - out * (rin + a)) * kept >= 0
  BY <1>3
<1>5. a * rout - out * (rin + a) >= 0
  BY <1>4, ProductPositive
<1>6. (rin + a) * (rout - out) = rin * rout + (a * rout - out * (rin + a))
  OBVIOUS
<1> QED BY <1>5, <1>6

(* Shares in proportion to what is paid in, rounded down, do not lower what *)
(* a share is worth.                                                        *)
LEMMA ShareKept ==
  ASSUME NEW r0 \in Nat, NEW r1 \in Nat, NEW a0 \in Nat, NEW a1 \in Nat,
         NEW ts \in Nat, NEW s \in Nat, s * r0 <= a0 * ts, s * r1 <= a1 * ts
  PROVE  (r0 + a0) * (r1 + a1) * ts * ts >= r0 * r1 * (ts + s) * (ts + s)
<1> DEFINE A == (r0 + a0) * ts
           B == r0 * (ts + s)
           C == (r1 + a1) * ts
           D == r1 * (ts + s)
<1>1. A \in Nat /\ B \in Nat /\ C \in Nat /\ D \in Nat
  OBVIOUS
<1>2. A = r0 * ts + a0 * ts /\ B = r0 * ts + s * r0
  OBVIOUS
<1>3. C = r1 * ts + a1 * ts /\ D = r1 * ts + s * r1
  OBVIOUS
<1>4. A >= B /\ C >= D
  BY <1>2, <1>3
<1>5. A * C >= B * D
  <2> HIDE DEF A, B, C, D
  <2> QED BY <1>1, <1>4, ProductMonotone
<1>6. A * C = (r0 + a0) * (r1 + a1) * ts * ts
  OBVIOUS
<1>7. B * D = r0 * r1 * (ts + s) * (ts + s)
  OBVIOUS
<1> QED BY <1>5, <1>6, <1>7

(* What division by a positive number yields.                               *)
LEMMA DivisionBelow ==
  ASSUME NEW n \in Nat, NEW d \in Nat \ {0}
  PROVE  n \div d \in Nat /\ (n \div d) * d <= n
<1>1. n = d * (n \div d) + (n % d) /\ n % d \in 0..(d - 1) /\ n \div d \in Int
  BY DivMod
<1>2. n \div d >= 0
  <2> SUFFICES ASSUME n \div d <= -1 PROVE FALSE
    BY <1>1
  <2>1. d * (-1 - (n \div d)) >= 0
    BY <1>1, -1 - (n \div d) \in Nat
  <2>2. d * (n \div d) <= -d
    BY <1>1, <2>1
  <2> QED BY <1>1, <2>2
<1> QED BY <1>1, <1>2

(* div of the assembly, whose operand may have wrapped, never yields too    *)
(* many shares.                                                             *)
LEMMA WrappedShare ==
  ASSUME NEW n \in Nat, NEW r \in Nat
  PROVE  /\ Amm!div(n % WordModulus, r) \in Nat
         /\ Amm!div(n % WordModulus, r) * r <= n
<1>1. n % WordModulus \in Nat /\ n % WordModulus <= n
  <2>1. n = WordModulus * (n \div WordModulus) + (n % WordModulus) /\ n % WordModulus \in 0..(WordModulus - 1)
    BY DivMod, AmmConstants
  <2>2. (n \div WordModulus) \in Nat
    BY DivisionBelow, AmmConstants
  <2>3. WordModulus * (n \div WordModulus) >= 0
    BY <2>2, AmmConstants
  <2> QED BY <2>1, <2>2, <2>3, AmmConstants
<1>2. CASE r = 0
  BY <1>1, <1>2 DEF Amm!div
<1>3. CASE r # 0
  <2>1. ((n % WordModulus) \div r) \in Nat /\ ((n % WordModulus) \div r) * r <= n % WordModulus
    BY <1>1, <1>3, DivisionBelow
  <2> QED BY <1>1, <1>3, <2>1 DEF Amm!div
<1> QED BY <1>2, <1>3

(* A swap in progress has seen the reserves as they still are.              *)
Swapping(c) ==
  /\ c.in \in Amm!Token /\ c.amountIn \in Nat
  /\ c.reserveIn = reserve[c.in] /\ c.reserveOut = reserve[1 - c.in]

(* What is known of a call while a token contract runs.                     *)
InProgress(c) ==
  \/ c.at = "transferFrom" /\ Swapping(c)
  \/ c.at = "transfer" /\ Swapping(c) /\ c.amountOut = Amm!amountOut(c)
     /\ c.reserveIn * FeeScale + c.amountIn * FeeKept > 0
  \/ c.at = "liquidity" /\ c.amount0 \in Nat /\ c.amount1 \in Nat

(* The inductive invariant of the pool: the guard lets one call be in       *)
(* progress at a time, so a call that goes on finds the pool as it has left *)
(* it, and a revert restores what is there.                                 *)
AmmInv ==
  /\ reserve \in [Amm!Token -> Nat] /\ totalSupply \in Nat
  /\ \/ calls = <<>>
     \/ /\ status = 2 /\ Len(calls) = 1 /\ InProgress(calls[1])
        /\ before.reserve = reserve /\ before.totalSupply = totalSupply

(* What a step may do to the worth of a share.                              *)
ShareValue ==
  totalSupply > 0 =>
       reserve'[0] * reserve'[1] * totalSupply * totalSupply
         >= reserve[0] * reserve[1] * totalSupply' * totalSupply'

(* The pool is empty at first.                                              *)
LEMMA AmmInitially == SuiteInit => AmmInv
  BY DEF SuiteInit, Amm!Init, AmmInv, Amm!Token

(* A call that enters the pool changes no reserve.                          *)
LEMMA EnterKeeps ==
  ASSUME AmmInv, NEW c, Amm!Enter(c), InProgress(c)
  PROVE  AmmInv' /\ ShareValue
<1>1. /\ status = 1 /\ status' = 2 /\ calls' = Append(calls, c)
      /\ before' = IF calls = <<>> THEN Amm!Pool ELSE before
      /\ UNCHANGED <<reserve, totalSupply>>
  BY DEF Amm!Enter, Amm!nonReentrant
<1>2. calls = <<>>
  BY <1>1 DEF AmmInv
<1>3. calls' = <<c>>
  BY <1>1, <1>2
<1>4. Len(calls') = 1 /\ calls'[1] = c
  BY <1>3
<1>5. InProgress(c)'
  BY <1>1 DEF InProgress, Swapping, Amm!amountOut
<1>6. before'.reserve = reserve /\ before'.totalSupply = totalSupply
  BY <1>1, <1>2 DEF Amm!Pool
<1>7. AmmInv'
  BY <1>1, <1>4, <1>5, <1>6 DEF AmmInv
<1>8. ShareValue
  BY <1>1 DEF AmmInv, ShareValue, Amm!Token
<1> QED BY <1>7, <1>8

(* Every step keeps the invariant and the worth of a share.                 *)
LEMMA AmmKeeps ==
  AmmInv /\ [SuiteNext]_<<subject, vars, sqrtVars, ammVars, merkleVars, minerVars>>
    => AmmInv' /\ [ShareValue]_(Amm!vars)
<1> SUFFICES ASSUME AmmInv, [Amm!Next]_(Amm!vars) PROVE AmmInv' /\ [ShareValue]_(Amm!vars)
  BY AmmStep
<1>0. reserve[0] \in Nat /\ reserve[1] \in Nat /\ totalSupply \in Nat
  BY DEF AmmInv, Amm!Token
<1>1. ASSUME NEW in \in Amm!Token, NEW amountIn \in Amounts, Amm!swap(in, amountIn)
      PROVE  AmmInv' /\ ShareValue
  <2> DEFINE c == [at |-> "transferFrom", in |-> in, amountIn |-> amountIn, amountOut |-> 0,
                   reserveIn |-> reserve[in], reserveOut |-> reserve[1 - in]]
  <2>1. Amm!Enter(c)
    BY <1>1 DEF Amm!swap
  <2>2. InProgress(c)
    BY AmmConstants DEF InProgress, Swapping
  <2> HIDE DEF c
  <2> QED BY <2>1, <2>2, EnterKeeps
<1>2. ASSUME NEW amount0 \in Amounts, NEW amount1 \in Amounts, Amm!addLiquidity(amount0, amount1)
      PROVE  AmmInv' /\ ShareValue
  <2> DEFINE c == [at |-> "liquidity", amount0 |-> amount0, amount1 |-> amount1]
  <2>1. Amm!Enter(c)
    BY <1>2 DEF Amm!addLiquidity
  <2>2. InProgress(c)
    BY AmmConstants DEF InProgress
  <2> HIDE DEF c
  <2> QED BY <2>1, <2>2, EnterKeeps
<1>3. ASSUME calls # <<>>
      PROVE  /\ Len(calls) = 1 /\ Amm!Top = calls[1] /\ InProgress(Amm!Top) /\ Amm!Caller = <<>>
             /\ before.reserve = reserve /\ before.totalSupply = totalSupply /\ status = 2
  <2>1. Len(calls) = 1 /\ InProgress(calls[1]) /\ status = 2
        /\ before.reserve = reserve /\ before.totalSupply = totalSupply
    BY <1>3 DEF AmmInv
  <2>2. SubSeq(calls, 1, 0) = <<>>
    OBVIOUS
  <2> QED BY <2>1, <2>2 DEF Amm!Top, Amm!Caller
<1>4. CASE Amm!sendOutput
  <2> DEFINE c == Amm!Top
             d == [c EXCEPT !.at = "transfer", !.amountOut = Amm!amountOut(c)]
  <2>1. /\ calls # <<>> /\ c.at = "transferFrom"
        /\ c.reserveIn * FeeScale + c.amountIn * FeeKept > 0
        /\ calls' = Append(Amm!Caller, d)
        /\ UNCHANGED <<reserve, totalSupply, status, before>>
    BY <1>4 DEF Amm!sendOutput
  <2>2. InProgress(c) /\ Amm!Caller = <<>> /\ status = 2
        /\ before.reserve = reserve /\ before.totalSupply = totalSupply
    BY <1>3, <2>1
  <2>3. Len(calls') = 1 /\ calls'[1] = d
    BY <2>1, <2>2
  <2>4. /\ d.at = "transfer" /\ d.in = c.in /\ d.amountIn = c.amountIn /\ d.reserveIn = c.reserveIn
        /\ d.reserveOut = c.reserveOut /\ d.amountOut = Amm!amountOut(c)
    OBVIOUS
  <2>5. Amm!amountOut(d) = Amm!amountOut(c)
    BY <2>4 DEF Amm!amountOut
  <2>6. Swapping(c)
    BY <2>1, <2>2 DEF InProgress
  <2> HIDE DEF c, d
  <2>7. InProgress(d)
    BY <2>1, <2>4, <2>5, <2>6 DEF InProgress, Swapping
  <2>8. ASSUME NEW e, InProgress(e) PROVE InProgress(e)'
    BY <2>1, <2>8 DEF InProgress, Swapping, Amm!amountOut
  <2>9. AmmInv'
    BY <2>1, <2>2, <2>3, <2>7, <2>8 DEF AmmInv
  <2> QED BY <1>0, <2>1, <2>9 DEF ShareValue
<1>5. CASE Amm!endSwap
  <2> DEFINE c == Amm!Top
             i == c.in
             out == c.amountOut
  <2>1. /\ calls # <<>> /\ c.at = "transfer"
        /\ Amm!Fits(reserve[i] + c.amountIn) /\ Amm!Fits(reserve[1 - i] - out)
        /\ reserve' = [reserve EXCEPT ![i] = Amm!reserveWith(c), ![1 - i] = @ - out]
        /\ calls' = Amm!Caller /\ UNCHANGED totalSupply
    BY <1>5 DEF Amm!endSwap
  <2>2. Swapping(c) /\ out = Amm!amountOut(c) /\ Amm!Caller = <<>>
        /\ c.reserveIn * FeeScale + c.amountIn * FeeKept > 0
    BY <1>3, <2>1 DEF InProgress
  <2>3. i \in {0, 1} /\ 1 - i \in {0, 1} /\ i # 1 - i
    BY <2>2 DEF Swapping, Amm!Token
  <2>4. reserve[i] \in Nat /\ reserve[1 - i] \in Nat /\ c.amountIn \in Nat
        /\ c.reserveIn = reserve[i] /\ c.reserveOut = reserve[1 - i]
    BY <1>0, <2>2, <2>3 DEF Swapping
  <2> DEFINE n == reserve[1 - i] * c.amountIn * FeeKept
             m == reserve[i] * FeeScale + c.amountIn * FeeKept
  <2>5. n \in Nat /\ m \in Nat \ {0} /\ out = n \div m
    <3>1. FeeKept \in Nat /\ FeeScale \in Nat
      BY AmmConstants
    <3>2. n \in Nat /\ m \in Nat
      BY <2>4, <3>1
    <3>3. m > 0
      BY <2>2, <2>4
    <3>4. out = n \div m
      BY <2>2, <2>4 DEF Amm!amountOut
    <3> HIDE DEF n, m
    <3> QED BY <3>2, <3>3, <3>4
  <2>6. out \in Nat /\ out * m <= n
    <3> HIDE DEF n, m, out
    <3> QED BY <2>5, DivisionBelow
  <2>7. /\ reserve'[i] = reserve[i] + c.amountIn /\ reserve'[1 - i] = reserve[1 - i] - out
        /\ reserve' \in [Amm!Token -> Nat]
    <3>1. reserve[1 - i] - out \in Nat
      BY <2>1, AmmConstants DEF Amm!Fits, Amm!Word
    <3>2. Amm!reserveWith(c) = reserve[i] + c.amountIn
      BY DEF Amm!reserveWith
    <3> HIDE DEF i, out, c
    <3> QED BY <2>1, <2>3, <2>4, <3>1, <3>2 DEF AmmInv, Amm!Token
  <2>8. reserve'[i] * reserve'[1 - i] >= reserve[i] * reserve[1 - i]
    <3> HIDE DEF i, out, c
    <3>1. (reserve[i] + c.amountIn) * (reserve[1 - i] - out) >= reserve[i] * reserve[1 - i]
      <4>1. FeeKept \in Nat \ {0} /\ FeeScale \in Nat /\ FeeKept <= FeeScale
        BY AmmConstants
      <4> QED BY <2>4, <2>6, <4>1, ProductKept
    <3> QED BY <2>7, <3>1
  <2>9. reserve'[0] * reserve'[1] >= reserve[0] * reserve[1] /\ reserve'[0] \in Nat /\ reserve'[1] \in Nat
    <3> HIDE DEF i, out, c
    <3>1. reserve'[0] \in Nat /\ reserve'[1] \in Nat
      BY <2>7 DEF Amm!Token
    <3>2. CASE i = 0
      <4>1. 1 - i = 1
        BY <3>2
      <4> QED BY <2>8, <3>1, <3>2, <4>1
    <3>3. CASE i = 1
      BY <1>0, <2>8, <3>1, <3>3
    <3> QED BY <2>3, <3>1, <3>2, <3>3
  <2>10. ShareValue
    <3>1. reserve'[0] * reserve'[1] \in Nat /\ reserve[0] * reserve[1] \in Nat
      BY <1>0, <2>9
    <3> DEFINE p == reserve[0] * reserve[1]
               q == reserve'[0] * reserve'[1]
    <3> HIDE DEF p, q
    <3>2. q * totalSupply >= p * totalSupply /\ q * totalSupply \in Nat /\ p * totalSupply \in Nat
      BY <1>0, <2>9, <3>1, ProductMonotone DEF p, q
    <3>3. q * totalSupply * totalSupply >= p * totalSupply * totalSupply
      BY <1>0, <3>2, ProductMonotone
    <3> QED BY <2>1, <3>3 DEF ShareValue, p, q
  <2>11. AmmInv'
    BY <1>0, <2>1, <2>2, <2>7 DEF AmmInv
  <2> QED BY <2>10, <2>11
<1>6. CASE Amm!endLiquidity
  <2> DEFINE a0 == Amm!Top.amount0
             a1 == Amm!Top.amount1
             s == IF totalSupply = 0 THEN Amm!sqrt(a0 * a1) ELSE Amm!proportionalShares(a0, a1)
  <2>1. /\ calls # <<>> /\ Amm!Top.at = "liquidity"
        /\ Amm!Fits(totalSupply + s)
        /\ totalSupply' = totalSupply + s
        /\ reserve' = [reserve EXCEPT ![0] = @ + a0, ![1] = @ + a1]
        /\ calls' = Amm!Caller
    BY <1>6 DEF Amm!endLiquidity
  <2>2. a0 \in Nat /\ a1 \in Nat /\ Amm!Caller = <<>>
    BY <1>3, <2>1 DEF InProgress
  <2> HIDE DEF a0, a1
  <2>3. /\ reserve'[0] = reserve[0] + a0 /\ reserve'[1] = reserve[1] + a1
        /\ reserve' \in [Amm!Token -> Nat]
    BY <1>0, <2>1, <2>2 DEF AmmInv, Amm!Token
  <2>4. totalSupply' \in Nat
    BY <2>1, AmmConstants DEF Amm!Fits, Amm!Word
  <2>5. AmmInv'
    BY <2>1, <2>2, <2>3, <2>4 DEF AmmInv
  <2>6. ASSUME totalSupply > 0
        PROVE  reserve'[0] * reserve'[1] * totalSupply * totalSupply
                 >= reserve[0] * reserve[1] * totalSupply' * totalSupply'
    <3> DEFINE s0 == Amm!div((a0 * totalSupply) % WordModulus, reserve[0])
               s1 == Amm!div((a1 * totalSupply) % WordModulus, reserve[1])
    <3>1. s = IF s0 < s1 THEN s0 ELSE s1
      BY <1>0, <2>6 DEF Amm!proportionalShares
    <3>2. a0 * totalSupply \in Nat /\ a1 * totalSupply \in Nat
      BY <1>0, <2>2
    <3>3. s0 \in Nat /\ s0 * reserve[0] <= a0 * totalSupply
      BY <1>0, <3>2, WrappedShare
    <3>4. s1 \in Nat /\ s1 * reserve[1] <= a1 * totalSupply
      BY <1>0, <3>2, WrappedShare
    <3> HIDE DEF s, s0, s1
    <3>5. s \in Nat /\ s <= s0 /\ s <= s1
      BY <3>1, <3>3, <3>4
    <3>6. s * reserve[0] <= s0 * reserve[0] /\ s * reserve[1] <= s1 * reserve[1]
      BY <1>0, <3>3, <3>4, <3>5, ProductMonotone
    <3>7. s * reserve[0] <= a0 * totalSupply /\ s * reserve[1] <= a1 * totalSupply
      BY <1>0, <2>2, <3>2, <3>3, <3>4, <3>5, <3>6, SMTT(60)
    <3>8. (reserve[0] + a0) * (reserve[1] + a1) * totalSupply * totalSupply
            >= reserve[0] * reserve[1] * (totalSupply + s) * (totalSupply + s)
      BY <1>0, <2>2, <3>5, <3>7, ShareKept
    <3> QED BY <2>1, <2>3, <3>8
  <2> QED BY <2>5, <2>6 DEF ShareValue
<1>7. CASE Amm!revert
  <2>1. /\ calls # <<>> /\ calls' = <<>>
        /\ reserve' = before.reserve /\ totalSupply' = before.totalSupply
    BY <1>7 DEF Amm!revert
  <2>2. UNCHANGED <<reserve, totalSupply>>
    BY <1>3, <2>1
  <2> QED BY <1>0, <2>1, <2>2 DEF AmmInv, ShareValue
<1>8. CASE UNCHANGED Amm!vars
  <2>1. ASSUME NEW c, InProgress(c) PROVE InProgress(c)'
    BY <1>8, <2>1 DEF InProgress, Swapping, Amm!amountOut, Amm!vars
  <2>2. AmmInv'
    BY <1>8, <2>1 DEF AmmInv, Amm!vars
  <2> QED BY <1>8, <2>2
<1> QED BY <1>1, <1>2, <1>4, <1>5, <1>6, <1>7, <1>8 DEF Amm!Next

(* For every fee, word size and amounts: k per squared share never drops,   *)
(* whatever the token contracts do in between.                              *)
THEOREM SharesKeepTheirWorth == SuiteSpec => ShareValueNeverDrops
<1>1. AmmInv /\ [SuiteNext]_<<subject, vars, sqrtVars, ammVars, merkleVars, minerVars>> =>
        /\ AmmInv'
        /\ [totalSupply > 0 =>
              reserve'[0] * reserve'[1] * totalSupply * totalSupply
                >= reserve[0] * reserve[1] * totalSupply' * totalSupply']_(Amm!vars)
  BY AmmKeeps DEF ShareValue
<1> QED BY <1>1, AmmInitially, PTL DEF SuiteSpec, ShareValueNeverDrops, Amm!ShareValueNeverDrops

-----------------------------------------------------------------------------
(* The Merkle root.                                                         *)

(* The trees of height 0.                                                   *)
Base == [span |-> 1, at |-> Merkle!Leaves(transactions)]

(* g is a table of the subtrees of the heights up to n.                     *)
TableTo(g, n) ==
  g = [h \in 0..n |-> IF h = 0 THEN Base ELSE Merkle!Doubled(g[h - 1])]

(* Such tables exist: the first height without one would have one.          *)
LEMMA TablesExist == \A n \in Nat : \E g : TableTo(g, n)
<1> DEFINE bad == {n \in Nat : ~ \E g : TableTo(g, n)}
<1> SUFFICES ASSUME bad # {} PROVE FALSE
  OBVIOUS
<1>1. PICK n \in bad : \A m \in bad : n <= m
  BY LeastNumber, bad \subseteq Nat
<1>2. CASE n = 0
  <2> DEFINE g == [h \in 0..0 |-> Base]
  <2>1. g = [h \in 0..0 |-> IF h = 0 THEN Base ELSE Merkle!Doubled(g[h - 1])]
    OBVIOUS
  <2>2. TableTo(g, 0)
    BY <2>1 DEF TableTo
  <2> QED BY <1>1, <1>2, <2>2
<1>3. CASE n # 0
  <2>1. n - 1 \in Nat /\ n - 1 \notin bad
    BY <1>1, <1>3
  <2>2. PICK g : TableTo(g, n - 1)
    BY <2>1
  <2> DEFINE f == [h \in 0..n |-> IF h = n THEN Merkle!Doubled(g[n - 1]) ELSE g[h]]
  <2>3. ASSUME NEW h \in 0..n
        PROVE  f[h] = IF h = 0 THEN Base ELSE Merkle!Doubled(f[h - 1])
    <3>0. n \in Nat
      OBVIOUS
    <3>1. CASE h = n
      <4>1. f[h] = Merkle!Doubled(g[n - 1]) /\ n - 1 \in 0..n /\ n - 1 # n
        BY <3>0, <3>1, <2>1
      <4>2. f[h - 1] = g[n - 1]
        BY <3>1, <4>1
      <4> QED BY <1>3, <3>1, <4>1, <4>2
    <3>2. CASE h # n /\ h = 0
      <4>1. h \in 0..(n - 1)
        BY <3>0, <3>2
      <4>2. g[h] = Base
        BY <2>2, <3>2, <4>1 DEF TableTo
      <4> QED BY <3>2, <4>2
    <3>3. CASE h # n /\ h # 0
      <4>1. h \in 0..(n - 1) /\ h - 1 \in 0..n /\ h - 1 # n
        BY <3>0, <3>3
      <4>2. g[h] = Merkle!Doubled(g[h - 1])
        BY <2>2, <3>3, <4>1 DEF TableTo
      <4>3. f[h] = g[h] /\ f[h - 1] = g[h - 1]
        BY <3>3, <4>1
      <4> QED BY <3>3, <4>2, <4>3
    <3> QED BY <3>1, <3>2, <3>3
  <2>4. f = [h \in 0..n |-> f[h]]
    OBVIOUS
  <2> HIDE DEF f
  <2>5. TableTo(f, n)
    BY <2>3, <2>4 DEF TableTo
  <2> QED BY <1>1, <2>5
<1> QED BY <1>2, <1>3

(* They agree where they overlap.                                           *)
LEMMA TablesAgree ==
  ASSUME NEW n \in Nat, NEW m \in Nat, NEW f, NEW g, TableTo(f, n), TableTo(g, m)
  PROVE  \A h \in Nat : h <= n /\ h <= m => f[h] = g[h]
<1> DEFINE bad == {h \in Nat : h <= n /\ h <= m /\ f[h] # g[h]}
<1> SUFFICES ASSUME bad # {} PROVE FALSE
  OBVIOUS
<1>1. PICK h \in bad : \A k \in bad : h <= k
  BY LeastNumber, bad \subseteq Nat
<1>2. h \in 0..n /\ h \in 0..m
  BY <1>1
<1>3. f[h] = (IF h = 0 THEN Base ELSE Merkle!Doubled(f[h - 1]))
  BY <1>2 DEF TableTo
<1>4. g[h] = (IF h = 0 THEN Base ELSE Merkle!Doubled(g[h - 1]))
  BY <1>2 DEF TableTo
<1>5. CASE h = 0
  BY <1>1, <1>3, <1>4, <1>5
<1>6. CASE h # 0
  <2>1. h - 1 \in Nat /\ h - 1 <= n /\ h - 1 <= m /\ ~(h <= h - 1)
    BY <1>2, <1>6
  <2>2. f[h - 1] = g[h - 1]
    BY <1>1, <2>1
  <2> QED BY <1>1, <1>3, <1>4, <1>6, <2>2
<1> QED BY <1>5, <1>6

(* So the recursive definition of Subtrees defines a function.              *)
LEMMA SubtreesAre ==
  \A h \in Nat : Merkle!Subtrees[h] = IF h = 0 THEN Base ELSE Merkle!Doubled(Merkle!Subtrees[h - 1])
<1> DEFINE t(h) == CHOOSE g : TableTo(g, h)
           F == [h \in Nat |-> t(h)[h]]
<1>1. ASSUME NEW h \in Nat PROVE TableTo(t(h), h)
  BY TablesExist
<1>2. ASSUME NEW h \in Nat PROVE F[h] = IF h = 0 THEN Base ELSE Merkle!Doubled(F[h - 1])
  <2>1. h \in 0..h /\ F[h] = t(h)[h]
    OBVIOUS
  <2>2. t(h)[h] = IF h = 0 THEN Base ELSE Merkle!Doubled(t(h)[h - 1])
    <3> DEFINE g == t(h)
    <3>1. TableTo(g, h)
      BY <1>1
    <3> HIDE DEF g
    <3>2. g[h] = IF h = 0 THEN Base ELSE Merkle!Doubled(g[h - 1])
      BY <2>1, <3>1 DEF TableTo
    <3> QED BY <3>2 DEF g
  <2>3. CASE h = 0
    BY <2>1, <2>2, <2>3
  <2>4. CASE h # 0
    <3>1. h - 1 \in Nat /\ h - 1 <= h
      BY <2>4
    <3>2. TableTo(t(h - 1), h - 1) /\ TableTo(t(h), h)
      BY <1>1, <3>1
    <3> HIDE DEF t
    <3>3. t(h)[h - 1] = t(h - 1)[h - 1]
      BY <3>1, <3>2, TablesAgree
    <3>4. F[h - 1] = t(h - 1)[h - 1]
      BY <3>1
    <3> QED BY <2>1, <2>2, <2>4, <3>3, <3>4
  <2> QED BY <2>3, <2>4
<1>3. F = [h \in Nat |-> F[h]]
  OBVIOUS
<1> HIDE DEF F
<1>4. F = [h \in Nat |-> IF h = 0 THEN Base ELSE Merkle!Doubled(F[h - 1])]
  BY <1>2, <1>3
<1>5. Merkle!Subtrees = [h \in Nat |-> IF h = 0 THEN Base ELSE Merkle!Doubled(Merkle!Subtrees[h - 1])]
  BY <1>4 DEF Merkle!Subtrees, Base
<1> QED BY <1>5

(* The number of transactions.                                              *)
Txs == Len(transactions)

(* A tree spans twice the leaves of the trees below it, and more leaves     *)
(* than its height.                                                         *)
LEMMA SpansGrow ==
  ASSUME transactions \in Seq(Transactions)
  PROVE  \A h \in Nat : /\ Merkle!Subtrees[h].span \in Nat /\ Merkle!Subtrees[h].span > h
                        /\ h = 0 => Merkle!Subtrees[h].span = 1
                        /\ Merkle!Subtrees[h + 1].span = 2 * Merkle!Subtrees[h].span
<1> DEFINE w(h) == Merkle!Subtrees[h].span
           bad == {h \in Nat : ~(w(h) \in Nat /\ w(h) > h)}
<1>1. Merkle!Subtrees[0] = Base
  BY SubtreesAre
<1>2. w(0) = 1
  BY <1>1 DEF Base
<1>3. ASSUME NEW h \in Nat PROVE w(h + 1) = 2 * w(h)
  <2>1. Merkle!Subtrees[h + 1] = Merkle!Doubled(Merkle!Subtrees[h])
    <3>1. h + 1 \in Nat /\ h + 1 # 0 /\ (h + 1) - 1 = h
      OBVIOUS
    <3> QED BY <3>1, SubtreesAre
  <2> QED BY <2>1 DEF Merkle!Doubled
<1> HIDE DEF w
<1>4. ASSUME bad # {} PROVE FALSE
  <2>1. PICK h \in bad : \A k \in bad : h <= k
    BY <1>4, LeastNumber, bad \subseteq Nat
  <2>2. h # 0
    BY <1>2, <2>1
  <2>3. h - 1 \in Nat /\ h - 1 \notin bad
    BY <2>1, <2>2
  <2>4. w(h - 1) \in Nat /\ w(h - 1) > h - 1
    BY <2>3
  <2>5. w((h - 1) + 1) = 2 * w(h - 1)
    BY <1>3, <2>3
  <2>6. (h - 1) + 1 = h
    BY <2>1
  <2> QED BY <2>1, <2>3, <2>4, <2>5, <2>6
<1> QED BY <1>2, <1>3, <1>4 DEF w

(* The level holds the trees of height h, one behind the other.             *)
AtHeight(h) ==
  LET t == Merkle!Subtrees[h]
      m == Len(current_level)
  IN  /\ m \in Nat
      /\ current_level = [k \in 1..m |-> t.at[(k - 1) * t.span + 1]]
      /\ (m - 1) * t.span < Txs /\ Txs <= m * t.span
      /\ \A k \in 0..(h - 1) : Merkle!Subtrees[k].span < Txs

(* The inductive invariant of calculate_merkle_root.                        *)
MerkleInv ==
  /\ transactions \in Seq(Transactions)
  /\ transactions = <<>> => current_level = <<>>
  /\ transactions # <<>> => \E h \in Nat : AtHeight(h)
  /\ Merkle!RootIsTree

(* The leaves where the trees of a level and of the next one start.         *)
LEMMA Spans ==
  ASSUME NEW w \in Nat \ {0}, NEW m \in Nat, NEW n \in Nat, NEW i \in Nat \ {0},
         (m - 1) * w < n, n <= m * w, 2 * i - 1 <= m
  PROVE  /\ (i - 1) * (2 * w) + 1 = (2 * i - 1 - 1) * w + 1
         /\ (i - 1) * (2 * w) + 1 + w = (2 * i - 1) * w + 1
         /\ (i - 1) * (2 * w) + 1 \in 1..n
         /\ (i - 1) * (2 * w) + 1 + w <= n <=> 2 * i <= m
<1> DEFINE d == m - (2 * i - 1)
<1>1. d \in Nat /\ d * w \in Nat
  OBVIOUS
<1>2. (i - 1) * (2 * w) = (2 * i - 2) * w /\ (2 * i - 2) * w \in Nat
  <2>1. 2 * i - 2 \in Nat
    OBVIOUS
  <2> QED BY <2>1
<1>3. (2 * i - 1) * w = (2 * i - 2) * w + w
  OBVIOUS
<1>4. m * w = (2 * i - 1) * w + d * w /\ (m - 1) * w = (2 * i - 2) * w + d * w
  OBVIOUS
<1>5. ASSUME 2 * i <= m PROVE (i - 1) * (2 * w) + 1 + w <= n
  <2>1. d - 1 \in Nat /\ (d - 1) * w \in Nat /\ d * w = (d - 1) * w + w
    BY <1>5
  <2> HIDE DEF d
  <2> QED BY <1>1, <1>2, <1>4, <2>1
<1>6. ASSUME ~(2 * i <= m) PROVE ~((i - 1) * (2 * w) + 1 + w <= n)
  <2>1. d = 0 /\ d * w = 0
    BY <1>6
  <2> HIDE DEF d
  <2> QED BY <1>2, <1>3, <1>4, <2>1
<1>7. (i - 1) * (2 * w) + 1 \in 1..n
  <2> HIDE DEF d
  <2> QED BY <1>1, <1>2, <1>4
<1>8. 2 * i - 1 - 1 = 2 * i - 2
  OBVIOUS
<1> QED BY <1>2, <1>3, <1>5, <1>6, <1>7, <1>8

(* A turn of the loop raises the trees by one, an odd one too.              *)
LEMMA ReduceDoubles ==
  ASSUME transactions \in Seq(Transactions), NEW h \in Nat, AtHeight(h), Merkle!Reduce
  PROVE  AtHeight(h + 1)'
<1> DEFINE t == Merkle!Subtrees[h]
           w == t.span
           m == Len(current_level)
           e == Merkle!Evened(current_level)
           l == Len(e) \div 2
           T == Merkle!Subtrees[h + 1]
<1>1. /\ m > 1 /\ current_level' = Merkle!HashPairs(e) /\ UNCHANGED transactions
  BY DEF Merkle!Reduce
<1>2. Merkle!Subtrees' = Merkle!Subtrees
  BY <1>1 DEF Merkle!Subtrees, Merkle!Doubled, Merkle!Leaves
<1>3. w \in Nat \ {0} /\ T.span = 2 * w
  <2>1. w \in Nat /\ w > h /\ T.span = 2 * w
    BY SpansGrow
  <2> HIDE DEF w, T
  <2> QED BY <2>1
<1>4. T = Merkle!Doubled(t)
  <2>1. h + 1 \in Nat /\ h + 1 # 0 /\ (h + 1) - 1 = h
    OBVIOUS
  <2> QED BY <2>1, SubtreesAre
<1>5. /\ m \in Nat /\ current_level = [k \in 1..m |-> t.at[(k - 1) * w + 1]]
      /\ (m - 1) * w < Txs /\ Txs <= m * w
      /\ \A k \in 0..(h - 1) : Merkle!Subtrees[k].span < Txs
  BY DEF AtHeight
<1>6. Txs \in Nat
  BY DEF Txs
<1>7. /\ Len(e) \in Nat /\ Len(e) = 2 * l /\ l \in Nat /\ 2 * l >= m /\ 2 * l <= m + 1
      /\ \A j \in 1..m : e[j] = current_level[j]
      /\ 2 * l = m + 1 => e[m + 1] = current_level[m]
  <2> DEFINE V == {t.at[(k - 1) * w + 1] : k \in 1..m}
  <2>0. current_level \in Seq(V)
    <3> HIDE DEF t, w
    <3>1. \A k \in 1..m : current_level[k] \in V
      BY <1>5
    <3>2. current_level \in [1..m -> V]
      BY <1>5, <3>1
    <3> HIDE DEF V
    <3> QED BY <1>5, <3>2
  <2>1. CASE m % 2 # 0
    <3>1. e = Append(current_level, current_level[m])
      BY <2>1 DEF Merkle!Evened, Merkle!Last
    <3>2. Len(e) = m + 1 /\ e[m + 1] = current_level[m] /\ \A j \in 1..m : e[j] = current_level[j]
      <4> HIDE DEF e, V
      <4>1. current_level[m] \in V
        BY <1>1, <1>5, <2>0
      <4> QED BY <2>0, <3>1, <4>1
    <3> HIDE DEF e, m
    <3>3. m \in Nat /\ l = (m + 1) \div 2
      BY <1>5, <3>2
    <3>4. l \in Nat /\ 2 * l = m + 1
      BY <2>1, <3>3
    <3> QED BY <3>2, <3>3, <3>4
  <2>2. CASE m % 2 = 0
    <3>1. e = current_level
      BY <2>2 DEF Merkle!Evened
    <3>2. Len(e) = m
      BY <3>1
    <3> HIDE DEF e, m
    <3> QED BY <1>5, <2>2, <3>1, <3>2
  <2> QED BY <2>1, <2>2
<1>8. current_level' = [i \in 1..l |-> Merkle!sha256_double(<<e[2 * i - 1], e[2 * i]>>)]
  BY <1>1 DEF Merkle!HashPairs
<1> HIDE DEF w, m, e, l, T
<1>20. m \in Nat /\ (m - 1) * w < Txs /\ Txs <= m * w
  BY <1>5
<1>21. l \in Nat /\ 2 * l >= m /\ 2 * l <= m + 1
  BY <1>7
<1>9. ASSUME NEW i \in 1..l
      PROVE  Merkle!sha256_double(<<e[2 * i - 1], e[2 * i]>>) = T.at[(i - 1) * T.span + 1]
  <2> DEFINE s == (i - 1) * (2 * w) + 1
  <2>0. i \in Nat \ {0} /\ 2 * i - 1 <= m /\ 2 * i - 1 \in 1..m
    BY <1>20, <1>21
  <2>1. /\ s = (2 * i - 1 - 1) * w + 1 /\ s + w = (2 * i - 1) * w + 1 /\ s \in 1..Txs
        /\ s + w <= Txs <=> 2 * i <= m
    BY <1>3, <1>6, <1>20, <2>0, Spans
  <2>2. T.at[s] = Merkle!sha256_double(<<t.at[s], t.at[IF s + w <= Txs THEN s + w ELSE s]>>)
    <3> HIDE DEF s
    <3>1. DOMAIN transactions = 1..Txs
      BY DEF Txs
    <3> QED BY <1>4, <2>1, <3>1 DEF Merkle!Doubled, Txs, w
  <2>3. e[2 * i - 1] = t.at[s]
    <3>1. e[2 * i - 1] = current_level[2 * i - 1]
      BY <1>7, <2>0
    <3>2. current_level[2 * i - 1] = t.at[(2 * i - 1 - 1) * w + 1]
      BY <1>5, <2>0
    <3> QED BY <2>1, <3>1, <3>2
  <2>4. e[2 * i] = t.at[IF s + w <= Txs THEN s + w ELSE s]
    <3>1. CASE 2 * i <= m
      <4>1. 2 * i \in 1..m
        BY <1>5, <2>0, <3>1
      <4>2. e[2 * i] = t.at[(2 * i - 1) * w + 1]
        BY <1>5, <1>7, <4>1
      <4> QED BY <2>1, <3>1, <4>2
    <3>2. CASE ~(2 * i <= m)
      <4>1. 2 * i = m + 1 /\ 2 * l = m + 1 /\ 2 * i - 1 = m
        BY <1>20, <1>21, <2>0, <3>2
      <4>2. e[2 * i] = current_level[2 * i - 1]
        BY <1>7, <4>1
      <4>3. current_level[2 * i - 1] = t.at[(2 * i - 1 - 1) * w + 1]
        BY <1>5, <2>0
      <4> QED BY <2>1, <3>2, <4>2, <4>3
    <3> QED BY <3>1, <3>2
  <2>5. (i - 1) * T.span + 1 = s
    BY <1>3
  <2> HIDE DEF s
  <2> QED BY <2>2, <2>3, <2>4, <2>5
<1>10. current_level' = [i \in 1..l |-> T.at[(i - 1) * T.span + 1]]
  BY <1>8, <1>9
<1>11. Len(current_level') = l
  BY <1>7, <1>10
<1>12. (l - 1) * T.span < Txs /\ Txs <= l * T.span
  <2>1. (l - 1) * (2 * w) = (2 * l - 2) * w /\ l * (2 * w) = (2 * l) * w
    BY <1>3, <1>7
  <2>2. (2 * l - 2) * w <= (m - 1) * w
    <3>1. m - 1 - (2 * l - 2) \in Nat
      BY <1>5, <1>7
    <3>2. (m - 1 - (2 * l - 2)) * w >= 0
      BY <1>3, <3>1
    <3> QED BY <1>3, <1>5, <1>7, <3>2, SMTT(60)
  <2>3. m * w <= (2 * l) * w
    <3>1. 2 * l - m \in Nat
      BY <1>5, <1>7
    <3>2. (2 * l - m) * w >= 0
      BY <1>3, <3>1
    <3> QED BY <1>3, <1>5, <1>7, <3>2
  <2>4. (m - 1) * w \in Int /\ (2 * l - 2) * w \in Int /\ m * w \in Int /\ (2 * l) * w \in Int
    BY <1>3, <1>5, <1>7
  <2> QED BY <1>3, <1>5, <1>6, <2>1, <2>2, <2>3, <2>4
<1>13. w < Txs
  <2>1. m - 2 \in Nat
    BY <1>1, <1>5
  <2>2. (m - 2) * w >= 0
    BY <1>3, <2>1
  <2>3. (m - 1) * w = (m - 2) * w + w
    BY <1>3, <1>5
  <2>4. (m - 2) * w \in Int
    BY <1>3, <2>1
  <2> QED BY <1>3, <1>6, <1>20, <2>2, <2>3, <2>4
<1>14. \A k \in 0..h : Merkle!Subtrees[k].span < Txs
  <2> TAKE k \in 0..h
  <2>1. k = h \/ k \in 0..(h - 1)
    OBVIOUS
  <2> QED BY <1>5, <1>13, <2>1 DEF w
<1>15. Txs' = Txs
  BY <1>1 DEF Txs
<1>16. (h + 1) - 1 = h
  OBVIOUS
<1> QED BY <1>2, <1>7, <1>10, <1>11, <1>12, <1>14, <1>15, <1>16 DEF AtHeight, T

(* A level of one tree is the smallest tree over all leaves.                *)
LEMMA TopIsTree ==
  ASSUME transactions \in Seq(Transactions), transactions # <<>>, NEW h \in Nat, AtHeight(h),
         Len(current_level) = 1
  PROVE  current_level[1] = Merkle!Tree
<1> DEFINE w(k) == Merkle!Subtrees[k].span
<1>0. \A k \in Nat : w(k) \in Nat /\ w(k) > k
  BY SpansGrow
<1>1. /\ current_level = [k \in 1..1 |-> Merkle!Subtrees[h].at[(k - 1) * w(h) + 1]]
      /\ Txs <= 1 * w(h)
      /\ \A k \in 0..(h - 1) : w(k) < Txs
  BY DEF AtHeight
<1>2. Txs \in Nat
  BY DEF Txs
<1>3. current_level[1] = Merkle!Subtrees[h].at[1]
  <2>1. current_level[1] = Merkle!Subtrees[h].at[(1 - 1) * w(h) + 1]
    BY <1>1
  <2>2. (1 - 1) * w(h) + 1 = 1
    BY <1>0
  <2> QED BY <2>1, <2>2
<1> DEFINE P(k) == w(k) >= Txs /\ \A j \in 0..(k - 1) : w(j) < Txs
<1>4. h \in 0..Txs /\ P(h)
  <2> HIDE DEF w
  <2>1. CASE h = 0
    BY <1>0, <1>1, <1>2, <2>1
  <2>2. CASE h # 0
    <3>1. h - 1 \in 0..(h - 1) /\ h - 1 \in Nat
      BY <2>2
    <3>2. w(h - 1) < Txs /\ w(h - 1) > h - 1 /\ w(h - 1) \in Nat
      BY <1>0, <1>1, <3>1
    <3>3. h \in 0..Txs
      BY <1>2, <3>2
    <3>4. w(h) >= Txs
      BY <1>0, <1>1, <1>2
    <3> QED BY <1>1, <3>3, <3>4
  <2> QED BY <2>1, <2>2
<1>5. ASSUME NEW k \in 0..Txs, P(k) PROVE k = h
  <2> HIDE DEF w
  <2>1. ~(k < h)
    <3> SUFFICES ASSUME k < h PROVE FALSE
      OBVIOUS
    <3>1. k \in 0..(h - 1) /\ k \in Nat
      BY <1>2
    <3> QED BY <1>0, <1>1, <1>2, <1>5, <3>1
  <2>2. ~(h < k)
    <3> SUFFICES ASSUME h < k PROVE FALSE
      OBVIOUS
    <3>1. h \in 0..(k - 1)
      BY <1>2
    <3> QED BY <1>0, <1>2, <1>4, <1>5, <3>1
  <2> QED BY <1>2, <2>1, <2>2
<1>6. Merkle!Height = CHOOSE k \in 0..Txs : P(k)
  BY DEF Merkle!Height, Txs
<1> HIDE DEF P
<1>7. Merkle!Height = h
  BY <1>4, <1>5, <1>6
<1> QED BY <1>3, <1>7 DEF Merkle!Tree

(* What happens to the Merkle root is a step of its module or nothing.      *)
LEMMA MerkleStep ==
  [SuiteNext]_<<subject, vars, sqrtVars, ammVars, merkleVars, minerVars>> => [Merkle!Next]_merkleVars
  BY DEF SuiteNext, merkleVars

(* The leaves are the trees of height 0.                                    *)
LEMMA MerkleInitially == SuiteInit => MerkleInv
<1> SUFFICES ASSUME SuiteInit PROVE MerkleInv
  OBVIOUS
<1>1. CASE subject = "merkle"
  <2>1. /\ transactions \in Merkle!BoundedSeq(Transactions, MaxTransactions)
        /\ current_level = Merkle!Leaves(transactions) /\ root = Merkle!None
    BY <1>1 DEF SuiteInit, Merkle!Init
  <2>2. transactions \in Seq(Transactions)
    <3>1. PICK n \in 0..MaxTransactions : transactions \in [1..n -> Transactions]
      BY <2>1 DEF Merkle!BoundedSeq, Merkle!SeqOf
    <3> QED BY <3>1
  <2>3. Merkle!RootIsTree
    BY <2>1 DEF Merkle!RootIsTree
  <2>4. Txs \in Nat /\ DOMAIN transactions = 1..Txs
    BY <2>2 DEF Txs
  <2>5. current_level = [i \in 1..Txs |-> Merkle!sha256_double(transactions[i])]
    BY <2>1, <2>4 DEF Merkle!Leaves
  <2>6. Len(current_level) = Txs
    BY <2>4, <2>5
  <2>7. Merkle!Subtrees[0].span = 1 /\ Merkle!Subtrees[0].at = current_level
    BY <2>1, SubtreesAre DEF Base
  <2>8. transactions = <<>> => current_level = <<>>
    <3> SUFFICES ASSUME transactions = <<>> PROVE current_level = <<>>
      OBVIOUS
    <3>1. Txs = 0
      BY DEF Txs
    <3> QED BY <2>5, <3>1
  <2>9. AtHeight(0)
    <3>1. \A k \in 1..Txs : (k - 1) * 1 + 1 = k
      BY <2>4
    <3>2. current_level = [k \in 1..Txs |-> current_level[(k - 1) * 1 + 1]]
      BY <2>5, <3>1
    <3> QED BY <2>4, <2>6, <2>7, <3>2 DEF AtHeight
  <2> QED BY <2>2, <2>3, <2>8, <2>9 DEF MerkleInv
<1>2. CASE subject # "merkle"
  BY <1>2 DEF SuiteInit, MerkleIdle, MerkleInv, Merkle!RootIsTree
<1> QED BY <1>1, <1>2

(* Every step keeps the invariant.                                          *)
LEMMA MerkleKeeps ==
  MerkleInv /\ [SuiteNext]_<<subject, vars, sqrtVars, ammVars, merkleVars, minerVars>> => MerkleInv'
<1> SUFFICES ASSUME MerkleInv, [Merkle!Next]_merkleVars PROVE MerkleInv'
  BY MerkleStep
<1>1. UNCHANGED transactions
  BY DEF merkleVars, Merkle!Next, Merkle!Reduce, Merkle!ReturnZero, Merkle!Return, Merkle!Returned, Merkle!vars
<1>2. Merkle!Subtrees' = Merkle!Subtrees
  BY <1>1 DEF Merkle!Subtrees, Merkle!Doubled, Merkle!Leaves
<1>3. Merkle!Tree' = Merkle!Tree
  BY <1>1, <1>2 DEF Merkle!Tree, Merkle!Height
<1>4. CASE Merkle!Reduce
  <2>1. Len(current_level) > 1 /\ UNCHANGED root
    BY <1>4 DEF Merkle!Reduce
  <2>2. transactions # <<>>
    BY <2>1 DEF MerkleInv
  <2>3. PICK h \in Nat : AtHeight(h)
    BY <2>2 DEF MerkleInv
  <2>4. AtHeight(h + 1)' /\ h + 1 \in Nat
    BY <1>4, <2>3, ReduceDoubles DEF MerkleInv
  <2> QED BY <1>1, <1>3, <2>1, <2>2, <2>4 DEF MerkleInv, Merkle!RootIsTree
<1>5. ASSUME UNCHANGED current_level, Merkle!RootIsTree' PROVE MerkleInv'
  <2>1. ASSUME NEW h \in Nat, AtHeight(h) PROVE AtHeight(h)'
    BY <1>1, <1>2, <1>5, <2>1 DEF AtHeight, Txs
  <2> QED BY <1>1, <1>5, <2>1 DEF MerkleInv
<1>6. CASE Merkle!ReturnZero
  <2>1. transactions = <<>> /\ root' = Merkle!Zero /\ UNCHANGED current_level
    BY <1>6 DEF Merkle!ReturnZero
  <2> QED BY <1>1, <1>5, <2>1 DEF Merkle!RootIsTree
<1>7. CASE Merkle!Return
  <2>1. Len(current_level) = 1 /\ root' = current_level[1] /\ UNCHANGED current_level
    BY <1>7 DEF Merkle!Return
  <2>2. transactions # <<>>
    BY <2>1 DEF MerkleInv
  <2>3. PICK h \in Nat : AtHeight(h)
    BY <2>2 DEF MerkleInv
  <2>4. current_level[1] = Merkle!Tree
    BY <2>1, <2>2, <2>3, TopIsTree DEF MerkleInv
  <2> QED BY <1>1, <1>3, <1>5, <2>1, <2>2, <2>4 DEF Merkle!RootIsTree
<1>8. CASE UNCHANGED merkleVars
  <2>1. UNCHANGED <<current_level, root>>
    BY <1>8 DEF merkleVars
  <2> QED BY <1>1, <1>3, <1>5, <2>1 DEF MerkleInv, Merkle!RootIsTree
<1> QED BY <1>4, <1>6, <1>7, <1>8 DEF Merkle!Next, Merkle!Returned, Merkle!vars, merkleVars

(* calculate_merkle_root returns the root of the tree, for any number of    *)
(* transactions.                                                            *)
LEMMA MerkleIsTree == SuiteSpec => []Merkle!RootIsTree
<1>1. MerkleInv => Merkle!RootIsTree
  BY DEF MerkleInv
<1> QED BY <1>1, MerkleInitially, MerkleKeeps, PTL DEF SuiteSpec

-----------------------------------------------------------------------------
(* The miner.                                                               *)

(* What happens to the miner is a step of its module or nothing.            *)
LEMMA MinerStep ==
  subject = "miner" /\ [SuiteNext]_<<subject, vars, sqrtVars, ammVars, merkleVars, minerVars>>
    => subject' = "miner" /\ [Miner!Next]_minerVars
  BY DEF SuiteNext, minerVars

(* What its constants may be.                                               *)
LEMMA MinerConstants ==
  /\ NonceEnd \in Nat /\ HashLen \in Nat \ {0} /\ difficulty_prefix_zeros \in Nat
  /\ Bytes \subseteq 0..255
  BY OnChainAssumption DEF Miner!MinerAssumption

(* The hashes of headers.                                                   *)
Hashes == [1..HashLen -> Bytes]

(* The counting loop counts the longest run of zero bytes.                  *)
LEMMA ZerosLongest ==
  ASSUME NEW h \in Hashes
  PROVE  \E n \in 0..HashLen :
           /\ \A i \in 1..n : h[i] = 0
           /\ n < HashLen => h[n + 1] # 0
           /\ Miner!ZeroCount(h) = 2 * n + (IF n < HashLen /\ h[n + 1] < 16 THEN 1 ELSE 0)
<1> DEFINE zeros == {n \in 0..HashLen : \A i \in 1..n : h[i] = 0}
           left == {HashLen - n : n \in zeros}
           n == CHOOSE k \in zeros : \A m \in zeros : m <= k
<1>0. HashLen \in Nat
  BY MinerConstants
<1>1. 0 \in zeros
  BY <1>0
<1>2. left \subseteq Nat /\ left # {}
  BY <1>0, <1>1
<1>3. PICK l \in left : \A m \in left : l <= m
  BY <1>2, LeastNumber
<1>4. PICK k \in zeros : l = HashLen - k
  BY <1>3
<1>5. \A m \in zeros : m <= k
  <2> TAKE m \in zeros
  <2>1. HashLen - m \in left
    OBVIOUS
  <2>2. HashLen - k <= HashLen - m
    BY <1>3, <1>4, <2>1
  <2>3. m \in 0..HashLen /\ k \in 0..HashLen
    BY <1>4
  <2> HIDE DEF zeros, left
  <2> QED BY <1>0, <2>2, <2>3
<1>6. n \in zeros /\ \A m \in zeros : m <= n
  <2> HIDE DEF zeros
  <2> QED BY <1>4, <1>5
<1> HIDE DEF n
<1>7. Miner!ZeroCount(h) = 2 * n + (IF n < HashLen /\ h[n + 1] < 16 THEN 1 ELSE 0)
  BY DEF Miner!ZeroCount, n
<1>8. ASSUME n < HashLen PROVE h[n + 1] # 0
  <2> SUFFICES ASSUME h[n + 1] = 0 PROVE FALSE
    OBVIOUS
  <2>0. n \in 0..HashLen /\ \A i \in 1..n : h[i] = 0
    BY <1>6
  <2>1. n + 1 \in 0..HashLen
    BY <1>0, <1>8, <2>0
  <2>2. \A i \in 1..(n + 1) : h[i] = 0
    BY <2>0
  <2>3. n + 1 \in zeros
    BY <2>1, <2>2
  <2> HIDE DEF zeros
  <2> QED BY <1>6, <2>0, <2>3
<1> QED BY <1>6, <1>7, <1>8

(* So it decides whether enough hexadecimal digits are zeros.               *)
LEMMA ZerosAreDigits ==
  ASSUME NEW m, hash[m] \in Hashes
  PROVE  Miner!ZeroCount(hash[m]) >= difficulty_prefix_zeros
           <=> Miner!MeetsTarget(m, difficulty_prefix_zeros)
<1> DEFINE h == hash[m]
           k == difficulty_prefix_zeros
<1>0. HashLen \in Nat \ {0} /\ k \in Nat /\ Bytes \subseteq 0..255
  BY MinerConstants
<1>1. PICK n \in 0..HashLen :
           /\ \A i \in 1..n : h[i] = 0
           /\ n < HashLen => h[n + 1] # 0
           /\ Miner!ZeroCount(h) = 2 * n + (IF n < HashLen /\ h[n + 1] < 16 THEN 1 ELSE 0)
  BY ZerosLongest
<1>2. \A i \in 1..HashLen : h[i] \in 0..255
  BY <1>0 DEF Hashes
<1>3. Miner!MeetsTarget(m, k) <=> k <= 2 * HashLen /\ \A i \in 1..k : Miner!Digit(h, i) = 0
  BY DEF Miner!MeetsTarget
<1> HIDE DEF h, k
<1>4. ASSUME NEW i \in 1..(2 * n) PROVE Miner!Digit(h, i) = 0
  <2>1. (i + 1) \div 2 \in 1..n
    OBVIOUS
  <2>2. h[(i + 1) \div 2] = 0
    BY <1>1, <2>1
  <2> QED BY <2>2 DEF Miner!Digit
<1>5. ASSUME n < HashLen
      PROVE  /\ Miner!Digit(h, 2 * n + 1) = h[n + 1] \div 16
             /\ Miner!Digit(h, 2 * n + 2) = h[n + 1] % 16
             /\ h[n + 1] \in 1..255
  <2>1. (2 * n + 1 + 1) \div 2 = n + 1 /\ (2 * n + 2 + 1) \div 2 = n + 1
        /\ (2 * n + 1) % 2 = 1 /\ (2 * n + 2) % 2 = 0
    OBVIOUS
  <2>2. n + 1 \in 1..HashLen
    BY <1>0, <1>5
  <2>3. h[n + 1] \in 1..255
    BY <1>1, <1>2, <1>5, <2>2
  <2> QED BY <2>1, <2>3 DEF Miner!Digit
<1>6. CASE n < HashLen
  <2>1. CASE h[n + 1] < 16
    <3>1. Miner!ZeroCount(h) = 2 * n + 1
      BY <1>1, <1>6, <2>1
    <3>2. Miner!Digit(h, 2 * n + 1) = 0 /\ Miner!Digit(h, 2 * n + 2) # 0
      BY <1>5, <1>6, <2>1
    <3>3. ASSUME 2 * n + 1 >= k PROVE k <= 2 * HashLen /\ \A i \in 1..k : Miner!Digit(h, i) = 0
      <4>1. \A i \in 1..k : i \in 1..(2 * n) \/ i = 2 * n + 1
        BY <1>0, <3>3
      <4> QED BY <1>0, <1>4, <1>6, <3>2, <3>3, <4>1
    <3>4. ASSUME ~(2 * n + 1 >= k) PROVE ~ \A i \in 1..k : Miner!Digit(h, i) = 0
      <4>1. 2 * n + 2 \in 1..k
        BY <1>0, <3>4
      <4> QED BY <3>2, <4>1
    <3> QED BY <1>3, <3>1, <3>3, <3>4 DEF h, k
  <2>2. CASE ~(h[n + 1] < 16)
    <3>1. Miner!ZeroCount(h) = 2 * n
      BY <1>1, <1>6, <2>2
    <3>2. Miner!Digit(h, 2 * n + 1) # 0
      BY <1>5, <1>6, <2>2
    <3>3. ASSUME 2 * n >= k PROVE k <= 2 * HashLen /\ \A i \in 1..k : Miner!Digit(h, i) = 0
      <4>1. \A i \in 1..k : i \in 1..(2 * n)
        BY <1>0, <3>3
      <4> QED BY <1>0, <1>4, <1>6, <3>3, <4>1
    <3>4. ASSUME ~(2 * n >= k) PROVE ~ \A i \in 1..k : Miner!Digit(h, i) = 0
      <4>1. 2 * n + 1 \in 1..k
        BY <1>0, <3>4
      <4> QED BY <3>2, <4>1
    <3> QED BY <1>3, <3>1, <3>3, <3>4 DEF h, k
  <2> QED BY <2>1, <2>2
<1>7. CASE n = HashLen
  <2>1. Miner!ZeroCount(h) = 2 * n
    BY <1>1, <1>7
  <2>2. ASSUME 2 * n >= k PROVE \A i \in 1..k : Miner!Digit(h, i) = 0
    <3>1. \A i \in 1..k : i \in 1..(2 * n)
      BY <1>0, <2>2
    <3> QED BY <1>4, <3>1
  <2> QED BY <1>0, <1>3, <1>7, <2>1, <2>2 DEF h, k
<1> QED BY <1>0, <1>6, <1>7

(* The hash of the header with nonce n has the required zeros.              *)
Good(n) == Miner!MeetsTarget(n, difficulty_prefix_zeros)

(* What the workers hold.                                                   *)
MinerTypes ==
  /\ hash \in [Miner!Nonces -> Hashes]
  /\ untried \subseteq Miner!Nonces
  /\ pc \in [Threads -> {"idle", "load", "hash", "nonce"}]
  /\ DOMAIN current_nonce = Threads
  /\ \A t \in Threads : pc[t] # "idle" => current_nonce[t] \in Miner!Nonces

(* The nonce is no good, or a worker still has to hash it.                  *)
Tried(n) == ~Good(n) \/ \E t \in Threads : pc[t] \in {"load", "hash"} /\ current_nonce[t] = n

(* The inductive invariant of the miner: whoever has stored found has a     *)
(* good nonce and stores it before the pool is joined; until found is       *)
(* stored every nonce that was taken is no good or under way.               *)
MinerInv ==
  subject = "miner" =>
    /\ MinerTypes
    /\ \A t \in Threads : pc[t] = "nonce" => found /\ Good(current_nonce[t])
    /\ found => (\E t \in Threads : pc[t] = "nonce") \/ Good(winning_nonce)
    /\ ~found => ~any /\ \A n \in Miner!Nonces \ untried : Tried(n)
    /\ result = "true" => Good(nonce)
    /\ result = "false" => \A n \in Miner!Nonces : ~Good(n)

(* Workers and caller keep it, whatever the relaxed loads return.           *)
LEMMA MinerInductive == SuiteSpec => []MinerInv
<1>1. SuiteInit => MinerInv
  <2> SUFFICES ASSUME SuiteInit, subject = "miner" PROVE MinerInv
    BY DEF MinerInv
  <2>1. Miner!Init
    BY DEF SuiteInit
  <2>2. ~found /\ ~any
    BY <2>1, Zenon DEF Miner!Init
  <2> QED BY <2>1, <2>2 DEF Miner!Init, MinerInv, MinerTypes, Hashes, Miner!Nonces
<1>2. MinerInv /\ [SuiteNext]_<<subject, vars, sqrtVars, ammVars, merkleVars, minerVars>> => MinerInv'
  <2> SUFFICES ASSUME MinerInv, subject = "miner", [Miner!Next]_minerVars PROVE MinerInv'
    BY MinerStep DEF SuiteNext, MinerInv
  <2>0. MinerTypes
    BY DEF MinerInv
  <2>1. UNCHANGED hash
    BY DEF minerVars, Miner!Next, Miner!Worker, Miner!Take, Miner!LoadTrue, Miner!LoadFalse, Miner!Hit,
           Miner!Miss, Miner!StoreNonce, Miner!Return, Miner!Returned, Miner!vars
  <2>2. ASSUME NEW n PROVE Good(n)' <=> Good(n)
    BY <2>1 DEF Good, Miner!MeetsTarget, Miner!Digit
  <2>3. ASSUME NEW t \in Threads, Miner!Take(t) PROVE MinerInv'
    <3>1. PICK n \in untried : /\ untried' = untried \ {n}
                               /\ current_nonce' = [current_nonce EXCEPT ![t] = n]
      BY <2>3 DEF Miner!Take
    <3>2. /\ pc[t] = "idle" /\ pc' = [pc EXCEPT ![t] = "load"]
          /\ UNCHANGED <<found, winning_nonce, any, nonce, result>>
      BY <2>3 DEF Miner!Take
    <3>3. MinerTypes'
      BY <2>0, <2>1, <3>1, <3>2 DEF MinerTypes
    <3>4. /\ \A u \in Threads : u # t => pc'[u] = pc[u] /\ current_nonce'[u] = current_nonce[u]
          /\ pc'[t] = "load" /\ current_nonce'[t] = n
      BY <2>0, <3>1, <3>2 DEF MinerTypes
    <3>5. ASSUME NEW u \in Threads, pc'[u] = "nonce" PROVE found' /\ Good(current_nonce'[u])
      BY <3>2, <3>4, <3>5 DEF MinerInv
    <3>6. ASSUME found' PROVE (\E u \in Threads : pc'[u] = "nonce") \/ Good(winning_nonce')
      BY <3>2, <3>4, <3>6 DEF MinerInv
    <3>7. ASSUME ~found', NEW m \in Miner!Nonces \ untried' PROVE Tried(m)'
      <4>1. CASE m = n
        BY <3>4, <4>1 DEF Tried
      <4>2. CASE m # n
        <5>1. Tried(m)
          BY <3>1, <3>2, <3>7, <4>2 DEF MinerInv
        <5> QED BY <2>2, <3>2, <3>4, <5>1 DEF Tried
      <4> QED BY <4>1, <4>2
    <3> QED BY <2>2, <3>2, <3>3, <3>5, <3>6, <3>7 DEF MinerInv
  <2>4. ASSUME NEW t \in Threads, Miner!LoadTrue(t) PROVE MinerInv'
    <3>1. found /\ found'
      BY <2>4, Zenon DEF Miner!LoadTrue
    <3>2. /\ pc[t] = "load" /\ pc' = [pc EXCEPT ![t] = "idle"]
          /\ UNCHANGED <<winning_nonce, untried, current_nonce, nonce, result>>
      BY <2>4 DEF Miner!LoadTrue
    <3>3. MinerTypes'
      BY <2>0, <2>1, <3>2 DEF MinerTypes
    <3>4. \A u \in Threads : pc'[u] = "nonce" <=> pc[u] = "nonce"
      BY <2>0, <3>2 DEF MinerTypes
    <3> QED BY <2>2, <3>1, <3>2, <3>3, <3>4 DEF MinerInv
  <2>5. ASSUME NEW t \in Threads, Miner!LoadFalse(t) PROVE MinerInv'
    <3>1. /\ pc[t] = "load" /\ pc' = [pc EXCEPT ![t] = "hash"]
          /\ UNCHANGED <<found, winning_nonce, untried, current_nonce, any, nonce, result>>
      BY <2>5 DEF Miner!LoadFalse
    <3>2. MinerTypes'
      BY <2>0, <2>1, <3>1 DEF MinerTypes
    <3>3. \A u \in Threads : /\ pc'[u] = "nonce" <=> pc[u] = "nonce"
                             /\ pc'[u] \in {"load", "hash"} <=> pc[u] \in {"load", "hash"}
      BY <2>0, <3>1 DEF MinerTypes
    <3>4. ASSUME NEW m PROVE Tried(m)' <=> Tried(m)
      BY <2>2, <3>1, <3>3 DEF Tried
    <3> QED BY <2>2, <3>1, <3>2, <3>3, <3>4 DEF MinerInv
  <2>6. ASSUME NEW t \in Threads, Miner!Hit(t) PROVE MinerInv'
    <3>1. found'
      BY <2>6, Zenon DEF Miner!Hit
    <3>2. /\ pc[t] = "hash" /\ pc' = [pc EXCEPT ![t] = "nonce"]
          /\ Miner!ZeroCount(hash[current_nonce[t]]) >= difficulty_prefix_zeros
          /\ UNCHANGED <<winning_nonce, untried, current_nonce, nonce, result>>
      BY <2>6 DEF Miner!Hit
    <3>3. Good(current_nonce[t])
      <4>1. hash[current_nonce[t]] \in Hashes
        BY <2>0, <3>2 DEF MinerTypes
      <4> QED BY <3>2, <4>1, ZerosAreDigits DEF Good
    <3>4. MinerTypes'
      BY <2>0, <2>1, <3>2 DEF MinerTypes
    <3>5. \A u \in Threads : pc'[u] = "nonce" <=> u = t \/ pc[u] = "nonce"
      BY <2>0, <3>2 DEF MinerTypes
    <3> QED BY <2>2, <3>1, <3>2, <3>3, <3>4, <3>5 DEF MinerInv
  <2>7. ASSUME NEW t \in Threads, Miner!Miss(t) PROVE MinerInv'
    <3>1. /\ pc[t] = "hash" /\ pc' = [pc EXCEPT ![t] = "idle"]
          /\ Miner!ZeroCount(hash[current_nonce[t]]) < difficulty_prefix_zeros
          /\ UNCHANGED <<found, winning_nonce, untried, current_nonce, any, nonce, result>>
      BY <2>7 DEF Miner!Miss
    <3>2. ~Good(current_nonce[t])
      <4>1. hash[current_nonce[t]] \in Hashes
        BY <2>0, <3>1 DEF MinerTypes
      <4>2. PICK n \in 0..HashLen :
              Miner!ZeroCount(hash[current_nonce[t]])
                = 2 * n + (IF n < HashLen /\ hash[current_nonce[t]][n + 1] < 16 THEN 1 ELSE 0)
        BY <4>1, ZerosLongest
      <4>3. ~(Miner!ZeroCount(hash[current_nonce[t]]) >= difficulty_prefix_zeros)
        BY <3>1, <4>2, MinerConstants
      <4> QED BY <4>1, <4>3, ZerosAreDigits DEF Good
    <3>3. MinerTypes'
      BY <2>0, <2>1, <3>1 DEF MinerTypes
    <3>4. \A u \in Threads : /\ pc'[u] = "nonce" <=> pc[u] = "nonce"
                             /\ u # t => pc'[u] = pc[u]
      BY <2>0, <3>1 DEF MinerTypes
    <3>5. ASSUME NEW m, Tried(m) PROVE Tried(m)'
      <4>1. CASE m = current_nonce[t]
        BY <2>2, <3>2, <4>1 DEF Tried
      <4>2. CASE m # current_nonce[t]
        BY <2>2, <3>1, <3>4, <3>5, <4>2 DEF Tried
      <4> QED BY <4>1, <4>2
    <3> QED BY <2>2, <3>1, <3>3, <3>4, <3>5 DEF MinerInv
  <2>8. ASSUME NEW t \in Threads, Miner!StoreNonce(t) PROVE MinerInv'
    <3>0. UNCHANGED found
      BY <2>8 DEF Miner!StoreNonce
    <3>1. /\ pc[t] = "nonce" /\ pc' = [pc EXCEPT ![t] = "idle"] /\ winning_nonce' = current_nonce[t]
          /\ UNCHANGED <<untried, current_nonce, nonce, result>>
      BY <2>8 DEF Miner!StoreNonce
    <3>2. found /\ Good(winning_nonce')
      BY <3>1 DEF MinerInv
    <3>3. MinerTypes'
      BY <2>0, <2>1, <3>1 DEF MinerTypes
    <3>4. \A u \in Threads : pc'[u] = "nonce" => pc[u] = "nonce"
      BY <2>0, <3>1 DEF MinerTypes
    <3> QED BY <2>2, <3>0, <3>1, <3>2, <3>3, <3>4 DEF MinerInv
  <2>9. CASE Miner!Return
    <3>0. UNCHANGED <<found, any>>
      BY <2>9 DEF Miner!Return
    <3>1. /\ UNCHANGED <<winning_nonce, untried, pc, current_nonce>>
          /\ \A t \in Threads : pc[t] = "idle"
          /\ any \/ untried = {}
      BY <2>9 DEF Miner!Return, Miner!Joined
    <3>2. MinerTypes'
      BY <2>0, <2>1, <3>1 DEF MinerTypes
    <3>3. CASE found
      <4>1. result' = "true" /\ nonce' = winning_nonce
        BY <2>9, <3>3 DEF Miner!Return
      <4> QED BY <2>2, <3>0, <3>1, <3>2, <3>3, <4>1 DEF MinerInv
    <3>4. CASE ~found
      <4>1. result' = "false"
        BY <2>9, <3>4 DEF Miner!Return
      <4>2. untried = {} /\ \A n \in Miner!Nonces : Tried(n)
        BY <3>1, <3>4 DEF MinerInv
      <4>3. \A n \in Miner!Nonces : ~Good(n)
        BY <3>1, <4>2 DEF Tried
      <4>4. \A n \in Miner!Nonces : Tried(n)'
        BY <2>2, <4>3 DEF Tried
      <4>5. ~found' /\ ~any'
        BY <3>0, <3>4 DEF MinerInv
      <4> QED BY <2>2, <3>1, <3>2, <4>1, <4>3, <4>4, <4>5 DEF MinerInv
    <3> QED BY <3>3, <3>4
  <2>10. CASE UNCHANGED minerVars
    <3>1. ASSUME NEW m PROVE Tried(m)' <=> Tried(m)
      BY <2>2, <2>10 DEF Tried, minerVars
    <3> QED BY <2>2, <2>10, <3>1 DEF minerVars, MinerInv, MinerTypes
  <2> QED BY <2>3, <2>4, <2>5, <2>6, <2>7, <2>8, <2>9, <2>10
          DEF Miner!Next, Miner!Worker, Miner!Returned, Miner!vars, minerVars
<1> QED BY <1>1, <1>2, PTL DEF SuiteSpec

(* What mine_block_parallel returns is true.                                *)
LEMMA MinerIsTrue == SuiteSpec => []Miner!VerdictIsMined
<1>1. SuiteInit => (subject # "miner" => result = "none")
  BY DEF SuiteInit, MinerIdle
<1>2. (subject # "miner" => result = "none")
      /\ [SuiteNext]_<<subject, vars, sqrtVars, ammVars, merkleVars, minerVars>>
      => (subject # "miner" => result = "none")'
  BY DEF SuiteNext, minerVars
<1>3. MinerInv /\ (subject # "miner" => result = "none") => Miner!VerdictIsMined
  BY DEF MinerInv, Good, Miner!VerdictIsMined, Miner!HeaderIsMined, Miner!FailsOnlyIfNone
<1> QED BY <1>1, <1>2, <1>3, MinerInductive, PTL DEF SuiteSpec

(* For every number of transactions, of threads and nonces and every        *)
(* difficulty: the root is that of the tree, a header that is returned      *)
(* meets its target, and a failure means that no nonce does.                *)
THEOREM BlocksAreMined == SuiteSpec => []BlockIsSound
<1>1. Merkle!RootIsTree /\ Miner!VerdictIsMined => BlockIsSound
  BY DEF BlockIsSound
<1> QED BY <1>1, MerkleIsTree, MinerIsTrue, PTL
=============================================================================
