--------------------------- MODULE DaoGovernance ---------------------------
(* The contract of                                                          *)
(* 08-Web3-and-Cryptographic-Blockchains/eip-712-doa-signature-execution.sol: *)
(* votes signed off-chain and cast by whoever relays them, in any order and *)
(* any number of times.                                                     *)
EXTENDS Integers, FiniteSets

CONSTANTS Voters, Proposals,
          Domains, DOMAIN_SEPARATOR,  \* of other contracts and chains; of this one
          MaxNonce,                   \* bound: votes a voter casts
          MaxTime                     \* bound: block.timestamp

ASSUME DaoAssumption ==
  /\ DOMAIN_SEPARATOR \in Domains
  /\ MaxNonce \in Nat /\ MaxTime \in Nat

VARIABLES
  nonces,         \* nonces[voter]
  proposalVotes,  \* proposalVotes[proposalId]
  timestamp,      \* block.timestamp
  accepted        \* observer: the signatures accepted so far

vars == <<nonces, proposalVotes, timestamp, accepted>>

(* What keccak256 is applied to stands for the hash.  A signature is what   *)
(* was signed and by whom: ecrecover yields the signer for that digest and  *)
(* no voter for any other.  A voter may have signed anything at any time.   *)
Digests == [domain : Domains, voter : Voters, proposalId : Proposals,
            support : BOOLEAN, nonce : 0..MaxNonce]
Signatures == [signer : Voters, digest : Digests]

(* structHash and digest *)
digest(voter, proposalId, support, currentNonce) ==
  [domain |-> DOMAIN_SEPARATOR, voter |-> voter, proposalId |-> proposalId,
   support |-> support, nonce |-> currentNonce]

(* recoveredAddress is the voter; otherwise the call reverts. *)
ecrecoverIs(signature, signed, voter) ==
  signature.digest = signed /\ signature.signer = voter

Init ==
  /\ nonces = [v \in Voters |-> 0] /\ proposalVotes = [p \in Proposals |-> 0]
  /\ timestamp = 0 /\ accepted = {}

(* mutant: votes against count as well *)
CountAll(votes, proposalId, support) == [votes EXCEPT ![proposalId] = @ + 1]

Count(votes, proposalId, support) ==
  [votes EXCEPT ![proposalId] = IF support THEN @ + 1 ELSE @]

(* castVoteBySignature by any relayer.  A call that reverts leaves no trace *)
(* and is no step.                                                          *)
castVoteBySignature(voter, proposalId, support, deadline, signature) ==
  /\ timestamp <= deadline
  /\ nonces[voter] <= MaxNonce
  /\ ecrecoverIs(signature, digest(voter, proposalId, support, nonces[voter]), voter)
  /\ nonces' = [nonces EXCEPT ![voter] = @ + 1]
  /\ proposalVotes' = Count(proposalVotes, proposalId, support)
  /\ accepted' = accepted \union {signature}
  /\ UNCHANGED timestamp

NextBlock ==
  /\ timestamp < MaxTime /\ timestamp' = timestamp + 1
  /\ UNCHANGED <<nonces, proposalVotes, accepted>>

Next ==
  \/ \E voter \in Voters, proposalId \in Proposals, support \in BOOLEAN,
        deadline \in 0..MaxTime, signature \in Signatures :
       castVoteBySignature(voter, proposalId, support, deadline, signature)
  \/ NextBlock

Spec == Init /\ [][Next]_vars

-----------------------------------------------------------------------------
(* Votes and nonces only count up: uint256 arithmetic never underflows.     *)
TypeOK ==
  /\ nonces \in [Voters -> 0 .. MaxNonce + 1]
  /\ proposalVotes \in [Proposals -> Nat]
  /\ timestamp \in 0..MaxTime
  /\ accepted \subseteq Signatures

Supporting(p) == {s \in accepted : s.digest.proposalId = p /\ s.digest.support}

(* A proposal has exactly as many votes as different signatures in its      *)
(* favour were accepted: no signature counts twice, however often and in    *)
(* whatever order it is relayed, and none against counts at all.            *)
VotesAreSigned == \A p \in Proposals : proposalVotes[p] = Cardinality(Supporting(p))

(* Of the votes a voter has signed with one nonce at most one is ever       *)
(* accepted, and those of smaller nonces before it.                         *)
OneVotePerNonce ==
  /\ \A s, t \in accepted : s.signer = t.signer /\ s.digest.nonce = t.digest.nonce => s = t
  /\ \A s \in accepted : \A n \in 0 .. s.digest.nonce :
       \E t \in accepted : t.signer = s.signer /\ t.digest.nonce = n
=============================================================================
