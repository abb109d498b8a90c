----------------------------- MODULE MCGateways -----------------------------
(* Model checking of the components that decide what passes and where to:   *)
(* the API gateway's rate limiter, the ABAC policy engine and the P4 switch.*)
(* They do not interact: `subject' says which of them a behaviour is about, *)
(* and the other ones stay as they were initially.                          *)
EXTENDS ApiGateway, TLC

CONSTANTS
  Actions, Resources, TrustScores, MaxStatements,       \* of the policy engine
  Switches, Hosts, AddrBits, Tables, TableSize, TtlModulus   \* of the switch

VARIABLES subject, policies, version, hdr, at, from, via

(* Every node's address is its name. *)
Macs == [n \in Switches \union Hosts |-> n]

(* Two switches between the same two hosts, and linked to each other.       *)
Wires == ("s1" :> (0 :> "h0" @@ 1 :> "h1" @@ 2 :> "s2")) @@
         ("s2" :> (0 :> "h0" @@ 1 :> "h1" @@ 2 :> "s1"))

Entry(len, bits, action, port, node) ==
  [len |-> len, bits |-> bits, action |-> action, port |-> port, dstAddr |-> node]
Forward(len, bits, port, node) == Entry(len, bits, "ipv4_forward", port, node)

(* Packets to 1x leave by s2 and those to 0x by nobody, then by s1 and by   *)
(* s2.  Both are free of loops; s2 updated before s1 is not.                *)
UpdatedTables ==
  ("s1" :> << {Forward(0, 0, 2, "s2")},
              {Forward(0, 0, 2, "s2"), Forward(1, 1, 1, "h1"), Entry(2, 3, "drop", 0, "h0")} >>) @@
  ("s2" :> << {Forward(1, 1, 1, "h1"), Entry(2, 1, "NoAction", 0, "h0")},
              {Forward(0, 0, 2, "s1"), Forward(1, 0, 1, "h1")} >>)

Policy == INSTANCE PolicyEngine
Switch == INSTANCE P4Switch WITH Links <- Wires, Mac <- Macs

ASSUME GatewaysAssumption == Policy!PolicyAssumption /\ Switch!SwitchAssumption

switchVars == <<version, hdr, at, from, via>>
SwitchIdle ==
  /\ version = [s \in Switches |-> 1] /\ at = "h0" /\ from = "h0" /\ via = "host"
  /\ hdr = CHOOSE h \in Switch!Headers : h.ethDst = "h0"

SuiteInit ==
  /\ subject \in {"gateway", "policy", "switch"} /\ Init /\ Policy!Init
  /\ IF subject = "switch" THEN Switch!Init ELSE SwitchIdle

(* A list of statements need not grow. *)
SuiteNext ==
  /\ UNCHANGED subject
  /\ \/ subject = "gateway" /\ Next /\ UNCHANGED <<policies, switchVars>>
     \/ subject = "policy" /\ Policy!Next /\ UNCHANGED <<vars, switchVars>>
     \/ subject = "policy" /\ UNCHANGED <<vars, policies, switchVars>>
     \/ subject = "switch" /\ Switch!Next /\ UNCHANGED <<vars, policies>>

(* Switches forward packets, and the control plane gets done; nothing is    *)
(* assumed of clients.                                                      *)
SuiteFairness == subject = "switch" => Switch!Fairness

SuiteSpec ==
  SuiteInit /\ [][SuiteNext]_<<subject, vars, policies, switchVars>> /\ SuiteFairness

-----------------------------------------------------------------------------
(* authorize grants what some statement allows and none denies, in whatever *)
(* order the statements were attached.                                      *)
OrderIrrelevant == Policy!OrderIrrelevant

(* Behind any number of ipv4_forward's, a frame carries the addresses of    *)
(* the two nodes its link connects.                                         *)
FramesNameTheirLink == subject = "switch" => Switch!FramesNameTheirLink

(* A packet leaves the switches although their tables are updated one by    *)
(* one and form a loop in between.                                          *)
PacketLeaves == subject = "switch" => Switch!PacketLeaves
=============================================================================
