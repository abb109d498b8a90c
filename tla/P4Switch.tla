------------------------------ MODULE P4Switch ------------------------------
(* Switches that run the pipeline of 03-Hardware-Acceleration-and-Networking*)
(* /ethernet-switch.cpp, linked to each other and to hosts, and one packet  *)
(* on its way through them while the control plane (the "router's OS" of    *)
(* line 66, external) goes on populating ipv4_lpm, switch by switch.  A     *)
(* switch keeps no state between packets, so one packet is enough.  What the*)
(* v1model architecture does around the two blocks is external: a packet    *)
(* whose header cannot be extracted goes on without it, and one whose       *)
(* egress_spec nobody has set leaves by port 0.                             *)
EXTENDS Integers, Sequences, FiniteSets

CONSTANTS
  Switches, Hosts,
  Links,        \* Links[s][p]: the node at port p of switch s
  Mac,          \* Mac[n]: the link-layer address of node n
  AddrBits,     \* the width of an address, 32 in the code
  Tables,       \* Tables[s]: what ipv4_lpm of s holds, one version after the other
  TableSize,    \* 1024 in the code
  TtlModulus    \* 2^8 in the code

Nodes == Switches \union Hosts
Addresses == 0..(2^AddrBits - 1)
ActionNames == {"ipv4_forward", "drop", "NoAction"}

(* Every node has its own address, port 0 leads out of the network, and an  *)
(* entry of a table names the node its port leads to.                       *)
SwitchAssumption ==
  /\ Switches \intersect Hosts = {} /\ "dropped" \notin Nodes /\ TtlModulus \in Nat \ {0}
  /\ \A m, n \in Nodes : m # n => Mac[m] # Mac[n]
  /\ \A s \in Switches : Links[s][0] \in Hosts /\ Len(Tables[s]) \in Nat \ {0}
  /\ \A s \in Switches : \A v \in 1..Len(Tables[s]) :
       /\ Cardinality(Tables[s][v]) <= TableSize
       /\ \A e \in Tables[s][v] :
            /\ e.len \in 0..AddrBits /\ e.bits \in 0..(2^e.len - 1) /\ e.action \in ActionNames
            /\ e.action = "ipv4_forward" => e.dstAddr = Mac[Links[s][e.port]]
       /\ \A e, f \in Tables[s][v] : e.len = f.len /\ e.bits = f.bits => e = f

VARIABLES
  version,   \* version[s]: which of Tables[s] is in the switch
  hdr,       \* the packet: its headers, and whether it is too short for the second
  at,        \* where it is: a node, or "dropped"
  from,      \* the node that has put it on the wire
  via        \* how it was sent: by its host, by ipv4_forward, or untouched

vars == <<version, hdr, at, from, via>>

Headers == [etherType : {"0x0800", "other"}, short : BOOLEAN, ethDst : {Mac[n] : n \in Nodes},
            ethSrc : {Mac[n] : n \in Nodes}, dstAddr : Addresses, ttl : 0..(TtlModulus - 1)]

(* The packet is somewhere, and its ttl fits its field. *)
TypeOK ==
  /\ \A s \in Switches : version[s] \in 1..Len(Tables[s])
  /\ hdr \in Headers /\ at \in Nodes \union {"dropped"} /\ from \in Nodes
  /\ via \in {"host", "ipv4_forward", "untouched"}

(* A host sends a packet to the switch it is linked to. *)
Init ==
  /\ version = [s \in Switches |-> 1]
  /\ at \in Switches /\ from \in {Links[at][p] : p \in DOMAIN Links[at]} \intersect Hosts
  /\ via = "host"
  /\ hdr \in {h \in Headers : h.ethDst = Mac[at] /\ h.ethSrc = Mac[from]}

-----------------------------------------------------------------------------
(* MyParser: hdr.ipv4.isValid() afterwards. *)
IPv4Valid == hdr.etherType = "0x0800" /\ ~hdr.short

ipv4_lpm(s) == Tables[s][version[s]]

Matches(e, addr) == addr \div 2^(AddrBits - e.len) = e.bits

(* mutant: the shortest prefix *)
BestMatchShortest(s, addr) ==
  {e \in ipv4_lpm(s) : /\ Matches(e, addr)
                       /\ \A f \in ipv4_lpm(s) : Matches(f, addr) => f.len >= e.len}
(* The entry of ipv4_lpm with the longest prefix, if any matches. *)
BestMatch(s, addr) ==
  {e \in ipv4_lpm(s) : /\ Matches(e, addr)
                       /\ \A f \in ipv4_lpm(s) : Matches(f, addr) => f.len <= e.len}

Hit(s) == BestMatch(s, hdr.dstAddr)

(* The packet leaves switch s by a port. *)
Emit(s, port) == at' = Links[s][port] /\ from' = s

(* mutant: the two assignments to the link addresses swapped *)
ipv4_forwardSwapped(s, e) ==
  /\ Emit(s, e.port) /\ via' = "ipv4_forward"
  /\ hdr' = [hdr EXCEPT !.ethSrc = e.dstAddr, !.ethDst = e.dstAddr,
                        !.ttl = (@ - 1) % TtlModulus]
(* The action ipv4_forward: ttl is a bit<8>, whatever it was. *)
ipv4_forward(s, e) ==
  /\ Emit(s, e.port) /\ via' = "ipv4_forward"
  /\ hdr' = [hdr EXCEPT !.ethSrc = hdr.ethDst, !.ethDst = e.dstAddr,
                        !.ttl = (@ - 1) % TtlModulus]

(* ipv4_lpm.apply() for a valid packet. *)
ApplyForward(s) ==
  /\ at = s /\ IPv4Valid
  /\ \E e \in Hit(s) : e.action = "ipv4_forward" /\ ipv4_forward(s, e)
  /\ UNCHANGED version

(* The action drop, of an entry or by default. *)
ApplyDrop(s) ==
  /\ at = s /\ IPv4Valid
  /\ \A e \in Hit(s) : e.action = "drop"
  /\ at' = "dropped"
  /\ UNCHANGED <<version, hdr, from, via>>

ApplyNoAction(s) ==
  /\ at = s /\ IPv4Valid
  /\ \E e \in Hit(s) : e.action = "NoAction"
  /\ Emit(s, 0) /\ via' = "untouched"
  /\ UNCHANGED <<version, hdr>>

(* The table is not applied to other packets. *)
SkipTable(s) ==
  /\ at = s /\ ~IPv4Valid
  /\ Emit(s, 0) /\ via' = "untouched"
  /\ UNCHANGED <<version, hdr>>

MyIngress(s) == ApplyForward(s) \/ ApplyDrop(s) \/ ApplyNoAction(s) \/ SkipTable(s)

(* The control plane brings one switch's table up to date. *)
Populate(s) ==
  /\ version[s] < Len(Tables[s])
  /\ version' = [version EXCEPT ![s] = @ + 1]
  /\ UNCHANGED <<hdr, at, from, via>>

(* The packet has left, and every table is up to date. *)
Rest ==
  /\ at \notin Switches /\ \A s \in Switches : version[s] = Len(Tables[s])
  /\ UNCHANGED vars

Next == (\E s \in Switches : MyIngress(s) \/ Populate(s)) \/ Rest

(* Switches forward, and the control plane gets done with its updates. *)
Fairness == \A s \in Switches : WF_vars(MyIngress(s)) /\ WF_vars(Populate(s))

Spec == Init /\ [][Next]_vars /\ Fairness

-----------------------------------------------------------------------------
(* ipv4_forward takes the address the packet was sent to for its new source:*)
(* on every link, after any number of hops and updates, a frame carries the *)
(* addresses of the two nodes at its ends.                                  *)
FramesNameTheirLink ==
  at \in Nodes /\ via # "untouched" => hdr.ethSrc = Mac[from] /\ hdr.ethDst = Mac[at]

(* The tables that are in force at last send no packet around a circle.     *)
LoopFree ==
  \A addr \in Addresses : \A S \in (SUBSET Switches) \ {{}} : \E s \in S :
    LET matching == {e \in Tables[s][Len(Tables[s])] : Matches(e, addr)}
    IN  \A e \in matching : \/ e.action # "ipv4_forward" \/ Links[s][e.port] \notin S
                           \/ \E f \in matching : f.len > e.len

(* If the last tables are free of loops, every packet leaves the network or *)
(* is dropped, although the switches are updated one by one and may send it *)
(* around a circle in between.                                              *)
PacketLeaves == LoopFree => <>(at \notin Switches)
=============================================================================
