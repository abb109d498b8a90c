---------------------------- MODULE AtomicCommit ----------------------------
(* What a distributed transaction over several banks promises, whatever     *)
(* protocol carries it out: the banks agree, and a bank commits only once   *)
(* every bank has promised that it can.                                     *)
CONSTANT Banks

VARIABLE bank   \* bank[b]: where bank b stands on the one transaction

BankStates == {"working", "prepared", "committed", "aborted"}

Init == bank = [b \in Banks |-> "working"]

Promise(b) ==
  /\ bank[b] = "working"
  /\ bank' = [bank EXCEPT ![b] = "prepared"]

Commit(b) ==
  /\ bank[b] = "prepared"
  /\ \A c \in Banks : bank[c] \in {"prepared", "committed"}
  /\ bank' = [bank EXCEPT ![b] = "committed"]

Abort(b) ==
  /\ bank[b] \in {"working", "prepared"}
  /\ \A c \in Banks : bank[c] # "committed"
  /\ bank' = [bank EXCEPT ![b] = "aborted"]

Next == \E b \in Banks : Promise(b) \/ Commit(b) \/ Abort(b)

Spec == Init /\ [][Next]_bank
=============================================================================
