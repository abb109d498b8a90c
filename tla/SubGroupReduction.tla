-------------------------- MODULE SubGroupReduction --------------------------
(* executeIntelHeterogeneousCompute of 03-Hardware-Acceleration-and-        *)
(* Networking/oneapi-data-parallel.cpp: the host and the sub-groups of the  *)
(* kernel, whose lanes go in step.  External: sub-groups run in any order;  *)
(* a barrier opens for a work-group as a whole; fetch_add is atomic, and    *)
(* wait() returns when the kernel has ended.  Floats are whole numbers, so  *)
(* rounding, which depends on the order of the additions, is left out.      *)
EXTENDS Integers, Functions

CONSTANTS
  DataSizes,        \* what inputData.size() may be
  Input,            \* inputData, as a function from 0
  workGroupSize,    \* 256 in the code
  subGroupSize      \* chosen by the device

ReductionAssumption ==
  /\ DataSizes \subseteq Nat
  /\ \A n \in DataSizes : \A t \in 0..(n - 1) : t \in DOMAIN Input /\ Input[t] \in Int
  /\ subGroupSize \in Nat \ {0} /\ workGroupSize \in Nat \ {0} /\ workGroupSize % subGroupSize = 0

VARIABLES
  dataSize,
  host,           \* "start", "submitted", "waited", "returned" or "crashed"
  deviceData,     \* shared memory; empty before malloc_shared and after free
  deviceResult,
  localCache,     \* localCache[g]: the local memory of work-group g
  at,             \* at[s]: where sub-group s is
  sum,            \* sum[s]: the register of its lanes
  finalResult

vars == <<dataSize, host, deviceData, deviceResult, localCache, at, sum, finalResult>>

numWorkItems == ((dataSize + workGroupSize - 1) \div workGroupSize) * workGroupSize
SubGroups == 0..(numWorkItems \div subGroupSize - 1)
WorkGroup(s) == (s * subGroupSize) \div workGroupSize
WorkGroups == {WorkGroup(s) : s \in SubGroups}
Lanes(s) == (s * subGroupSize)..(s * subGroupSize + subGroupSize - 1)   \* global ids
localId(globalId) == globalId % workGroupSize
Unwritten == -1

(* Every sub-group is somewhere in the kernel. *)
TypeOK ==
  /\ dataSize \in DataSizes /\ host \in {"start", "submitted", "waited", "returned", "crashed"}
  /\ at \in [SubGroups -> {"load", "barrier", "reduce", "add", "end"}]
  /\ localCache \in [WorkGroups -> [0..(workGroupSize - 1) -> Int]]
  /\ sum \in [SubGroups -> Int] /\ deviceResult \in Int /\ finalResult \in Int

Init ==
  /\ dataSize \in DataSizes /\ host = "start" /\ deviceData = <<>>
  /\ deviceResult = Unwritten /\ finalResult = Unwritten
  /\ localCache = [g \in WorkGroups |-> [i \in 0..(workGroupSize - 1) |-> Unwritten]]
  /\ at = [s \in SubGroups |-> "load"] /\ sum = [s \in SubGroups |-> Unwritten]

-----------------------------------------------------------------------------
(* malloc_shared, std::copy, the zero, and q.submit. *)
Submit ==
  /\ host = "start" /\ host' = "submitted"
  /\ deviceData' = [t \in 0..(dataSize - 1) |-> Input[t]] /\ deviceResult' = 0
  /\ UNCHANGED <<dataSize, localCache, at, sum, finalResult>>

(* malloc_shared has no memory and the host writes to NULL. *)
AllocationFails ==
  /\ host = "start" /\ host' = "crashed"
  /\ UNCHANGED <<dataSize, deviceData, deviceResult, localCache, at, sum, finalResult>>

(* mutant: the kernel is not waited for *)
WaitNot ==
  /\ host = "submitted"
  /\ host' = "waited" /\ finalResult' = deviceResult
  /\ UNCHANGED <<dataSize, deviceData, deviceResult, localCache, at, sum>>
(* .wait(), and the result is read. *)
Wait ==
  /\ host = "submitted" /\ \A s \in SubGroups : at[s] = "end"
  /\ host' = "waited" /\ finalResult' = deviceResult
  /\ UNCHANGED <<dataSize, deviceData, deviceResult, localCache, at, sum>>

Free ==
  /\ host = "waited" /\ host' = "returned"
  /\ deviceData' = <<>> /\ deviceResult' = Unwritten
  /\ UNCHANGED <<dataSize, localCache, at, sum, finalResult>>

-----------------------------------------------------------------------------
Step(s, from, to) ==
  host # "start" /\ host # "crashed" /\ at[s] = from /\ at' = [at EXCEPT ![s] = to]

(* Every lane loads its element, or pads with zero. *)
Load(s) ==
  /\ Step(s, "load", "barrier")
  /\ localCache' = [localCache EXCEPT ![WorkGroup(s)] = [i \in DOMAIN @ |->
       LET globalId == WorkGroup(s) * workGroupSize + i
       IN  IF globalId \notin Lanes(s) THEN @[i]
           ELSE IF globalId < dataSize THEN deviceData[globalId] ELSE 0]]
  /\ UNCHANGED <<dataSize, host, deviceData, deviceResult, sum, finalResult>>

(* item.barrier *)
Barrier(g) ==
  LET members == {s \in SubGroups : WorkGroup(s) = g}
  IN  /\ \A s \in members : at[s] = "barrier"
      /\ at' = [s \in SubGroups |-> IF s \in members THEN "reduce" ELSE at[s]]
      /\ UNCHANGED <<dataSize, host, deviceData, deviceResult, localCache, sum, finalResult>>

(* reduce_over_group of the values of the lanes. *)
Reduce(s) ==
  /\ Step(s, "reduce", "add")
  /\ sum' = [sum EXCEPT ![s] =
       SumFunctionOnSet([t \in Lanes(s) |-> localCache[WorkGroup(s)][localId(t)]], Lanes(s))]
  /\ UNCHANGED <<dataSize, host, deviceData, deviceResult, localCache, finalResult>>

(* The leader's fetch_add. *)
Add(s) ==
  /\ Step(s, "add", "end")
  /\ deviceResult' = deviceResult + sum[s]
  /\ UNCHANGED <<dataSize, host, deviceData, localCache, sum, finalResult>>

Host == Submit \/ AllocationFails \/ Wait \/ Free
Kernel == \/ \E s \in SubGroups : Load(s) \/ Reduce(s) \/ Add(s)
          \/ \E g \in WorkGroups : Barrier(g)
Rest == host \in {"returned", "crashed"} /\ UNCHANGED vars

Next == Host \/ Kernel \/ Rest

(* The host's thread is scheduled, and the device runs what it has. *)
Fairness == WF_vars(Host) /\ WF_vars(Kernel)

Spec == Init /\ [][Next]_vars /\ Fairness

-----------------------------------------------------------------------------
(* Whatever the order of the sub-groups, finalResult is the sum of all the  *)
(* data, each element once and the padding not at all; and when the host    *)
(* frees the shared memory no sub-group uses it any more.                   *)
ReductionIsSum ==
  host \in {"waited", "returned"} =>
    /\ finalResult = SumFunctionOnSet(Input, 0..(dataSize - 1))
    /\ \A s \in SubGroups : at[s] = "end"

AtEnd == host \in {"returned", "crashed"}

(* The host gets through wait(): no sub-group is left behind at a barrier.  *)
ComputeEnds == <>AtEnd
=============================================================================
