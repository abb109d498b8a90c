------------------------------ MODULE SpinLock ------------------------------
(* The worker threads of 09-Advanced-Metaprogramming-and-Web/brain-bender.js *)
(* that increment random cells of a shared array under a spin lock, and the *)
(* main thread that adds the cells up when all of them have exited.         *)
EXTENDS Integers, FiniteSets, Functions

CONSTANTS numWorkers,   \* 4
          Iterations,   \* turns of each worker's loop, 25
          Cells         \* the indices of sharedData, 0..99

SpinLockAssumption ==
  numWorkers \in Nat \ {0} /\ Iterations \in Nat /\ IsFiniteSet(Cells)

VARIABLES
  mutex,       \* mutex[0], read and written by Atomics only
  sharedData,
  pc,          \* pc[w]: where worker w stands
  i,           \* i[w]: turns it has begun
  completedWorkers,
  sum          \* what main has computed, or Unknown

vars == <<mutex, sharedData, pc, i, completedWorkers, sum>>

UNLOCKED == 0
LOCKED == 1
Workers == 0 .. numWorkers - 1
Unknown == -1

(* No worker takes more turns than its loop has, and main counts each exit once.*)
TypeOK ==
  /\ mutex \in {UNLOCKED, LOCKED}
  /\ sharedData \in [Cells -> Nat]
  /\ pc \in [Workers -> {"spin", "critical", "release", "exiting", "exited"}]
  /\ i \in [Workers -> 0..Iterations]
  /\ completedWorkers \in 0..numWorkers /\ sum \in Nat \union {Unknown}

Init ==
  /\ mutex = UNLOCKED /\ sharedData = [c \in Cells |-> 0]
  /\ pc = [w \in Workers |-> "spin"] /\ i = [w \in Workers |-> 0]
  /\ completedWorkers = 0 /\ sum = Unknown

-----------------------------------------------------------------------------

(* compareExchange succeeds; one that fails changes nothing. *)
Acquire(w) ==
  /\ pc[w] = "spin" /\ i[w] < Iterations
  /\ mutex = UNLOCKED /\ mutex' = LOCKED
  /\ pc' = [pc EXCEPT ![w] = "critical"] /\ i' = [i EXCEPT ![w] = @ + 1]
  /\ UNCHANGED <<sharedData, completedWorkers, sum>>

(* Atomics.add at a random index *)
Increment(w) ==
  /\ pc[w] = "critical"
  /\ \E randomIndex \in Cells : sharedData' = [sharedData EXCEPT ![randomIndex] = @ + 1]
  /\ pc' = [pc EXCEPT ![w] = "release"]
  /\ UNCHANGED <<mutex, i, completedWorkers, sum>>

(* Atomics.store; the notify that follows finds nobody asleep. *)
Release(w) ==
  /\ pc[w] = "release" /\ mutex' = UNLOCKED
  /\ pc' = [pc EXCEPT ![w] = "spin"]
  /\ UNCHANGED <<sharedData, i, completedWorkers, sum>>

(* The loop ends, the worker posts its message, which main only prints. *)
Finish(w) ==
  /\ pc[w] = "spin" /\ i[w] = Iterations
  /\ pc' = [pc EXCEPT ![w] = "exiting"]
  /\ UNCHANGED <<mutex, sharedData, i, completedWorkers, sum>>

Total(data) == SumFunctionOnSet(data, Cells)

(* mutant: the sum is taken at the first exit *)
OnExitFirst(w) ==
  /\ pc[w] = "exiting" /\ pc' = [pc EXCEPT ![w] = "exited"]
  /\ completedWorkers' = completedWorkers + 1
  /\ sum' = IF completedWorkers = 0 THEN Total(sharedData) ELSE sum
  /\ UNCHANGED <<mutex, sharedData, i>>

(* The handler of 'exit', in main's event loop. *)
OnExit(w) ==
  /\ pc[w] = "exiting" /\ pc' = [pc EXCEPT ![w] = "exited"]
  /\ completedWorkers' = completedWorkers + 1
  /\ sum' = IF completedWorkers' = numWorkers THEN Total(sharedData) ELSE sum
  /\ UNCHANGED <<mutex, sharedData, i>>

Worker(w) == Acquire(w) \/ Increment(w) \/ Release(w) \/ Finish(w)

Exited == completedWorkers = numWorkers /\ UNCHANGED vars

Next == (\E w \in Workers : Worker(w) \/ OnExit(w)) \/ Exited

(* Threads run and events are handled.  Nothing is assumed of who wins the  *)
(* lock: that would be strong fairness of Acquire.                          *)
Fairness == \A w \in Workers : WF_vars(Worker(w)) /\ WF_vars(OnExit(w))

Spec == Init /\ [][Next]_vars /\ Fairness

-----------------------------------------------------------------------------
Inside == {w \in Workers : pc[w] \in {"critical", "release"}}

(* "Only one thread can be here at a time" (line 64), and the lock is held  *)
(* exactly while a thread is there.                                         *)
MutualExclusion ==
  /\ \A v, w \in Inside : v = w
  /\ mutex = LOCKED <=> Inside # {}

(* The sum main prints counts every increment of every worker.              *)
SumIsComplete == sum # Unknown => sum = numWorkers * Iterations

(* The two together: the lock excludes, and so no increment is lost.        *)
NoIncrementLost == MutualExclusion /\ SumIsComplete

AtEnd == sum # Unknown

(* The program ends although the spin lock promises no thread its turn:     *)
(* each winner has finitely many turns.                                     *)
AllWorkersFinish == <>AtEnd
=============================================================================
