----------------------------- MODULE ThreadPool -----------------------------
(* The thread pool of 12-DevOps-and-Concurrency/memory-safe-gauntlet.rs:    *)
(* worker threads that take messages from one channel behind a mutex, and   *)
(* an owner that executes jobs and then drops the pool.  Any job may panic, *)
(* which unwinds its worker.                                                *)
EXTENDS Integers, Sequences

CONSTANTS size,   \* of the pool
          Jobs    \* how many jobs the owner executes before it drops the pool

PoolAssumption ==
  /\ size \in Nat \ {0}   \* assert!(size > 0)
  /\ Jobs \in Nat \ {0}

VARIABLES
  channel,   \* messages sent and not received: a job number, or Terminate
  locked,    \* the worker that holds the receiver's mutex, 0 for none
  worker,    \* worker[id]: what the thread does
  job,       \* job[id]: the job it runs or has last run
  runs,      \* runs[j]: how often job j was started
  finished,  \* the jobs that have ended, by return or panic
  owner,     \* what the owner does
  step       \* the job, message or worker the owner is at

vars == <<channel, locked, worker, job, runs, finished, owner, step>>

Terminate == 0
Ids == 1..size
Over == {"stopped", "panicked"}   \* the thread's end, as join() reports it

(* Messages are jobs the owner has sent or Terminate, within the loops' bounds.*)
TypeOK ==
  /\ channel \in Seq(0..Jobs) /\ locked \in 0..size
  /\ worker \in [Ids -> {"lock", "recv", "job"} \union Over]
  /\ job \in [Ids -> 0..Jobs] /\ runs \in [1..Jobs -> Nat] /\ finished \subseteq 1..Jobs
  /\ owner \in {"execute", "terminate", "join", "dropped", "panicked"}
  /\ step \in 1..(Jobs + size + 1)

Init ==
  /\ channel = <<>> /\ locked = 0
  /\ worker = [w \in Ids |-> "lock"] /\ job = [w \in Ids |-> 0]
  /\ runs = [j \in 1..Jobs |-> 0] /\ finished = {}
  /\ owner = "execute" /\ step = 1

-----------------------------------------------------------------------------
(* receiver.lock().unwrap() *)
Lock(w) ==
  /\ worker[w] = "lock" /\ locked = 0
  /\ locked' = w /\ worker' = [worker EXCEPT ![w] = "recv"]
  /\ UNCHANGED <<channel, job, runs, finished, owner, step>>

(* recv() blocks with the mutex held, which the end of the statement frees; *)
(* the job then starts.                                                     *)
Receive(w) ==
  /\ worker[w] = "recv" /\ channel # <<>>
  /\ locked' = 0 /\ channel' = Tail(channel)
  /\ IF Head(channel) = Terminate
       THEN worker' = [worker EXCEPT ![w] = "stopped"] /\ UNCHANGED <<job, runs>>
       ELSE /\ worker' = [worker EXCEPT ![w] = "job"]
            /\ job' = [job EXCEPT ![w] = Head(channel)]
            /\ runs' = [runs EXCEPT ![Head(channel)] = @ + 1]
  /\ UNCHANGED <<finished, owner, step>>

FinishJob(w, next) ==
  /\ worker[w] = "job"
  /\ worker' = [worker EXCEPT ![w] = next]
  /\ finished' = finished \union {job[w]}
  /\ UNCHANGED <<channel, locked, job, runs, owner, step>>

JobReturns(w) == FinishJob(w, "lock")
JobPanics(w)  == FinishJob(w, "panicked")

-----------------------------------------------------------------------------
(* The receiver goes with the last worker, and send() then fails.           *)
ReceiverGone == \A w \in Ids : worker[w] \in Over

(* send(message).unwrap(); the owner goes on to its next step.              *)
Send(message, next, last) ==
  /\ IF ReceiverGone
       THEN owner' = "panicked" /\ UNCHANGED <<channel, step>>
       ELSE /\ channel' = Append(channel, message)
            /\ IF step < last THEN step' = step + 1 /\ UNCHANGED owner
                              ELSE step' = 1 /\ owner' = next
  /\ UNCHANGED <<locked, worker, job, runs, finished>>

Execute == owner = "execute" /\ Send(step, "terminate", Jobs)

(* mutant: one Terminate for the whole pool *)
SendTerminateOnce == owner = "terminate" /\ Send(Terminate, "join", 1)

(* drop: one Terminate per worker. *)
SendTerminate == owner = "terminate" /\ Send(Terminate, "join", size)

(* mutant: the threads are not joined *)
JoinNobody ==
  /\ owner = "join" /\ owner' = "dropped"
  /\ UNCHANGED <<channel, locked, worker, job, runs, finished, step>>

(* join().unwrap(): a worker that has panicked makes the owner panic. *)
Join ==
  /\ owner = "join" /\ worker[step] \in Over
  /\ IF worker[step] = "panicked" THEN owner' = "panicked" /\ UNCHANGED step
     ELSE IF step < size THEN step' = step + 1 /\ UNCHANGED owner
     ELSE owner' = "dropped" /\ UNCHANGED step
  /\ UNCHANGED <<channel, locked, worker, job, runs, finished>>

(* The pool's sender is dropped last, with a Terminate sent for each        *)
(* worker: no worker's recv() ever fails, and the mutex is never poisoned.  *)
Worker(w) == Lock(w) \/ Receive(w) \/ JobReturns(w) \/ JobPanics(w)
Owner == Execute \/ SendTerminate \/ Join

Ended == owner \in {"dropped", "panicked"} /\ ReceiverGone /\ UNCHANGED vars

Next == Owner \/ (\E w \in Ids : Worker(w)) \/ Ended

(* Threads run and jobs end.  The mutex need not be fair.                   *)
Fairness == WF_vars(Owner) /\ \A w \in Ids : WF_vars(Worker(w))

Spec == Init /\ [][Next]_vars /\ Fairness

-----------------------------------------------------------------------------
(* No job is run twice, whichever workers compete for it.                   *)
RunAtMostOnce == \A j \in 1..Jobs : runs[j] <= 1

(* When drop returns, every job handed to execute has run to its end.       *)
DropWaitsForJobs == owner = "dropped" => finished = 1..Jobs

(* The two together: the pool runs each job once before drop returns.       *)
EachJobRunsOnce == RunAtMostOnce /\ DropWaitsForJobs

AtEnd == owner \in {"dropped", "panicked"}

(* The owner is not left waiting, also when jobs panic: a worker that is    *)
(* gone fails the send or the join instead of blocking it.                  *)
DropEnds == <>AtEnd
=============================================================================
