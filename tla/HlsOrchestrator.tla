-------------------------- MODULE HlsOrchestrator --------------------------
(* 10-Media-and-Transcoding/HlsTranscodingOrchestrator.java: the segments   *)
(* of two profiles are transcoded by a fixed pool of threads; a completion  *)
(* stage of the common pool writes a profile's manifest; main joins both.   *)
EXTENDS Integers, Sequences, FiniteSets, Functions

CONSTANTS Chunks,     \* how many chunks the video has, 100
          PoolSize    \* availableProcessors()

OrchestratorAssumption == Chunks \in Nat \ {0} /\ PoolSize \in Nat \ {0}

VARIABLES
  main,      \* "submit", then "join", then "ended" or "failed"
  step,      \* how many tasks main has submitted
  queue,     \* tasks in the queue of TRANSCODE_POOL
  running,   \* tasks its threads are at
  done,      \* segmentFutures that are complete
  stage,     \* stage[r]: the manifest stage of profile r
  file,      \* file[r]: the segments listed in the manifest on disk, or NoFile
  pool       \* whether TRANSCODE_POOL was shut down

vars == <<main, step, queue, running, done, stage, file, pool>>

Profiles == <<"1080p", "720p">>   \* in the order main starts them
Resolutions == Range(Profiles)
Tasks == Resolutions \X (0 .. Chunks - 1)
NoFile == <<"none">>
Over == {"written", "failed"}   \* the stage's future is complete

(* The task main submits at a step: all the chunks of the first profile,    *)
(* then those of the second.                                                *)
TaskAt(n) == <<Profiles[n \div Chunks + 1], n % Chunks>>

(* Only the tasks of the two profiles are queued, run and listed.           *)
TypeOK ==
  /\ main \in {"submit", "join", "ended", "failed"} /\ step \in 0 .. Len(Profiles) * Chunks
  /\ queue \in Seq(Tasks) /\ running \subseteq Tasks /\ done \subseteq Tasks
  /\ stage \in [Resolutions -> {"pending", "joining", "opened"} \union Over]
  /\ file \in [Resolutions -> Seq(Tasks) \union {NoFile}]
  /\ pool \in {"open", "shutdown"}

Init ==
  /\ main = "submit" /\ step = 0
  /\ queue = <<>> /\ running = {} /\ done = {}
  /\ stage = [r \in Resolutions |-> "pending"] /\ file = [r \in Resolutions |-> NoFile]
  /\ pool = "open"

-----------------------------------------------------------------------------
(* supplyAsync(..., TRANSCODE_POOL) *)
Submit ==
  /\ main = "submit"
  /\ queue' = Append(queue, TaskAt(step)) /\ step' = step + 1
  /\ main' = IF step' = Len(Profiles) * Chunks THEN "join" ELSE main
  /\ UNCHANGED <<running, done, stage, file, pool>>

StartTask ==
  /\ queue # <<>> /\ Cardinality(running) < PoolSize
  /\ running' = running \union {Head(queue)} /\ queue' = Tail(queue)
  /\ UNCHANGED <<main, step, done, stage, file, pool>>

(* executeFFmpeg returns the segment's name; tasks end in any order. *)
ExecuteFFmpeg(task) ==
  /\ task \in running
  /\ running' = running \ {task} /\ done' = done \union {task}
  /\ UNCHANGED <<main, step, queue, stage, file, pool>>

Complete(r, c) == <<r, c>> \in done

(* allOf(segmentFutures), which main builds when it has submitted the last  *)
(* task of the profile.                                                     *)
AllOf(r) == \A c \in 0 .. Chunks - 1 : Complete(r, c)

(* thenRunAsync starts writeManifest on a thread of the common pool. *)
StartManifest(r) ==
  /\ stage[r] = "pending" /\ AllOf(r)
  /\ stage' = [stage EXCEPT ![r] = "joining"]
  /\ UNCHANGED <<main, step, queue, running, done, file, pool>>

(* mutant: the segment that was complete last comes first *)
SegmentsReversed(r) == [n \in 1..Chunks |-> <<r, Chunks - n>>]

(* The lines of the manifest: future.join() of every segment in the order   *)
(* of the list, which is the order of submission.                           *)
Segments(r) == [n \in 1..Chunks |-> <<r, n - 1>>]

(* All the joins have returned, and the file is created, empty. *)
OpenManifest(r) ==
  /\ stage[r] = "joining" /\ \A c \in 0 .. Chunks - 1 : Complete(r, c)
  /\ file' = [file EXCEPT ![r] = <<>>] /\ stage' = [stage EXCEPT ![r] = "opened"]
  /\ UNCHANGED <<main, step, queue, running, done, pool>>

(* operation.get(): the manifest is written. *)
WriteManifest(r) ==
  /\ stage[r] = "opened"
  /\ file' = [file EXCEPT ![r] = Segments(r)]
  /\ stage' = [stage EXCEPT ![r] = "written"]
  /\ UNCHANGED <<main, step, queue, running, done, pool>>

(* Opening or writing the file throws, and the stage fails with a           *)
(* CompletionException; what open created stays.                            *)
FailManifest(r) ==
  /\ stage[r] \in {"joining", "opened"} /\ \A c \in 0 .. Chunks - 1 : Complete(r, c)
  /\ stage' = [stage EXCEPT ![r] = "failed"]
  /\ UNCHANGED <<main, step, queue, running, done, file, pool>>

(* allOf(profile1080p, profile720p) is complete *)
Joined(states) == \A r \in Resolutions : stage[r] \in states

(* join() returns, and the pool is shut down. *)
JoinReturns ==
  /\ main = "join" /\ Joined({"written"})
  /\ main' = "ended" /\ pool' = "shutdown"
  /\ UNCHANGED <<step, queue, running, done, stage, file>>

(* join() throws CompletionException; only when both profiles are over. *)
JoinThrows ==
  /\ main = "join" /\ Joined(Over) /\ ~Joined({"written"})
  /\ main' = "failed"
  /\ UNCHANGED <<step, queue, running, done, stage, file, pool>>

Ended == main \in {"ended", "failed"} /\ UNCHANGED vars

Main == Submit \/ JoinReturns \/ JoinThrows
Manifest(r) == StartManifest(r) \/ OpenManifest(r) \/ WriteManifest(r) \/ FailManifest(r)

Next ==
  \/ Main \/ StartTask \/ Ended
  \/ \E task \in Tasks : ExecuteFFmpeg(task)
  \/ \E r \in Resolutions : Manifest(r)

(* Every thread runs, and every transcoding ends. *)
Fairness ==
  /\ WF_vars(Main) /\ WF_vars(StartTask)
  /\ \A task \in Tasks : WF_vars(ExecuteFFmpeg(task))
  /\ \A r \in Resolutions : WF_vars(Manifest(r))

Spec == Init /\ [][Next]_vars /\ Fairness

-----------------------------------------------------------------------------
(* When main reports the playlist as generated, the manifest of every       *)
(* profile is on disk with all its segments in the order of the video,      *)
(* although the segments were transcoded in any order.                      *)
PlaylistIsComplete ==
  main = "ended" => \A r \in Resolutions :
                      /\ Len(file[r]) = Chunks
                      /\ \A n \in 1..Chunks : file[r][n] = <<r, n - 1>>

(* One manifest that fails does not keep main from seeing the other one to  *)
(* its end: main leaves join() with no writer at work and no task left.     *)
NothingLeftBehind ==
  main \in {"ended", "failed"} =>
    queue = <<>> /\ running = {} /\ \A r \in Resolutions : stage[r] \in Over

(* The two together: what main reports at its end is there, and nothing is  *)
(* still being written.                                                     *)
OutputIsComplete == PlaylistIsComplete /\ NothingLeftBehind

AtEnd == main = "failed" \/ (main = "ended" /\ pool = "shutdown")

(* main comes to an end, and unless a manifest failed the pool is shut down *)
(* so that the process can exit.                                            *)
MainEnds == <>AtEnd
=============================================================================
