---------------------------- MODULE NtProcessList ----------------------------
(* main of 01-Core-Systems-and-Bare-Metal/windows-nt-internals.cpp, which   *)
(* asks the kernel for the list of processes while processes come and go.   *)
(* Sizes are counted in entries of SYSTEM_PROCESS_INFORMATION.  buffer,     *)
(* bufferSize and status are used and never declared in the file; the buffer*)
(* is taken to have bufferSize bytes at first, or to be NULL if that is 0.  *)
EXTENDS Integers

CONSTANTS
  InitialSizes,    \* what bufferSize may be at first
  MaxProcesses,    \* processes there can be at a time
  MaxChurn         \* how often a process starts or ends meanwhile

ListAssumption ==
  InitialSizes \subseteq Nat /\ MaxProcesses \in Nat \ {0} /\ MaxChurn \in Nat

VARIABLES
  pc,           \* where main is
  processes,    \* how many processes the kernel has
  churn,
  buffer,       \* the size of what buffer points to, or NULL
  bufferSize,
  status,       \* of the last query
  allocated,    \* the blocks main has got from malloc and not freed
  printed       \* what main has written last

vars == <<pc, processes, churn, buffer, bufferSize, status, allocated, printed>>

NULL == -1
Querying == {"load", "resolve", "query", "grow"}
Ended == {"return0", "return1", "crashed"}

(* main is somewhere, and the kernel has a process at least. *)
TypeOK ==
  /\ pc \in Querying \union {"parse", "walk", "release"} \union Ended
  /\ processes \in 1..MaxProcesses /\ churn \in 0..MaxChurn
  /\ buffer \in Nat \union {NULL} /\ bufferSize \in Nat /\ allocated \in Nat
  /\ status \in {"none", "success", "mismatch", "failure"}
  /\ printed \in {"nothing", "entry", "error"}

Init ==
  /\ pc = "load" /\ processes \in 1..MaxProcesses /\ churn = 0
  /\ bufferSize \in InitialSizes
  /\ buffer = IF bufferSize = 0 THEN NULL ELSE bufferSize
  /\ allocated = IF bufferSize = 0 THEN 0 ELSE 1
  /\ status = "none" /\ printed = "nothing"

-----------------------------------------------------------------------------
Goto(from, to) == pc = from /\ pc' = to

(* LoadLibraryW and then GetProcAddress; either may fail. *)
LoadLibrary ==
  /\ Goto("load", "resolve") \/ Goto("load", "return1")
  /\ UNCHANGED <<processes, churn, buffer, bufferSize, status, allocated, printed>>

GetProcAddress ==
  /\ Goto("resolve", "query") \/ Goto("resolve", "return1")
  /\ UNCHANGED <<processes, churn, buffer, bufferSize, status, allocated, printed>>

(* The kernel is told that buffer has bufferSize entries.  It cannot write  *)
(* to NULL, and says how much it needs or has written.                      *)
NoBuffer == buffer = NULL /\ bufferSize > 0

QueryMismatch ==
  /\ Goto("query", "grow") /\ ~NoBuffer /\ bufferSize < processes
  /\ status' = "mismatch" /\ bufferSize' = processes
  /\ UNCHANGED <<processes, churn, buffer, allocated, printed>>

QuerySuccess ==
  /\ Goto("query", "parse") /\ ~NoBuffer /\ bufferSize >= processes
  /\ status' = "success" /\ bufferSize' = processes
  /\ UNCHANGED <<processes, churn, buffer, allocated, printed>>

QueryFailure ==
  /\ Goto("query", "parse")
  /\ status' = "failure"
  /\ UNCHANGED <<processes, churn, buffer, bufferSize, allocated, printed>>

free(b) == allocated - (IF b = NULL THEN 0 ELSE 1)

(* mutant: the buffer that was too small is not freed *)
ReallocateLeaks ==
  /\ Goto("grow", "query")
  /\ \/ buffer' = bufferSize /\ allocated' = allocated + 1
     \/ buffer' = NULL /\ allocated' = allocated
  /\ UNCHANGED <<processes, churn, bufferSize, status, printed>>
(* free(buffer); buffer = malloc(bufferSize), which may fail. *)
Reallocate ==
  /\ Goto("grow", "query")
  /\ \/ buffer' = bufferSize /\ allocated' = free(buffer) + 1
     \/ buffer' = NULL /\ allocated' = free(buffer)
  /\ UNCHANGED <<processes, churn, bufferSize, status, printed>>

(* if (!NT_SUCCESS(status)): the entries are for a query that failed. *)
ParseFailed ==
  /\ Goto("parse", "walk") /\ status = "failure"
  /\ UNCHANGED <<processes, churn, buffer, bufferSize, status, allocated, printed>>

ParseElse ==
  /\ Goto("parse", "release") /\ status = "success"
  /\ printed' = "error"
  /\ UNCHANGED <<processes, churn, buffer, bufferSize, status, allocated>>

(* The chain of NextEntryOffset in memory that the kernel has not written:  *)
(* an offset may be 0, lead to more such memory, or out of all memory.      *)
WalkEntry ==
  /\ buffer # NULL
  /\ Goto("walk", "walk") \/ Goto("walk", "release")
  /\ printed' = "entry"
  /\ UNCHANGED <<processes, churn, buffer, bufferSize, status, allocated>>

WalkFaults ==
  /\ Goto("walk", "crashed")
  /\ UNCHANGED <<processes, churn, buffer, bufferSize, status, allocated, printed>>

Release ==
  /\ Goto("release", "return0")
  /\ allocated' = free(buffer)
  /\ UNCHANGED <<processes, churn, buffer, bufferSize, status, printed>>

Main ==
  \/ LoadLibrary \/ GetProcAddress \/ QueryMismatch \/ QuerySuccess \/ QueryFailure
  \/ Reallocate \/ ParseFailed \/ ParseElse \/ WalkEntry \/ WalkFaults \/ Release

(* A process starts or ends, between two queries or before the first. *)
Churn ==
  /\ pc \in Querying /\ churn < MaxChurn /\ churn' = churn + 1
  /\ processes' \in {processes - 1, processes + 1} \intersect 1..MaxProcesses
  /\ UNCHANGED <<pc, buffer, bufferSize, status, allocated, printed>>

Rest == pc \in Ended /\ UNCHANGED vars

Next == Main \/ Churn \/ Rest

Fairness == WF_vars(Main)

Spec == Init /\ [][Next]_vars /\ Fairness

-----------------------------------------------------------------------------
(* However often the list has grown between two queries: the kernel is never*)
(* told that buffer is larger than it is, the program never has two buffers,*)
(* and it returns with none.                                                *)
BufferIsExact ==
  /\ pc = "query" /\ buffer # NULL => bufferSize <= buffer
  /\ pc # "return0" => allocated = IF buffer = NULL THEN 0 ELSE 1
  /\ pc = "return0" => allocated = 0

AtEnd == pc \notin Querying

(* The loop of queries ends once processes have ceased to come and go.      *)
QueryEnds == <>AtEnd

(* Line 120, "NTSTATUS Error: 0x": the program reports an error only if the *)
(* kernel has reported one.                                                 *)
ErrorMeansFailure == printed = "error" => status = "failure"
=============================================================================
