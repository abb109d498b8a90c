---------------------------- MODULE NvencEncoder ----------------------------
(* NvencHardwareEncoder of 10-Media-and-Transcoding/zero-copy-hardware-     *)
(* acceleration.cpp: objects that threads of one process construct, use and *)
(* destroy, on a device that has a limited number of encoding sessions and  *)
(* serves other processes too.  The driver is external: any of its calls may*)
(* fail, and it closes the sessions of a process that ends.  What the       *)
(* encoder is configured with is left out.                                  *)
EXTENDS Integers, FiniteSets

CONSTANTS
  Encoders,      \* the objects
  MaxSessions    \* what the device allows

EncoderAssumption == MaxSessions \in Nat \ {0}

VARIABLES
  process,     \* "running", or how it has ended
  object,      \* object[e]: how far e is in its life
  listed,      \* listed[e]: NvEncodeAPICreateInstance has filled nvencAPI of e
  sessions,    \* whose sessions are open on the device
  others       \* the sessions other processes have open

vars == <<process, object, listed, sessions, others>>

(* The device never has more sessions than it allows. *)
TypeOK ==
  /\ process \in {"running", "exited", "crashed"}
  /\ object \in [Encoders -> {"none", "loaded", "opened", "configured", "alive", "gone", "stranded"}]
  /\ listed \in [Encoders -> BOOLEAN]
  /\ sessions \subseteq Encoders /\ Cardinality(sessions) + others \in 0..MaxSessions

Init ==
  /\ process = "running"
  /\ object = [e \in Encoders |-> "none"] /\ listed = [e \in Encoders |-> FALSE]
  /\ sessions = {} /\ others = 0

-----------------------------------------------------------------------------
At(e, stage) == process = "running" /\ object[e] = stage
Advance(e, stage) == object' = [object EXCEPT ![e] = stage]

(* The constructor begins.  What NvEncodeAPICreateInstance returns is not   *)
(* looked at.                                                               *)
Construct(e) ==
  /\ At(e, "none")
  /\ Advance(e, "loaded")
  /\ \E filled \in BOOLEAN : listed' = [listed EXCEPT ![e] = filled]
  /\ UNCHANGED <<process, sessions, others>>

(* It throws if the driver is too old or cannot say, before anything is open*)
ConstructThrows(e) ==
  /\ At(e, "none")
  /\ Advance(e, "gone")
  /\ UNCHANGED <<process, listed, sessions, others>>

(* nvEncOpenEncodeSessionEx *)
OpenSession(e) ==
  /\ At(e, "loaded") /\ listed[e]
  /\ Cardinality(sessions) + others < MaxSessions
  /\ Advance(e, "opened") /\ sessions' = sessions \union {e}
  /\ UNCHANGED <<process, listed, others>>

(* ... through a function pointer that nobody has set. *)
OpenCrashes(e) ==
  /\ At(e, "loaded") /\ ~listed[e]
  /\ process' = "crashed" /\ sessions' = {}
  /\ UNCHANGED <<object, listed, others>>

(* nvEncGetEncodePresetConfig, and nvEncInitializeEncoder, with which the   *)
(* constructor ends.                                                        *)
Configure(e) ==
  /\ \/ At(e, "opened") /\ Advance(e, "configured")
     \/ At(e, "configured") /\ Advance(e, "alive")
  /\ UNCHANGED <<process, listed, sessions, others>>

(* mutant: the macro throws, as the version check does *)
CallFailsThrows(e) ==
  /\ \E stage \in {"loaded", "opened", "configured", "alive"} : At(e, stage)
  /\ listed[e] /\ Advance(e, "gone")
  /\ UNCHANGED <<process, listed, sessions, others>>
(* NVENC_API_CALL: a call of the constructor or of encodeFrame that fails   *)
(* ends the process.                                                        *)
CallFails(e) ==
  /\ \E stage \in {"loaded", "opened", "configured", "alive"} : At(e, stage)
  /\ listed[e] /\ process' = "exited" /\ sessions' = {}
  /\ UNCHANGED <<object, listed, others>>

(* The destructor of a constructed object. *)
Destroy(e) ==
  /\ At(e, "alive")
  /\ Advance(e, "gone") /\ sessions' = sessions \ {e}
  /\ UNCHANGED <<process, listed, others>>

(* It does not look at what nvEncDestroyEncoder returns.  If that fails the *)
(* session may be left open, and nobody has its handle any more.            *)
DestroyFails(e) ==
  /\ At(e, "alive")
  /\ Advance(e, "stranded") /\ sessions' \in {sessions, sessions \ {e}}
  /\ UNCHANGED <<process, listed, others>>

(* Other processes open and close sessions. *)
OtherProcess ==
  /\ others' \in {others - 1, others + 1} \intersect 0..(MaxSessions - Cardinality(sessions))
  /\ UNCHANGED <<process, object, listed, sessions>>

Next ==
  \/ \E e \in Encoders : \/ Construct(e) \/ ConstructThrows(e) \/ OpenSession(e) \/ OpenCrashes(e)
                         \/ Configure(e) \/ CallFails(e) \/ Destroy(e) \/ DestroyFails(e)
  \/ OtherProcess

Spec == Init /\ [][Next]_vars

-----------------------------------------------------------------------------
(* The objects that have a session, and those whose own nvEncDestroyEncoder *)
(* has failed.                                                              *)
Holding  == {e \in Encoders : object[e] \in {"opened", "configured", "alive"}}
Stranded == {e \in Encoders : object[e] = "stranded"}

(* As long as the process runs, every object that is being constructed or   *)
(* used has its session, and a session without such an object is one that   *)
(* nvEncDestroyEncoder failed to close: no failing call of a constructor or *)
(* of encodeFrame, of whichever object, loses one, and nobody closes the    *)
(* session of another object.                                               *)
SessionsAreOwned ==
  process = "running" => Holding \subseteq sessions /\ sessions \subseteq Holding \union Stranded
=============================================================================
