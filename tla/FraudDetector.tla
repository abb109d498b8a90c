---------------------------- MODULE FraudDetector ----------------------------
(* FraudDetector of 07-Real-Time-Event-Streaming/                           *)
(* apache-flink-complex-event-processing.sc, for the events of one account: *)
(* Flink keeps flagState and timerState apart for each key.  Events arrive  *)
(* in any order of their timestamps, some behind the watermark, and the     *)
(* timers due fire when the watermark passes them.                          *)
EXTENDS Integers, Sequences

CONSTANTS
  Window,      \* the ten minutes
  MaxTime,     \* the last timestamp
  MaxEvents,   \* events modelled
  NoTimer

FraudAssumption == Window \in Nat /\ MaxTime \in Nat

VARIABLES
  flagState,   \* the last transactions were small
  timerState,  \* the timer of the flag, or NoTimer
  timers,      \* the event-time timers registered with Flink
  watermark,
  log          \* the events so far: amount, timestamp, watermark on arrival, alert raised

vars == <<flagState, timerState, timers, watermark, log>>

Times == 0..MaxTime
(* Below 5, above 5000, and in between. *)
Amounts == {"small", "massive", "normal"}
Timers == {t + Window : t \in Times}

(* Flag, timer and log take the values processElement and onTimer give them.*)
TypeOK ==
  /\ flagState \in BOOLEAN
  /\ timerState \in Timers \union {NoTimer} /\ timers \subseteq Timers
  /\ watermark \in 0..(MaxTime + Window)
  /\ log \in Seq([amount : Amounts, time : Times, watermark : 0..(MaxTime + Window), alert : BOOLEAN])

Init ==
  /\ flagState = FALSE /\ timerState = NoTimer /\ timers = {}
  /\ watermark = 0 /\ log = <<>>

-----------------------------------------------------------------------------
(* mutant: the timer of a cleared flag stays registered *)
cleanUpKeepsTimer == flagState' = FALSE /\ timerState' = NoTimer /\ UNCHANGED timers
cleanUp ==
  flagState' = FALSE /\ timerState' = NoTimer /\ timers' = timers \ {timerState}

(* A small transaction sets the flag and its timer unless they are set. *)
setFlag(time) ==
  IF flagState THEN UNCHANGED <<flagState, timerState, timers>>
  ELSE /\ flagState' = TRUE /\ timerState' = time + Window
       /\ timers' = timers \union {time + Window}

processNormal ==
  IF flagState THEN cleanUp ELSE UNCHANGED <<flagState, timerState, timers>>

processElement(amount, time) ==
  /\ Len(log) < MaxEvents
  /\ log' = Append(log, [amount |-> amount, time |-> time, watermark |-> watermark,
                         alert |-> flagState /\ amount = "massive"])
  /\ CASE amount = "small"   -> setFlag(time)
       [] amount = "massive" -> IF flagState THEN cleanUp
                                ELSE UNCHANGED <<flagState, timerState, timers>>
       [] amount = "normal"  -> processNormal
  /\ UNCHANGED watermark

(* The watermark moves on and onTimer is called for each timer it passes. *)
onTimer(w) ==
  /\ w > watermark /\ watermark' = w
  /\ timers' = {t \in timers : t > w}
  /\ IF timers' # timers
       THEN flagState' = FALSE /\ timerState' = NoTimer
       ELSE UNCHANGED <<flagState, timerState>>
  /\ UNCHANGED log

Next ==
  \/ \E amount \in Amounts, time \in Times : processElement(amount, time)
  \/ \E w \in 1..(MaxTime + Window) : onTimer(w)

Spec == Init /\ [][Next]_vars

-----------------------------------------------------------------------------
(* The transactions i to j-1 are small. *)
SmallFrom(i, j) == \A k \in i..(j - 1) : log[k].amount = "small"
Open(i, j) == log[j].watermark < log[i].time + Window

(* A massive transaction right behind a run of small ones is reported while *)
(* the window that the first of them opened is open.                        *)
NoneMissed ==
  \A i, j \in 1..Len(log) :
    (/\ i < j /\ SmallFrom(i, j) /\ (i > 1 => log[i - 1].amount # "small")
     /\ log[j].amount = "massive" /\ Open(i, j)) => log[j].alert

(* A reported transaction is massive and right behind a run of small ones,  *)
(* in arrival order, with a window that the watermark has not closed or     *)
(* that was opened behind the watermark.                                    *)
NoFalseAlert ==
  \A j \in 1..Len(log) : log[j].alert =>
    /\ log[j].amount = "massive"
    /\ \E i \in 1..(j - 1) :
         SmallFrom(i, j) /\ (Open(i, j) \/ log[i].watermark = log[j].watermark)
(* The alerts are exactly those that processElement owes.                   *)
AlertsAreExact == NoneMissed /\ NoFalseAlert
=============================================================================
