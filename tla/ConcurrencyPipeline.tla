------------------------- MODULE ConcurrencyPipeline -------------------------
(* The fan-out/fan-in pipeline of                                           *)
(* 12-DevOps-and-Concurrency/concurrency-pipeline.go: the feeder of main,   *)
(* the workers of spawnWorkers, the multiplex goroutines and the closer of  *)
(* fanIn, and the main loop that drains the unified output.  All channels   *)
(* are unbuffered: a send and its receive are one step.                     *)
EXTENDS Integers, Sequences

CONSTANTS Workers,    \* 5 in main, each with its channel and multiplexer
          Tasks       \* 20 in main

PipelineAssumption == Workers # {} /\ Tasks \in Nat

VARIABLES
  ctxDone,       \* the context is cancelled: the 2 seconds are over
  feed,          \* the task the feeder offers next
  inputClosed,
  worker,        \* worker[w]: the task it holds, Idle, or Ended (output closed)
  mux,           \* mux[w]: likewise for multiplex
  streamClosed,  \* multiplexedStream
  results,       \* what main has received
  exited         \* main has returned, and the process with it

vars == <<ctxDone, feed, inputClosed, worker, mux, streamClosed, results, exited>>

Idle  == 0
Ended == -1

(* Only tasks main has fed travel through the goroutines and channels.      *)
TypeOK ==
  /\ {ctxDone, inputClosed, streamClosed, exited} \subseteq BOOLEAN
  /\ feed \in 1..(Tasks + 1)
  /\ worker \in [Workers -> {Idle, Ended} \union 1..Tasks]
  /\ mux \in [Workers -> {Idle, Ended} \union 1..Tasks]
  /\ results \in Seq(1..Tasks)

Init ==
  /\ ctxDone = FALSE /\ feed = 1 /\ inputClosed = FALSE
  /\ worker = [w \in Workers |-> Idle]
  /\ mux = [w \in Workers |-> Idle]
  /\ streamClosed = FALSE /\ results = <<>> /\ exited = FALSE

-----------------------------------------------------------------------------
(* Goroutines run until main returns. *)
Running == ~exited /\ UNCHANGED exited

Timeout ==
  /\ Running /\ ~ctxDone /\ ctxDone' = TRUE
  /\ UNCHANGED <<feed, inputClosed, worker, mux, streamClosed, results>>

(* mutant: the feeder closes its channel with its last task still to come *)
CloseInputEarly ==
  /\ Running /\ ~inputClosed /\ (ctxDone \/ feed >= Tasks)
  /\ inputClosed' = TRUE
  /\ UNCHANGED <<ctxDone, feed, worker, mux, streamClosed, results>>

(* The feeder returns when it is through, or on ctx.Done(). *)
CloseInput ==
  /\ Running /\ ~inputClosed /\ (ctxDone \/ feed > Tasks)
  /\ inputClosed' = TRUE
  /\ UNCHANGED <<ctxDone, feed, worker, mux, streamClosed, results>>

(* inputStream <- Task: taken by any worker that is in its select. *)
Feed(w) ==
  /\ Running /\ ~inputClosed /\ feed <= Tasks /\ worker[w] = Idle
  /\ worker' = [worker EXCEPT ![w] = feed]
  /\ feed' = feed + 1
  /\ UNCHANGED <<ctxDone, inputClosed, mux, streamClosed, results>>

(* A worker in its select sees ctx.Done() or the closed input and returns.  *)
WorkerReturns(w) ==
  /\ Running /\ worker[w] = Idle /\ (ctxDone \/ inputClosed)
  /\ worker' = [worker EXCEPT ![w] = Ended]
  /\ UNCHANGED <<ctxDone, feed, inputClosed, mux, streamClosed, results>>

(* output <- task, which only the multiplexer in its range loop receives.   *)
HandOver(w) ==
  /\ Running /\ worker[w] > 0 /\ mux[w] = Idle
  /\ mux' = [mux EXCEPT ![w] = worker[w]]
  /\ worker' = [worker EXCEPT ![w] = Idle]
  /\ UNCHANGED <<ctxDone, feed, inputClosed, streamClosed, results>>

(* multiplexedStream <- i, received by main. *)
Deliver(w) ==
  /\ Running /\ mux[w] > 0 /\ ~streamClosed
  /\ mux' = [mux EXCEPT ![w] = Idle]
  /\ results' = Append(results, mux[w])
  /\ UNCHANGED <<ctxDone, feed, inputClosed, worker, streamClosed>>

(* multiplex returns: on ctx.Done() with a task in hand, which is dropped,  *)
(* or because the worker has closed its channel.                            *)
MultiplexReturns(w) ==
  /\ Running /\ ((mux[w] > 0 /\ ctxDone) \/ (mux[w] = Idle /\ worker[w] = Ended))
  /\ mux' = [mux EXCEPT ![w] = Ended]
  /\ UNCHANGED <<ctxDone, feed, inputClosed, worker, streamClosed, results>>

Waited == \A w \in Workers : mux[w] = Ended     \* wg.Wait()

CloseStream ==
  /\ Running /\ ~streamClosed /\ Waited
  /\ streamClosed' = TRUE
  /\ UNCHANGED <<ctxDone, feed, inputClosed, worker, mux, results>>

MainReturns ==
  /\ ~exited /\ streamClosed /\ exited' = TRUE
  /\ UNCHANGED <<ctxDone, feed, inputClosed, worker, mux, streamClosed, results>>

Goroutine(w) == Feed(w) \/ WorkerReturns(w) \/ HandOver(w) \/ Deliver(w) \/ MultiplexReturns(w)

Next ==
  \/ Timeout \/ CloseInput \/ CloseStream \/ MainReturns
  \/ \E w \in Workers : Goroutine(w)
  \/ exited /\ UNCHANGED vars

(* Goroutines that can run are scheduled and the timer fires.               *)
Fairness ==
  /\ WF_vars(CloseInput \/ CloseStream \/ MainReturns) /\ WF_vars(Timeout)
  /\ \A w \in Workers : WF_vars(Goroutine(w))

Spec == Init /\ [][Next]_vars /\ Fairness

-----------------------------------------------------------------------------
(* No goroutine sends on the closed stream, which would panic: wg covers    *)
(* every multiplexer.                                                       *)
NoSendOnClosed == streamClosed => \A w \in Workers : mux[w] = Ended

(* A task that was fed is in one place at most: with one worker, with one   *)
(* multiplexer, or once in the results.                                     *)
TaskInOnePlace ==
  \A t \in 1..Tasks :
    LET w1 == {w \in Workers : worker[w] = t}
        w2 == {w \in Workers : mux[w] = t}
        r  == {k \in 1..Len(results) : results[k] = t}
    IN  /\ t >= feed => w1 = {} /\ w2 = {} /\ r = {}
        /\ \A a, b \in (w1 \X {1}) \union (w2 \X {2}) \union (r \X {3}) : a = b

(* Unless the context was cancelled, the output is complete when it ends.   *)
CompleteUnlessCancelled ==
  streamClosed /\ ~ctxDone => \A t \in 1..Tasks : \E k \in 1..Len(results) : results[k] = t

(* The three together: fanIn delivers each task once, all of them unless    *)
(* cancelled, and never after the close.                                    *)
PipelineDelivers == NoSendOnClosed /\ TaskInOnePlace /\ CompleteUnlessCancelled

AtEnd == exited

(* main returns, cancelled or not: no channel operation of the pipeline     *)
(* keeps it waiting.                                                        *)
MainEnds == <>AtEnd
=============================================================================
