---------------------------- MODULE MCConcurrency ----------------------------
(* Model checking of the programs in which threads, goroutines, processes   *)
(* or the groups of a device share memory or channels: the lock-free mempool*)
(* buffer, the shared-memory channel, the disruptor, the Go pipeline, the   *)
(* Rust thread pool, the spin lock of the JavaScript workers, the Java      *)
(* transcoding orchestrator, the NT process list, the HIP scan, the SYCL    *)
(* reduction and the tensor-core kernel.  They do not interact: `subject'   *)
(* says which of them a behaviour is about, and the other ones stay as they *)
(* were initially.                                                          *)
EXTENDS Integers

CONSTANTS
  Capacity, IndexModulus, Transactions,            \* of the mempool buffer
  CAPACITY, UsizeModulus, Signals, Restarts,       \* of the channel
  Slots, Trades,                                   \* of the disruptor
  Goroutines, TaskCount,                           \* of the pipeline
  size, Jobs,                                      \* of the thread pool
  numWorkers, Iterations, Cells,                   \* of the spin lock
  Chunks, PoolSize,                                \* of the orchestrator
  InitialSizes, MaxProcesses, MaxChurn,            \* of the process list
  Input,                                           \* the data of the next two
  ScanSizes, blockSize, warpSize,                  \* of the scan
  ReductionSizes, workGroupSize, subGroupSize,     \* of the reduction
  Tile, MatrixSizes, WarpRows, WarpCols            \* of the kernel

VARIABLES
  subject,
  buffer_, head_, tail_, i, push, seen_tail, pop, seen_head, item, processed,
  mapped, buffer, write_index, read_index, publish, seen_read, calls, published,
  restarts, consume, current_read, payload, consumed,
  entries, producerSequence, consumerSequence, publishing, gate, consuming, event,
  ctxDone, feed, inputClosed, worker, mux, streamClosed, results, exited,
  channel, locked, thread, job, runs, finished, owner, ownerStep,
  mutex, sharedData, pc, turns, completedWorkers, sum,
  main, step, queue, running, done, stage, file, pool,
  mainAt, processes, churn, list, bufferSize, status, allocated, printed,
  dataSize, host, stream, launched, h_data, d_in, d_out, wave,
  itemCount, caller, deviceData, deviceResult, localCache, at, laneSum, finalResult,
  M, N, K, c, k, frag, stray

(* Numbers whose sums tell which of them were added, and how often. *)
Powers == [t \in 0..15 |-> 4^t]

Mempool  == INSTANCE LockFreeMempoolBuffer
Ipc      == INSTANCE IpcChannel WITH IndexModulus <- UsizeModulus
Lmax     == INSTANCE LmaxDisruptor WITH Capacity <- Slots,
                                        publish <- publishing, consume <- consuming
Pipeline == INSTANCE ConcurrencyPipeline WITH Workers <- Goroutines, Tasks <- TaskCount
Pool     == INSTANCE ThreadPool WITH worker <- thread, step <- ownerStep
Lock     == INSTANCE SpinLock WITH i <- turns
Hls      == INSTANCE HlsOrchestrator
List     == INSTANCE NtProcessList WITH pc <- mainAt, buffer <- list
Scan     == INSTANCE WavefrontScan WITH DataSizes <- ScanSizes
Reduction == INSTANCE SubGroupReduction WITH
               DataSizes <- ReductionSizes, dataSize <- itemCount, host <- caller, sum <- laneSum
Tensor   == INSTANCE TensorCoreMatMul

ASSUME ConcurrencyAssumption ==
  /\ Mempool!BufferAssumption /\ Ipc!ChannelAssumption /\ Lmax!DisruptorAssumption
  /\ Pipeline!PipelineAssumption /\ Pool!PoolAssumption /\ Lock!SpinLockAssumption
  /\ Hls!OrchestratorAssumption /\ List!ListAssumption /\ Scan!ScanAssumption
  /\ Reduction!ReductionAssumption /\ Tensor!MatMulAssumption

mempoolVars == <<buffer_, head_, tail_, i, push, seen_tail, pop, seen_head, item, processed>>
ipcVars  == <<mapped, buffer, write_index, read_index, publish, seen_read, calls, published,
              restarts, consume, current_read, payload, consumed>>
lmaxVars == <<entries, producerSequence, consumerSequence, publishing, gate, consuming, event>>
pipelineVars == <<ctxDone, feed, inputClosed, worker, mux, streamClosed, results, exited>>
poolVars == <<channel, locked, thread, job, runs, finished, owner, ownerStep>>
lockVars == <<mutex, sharedData, pc, turns, completedWorkers, sum>>
hlsVars  == <<main, step, queue, running, done, stage, file, pool>>
listVars == <<mainAt, processes, churn, list, bufferSize, status, allocated, printed>>
scanVars == <<dataSize, host, stream, launched, h_data, d_in, d_out, wave>>
reductionVars == <<itemCount, caller, deviceData, deviceResult, localCache, at, laneSum,
                   finalResult>>
tensorVars == <<M, N, K, c, k, frag, stray>>

(* The states of the programs of one language or kind. *)
rings   == <<mempoolVars, ipcVars, lmaxVars>>
threads == <<pipelineVars, poolVars, lockVars, hlsVars>>
devices == <<listVars, scanVars, reductionVars, tensorVars>>
all == <<subject, rings, threads, devices>>

(* How many processes there are, and how much data, matters to one program. *)
Init ==
  /\ subject \in {"mempool", "ipc", "lmax", "pipeline", "pool", "lock", "hls",
                  "list", "scan", "reduction", "tensor"}
  /\ Mempool!Init /\ Ipc!Init /\ Lmax!Init
  /\ Pipeline!Init /\ Pool!Init /\ Lock!Init /\ Hls!Init
  /\ List!Init /\ Scan!Init /\ Reduction!Init /\ Tensor!Init
  /\ subject # "list" => processes = 1 /\ bufferSize = CHOOSE n \in InitialSizes : TRUE
  /\ subject # "scan" => dataSize = CHOOSE n \in ScanSizes : TRUE
  /\ subject # "reduction" => itemCount = CHOOSE n \in ReductionSizes : TRUE
  /\ subject # "tensor" => \A d \in {M, N, K} : d = CHOOSE n \in MatrixSizes : TRUE

(* Both processes of the channel may come to rest: the signals are bounded, *)
(* and a consumer that found no region is gone.                             *)
RingNext ==
  /\ UNCHANGED <<threads, devices>>
  /\ \/ subject = "mempool" /\ Mempool!Next /\ UNCHANGED <<ipcVars, lmaxVars>>
     \/ subject = "ipc" /\ Ipc!Next /\ UNCHANGED <<mempoolVars, lmaxVars>>
     \/ subject = "ipc" /\ UNCHANGED rings
     \/ subject = "lmax" /\ Lmax!Next /\ UNCHANGED <<mempoolVars, ipcVars>>

ThreadNext ==
  /\ UNCHANGED <<rings, devices>>
  /\ \/ subject = "pipeline" /\ Pipeline!Next /\ UNCHANGED <<poolVars, lockVars, hlsVars>>
     \/ subject = "pool" /\ Pool!Next /\ UNCHANGED <<pipelineVars, lockVars, hlsVars>>
     \/ subject = "lock" /\ Lock!Next /\ UNCHANGED <<pipelineVars, poolVars, hlsVars>>
     \/ subject = "hls" /\ Hls!Next /\ UNCHANGED <<pipelineVars, poolVars, lockVars>>

DeviceNext ==
  /\ UNCHANGED <<rings, threads>>
  /\ \/ subject = "list" /\ List!Next /\ UNCHANGED <<scanVars, reductionVars, tensorVars>>
     \/ subject = "scan" /\ Scan!Next /\ UNCHANGED <<listVars, reductionVars, tensorVars>>
     \/ subject = "reduction" /\ Reduction!Next /\ UNCHANGED <<listVars, scanVars, tensorVars>>
     \/ subject = "tensor" /\ Tensor!Next /\ UNCHANGED <<listVars, scanVars, reductionVars>>

Next == UNCHANGED subject /\ (RingNext \/ ThreadNext \/ DeviceNext)

(* Every program is scheduled as its own module says; nothing is assumed of *)
(* the channel's processes.                                                 *)
Fairness ==
  \/ subject = "mempool" /\ Mempool!Fairness
  \/ subject = "ipc"
  \/ subject = "lmax" /\ Lmax!Fairness
  \/ subject = "pipeline" /\ Pipeline!Fairness
  \/ subject = "pool" /\ Pool!Fairness
  \/ subject = "lock" /\ Lock!Fairness
  \/ subject = "hls" /\ Hls!Fairness
  \/ subject = "list" /\ List!Fairness
  \/ subject = "scan" /\ Scan!Fairness
  \/ subject = "reduction" /\ Reduction!Fairness
  \/ subject = "tensor" /\ Tensor!Fairness

Spec == Init /\ [][Next]_all /\ Fairness

-----------------------------------------------------------------------------
(* push(), publish() of the channel and publish() of the disruptor never    *)
(* write a slot, which is plain memory, that the thread in pop() or         *)
(* consume() may be reading or has yet to read.                             *)
NoSlotRace == Mempool!NoSlotRace /\ Ipc!NoSlotRace /\ Lmax!NoLapOverwrite

(* push() and pop() of the mempool buffer implement a bounded FIFO queue,   *)
(* and so does the shared-memory channel, whatever publish() drops.         *)
BuffersAreFifo == Mempool!ImplementsBoundedFifo /\ Ipc!ImplementsBoundedFifo

(* fanIn never sends on the closed multiplexedStream, neither loses nor     *)
(* repeats a task that was fed, and unless the context was cancelled its    *)
(* output is complete when it is closed.                                    *)
PipelineDelivers == Pipeline!PipelineDelivers

(* No job of the thread pool is run twice, whichever workers compete, and   *)
(* when drop of the ThreadPool returns every job has run to its end.        *)
EachJobRunsOnce == Pool!EachJobRunsOnce

(* One thread at a time is in the critical section of brain-bender.js, and  *)
(* the sum it prints counts every worker's increments.                      *)
NoIncrementLost == Lock!NoIncrementLost

(* When the orchestrator reports its playlist, each profile's manifest is   *)
(* on disk with all its segments in the order of the video; also when one   *)
(* failed, main leaves join() with no manifest being written and no         *)
(* transcoding under way.                                                   *)
OutputIsComplete == Hls!OutputIsComplete

(* However often the list of processes has grown between two queries, the   *)
(* kernel is never told that the buffer is larger than it is, and no buffer *)
(* is lost.                                                                 *)
BufferIsExact == List!BufferIsExact

(* Behind hipStreamSynchronize nothing uses the memory that is freed, and   *)
(* h_data holds the prefix sums of each wavefront if the kernel was accepted*)
ScanIsExact == subject = "scan" => Scan!ScanIsExact

(* Behind wait() the result is the sum of the data, whatever the order of   *)
(* the sub-groups, and none of them uses the memory that is freed.          *)
ReductionIsSum == subject = "reduction" => Reduction!ReductionIsSum

(* The warps write the product of the matrices, whatever their size, but    *)
(* where a last tile reaches over the end of a row; no warp outside the     *)
(* matrix overwrites a number, and whole tiles are all that is accessed.    *)
ProductIsExact == subject = "tensor" => Tensor!ProductIsExact

(* Every program ends, and nobody spins or waits for ever: the gossip       *)
(* simulation and the disruptor's main, although they spin on each other;   *)
(* the pipeline, cancelled or not; the pool's owner, also when jobs panic;  *)
(* the workers, although the lock promises no thread its turn; the          *)
(* orchestrator; the queries for a list that grows; and the hosts that wait *)
(* for a stream, a barrier or a grid of warps.                              *)
ProgramsEnd ==
  <>CASE subject = "mempool" -> Mempool!AtEnd
      [] subject = "ipc" -> TRUE
      [] subject = "lmax" -> Lmax!AtEnd
      [] subject = "pipeline" -> Pipeline!AtEnd
      [] subject = "pool" -> Pool!AtEnd
      [] subject = "lock" -> Lock!AtEnd
      [] subject = "hls" -> Hls!AtEnd
      [] subject = "list" -> List!AtEnd
      [] subject = "scan" -> Scan!AtEnd
      [] subject = "reduction" -> Reduction!AtEnd
      [] subject = "tensor" -> Tensor!AtEnd
=============================================================================
