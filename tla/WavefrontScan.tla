---------------------------- MODULE WavefrontScan ----------------------------
(* 03-Hardware-Acceleration-and-Networking/rocm-hip.cpp: the host calls of  *)
(* executeAmdAsynchronousWorkflow, the operations they put into the stream, *)
(* and the wavefronts of the kernel amdWavefrontPrefixSum.  External: the   *)
(* stream runs its operations one after the other, concurrently with the    *)
(* host; the lanes of a wavefront go in step, the wavefronts in any order.  *)
EXTENDS Integers, Sequences, Functions

CONSTANTS
  DataSizes,    \* what dataSize may be
  Input,        \* Input[t]: element t of h_data at first
  blockSize,    \* 256 in the code
  warpSize      \* 64 in the code

ScanAssumption ==
  /\ DataSizes \subseteq Nat
  /\ \A n \in DataSizes : \A t \in 0..(n - 1) : t \in DOMAIN Input /\ Input[t] \in Int
  /\ warpSize \in Nat \ {0} /\ blockSize \in Nat \ {0} /\ blockSize % warpSize = 0

VARIABLES
  dataSize,
  host,       \* the number of host calls that have returned, or Exited
  stream,     \* the operations in computeStream that have not ended
  launched,   \* the kernel was accepted
  h_data, d_in, d_out,
  wave        \* wave[w]: the registers offset and val of wavefront w

vars == <<dataSize, host, stream, launched, h_data, d_in, d_out, wave>>

Calls == <<"hipStreamCreate", "hipMalloc", "hipMalloc", "copyIn", "launch", "copyOut",
           "hipStreamSynchronize", "hipFree", "hipFree", "hipStreamDestroy">>

gridSize == (dataSize + blockSize - 1) \div blockSize
Waves == 0..(gridSize * (blockSize \div warpSize) - 1)
Lanes == 0..(warpSize - 1)
tid(w, lane) == w * warpSize + lane
Elements == 0..(dataSize - 1)
Garbage == -1
Exited == -1
Idle == [offset |-> 0, val |-> <<>>]
Ended(w) == wave[w].offset = 2 * warpSize

(* The stream holds the operations in the order of the calls. *)
TypeOK ==
  /\ dataSize \in DataSizes /\ host \in 0..Len(Calls) \union {Exited} /\ launched \in BOOLEAN
  /\ stream \in {SubSeq(<<"copyIn", "launch", "copyOut">>, i, j) : i, j \in 1..3}
               \union {<<"copyIn", "copyOut">>, <<>>}
  /\ \A a \in {h_data, d_in, d_out} : a \in [Elements -> Int]

Init ==
  /\ dataSize \in DataSizes /\ host = 0 /\ stream = <<>> /\ launched = FALSE
  /\ h_data = [t \in Elements |-> Input[t]]
  /\ d_in = [t \in Elements |-> Garbage] /\ d_out = [t \in Elements |-> Garbage]
  /\ wave = [w \in Waves |-> Idle]

-----------------------------------------------------------------------------
Call(name) == host \in 0..(Len(Calls) - 1) /\ Calls[host + 1] = name /\ host' = host + 1

(* The calls that put nothing into the stream. *)
CallReturns ==
  /\ \E name \in {"hipStreamCreate", "hipMalloc", "hipFree", "hipStreamDestroy"} : Call(name)
  /\ UNCHANGED <<dataSize, stream, launched, h_data, d_in, d_out, wave>>

(* hipMemcpyAsync *)
EnqueueCopy ==
  /\ \E name \in {"copyIn", "copyOut"} : Call(name) /\ stream' = Append(stream, name)
  /\ UNCHANGED <<dataSize, launched, h_data, d_in, d_out, wave>>

(* hipLaunchKernelGGL; nobody looks whether the kernel was accepted, which  *)
(* a grid of no blocks never is.                                            *)
Launch ==
  /\ Call("launch")
  /\ \/ gridSize > 0 /\ launched' = TRUE /\ stream' = Append(stream, "launch")
     \/ UNCHANGED <<launched, stream>>
  /\ UNCHANGED <<dataSize, h_data, d_in, d_out, wave>>

(* hipStreamSynchronize returns when the stream has run empty. *)
Synchronize ==
  /\ Call("hipStreamSynchronize") /\ stream = <<>>
  /\ UNCHANGED <<dataSize, stream, launched, h_data, d_in, d_out, wave>>

(* CHECK_HIP: a call that fails, for a reason of its own or because an      *)
(* operation of the stream has failed, ends the process.                    *)
CallFails ==
  /\ host \in 0..(Len(Calls) - 1) /\ Calls[host + 1] # "launch" /\ host' = Exited
  /\ UNCHANGED <<dataSize, stream, launched, h_data, d_in, d_out, wave>>

Host == CallReturns \/ EnqueueCopy \/ Launch \/ Synchronize \/ CallFails

-----------------------------------------------------------------------------
Running(operation) == host # Exited /\ stream # <<>> /\ Head(stream) = operation

CopyIn ==
  /\ Running("copyIn") /\ stream' = Tail(stream) /\ d_in' = h_data
  /\ UNCHANGED <<dataSize, host, launched, h_data, d_out, wave>>

CopyOut ==
  /\ Running("copyOut") /\ stream' = Tail(stream) /\ h_data' = d_out
  /\ UNCHANGED <<dataSize, host, launched, d_in, d_out, wave>>

(* The lanes behind the end of the data have 0. *)
LoadWave(w) ==
  /\ Running("launch") /\ wave[w] = Idle
  /\ wave' = [wave EXCEPT ![w] =
       [offset |-> 1, val |-> [lane \in Lanes |->
          IF tid(w, lane) < dataSize THEN d_in[tid(w, lane)] ELSE 0]]]
  /\ UNCHANGED <<dataSize, host, stream, launched, h_data, d_in, d_out>>

(* mutant: the lane at the offset itself is left out *)
ShiftedLate(val, offset) ==
  [lane \in Lanes |-> IF lane > offset THEN val[lane] + val[lane - offset] ELSE val[lane]]
(* temp = __shfl_up(val, offset); the lanes that have one add it. *)
Shifted(val, offset) ==
  [lane \in Lanes |-> IF lane >= offset THEN val[lane] + val[lane - offset] ELSE val[lane]]

ShiftWave(w) ==
  /\ Running("launch") /\ wave[w].offset \in 1..(warpSize - 1)
  /\ wave' = [wave EXCEPT ![w] =
       [offset |-> 2 * @.offset, val |-> Shifted(@.val, @.offset)]]
  /\ UNCHANGED <<dataSize, host, stream, launched, h_data, d_in, d_out>>

StoreWave(w) ==
  /\ Running("launch") /\ wave[w].offset >= warpSize /\ ~Ended(w)
  /\ d_out' = [t \in Elements |->
       IF t \div warpSize = w THEN wave[w].val[t % warpSize] ELSE d_out[t]]
  /\ wave' = [wave EXCEPT ![w] = [offset |-> 2 * warpSize, val |-> <<>>]]
  /\ UNCHANGED <<dataSize, host, stream, launched, h_data, d_in>>

KernelEnds ==
  /\ Running("launch") /\ \A w \in Waves : Ended(w)
  /\ stream' = Tail(stream)
  /\ UNCHANGED <<dataSize, host, launched, h_data, d_in, d_out, wave>>

Wave(w) == LoadWave(w) \/ ShiftWave(w) \/ StoreWave(w)
Device == CopyIn \/ CopyOut \/ KernelEnds \/ \E w \in Waves : Wave(w)

Rest == host \in {Len(Calls), Exited} /\ UNCHANGED vars

Next == Host \/ Device \/ Rest

(* The host's thread is scheduled, and the device runs what it has. *)
Fairness == WF_vars(Host) /\ WF_vars(Device)

Spec == Init /\ [][Next]_vars /\ Fairness

-----------------------------------------------------------------------------
Synchronized == host >= 7

(* Once the stream was synchronized nothing runs that could use the memory  *)
(* the host frees, and if the kernel was accepted h_data holds the sums of  *)
(* the elements of each wavefront up to and with the element's own, however *)
(* much of the last wavefront lies behind the end of the data.              *)
ScanIsExact ==
  Synchronized =>
    /\ stream = <<>>
    /\ launched => \A t \in Elements :
         h_data[t] = SumFunctionOnSet(Input, (t - (t % warpSize))..t)

AtEnd == host \in {Len(Calls), Exited}

(* The workflow ends, synchronization included. *)
WorkflowEnds == <>AtEnd
=============================================================================
