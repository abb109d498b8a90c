--------------------------- MODULE HistoriesProofs --------------------------
(* The components that keep a history, for all values of their constants:   *)
(* blocks of the heap do not overlap, video sessions are released once,     *)
(* records are delivered once, alerts follow the events, no withdrawal      *)
(* overdraws, the linked levels of the book are queues, the matching engine *)
(* keeps price-time priority, and the parser reads the feed that was sent.  *)
EXTENDS MCHistories, Lemmas, SequenceTheorems, TLAPS

-----------------------------------------------------------------------------
(* The heap: if no size is so large that adding the header overflows, and   *)
(* nobody moves the break while request_space runs, blocks never overlap    *)
(* and are backed by memory.                                                *)

NoOverflow == \A s \in Sizes : 2 * (s + META_SIZE) < SizeModulus

(* The region a request is about to get starts at the break. *)
RequestAtBreak == request # NoRequest => request.block = brk

(* Others have their memory below the break. *)
OthersBelow == \A r \in others : r.end <= brk

IInv == TypeOK /\ RequestAtBreak /\ OthersBelow /\ NoOverlap /\ BlocksAreBacked /\ HeldIsNotFree

(* The heap starts empty.                                                   *)
LEMMA InitInv == Init => IInv
<1> SUFFICES ASSUME Init PROVE IInv
  OBVIOUS
<1>1. TypeOK
  BY AllocatorAssumption DEF Init, TypeOK
<1>2. RequestAtBreak /\ OthersBelow /\ NoOverlap /\ BlocksAreBacked /\ HeldIsNotFree
  BY DEF Init, RequestAtBreak, OthersBelow, NoOverlap, BlocksAreBacked, HeldIsNotFree
<1> QED BY <1>1, <1>2 DEF IInv

(* Without overflow sbrk moves the break by exactly size + META_SIZE.       *)
LEMMA GrowthIsExact ==
  ASSUME NoOverflow, NEW s \in Sizes
  PROVE  Growth(s) = s + META_SIZE /\ s \in Nat /\ s > 0
<1>1. s \in Nat /\ s > 0 /\ META_SIZE \in Nat /\ SizeModulus \in Nat
  BY AllocatorAssumption
<1>2. 2 * (s + META_SIZE) < SizeModulus
  BY DEF NoOverflow
<1>3. (s + META_SIZE) % SizeModulus = s + META_SIZE
  BY <1>1, <1>2
<1> QED BY <1>1, <1>2, <1>3 DEF Growth

(* Sizes and headers are positive numbers of bytes.                         *)
LEMMA SizeIsNat ==
  ASSUME NEW s \in Sizes
  PROVE  s \in Nat /\ s > 0 /\ META_SIZE \in Nat
BY AllocatorAssumption

(* Blocks start and end at addresses.                                       *)
LEMMA EndIsNat ==
  ASSUME TypeOK
  PROVE  \A k \in 1..Len(blocks) : Start(k) \in Nat /\ End(k) \in Nat
<1> SUFFICES ASSUME NEW k \in 1..Len(blocks) PROVE Start(k) \in Nat /\ End(k) \in Nat
  OBVIOUS
<1>1. blocks[k] \in Block
  BY DEF TypeOK
<1>2. blocks[k].start \in Nat /\ blocks[k].size \in Sizes
  BY <1>1 DEF Block
<1>3. blocks[k].size \in Nat /\ META_SIZE \in Nat
  BY <1>2, SizeIsNat
<1> QED BY <1>2, <1>3 DEF Start, End

(* Marking a block leaves the layout of the list alone.                     *)
LEMMA MarkInv ==
  ASSUME IInv, NEW k \in 1..Len(blocks), NEW b \in BOOLEAN,
         blocks' = [blocks EXCEPT ![k].free = b],
         held' = IF b THEN held \ {k} ELSE held \union {k},
         UNCHANGED <<brk, request, others>>
  PROVE  IInv'
<1> USE DEF IInv
<1>a. blocks \in Seq(Block) /\ blocks[k] \in Block
  BY DEF TypeOK
<1>b. [blocks[k] EXCEPT !.free = b] \in Block
  BY <1>a DEF Block
<1>c. blocks' = [blocks EXCEPT ![k] = [blocks[k] EXCEPT !.free = b]]
  OBVIOUS
<1>d. /\ blocks' \in Seq(Block) /\ Len(blocks') = Len(blocks)
      /\ \A j \in 1..Len(blocks) :
           blocks[j] \in Block
           /\ blocks'[j] = IF j = k THEN [blocks[k] EXCEPT !.free = b] ELSE blocks[j]
  BY <1>a, <1>b, <1>c
<1>1. /\ blocks' \in Seq(Block) /\ Len(blocks') = Len(blocks)
      /\ \A j \in 1..Len(blocks) : /\ blocks'[j].start = blocks[j].start
                                   /\ blocks'[j].size = blocks[j].size
                                   /\ blocks'[j].free = IF j = k THEN b ELSE blocks[j].free
  BY <1>d DEF Block
<1>2. TypeOK'
  BY <1>1 DEF TypeOK
<1>3. (RequestAtBreak /\ OthersBelow)'
  BY DEF RequestAtBreak, OthersBelow
<1>4. \A j \in 1..Len(blocks) : Start(j)' = Start(j) /\ End(j)' = End(j)
  BY <1>1 DEF Start, End
<1>5. (NoOverlap /\ BlocksAreBacked)'
  BY <1>1, <1>4 DEF NoOverlap, BlocksAreBacked
<1>6. HeldIsNotFree'
  BY <1>1 DEF HeldIsNotFree
<1> QED BY <1>2, <1>3, <1>5, <1>6

(* A block appended at the break lies behind all the others.                *)
LEMMA AppendInv ==
  ASSUME IInv, NoOverflow, AppendBlock
  PROVE  IInv'
<1> USE DEF IInv
<1> DEFINE s == request.size
           new == [start |-> brk, size |-> s, free |-> FALSE]
<1>1. /\ s \in Sizes /\ Growth(s) = s + META_SIZE /\ s \in Nat /\ s > 0
      /\ META_SIZE \in Nat /\ HeapLimit \in Nat
  <2>1. s \in Sizes
    BY DEF AppendBlock, TypeOK
  <2> QED BY <2>1, GrowthIsExact, AllocatorAssumption
<1>2. /\ brk' = brk + s + META_SIZE /\ brk' \in 0..HeapLimit /\ brk \in Nat
      /\ blocks' = Append(blocks, new)
      /\ held' = held \union {Len(blocks) + 1}
      /\ request' = NoRequest /\ UNCHANGED others
  <2>1. brk \in 0..HeapLimit
    BY DEF TypeOK
  <2>2. brk' = brk + Growth(s) /\ brk + Growth(s) \in 0..HeapLimit
    BY DEF AppendBlock, Refused
  <2>3. request.block = brk
    BY DEF AppendBlock, RequestAtBreak
  <2>4. brk' = brk + s + META_SIZE /\ brk' \in 0..HeapLimit /\ brk \in Nat
    BY <1>1, <2>1, <2>2
  <2> QED BY <2>3, <2>4 DEF AppendBlock
<1> HIDE DEF s
<1> PICK n \in Nat : n = Len(blocks)
  BY DEF TypeOK
<1>3. /\ blocks \in Seq(Block) /\ blocks' \in Seq(Block)
      /\ Len(blocks') = n + 1
      /\ \A j \in 1..n : blocks'[j] = blocks[j]
      /\ blocks'[n + 1] = new
  <2>1. new \in Block
    BY <1>1, <1>2 DEF Block
  <2> HIDE DEF new
  <2> QED BY <1>2, <2>1 DEF TypeOK
<1>4. TypeOK'
  <2>1. held' \subseteq 1..Len(blocks')
    <3>1. held \subseteq 1..n /\ held' = held \union {n + 1} /\ Len(blocks') = n + 1
      BY <1>2, <1>3 DEF TypeOK
    <3>2. 1..n \subseteq 1..(n + 1) /\ n + 1 \in 1..(n + 1)
      OBVIOUS
    <3> QED BY <3>1, <3>2
  <2> QED BY <1>2, <1>3, <2>1 DEF TypeOK
<1>5. (RequestAtBreak /\ OthersBelow)'
  BY <1>1, <1>2 DEF RequestAtBreak, OthersBelow, TypeOK, Region
<1>6. /\ \A j \in 1..n : Start(j)' = Start(j) /\ End(j)' = End(j)
      /\ Start(n + 1)' = brk
      /\ End(n + 1)' = brk'
  <2>1. new.start = brk /\ new.size = s
    OBVIOUS
  <2> HIDE DEF new
  <2> QED BY <1>1, <1>2, <1>3, <2>1 DEF Start, End
<1>7. \A j \in 1..n : Start(j) \in Nat /\ End(j) \in Nat /\ End(j) <= brk
  BY EndIsNat DEF BlocksAreBacked
<1> HIDE DEF new
<1>8. BlocksAreBacked'
  <2> SUFFICES ASSUME NEW j \in 1..Len(blocks') PROVE End(j)' <= brk'
    BY DEF BlocksAreBacked
  <2>1. CASE j = n + 1
    BY <1>1, <1>2, <1>6, <2>1
  <2>2. CASE j \in 1..n
    BY <1>1, <1>2, <1>6, <1>7, <2>2
  <2> QED BY <1>3, <2>1, <2>2
<1>9. NoOverlap'
  <2>1. ASSUME NEW j \in 1..Len(blocks'), NEW k \in 1..Len(blocks'), j < k
        PROVE  End(j)' <= Start(k)'
    <3>1. CASE k = n + 1
      <4>1. j \in 1..n
        BY <1>3, <2>1, <3>1
      <4> QED BY <1>6, <1>7, <3>1, <4>1
    <3>2. CASE k \in 1..n
      <4>1. j \in 1..n
        BY <1>3, <2>1, <3>2
      <4> QED BY <1>6, <2>1, <3>2, <4>1 DEF NoOverlap
    <3> QED BY <1>3, <2>1, <3>1, <3>2
  <2>2. ASSUME NEW k \in 1..Len(blocks'), NEW r \in others'
        PROVE  End(k)' <= r.start \/ r.end <= Start(k)'
    <3>1. CASE k = n + 1
      <4>1. r \in others /\ r.end <= brk
        BY <1>2, <2>2 DEF OthersBelow
      <4>2. Start(k)' = brk
        BY <1>6, <3>1
      <4> QED BY <4>1, <4>2
    <3>2. CASE k \in 1..n
      BY <1>2, <1>6, <2>2, <3>2 DEF NoOverlap
    <3> QED BY <1>3, <2>2, <3>1, <3>2
  <2> QED BY <2>1, <2>2 DEF NoOverlap
<1>10. HeldIsNotFree'
  <2>1. new.free = FALSE
    BY DEF new
  <2> SUFFICES ASSUME NEW j \in 1..Len(blocks') PROVE blocks'[j].free <=> j \notin held'
    BY DEF HeldIsNotFree
  <2>2. CASE j = n + 1
    BY <1>2, <1>3, <2>1, <2>2
  <2>3. CASE j \in 1..n
    BY <1>2, <1>3, <2>3 DEF HeldIsNotFree
  <2> QED BY <1>3, <2>2, <2>3
<1> QED BY <1>4, <1>5, <1>8, <1>9, <1>10

(* Other code that moves the break outside request_space gets memory of its own.*)
LEMMA OtherInv ==
  ASSUME IInv, ~OthersRace, OtherSbrk
  PROVE  IInv'
<1> USE DEF IInv, OtherSbrk
<1>1. TypeOK'
  BY AllocatorAssumption DEF TypeOK, Region
<1>2. RequestAtBreak'
  BY DEF RequestAtBreak
<1>3. OthersBelow'
  BY DEF OthersBelow, TypeOK, Region
<1>4. \A k \in 1..Len(blocks) : Start(k)' = Start(k) /\ End(k)' = End(k) /\ End(k) \in Nat
  BY EndIsNat DEF Start, End
<1>5. (BlocksAreBacked /\ NoOverlap)'
  BY <1>4 DEF BlocksAreBacked, NoOverlap, TypeOK
<1>6. HeldIsNotFree'
  BY DEF HeldIsNotFree
<1> QED BY <1>1, <1>2, <1>3, <1>5, <1>6

(* Every step keeps the invariant, under the two conditions.                *)
LEMMA StepInv ==
  ASSUME NoOverflow, ~OthersRace
  PROVE  IInv /\ [Next]_vars => IInv'
<1> SUFFICES ASSUME IInv, [Next]_vars PROVE IInv'
  OBVIOUS
<1>1. ASSUME NEW s \in Sizes, ReadBreak(s) PROVE IInv'
  BY <1>1 DEF IInv, ReadBreak, TypeOK, RequestAtBreak, OthersBelow, NoOverlap,
              BlocksAreBacked, HeldIsNotFree, Start, End
<1>2. ASSUME NEW s \in Sizes, NEW k \in 1..Len(blocks), ReuseBlock(k, s) PROVE IInv'
  BY <1>2, MarkInv DEF ReuseBlock
<1>3. ASSUME NEW k \in held, Free(k) PROVE IInv'
  <2>1. k \in 1..Len(blocks)
    BY <1>3 DEF IInv, TypeOK
  <2> QED BY <1>3, <2>1, MarkInv DEF Free
<1>4. CASE RefuseBlock \/ UNCHANGED vars
  BY <1>4 DEF IInv, RefuseBlock, vars, TypeOK, RequestAtBreak, OthersBelow, NoOverlap,
              BlocksAreBacked, HeldIsNotFree, Start, End
<1> QED
  BY <1>1, <1>2, <1>3, <1>4, AppendInv, OtherInv DEF Next, my_malloc

(* Callers of my_malloc never share memory, with each other or with other   *)
(* code, and every block they get exists up to its last byte.               *)
THEOREM BlocksAreSound ==
  ASSUME NoOverflow, ~OthersRace
  PROVE  Spec => []HeapIsSound
<1>1. Init => IInv
  BY InitInv
<1>2. IInv /\ [Next]_vars => IInv'
  BY StepInv
<1>3. IInv => HeapIsSound
  BY DEF IInv, HeapIsSound
<1> QED BY <1>1, <1>2, <1>3, PTL DEF Spec

-----------------------------------------------------------------------------
(* The video encoders.                                                      *)

(* What happens to the encoders is a step of its module or nothing.         *)
LEMMA EncoderStep ==
  [SuiteNext]_<<subject, vars, ButAllocator>> => [Encoder!Next]_encoderVars
  BY DEF SuiteNext, ButAllocator, encoderVars, ButBook, ButEngine, ButParser, ButStream, ButFraud, ButLedger

(* The stages of the objects, and the sessions that go with them.           *)
EncoderInv ==
  /\ object \in [Encoders -> {"none", "loaded", "opened", "configured", "alive", "gone", "stranded"}]
  /\ Encoder!SessionsAreOwned

(* Every call keeps the invariant.                                          *)
LEMMA EncoderKeeps == EncoderInv /\ [SuiteNext]_<<subject, vars, ButAllocator>> => EncoderInv'
<1> SUFFICES ASSUME EncoderInv, [Encoder!Next]_encoderVars PROVE EncoderInv'
  BY EncoderStep
<1> USE DEF EncoderInv, Encoder!SessionsAreOwned, Encoder!Holding, Encoder!Stranded,
            Encoder!At, Encoder!Advance
<1>1. ASSUME NEW e \in Encoders, Encoder!Construct(e) \/ Encoder!ConstructThrows(e) PROVE EncoderInv'
  BY <1>1 DEF Encoder!Construct, Encoder!ConstructThrows
<1>2. ASSUME NEW e \in Encoders, Encoder!OpenSession(e) \/ Encoder!OpenCrashes(e) PROVE EncoderInv'
  BY <1>2 DEF Encoder!OpenSession, Encoder!OpenCrashes
<1>3. ASSUME NEW e \in Encoders, Encoder!Configure(e) PROVE EncoderInv'
  BY <1>3 DEF Encoder!Configure
<1>4. ASSUME NEW e \in Encoders, Encoder!CallFails(e) PROVE EncoderInv'
  BY <1>4 DEF Encoder!CallFails
<1>5. ASSUME NEW e \in Encoders, Encoder!Destroy(e) PROVE EncoderInv'
  BY <1>5 DEF Encoder!Destroy
<1>6. ASSUME NEW e \in Encoders, Encoder!DestroyFails(e) PROVE EncoderInv'
  BY <1>6 DEF Encoder!DestroyFails
<1>7. CASE Encoder!OtherProcess \/ UNCHANGED encoderVars
  BY <1>7 DEF Encoder!OtherProcess, encoderVars
<1> QED BY <1>1, <1>2, <1>3, <1>4, <1>5, <1>6, <1>7 DEF Encoder!Next

(* For every set of objects, whichever calls of the driver fail, those of   *)
(* the destructors included: an object that is being constructed or used has*)
(* its session, and the only sessions that outlive their object are those   *)
(* whose own nvEncDestroyEncoder failed.                                    *)
THEOREM SessionsAreKept == SuiteSpec => []EncodersAreSound
<1>1. SuiteInit => EncoderInv
  BY DEF SuiteInit, Encoder!Init, EncoderInv, Encoder!SessionsAreOwned, Encoder!Holding
<1>2. EncoderInv => EncodersAreSound
  BY DEF EncoderInv, EncodersAreSound
<1> QED BY <1>1, <1>2, EncoderKeeps, PTL DEF SuiteSpec

-----------------------------------------------------------------------------
(* The stream.                                                              *)

(* What happens to the stream is a step of its module or nothing.           *)
LEMMA StreamStep ==
  [SuiteNext]_<<subject, vars, ButAllocator>> => [Stream!Next]_streamVars
  BY DEF SuiteNext, ButAllocator, streamVars, ButBook, ButEngine, ButParser, ButFraud, ButLedger, ButEncoder

(* What its constants may be.                                               *)
LEMMA StreamConstants == "nobody" \notin Processes
  BY HistoriesAssumption DEF Stream!StreamAssumption, Stream!NoOwner

(* What the processes and the broker hold.                                  *)
StreamTypes ==
  /\ produced \in Nat /\ committed \in Nat /\ output \in Seq(Nat) /\ epoch \in Nat
  /\ txn \in Seq(Nat) /\ txnOffset \in Nat /\ errors \in Nat
  /\ pc \in [Processes -> {"off", "poll", "send", "offsets", "commit"}]
  /\ position \in [Processes -> Nat] /\ myEpoch \in [Processes -> Nat]
  /\ records \in [Processes -> Seq(Nat)]

(* An epoch is handed out once, and the present one is the largest.         *)
Epochs ==
  \A p \in Processes :
    /\ myEpoch[p] <= epoch /\ (pc[p] # "off" => myEpoch[p] > 0)
    /\ \A q \in Processes : myEpoch[p] = myEpoch[q] /\ myEpoch[p] > 0 => p = q

(* Position n is where the output ends; it may be beyond after failed polls *)
(* and, at the end of the log, before the first commit.                     *)
Follows(n) == n >= committed /\ (errors = 0 /\ committed # 0 => n = committed)

(* A process holds the records from the position on.                        *)
Batch(p) ==
  LET n == Len(records[p])
  IN  /\ n > 0 /\ position[p] - n \in Nat /\ Follows(position[p] - n)
      /\ \A k \in 1..n : records[p][k] = position[p] - n + k

(* What the process with the present epoch knows at each of its steps.      *)
Current(p) ==
  /\ pc[p] = "poll" => txn = <<>> /\ (owner = p => Follows(position[p]))
  /\ pc[p] = "send" => txn = <<>> /\ Batch(p)
  /\ pc[p] \in {"offsets", "commit"} => txn = records[p] /\ Batch(p)
  /\ pc[p] = "commit" => txnOffset = position[p]

(* The output holds the committed records, once each and in order.          *)
Delivered ==
  /\ Stream!OutputMatchesOffset /\ Stream!NoLossWithoutErrors
  /\ \A k \in 1..Len(output) : output[k] \in 1..committed

(* The inductive invariant: the process that has the present epoch knows    *)
(* the truth; of the others nothing is needed, since the broker fences      *)
(* them.                                                                    *)
StreamInv ==
  /\ StreamTypes /\ Epochs /\ Delivered
  /\ \A p \in Processes : pc[p] # "off" /\ myEpoch[p] = epoch => Current(p)

(* What a process knows stays true when others move.                        *)
LEMMA CurrentSame ==
  ASSUME StreamTypes, StreamTypes', NEW p \in Processes, Current(p),
         UNCHANGED <<committed, errors, txn, txnOffset>>,
         pc'[p] = pc[p], position'[p] = position[p], records'[p] = records[p],
         owner' = p => owner = p
  PROVE  Current(p)'
  BY DEF Current, Batch, Follows

(* Only one process has the present epoch.                                  *)
LEMMA OneCurrent ==
  ASSUME Epochs, StreamTypes, NEW p \in Processes, NEW q \in Processes,
         pc[p] # "off", myEpoch[p] = epoch, pc[q] # "off", myEpoch[q] = epoch
  PROVE  p = q
  BY DEF Epochs, StreamTypes

(* The output stays right when it does not change.                          *)
LEMMA DeliveredSame ==
  ASSUME Delivered, UNCHANGED <<committed, output>>, StreamTypes, errors' = 0 => errors = 0
  PROVE  Delivered'
  BY DEF Delivered, Stream!OutputMatchesOffset, Stream!NoDuplicates, Stream!OffsetsWithRecords,
         Stream!NoLossWithoutErrors, Stream!NoLoss

(* A commit appends exactly the records up to its offset.                   *)
LEMMA CommitDelivers ==
  ASSUME StreamTypes, Delivered, NEW p \in Processes, Current(p), pc[p] = "commit",
         committed' = txnOffset, output' = output \o txn, UNCHANGED errors
  PROVE  Delivered'
<1> DEFINE n == Len(records[p])
           b == position[p] - n
           m == Len(output)
<1>1. /\ txn = records[p] /\ txnOffset = position[p]
      /\ n > 0 /\ b \in Nat /\ Follows(b) /\ \A k \in 1..n : records[p][k] = b + k
  BY DEF Current, Batch
<1>2. n \in Nat /\ m \in Nat /\ committed' = b + n /\ committed \in Nat /\ position[p] \in Nat
  BY <1>1 DEF StreamTypes
<1>3. /\ Len(output') = m + n
      /\ \A k \in 1..(m + n) : output'[k] = IF k <= m THEN output[k] ELSE records[p][k - m]
  BY <1>1 DEF StreamTypes
<1>4. b >= committed /\ (errors = 0 /\ committed # 0 => b = committed)
  BY <1>1 DEF Follows
<1> HIDE DEF n, b, m
<1>0. n \in Nat /\ n > 0 /\ b \in Nat /\ m \in Nat /\ committed' = b + n /\ Len(output') = m + n
  BY <1>1, <1>2, <1>3
<1>5. ASSUME NEW k \in 1..m PROVE output'[k] = output[k] /\ output'[k] \in 1..committed /\ k \in 1..(m + n)
  <2>1. output'[k] = output[k]
    BY <1>2, <1>3
  <2>2. output[k] \in 1..committed
    BY DEF Delivered, m
  <2> QED BY <1>2, <2>1, <2>2
<1>6. ASSUME NEW k \in (m + 1)..(m + n) PROVE output'[k] = b + (k - m)
  <2>1. k \in 1..(m + n) /\ ~(k <= m) /\ k - m \in 1..n
    BY <1>2
  <2>2. output'[k] = records[p][k - m]
    BY <1>3, <2>1
  <2> QED BY <1>1, <2>1, <2>2
<1>7. \A k \in 1..Len(output') : k \in 1..m \/ k \in (m + 1)..(m + n)
  BY <1>2, <1>3
<1>8. ASSUME NEW k \in 1..Len(output') PROVE output'[k] \in 1..committed'
  <2>1. CASE k \in 1..m
    BY <1>1, <1>2, <1>4, <1>5, <2>1, SMTT(60)
  <2>2. CASE k \in (m + 1)..(m + n)
    <3>1. output'[k] = b + (k - m)
      BY <1>6, <2>2
    <3>2. k - m \in 1..n
      BY <1>0, <2>2
    <3>3. b + (k - m) \in 1..(b + n)
      BY <1>0, <3>2
    <3> QED BY <1>0, <3>1, <3>3
  <2> QED BY <1>7, <2>1, <2>2
<1>9. ASSUME NEW j \in 1..Len(output'), NEW k \in 1..Len(output'), j < k PROVE output'[j] < output'[k]
  <2>1. CASE k \in 1..m
    <3>1. j \in 1..m
      BY <1>2, <1>9, <2>1
    <3>2. output[j] < output[k]
      BY <1>9, <2>1, <3>1 DEF Delivered, Stream!OutputMatchesOffset, Stream!NoDuplicates, m
    <3> QED BY <1>5, <2>1, <3>1, <3>2
  <2>2. CASE k \in (m + 1)..(m + n) /\ j \in 1..m
    <3>1. output'[k] = b + (k - m) /\ output'[j] \in 1..committed
      BY <1>5, <1>6, <2>2
    <3>2. committed \in Nat /\ \A x \in 1..committed : x < b + (k - m)
      BY <1>0, <1>2, <1>4, <2>2
    <3> QED BY <3>1, <3>2
  <2>3. CASE k \in (m + 1)..(m + n) /\ j \in (m + 1)..(m + n)
    <3>1. output'[k] = b + (k - m) /\ output'[j] = b + (j - m)
      BY <1>6, <2>3
    <3> QED BY <1>1, <1>2, <1>9, <2>3, <3>1
  <2> QED BY <1>7, <2>1, <2>2, <2>3
<1>10. output' # <<>> /\ committed' = output'[Len(output')]
  <2>1. Len(output') \in (m + 1)..(m + n)
    BY <1>1, <1>2, <1>3
  <2>2. output'[Len(output')] = b + (Len(output') - m)
    BY <1>6, <2>1
  <2>3. output' # <<>>
    BY <1>1, <1>2, <1>3
  <2>4. (m + n) - m = n
    BY <1>0
  <2>5. output'[Len(output')] = b + n
    BY <1>0, <2>2, <2>4
  <2> QED BY <1>0, <2>3, <2>5
<1>11. ASSUME errors' = 0, NEW r \in output'[1]..committed' PROVE \E k \in 1..Len(output') : output'[k] = r
  <2>0. m > 0 => (committed # 0 /\ b = committed /\ output'[1] = output[1] /\ output[1] \in 1..committed)
    <3> SUFFICES ASSUME m > 0 PROVE committed # 0 /\ b = committed /\ output'[1] = output[1]
                                    /\ output[1] \in 1..committed
      OBVIOUS
    <3>1. 1 \in 1..m
      BY <1>0
    <3>2. output'[1] = output[1] /\ output[1] \in 1..committed
      BY <1>5, <3>1
    <3> QED BY <1>2, <1>4, <1>11, <3>2
  <2>1. CASE m > 0 /\ r \in output[1]..committed
    <3>0. output # <<>>
      BY <2>1 DEF m
    <3>1. PICK k \in 1..m : output[k] = r
      BY <1>11, <2>1, <3>0 DEF Delivered, Stream!NoLossWithoutErrors, Stream!NoLoss, m
    <3> QED BY <1>3, <1>5, <3>1
  <2>2. CASE r \in (b + 1)..(b + n)
    <3> DEFINE k == m + (r - b)
    <3>1. k \in (m + 1)..(m + n) /\ b + (k - m) = r
      BY <1>0, <2>2
    <3>2. k \in 1..Len(output')
      BY <1>0, <3>1
    <3> HIDE DEF k
    <3> QED BY <1>6, <3>1, <3>2
  <2>3. r \in (b + 1)..(b + n) \/ (m > 0 /\ r \in output[1]..committed)
    <3>1. CASE m > 0
      <4> DEFINE o == output[1]
      <4>1. r \in o..(b + n) /\ o \in 1..committed /\ b = committed
        BY <1>0, <1>11, <2>0, <3>1
      <4>2. r \in o..committed \/ r \in (b + 1)..(b + n)
        <5> HIDE DEF o
        <5> QED BY <1>0, <1>2, <4>1
      <4> QED BY <3>1, <4>2
    <3>2. CASE m = 0
      <4>1. 1 \in (m + 1)..(m + n) /\ b + (1 - m) = b + 1
        BY <1>0, <3>2
      <4>2. output'[1] = b + 1
        BY <1>6, <4>1
      <4>3. r \in (b + 1)..(b + n)
        BY <1>0, <1>11, <4>2
      <4> QED BY <4>3
    <3> QED BY <1>0, <3>1, <3>2
  <2> QED BY <2>1, <2>2, <2>3
<1> QED BY <1>8, <1>9, <1>10, <1>11
        DEF Delivered, Stream!OutputMatchesOffset, Stream!NoDuplicates, Stream!OffsetsWithRecords,
            Stream!NoLossWithoutErrors, Stream!NoLoss

(* Every step of a process, of the broker or of the network keeps the       *)
(* invariant.                                                               *)
LEMMA StreamKeeps == StreamInv /\ [SuiteNext]_<<subject, vars, ButAllocator>> => StreamInv'
<1> SUFFICES ASSUME StreamInv, [Stream!Next]_streamVars PROVE StreamInv'
  BY StreamStep
<1> USE DEF Stream!Goto, Stream!InTransaction, Stream!Fenced, Stream!kafka
<1>0. /\ StreamTypes /\ Epochs /\ Delivered
      /\ \A p \in Processes : pc[p] # "off" /\ myEpoch[p] = epoch => Current(p)
  BY DEF StreamInv
<1>a. ASSUME NEW p \in Processes, NEW q \in Processes, q # p, pc[p] # "off", myEpoch[p] = epoch,
             pc'[q] = pc[q], UNCHANGED <<epoch, myEpoch>>
      PROVE  ~(pc'[q] # "off" /\ myEpoch'[q] = epoch')
  BY <1>0, <1>a, OneCurrent
<1>1. ASSUME NEW p \in Processes, Stream!Start(p) PROVE StreamInv'
  <2>1. /\ pc' = [pc EXCEPT ![p] = "poll"] /\ epoch' = epoch + 1 /\ myEpoch' = [myEpoch EXCEPT ![p] = epoch + 1]
        /\ txn' = <<>> /\ txnOffset' = 0 /\ owner' # p /\ UNCHANGED <<produced, committed, output, position, records, errors>>
    BY <1>1, StreamConstants DEF Stream!Start, Stream!InitTransactions, Stream!NoOwner
  <2>2. StreamTypes'
    BY <1>0, <2>1 DEF StreamTypes
  <2>3. Epochs'
    BY <1>0, <2>1, SMTT(60) DEF Epochs, StreamTypes
  <2>4. Delivered'
    BY <1>0, <2>1, DeliveredSame
  <2>5. ASSUME NEW q \in Processes, pc'[q] # "off", myEpoch'[q] = epoch' PROVE Current(q)'
    <3>1. q = p
      BY <1>0, <2>1, <2>5 DEF Epochs, StreamTypes
    <3> QED BY <1>0, <2>1, <3>1 DEF Current, StreamTypes
  <2> QED BY <2>2, <2>3, <2>4, <2>5 DEF StreamInv
<1>2. ASSUME NEW p \in Processes, Stream!Assign(p) PROVE StreamInv'
  <2> DEFINE start == IF committed = 0 THEN produced ELSE committed
  <2>1. /\ pc[p] = "poll" /\ owner' = p /\ position' = [position EXCEPT ![p] = start]
        /\ UNCHANGED <<produced, committed, output, epoch, txn, txnOffset, pc, myEpoch, records, errors>>
    BY <1>2 DEF Stream!Assign, Stream!StartOffset
  <2>a. start \in Nat /\ Follows(start)
    BY <1>0 DEF StreamTypes, Follows
  <2> HIDE DEF start
  <2>2. StreamTypes'
    BY <1>0, <2>1, <2>a DEF StreamTypes
  <2>3. Epochs'
    BY <1>0, <2>1 DEF Epochs
  <2>4. Delivered'
    BY <1>0, <2>1, DeliveredSame
  <2>5. ASSUME NEW q \in Processes, pc'[q] # "off", myEpoch'[q] = epoch' PROVE Current(q)'
    <3>0. Current(q)
      BY <1>0, <2>1, <2>5
    <3>1. CASE q = p
      <4>1. position'[p] = start /\ UNCHANGED <<pc, committed, errors, txn, txnOffset>>
        BY <1>0, <2>1 DEF StreamTypes
      <4>2. Follows(position[p])'
        BY <2>a, <4>1 DEF Follows
      <4> QED BY <2>1, <3>0, <3>1, <4>1, <4>2 DEF Current
    <3>2. CASE q # p
      <4>1. position'[q] = position[q]
        BY <1>0, <2>1, <3>2 DEF StreamTypes
      <4> QED BY <1>0, <2>1, <2>2, <3>0, <3>2, <4>1, CurrentSame
    <3> QED BY <3>1, <3>2
  <2> QED BY <2>2, <2>3, <2>4, <2>5 DEF StreamInv
<1>3. ASSUME NEW p \in Processes, Stream!Poll(p) PROVE StreamInv'
  <2>0. PICK n \in 1..MaxPoll :
          /\ records' = [records EXCEPT ![p] = [k \in 1..n |-> position[p] + k]]
          /\ position' = [position EXCEPT ![p] = position[p] + n]
    BY <1>3 DEF Stream!Poll
  <2>1. /\ pc[p] = "poll" /\ owner = p /\ pc' = [pc EXCEPT ![p] = "send"]
        /\ UNCHANGED <<produced, committed, output, epoch, txn, txnOffset, owner, myEpoch, errors>>
    BY <1>3 DEF Stream!Poll
  <2>a. MaxPoll \in Nat /\ n \in Nat /\ n > 0 /\ position[p] \in Nat
    BY <1>0, HistoriesAssumption DEF StreamTypes, Stream!StreamAssumption
  <2> DEFINE batch == [k \in 1..n |-> position[p] + k]
  <2>b. batch \in Seq(Nat) /\ Len(batch) = n /\ \A k \in 1..n : batch[k] = position[p] + k
    BY <2>a
  <2>c. records' = [records EXCEPT ![p] = batch]
    BY <2>0
  <2> HIDE DEF batch
  <2>2. StreamTypes'
    BY <1>0, <2>0, <2>1, <2>a, <2>b, <2>c, SMTT(60) DEF StreamTypes
  <2>3. Epochs'
    BY <1>0, <2>1 DEF Epochs, StreamTypes
  <2>4. Delivered'
    BY <1>0, <2>1, DeliveredSame
  <2>5. ASSUME NEW q \in Processes, pc'[q] # "off", myEpoch'[q] = epoch' PROVE Current(q)'
    <3>1. CASE q = p
      <4>1. Current(p)
        BY <1>0, <2>1, <2>5, <3>1
      <4>2. txn = <<>> /\ Follows(position[p])
        BY <2>1, <4>1 DEF Current
      <4>3. /\ records'[p] = batch /\ position'[p] = position[p] + n /\ pc'[p] = "send"
            /\ position'[p] - n = position[p]
        BY <1>0, <2>0, <2>1, <2>a, <2>c DEF StreamTypes
      <4>4. Batch(p)'
        BY <2>1, <2>a, <2>b, <4>2, <4>3 DEF Batch, Follows
      <4> QED BY <2>1, <3>1, <4>2, <4>3, <4>4 DEF Current
    <3>2. CASE q # p
      <4>1. /\ position'[q] = position[q] /\ records'[q] = records[q] /\ pc'[q] = pc[q]
        BY <1>0, <2>0, <2>1, <3>2 DEF StreamTypes
      <4> QED BY <1>0, <2>1, <2>2, <2>5, <4>1, CurrentSame
    <3> QED BY <3>1, <3>2
  <2> QED BY <2>2, <2>3, <2>4, <2>5 DEF StreamInv
<1>4. ASSUME NEW p \in Processes, Stream!SendRecords(p) PROVE StreamInv'
  <2>1. /\ pc[p] = "send" /\ myEpoch[p] = epoch /\ txn' = txn \o records[p] /\ pc' = [pc EXCEPT ![p] = "offsets"]
        /\ UNCHANGED <<produced, committed, output, epoch, txnOffset, owner, position, myEpoch, records, errors>>
    BY <1>4 DEF Stream!SendRecords
  <2>0. Current(p) /\ txn = <<>> /\ Batch(p) /\ records[p] \in Seq(Nat)
    BY <1>0, <2>1 DEF Current, StreamTypes
  <2>2. txn' = records[p]
    BY <2>0, <2>1
  <2>3. StreamTypes'
    BY <1>0, <2>0, <2>1, <2>2 DEF StreamTypes
  <2>4. Epochs' /\ Delivered'
    <3>1. Epochs'
      BY <1>0, <2>1 DEF Epochs, StreamTypes
    <3> QED BY <1>0, <2>1, <3>1, DeliveredSame
  <2>5. ASSUME NEW q \in Processes, pc'[q] # "off", myEpoch'[q] = epoch' PROVE Current(q)'
    <3>1. q = p
      BY <1>0, <1>a, <2>1, <2>5 DEF StreamTypes
    <3>2. pc'[p] = "offsets" /\ Batch(p)'
      BY <1>0, <2>0, <2>1 DEF StreamTypes, Batch, Follows
    <3> QED BY <2>1, <2>2, <3>1, <3>2 DEF Current
  <2> QED BY <2>3, <2>4, <2>5 DEF StreamInv
<1>5. ASSUME NEW p \in Processes, Stream!SendOffsets(p) PROVE StreamInv'
  <2>1. /\ pc[p] = "offsets" /\ myEpoch[p] = epoch /\ txnOffset' = records[p][Len(records[p])]
        /\ pc' = [pc EXCEPT ![p] = "commit"]
        /\ UNCHANGED <<produced, committed, output, epoch, txn, owner, position, myEpoch, records, errors>>
    BY <1>5 DEF Stream!SendOffsets, Stream!LastOffset
  <2>0. Current(p) /\ txn = records[p] /\ Batch(p) /\ records[p] \in Seq(Nat) /\ position[p] \in Nat
    BY <1>0, <2>1 DEF Current, StreamTypes
  <2>2. txnOffset' = position[p]
    <3> DEFINE n == Len(records[p])
    <3>1. n \in Nat /\ n > 0 /\ position[p] - n \in Nat /\ \A k \in 1..n : records[p][k] = position[p] - n + k
      BY <2>0 DEF Batch
    <3>2. txnOffset' = records[p][n]
      BY <2>1
    <3> HIDE DEF n
    <3>3. n \in 1..n
      BY <3>1
    <3>4. records[p][n] = position[p] - n + n
      BY <3>1, <3>3
    <3>5. position[p] - n + n = position[p]
      BY <2>0, <3>1
    <3> QED BY <3>2, <3>4, <3>5
  <2>3. StreamTypes'
    BY <1>0, <2>0, <2>1, <2>2 DEF StreamTypes
  <2>4. Epochs' /\ Delivered'
    <3>1. Epochs'
      BY <1>0, <2>1 DEF Epochs, StreamTypes
    <3> QED BY <1>0, <2>1, <3>1, DeliveredSame
  <2>5. ASSUME NEW q \in Processes, pc'[q] # "off", myEpoch'[q] = epoch' PROVE Current(q)'
    <3>1. q = p
      BY <1>0, <1>a, <2>1, <2>5 DEF StreamTypes
    <3>2. pc'[p] = "commit" /\ Batch(p)'
      BY <1>0, <2>0, <2>1 DEF StreamTypes, Batch, Follows
    <3> QED BY <2>0, <2>1, <2>2, <3>1, <3>2 DEF Current
  <2> QED BY <2>3, <2>4, <2>5 DEF StreamInv
<1>6. ASSUME NEW p \in Processes, Stream!Commit(p) PROVE StreamInv'
  <2>1. /\ pc[p] = "commit" /\ myEpoch[p] = epoch /\ committed' = txnOffset /\ output' = output \o txn
        /\ txn' = <<>> /\ txnOffset' = 0 /\ pc' = [pc EXCEPT ![p] = "poll"]
        /\ UNCHANGED <<produced, epoch, owner, position, myEpoch, records, errors>>
    BY <1>6 DEF Stream!Commit, Stream!ApplyTransaction
  <2>0. Current(p) /\ txnOffset = position[p] /\ position[p] \in Nat
    BY <1>0, <2>1 DEF Current, StreamTypes
  <2>2. StreamTypes'
    BY <1>0, <2>1 DEF StreamTypes
  <2>3. Epochs'
    BY <1>0, <2>1 DEF Epochs, StreamTypes
  <2>4. Delivered'
    BY <1>0, <2>0, <2>1, CommitDelivers
  <2>5. ASSUME NEW q \in Processes, pc'[q] # "off", myEpoch'[q] = epoch' PROVE Current(q)'
    <3>1. q = p
      BY <1>0, <1>a, <2>1, <2>5 DEF StreamTypes
    <3>2. pc'[p] = "poll" /\ Follows(position[p])'
      BY <1>0, <2>0, <2>1 DEF StreamTypes, Follows
    <3> QED BY <2>1, <3>1, <3>2 DEF Current
  <2> QED BY <2>2, <2>3, <2>4, <2>5 DEF StreamInv
<1>7. ASSUME NEW p \in Processes, Stream!ShutDownFenced(p) \/ Stream!Crash(p) PROVE StreamInv'
  <2>1. /\ pc' = [pc EXCEPT ![p] = "off"]
        /\ UNCHANGED <<produced, committed, output, epoch, txn, txnOffset, owner, position, myEpoch, records, errors>>
    BY <1>7 DEF Stream!ShutDownFenced, Stream!Crash
  <2>2. StreamTypes'
    BY <1>0, <2>1 DEF StreamTypes
  <2>3. Epochs'
    BY <1>0, <2>1 DEF Epochs, StreamTypes
  <2>4. Delivered'
    BY <1>0, <2>1, DeliveredSame
  <2>5. ASSUME NEW q \in Processes, pc'[q] # "off", myEpoch'[q] = epoch' PROVE Current(q)'
    <3>1. pc'[q] = pc[q]
      BY <1>0, <2>1, <2>5 DEF StreamTypes
    <3> QED BY <1>0, <2>1, <2>2, <2>5, <3>1, CurrentSame
  <2> QED BY <2>2, <2>3, <2>4, <2>5 DEF StreamInv
<1>8. ASSUME NEW p \in Processes, Stream!TransientError(p) PROVE StreamInv'
  <2>1. /\ pc[p] \in {"send", "offsets", "commit"} /\ myEpoch[p] = epoch /\ errors' = errors + 1
        /\ txn' = <<>> /\ txnOffset' = 0 /\ pc' = [pc EXCEPT ![p] = "poll"]
        /\ UNCHANGED <<produced, committed, output, epoch, owner, position, myEpoch, records>>
    BY <1>8 DEF Stream!TransientError
  <2>0. Current(p) /\ Batch(p) /\ position[p] \in Nat /\ records[p] \in Seq(Nat) /\ errors \in Nat
    BY <1>0, <2>1 DEF Current, StreamTypes
  <2>2. StreamTypes'
    BY <1>0, <2>1 DEF StreamTypes
  <2>3. Epochs'
    BY <1>0, <2>1 DEF Epochs, StreamTypes
  <2>4. Delivered'
    BY <1>0, <2>0, <2>1, DeliveredSame
  <2>5. ASSUME NEW q \in Processes, pc'[q] # "off", myEpoch'[q] = epoch' PROVE Current(q)'
    <3>1. q = p
      BY <1>0, <1>a, <2>1, <2>5 DEF StreamTypes
    <3>2. position[p] >= committed
      BY <1>0, <2>0, SMTT(60) DEF Batch, Follows, StreamTypes
    <3>3. pc'[p] = "poll" /\ Follows(position[p])'
      BY <1>0, <2>0, <2>1, <3>2 DEF StreamTypes, Follows
    <3> QED BY <2>1, <3>1, <3>3 DEF Current
  <2> QED BY <2>2, <2>3, <2>4, <2>5 DEF StreamInv
<1>9. CASE Stream!Produce
  <2>1. /\ produced' = produced + 1
        /\ UNCHANGED <<committed, output, epoch, txn, txnOffset, owner, pc, position, myEpoch, records, errors>>
    BY <1>9 DEF Stream!Produce
  <2>2. StreamTypes'
    BY <1>0, <2>1 DEF StreamTypes
  <2>3. Epochs'
    BY <1>0, <2>1 DEF Epochs
  <2>4. Delivered'
    BY <1>0, <2>1, DeliveredSame
  <2>5. ASSUME NEW q \in Processes, pc'[q] # "off", myEpoch'[q] = epoch' PROVE Current(q)'
    BY <1>0, <2>1, <2>2, <2>5, CurrentSame
  <2> QED BY <2>2, <2>3, <2>4, <2>5 DEF StreamInv
<1>10. CASE UNCHANGED streamVars
  BY <1>10, <1>0 DEF streamVars, StreamInv, StreamTypes, Epochs, Delivered, Current, Batch, Follows,
     Stream!OutputMatchesOffset, Stream!NoDuplicates, Stream!OffsetsWithRecords, Stream!NoLossWithoutErrors, Stream!NoLoss
<1> QED BY <1>1, <1>2, <1>3, <1>4, <1>5, <1>6, <1>7, <1>8, <1>9, <1>10 DEF Stream!Next

(* For every number of records and processes, and wherever a group without a*)
(* committed offset is made to start: nothing is delivered twice or out of  *)
(* order, and behind the first record delivered nothing is left out unless a*)
(* batch was aborted.                                                       *)
THEOREM StreamDeliversOnce == SuiteSpec => []StreamIsExact
<1>1. SuiteInit => StreamInv
  BY DEF SuiteInit, Stream!Init, StreamInv, StreamTypes, Epochs, Delivered, Current, Batch, Follows,
     Stream!OutputMatchesOffset, Stream!NoDuplicates, Stream!OffsetsWithRecords, Stream!NoLossWithoutErrors, Stream!NoLoss
<1>2. StreamInv => StreamIsExact
  BY DEF StreamInv, Delivered, StreamIsExact
<1> QED BY <1>1, <1>2, StreamKeeps, PTL DEF SuiteSpec

-----------------------------------------------------------------------------
(* The fraud detector.                                                      *)

(* What happens to the detector is a step of its module or nothing.         *)
LEMMA FraudStep ==
  [SuiteNext]_<<subject, vars, ButAllocator>> => [Fraud!Next]_fraudVars
  BY DEF SuiteNext, ButAllocator, fraudVars, ButBook, ButEngine, ButParser, ButStream, ButLedger, ButEncoder

(* What its constants may be.                                               *)
LEMMA FraudConstants == Window \in Nat /\ MaxTime \in Nat
  BY HistoriesAssumption DEF Fraud!FraudAssumption

(* The events, as far as their fields are numbers and truth values.         *)
Entries == [amount : {"small", "massive", "normal"}, time : Nat, watermark : Nat, alert : BOOLEAN]

(* A run of small transactions, from its first one to the last event.       *)
RunSince(k) ==
  /\ Fraud!SmallFrom(k, Len(log) + 1) /\ (k > 1 => log[k - 1].amount # "small")

(* The flag is up since some transaction of the present run.                *)
RaisedAt(k) ==
  /\ timerState = log[k].time + Window /\ Fraud!SmallFrom(k, Len(log) + 1)
  /\ (timerState > watermark \/ log[k].watermark = watermark)

(* The inductive invariant: a raised flag has its small transaction in the  *)
(* log and its timer, and every entry was judged as the log before it says. *)
FraudInv ==
  /\ flagState \in BOOLEAN /\ watermark \in Nat /\ log \in Seq(Entries)
  /\ timers = IF flagState THEN {timerState} ELSE {}
  /\ flagState => \E k \in 1..Len(log) : RaisedAt(k)
  /\ \A k \in 1..Len(log) :
       RunSince(k) /\ watermark < log[k].time + Window
         => flagState /\ timerState = log[k].time + Window
  /\ Fraud!NoneMissed /\ Fraud!NoFalseAlert

(* What appending an entry does to the log.                                 *)
LEMMA LogGrows ==
  ASSUME log \in Seq(Entries), NEW e \in Entries, log' = Append(log, e)
  PROVE  /\ Len(log') = Len(log) + 1 /\ Len(log) \in Nat
         /\ log'[Len(log) + 1] = e
         /\ \A k \in 1..Len(log) : log'[k] = log[k]
         /\ log' \in Seq(Entries)
  OBVIOUS

(* processElement keeps the invariant, in whatever order events arrive.     *)
LEMMA ProcessKeeps ==
  ASSUME FraudInv, NEW amount \in {"small", "massive", "normal"}, NEW time \in Nat,
         Fraud!processElement(amount, time)
  PROVE  FraudInv'
<1> DEFINE n == Len(log)
           e == [amount |-> amount, time |-> time, watermark |-> watermark,
                 alert |-> flagState /\ amount = "massive"]
<1>1. /\ e \in Entries /\ e.amount = amount /\ e.time = time /\ e.watermark = watermark
      /\ e.alert = (flagState /\ amount = "massive")
  <2>1. (flagState /\ amount = "massive") \in BOOLEAN /\ watermark \in Nat
    BY DEF FraudInv
  <2> QED BY <2>1, Zenon DEF Entries
<1>2. log' = Append(log, e) /\ watermark' = watermark
  BY DEF Fraud!processElement
<1> HIDE DEF e
<1>3. /\ Len(log') = n + 1 /\ n \in Nat /\ log'[n + 1] = e /\ \A k \in 1..n : log'[k] = log[k]
      /\ log' \in Seq(Entries)
  BY <1>1, <1>2, LogGrows DEF FraudInv
<1>4. ASSUME NEW j \in 1..(n + 1), NEW k \in Nat, k > 0
      PROVE  Fraud!SmallFrom(k, j)' <=> Fraud!SmallFrom(k, j)
  <2>1. k..(j - 1) \subseteq 1..n
    BY <1>3, <1>4
  <2>2. \A x \in k..(j - 1) : log'[x] = log[x]
    BY <1>3, <2>1
  <2> QED BY <2>2 DEF Fraud!SmallFrom
<1>5. ASSUME NEW k \in 1..(n + 1)
      PROVE  Fraud!SmallFrom(k, Len(log) + 1)' <=> Fraud!SmallFrom(k, n + 1) /\ amount = "small"
  <2>0. Len(log') + 1 = (n + 1) + 1 /\ ((n + 1) + 1) - 1 = n + 1 /\ (n + 1) - 1 = n
    BY <1>3
  <2>1. k..(n + 1) = (k..n) \union {n + 1}
    BY <1>3
  <2>2. \A x \in k..n : log'[x] = log[x]
    BY <1>3
  <2>3. Fraud!SmallFrom(k, Len(log) + 1)' <=> \A x \in k..(n + 1) : log'[x].amount = "small"
    BY <2>0 DEF Fraud!SmallFrom
  <2>4. Fraud!SmallFrom(k, n + 1) <=> \A x \in k..n : log[x].amount = "small"
    BY <2>0 DEF Fraud!SmallFrom
  <2> QED BY <1>1, <1>3, <2>1, <2>2, <2>3, <2>4
<1>6. ASSUME flagState PROVE \E k \in 1..n : RaisedAt(k)
  BY <1>6 DEF FraudInv
<1>7. ASSUME flagState PROVE n > 0 /\ log[n].amount = "small"
  <2>1. PICK k \in 1..n : RaisedAt(k)
    BY <1>6, <1>7
  <2>2. n \in k..((n + 1) - 1) /\ n > 0
    BY <1>3
  <2> QED BY <2>1, <2>2 DEF RaisedAt, Fraud!SmallFrom
<1>8. Fraud!NoneMissed'
  <2> SUFFICES ASSUME NEW k \in 1..(n + 1), NEW j \in 1..(n + 1), k < j, Fraud!SmallFrom(k, j)',
                      k > 1 => log'[k - 1].amount # "small", log'[j].amount = "massive", Fraud!Open(k, j)'
               PROVE  log'[j].alert
    BY <1>3 DEF Fraud!NoneMissed
  <2>1. k \in 1..n /\ (k > 1 => k - 1 \in 1..n) /\ k \in Nat /\ k > 0
    BY <1>3
  <2>2. Fraud!SmallFrom(k, j) /\ (k > 1 => log[k - 1].amount # "small")
    BY <1>3, <1>4, <2>1
  <2>3. CASE j \in 1..n
    <3>1. log[j].amount = "massive" /\ Fraud!Open(k, j) /\ log'[j] = log[j]
      BY <1>3, <2>1, <2>3 DEF Fraud!Open
    <3> QED BY <2>1, <2>2, <2>3, <3>1 DEF FraudInv, Fraud!NoneMissed
  <2>4. CASE j = n + 1
    <3>1. RunSince(k)
      BY <2>2, <2>4 DEF RunSince
    <3>2. watermark < log[k].time + Window
      BY <1>1, <1>3, <2>1, <2>4 DEF Fraud!Open
    <3>3. flagState
      BY <2>1, <3>1, <3>2 DEF FraudInv
    <3> QED BY <1>1, <1>3, <2>4, <3>3
  <2> QED BY <1>3, <2>3, <2>4
<1>9. Fraud!NoFalseAlert'
  <2> SUFFICES ASSUME NEW j \in 1..(n + 1), log'[j].alert
               PROVE  /\ log'[j].amount = "massive"
                      /\ \E k \in 1..(j - 1) : /\ Fraud!SmallFrom(k, j)'
                                               /\ Fraud!Open(k, j)' \/ log'[k].watermark = log'[j].watermark
    BY <1>3 DEF Fraud!NoFalseAlert
  <2>1. ASSUME NEW k \in 1..(j - 1) PROVE k \in Nat /\ k > 0 /\ k \in 1..n
    BY <1>3
  <2>2. CASE j \in 1..n
    <3>1. log'[j] = log[j]
      BY <1>3, <2>2
    <3>2. log[j].amount = "massive"
      BY <2>2, <3>1 DEF FraudInv, Fraud!NoFalseAlert
    <3>3. PICK k \in 1..(j - 1) : Fraud!SmallFrom(k, j) /\ (Fraud!Open(k, j) \/ log[k].watermark = log[j].watermark)
      BY <2>2, <3>1 DEF FraudInv, Fraud!NoFalseAlert
    <3>4. log'[k] = log[k]
      BY <1>3, <2>1
    <3>5. Fraud!SmallFrom(k, j)' /\ (Fraud!Open(k, j)' \/ log'[k].watermark = log'[j].watermark)
      BY <1>4, <2>1, <3>1, <3>3, <3>4 DEF Fraud!Open
    <3> QED BY <3>1, <3>2, <3>5
  <2>3. CASE j = n + 1
    <3>1. flagState /\ log'[j].amount = "massive" /\ log'[j] = e
      BY <1>1, <1>3, <2>3
    <3>2. PICK k \in 1..n : RaisedAt(k)
      BY <1>6, <3>1
    <3>3. k \in 1..(j - 1) /\ log'[k] = log[k] /\ k \in Nat /\ k > 0
      BY <1>3, <2>3
    <3>4. Fraud!SmallFrom(k, j)'
      BY <1>4, <2>3, <3>2, <3>3 DEF RaisedAt
    <3>5. Fraud!Open(k, j)' \/ log'[k].watermark = log'[j].watermark
      BY <1>1, <3>1, <3>2, <3>3 DEF RaisedAt, Fraud!Open
    <3> QED BY <3>1, <3>3, <3>4, <3>5
  <2> QED BY <1>3, <2>2, <2>3
<1>10. ASSUME NEW k \in 1..(n + 1), RunSince(k)'
       PROVE  /\ amount = "small" /\ Fraud!SmallFrom(k, n + 1)
              /\ k \in 1..n => RunSince(k)
              /\ k = n + 1 => ~flagState
  <2>1. amount = "small" /\ Fraud!SmallFrom(k, n + 1) /\ (k > 1 => log'[k - 1].amount # "small")
    BY <1>5, <1>10 DEF RunSince
  <2>2. k > 1 => k - 1 \in 1..n /\ log'[k - 1] = log[k - 1]
    BY <1>3
  <2>3. k = n + 1 => ~flagState
    <3> SUFFICES ASSUME k = n + 1, flagState PROVE FALSE
      OBVIOUS
    <3>1. n > 0 /\ log[n].amount = "small" /\ k - 1 = n /\ k > 1
      BY <1>3, <1>7
    <3> QED BY <2>1, <2>2, <3>1
  <2> QED BY <2>1, <2>2, <2>3 DEF RunSince
<1>11. CASE amount = "small"
  <2>1. Fraud!setFlag(time)
    BY <1>11 DEF Fraud!processElement
  <2>2. CASE flagState
    <3>1. flagState' = flagState /\ timerState' = timerState /\ timers' = timers
      BY <2>1, <2>2 DEF Fraud!setFlag
    <3>2. PICK k \in 1..n : RaisedAt(k)
      BY <1>6, <2>2
    <3>3. k \in 1..(n + 1) /\ log'[k] = log[k]
      BY <1>3
    <3>4. RaisedAt(k)'
      BY <1>2, <1>5, <1>11, <3>1, <3>2, <3>3 DEF RaisedAt
    <3>5. ASSUME NEW m \in 1..(n + 1), RunSince(m)', watermark' < log'[m].time + Window
          PROVE  timerState' = log'[m].time + Window
      <4>1. m \in 1..n /\ RunSince(m)
        BY <1>3, <1>10, <2>2, <3>5
      <4> QED BY <1>2, <1>3, <3>1, <3>5, <4>1 DEF FraudInv
    <3>6. flagState' \in BOOLEAN /\ timers' = (IF flagState' THEN {timerState'} ELSE {}) /\ watermark' \in Nat
      BY <1>2, <3>1 DEF FraudInv
    <3>7. \A m \in 1..Len(log') : RunSince(m)' /\ watermark' < log'[m].time + Window
                                    => flagState' /\ timerState' = log'[m].time + Window
      BY <1>3, <2>2, <3>1, <3>5
    <3>8. \E m \in 1..Len(log') : RaisedAt(m)'
      BY <1>3, <3>3, <3>4
    <3> QED BY <1>3, <1>8, <1>9, <3>6, <3>7, <3>8 DEF FraudInv
  <2>3. CASE ~flagState
    <3>1. flagState' = TRUE /\ timerState' = time + Window /\ timers' = timers \union {time + Window}
      BY <2>1, <2>3 DEF Fraud!setFlag
    <3>2. timers' = {timerState'}
      BY <2>3, <3>1 DEF FraudInv
    <3>3. n + 1 \in 1..(n + 1)
      BY <1>3
    <3>4. Fraud!SmallFrom(n + 1, n + 1)
      BY <1>3 DEF Fraud!SmallFrom
    <3>5. PICK k \in 1..(n + 1) : k = n + 1
      BY <3>3
    <3>6. RaisedAt(k)'
      <4>1. Fraud!SmallFrom(k, Len(log) + 1)'
        BY <1>5, <1>11, <3>4, <3>5
      <4> QED BY <1>1, <1>2, <1>3, <3>1, <3>5, <4>1 DEF RaisedAt
    <3>7. ASSUME NEW m \in 1..(n + 1), RunSince(m)', watermark' < log'[m].time + Window
          PROVE  timerState' = log'[m].time + Window
      <4>1. CASE m \in 1..n
        BY <1>2, <1>3, <1>10, <2>3, <3>7, <4>1 DEF FraudInv
      <4>2. CASE m = n + 1
        BY <1>1, <1>3, <3>1, <4>2
      <4> QED BY <1>3, <4>1, <4>2
    <3>8. \A m \in 1..Len(log') : RunSince(m)' /\ watermark' < log'[m].time + Window
                                    => flagState' /\ timerState' = log'[m].time + Window
      BY <1>3, <3>1, <3>7
    <3>9. \E m \in 1..Len(log') : RaisedAt(m)'
      BY <1>3, <3>6
    <3>10. flagState' \in BOOLEAN /\ timers' = (IF flagState' THEN {timerState'} ELSE {}) /\ watermark' \in Nat
      BY <1>2, <3>1, <3>2 DEF FraudInv
    <3> QED BY <1>3, <1>8, <1>9, <3>8, <3>9, <3>10 DEF FraudInv
  <2> QED BY <2>2, <2>3
<1>12. CASE amount # "small"
  <2>1. flagState' = FALSE /\ timers' = {}
    <3>1. flagState \in BOOLEAN /\ timers = IF flagState THEN {timerState} ELSE {}
      BY DEF FraudInv
    <3>2. IF flagState THEN Fraud!cleanUp ELSE UNCHANGED <<flagState, timerState, timers>>
      BY <1>12 DEF Fraud!processElement, Fraud!processNormal
    <3> QED BY <3>1, <3>2 DEF Fraud!cleanUp
  <2>2. \A m \in 1..Len(log') : ~RunSince(m)'
    BY <1>3, <1>10, <1>12
  <2>3. watermark' \in Nat
    BY <1>2 DEF FraudInv
  <2> QED BY <1>3, <1>8, <1>9, <2>1, <2>2, <2>3 DEF FraudInv
<1> QED BY <1>11, <1>12

(* So does the timer, before or after the flag is raised again.             *)
LEMMA TimerKeeps ==
  ASSUME FraudInv, NEW w \in Nat, Fraud!onTimer(w)
  PROVE  FraudInv'
<1>1. w > watermark /\ watermark' = w /\ log' = log /\ timers' = {t \in timers : t > w}
  BY DEF Fraud!onTimer
<1>2. Fraud!NoneMissed' /\ Fraud!NoFalseAlert' /\ log' \in Seq(Entries) /\ watermark' \in Nat
  BY <1>1, SMTT(60) DEF FraudInv, Fraud!NoneMissed, Fraud!NoFalseAlert, Fraud!SmallFrom, Fraud!Open
<1>3. ASSUME NEW k PROVE RunSince(k)' <=> RunSince(k)
  BY <1>1 DEF RunSince, Fraud!SmallFrom
<1>4. ASSUME NEW k \in 1..Len(log) PROVE log[k].time + Window \in Nat
  <2>1. log[k] \in Entries
    BY DEF FraudInv
  <2>2. log[k].time \in Nat
    BY <2>1 DEF Entries
  <2> QED BY <2>2, FraudConstants
<1>5. CASE flagState /\ timerState > w
  <2>1. timers' = timers
    BY <1>1, <1>5 DEF FraudInv
  <2>2. flagState' = flagState /\ timerState' = timerState
    BY <2>1 DEF Fraud!onTimer
  <2>3. PICK k \in 1..Len(log) : RaisedAt(k)
    BY <1>5 DEF FraudInv
  <2>4. RaisedAt(k)'
    BY <1>1, <1>5, <2>2, <2>3 DEF RaisedAt, Fraud!SmallFrom
  <2>5. \A m \in 1..Len(log') : RunSince(m)' /\ watermark' < log'[m].time + Window
                                  => flagState' /\ timerState' = log'[m].time + Window
    <3> SUFFICES ASSUME NEW m \in 1..Len(log), RunSince(m), w < log[m].time + Window
                 PROVE  timerState = log[m].time + Window
      BY <1>1, <1>3, <1>5, <2>2
    <3>1. watermark < log[m].time + Window
      BY <1>1, <1>4 DEF FraudInv
    <3> QED BY <3>1 DEF FraudInv
  <2>6. flagState' \in BOOLEAN /\ timers' = (IF flagState' THEN {timerState'} ELSE {})
    BY <2>1, <2>2 DEF FraudInv
  <2>7. \E m \in 1..Len(log') : RaisedAt(m)'
    BY <1>1, <2>4
  <2> QED BY <1>2, <2>5, <2>6, <2>7 DEF FraudInv
<1>6. CASE ~(flagState /\ timerState > w)
  <2>1. timers' = {} /\ flagState' = FALSE
    <3>1. timers' = {}
      BY <1>1, <1>6 DEF FraudInv
    <3>2. CASE flagState
      <4>1. timers' # timers
        BY <3>1, <3>2 DEF FraudInv
      <4> QED BY <3>1, <4>1 DEF Fraud!onTimer
    <3>3. CASE ~flagState
      <4>1. flagState = FALSE
        BY <3>3 DEF FraudInv
      <4> QED BY <3>1, <4>1 DEF Fraud!onTimer
    <3> QED BY <3>2, <3>3
  <2>2. ASSUME NEW m \in 1..Len(log), RunSince(m), w < log[m].time + Window PROVE FALSE
    <3>1. watermark < log[m].time + Window
      BY <1>1, <1>4, <2>2 DEF FraudInv
    <3>2. flagState /\ timerState = log[m].time + Window
      BY <2>2, <3>1 DEF FraudInv
    <3> QED BY <1>4, <1>6, <2>2, <3>2
  <2> QED BY <1>1, <1>2, <1>3, <2>1, <2>2 DEF FraudInv
<1> QED BY <1>5, <1>6

(* Every step keeps the invariant.                                          *)
LEMMA FraudKeeps == FraudInv /\ [SuiteNext]_<<subject, vars, ButAllocator>> => FraudInv'
<1> SUFFICES ASSUME FraudInv, [Fraud!Next]_fraudVars PROVE FraudInv'
  BY FraudStep
<1>1. ASSUME NEW amount \in Fraud!Amounts, NEW time \in Fraud!Times, Fraud!processElement(amount, time) PROVE FraudInv'
  BY <1>1, ProcessKeeps, FraudConstants DEF Fraud!Amounts, Fraud!Times
<1>2. ASSUME NEW w \in 1..(MaxTime + Window), Fraud!onTimer(w) PROVE FraudInv'
  BY <1>2, TimerKeeps, FraudConstants
<1>3. CASE UNCHANGED fraudVars
  <2>1. flagState' = flagState /\ timerState' = timerState /\ timers' = timers
        /\ watermark' = watermark /\ log' = log
    BY <1>3 DEF fraudVars
  <2>2. Fraud!NoneMissed' <=> Fraud!NoneMissed
    BY <2>1, Zenon DEF Fraud!NoneMissed, Fraud!SmallFrom, Fraud!Open
  <2>3. Fraud!NoFalseAlert' <=> Fraud!NoFalseAlert
    BY <2>1, SMTT(60) DEF Fraud!NoFalseAlert, Fraud!SmallFrom, Fraud!Open
  <2>4. ASSUME NEW k PROVE (RaisedAt(k)' <=> RaisedAt(k)) /\ (RunSince(k)' <=> RunSince(k))
    BY <2>1, Zenon DEF RaisedAt, RunSince, Fraud!SmallFrom
  <2> QED BY <2>1, <2>2, <2>3, <2>4 DEF FraudInv
<1> QED BY <1>1, <1>2, <1>3 DEF Fraud!Next

(* For every window and any sequence of events and watermarks: a massive    *)
(* transaction raises an alert exactly when it follows a small one within   *)
(* the window.                                                              *)
THEOREM AlertsAreRight == SuiteSpec => []AlertsAreExact
<1>1. SuiteInit => FraudInv
  <2> SUFFICES ASSUME Fraud!Init PROVE FraudInv
    BY DEF SuiteInit
  <2>1. flagState = FALSE /\ timers = {} /\ watermark = 0 /\ log = <<>> /\ 1..Len(log) = {}
    BY DEF Fraud!Init
  <2>2. Fraud!NoneMissed /\ Fraud!NoFalseAlert
    BY <2>1 DEF Fraud!NoneMissed, Fraud!NoFalseAlert
  <2>3. log \in Seq(Entries)
    BY <2>1
  <2>4. timers = IF flagState THEN {timerState} ELSE {}
    BY <2>1
  <2> QED BY <2>1, <2>2, <2>3, <2>4, Zenon DEF FraudInv
<1>2. FraudInv => AlertsAreExact
  BY DEF FraudInv, AlertsAreExact, Fraud!AlertsAreExact
<1> QED BY <1>1, <1>2, FraudKeeps, PTL DEF SuiteSpec

-----------------------------------------------------------------------------
(* The ledger.                                                              *)

(* What happens to the ledger is a step of its module or nothing; the event *)
(* handlers of the others leave it alone.                                   *)
LEMMA LedgerStep ==
  [SuiteNext]_<<subject, vars, ButAllocator>> =>
    /\ subject' = subject
    /\ \/ UNCHANGED ledgerVars
       \/ subject = "ledger" /\ Ledger!Next
  BY DEF SuiteNext, ButAllocator, ledgerVars, ButBook, ButEngine, ButParser, ButStream, ButFraud, ButEncoder

(* What its constants may be.                                               *)
LEMMA LedgerConstants == Sums \subseteq Int /\ MaxVersion \in Nat /\ NoView \notin Withdrawals
  BY HistoriesAssumption DEF Ledger!LedgerAssumption

(* Events with the amounts and versions that the arithmetic needs.          *)
Accounts == [version : Int, active : BOOLEAN, balance : Int]
StoredEvents == [kind : {"opened", "deposited", "withdrawn"}, version : Int, amount : Int,
                 by : Withdrawals \union {NoView}]

(* ApplyEvent yields an account with the event's version.                   *)
LEMMA AppliedIsAccount ==
  ASSUME NEW a \in Accounts, NEW e \in StoredEvents
  PROVE  /\ Ledger!ApplyEvent(a, e) \in Accounts
         /\ Ledger!ApplyEvent(a, e).version = e.version
         /\ Ledger!ApplyEvent(a, e).active = (a.active \/ e.kind = "opened")
         /\ e.kind = "opened" => Ledger!ApplyEvent(a, e).balance = 0
         /\ e.kind = "deposited" => Ledger!ApplyEvent(a, e).balance = a.balance + e.amount
         /\ e.kind = "withdrawn" => Ledger!ApplyEvent(a, e).balance = a.balance - e.amount
<1>1. a.balance \in Int /\ a.active \in BOOLEAN
  BY DEF Accounts
<1>2. e.version \in Int /\ e.amount \in Int /\ e.kind \in {"opened", "deposited", "withdrawn"}
  BY DEF StoredEvents
<1> DEFINE c == CASE e.kind = "opened"    -> 0
                  [] e.kind = "deposited" -> a.balance + e.amount
                  [] e.kind = "withdrawn" -> a.balance - e.amount
           x == a.active \/ e.kind = "opened"
<1>3. /\ e.kind = "opened" => c = 0
      /\ e.kind = "deposited" => c = a.balance + e.amount
      /\ e.kind = "withdrawn" => c = a.balance - e.amount
  OBVIOUS
<1>4. c \in Int
  BY <1>1, <1>2, <1>3
<1>5. x \in BOOLEAN
  OBVIOUS
<1>6. Ledger!ApplyEvent(a, e) = [version |-> e.version, active |-> x, balance |-> c]
  BY DEF Ledger!ApplyEvent
<1> HIDE DEF c, x
<1>7. Ledger!ApplyEvent(a, e) \in Accounts
  <2>1. e.version \in Int
    BY <1>2
  <2> QED BY <2>1, <1>4, <1>5, <1>6 DEF Accounts
<1>8. Ledger!ApplyEvent(a, e).balance = c /\ Ledger!ApplyEvent(a, e).version = e.version /\ Ledger!ApplyEvent(a, e).active = x
  BY <1>6
<1> QED BY <1>3, <1>7, <1>8 DEF x

(* So does the constructor.                                                 *)
LEMMA NewIsAccount ==
  /\ Ledger!NewAggregate \in Accounts
  /\ Ledger!NewAggregate.balance = 0 /\ Ledger!NewAggregate.version = 0
  BY DEF Ledger!NewAggregate, Accounts

(* Rehydrate replays the events one by one.                                 *)
Replayed ==
  LET r == Ledger!Rehydrate IN
  /\ r \in [0..Len(store) -> Accounts] /\ r[0] = Ledger!NewAggregate
  /\ \A n \in 1..Len(store) : r[n] = Ledger!ApplyEvent(r[n - 1], store[n])

(* The recursive definition of Rehydrate defines that function.             *)
LEMMA Replay == store \in Seq(StoredEvents) => Replayed
<1> SUFFICES ASSUME store \in Seq(StoredEvents) PROVE Replayed
  OBVIOUS
<1> DEFINE m == Len(store)
           G == [x \in Nat \X Accounts |->
                   IF x[1] < m THEN Ledger!ApplyEvent(x[2], store[x[1] + 1]) ELSE x[2]]
<1>0. m \in Nat
  OBVIOUS
<1>1. G \in [Nat \X Accounts -> Accounts]
  <2> SUFFICES ASSUME NEW n \in Nat, NEW a \in Accounts, n < m
               PROVE  Ledger!ApplyEvent(a, store[n + 1]) \in Accounts
    OBVIOUS
  <2>1. store[n + 1] \in StoredEvents
    OBVIOUS
  <2> QED BY <2>1, AppliedIsAccount
<1>2. \A n \in Nat, a \in Accounts : n < m => G[<<n, a>>] = Ledger!ApplyEvent(a, store[n + 1])
  OBVIOUS
<1> HIDE DEF G
<1>3. PICK f \in [Nat -> Accounts] : f[0] = Ledger!NewAggregate /\ \A n \in Nat : f[n + 1] = G[<<n, f[n]>>]
  <2> DEFINE b == Ledger!NewAggregate
  <2>1. b \in Accounts
    BY NewIsAccount
  <2> HIDE DEF b
  <2>2. \E f \in [Nat -> Accounts] : Recurs(f, b, G)
    BY <1>1, <2>1, Recursion
  <2> QED BY <2>2 DEF b, Recurs
<1> DEFINE r == [n \in 0..m |-> f[n]]
<1>4. ASSUME NEW n \in 0..m
      PROVE  r[n] = IF n = 0 THEN Ledger!NewAggregate ELSE Ledger!ApplyEvent(r[n - 1], store[n])
  <2>1. CASE n = 0
    BY <1>3, <2>1
  <2>2. CASE n # 0
    <3>1. n - 1 \in Nat /\ n - 1 < m /\ n - 1 \in 0..m /\ n - 1 + 1 = n
      BY <1>0, <2>2
    <3>2. f[n] = Ledger!ApplyEvent(f[n - 1], store[n])
      BY <1>2, <1>3, <3>1
    <3> QED BY <2>2, <3>1, <3>2
  <2> QED BY <2>1, <2>2
<1>5. r \in [0..m -> Accounts] /\ r = [n \in 0..m |-> r[n]]
  OBVIOUS
<1> HIDE DEF r
<1>6. r = [n \in 0..m |-> IF n = 0 THEN Ledger!NewAggregate ELSE Ledger!ApplyEvent(r[n - 1], store[n])]
  BY <1>4, <1>5
<1> DEFINE R == Ledger!Rehydrate
<1>7. R = [n \in 0..m |-> IF n = 0 THEN Ledger!NewAggregate ELSE Ledger!ApplyEvent(R[n - 1], store[n])]
  BY <1>6 DEF Ledger!Rehydrate
<1> HIDE DEF R
<1>8. ASSUME NEW n \in 0..m PROVE R[n] = IF n = 0 THEN Ledger!NewAggregate ELSE Ledger!ApplyEvent(R[n - 1], store[n])
  BY <1>7
<1>9. \A n \in Nat : n <= m => R[n] = r[n]
  <2> DEFINE bad == {n \in Nat : n <= m /\ R[n] # r[n]}
  <2> SUFFICES ASSUME bad # {} PROVE FALSE
    OBVIOUS
  <2>1. PICK n \in bad : \A j \in bad : n <= j
    BY LeastNumber, bad \subseteq Nat
  <2>2. n \in 0..m
    BY <1>0, <2>1
  <2>3. n # 0
    BY <1>4, <1>8, <2>1, <2>2
  <2>4. n - 1 \in Nat /\ n - 1 <= m /\ ~(n <= n - 1)
    BY <1>0, <2>2, <2>3
  <2>5. R[n - 1] = r[n - 1]
    BY <2>1, <2>4
  <2> QED BY <1>4, <1>8, <2>1, <2>2, <2>3, <2>5
<1>10. R = r
  BY <1>0, <1>5, <1>7, <1>9
<1>11. R \in [0..m -> Accounts] /\ R[0] = Ledger!NewAggregate
  BY <1>0, <1>5, <1>8, <1>10
<1>12. \A n \in 1..m : R[n] = Ledger!ApplyEvent(R[n - 1], store[n])
  BY <1>0, <1>8
<1> QED BY <1>11, <1>12 DEF Replayed, R

(* A new event does not change what the events before it rebuild.           *)
LEMMA ReplayGrows ==
  ASSUME store \in Seq(StoredEvents), NEW e \in StoredEvents, store' = Append(store, e)
  PROVE  /\ store' \in Seq(StoredEvents) /\ Len(store) \in Nat /\ Len(store') = Len(store) + 1
         /\ store'[Len(store) + 1] = e /\ \A n \in 1..Len(store) : store'[n] = store[n]
         /\ \A n \in 0..Len(store) : Ledger!Rehydrate'[n] = Ledger!Rehydrate[n]
         /\ Ledger!Rehydrate'[Len(store) + 1] = Ledger!ApplyEvent(Ledger!Rehydrate[Len(store)], e)
<1> DEFINE m == Len(store)
           R == Ledger!Rehydrate
           S == R'
<1>1. /\ store' \in Seq(StoredEvents) /\ m \in Nat /\ Len(store') = m + 1
      /\ store'[m + 1] = e /\ \A n \in 1..m : store'[n] = store[n]
  OBVIOUS
<1>2. Replayed
  BY Replay
<1>3. Replayed'
  <2>1. (store \in Seq(StoredEvents) => Replayed)'
    BY Replay, PTL
  <2> QED BY <1>1, <2>1
<1>4. R[0] = Ledger!NewAggregate /\ \A n \in 1..m : R[n] = Ledger!ApplyEvent(R[n - 1], store[n])
  BY <1>2 DEF Replayed
<1>5. S[0] = Ledger!NewAggregate /\ \A n \in 1..(m + 1) : S[n] = Ledger!ApplyEvent(S[n - 1], store'[n])
  BY <1>1, <1>3 DEF Replayed, Ledger!NewAggregate, Ledger!ApplyEvent
<1> HIDE DEF R, S, m
<1>6. \A n \in Nat : n <= m => S[n] = R[n]
  <2> DEFINE bad == {n \in Nat : n <= m /\ S[n] # R[n]}
  <2> SUFFICES ASSUME bad # {} PROVE FALSE
    OBVIOUS
  <2>1. PICK n \in bad : \A j \in bad : n <= j
    BY LeastNumber, bad \subseteq Nat
  <2>2. n # 0
    BY <1>4, <1>5, <2>1
  <2>3. n - 1 \in Nat /\ n - 1 <= m /\ ~(n <= n - 1) /\ n \in 1..m /\ n \in 1..(m + 1)
    BY <1>1, <2>1, <2>2
  <2>4. S[n - 1] = R[n - 1]
    BY <2>1, <2>3
  <2> QED BY <1>1, <1>4, <1>5, <2>1, <2>3, <2>4
<1>7. m + 1 \in 1..(m + 1) /\ m + 1 - 1 = m /\ m <= m
  BY <1>1
<1>8. S[m + 1] = Ledger!ApplyEvent(R[m], e)
  BY <1>1, <1>5, <1>6, <1>7
<1>9. \A n \in 0..m : S[n] = R[n]
  BY <1>1, <1>6
<1> QED BY <1>1, <1>8, <1>9 DEF R, S, m

(* What servers hold.                                                       *)
LedgerTypes ==
  /\ args \in [Withdrawals -> [amount : Int, expectedVersion : Int]]
  /\ serves \in [Attempts -> Withdrawals]
  /\ DOMAIN view = Attempts /\ DOMAIN status = Attempts

(* The server has seen enough money in the version that it expects.         *)
MayAppend(t) ==
  /\ view[t] \in 0..Len(store) /\ view[t] = args[serves[t]].expectedVersion
  /\ Ledger!CanWithdraw(Ledger!Rehydrate[view[t]], args[serves[t]].amount)

(* The events are numbered, and a withdrawal follows the version expected.  *)
Numbered(n) ==
  /\ store[n].version = n
  /\ store[n].by \in Withdrawals => args[store[n].by].expectedVersion = n - 1

(* The inductive invariant of the ledger.                                   *)
LedgerInv ==
  /\ store \in Seq(StoredEvents) /\ Ledger!NeverOverdrawn
  /\ \A n \in 1..Len(store) : Numbered(n)
  /\ subject = "ledger" => LedgerTypes /\ \A t \in Attempts : status[t] = "append" => MayAppend(t)

(* The version of an aggregate is the number of its events.                 *)
LEMMA VersionIsLength ==
  ASSUME LedgerInv, NEW n \in 0..Len(store)
  PROVE  Ledger!Rehydrate[n].version = n /\ Ledger!Rehydrate[n] \in Accounts
<1>1. Replayed
  BY Replay DEF LedgerInv
<1>2. Ledger!Rehydrate[n] \in Accounts
  BY <1>1 DEF Replayed
<1>3. CASE n = 0
  BY <1>1, <1>2, <1>3, NewIsAccount DEF Replayed
<1>4. CASE n # 0
  <2>1. n \in 1..Len(store) /\ n - 1 \in 0..Len(store)
    BY <1>4 DEF LedgerInv
  <2>2. Ledger!Rehydrate[n] = Ledger!ApplyEvent(Ledger!Rehydrate[n - 1], store[n])
    BY <1>1, <2>1 DEF Replayed
  <2>3. Ledger!Rehydrate[n - 1] \in Accounts /\ store[n] \in StoredEvents
    BY <1>1, <2>1 DEF Replayed, LedgerInv
  <2>4. Ledger!Rehydrate[n].version = store[n].version
    BY <2>2, <2>3, AppliedIsAccount
  <2> QED BY <1>2, <2>1, <2>4 DEF LedgerInv, Numbered
<1> QED BY <1>3, <1>4

(* An event that leaves no debt keeps the invariant.                        *)
LEMMA EventKeeps ==
  ASSUME LedgerInv, subject = "ledger", subject' = subject, NEW e \in StoredEvents, store' = Append(store, e),
         args' = args, serves' = serves, view' = view, DOMAIN status' = Attempts,
         \A t \in Attempts : status'[t] = "append" => status[t] = "append",
         Ledger!ApplyEvent(Ledger!Rehydrate[Len(store)], e).balance >= 0,
         e.version = Len(store) + 1,
         e.by \in Withdrawals => args[e.by].expectedVersion = Len(store)
  PROVE  LedgerInv'
<1> DEFINE m == Len(store)
<1>1. /\ store' \in Seq(StoredEvents) /\ m \in Nat /\ Len(store') = m + 1
      /\ store'[m + 1] = e /\ \A n \in 1..m : store'[n] = store[n]
      /\ \A n \in 0..m : Ledger!Rehydrate'[n] = Ledger!Rehydrate[n]
      /\ Ledger!Rehydrate'[m + 1] = Ledger!ApplyEvent(Ledger!Rehydrate[m], e)
  BY ReplayGrows DEF LedgerInv
<1>2. Ledger!NeverOverdrawn'
  <2> SUFFICES ASSUME NEW n \in 0..(m + 1) PROVE Ledger!Rehydrate'[n].balance >= 0
    BY <1>1 DEF Ledger!NeverOverdrawn
  <2>1. CASE n \in 0..m
    BY <1>1, <2>1 DEF LedgerInv, Ledger!NeverOverdrawn
  <2>2. CASE n = m + 1
    BY <1>1, <2>2
  <2> QED BY <1>1, <2>1, <2>2
<1>3. ASSUME NEW n \in 1..(m + 1) PROVE Numbered(n)'
  <2>1. CASE n \in 1..m
    <3>1. Numbered(n) /\ store'[n] = store[n]
      BY <1>1, <2>1 DEF LedgerInv
    <3> QED BY <3>1 DEF Numbered
  <2>2. CASE n = m + 1
    BY <1>1, <2>2, SMTT(60) DEF Numbered
  <2> QED BY <1>1, <2>1, <2>2
<1>4. ASSUME NEW t \in Attempts, status'[t] = "append" PROVE MayAppend(t)'
  <2>1. MayAppend(t)
    BY <1>4 DEF LedgerInv
  <2>2. view[t] \in 0..m /\ view[t] \in 0..(m + 1)
    BY <1>1, <2>1 DEF MayAppend
  <2>3. Ledger!Rehydrate'[view[t]] = Ledger!Rehydrate[view[t]]
    BY <1>1, <2>2
  <2> QED BY <1>1, <2>1, <2>2, <2>3 DEF MayAppend, Ledger!CanWithdraw
<1>5. LedgerTypes'
  BY DEF LedgerInv, LedgerTypes
<1> HIDE DEF m
<1> QED BY <1>1, <1>2, <1>3, <1>4, <1>5 DEF LedgerInv

(* Every step keeps the invariant.                                          *)
LEMMA LedgerKeeps == LedgerInv /\ [SuiteNext]_<<subject, vars, ButAllocator>> => LedgerInv'
<1> SUFFICES ASSUME LedgerInv, [SuiteNext]_<<subject, vars, ButAllocator>> PROVE LedgerInv'
  OBVIOUS
<1>0. CASE UNCHANGED ledgerVars
  <2>1. subject' = subject
    BY LedgerStep
  <2>2. Ledger!Rehydrate' = Ledger!Rehydrate
    BY <1>0 DEF ledgerVars, Ledger!Rehydrate, Ledger!NewAggregate, Ledger!ApplyEvent
  <2> QED BY <1>0, <2>1, <2>2 DEF ledgerVars, LedgerInv, LedgerTypes, Numbered, MayAppend,
             Ledger!NeverOverdrawn, Ledger!CanWithdraw
<1> SUFFICES ASSUME subject = "ledger", subject' = subject, Ledger!Next PROVE LedgerInv'
  BY <1>0, LedgerStep
<1>t. /\ store \in Seq(StoredEvents) /\ Len(store) \in Nat /\ LedgerTypes
      /\ \A t \in Attempts : status[t] = "append" => MayAppend(t)
  BY DEF LedgerInv
<1>a. ASSUME NEW s, status' = s, DOMAIN s = Attempts, UNCHANGED <<store, args, serves>>, DOMAIN view' = Attempts,
             \A t \in Attempts : s[t] = "append" => MayAppend(t)'
      PROVE  LedgerInv'
  <2>1. Ledger!Rehydrate' = Ledger!Rehydrate
    BY <1>a DEF Ledger!Rehydrate, Ledger!NewAggregate, Ledger!ApplyEvent
  <2> QED BY <1>a, <2>1 DEF LedgerInv, LedgerTypes, Numbered, Ledger!NeverOverdrawn
<1>b. ASSUME NEW t \in Attempts, MayAppend(t), UNCHANGED <<store, args, serves>>, view'[t] = view[t] PROVE MayAppend(t)'
  <2>1. Ledger!Rehydrate' = Ledger!Rehydrate
    BY <1>b DEF Ledger!Rehydrate, Ledger!NewAggregate, Ledger!ApplyEvent
  <2> QED BY <1>b, <2>1 DEF MayAppend, Ledger!CanWithdraw
<1>1. ASSUME NEW t \in Attempts, Ledger!ReadStream(t) PROVE LedgerInv'
  <2> DEFINE a == Ledger!Rehydrate[Len(store)]
             o == IF ~Ledger!VersionMatches(a, t) THEN "conflict"
                  ELSE IF Ledger!CanWithdraw(a, args[serves[t]].amount) THEN "append" ELSE "refused"
  <2>1. view' = [view EXCEPT ![t] = Len(store)] /\ status' = [status EXCEPT ![t] = o] /\ UNCHANGED <<store, args, serves>>
    BY <1>1 DEF Ledger!ReadStream
  <2>2. o = "append" => a.version = args[serves[t]].expectedVersion /\ Ledger!CanWithdraw(a, args[serves[t]].amount)
    BY DEF Ledger!VersionMatches
  <2>3. Len(store) \in 0..Len(store) /\ a.version = Len(store)
    BY <1>t, VersionIsLength, SMTT(60)
  <2>4. Ledger!Rehydrate' = Ledger!Rehydrate
    BY <2>1 DEF Ledger!Rehydrate, Ledger!NewAggregate, Ledger!ApplyEvent
  <2> HIDE DEF o
  <2>5. ASSUME NEW u \in Attempts, status'[u] = "append" PROVE MayAppend(u)'
    <3>1. CASE u = t
      <4>1. o = "append" /\ view'[u] = Len(store)
        BY <1>t, <2>1, <2>5, <3>1 DEF LedgerTypes
      <4> QED BY <2>1, <2>2, <2>3, <2>4, <3>1, <4>1 DEF MayAppend, Ledger!CanWithdraw
    <3>2. CASE u # t
      <4>1. status[u] = "append" /\ view'[u] = view[u]
        BY <1>t, <2>1, <2>5, <3>2 DEF LedgerTypes
      <4> QED BY <1>b, <1>t, <2>1, <4>1
    <3> QED BY <3>1, <3>2
  <2> QED BY <1>a, <1>t, <2>1, <2>5 DEF LedgerTypes
<1>2. ASSUME NEW t \in Attempts, Ledger!AppendEvents(t) PROVE LedgerInv'
  <2> DEFINE m == Len(store)
             w == args[serves[t]]
             e == [kind |-> "withdrawn", version |-> m + 1, amount |-> w.amount, by |-> serves[t]]
  <2>1. /\ status[t] = "append" /\ m = w.expectedVersion /\ store' = Append(store, Ledger!Withdrawn(t))
        /\ UNCHANGED <<args, serves, view>>
    BY <1>2 DEF Ledger!AppendEvents, Ledger!CommitVersion
  <2>2. PICK s \in {"done", "unknown"} : status' = [status EXCEPT ![t] = s]
    BY <1>2 DEF Ledger!AppendEvents
  <2>3. MayAppend(t)
    BY <1>t, <2>1
  <2>4. view[t] = m /\ Ledger!CanWithdraw(Ledger!Rehydrate[m], w.amount) /\ m \in 0..m
    BY <2>1, <2>3 DEF MayAppend
  <2>5. Ledger!Rehydrate[m].version = m /\ Ledger!Rehydrate[m] \in Accounts
    BY <2>4, VersionIsLength
  <2>6. Ledger!Withdrawn(t) = e
    BY <2>4, <2>5 DEF Ledger!Withdrawn
  <2>7. serves[t] \in Withdrawals /\ w \in [amount : Int, expectedVersion : Int]
    BY <1>t DEF LedgerTypes
  <2>8. e \in StoredEvents /\ e.kind = "withdrawn" /\ e.version = m + 1 /\ e.by = serves[t] /\ e.amount = w.amount
    BY <1>t, <2>7 DEF StoredEvents
  <2>9. Ledger!ApplyEvent(Ledger!Rehydrate[m], e).balance = Ledger!Rehydrate[m].balance - w.amount
    <3> HIDE DEF e, m, w
    <3> QED BY <2>5, <2>8, AppliedIsAccount
  <2>10. Ledger!ApplyEvent(Ledger!Rehydrate[m], e).balance >= 0
    BY <2>4, <2>9 DEF Ledger!CanWithdraw
  <2>11. store' = Append(store, e)
    BY <2>1, <2>6
  <2>12. DOMAIN status' = Attempts /\ \A u \in Attempts : status'[u] = "append" => status[u] = "append"
    BY <1>t, <2>2 DEF LedgerTypes
  <2>13. e.by \in Withdrawals => args[e.by].expectedVersion = m
    BY <2>1, <2>8
  <2> HIDE DEF e, w
  <2> QED BY <2>1, <2>8, <2>10, <2>11, <2>12, <2>13, EventKeeps
<1>3. ASSUME NEW t \in Attempts, Ledger!AppendConflict(t) \/ Ledger!Fail(t) PROVE LedgerInv'
  <2>1. PICK s \in {"conflict", "unknown"} : status' = [status EXCEPT ![t] = s]
    BY <1>3 DEF Ledger!AppendConflict, Ledger!Fail
  <2>2. UNCHANGED <<store, args, serves, view>>
    BY <1>3 DEF Ledger!AppendConflict, Ledger!Fail
  <2>3. DOMAIN status' = Attempts /\ \A u \in Attempts : status'[u] = "append" => status[u] = "append"
    BY <1>t, <2>1 DEF LedgerTypes
  <2>4. ASSUME NEW u \in Attempts, status'[u] = "append" PROVE MayAppend(u)'
    BY <1>b, <1>t, <2>2, <2>3, <2>4
  <2> QED BY <1>a, <1>t, <2>2, <2>3, <2>4 DEF LedgerTypes
<1>4. ASSUME NEW kind \in {"opened", "deposited"}, NEW amount \in Int, Ledger!OtherEvent(kind, amount),
             kind = "deposited" => amount > 0
      PROVE  LedgerInv'
  <2> DEFINE m == Len(store)
             e == [kind |-> kind, version |-> m + 1, amount |-> amount, by |-> NoView]
             a == Ledger!Rehydrate[m]
  <2>1. store' = Append(store, e) /\ UNCHANGED <<args, serves, view, status>>
    BY <1>4 DEF Ledger!OtherEvent
  <2>2. e \in StoredEvents /\ e.kind = kind /\ e.version = m + 1 /\ e.by = NoView /\ e.amount = amount
    BY <1>t DEF StoredEvents
  <2>3. a \in Accounts /\ a.balance \in Int
    BY <1>t, VersionIsLength DEF Accounts
  <2>4. a.balance >= 0
    BY <1>t DEF LedgerInv, Ledger!NeverOverdrawn
  <2> HIDE DEF e, a
  <2>5. Ledger!ApplyEvent(a, e).balance >= 0
    BY <1>4, <2>2, <2>3, <2>4, AppliedIsAccount
  <2>6. DOMAIN status' = Attempts
    BY <1>t, <2>1 DEF LedgerTypes
  <2>7. e.by \notin Withdrawals
    BY <2>2, LedgerConstants
  <2> QED BY <2>1, <2>2, <2>5, <2>6, <2>7, EventKeeps DEF a
<1>5. CASE Ledger!Open
  BY <1>4, <1>5 DEF Ledger!Open
<1>6. ASSUME NEW amount \in Sums, Ledger!Deposit(amount) PROVE LedgerInv'
  BY <1>4, <1>6, LedgerConstants DEF Ledger!Deposit
<1> QED BY <1>1, <1>2, <1>3, <1>5, <1>6 DEF Ledger!Next

(* For every set of servers, attempts and sums: no balance in the history   *)
(* is negative, versions have no gaps and a withdrawal is stored at most    *)
(* once at its version.                                                     *)
THEOREM WithdrawalsAreRight == SuiteSpec => []WithdrawalsAreSound
<1>1. SuiteInit => LedgerInv
  <2> SUFFICES ASSUME SuiteInit PROVE LedgerInv
    OBVIOUS
  <2>1. store = <<>>
    BY DEF SuiteInit, LedgerIdle, Ledger!Init
  <2>2. store \in Seq(StoredEvents) /\ Len(store) = 0
    BY <2>1
  <2>3. Ledger!NeverOverdrawn
    <3>1. Ledger!Rehydrate[0].balance = 0
      BY <2>2, Replay, NewIsAccount DEF Replayed
    <3> QED BY <2>2, <3>1 DEF Ledger!NeverOverdrawn
  <2>4. subject = "ledger" => LedgerTypes /\ \A t \in Attempts : status[t] # "append"
    <3> SUFFICES ASSUME subject = "ledger" PROVE LedgerTypes /\ \A t \in Attempts : status[t] # "append"
      OBVIOUS
    <3>1. Ledger!Init
      BY DEF SuiteInit
    <3>2. [amount : Sums, expectedVersion : 0..MaxVersion] \subseteq [amount : Int, expectedVersion : Int]
      <4>1. Sums \subseteq Int /\ 0..MaxVersion \subseteq Int
        BY LedgerConstants
      <4> QED BY <4>1, Zenon
    <3>3. args \in [Withdrawals -> [amount : Sums, expectedVersion : 0..MaxVersion]]
      BY <3>1 DEF Ledger!Init, Ledger!Versions
    <3>4. args \in [Withdrawals -> [amount : Int, expectedVersion : Int]]
      BY <3>2, <3>3
    <3> QED BY <3>1, <3>4 DEF Ledger!Init, LedgerTypes
  <2> QED BY <2>2, <2>3, <2>4 DEF LedgerInv
<1>2. LedgerInv => WithdrawalsAreSound
  BY DEF LedgerInv, Numbered, WithdrawalsAreSound, Ledger!WithdrawalsAreSound, Ledger!WithdrawnOnce
<1> QED BY <1>1, <1>2, LedgerKeeps, PTL DEF SuiteSpec

-----------------------------------------------------------------------------
(* The levels of the limit order book.                                      *)

(* What happens to the book is a step of its module or nothing.             *)
LEMMA BookStep ==
  [SuiteNext]_<<subject, vars, ButAllocator>> => [Book!Next]_bookVars
  BY DEF SuiteNext, ButAllocator, bookVars, ButEngine, ButParser, ButStream, ButFraud, ButLedger, ButEncoder

(* What its constants may be.                                               *)
LEMMA BookConstants == Capacity \in Nat /\ NULL \notin 1..Capacity
  BY HistoriesAssumption DEF Book!NullAssumption

(* The k-th element of s, or NULL at either end.                            *)
At(s, k) == IF k \in 1..Len(s) THEN s[k] ELSE NULL

(* s from its k-th element on.                                              *)
Rest(s, k) == [j \in 1..(Len(s) - k + 1) |-> s[k + j - 1]]

(* The rest of a sequence starts with its element.                          *)
LEMMA RestStarts ==
  ASSUME NEW S, NEW s \in Seq(S), NEW k \in 1..Len(s)
  PROVE  Rest(s, k) = <<s[k]>> \o Rest(s, k + 1) /\ Rest(s, k) \in Seq(S)
<1> DEFINE n == Len(s) - k
           r == Rest(s, k + 1)
           u == <<s[k]>> \o r
<1>1. n \in Nat /\ Len(s) - k + 1 = n + 1 /\ Len(s) - (k + 1) + 1 = n /\ Len(s) = k + n /\ k \in Nat /\ k > 0
  OBVIOUS
<1>2. \A j \in 1..n : k + 1 + j - 1 = k + j /\ k + j \in 1..Len(s)
  BY <1>1
<1>3. r = [j \in 1..n |-> s[k + j]]
  BY <1>1, <1>2 DEF Rest
<1> HIDE DEF n, r
<1>4. \A j \in 1..n : s[k + j] \in S
  BY <1>2
<1>5. r \in Seq(S) /\ Len(r) = n
  BY <1>1, <1>3, <1>4
<1>6. \A j \in 1..(n + 1) : k + j - 1 \in 1..Len(s)
  BY <1>1
<1>7. \A j \in 1..(n + 1) : s[k + j - 1] \in S
  BY <1>6
<1>8. Rest(s, k) = [j \in 1..(n + 1) |-> s[k + j - 1]]
  BY <1>1 DEF Rest
<1>9. Rest(s, k) \in Seq(S) /\ Len(Rest(s, k)) = n + 1
  BY <1>1, <1>7, <1>8
<1>10. u \in Seq(S) /\ Len(u) = n + 1
  BY <1>1, <1>5
<1>11. ASSUME NEW j \in 1..(n + 1) PROVE u[j] = s[k + j - 1]
  <2>1. CASE j = 1
    <3>1. u[1] = s[k] /\ k + 1 - 1 = k
      BY <1>1, <1>5
    <3> QED BY <2>1, <3>1
  <2>2. CASE j # 1
    <3>1. j - 1 \in 1..n /\ k + (j - 1) = k + j - 1
      BY <1>1, <2>2
    <3>2. u[j] = r[j - 1]
      BY <1>1, <1>5, <2>2
    <3> QED BY <1>3, <3>1, <3>2
  <2> QED BY <2>1, <2>2
<1>12. \A j \in 1..(n + 1) : u[j] = Rest(s, k)[j]
  BY <1>8, <1>11
<1> HIDE DEF u
<1>13. u = Rest(s, k)
  BY <1>9, <1>10, <1>12, SeqEqual
<1> QED BY <1>9, <1>13 DEF u, r

(* From the first element on it is everything.                              *)
LEMMA RestOfAll ==
  ASSUME NEW S, NEW s \in Seq(S) PROVE Rest(s, 1) = s
<1>1. Len(s) \in Nat /\ Len(s) - 1 + 1 = Len(s) /\ \A j \in 1..Len(s) : 1 + j - 1 = j
  OBVIOUS
<1>2. Rest(s, 1) = [j \in 1..Len(s) |-> s[j]]
  BY <1>1 DEF Rest
<1> QED BY <1>2

(* Behind the last one there is nothing.                                    *)
LEMMA RestAtEnd ==
  ASSUME NEW S, NEW s \in Seq(S) PROVE Rest(s, Len(s) + 1) = <<>>
<1>1. Len(s) - (Len(s) + 1) + 1 = 0
  OBVIOUS
<1> QED BY <1>1 DEF Rest

(* Walk follows next up to NULL.                                            *)
Walks ==
  LET w == Book!Walk IN
  /\ \A n \in Book!Pointer : w[0][n] = <<>>
  /\ \A k \in Nat : /\ w[k][NULL] = <<>>
                    /\ \A n \in Book!Nodes : w[k + 1][n] = <<n>> \o w[k][next[n]]

(* The recursive definition of Walk defines that function.                  *)
LEMMA WalkIs == next \in [Book!Nodes -> Book!Pointer] => Walks
<1> SUFFICES ASSUME next \in [Book!Nodes -> Book!Pointer] PROVE Walks
  OBVIOUS
<1> DEFINE P == Book!Pointer
           N == Book!Nodes
           V == [P -> Seq(N)]
           b == [n \in P |-> <<>>]
           step(v) == [n \in P |-> IF n = NULL THEN <<>> ELSE <<n>> \o v[next[n]]]
           G == [x \in Nat \X V |-> step(x[2])]
<1>0. P = N \union {NULL} /\ NULL \notin N
  BY BookConstants DEF Book!Pointer, Book!Nodes
<1> HIDE DEF P, N
<1>1. ASSUME NEW v \in V PROVE step(v) \in V
  <2> SUFFICES ASSUME NEW n \in N PROVE <<n>> \o v[next[n]] \in Seq(N)
    BY <1>0
  <2>1. next[n] \in P
    BY DEF P, N
  <2>2. v[next[n]] \in Seq(N) /\ <<n>> \in Seq(N)
    BY <2>1
  <2> QED BY <2>2
<1>2. b \in V
  OBVIOUS
<1>3. G \in [Nat \X V -> V]
  BY <1>1
<1>4. \A k \in Nat, v \in V : G[<<k, v>>] = step(v)
  OBVIOUS
<1>5. PICK f \in [Nat -> V] : Recurs(f, b, G)
  <2> HIDE DEF V, b, G
  <2> QED BY <1>2, <1>3, Recursion
<1> HIDE DEF G
<1>6. f[0] = b /\ \A k \in Nat : f[k + 1] = step(f[k])
  <2> HIDE DEF step, V
  <2> QED BY <1>4, <1>5 DEF Recurs
<1> DEFINE body(g, k) == [n \in P |-> IF n = NULL \/ k = 0 THEN <<>> ELSE <<n>> \o g[k - 1][next[n]]]
<1>7. ASSUME NEW k \in Nat PROVE f[k] = body(f, k)
  <2>1. CASE k = 0
    BY <1>6, <2>1
  <2>2. CASE k # 0
    <3>1. k - 1 \in Nat /\ k - 1 + 1 = k
      BY <2>2
    <3>2. f[k] = step(f[k - 1])
      BY <1>6, <3>1
    <3> QED BY <2>2, <3>2
  <2> QED BY <2>1, <2>2
<1>8. f = [k \in Nat |-> f[k]]
  OBVIOUS
<1>9. f = [k \in Nat |-> body(f, k)]
  <2> HIDE DEF body
  <2> QED BY <1>7, <1>8
<1> DEFINE w == Book!Walk
<1>10. w = [k \in Nat |-> body(w, k)]
  BY <1>9, Zenon DEF Book!Walk, P
<1> HIDE DEF w
<1>11. ASSUME NEW k \in Nat PROVE w[k] = body(w, k)
  <2> HIDE DEF body
  <2> QED BY <1>10
<1>12. \A n \in P : w[0][n] = <<>>
  BY <1>11
<1>13. ASSUME NEW k \in Nat PROVE w[k][NULL] = <<>>
  BY <1>0, <1>11
<1>14. ASSUME NEW k \in Nat, NEW n \in N PROVE w[k + 1][n] = <<n>> \o w[k][next[n]]
  <2>1. k + 1 \in Nat /\ k + 1 # 0 /\ k + 1 - 1 = k
    OBVIOUS
  <2>2. w[k + 1] = body(w, k + 1)
    BY <1>11, <2>1
  <2>3. n \in P /\ n # NULL
    BY <1>0
  <2>a. ASSUME NEW m \in Nat, m # 0 PROVE body(w, m)[n] = <<n>> \o w[m - 1][next[n]]
    BY <2>3, <2>a
  <2>4. body(w, k + 1)[n] = <<n>> \o w[k + 1 - 1][next[n]]
    <3> HIDE DEF body
    <3> QED BY <2>1, <2>a
  <2> HIDE DEF body
  <2> QED BY <2>1, <2>2, <2>4
<1> QED BY <1>12, <1>13, <1>14 DEF Walks, w, P, N

(* The nodes of s are linked in both directions, between head and tail of   *)
(* level l, in the order in which they were taken from the pool.            *)
Threaded(s, l) ==
  /\ \A j, k \in 1..Len(s) : j < k => s[j] < s[k]
  /\ \A k \in 1..Len(s) : /\ s[k] <= next_free_index
                          /\ next[s[k]] = At(s, k + 1) /\ prev[s[k]] = At(s, k - 1)
  /\ head[l] = At(s, 1) /\ tail[l] = At(s, Len(s))
  /\ \A n : <<l, n>> \in live => \E k \in 1..Len(s) : s[k] = n

(* No node is in two levels.                                                *)
Disjoint(q) ==
  \A l, m \in Levels : \A j \in 1..Len(q[l]), k \in 1..Len(q[m]) : q[l][j] = q[m][k] => l = m

(* What nodes and levels hold.                                              *)
BookTypes ==
  /\ next_free_index \in Nat
  /\ next \in [Book!Nodes -> Book!Pointer] /\ prev \in [Book!Nodes -> Book!Pointer]
  /\ head \in [Levels -> Book!Pointer] /\ tail \in [Levels -> Book!Pointer]
  /\ total_volume = [l \in Levels |-> total_volume[l]]
  /\ quantity = [n \in Book!Nodes |-> quantity[n]]

(* The inductive invariant, with the queues q that the links spell.         *)
Linked(q) ==
  /\ BookTypes /\ q \in [Levels -> Seq(Book!Nodes)] /\ Disjoint(q)
  /\ \A l \in Levels : Threaded(q[l], l)

(* Growing numbers up to Capacity are no more than Capacity.                *)
LEMMA GrowingIsShort ==
  ASSUME NEW s \in Seq(Book!Nodes), \A j, k \in 1..Len(s) : j < k => s[j] < s[k]
  PROVE  Len(s) <= Capacity
<1>0. Capacity \in Nat /\ Len(s) \in Nat /\ \A k \in 1..Len(s) : s[k] \in Nat /\ s[k] > 0 /\ s[k] <= Capacity
  BY BookConstants DEF Book!Nodes
<1> DEFINE bad == {k \in Nat : k \in 1..Len(s) /\ s[k] < k}
<1>1. bad = {}
  <2> SUFFICES ASSUME bad # {} PROVE FALSE
    OBVIOUS
  <2>1. PICK k \in bad : \A j \in bad : k <= j
    BY LeastNumber, bad \subseteq Nat
  <2>2. k # 1
    BY <1>0, <2>1
  <2>3. k - 1 \in Nat /\ k - 1 \in 1..Len(s) /\ ~(k <= k - 1) /\ k - 1 < k /\ k \in 1..Len(s)
    BY <1>0, <2>1, <2>2
  <2>4. k - 1 \notin bad
    BY <2>1, <2>3
  <2>5. s[k - 1] >= k - 1
    BY <1>0, <2>3, <2>4, SMTT(60)
  <2>6. s[k - 1] < s[k]
    BY <2>3
  <2> QED BY <1>0, <2>1, <2>3, <2>5, <2>6, SMTT(60)
<1>2. CASE Len(s) = 0
  BY <1>0, <1>2
<1>3. CASE Len(s) # 0
  <2>1. Len(s) \in 1..Len(s)
    BY <1>0, <1>3
  <2>2. s[Len(s)] >= Len(s)
    BY <1>0, <1>1, <2>1
  <2> QED BY <1>0, <2>1, <2>2
<1> QED BY <1>2, <1>3

(* A walk from a node of a list lists the rest of it.                       *)
LEMMA WalkLists ==
  ASSUME Walks, NEW s \in Seq(Book!Nodes), \A k \in 1..Len(s) : next[s[k]] = At(s, k + 1)
  PROVE  \A n \in Nat : \A k \in 1..(Len(s) + 1) :
           Len(s) + 1 - k <= n => Book!Walk[n][At(s, k)] = Rest(s, k)
<1> DEFINE w == Book!Walk
           Good(n) == \A k \in 1..(Len(s) + 1) : Len(s) + 1 - k <= n => w[n][At(s, k)] = Rest(s, k)
           bad == {n \in Nat : ~Good(n)}
<1>0. Len(s) \in Nat
  OBVIOUS
<1>1. ASSUME NEW n \in Nat PROVE w[n][At(s, Len(s) + 1)] = Rest(s, Len(s) + 1)
  <2>1. At(s, Len(s) + 1) = NULL
    BY <1>0 DEF At
  <2>2. w[n][NULL] = <<>>
    BY DEF Walks
  <2> QED BY <2>1, <2>2, RestAtEnd
<1>2. ASSUME NEW n \in Nat, Good(n) PROVE Good(n + 1)
  <2> SUFFICES ASSUME NEW k \in 1..(Len(s) + 1), Len(s) + 1 - k <= n + 1
               PROVE  w[n + 1][At(s, k)] = Rest(s, k)
    OBVIOUS
  <2>1. CASE k = Len(s) + 1
    BY <1>1, <2>1
  <2>2. CASE k # Len(s) + 1
    <3>1. k \in 1..Len(s) /\ k + 1 \in 1..(Len(s) + 1) /\ Len(s) + 1 - (k + 1) <= n
      BY <1>0, <2>2
    <3>2. w[n][At(s, k + 1)] = Rest(s, k + 1)
      BY <1>2, <3>1
    <3>a. next[s[k]] = At(s, k + 1)
      BY <3>1
    <3>b. At(s, k) = s[k] /\ s[k] \in Book!Nodes
      BY <3>1 DEF At
    <3>3. At(s, k) = s[k] /\ s[k] \in Book!Nodes /\ next[s[k]] = At(s, k + 1)
      BY <3>a, <3>b, SMTT(30)
    <3>4. w[n + 1][s[k]] = <<s[k]>> \o w[n][next[s[k]]]
      BY <3>3 DEF Walks
    <3>5. Rest(s, k) = <<s[k]>> \o Rest(s, k + 1)
      BY <3>1, RestStarts
    <3> QED BY <3>2, <3>3, <3>4, <3>5
  <2> QED BY <2>1, <2>2
<1>3. Good(0)
  <2> SUFFICES ASSUME NEW k \in 1..(Len(s) + 1), Len(s) + 1 - k <= 0 PROVE w[0][At(s, k)] = Rest(s, k)
    OBVIOUS
  <2>1. k = Len(s) + 1
    BY <1>0
  <2> QED BY <1>1, <2>1
<1> HIDE DEF Good
<1>4. bad = {}
  <2> SUFFICES ASSUME bad # {} PROVE FALSE
    OBVIOUS
  <2>1. PICK n \in bad : \A m \in bad : n <= m
    BY LeastNumber, bad \subseteq Nat
  <2>2. n # 0
    BY <1>3, <2>1
  <2>3. n - 1 \in Nat /\ n - 1 \notin bad /\ n - 1 + 1 = n
    BY <2>1, <2>2
  <2> QED BY <1>2, <2>1, <2>3
<1>5. \A n \in Nat : Good(n)
  BY <1>4
<1> QED BY <1>5 DEF Good

(* So the links spell the queues.                                           *)
LEMMA ForwardIs ==
  ASSUME NEW q PROVE Linked(q) => [l \in Levels |-> Book!Forward(l)] = q
<1> SUFFICES ASSUME Linked(q), NEW l \in Levels PROVE Book!Forward(l) = q[l]
  BY DEF Linked
<1> DEFINE s == q[l]
<1>1. s \in Seq(Book!Nodes) /\ Threaded(s, l) /\ Walks
  BY WalkIs DEF Linked, BookTypes
<1> HIDE DEF s
<1>2. Len(s) <= Capacity /\ Capacity \in Nat /\ Len(s) \in Nat
  BY <1>1, GrowingIsShort, BookConstants DEF Threaded
<1>3. Capacity + 1 \in Nat /\ 1 \in 1..(Len(s) + 1) /\ Len(s) + 1 - 1 <= Capacity + 1
  BY <1>2
<1>4. \A k \in 1..Len(s) : next[s[k]] = At(s, k + 1)
  BY <1>1 DEF Threaded
<1>5. Book!Walk[Capacity + 1][At(s, 1)] = Rest(s, 1)
  BY <1>1, <1>3, <1>4, WalkLists
<1>6. head[l] = At(s, 1)
  BY <1>1 DEF Threaded
<1>7. Book!Forward(l) = s
  BY <1>1, <1>5, <1>6, RestOfAll DEF Book!Forward
<1> QED BY <1>7 DEF s

(* A level whose nodes are left alone stays linked.                         *)
LEMMA ThreadedSame ==
  ASSUME BookTypes, NEW s \in Seq(Book!Nodes), NEW l \in Levels, Threaded(s, l),
         head'[l] = head[l], tail'[l] = tail[l], next_free_index' \in Nat, next_free_index <= next_free_index',
         \A k \in 1..Len(s) : next'[s[k]] = next[s[k]] /\ prev'[s[k]] = prev[s[k]],
         \A n : <<l, n>> \in live' => <<l, n>> \in live
  PROVE  Threaded(s, l)'
<1>1. \A k \in 1..Len(s) : s[k] \in Nat
  BY BookConstants DEF Book!Nodes
<1>2. \A k \in 1..Len(s) : s[k] <= next_free_index'
  BY <1>1 DEF Threaded, BookTypes
<1> QED BY <1>2 DEF Threaded, At

(* The elements of a sequence with one more.                                *)
LEMMA AppendAt ==
  ASSUME NEW S, NEW s \in Seq(S), NEW n \in S, NEW k \in Int
  PROVE  /\ At(Append(s, n), k) = IF k = Len(s) + 1 THEN n ELSE At(s, k)
         /\ Append(s, n) \in Seq(S) /\ Len(Append(s, n)) = Len(s) + 1 /\ Len(s) \in Nat
  BY DEF At

(* Within a sequence At is its element.                                     *)
LEMMA AtIs ==
  ASSUME NEW s, NEW k \in 1..Len(s) PROVE At(s, k) = s[k]
  BY DEF At

(* At yields a pointer, NULL exactly outside.                               *)
LEMMA AtNull ==
  ASSUME NEW s \in Seq(Book!Nodes), NEW k \in Int
  PROVE  /\ At(s, k) = NULL <=> k \notin 1..Len(s)
         /\ At(s, k) \in Book!Pointer
<1>1. CASE k \in 1..Len(s)
  <2>1. s[k] \in Book!Nodes
    BY <1>1
  <2> QED BY <1>1, <2>1, BookConstants DEF At, Book!Nodes, Book!Pointer
<1>2. CASE k \notin 1..Len(s)
  BY <1>2 DEF At, Book!Pointer
<1> QED BY <1>1, <1>2

(* insert_order_at_level appends a fresh node.                              *)
LEMMA InsertLinks ==
  ASSUME NEW q, Linked(q), NEW l \in Levels, NEW a, Book!insert_order_at_level(l, a),
         NEW n, n = next_free_index + 1, NEW p, p = [q EXCEPT ![l] = Append(q[l], n)]
  PROVE  /\ Linked(p)' /\ n \in Book!Nodes
         /\ \A m \in Levels : \A k \in 1..Len(q[m]) : q[m][k] # n
<1> DEFINE s == q[l]
           z == Len(s)
           r == Append(s, n)
<1>1. /\ next_free_index < Capacity /\ next_free_index' = n /\ Book!linkAtTail(l, n)
      /\ prev' = [prev EXCEPT ![n] = tail[l]] /\ tail' = [tail EXCEPT ![l] = n]
      /\ live' = live \union {<<l, n>>}
      /\ quantity' = [quantity EXCEPT ![n] = a]
      /\ total_volume' = [total_volume EXCEPT ![l] = (@ + a) % VolumeModulus]
  BY DEF Book!insert_order_at_level, Book!allocate_order_from_pool
<1>2. BookTypes /\ q \in [Levels -> Seq(Book!Nodes)] /\ Disjoint(q) /\ \A m \in Levels : Threaded(q[m], m)
  BY DEF Linked
<1>3. n \in Book!Nodes /\ n \in Nat /\ n # NULL /\ n \in Book!Pointer /\ next_free_index \in Nat /\ next_free_index < n
  BY <1>1, <1>2, BookConstants DEF BookTypes, Book!Nodes, Book!Pointer
<1>4. ASSUME NEW m \in Levels, NEW k \in 1..Len(q[m])
      PROVE  q[m][k] # n /\ q[m][k] \in Book!Nodes /\ q[m][k] < n /\ q[m][k] \in Nat
  <2>1. q[m][k] <= next_free_index /\ q[m][k] \in Book!Nodes
    BY <1>2 DEF Threaded
  <2>2. q[m][k] \in Nat
    BY <2>1, BookConstants DEF Book!Nodes
  <2> QED BY <1>3, <2>1, <2>2
<1>5. s \in Seq(Book!Nodes) /\ z \in Nat /\ Threaded(s, l)
  BY <1>2
<1>6. \A k \in Int : At(r, k) = IF k = z + 1 THEN n ELSE At(s, k)
  BY <1>3, <1>5, AppendAt
<1>7. r \in Seq(Book!Nodes) /\ Len(r) = z + 1 /\ r[z + 1] = n /\ \A k \in 1..z : r[k] = s[k]
  BY <1>3, <1>5
<1>8. p \in [Levels -> Seq(Book!Nodes)] /\ p[l] = r /\ \A m \in Levels : m # l => p[m] = q[m]
  BY <1>2, <1>7
<1>9. tail[l] = At(s, z) /\ head[l] = At(s, 1)
  BY <1>5 DEF Threaded
<1>10. tail[l] = NULL <=> z = 0
  BY <1>5, <1>9, AtNull, SMTT(60)
<1>11. ASSUME NEW x \in Book!Nodes, x # n, x # tail[l] PROVE next'[x] = next[x] /\ prev'[x] = prev[x]
  BY <1>1, <1>2, <1>11 DEF Book!linkAtTail, BookTypes
<1>12. /\ next' \in [Book!Nodes -> Book!Pointer] /\ next'[n] = NULL
       /\ z # 0 => next'[s[z]] = n /\ head' = head
       /\ z = 0 => head' = [head EXCEPT ![l] = n]
  <2>1. CASE z # 0
    <3>1. z \in 1..z
      BY <1>5, <2>1
    <3>2. tail[l] = s[z] /\ tail[l] # NULL /\ s[z] \in Book!Nodes /\ s[z] # n
      BY <1>4, <1>9, <1>10, <2>1, <3>1, AtIs
    <3>3. next' = [next EXCEPT ![n] = NULL, ![s[z]] = n] /\ head' = head
      BY <1>1, <3>2 DEF Book!linkAtTail
    <3>4. NULL \in Book!Pointer
      BY DEF Book!Pointer
    <3> QED BY <1>2, <1>3, <2>1, <3>2, <3>3, <3>4 DEF BookTypes
  <2>2. CASE z = 0
    <3>1. next' = [next EXCEPT ![n] = NULL] /\ head' = [head EXCEPT ![l] = n]
      BY <1>1, <1>10, <2>2 DEF Book!linkAtTail
    <3>2. NULL \in Book!Pointer
      BY DEF Book!Pointer
    <3> QED BY <1>2, <1>3, <2>2, <3>1, <3>2 DEF BookTypes
  <2> QED BY <2>1, <2>2
<1>13. BookTypes'
  <2>1. tail[l] \in Book!Pointer
    BY <1>2 DEF BookTypes
  <2> QED BY <1>1, <1>2, <1>3, <1>12, <2>1, ZenonT(60) DEF BookTypes
<1>14. Disjoint(p)
  <2> SUFFICES ASSUME NEW x \in Levels, NEW y \in Levels, NEW j \in 1..Len(p[x]), NEW k \in 1..Len(p[y]), p[x][j] = p[y][k]
               PROVE  x = y
    BY DEF Disjoint
  <2>1. ASSUME NEW m \in Levels, NEW i0 \in 1..Len(p[m]), m # l PROVE i0 \in 1..Len(q[m]) /\ p[m][i0] = q[m][i0] /\ p[m][i0] # n
    BY <1>4, <1>8, <2>1
  <2>2. ASSUME NEW i0 \in 1..Len(p[l]), p[l][i0] # n PROVE i0 \in 1..z /\ p[l][i0] = s[i0]
    BY <1>5, <1>7, <1>8, <2>2
  <2>3. CASE x = l /\ y # l
    BY <1>2, <2>1, <2>2, <2>3 DEF Disjoint
  <2>4. CASE x # l /\ y = l
    BY <1>2, <2>1, <2>2, <2>4 DEF Disjoint
  <2>5. CASE x # l /\ y # l
    BY <1>2, <2>1, <2>5 DEF Disjoint
  <2> QED BY <2>3, <2>4, <2>5
<1>15. ASSUME NEW m \in Levels, m # l PROVE Threaded(p[m], m)'
  <2>1. ASSUME NEW k \in 1..Len(q[m]) PROVE q[m][k] # tail[l]
    <3>1. CASE z = 0
      BY <1>4, <1>10, <3>1, BookConstants DEF Book!Nodes
    <3>2. CASE z # 0
      <4>1. z \in 1..z /\ tail[l] = s[z]
        BY <1>5, <1>9, <3>2, AtIs
      <4> QED BY <1>2, <1>15, <4>1 DEF Disjoint
    <3> QED BY <3>1, <3>2
  <2>2. \A k \in 1..Len(q[m]) : next'[q[m][k]] = next[q[m][k]] /\ prev'[q[m][k]] = prev[q[m][k]]
    BY <1>4, <1>11, <2>1
  <2>3. head'[m] = head[m] /\ tail'[m] = tail[m]
    BY <1>1, <1>2, <1>5, <1>12, <1>15 DEF BookTypes
  <2>4. next_free_index' \in Nat /\ next_free_index <= next_free_index' /\ \A x : <<m, x>> \in live' => <<m, x>> \in live
    BY <1>1, <1>3, <1>15
  <2>5. q[m] \in Seq(Book!Nodes) /\ Threaded(q[m], m) /\ p[m] = q[m]
    BY <1>2, <1>8, <1>15
  <2> DEFINE t == q[m]
  <2>6. Threaded(t, m)'
    BY <1>2, <2>2, <2>3, <2>4, <2>5, ThreadedSame
  <2> QED BY <2>5, <2>6
<1>16. Threaded(r, l)'
  <2>1. ASSUME NEW k \in 1..Len(r) PROVE k \in 1..z \/ k = z + 1
    BY <1>5, <1>7
  <2>2. \A j, k \in 1..Len(r) : j < k => r[j] < r[k]
    <3> SUFFICES ASSUME NEW j \in 1..Len(r), NEW k \in 1..Len(r), j < k PROVE r[j] < r[k]
      OBVIOUS
    <3>1. j \in 1..z
      BY <1>5, <1>7
    <3>2. CASE k \in 1..z
      BY <1>5, <1>7, <3>1, <3>2 DEF Threaded
    <3>3. CASE k = z + 1
      BY <1>4, <1>7, <3>1, <3>3
    <3> QED BY <2>1, <3>2, <3>3
  <2>3. \A k \in 1..Len(r) : r[k] <= next_free_index'
    <3> SUFFICES ASSUME NEW k \in 1..Len(r) PROVE r[k] <= n
      BY <1>1
    <3>1. CASE k \in 1..z
      BY <1>3, <1>4, <1>7, <3>1
    <3>2. CASE k = z + 1
      BY <1>3, <1>7, <3>2
    <3> QED BY <2>1, <3>1, <3>2
  <2>4. ASSUME NEW k \in 1..z, k # z PROVE next'[s[k]] = At(r, k + 1)
    <3>1. k \in 1..z /\ z \in 1..z /\ k < z /\ k + 1 # z + 1 /\ k + 1 \in Int
      BY <1>5, <2>4
    <3>2. s[k] # s[z] /\ tail[l] = s[z]
      BY <1>4, <1>5, <1>9, <3>1, AtIs, SMTT(60) DEF Threaded
    <3>3. next'[s[k]] = next[s[k]]
      BY <1>4, <1>11, <3>2
    <3>4. next[s[k]] = At(s, k + 1)
      BY <1>5, <3>1 DEF Threaded
    <3> QED BY <1>6, <3>1, <3>3, <3>4
  <2>5. ASSUME NEW k \in 1..z PROVE prev'[s[k]] = At(r, k - 1)
    <3>1. prev'[s[k]] = prev[s[k]]
      BY <1>1, <1>2, <1>4 DEF BookTypes
    <3>2. prev[s[k]] = At(s, k - 1)
      BY <1>5 DEF Threaded
    <3>3. k - 1 \in Int /\ k - 1 # z + 1
      BY <1>5
    <3> QED BY <1>6, <3>1, <3>2, <3>3
  <2>6. prev'[n] = At(r, z + 1 - 1) /\ next'[n] = At(r, z + 1 + 1)
    <3>1. z + 1 - 1 = z /\ z # z + 1 /\ z + 1 + 1 # z + 1 /\ z + 1 + 1 \in Int /\ z \in Int /\ z + 1 + 1 \notin 1..z
      BY <1>5
    <3>2. At(s, z + 1 + 1) = NULL
      BY <3>1 DEF At
    <3>3. At(r, z) = At(s, z) /\ At(r, z + 1 + 1) = NULL
      BY <1>6, <3>1, <3>2
    <3>4. prev'[n] = tail[l]
      BY <1>1, <1>2, <1>3 DEF BookTypes
    <3> QED BY <1>9, <1>12, <3>1, <3>3, <3>4
  <2>7. ASSUME NEW k \in 1..Len(r) PROVE next'[r[k]] = At(r, k + 1) /\ prev'[r[k]] = At(r, k - 1)
    <3>1. CASE k = z + 1
      BY <1>7, <2>6, <3>1
    <3>2. CASE k \in 1..z /\ k # z
      BY <1>7, <2>4, <2>5, <3>2
    <3>3. CASE k = z
      <4>1. z # 0 /\ k \in 1..z /\ z + 1 \in Int
        BY <1>5, <3>3
      <4>2. next'[s[k]] = n /\ At(r, z + 1) = n
        BY <1>6, <1>12, <3>3, <4>1
      <4> QED BY <1>7, <2>5, <3>3, <4>1, <4>2
    <3> QED BY <2>1, <3>1, <3>2, <3>3
  <2>8. head'[l] = At(r, 1)
    <3>1. CASE z = 0
      <4>1. head'[l] = n
        BY <1>2, <1>12, <3>1 DEF BookTypes
      <4>2. 1 \in Int /\ 1 = z + 1
        BY <3>1
      <4> QED BY <1>6, <4>1, <4>2
    <3>2. CASE z # 0
      BY <1>5, <1>6, <1>9, <1>12, <3>2
    <3> QED BY <3>1, <3>2
  <2>9. tail'[l] = At(r, Len(r))
    BY <1>1, <1>2, <1>5, <1>6, <1>7 DEF BookTypes
  <2>10. \A x : <<l, x>> \in live' => \E k \in 1..Len(r) : r[k] = x
    <3> SUFFICES ASSUME NEW x, <<l, x>> \in live' PROVE \E k \in 1..Len(r) : r[k] = x
      OBVIOUS
    <3>1. CASE x = n
      <4>1. z + 1 \in 1..Len(r)
        BY <1>5, <1>7
      <4> QED BY <1>7, <3>1, <4>1
    <3>2. CASE <<l, x>> \in live
      <4>1. PICK k \in 1..z : s[k] = x
        BY <1>5, <3>2 DEF Threaded
      <4>2. k \in 1..Len(r)
        BY <1>5, <1>7
      <4> QED BY <1>7, <4>1, <4>2
    <3> QED BY <1>1, <3>1, <3>2
  <2> HIDE DEF r
  <2>11. ASSUME NEW t, t = r PROVE Threaded(t, l)'
    BY <2>2, <2>3, <2>7, <2>8, <2>9, <2>10, <2>11 DEF Threaded
  <2> QED BY <2>11
<1>17. ASSUME NEW m \in Levels PROVE Threaded(p[m], m)'
  BY <1>8, <1>15, <1>16
<1> QED BY <1>3, <1>4, <1>8, <1>13, <1>14, <1>17 DEF Linked, Disjoint

(* s without its k-th element.                                              *)
Without(s, k) == SubSeq(s, 1, k - 1) \o SubSeq(s, k + 1, Len(s))

(* The elements of a sequence with one less.                                *)
LEMMA WithoutIs ==
  ASSUME NEW S, NEW s \in Seq(S), NEW k \in 1..Len(s), NEW r, r = Without(s, k)
  PROVE  /\ r \in Seq(S) /\ Len(r) = Len(s) - 1
         /\ \A j \in 1..Len(r) : r[j] = IF j < k THEN s[j] ELSE s[j + 1]
<1> DEFINE a == SubSeq(s, 1, k - 1)
           b == SubSeq(s, k + 1, Len(s))
<1>1. a \in Seq(S) /\ Len(a) = k - 1 /\ \A j \in 1..(k - 1) : a[j] = s[j]
  BY SubSeqProperties
<1>2. b \in Seq(S) /\ Len(b) = Len(s) - k /\ \A j \in 1..(Len(s) - k) : b[j] = s[k + j]
  BY SubSeqProperties
<1>3. r = a \o b
  BY DEF Without
<1> HIDE DEF a, b
<1>c. /\ r \in Seq(S) /\ Len(r) = Len(a) + Len(b)
      /\ \A j \in 1..(Len(a) + Len(b)) : r[j] = IF j <= Len(a) THEN a[j] ELSE b[j - Len(a)]
  <2>1. a \in Seq(S) /\ b \in Seq(S)
    BY <1>1, <1>2
  <2> QED BY <2>1, <1>3
<1>4. r \in Seq(S) /\ Len(r) = Len(s) - 1
  <2>1. Len(s) \in Nat /\ k \in 1..Len(s)
    OBVIOUS
  <2> QED BY <2>1, <1>1, <1>2, <1>c
<1>5. ASSUME NEW j \in 1..Len(r) PROVE r[j] = IF j < k THEN s[j] ELSE s[j + 1]
  <2>1. CASE j < k
    <3>1. j \in 1..(k - 1)
      BY <2>1
    <3> QED BY <1>1, <1>2, <1>3, <2>1, <3>1
  <2>2. CASE ~(j < k)
    <3>1. j - (k - 1) \in 1..(Len(s) - k) /\ k + (j - (k - 1)) = j + 1 /\ j > k - 1
      BY <1>4, <2>2
    <3>2. r[j] = b[j - (k - 1)]
      <4>1. j \in 1..(Len(a) + Len(b)) /\ ~(j <= Len(a)) /\ Len(a) = k - 1
        BY <1>1, <1>c, <3>1
      <4> QED BY <1>c, <4>1
    <3> QED BY <1>2, <2>2, <3>1, <3>2
  <2> QED BY <2>1, <2>2
<1> QED BY <1>4, <1>5

(* The same, with NULL at both ends.                                        *)
LEMMA WithoutAt ==
  ASSUME NEW s \in Seq(Book!Nodes), NEW k \in 1..Len(s), NEW r, r = Without(s, k), NEW j \in Nat
  PROVE  At(r, j) = IF j < k THEN At(s, j) ELSE At(s, j + 1)
<1> DEFINE S == Book!Nodes
<1>0. s \in Seq(S)
  OBVIOUS
<1> HIDE DEF S
<1>1. /\ r \in Seq(S) /\ Len(r) = Len(s) - 1
      /\ \A x \in 1..Len(r) : r[x] = IF x < k THEN s[x] ELSE s[x + 1]
  BY <1>0, WithoutIs, SMTT(60)
<1>2. j < k => (j \in 1..Len(r) <=> j \in 1..Len(s))
  BY <1>1
<1>3. ~(j < k) => (j \in 1..Len(r) <=> j + 1 \in 1..Len(s))
  BY <1>1
<1> QED BY <1>1, <1>2, <1>3 DEF At

(* cancel_order takes the node out of its list.                             *)
LEMMA CancelLinks ==
  ASSUME NEW q, Linked(q), NEW l \in Levels, NEW n \in Book!Nodes, Book!cancel_order(l, n),
         NEW k \in 1..Len(q[l]), q[l][k] = n, NEW p, p = [q EXCEPT ![l] = Without(q[l], k)]
  PROVE  Linked(p)'
<1> DEFINE s == q[l]
           z == Len(s)
           r == Without(s, k)
           y == Len(r)
<1>1. /\ Book!unlinkForward(l, n) /\ Book!unlinkBackward(l, n)
      /\ total_volume' = [total_volume EXCEPT ![l] = Book!volumeWithout(l, n)]
      /\ live' = live \ {<<l, n>>} /\ next_free_index' = next_free_index /\ quantity' = quantity
  BY DEF Book!cancel_order
<1>2. BookTypes /\ q \in [Levels -> Seq(Book!Nodes)] /\ Disjoint(q) /\ \A m \in Levels : Threaded(q[m], m)
  BY DEF Linked
<1>3. s \in Seq(Book!Nodes) /\ z \in Nat /\ Threaded(s, l) /\ k \in 1..z /\ s[k] = n /\ k \in Nat
  BY <1>2
<1>4. /\ r \in Seq(Book!Nodes) /\ y = z - 1 /\ y \in Nat
      /\ \A j \in 1..y : r[j] = IF j < k THEN s[j] ELSE s[j + 1]
  <2>1. /\ r \in Seq(Book!Nodes) /\ y = z - 1
        /\ \A j \in 1..y : r[j] = IF j < k THEN s[j] ELSE s[j + 1]
    <3> HIDE DEF s, r
    <3> QED BY <1>3, WithoutIs, SMTT(60) DEF r
  <2> QED BY <1>3, <2>1
<1>5. \A j \in Nat : At(r, j) = IF j < k THEN At(s, j) ELSE At(s, j + 1)
  BY <1>3, WithoutAt
<1>6. p \in [Levels -> Seq(Book!Nodes)] /\ p[l] = r /\ \A m \in Levels : m # l => p[m] = q[m]
  BY <1>2, <1>4
<1>7. next[n] = At(s, k + 1) /\ prev[n] = At(s, k - 1) /\ head[l] = At(s, 1) /\ tail[l] = At(s, z)
  BY <1>3 DEF Threaded
<1>8. ASSUME NEW j \in 1..z PROVE s[j] \in Book!Nodes /\ s[j] \in Nat
  <2>1. s[j] \in Book!Nodes
    BY <1>3
  <2> QED BY <2>1, BookConstants DEF Book!Nodes
<1>9. ASSUME NEW j \in 1..z, NEW x \in 1..z, s[j] = s[x] PROVE j = x
  <2>1. j < x => s[j] < s[x]
    BY <1>3 DEF Threaded
  <2>2. x < j => s[x] < s[j]
    BY <1>3 DEF Threaded
  <2>3. s[j] \in Nat /\ s[x] \in Nat
    BY <1>8
  <2> QED BY <1>9, <2>1, <2>2, <2>3
<1> HIDE DEF z, r, y
<1>10. /\ k > 1 => k - 1 \in 1..z /\ prev[n] = s[k - 1] /\ prev[n] # NULL
       /\ k = 1 => prev[n] = NULL
       /\ k < z => k + 1 \in 1..z /\ next[n] = s[k + 1] /\ next[n] # NULL
       /\ k = z => next[n] = NULL
       /\ prev[n] \in Book!Pointer /\ next[n] \in Book!Pointer
  <2>1. k - 1 \in Int /\ k + 1 \in Int /\ (k > 1 <=> k - 1 \in 1..z) /\ (k < z <=> k + 1 \in 1..z)
    BY <1>3
  <2>2. /\ At(s, k - 1) = NULL <=> k - 1 \notin 1..z
        /\ At(s, k + 1) = NULL <=> k + 1 \notin 1..z
        /\ At(s, k - 1) \in Book!Pointer /\ At(s, k + 1) \in Book!Pointer
    BY <1>3, <2>1, AtNull DEF z
  <2>3. (k - 1 \in 1..z => At(s, k - 1) = s[k - 1]) /\ (k + 1 \in 1..z => At(s, k + 1) = s[k + 1])
    BY AtIs DEF z
  <2> QED BY <1>3, <1>7, <2>1, <2>2, <2>3
<1>11. /\ k > 1 => next' = [next EXCEPT ![s[k - 1]] = At(s, k + 1)] /\ head' = head
       /\ k = 1 => next' = next /\ head' = [head EXCEPT ![l] = At(s, k + 1)]
  BY <1>1, <1>7, <1>10 DEF Book!unlinkForward
<1>12. /\ k < z => prev' = [prev EXCEPT ![s[k + 1]] = At(s, k - 1)] /\ tail' = tail
       /\ k = z => prev' = prev /\ tail' = [tail EXCEPT ![l] = At(s, k - 1)]
  BY <1>1, <1>7, <1>10 DEF Book!unlinkBackward
<1>13. /\ next' \in [Book!Nodes -> Book!Pointer] /\ head' \in [Levels -> Book!Pointer]
       /\ \A x \in Book!Nodes : (k > 1 => x # s[k - 1]) => next'[x] = next[x]
       /\ k > 1 => next'[s[k - 1]] = At(s, k + 1)
  <2>1. CASE k > 1
    <3>1. s[k - 1] \in Book!Nodes /\ At(s, k + 1) \in Book!Pointer
      BY <1>7, <1>8, <1>10, <2>1
    <3> QED BY <1>2, <1>11, <2>1, <3>1 DEF BookTypes
  <2>2. CASE k = 1
    BY <1>2, <1>7, <1>10, <1>11, <2>2 DEF BookTypes
  <2> QED BY <1>3, <2>1, <2>2
<1>14. /\ prev' \in [Book!Nodes -> Book!Pointer] /\ tail' \in [Levels -> Book!Pointer]
       /\ \A x \in Book!Nodes : (k < z => x # s[k + 1]) => prev'[x] = prev[x]
       /\ k < z => prev'[s[k + 1]] = At(s, k - 1)
  <2>1. CASE k < z
    <3>1. s[k + 1] \in Book!Nodes /\ At(s, k - 1) \in Book!Pointer
      BY <1>7, <1>8, <1>10, <2>1
    <3> QED BY <1>2, <1>12, <2>1, <3>1, ZenonT(60) DEF BookTypes
  <2>2. CASE k = z
    BY <1>2, <1>7, <1>10, <1>12, <2>2 DEF BookTypes
  <2> QED BY <1>3, <2>1, <2>2
<1>15. BookTypes'
  BY <1>1, <1>2, <1>13, <1>14 DEF BookTypes
<1>16. ASSUME NEW j \in 1..y PROVE (j < k => j \in 1..z /\ r[j] = s[j]) /\ (~(j < k) => j + 1 \in 1..z /\ r[j] = s[j + 1])
  BY <1>3, <1>4
<1>17. Disjoint(p)
  <2> SUFFICES ASSUME NEW x \in Levels, NEW w \in Levels, NEW j \in 1..Len(p[x]), NEW h \in 1..Len(p[w]), p[x][j] = p[w][h]
               PROVE  x = w
    BY DEF Disjoint
  <2>1. ASSUME NEW m \in Levels, NEW e \in 1..Len(p[m]) PROVE \E f \in 1..Len(q[m]) : p[m][e] = q[m][f]
    <3>1. CASE m = l
      BY <1>6, <1>16, <3>1 DEF y, z
    <3>2. CASE m # l
      BY <1>6, <3>2
    <3> QED BY <3>1, <3>2
  <2> QED BY <1>2, <2>1, SMTT(60) DEF Disjoint
<1>18. ASSUME NEW m \in Levels, m # l PROVE Threaded(p[m], m)'
  <2>1. ASSUME NEW j \in 1..Len(q[m]), NEW x \in 1..z PROVE q[m][j] # s[x]
    BY <1>2, <1>18 DEF Disjoint, z
  <2>2. ASSUME NEW j \in 1..Len(q[m]) PROVE next'[q[m][j]] = next[q[m][j]] /\ prev'[q[m][j]] = prev[q[m][j]]
    <3>1. q[m][j] \in Book!Nodes
      BY <1>2
    <3>2. (k > 1 => q[m][j] # s[k - 1]) /\ (k < z => q[m][j] # s[k + 1])
      BY <1>10, <2>1
    <3> QED BY <1>13, <1>14, <3>1, <3>2
  <2>3. head'[m] = head[m] /\ tail'[m] = tail[m]
    BY <1>2, <1>3, <1>11, <1>12, <1>18 DEF BookTypes
  <2>4. next_free_index' \in Nat /\ next_free_index <= next_free_index' /\ \A x : <<m, x>> \in live' => <<m, x>> \in live
    BY <1>1, <1>2 DEF BookTypes
  <2>5. q[m] \in Seq(Book!Nodes) /\ Threaded(q[m], m) /\ p[m] = q[m]
    BY <1>2, <1>6, <1>18
  <2> DEFINE t == q[m]
  <2>6. Threaded(t, m)'
    BY <1>2, <2>2, <2>3, <2>4, <2>5, ThreadedSame
  <2> QED BY <2>5, <2>6
<1>19. Threaded(r, l)'
  <2>1. \A j, x \in 1..y : j < x => r[j] < r[x]
    <3> SUFFICES ASSUME NEW j \in 1..y, NEW x \in 1..y, j < x PROVE r[j] < r[x]
      OBVIOUS
    <3> DEFINE J == IF j < k THEN j ELSE j + 1
               X == IF x < k THEN x ELSE x + 1
    <3>1. J \in 1..z /\ X \in 1..z /\ J < X /\ r[j] = s[J] /\ r[x] = s[X]
      BY <1>3, <1>16
    <3> HIDE DEF J, X
    <3> QED BY <1>3, <3>1 DEF Threaded, z
  <2>2. \A j \in 1..y : r[j] <= next_free_index'
    BY <1>1, <1>3, <1>16 DEF Threaded, z
  <2>3. ASSUME NEW j \in 1..y PROVE next'[r[j]] = At(r, j + 1)
    <3>0. j \in Nat /\ j + 1 \in Nat /\ j + 1 + 1 = j + 2
      BY <1>4
    <3>1. CASE j = k - 1
      <4>1. k > 1 /\ r[j] = s[k - 1] /\ ~(j + 1 < k) /\ j + 1 + 1 = k + 1
        BY <1>3, <1>16, <3>1
      <4>2. At(r, j + 1) = At(s, k + 1)
        BY <1>5, <3>0, <4>1
      <4> QED BY <1>13, <4>1, <4>2
    <3>2. CASE j < k - 1
      <4>1. j < k /\ j + 1 < k /\ j \in 1..z /\ r[j] = s[j] /\ j # k - 1
        BY <1>3, <1>16, <3>2
      <4>2. k > 1 => s[j] # s[k - 1]
        BY <1>9, <1>10, <4>1
      <4>3. next'[s[j]] = next[s[j]]
        BY <1>8, <1>13, <4>1, <4>2
      <4>4. next[s[j]] = At(s, j + 1)
        BY <1>3, <4>1 DEF Threaded, z
      <4> QED BY <1>5, <3>0, <4>1, <4>3, <4>4
    <3>3. CASE ~(j < k)
      <4>1. j + 1 \in 1..z /\ r[j] = s[j + 1] /\ j + 1 # k - 1 /\ ~(j + 1 < k)
        BY <1>3, <1>16, <3>3
      <4>2. k > 1 => s[j + 1] # s[k - 1]
        BY <1>9, <1>10, <4>1
      <4>3. next'[s[j + 1]] = next[s[j + 1]]
        BY <1>8, <1>13, <4>1, <4>2
      <4>4. next[s[j + 1]] = At(s, j + 1 + 1)
        BY <1>3, <4>1 DEF Threaded, z
      <4> QED BY <1>5, <3>0, <4>1, <4>3, <4>4
    <3> QED BY <1>3, <3>0, <3>1, <3>2, <3>3
  <2>4. ASSUME NEW j \in 1..y PROVE prev'[r[j]] = At(r, j - 1)
    <3>0. j \in Nat /\ j - 1 \in Nat /\ j - 1 + 1 = j /\ j + 1 - 1 = j
      BY <1>4
    <3>1. CASE j = k
      <4>1. r[j] = s[k + 1] /\ k < z /\ j - 1 < k
        BY <1>3, <1>4, <1>16, <3>1
      <4>2. At(r, j - 1) = At(s, k - 1)
        BY <1>5, <3>0, <3>1, <4>1
      <4> QED BY <1>14, <4>1, <4>2
    <3>2. CASE j < k
      <4>1. j \in 1..z /\ r[j] = s[j] /\ j # k + 1 /\ j - 1 < k
        BY <1>3, <1>16, <3>2
      <4>2. k < z => s[j] # s[k + 1]
        BY <1>9, <1>10, <4>1
      <4>3. prev'[s[j]] = prev[s[j]]
        BY <1>8, <1>14, <4>1, <4>2
      <4>4. prev[s[j]] = At(s, j - 1)
        BY <1>3, <4>1 DEF Threaded, z
      <4> QED BY <1>5, <3>0, <4>1, <4>3, <4>4
    <3>3. CASE j > k
      <4>1. j + 1 \in 1..z /\ r[j] = s[j + 1] /\ j + 1 # k + 1 /\ ~(j - 1 < k)
        BY <1>3, <1>16, <3>3
      <4>2. k < z => s[j + 1] # s[k + 1]
        BY <1>9, <1>10, <4>1
      <4>3. prev'[s[j + 1]] = prev[s[j + 1]]
        BY <1>8, <1>14, <4>1, <4>2
      <4>4. prev[s[j + 1]] = At(s, j + 1 - 1)
        <5>1. \A x \in 1..z : prev[s[x]] = At(s, x - 1)
          BY <1>3 DEF Threaded, z
        <5> QED BY <4>1, <5>1
      <4> QED BY <1>5, <3>0, <4>1, <4>3, <4>4
    <3> QED BY <1>3, <3>0, <3>1, <3>2, <3>3
  <2>5. head'[l] = At(r, 1)
    <3>1. CASE k > 1
      BY <1>3, <1>5, <1>7, <1>11, <3>1
    <3>2. CASE k = 1
      <4>1. head'[l] = At(s, k + 1) /\ ~(1 < k) /\ k + 1 = 1 + 1
        BY <1>2, <1>11, <3>2 DEF BookTypes
      <4> QED BY <1>5, <4>1
    <3> QED BY <1>3, <3>1, <3>2
  <2>6. tail'[l] = At(r, y)
    <3>1. CASE k < z
      <4>1. ~(y < k) /\ y + 1 = z /\ y \in Nat
        BY <1>3, <1>4, <3>1
      <4> QED BY <1>5, <1>7, <1>12, <3>1, <4>1
    <3>2. CASE k = z
      <4>1. y < k /\ y = k - 1 /\ y \in Nat
        BY <1>3, <1>4, <3>2
      <4>2. tail'[l] = At(s, k - 1)
        BY <1>2, <1>12, <3>2 DEF BookTypes
      <4> QED BY <1>5, <4>1, <4>2
    <3> QED BY <1>3, <3>1, <3>2
  <2>7. \A x : <<l, x>> \in live' => \E j \in 1..y : r[j] = x
    <3> SUFFICES ASSUME NEW x, <<l, x>> \in live, x # n PROVE \E j \in 1..y : r[j] = x
      BY <1>1
    <3>1. PICK j \in 1..z : s[j] = x
      BY <1>3 DEF Threaded, z
    <3>2. j # k
      BY <1>3, <3>1
    <3>3. CASE j < k
      <4>1. j \in 1..y
        BY <1>3, <1>4, <3>3
      <4> QED BY <1>16, <3>1, <3>3, <4>1
    <3>4. CASE j > k
      <4>1. j - 1 \in 1..y /\ ~(j - 1 < k) /\ j - 1 + 1 = j
        BY <1>3, <1>4, <3>4
      <4>2. r[j - 1] = s[j]
        BY <1>16, <4>1
      <4> QED BY <3>1, <4>1, <4>2
    <3> QED BY <1>3, <3>2, <3>3, <3>4
  <2>8. ASSUME NEW t, t = r PROVE Threaded(t, l)'
    <3>1. Len(t) = y
      BY <2>8 DEF y
    <3> QED BY <2>1, <2>2, <2>3, <2>4, <2>5, <2>6, <2>7, <2>8, <3>1 DEF Threaded
  <2> QED BY <2>8
<1>20. ASSUME NEW m \in Levels PROVE Threaded(p[m], m)'
  BY <1>6, <1>18, <1>19
<1> QED BY <1>6, <1>15, <1>17, <1>20 DEF Linked, Disjoint

(* The links spell some queues.                                             *)
BookInv == \E q : Linked(q)

(* The refinement mapping.                                                  *)
BookQueues == [l \in Levels |-> Book!Forward(l)]

(* The links spell the queues after a step, too.                            *)
LEMMA ForwardNext ==
  ASSUME NEW q PROVE (Linked(q) => [l \in Levels |-> Book!Forward(l)] = q)'
<1>1. Linked(q) => [l \in Levels |-> Book!Forward(l)] = q
  BY ForwardIs
<1> QED BY <1>1, PTL

(* The empty book spells empty queues.                                      *)
LEMMA BookStarts == SuiteInit => BookInv /\ Book!Queues!Init
<1> SUFFICES ASSUME SuiteInit PROVE BookInv /\ Book!Queues!Init
  OBVIOUS
<1>1. Book!Init
  BY DEF SuiteInit, BookIdle
<1> DEFINE q == [l \in Levels |-> <<>>]
<1>2. /\ next_free_index = 0 /\ head = [l \in Levels |-> NULL] /\ tail = head
      /\ total_volume = [l \in Levels |-> 0] /\ live = {} /\ prev = next
  BY <1>1 DEF Book!Init
<1>3. next \in [Book!Nodes -> Book!Pointer] /\ quantity \in [Book!Nodes -> Lots]
  BY <1>1 DEF Book!Init
<1>4. NULL \in Book!Pointer
  BY DEF Book!Pointer
<1>5. BookTypes
  BY <1>2, <1>3, <1>4 DEF BookTypes
<1>6. ASSUME NEW l \in Levels PROVE Threaded(q[l], l)
  BY <1>2, <1>6 DEF Threaded, At
<1>7. q \in [Levels -> Seq(Book!Nodes)] /\ Disjoint(q)
  BY DEF Disjoint
<1>8. Linked(q)
  BY <1>5, <1>6, <1>7 DEF Linked
<1>9. BookQueues = q
  BY <1>8, ForwardIs DEF BookQueues
<1> QED BY <1>2, <1>3, <1>8, <1>9 DEF BookInv, Book!Queues!Init, BookQueues

(* Every step keeps the invariant and is a step of the queues.              *)
LEMMA BookRefines ==
  BookInv /\ [SuiteNext]_<<subject, vars, ButAllocator>>
    => BookInv' /\ [Book!Queues!Next]_<<BookQueues, quantity, total_volume>>
<1> SUFFICES ASSUME BookInv, [Book!Next]_bookVars
             PROVE  BookInv' /\ [Book!Queues!Next]_<<BookQueues, quantity, total_volume>>
  BY BookStep
<1>0. PICK q : Linked(q)
  BY DEF BookInv
<1>1. BookQueues = q /\ q \in [Levels -> Seq(Book!Nodes)]
  BY <1>0, ForwardIs DEF BookQueues, Linked
<1>a. ASSUME NEW p, Linked(p)' PROVE BookInv' /\ BookQueues' = p
  <2>1. (Linked(p) => [l \in Levels |-> Book!Forward(l)] = p)'
    BY ForwardNext
  <2> QED BY <1>a, <2>1 DEF BookInv, BookQueues
<1>2. ASSUME NEW l \in Levels, NEW a \in Lots, Book!insert_order_at_level(l, a)
      PROVE  BookInv' /\ Book!Queues!Next
  <2>1. PICK n : n = next_free_index + 1
    OBVIOUS
  <2>2. PICK p : p = [q EXCEPT ![l] = Append(q[l], n)]
    OBVIOUS
  <2>3. Linked(p)' /\ n \in Book!Nodes /\ \A m \in Levels : \A k \in 1..Len(q[m]) : q[m][k] # n
    BY <1>0, <1>2, <2>1, <2>2, InsertLinks
  <2>4. BookInv' /\ BookQueues' = p
    BY <1>a, <2>3
  <2>5. ~Book!Queues!Waiting(n)
    <3> SUFFICES ASSUME NEW m \in Levels, n \in Book!Queues!Range(BookQueues[m]) PROVE FALSE
      BY DEF Book!Queues!Waiting, BookQueues
    <3>1. DOMAIN q[m] = 1..Len(q[m])
      BY <1>1
    <3> QED BY <1>1, <2>3, <3>1 DEF Book!Queues!Range
  <2>6. Book!Queues!Insert(l, n, a)
    <3>1. quantity' = [quantity EXCEPT ![n] = a] /\ total_volume' = [total_volume EXCEPT ![l] = (@ + a) % VolumeModulus]
      BY <1>2, <2>1 DEF Book!insert_order_at_level
    <3>2. BookQueues' = [BookQueues EXCEPT ![l] = Append(@, n)]
      BY <1>1, <2>2, <2>4
    <3> QED BY <2>5, <3>1, <3>2 DEF Book!Queues!Insert, BookQueues
  <2> QED BY <1>2, <2>3, <2>4, <2>6 DEF Book!Queues!Next
<1>3. ASSUME NEW l \in Levels, NEW n \in Book!Nodes, Book!cancel_order(l, n)
      PROVE  BookInv' /\ Book!Queues!Next
  <2>1. PICK k \in 1..Len(q[l]) : q[l][k] = n
    BY <1>0, <1>3 DEF Linked, Threaded, Book!cancel_order
  <2>2. PICK p : p = [q EXCEPT ![l] = Without(q[l], k)]
    OBVIOUS
  <2>3. Linked(p)'
    BY <1>0, <1>3, <2>1, <2>2, CancelLinks
  <2>4. BookInv' /\ BookQueues' = p
    BY <1>a, <2>3
  <2>5. Book!Queues!Cancel(l, n)
    <3>1. quantity' = quantity /\ total_volume' = [total_volume EXCEPT ![l] = (@ - quantity[n]) % VolumeModulus]
      BY <1>3 DEF Book!cancel_order, Book!volumeWithout
    <3>2. Book!Queues!RemoveAt(q[l], k) = Without(q[l], k)
      BY DEF Book!Queues!RemoveAt, Without
    <3>3. BookQueues' = [BookQueues EXCEPT ![l] = Book!Queues!RemoveAt(@, k)]
      BY <1>1, <2>2, <2>4, <3>2
    <3> QED BY <1>1, <2>1, <3>1, <3>3 DEF Book!Queues!Cancel, BookQueues
  <2> QED BY <1>3, <2>4, <2>5 DEF Book!Queues!Next
<1>4. CASE UNCHANGED bookVars
  <2>1. Linked(q)'
    BY <1>0, <1>4 DEF bookVars, Linked, BookTypes, Threaded
  <2> QED BY <1>1, <1>4, <1>a, <2>1 DEF bookVars
<1> QED BY <1>2, <1>3, <1>4 DEF Book!Next

(* For every pool and any number of levels: the linked lists in the pool    *)
(* implement first-in first-out queues from which any order may be          *)
(* cancelled.                                                               *)
THEOREM LevelsAreQueues == SuiteSpec => ImplementsQueues
<1>1. SuiteInit => BookInv /\ Book!Queues!Init
  BY BookStarts
<1>2. BookInv /\ [SuiteNext]_<<subject, vars, ButAllocator>>
        => BookInv' /\ [Book!Queues!Next]_<<[l \in Levels |-> Book!Forward(l)], quantity, total_volume>>
  BY BookRefines DEF BookQueues
<1> QED BY <1>1, <1>2, PTL DEF SuiteSpec, ImplementsQueues, Book!ImplementsQueues, Book!Queues!Spec

-----------------------------------------------------------------------------
(* The matching engine.                                                     *)

(* What happens to the engine is a step of its module or nothing.           *)
LEMMA EngineStep ==
  [SuiteNext]_<<subject, vars, ButAllocator>> => [Engine!Next]_engineVars
  BY DEF SuiteNext, ButAllocator, engineVars, ButBook, ButEngine, ButParser, ButStream, ButFraud, ButLedger, ButEncoder

(* What its constants may be.                                               *)
LEMMA EngineConstants == Prices \subseteq Int /\ Quantities \subseteq Nat \ {0} /\ MaxOrders \in Nat
  BY HistoriesAssumption DEF Engine!EngineAssumption

(* Orders as they rest.                                                     *)
Resters == [id : Nat, price : Int, quantity : Nat \ {0}]
(* Executions among the first n orders.                                     *)
Trades(n) == [maker : 1..n, taker : 1..n, price : Int, quantity : Nat]
(* Orders as they arrive, numbered by their place in the list.              *)
Submissions == [isBuy : BOOLEAN, price : Int, quantity : Nat \ {0}]

(* The order takes part in the execution.                                  *)
Of(e, id) == id \in {e.maker, e.taker}

(* What order id has traded in the first n trades of t.                     *)
Names(t, id, n) == {k \in 1..n : Of(t[k], id)}
(* What order id has traded in the first n trades of t.                     *)
Fill(t, id, n) == SumFunctionOnSet([k \in DOMAIN t |-> t[k].quantity], Names(t, id, n))
(* What order id has yet to trade.                                          *)
Open(o, t, id) == o[id].quantity - Fill(t, id, Len(t))

(* An order has finitely many trades, of so many shares each.               *)
LEMMA NamesFinite ==
  ASSUME NEW m, NEW t \in Seq(Trades(m)), NEW id, NEW n \in 0..Len(t)
  PROVE  /\ IsFiniteSet(Names(t, id, n)) /\ Names(t, id, n) \subseteq DOMAIN t
         /\ \A k \in Names(t, id, n) : [j \in DOMAIN t |-> t[j].quantity][k] \in Int
<1>0. n \in Nat /\ Len(t) \in Nat /\ DOMAIN t = 1..Len(t)
  OBVIOUS
<1>1. IsFiniteSet(1..n)
  BY <1>0, FS_Interval
<1>2. Names(t, id, n) \subseteq 1..n /\ Names(t, id, n) \subseteq DOMAIN t
  BY <1>0 DEF Names
<1>3. IsFiniteSet(Names(t, id, n))
  BY <1>1, <1>2, FS_Subset
<1>4. \A k \in DOMAIN t : t[k] \in Trades(m)
  BY <1>0
<1>5. \A k \in DOMAIN t : t[k].quantity \in Int
  BY <1>4 DEF Trades
<1> QED BY <1>2, <1>3, <1>5

(* So what it has traded is a number,                                       *)
LEMMA FillInt ==
  ASSUME NEW m, NEW t \in Seq(Trades(m)), NEW id, NEW n \in 0..Len(t)
  PROVE  Fill(t, id, n) \in Int
  BY NamesFinite, SumInt DEF Fill

(* u starts as t does.                                                      *)
Begins(u, t, n) == n <= Len(u) /\ \A k \in 1..n : u[k] = t[k]

(* which depends on the trades that are counted only,                       *)
LEMMA FillSame ==
  ASSUME NEW m, NEW t \in Seq(Trades(m)), NEW id, NEW n \in 0..Len(t),
         NEW u \in Seq(Trades(m)), Begins(u, t, n)
  PROVE  Fill(u, id, n) = Fill(t, id, n)
<1> USE DEF Begins
<1> DEFINE f == [k \in DOMAIN t |-> t[k].quantity]
           h == [k \in DOMAIN u |-> u[k].quantity]
<1>0. DOMAIN t = 1..Len(t) /\ DOMAIN u = 1..Len(u) /\ n \in Nat /\ Len(u) \in Nat /\ Len(t) \in Nat
  OBVIOUS
<1>1. Names(u, id, n) = Names(t, id, n)
  BY DEF Names
<1>2. /\ IsFiniteSet(Names(t, id, n)) /\ Names(t, id, n) \subseteq DOMAIN t
      /\ \A k \in Names(t, id, n) : f[k] \in Int
  BY NamesFinite
<1>3. \A k \in Names(t, id, n) : f[k] = h[k]
  BY <1>0 DEF Names
<1> HIDE DEF f, h
<1>4. SumFunctionOnSet(f, Names(t, id, n)) = SumFunctionOnSet(h, Names(t, id, n))
  BY <1>2, <1>3, SumSame
<1> QED BY <1>1, <1>4 DEF Fill, f, h

(* is zero if none of them is the order's,                                  *)
LEMMA FillNone ==
  ASSUME NEW t, NEW id, NEW n, \A k \in 1..n : ~Of(t[k], id)
  PROVE  Fill(t, id, n) = 0
<1>1. Names(t, id, n) = {}
  BY DEF Names
<1> QED BY <1>1, SumEmpty DEF Fill

(* and grows by the quantity of its next trade.                             *)
LEMMA FillNext ==
  ASSUME NEW m \in Nat, NEW t \in Seq(Trades(m)), NEW e \in Trades(m), NEW id
  PROVE  /\ Of(e, id) => Fill(Append(t, e), id, Len(Append(t, e))) = Fill(t, id, Len(t)) + e.quantity
         /\ ~Of(e, id) => Fill(Append(t, e), id, Len(Append(t, e))) = Fill(t, id, Len(t))
         /\ Fill(t, id, Len(t)) \in Int
<1>0. PICK u : u = Append(t, e)
  OBVIOUS
<1> DEFINE n == Len(t)
           h == [k \in DOMAIN u |-> u[k].quantity]
           A == Names(u, id, n)
           B == Names(u, id, n + 1)
<1>1. /\ u \in Seq(Trades(m)) /\ n \in Nat /\ Len(u) = n + 1
      /\ (\A k \in 1..n : u[k] = t[k]) /\ u[n + 1] = e /\ DOMAIN u = 1..(n + 1)
  BY <1>0
<1> HIDE DEF n
<1>2. ASSUME NEW j \in 0..n PROVE Fill(u, id, j) = Fill(t, id, j)
  <2>1. j \in 0..Len(t) /\ Begins(u, t, j)
    BY <1>1 DEF n, Begins
  <2>2. u \in Seq(Trades(m)) /\ t \in Seq(Trades(m))
    BY <1>1
  <2> HIDE DEF h, A, B
  <2> QED BY <2>1, <2>2, FillSame
<1>3. /\ IsFiniteSet(B) /\ B \subseteq DOMAIN u
      /\ \A k \in B : h[k] \in Int
  BY <1>1, n + 1 \in 0..Len(u), NamesFinite
<1>4. h[n + 1] = e.quantity
  BY <1>1
<1>6. 1..(n + 1) = (1..n) \union {n + 1} /\ n + 1 \notin 1..n
  BY <1>1
<1>7. n \in 0..n /\ n + 1 \in 0..Len(u)
  BY <1>1
<1>8. Fill(u, id, n) = Fill(t, id, n) /\ Fill(u, id, n) \in Int
  BY <1>1, <1>2, <1>7, FillInt, n \in 0..Len(u)
<1>9. /\ Of(e, id) => Fill(u, id, n + 1) = Fill(t, id, n) + e.quantity
      /\ ~Of(e, id) => Fill(u, id, n + 1) = Fill(t, id, n)
  <2>1. CASE Of(e, id)
    <3>1. n + 1 \in B /\ B \ {n + 1} = A
      BY <1>1, <1>6, <2>1 DEF Names
    <3> HIDE DEF A, B, h
    <3>2. SumFunctionOnSet(h, B) = h[n + 1] + SumFunctionOnSet(h, A)
      BY <1>3, <3>1, SumSplit
    <3>3. SumFunctionOnSet(h, B) = Fill(u, id, n + 1) /\ SumFunctionOnSet(h, A) = Fill(u, id, n)
      BY DEF Fill, h, A, B
    <3>4. e.quantity \in Int
      BY DEF Trades
    <3> QED BY <1>4, <1>8, <2>1, <3>2, <3>3, <3>4
  <2>2. CASE ~Of(e, id)
    <3>1. B = A
      BY <1>1, <1>6, <2>2 DEF Names
    <3>2. Fill(u, id, n + 1) = Fill(u, id, n)
      BY <3>1 DEF Fill
    <3> QED BY <1>8, <2>2, <3>2
  <2> QED BY <2>1, <2>2
<1>10. /\ Of(e, id) => Fill(u, id, Len(u)) = Fill(t, id, Len(t)) + e.quantity
       /\ ~Of(e, id) => Fill(u, id, Len(u)) = Fill(t, id, Len(t))
       /\ Fill(t, id, Len(t)) \in Int
  BY <1>1, <1>8, <1>9 DEF n
<1> HIDE DEF h, A, B
<1> QED BY <1>0, <1>10, Zenon

(* x is a true entry at price p for one of the first n orders: it rests     *)
(* with what it has yet to trade.                                           *)
Good(o, t, side, n, p, x) ==
  /\ x \in Resters /\ x.id \in 1..n
  /\ o[x.id].price = p /\ o[x.id].isBuy = side /\ x.quantity = Open(o, t, x.id)

(* The queue at price p: true entries, in the order of arrival.             *)
Queue(o, t, side, n, p, s) ==
  /\ s \in Seq(Resters) /\ Len(s) > 0
  /\ \A k \in 1..Len(s) : Good(o, t, side, n, p, s[k])
  /\ \A j, k \in 1..Len(s) : j < k => s[j].id < s[k].id

(* Order id is in the queue.                                                *)
RestsIn(id, s) == \E k \in 1..Len(s) : s[k].id = id

(* One side of the book holds true queues, and every order of that side     *)
(* that has shares left is in the queue at its price.                       *)
Side(o, t, b, side, n) ==
  /\ IsFiniteSet(DOMAIN b) /\ DOMAIN b \subseteq Int
  /\ \A p \in DOMAIN b : Queue(o, t, side, n, p, b[p])
  /\ \A id \in 1..n : o[id].isBuy = side /\ Open(o, t, id) # 0 =>
       o[id].price \in DOMAIN b /\ RestsIn(id, b[o[id].price])

(* A trade of others leaves an order as it is,                              *)
LEMMA OpenKeeps ==
  ASSUME NEW m \in Nat, NEW t \in Seq(Trades(m)), NEW e \in Trades(m), NEW o, NEW id,
         ~Of(e, id)
  PROVE  Open(o, Append(t, e), id) = Open(o, t, id)
<1> DEFINE u == Append(t, e)
<1>1. Fill(u, id, Len(u)) = Fill(t, id, Len(t))
  BY FillNext
<1> QED BY <1>1 DEF Open

(* and a queue in which neither party rests,                                *)
LEMMA QueueKeeps ==
  ASSUME NEW m \in Nat, NEW t \in Seq(Trades(m)), NEW e \in Trades(m), NEW o, NEW side, NEW n, NEW p, NEW s,
         Queue(o, t, side, n, p, s), \A k \in 1..Len(s) : ~Of(e, s[k].id)
  PROVE  Queue(o, Append(t, e), side, n, p, s)
<1> DEFINE u == Append(t, e)
<1>1. ASSUME NEW k \in 1..Len(s) PROVE Good(o, u, side, n, p, s[k])
  <2>1. Open(o, u, s[k].id) = Open(o, t, s[k].id)
    BY OpenKeeps
  <2> HIDE DEF u
  <2> QED BY <2>1 DEF Good, Queue
<1> HIDE DEF u
<1>2. Queue(o, u, side, n, p, s)
  BY <1>1 DEF Queue
<1> QED BY <1>2 DEF u

(* and a side on which neither party is.                                    *)
LEMMA SideKeeps ==
  ASSUME NEW m \in Nat, NEW t \in Seq(Trades(m)), NEW e \in Trades(m), NEW o, NEW side, NEW n, NEW b,
         Side(o, t, b, side, n),
         \A id \in 1..n : o[id].isBuy = side => ~Of(e, id)
  PROVE  Side(o, Append(t, e), b, side, n)
<1> DEFINE u == Append(t, e)
<1>1. ASSUME NEW p \in DOMAIN b PROVE Queue(o, u, side, n, p, b[p])
  <2>1. Queue(o, t, side, n, p, b[p])
    BY DEF Side
  <2>2. \A k \in 1..Len(b[p]) : ~Of(e, b[p][k].id)
    BY <2>1 DEF Queue, Good
  <2> QED BY <2>1, <2>2, QueueKeeps
<1>2. ASSUME NEW id \in 1..n, o[id].isBuy = side PROVE Open(o, u, id) = Open(o, t, id)
  BY <1>2, OpenKeeps
<1> HIDE DEF u
<1>3. Side(o, u, b, side, n)
  BY <1>1, <1>2 DEF Side
<1> QED BY <1>3 DEF u

(* What popping the first element, or putting another in its place, makes   *)
(* of a sequence.                                                           *)
LEMMA HeadTail ==
  ASSUME NEW S, NEW s \in Seq(S), Len(s) > 0, NEW x \in S
  PROVE  /\ Head(s) = s[1] /\ Head(s) \in S /\ Len(s) \in Nat
         /\ Tail(s) \in Seq(S) /\ Len(Tail(s)) = Len(s) - 1
         /\ \A k \in 1..(Len(s) - 1) : Tail(s)[k] = s[k + 1]
         /\ <<x>> \o Tail(s) \in Seq(S) /\ Len(<<x>> \o Tail(s)) = Len(s)
         /\ (<<x>> \o Tail(s))[1] = x
         /\ \A k \in 2..Len(s) : (<<x>> \o Tail(s))[k] = s[k]
<1>1. /\ Head(s) = s[1] /\ Head(s) \in S /\ Len(s) \in Nat
      /\ Tail(s) \in Seq(S) /\ Len(Tail(s)) = Len(s) - 1
      /\ \A k \in 1..(Len(s) - 1) : Tail(s)[k] = s[k + 1]
  OBVIOUS
<1>2. <<x>> \in Seq(S) /\ Len(<<x>>) = 1 /\ <<x>>[1] = x
  OBVIOUS
<1> DEFINE h == <<x>>
           r == Tail(s)
<1> HIDE DEF h, r
<1>3. h \in Seq(S) /\ r \in Seq(S) /\ Len(h) = 1 /\ h[1] = x /\ Len(r) = Len(s) - 1
  BY <1>1, <1>2 DEF h, r
<1>4. h \o r \in Seq(S) /\ Len(h \o r) = Len(s) /\ (h \o r)[1] = x
  <2>1. h \o r \in Seq(S) /\ Len(h \o r) = Len(h) + Len(r) /\ \A i1 \in 1..(Len(h) + Len(r)) :
          (h \o r)[i1] = IF i1 <= Len(h) THEN h[i1] ELSE r[i1 - Len(h)]
    BY <1>3, ConcatProperties
  <2>2. 1 \in 1..(Len(h) + Len(r)) /\ Len(h) + Len(r) = Len(s)
    BY <1>1, <1>3
  <2> QED BY <1>3, <2>1, <2>2
<1>5. ASSUME NEW k \in 2..Len(s) PROVE (h \o r)[k] = s[k]
  <2>1. k - 1 \in 1..(Len(s) - 1) /\ k - 1 + 1 = k
    BY <1>1
  <2>2. (h \o r)[k] = r[k - 1]
    <3>1. k \in 1..(Len(h) + Len(r)) /\ ~(k <= Len(h)) /\ k - Len(h) = k - 1
      BY <1>1, <1>3
    <3>2. \A i1 \in 1..(Len(h) + Len(r)) : (h \o r)[i1] = IF i1 <= Len(h) THEN h[i1] ELSE r[i1 - Len(h)]
      BY <1>3, ConcatProperties
    <3> QED BY <3>1, <3>2
  <2>3. r[k - 1] = s[k]
    BY <1>1, <2>1 DEF r
  <2> QED BY <2>2, <2>3
<1>6. /\ <<x>> \o Tail(s) \in Seq(S) /\ Len(<<x>> \o Tail(s)) = Len(s)
      /\ (<<x>> \o Tail(s))[1] = x
      /\ \A k \in 2..Len(s) : (<<x>> \o Tail(s))[k] = s[k]
  BY <1>4, <1>5 DEF h, r
<1> QED BY <1>1, <1>6

(* What the queue of the maker is after it has traded.                      *)
LEMMA HeadTraded ==
  ASSUME NEW m \in Nat, NEW t \in Seq(Trades(m)), NEW e \in Trades(m),
         NEW o \in Seq(Submissions), NEW side, NEW n \in 0..Len(o), NEW p, NEW s,
         Queue(o, t, side, n, p, s), e.maker = s[1].id, e.taker \notin 1..n,
         e.quantity \in 1..s[1].quantity,
         NEW v, v = Engine!updatedMakerOrders(s, e.quantity)
  PROVE  /\ v = <<>> \/ Queue(o, Append(t, e), side, n, p, v)
         /\ \A k \in 2..Len(s) : v # <<>> /\ RestsIn(s[k].id, v)
         /\ e.quantity # s[1].quantity => v # <<>> /\ RestsIn(s[1].id, v)
         /\ Open(o, Append(t, e), s[1].id) = s[1].quantity - e.quantity
<1> DEFINE u == Append(t, e)
           q == e.quantity
           x == [s[1] EXCEPT !.quantity = @ - q]
<1>0. s \in Seq(Resters) /\ \A k \in 1..Len(s) : Good(o, t, side, n, p, s[k])
  BY DEF Queue
<1>1. /\ s \in Seq(Resters) /\ Len(s) > 0 /\ Len(s) \in Nat
      /\ \A k \in 1..Len(s) : s[k] \in Resters /\ Good(o, t, side, n, p, s[k])
      /\ \A j, k \in 1..Len(s) : j < k => s[j].id < s[k].id
  <2>1. \A k \in 1..Len(s) : s[k] \in Resters
    BY <1>0
  <2>2. Len(s) \in Nat
    BY <1>0
  <2> QED BY <1>0, <2>1, <2>2 DEF Queue
<1>2. /\ 1 \in 1..Len(s) /\ s[1] \in Resters /\ s[1].id \in Nat /\ s[1].price \in Int /\ s[1].quantity \in Nat
      /\ q \in Nat /\ q > 0 /\ q <= s[1].quantity
  <2>1. 1 \in 1..Len(s)
    BY ONLY <1>1
  <2>2. s[1] \in Resters
    BY ONLY <1>1, <2>1
  <2>3. s[1].id \in Nat /\ s[1].price \in Int /\ s[1].quantity \in Nat
    BY ONLY <2>2 DEF Resters
  <2>4. q \in 1..s[1].quantity
    OBVIOUS
  <2>5. q \in Nat /\ q > 0 /\ q <= s[1].quantity
    BY ONLY <2>3, <2>4
  <2> QED BY <2>1, <2>2, <2>3, <2>5
<1>3. q # s[1].quantity => x \in Resters /\ x.id = s[1].id /\ x.quantity = s[1].quantity - q
  BY <1>2, SMTT(60) DEF Resters
<1>4. \A k \in 2..Len(s) : ~Of(e, s[k].id)
  <2> TAKE k \in 2..Len(s)
  <2>1. k \in 1..Len(s) /\ 1 < k
    BY <1>1
  <2>2. s[1].id < s[k].id /\ s[k].id \in 1..n
    BY <1>1, <1>2, <2>1 DEF Good
  <2> QED BY <1>2, <2>2, SMTT(60) DEF Of
<1>5. \A k \in 2..Len(s) : Good(o, u, side, n, p, s[k])
  <2> TAKE k \in 2..Len(s)
  <2>1. k \in 1..Len(s) /\ Good(o, t, side, n, p, s[k])
    BY <1>1
  <2>2. Open(o, u, s[k].id) = Open(o, t, s[k].id)
    BY <1>4, OpenKeeps
  <2> HIDE DEF u
  <2> QED BY <2>1, <2>2 DEF Good
<1>6. Open(o, u, s[1].id) = s[1].quantity - q
  <2>1. Fill(u, s[1].id, Len(u)) = Fill(t, s[1].id, Len(t)) + q
    BY FillNext, Of(e, s[1].id) DEF Of
  <2>2. Fill(t, s[1].id, Len(t)) \in Int
    BY FillNext
  <2>5. o[s[1].id].quantity \in Int
    <3>1. s[1].id \in 1..Len(o)
      BY <1>1, <1>2 DEF Good
    <3>2. o[s[1].id] \in Submissions
      BY <3>1
    <3> QED BY <3>2, SMTT(60) DEF Submissions
  <2>3. s[1].quantity = o[s[1].id].quantity - Fill(t, s[1].id, Len(t))
    BY <1>1, <1>2 DEF Good, Open
  <2> HIDE DEF u, q
  <2>4. o[s[1].id].quantity - Fill(t, s[1].id, Len(t)) - q = o[s[1].id].quantity - (Fill(t, s[1].id, Len(t)) + q)
    BY <1>2, <2>2, <2>5, SMTT(60)
  <2> QED BY <2>1, <2>3, <2>4 DEF Open
<1>7. q # s[1].quantity => Good(o, u, side, n, p, x)
  <2> HIDE DEF x, u, q
  <2> QED BY <1>1, <1>2, <1>3, <1>6 DEF Good
<1>8. Head(s) = s[1]
  BY <1>1
<1>9. ASSUME q = s[1].quantity
      PROVE  /\ v = <<>> \/ Queue(o, Append(t, e), side, n, p, v)
             /\ \A k \in 2..Len(s) : v # <<>> /\ RestsIn(s[k].id, v)
             /\ e.quantity # s[1].quantity => v # <<>> /\ RestsIn(s[1].id, v)
  <2>1. v = Tail(s)
    BY <1>8, <1>9 DEF Engine!updatedMakerOrders
  <2>2. v \in Seq(Resters) /\ Len(v) = Len(s) - 1 /\ \A k \in 1..(Len(s) - 1) : v[k] = s[k + 1]
    BY <1>1, <1>2, <2>1, HeadTail
  <2>3. \A k \in 1..(Len(s) - 1) : k + 1 \in 2..Len(s) /\ k + 1 \in 1..Len(s)
    BY <1>1
  <2> HIDE DEF u, x, q
  <2>4. v = <<>> \/ Len(v) > 0
    BY <1>1, <2>2
  <2>5. Len(v) > 0 => Queue(o, u, side, n, p, v)
    <3>1. \A k \in 1..Len(v) : v[k] = s[k + 1] /\ k + 1 \in 2..Len(s) /\ k + 1 \in 1..Len(s)
      BY <2>2, <2>3
    <3>2. \A k \in 1..Len(v) : Good(o, u, side, n, p, v[k])
      BY <1>5, <3>1
    <3>3. \A j, k \in 1..Len(v) : j < k => v[j].id < v[k].id
      <4> TAKE j, k \in 1..Len(v)
      <4>1. j < k => j + 1 < k + 1
        BY <2>2
      <4> QED BY <1>1, <3>1, <4>1
    <3> QED BY <2>2, <3>2, <3>3 DEF Queue
  <2>6. ASSUME NEW k \in 2..Len(s) PROVE v # <<>> /\ RestsIn(s[k].id, v)
    <3>1. k - 1 \in 1..(Len(s) - 1) /\ k - 1 + 1 = k /\ k - 1 \in 1..Len(v)
      BY <1>1, <2>2
    <3>2. v[k - 1] = s[k]
      BY <2>2, <3>1
    <3>3. v # <<>>
      BY <1>1, <2>2, <3>1
    <3>4. v[k - 1].id = s[k].id /\ k - 1 \in 1..Len(v)
      BY <3>1, <3>2
    <3> QED BY <3>3, <3>4 DEF RestsIn
  <2>7. e.quantity = s[1].quantity
    BY <1>9 DEF q
  <2> QED BY <2>4, <2>5, <2>6, <2>7 DEF u
<1>10. ASSUME q # s[1].quantity
       PROVE  /\ v = <<>> \/ Queue(o, Append(t, e), side, n, p, v)
              /\ \A k \in 2..Len(s) : v # <<>> /\ RestsIn(s[k].id, v)
              /\ e.quantity # s[1].quantity => v # <<>> /\ RestsIn(s[1].id, v)
  <2>1. v = <<x>> \o Tail(s)
    BY <1>8, <1>10 DEF Engine!updatedMakerOrders, Engine!Reduced
  <2> HIDE DEF u, x, q
  <2>2. v \in Seq(Resters) /\ Len(v) = Len(s) /\ v[1] = x /\ \A k \in 2..Len(s) : v[k] = s[k]
    BY <1>1, <1>3, <1>10, <2>1, HeadTail
  <2>3. \A k \in 1..Len(s) : k = 1 \/ k \in 2..Len(s)
    BY <1>1
  <2>4. \A k \in 1..Len(s) : v[k].id = s[k].id
    BY <1>3, <1>10, <2>2, <2>3
  <2>5. \A k \in 1..Len(s) : Good(o, u, side, n, p, v[k])
    BY <1>5, <1>7, <1>10, <2>2, <2>3
  <2>6. Queue(o, u, side, n, p, v)
    BY <1>1, <2>2, <2>4, <2>5 DEF Queue
  <2>7. \A k \in 1..Len(s) : RestsIn(s[k].id, v)
    BY <2>2, <2>4 DEF RestsIn
  <2>8. v # <<>>
    BY <1>1, <2>2
  <2> QED BY <1>2, <2>3, <2>6, <2>7, <2>8 DEF u
<1>11. Open(o, Append(t, e), s[1].id) = s[1].quantity - e.quantity
  BY <1>6
<1> HIDE DEF u, x, q
<1>12. CASE q = s[1].quantity
  BY <1>9, <1>11, <1>12
<1>13. CASE q # s[1].quantity
  BY <1>10, <1>11, <1>13
<1> QED BY <1>12, <1>13

(* A finite set of integers that is not empty has a least and a greatest    *)
(* member.                                                                  *)
LEMMA Extremes ==
  ASSUME NEW S, IsFiniteSet(S), S \subseteq Int, S # {}
  PROVE  (\E p \in S : \A q \in S : p <= q) /\ (\E p \in S : \A q \in S : p >= q)
<1> DEFINE Has(T) == (\E p \in T : \A q \in T : p <= q) /\ (\E p \in T : \A q \in T : p >= q)
           C == {T \in SUBSET S : T # {} /\ ~Has(T)}
<1> SUFFICES ASSUME C # {} PROVE FALSE
  OBVIOUS
<1> HIDE DEF Has
<1>1. PICK s \in C : \A T \in C : Cardinality(T) \in Nat /\ Cardinality(s) <= Cardinality(T)
  BY SmallestSet, C \subseteq SUBSET S
<1>2. PICK x \in s : TRUE
  OBVIOUS
<1>3. x \in Int /\ s \subseteq Int /\ IsFiniteSet(s)
  BY FS_Subset
<1> DEFINE r == s \ {x}
<1>4. IsFiniteSet(r) /\ Cardinality(r) = Cardinality(s) - 1
  BY <1>3, FS_RemoveElement
<1>5. r \notin C
  BY <1>1, <1>4
<1>6. CASE r = {}
  <2>1. s = {x}
    BY <1>6
  <2> QED BY <1>3, <2>1 DEF Has
<1>7. CASE r # {}
  <2>1. Has(r)
    BY <1>5, <1>7
  <2>2. PICK p \in r : \A q \in r : p <= q
    BY <2>1 DEF Has
  <2>3. PICK g \in r : \A q \in r : g >= q
    BY <2>1 DEF Has
  <2>4. p \in Int /\ g \in Int /\ p \in s /\ g \in s
    BY <1>3
  <2>5. \E w \in s : \A q \in s : w <= q
    <3>1. CASE x <= p
      <4>1. \A q \in s : x <= q
        BY <1>3, <2>2, <2>4, <3>1
      <4> QED BY <4>1
    <3>2. CASE p <= x
      <4>1. \A q \in s : p <= q
        BY <1>3, <2>2, <2>4, <3>2
      <4> QED BY <2>4, <4>1
    <3> QED BY <1>3, <2>4, <3>1, <3>2
  <2>6. \E w \in s : \A q \in s : w >= q
    <3>1. CASE x >= g
      <4>1. \A q \in s : x >= q
        BY <1>3, <2>3, <2>4, <3>1
      <4> QED BY <4>1
    <3>2. CASE g >= x
      <4>1. \A q \in s : g >= q
        BY <1>3, <2>3, <2>4, <3>2
      <4> QED BY <2>4, <4>1
    <3> QED BY <1>3, <2>4, <3>1, <3>2
  <2> QED BY <2>5, <2>6 DEF Has
<1> QED BY <1>6, <1>7

(* So bestPrice yields the best price of a book that is not empty.          *)
LEMMA BestIsBest ==
  ASSUME NEW b, IsFiniteSet(DOMAIN b), DOMAIN b \subseteq Int, DOMAIN b # {}, NEW isBuy \in BOOLEAN
  PROVE  /\ Engine!bestPrice(b, isBuy) \in DOMAIN b
         /\ \A q \in DOMAIN b : IF isBuy THEN Engine!bestPrice(b, isBuy) <= q
                                         ELSE Engine!bestPrice(b, isBuy) >= q
<1> DEFINE Best(p) == \A q \in DOMAIN b : IF isBuy THEN p <= q ELSE p >= q
<1>1. \E p \in DOMAIN b : Best(p)
  BY Extremes
<1>2. Engine!bestPrice(b, isBuy) = CHOOSE p \in DOMAIN b : Best(p)
  BY DEF Engine!bestPrice
<1> HIDE DEF Best
<1>3. Engine!bestPrice(b, isBuy) \in DOMAIN b /\ Best(Engine!bestPrice(b, isBuy))
  BY <1>1, <1>2
<1> QED BY <1>3 DEF Best

(* Book c is b with queue v at price p, or without p if v is empty.         *)
UpdatesTo(c, b, p, v) ==
  /\ v = <<>> => DOMAIN c = DOMAIN b \ {p}
  /\ v # <<>> => DOMAIN c = DOMAIN b /\ c[p] = v
  /\ DOMAIN c \subseteq DOMAIN b
  /\ \A x \in DOMAIN b : x # p => x \in DOMAIN c /\ c[x] = b[x]
  /\ c = [x \in DOMAIN c |-> c[x]]

(* That is what updatedMakerBook does.                                      *)
LEMMA UpdatedIs ==
  ASSUME NEW b, NEW p \in DOMAIN b, NEW v
  PROVE  UpdatesTo(Engine!updatedMakerBook(b, p, v), b, p, v)
<1> USE DEF UpdatesTo
<1> DEFINE c == Engine!updatedMakerBook(b, p, v)
<1>1. CASE v = <<>>
  <2>1. c = [x \in DOMAIN b \ {p} |-> b[x]]
    BY <1>1 DEF Engine!updatedMakerBook, Engine!Restrict
  <2> HIDE DEF c
  <2>2. UpdatesTo(c, b, p, v)
    BY <1>1, <2>1
  <2> QED BY <2>2 DEF c
<1>2. CASE v # <<>>
  <2>1. c = [x \in DOMAIN b |-> IF x = p THEN v ELSE b[x]]
    <3>1. DOMAIN b \union {p} = DOMAIN b
      OBVIOUS
    <3> QED BY <1>2, <3>1 DEF Engine!updatedMakerBook, Engine!Updated
  <2> HIDE DEF c
  <2>2. UpdatesTo(c, b, p, v)
    BY <1>2, <2>1
  <2> QED BY <2>2 DEF c
<1> QED BY <1>1, <1>2

(* The side of the makers is sound after an execution.                      *)
LEMMA TradedSide ==
  ASSUME NEW m \in Nat, NEW t \in Seq(Trades(m)), NEW e \in Trades(m),
         NEW o \in Seq(Submissions), NEW side, NEW n \in 0..Len(o), NEW b,
         Side(o, t, b, side, n), NEW p \in DOMAIN b, e.maker = b[p][1].id, e.taker \notin 1..n,
         e.quantity \in 1..b[p][1].quantity,
         NEW c, c = Engine!updatedMakerBook(b, p, Engine!updatedMakerOrders(b[p], e.quantity))
  PROVE  Side(o, Append(t, e), c, side, n) /\ DOMAIN c \subseteq DOMAIN b
<1> DEFINE u == Append(t, e)
           s == b[p]
           v == Engine!updatedMakerOrders(s, e.quantity)
<1>1. Queue(o, t, side, n, p, s)
  BY DEF Side
<1>2. /\ v = <<>> \/ Queue(o, u, side, n, p, v)
      /\ Open(o, u, s[1].id) = s[1].quantity - e.quantity
  BY <1>1, HeadTraded, SMTT(60)
<1>3. \A k \in 2..Len(s) : v # <<>> /\ RestsIn(s[k].id, v)
  BY <1>1, HeadTraded
<1>4. e.quantity # s[1].quantity => v # <<>> /\ RestsIn(s[1].id, v)
  BY <1>1, HeadTraded
<1>5. Open(o, u, s[1].id) = s[1].quantity - e.quantity
  BY <1>2
<1> HIDE DEF u, v
<1>6. UpdatesTo(c, b, p, v)
  BY UpdatedIs DEF v
<1>7. /\ v = <<>> => DOMAIN c = DOMAIN b \ {p}
      /\ v # <<>> => DOMAIN c = DOMAIN b /\ c[p] = v
      /\ DOMAIN c \subseteq DOMAIN b
  BY <1>6 DEF UpdatesTo
<1>8. \A x \in DOMAIN b : x # p => x \in DOMAIN c /\ c[x] = b[x]
  BY <1>6 DEF UpdatesTo
<1>9. s \in Seq(Resters) /\ Len(s) > 0 /\ Len(s) \in Nat /\ 1 \in 1..Len(s) /\ Good(o, t, side, n, p, s[1])
  <2>1. s \in Seq(Resters) /\ Len(s) > 0
    BY <1>1 DEF Queue
  <2>2. Len(s) \in Nat /\ 1 \in 1..Len(s)
    BY <2>1
  <2> QED BY <1>1, <2>1, <2>2 DEF Queue
<1>10. o[e.maker].price = p /\ s[1].quantity \in Nat
  BY <1>9 DEF Good, Resters
<1>11. ASSUME NEW x \in DOMAIN c PROVE Queue(o, u, side, n, x, c[x])
  <2>1. CASE x = p
    BY <1>2, <1>7, <2>1
  <2>2. CASE x # p
    <3>1. x \in DOMAIN b /\ c[x] = b[x] /\ Queue(o, t, side, n, x, b[x])
      BY <1>7, <1>8, <2>2 DEF Side
    <3>2. ASSUME NEW k \in 1..Len(b[x]) PROVE ~Of(e, b[x][k].id)
      <4>1. Good(o, t, side, n, x, b[x][k])
        BY <3>1 DEF Queue
      <4> QED BY <1>10, <2>2, <4>1 DEF Good, Of
    <3>3. Queue(o, u, side, n, x, b[x])
      BY <3>1, <3>2, QueueKeeps DEF u
    <3> QED BY <3>1, <3>3
  <2> QED BY <2>1, <2>2
<1>12. ASSUME NEW id \in 1..n, o[id].isBuy = side, Open(o, u, id) # 0
       PROVE  o[id].price \in DOMAIN c /\ RestsIn(id, c[o[id].price])
  <2>1. CASE Of(e, id)
    <3>1. id = s[1].id
      BY <2>1 DEF Of
    <3>2. e.quantity # s[1].quantity
      BY <1>5, <1>10, <1>12, <3>1
    <3> QED BY <1>4, <1>7, <1>10, <3>1, <3>2
  <2>2. CASE ~Of(e, id)
    <3>1. Open(o, t, id) = Open(o, u, id)
      BY <2>2, OpenKeeps DEF u
    <3>2. o[id].price \in DOMAIN b /\ RestsIn(id, b[o[id].price])
      BY <1>12, <3>1 DEF Side
    <3>3. CASE o[id].price # p
      BY <1>8, <3>2, <3>3
    <3>4. CASE o[id].price = p
      <4>1. PICK k \in 1..Len(s) : s[k].id = id
        BY <3>2, <3>4 DEF RestsIn
      <4>2. k # 1
        BY <2>2, <4>1 DEF Of
      <4>3. k \in 2..Len(s)
        BY <1>9, <4>2
      <4> QED BY <1>3, <1>7, <3>4, <4>1, <4>3
    <3> QED BY <3>3, <3>4
  <2> QED BY <2>1, <2>2
<1>13. IsFiniteSet(DOMAIN c) /\ DOMAIN c \subseteq Int
  BY <1>7, FS_Subset DEF Side
<1>14. Side(o, u, c, side, n)
  BY <1>11, <1>12, <1>13 DEF Side
<1> QED BY <1>7, <1>14 DEF u

(* The least of two numbers.                                                *)
LEMMA MinTwo ==
  ASSUME NEW a \in Nat, NEW b \in Nat
  PROVE  Engine!Min({a, b}) \in {a, b} /\ Engine!Min({a, b}) <= a /\ Engine!Min({a, b}) <= b
<1>1. \E x \in {a, b} : \A y \in {a, b} : x <= y
  <2>1. CASE a <= b
    BY <2>1
  <2>2. CASE b <= a
    BY <2>2
  <2> QED BY <2>1, <2>2
<1> DEFINE M == CHOOSE x \in {a, b} : \A y \in {a, b} : x <= y
<1>2. M \in {a, b} /\ \A y \in {a, b} : M <= y
  BY <1>1
<1>3. Engine!Min({a, b}) = M
  BY DEF Engine!Min
<1> QED BY <1>2, <1>3

(* Order a comes before order b in price-time priority.                     *)
Beats(o, a, b) ==
  \/ IF o[a].isBuy THEN o[a].price > o[b].price ELSE o[a].price < o[b].price
  \/ o[a].price = o[b].price /\ a < b

(* When trade k took place, all orders of the maker's side that come before *)
(* the maker had traded everything.                                         *)
PriorityAt(o, t, k) ==
  \A id \in 1..(t[k].taker - 1) :
    o[id].isBuy = o[t[k].maker].isBuy /\ Beats(o, id, t[k].maker) => Fill(t, id, k) = o[id].quantity

(* No trade passed over an order.                                           *)
Priority(o, t) == \A k \in 1..Len(t) : PriorityAt(o, t, k)

(* p is the best price of the side.                                         *)
IsBest(b, p, side) == p \in DOMAIN b /\ \A q \in DOMAIN b : IF side THEN p >= q ELSE p <= q

(* The first order at the best price is the one whose turn it is.           *)
LEMMA PriorityTraded ==
  ASSUME NEW m \in Nat, NEW t \in Seq(Trades(m)), NEW e \in Trades(m),
         NEW o \in Seq(Submissions), NEW side \in BOOLEAN, NEW n \in 0..Len(o), NEW b,
         Side(o, t, b, side, n), NEW p, IsBest(b, p, side),
         e.maker = b[p][1].id, e.taker = n + 1, Priority(o, t)
  PROVE  Priority(o, Append(t, e))
<1>0. PICK u : u = Append(t, e)
  OBVIOUS
<1>1. /\ u \in Seq(Trades(m)) /\ Len(t) \in Nat /\ Len(u) = Len(t) + 1
      /\ \A k \in 1..Len(t) : u[k] = t[k]
      /\ u[Len(u)] = e
  BY <1>0
<1>2. ASSUME NEW k \in 1..Len(t) PROVE PriorityAt(o, u, k)
  <2>1. u[k] = t[k] /\ k \in 0..Len(t)
    BY <1>1
  <2>2. Begins(u, t, k)
    BY <1>1 DEF Begins
  <2>3. \A id : Fill(u, id, k) = Fill(t, id, k)
    BY <1>1, <2>1, <2>2, FillSame
  <2>4. PriorityAt(o, t, k)
    BY DEF Priority
  <2> QED BY <2>1, <2>3, <2>4 DEF PriorityAt
<1>3. PICK s : s = b[p]
  OBVIOUS
<1>4. Queue(o, t, side, n, p, s) /\ e.maker = s[1].id
  BY <1>3 DEF Side, IsBest
<1>5. Len(s) \in Nat /\ 1 \in 1..Len(s) /\ s[1].id \in 1..n /\ o[s[1].id].price = p /\ o[s[1].id].isBuy = side
  <2>1. s \in Seq(Resters) /\ Len(s) > 0
    BY <1>4 DEF Queue
  <2>2. Len(s) \in Nat /\ 1 \in 1..Len(s)
    BY <2>1
  <2>3. Good(o, t, side, n, p, s[1])
    BY <1>4, <2>2 DEF Queue
  <2> QED BY <2>2, <2>3 DEF Good
<1>6. ASSUME NEW id \in 1..n, o[id].isBuy = side, Beats(o, id, s[1].id)
      PROVE  Fill(u, id, Len(u)) = o[id].quantity
  <2>1. id \in Int /\ s[1].id \in Int /\ id \in 1..Len(o) /\ n \in Nat
    BY <1>5
  <2>2. o[id] \in Submissions
    BY <2>1
  <2>3. o[id].price \in Int /\ o[id].quantity \in Int /\ p \in Int
    BY <2>2, <1>4, SMTT(60) DEF Submissions, Side, IsBest
  <2>4. id # s[1].id
    BY <1>5, <1>6, <2>1, <2>3, SMTT(60) DEF Beats
  <2>5. ~Of(e, id)
    BY <1>4, <2>1, <2>4 DEF Of
  <2>6. Fill(u, id, Len(u)) = Fill(t, id, Len(t)) /\ Fill(t, id, Len(t)) \in Int
    BY <1>0, <2>5, FillNext
  <2>7. Open(o, t, id) = 0
    <3> SUFFICES ASSUME Open(o, t, id) # 0 PROVE FALSE
      OBVIOUS
    <3>1. o[id].price \in DOMAIN b /\ RestsIn(id, b[o[id].price])
      BY <1>6 DEF Side
    <3>2. IF side THEN p >= o[id].price ELSE p <= o[id].price
      BY <3>1 DEF IsBest
    <3>3. o[id].price = p /\ id < s[1].id
      BY <1>5, <1>6, <2>3, <3>2, SMTT(60) DEF Beats
    <3>4. PICK j \in 1..Len(s) : s[j].id = id
      BY <1>3, <3>1, <3>3 DEF RestsIn
    <3>5. 1 < j
      BY <1>5, <2>4, <3>4
    <3>6. s[1].id < s[j].id
      BY <1>4, <1>5, <3>4, <3>5 DEF Queue
    <3> QED BY <2>1, <3>3, <3>4, <3>6
  <2> QED BY <2>3, <2>6, <2>7, SMTT(60) DEF Open
<1>7. PriorityAt(o, u, Len(u))
  <2>1. e.taker - 1 = n
    OBVIOUS
  <2> QED BY <1>1, <1>4, <1>5, <1>6, <2>1 DEF PriorityAt
<1>8. \A k \in 1..Len(u) : k \in 1..Len(t) \/ k = Len(u)
  BY <1>1
<1>9. Priority(o, u)
  BY <1>2, <1>7, <1>8 DEF Priority
<1> QED BY <1>0, <1>9, Zenon

(* The book of the makers after an execution of q shares at price p.        *)
After(b, p, q) == Engine!updatedMakerBook(b, p, Engine!updatedMakerOrders(b[p], q))

(* Execution e is the next one of order n + 1, against book b.              *)
Executes(n, o, t, side, other, b, tb, p, e) ==
  /\ n \in Nat /\ o \in Seq(Submissions) /\ Len(o) = n + 1 /\ t \in Seq(Trades(n + 1))
  /\ side \in BOOLEAN /\ other # side
  /\ Side(o, t, b, side, n) /\ Side(o, t, tb, other, n) /\ Priority(o, t)
  /\ IsBest(b, p, side)
  /\ e \in Trades(n + 1) /\ e.maker = b[p][1].id /\ e.taker = n + 1
  /\ e.quantity \in 1..b[p][1].quantity

(* An execution leaves both sides sound and reduces the newest order.       *)
LEMMA OneTrade ==
  ASSUME NEW n, NEW o, NEW t, NEW side, NEW other, NEW b, NEW tb, NEW p, NEW e,
         Executes(n, o, t, side, other, b, tb, p, e)
  PROVE  /\ Side(o, Append(t, e), After(b, p, e.quantity), side, n)
         /\ DOMAIN After(b, p, e.quantity) \subseteq DOMAIN b
         /\ Side(o, Append(t, e), tb, other, n)
         /\ Priority(o, Append(t, e))
         /\ Open(o, Append(t, e), n + 1) = Open(o, t, n + 1) - e.quantity
<1> USE DEF Executes
<1>1. n + 1 \in Nat /\ n \in 0..Len(o) /\ p \in DOMAIN b /\ e.taker \notin 1..n
  BY DEF IsBest
<1>2. /\ Side(o, Append(t, e), After(b, p, e.quantity), side, n)
      /\ DOMAIN After(b, p, e.quantity) \subseteq DOMAIN b
  <2>1. PICK c : c = After(b, p, e.quantity)
    OBVIOUS
  <2>2. c = Engine!updatedMakerBook(b, p, Engine!updatedMakerOrders(b[p], e.quantity))
    BY <2>1 DEF After
  <2>3. Side(o, Append(t, e), c, side, n) /\ DOMAIN c \subseteq DOMAIN b
    BY <1>1, <2>2, TradedSide
  <2> QED BY <2>1, <2>3
<1>3. ASSUME NEW id \in 1..n, o[id].isBuy = other PROVE ~Of(e, id)
  <2>1. Queue(o, t, side, n, p, b[p])
    BY <1>1 DEF Side
  <2>2. b[p] \in Seq(Resters) /\ Len(b[p]) > 0
    BY <2>1 DEF Queue
  <2>3. 1 \in 1..Len(b[p])
    BY <2>2
  <2>4. Good(o, t, side, n, p, b[p][1])
    BY <2>1, <2>3 DEF Queue
  <2> QED BY <1>1, <1>3, <2>4 DEF Good, Of
<1>4. Side(o, Append(t, e), tb, other, n)
  BY <1>1, <1>3, SideKeeps
<1>5. Priority(o, Append(t, e))
  BY <1>1, PriorityTraded
<1>6. Open(o, Append(t, e), n + 1) = Open(o, t, n + 1) - e.quantity
  <2>1. Fill(Append(t, e), n + 1, Len(Append(t, e))) = Fill(t, n + 1, Len(t)) + e.quantity
    BY <1>1, FillNext, Of(e, n + 1) DEF Of
  <2>2. Fill(t, n + 1, Len(t)) \in Int
    BY <1>1, FillNext
  <2>3. o[n + 1] \in Submissions
    BY n + 1 \in 1..Len(o)
  <2>4. o[n + 1].quantity \in Int /\ e.quantity \in Int
    BY <2>3 DEF Submissions, Trades
  <2>5. o[n + 1].quantity - (Fill(t, n + 1, Len(t)) + e.quantity) = o[n + 1].quantity - Fill(t, n + 1, Len(t)) - e.quantity
    BY <2>2, <2>4
  <2> QED BY <2>1, <2>5 DEF Open
<1> QED BY <1>2, <1>4, <1>5, <1>6

(* Books, as functions from prices to queues.                               *)
Books == UNION {[P -> Seq(Resters)] : P \in SUBSET Int}
(* The newest order, with what is left of it.                               *)
Takers(o, n) == [id : {n + 1}, price : {o[n + 1].price}, quantity : Nat]

(* A sound side is a book.                                                  *)
LEMMA BookOf ==
  ASSUME NEW o, NEW t, NEW b, NEW side, NEW n, Side(o, t, b, side, n), b = [x \in DOMAIN b |-> b[x]]
  PROVE  b \in Books
<1>1. \A x \in DOMAIN b : b[x] \in Seq(Resters)
  BY DEF Side, Queue
<1>2. b \in [DOMAIN b -> Seq(Resters)]
  BY <1>1
<1>3. DOMAIN b \in SUBSET Int
  BY SMTT(60) DEF Side
<1> QED BY <1>2, <1>3 DEF Books

(* What is true of all calls that the newest order, order n + 1, makes.     *)
CallInv(o, t, tb, n, D, side, c) ==
  /\ c.taker.quantity = Open(o, t \o c.execs, n + 1)
  /\ Side(o, t \o c.execs, c.makerBook, side, n)
  /\ Side(o, t \o c.execs, tb, o[n + 1].isBuy, n)
  /\ Priority(o, t \o c.execs)
  /\ DOMAIN c.makerBook \subseteq D

(* The arguments of a call.                                                 *)
CallTypes(o, n) ==
  [taker : Takers(o, n), makerBook : Books, isBuy : {o[n + 1].isBuy}, execs : Seq(Trades(n + 1))]

(* The calls for which all that is true.                                    *)
Calling(o, t, tb, n, D, side) == {c \in CallTypes(o, n) : CallInv(o, t, tb, n, D, side, c)}

(* Call c trades q shares with the first of the orders s at the best price. *)
Trading(c, best, s, q, e) ==
  /\ c = [taker |-> c.taker, makerBook |-> c.makerBook, isBuy |-> c.isBuy, execs |-> c.execs]
  /\ best = Engine!bestPrice(c.makerBook, c.isBuy)
  /\ s = c.makerBook[best] /\ q = Engine!Min({c.taker.quantity, Head(s).quantity})
  /\ e = [maker |-> Head(s).id, taker |-> c.taker.id, price |-> best, quantity |-> q]

(* Then that is what trade does.                                            *)
LEMMA TradeIs ==
  ASSUME NEW c, NEW best, NEW s, NEW q, NEW e, Trading(c, best, s, q, e)
  PROVE  Engine!trade(c) =
           [taker |-> Engine!Reduced(c.taker, q), makerBook |-> After(c.makerBook, best, q),
            isBuy |-> c.isBuy, execs |-> Append(c.execs, e)]
<1> USE DEF Trading
<1>1. Engine!trade(c) =
        [c EXCEPT !.taker = Engine!Reduced(@, q),
                  !.makerBook = Engine!updatedMakerBook(@, best, Engine!updatedMakerOrders(s, q)),
                  !.execs = Append(@, e)]
  BY DEF Engine!trade, Engine!execPrice
<1> QED BY <1>1, ZenonT(60) DEF After

(* A trade at the end of this order's trades is at the end of all trades.   *)
LEMMA AppendConcat ==
  ASSUME NEW S, NEW t \in Seq(S), NEW x \in Seq(S), NEW e \in S
  PROVE  t \o Append(x, e) = Append(t \o x, e)
<1>1. t \o x \in Seq(S) /\ Append(x, e) = x \o <<e>> /\ <<e>> \in Seq(S)
  BY ConcatProperties, AppendIsConcat
<1>2. Append(t \o x, e) = (t \o x) \o <<e>>
  BY <1>1, AppendIsConcat
<1>3. (t \o x) \o <<e>> = t \o (x \o <<e>>)
  BY <1>1, ConcatAssociative
<1> QED BY <1>1, <1>2, <1>3

(* The recursive call is one for which all that is true, with a smaller     *)
(* order.                                                                   *)
LEMMA TradeKeeps ==
  ASSUME NEW n \in Nat, NEW o \in Seq(Submissions), Len(o) = n + 1, NEW t \in Seq(Trades(n + 1)),
         NEW tb, NEW D, NEW side \in BOOLEAN, side # o[n + 1].isBuy, NEW c \in Calling(o, t, tb, n, D, side),
         c.taker.quantity > 0, Engine!crosses(c.taker, c.makerBook, c.isBuy)
  PROVE  /\ Engine!trade(c) \in Calling(o, t, tb, n, D, side)
         /\ Engine!trade(c).taker.quantity < c.taker.quantity
<1>1. CallInv(o, t, tb, n, D, side, c) /\ c \in CallTypes(o, n)
  BY DEF Calling
<1>2. /\ c = [taker |-> c.taker, makerBook |-> c.makerBook, isBuy |-> c.isBuy, execs |-> c.execs]
      /\ c.taker \in Takers(o, n) /\ c.makerBook \in Books /\ c.isBuy = o[n + 1].isBuy
      /\ c.execs \in Seq(Trades(n + 1))
  BY <1>1 DEF CallTypes
<1>3. /\ c.taker = [id |-> n + 1, price |-> o[n + 1].price, quantity |-> c.taker.quantity]
      /\ c.taker.quantity \in Nat /\ c.taker.id = n + 1
  BY <1>2 DEF Takers
<1>4. o[n + 1].isBuy \in BOOLEAN
  <2>1. o[n + 1] \in Submissions
    BY n + 1 \in 1..Len(o)
  <2> QED BY <2>1 DEF Submissions
<1>5. PICK isBuy \in BOOLEAN : isBuy = o[n + 1].isBuy
  BY <1>4
<1>7. PICK b : b = c.makerBook
  OBVIOUS
<1>8. PICK u : u = t \o c.execs
  OBVIOUS
<1>9. /\ u \in Seq(Trades(n + 1)) /\ c.taker.quantity = Open(o, u, n + 1)
      /\ Priority(o, u) /\ DOMAIN b \subseteq D
  BY <1>1, <1>2, <1>7, <1>8, ConcatProperties DEF CallInv
<1>10. Side(o, u, b, side, n) /\ Side(o, u, tb, isBuy, n)
  BY <1>1, <1>5, <1>7, <1>8 DEF CallInv
<1>11. PICK best : best = Engine!bestPrice(b, isBuy)
  OBVIOUS
<1>12. IsBest(b, best, side) /\ best \in Int
  <2>1. DOMAIN b # {}
    BY <1>7 DEF Engine!crosses
  <2>2. IsFiniteSet(DOMAIN b) /\ DOMAIN b \subseteq Int
    BY <1>10 DEF Side
  <2>3. /\ best \in DOMAIN b
        /\ \A q \in DOMAIN b : IF isBuy THEN best <= q ELSE best >= q
    BY <1>11, <2>1, <2>2, BestIsBest
  <2>4. IF side THEN ~isBuy ELSE isBuy
    BY <1>5
  <2> QED BY <2>2, <2>3, <2>4 DEF IsBest
<1>13. PICK s : s = b[best]
  OBVIOUS
<1>14. /\ Head(s) = s[1] /\ s[1].id \in 1..n /\ s[1].quantity \in Nat /\ s[1].quantity > 0
  <2>1. Queue(o, u, side, n, best, s)
    BY <1>10, <1>12, <1>13 DEF Side, IsBest
  <2>2. s \in Seq(Resters) /\ Len(s) > 0
    BY <2>1 DEF Queue
  <2>3. 1 \in 1..Len(s) /\ Head(s) = s[1] /\ s[1] \in Resters
    BY <2>2
  <2>4. Good(o, u, side, n, best, s[1])
    BY <2>1, <2>3 DEF Queue
  <2> QED BY <2>3, <2>4 DEF Good, Resters
<1>15. PICK q : q = Engine!Min({c.taker.quantity, s[1].quantity})
  OBVIOUS
<1>16. q \in Nat /\ q > 0 /\ q <= c.taker.quantity /\ q \in 1..s[1].quantity
  <2>1. q \in {c.taker.quantity, s[1].quantity} /\ q <= c.taker.quantity /\ q <= s[1].quantity
    BY <1>3, <1>14, <1>15, MinTwo
  <2> QED BY <1>3, <1>14, <2>1
<1>17. PICK e : e = [maker |-> s[1].id, taker |-> n + 1, price |-> best, quantity |-> q]
  OBVIOUS
<1>18. e \in Trades(n + 1) /\ e.maker = s[1].id /\ e.taker = n + 1 /\ e.quantity = q
  BY <1>12, <1>14, <1>16, <1>17 DEF Trades
<1>19. PICK b2 : b2 = After(b, best, q)
  OBVIOUS
<1>20. /\ Side(o, Append(u, e), b2, side, n) /\ DOMAIN b2 \subseteq DOMAIN b
       /\ Side(o, Append(u, e), tb, isBuy, n)
       /\ Priority(o, Append(u, e))
       /\ Open(o, Append(u, e), n + 1) = Open(o, u, n + 1) - e.quantity
  <2>1. e.quantity \in 1..b[best][1].quantity /\ e.maker = b[best][1].id
    BY <1>13, <1>16, <1>18
  <2>2. isBuy # side
    BY <1>5
  <2>3. /\ Side(o, Append(u, e), After(b, best, e.quantity), side, n)
        /\ DOMAIN After(b, best, e.quantity) \subseteq DOMAIN b
        /\ Side(o, Append(u, e), tb, isBuy, n)
        /\ Priority(o, Append(u, e))
        /\ Open(o, Append(u, e), n + 1) = Open(o, u, n + 1) - e.quantity
    <3>1. Executes(n, o, u, side, isBuy, b, tb, best, e)
      BY <1>9, <1>10, <1>12, <1>18, <2>1, <2>2 DEF Executes
    <3> QED BY <3>1, OneTrade
  <2> QED BY <1>18, <1>19, <2>3
<1>21. b2 \in Books
  <2>1. UpdatesTo(b2, b, best, Engine!updatedMakerOrders(s, q))
    BY <1>12, <1>13, <1>19, UpdatedIs DEF IsBest, After
  <2> QED BY <1>20, <2>1, BookOf DEF UpdatesTo
<1>22. PICK d : d = Engine!trade(c)
  OBVIOUS
<1>23. d = [taker |-> Engine!Reduced(c.taker, q), makerBook |-> b2,
            isBuy |-> o[n + 1].isBuy, execs |-> Append(c.execs, e)]
  <2>1. best = Engine!bestPrice(c.makerBook, c.isBuy) /\ s = c.makerBook[best]
    BY <1>2, <1>5, <1>7, <1>11, <1>13
  <2>2. q = Engine!Min({c.taker.quantity, Head(s).quantity})
    BY <1>14, <1>15
  <2>3. e = [maker |-> Head(s).id, taker |-> c.taker.id, price |-> best, quantity |-> q]
    BY <1>3, <1>14, <1>17
  <2>4. Trading(c, best, s, q, e)
    BY <1>2, <2>1, <2>2, <2>3 DEF Trading
  <2>5. Engine!trade(c) =
          [taker |-> Engine!Reduced(c.taker, q), makerBook |-> After(c.makerBook, best, q),
           isBuy |-> c.isBuy, execs |-> Append(c.execs, e)]
    BY <2>4, TradeIs
  <2> QED BY <1>2, <1>7, <1>19, <1>22, <2>5
<1>24. Engine!Reduced(c.taker, q) = [id |-> n + 1, price |-> o[n + 1].price, quantity |-> c.taker.quantity - q]
  BY <1>3 DEF Engine!Reduced
<1>25. c.taker.quantity - q \in Nat /\ c.taker.quantity - q < c.taker.quantity
  BY <1>3, <1>16
<1>26. Append(c.execs, e) \in Seq(Trades(n + 1)) /\ t \o Append(c.execs, e) = Append(u, e)
  BY <1>2, <1>8, <1>18, AppendConcat, SMTT(60)
<1>27. /\ d.taker = [id |-> n + 1, price |-> o[n + 1].price, quantity |-> c.taker.quantity - q]
       /\ d.makerBook = b2 /\ d.isBuy = o[n + 1].isBuy /\ d.execs = Append(c.execs, e)
       /\ d.taker.quantity = c.taker.quantity - q
       /\ d = [taker |-> d.taker, makerBook |-> d.makerBook, isBuy |-> d.isBuy, execs |-> d.execs]
  BY <1>23, <1>24
<1>28. d \in CallTypes(o, n)
  <2>1. d.taker \in Takers(o, n)
    BY <1>25, <1>27 DEF Takers
  <2> QED BY <1>21, <1>26, <1>27, <2>1 DEF CallTypes
<1>29. CallInv(o, t, tb, n, D, side, d)
  <2>1. d.taker.quantity = Open(o, Append(u, e), n + 1)
    BY <1>9, <1>18, <1>20, <1>27
  <2>3. t \o d.execs = Append(u, e)
    BY <1>26, <1>27
  <2> QED BY <1>5, <1>9, <1>20, <1>27, <2>1, <2>3 DEF CallInv
<1> QED BY <1>22, <1>25, <1>27, <1>28, <1>29 DEF Calling

(* The recursion stays in a set that is closed under its calls.             *)
LEMMA CallsFrom ==
  ASSUME NEW V, NEW c \in V, \A x \in V : Engine!deeper(x) \in V
  PROVE  /\ Engine!Calls(c) \in [Nat -> V] /\ Engine!Calls(c)[0] = c
         /\ \A n \in Nat : Engine!Calls(c)[n + 1] = Engine!deeper(Engine!Calls(c)[n])
<1> DEFINE G == [x \in Nat \X V |-> Engine!deeper(x[2])]
<1>1. G \in [Nat \X V -> V]
  OBVIOUS
<1>2. \A n \in Nat, x \in V : G[<<n, x>>] = Engine!deeper(x)
  OBVIOUS
<1> HIDE DEF G
<1>3. PICK f \in [Nat -> V] : Recurs(f, c, G)
  BY <1>1, Recursion
<1> DEFINE IsCalls(g) == g = [n \in Nat |-> IF n = 0 THEN c ELSE Engine!deeper(g[n - 1])]
<1>4. ASSUME NEW n \in Nat PROVE f[n] = IF n = 0 THEN c ELSE Engine!deeper(f[n - 1])
  <2>1. CASE n = 0
    BY <1>3, <2>1 DEF Recurs
  <2>2. CASE n # 0
    <3>1. n - 1 \in Nat /\ n - 1 + 1 = n
      BY <2>2
    <3>2. f[n - 1 + 1] = G[<<n - 1, f[n - 1]>>]
      BY <1>3, <3>1 DEF Recurs
    <3> QED BY <1>2, <1>3, <2>2, <3>1, <3>2
  <2> QED BY <2>1, <2>2
<1>5. IsCalls(f)
  <2>1. f = [n \in Nat |-> f[n]]
    BY <1>3
  <2> QED BY <1>4, <2>1
<1>6. Engine!Calls(c) = CHOOSE g : IsCalls(g)
  BY DEF Engine!Calls
<1>7. IsCalls(Engine!Calls(c))
  <2> HIDE DEF IsCalls
  <2> QED BY <1>5, <1>6
<1>8. PICK g : g = Engine!Calls(c)
  OBVIOUS
<1>9. g = [n \in Nat |-> IF n = 0 THEN c ELSE Engine!deeper(g[n - 1])]
  BY <1>7, <1>8
<1>10. g[0] = c /\ \A n \in Nat : g[n + 1] = Engine!deeper(g[n])
  <2>1. \A n \in Nat : n + 1 \in Nat /\ n + 1 # 0 /\ n + 1 - 1 = n
    OBVIOUS
  <2> QED BY <1>9, <2>1
<1>11. \A n \in Nat : g[n] \in V
  <2> DEFINE bad == {n \in Nat : g[n] \notin V}
  <2> SUFFICES ASSUME bad # {} PROVE FALSE
    OBVIOUS
  <2>1. PICK n \in bad : \A m \in bad : n <= m
    BY LeastNumber, bad \subseteq Nat
  <2>2. n # 0 /\ n - 1 \in Nat /\ n - 1 \notin bad /\ n - 1 + 1 = n
    BY <1>10, <2>1
  <2>3. g[n - 1] \in V /\ g[n] = Engine!deeper(g[n - 1])
    BY <1>10, <2>2
  <2> QED BY <2>1, <2>3
<1>12. g \in [Nat -> V]
  BY <1>9, <1>11
<1> QED BY <1>8, <1>10, <1>12

(* The taker would trade in another call.                                   *)
Goes(c) == c.taker.quantity > 0 /\ Engine!crosses(c.taker, c.makerBook, c.isBuy)

(* After as many calls as it has shares the taker is done.                  *)
LEMMA Settles ==
  ASSUME NEW n \in Nat, NEW o \in Seq(Submissions), Len(o) = n + 1, NEW t \in Seq(Trades(n + 1)),
         NEW tb, NEW D, NEW side \in BOOLEAN, side # o[n + 1].isBuy, NEW c \in Calling(o, t, tb, n, D, side)
  PROVE  /\ Engine!Calls(c)[c.taker.quantity] \in Calling(o, t, tb, n, D, side)
         /\ ~Goes(Engine!Calls(c)[c.taker.quantity])
<1> DEFINE V == Calling(o, t, tb, n, D, side)
           Q == c.taker.quantity
<1>1. ASSUME NEW x \in V PROVE x.taker.quantity \in Nat
  <2>1. x.taker \in Takers(o, n)
    BY DEF Calling, CallTypes
  <2> QED BY <2>1 DEF Takers
<1>2. ASSUME NEW x \in V, Goes(x)
      PROVE  Engine!deeper(x) \in V /\ Engine!deeper(x).taker.quantity < x.taker.quantity
  <2>1. Engine!deeper(x) = Engine!trade(x)
    BY <1>2 DEF Goes, Engine!deeper
  <2>2. x.taker.quantity > 0 /\ Engine!crosses(x.taker, x.makerBook, x.isBuy)
    BY <1>2 DEF Goes
  <2>3. Engine!trade(x) \in V /\ Engine!trade(x).taker.quantity < x.taker.quantity
    BY <2>2, TradeKeeps
  <2> QED BY <2>1, <2>3
<1>3. ASSUME NEW x \in V, ~Goes(x) PROVE Engine!deeper(x) = x
  BY <1>3 DEF Goes, Engine!deeper
<1>4. \A x \in V : Engine!deeper(x) \in V
  BY <1>2, <1>3
<1> HIDE DEF V
<1>5. c \in V
  BY DEF V
<1>6. PICK f : f = Engine!Calls(c)
  OBVIOUS
<1>7. f \in [Nat -> V] /\ f[0] = c /\ \A k \in Nat : f[k + 1] = Engine!deeper(f[k])
  BY <1>4, <1>5, <1>6, CallsFrom
<1>8. Q \in Nat
  BY <1>1, <1>5
<1> HIDE DEF Q
<1>9. ASSUME NEW k \in 0..Q PROVE f[k].taker.quantity <= Q - k \/ ~Goes(f[k])
  <2> DEFINE bad == {j \in 0..Q : ~(f[j].taker.quantity <= Q - j \/ ~Goes(f[j]))}
  <2> SUFFICES ASSUME bad # {} PROVE FALSE
    BY Zenon
  <2>1. PICK j \in bad : \A m \in bad : j <= m
    BY <1>8, LeastNumber, bad \subseteq Nat
  <2>2. j \in 0..Q /\ Goes(f[j]) /\ ~(f[j].taker.quantity <= Q - j)
    BY <2>1
  <2>0. f[0].taker.quantity = Q
    BY <1>7 DEF Q
  <2>3. j # 0
    BY <1>8, <2>0, <2>2
  <2>4. j - 1 \in 0..Q /\ j - 1 \in Nat /\ j - 1 + 1 = j /\ ~(j <= j - 1)
    BY <1>8, <2>2, <2>3
  <2>5. f[j - 1].taker.quantity <= Q - (j - 1) \/ ~Goes(f[j - 1])
    <3>1. j - 1 \notin bad
      BY <2>1, <2>4
    <3> QED BY <2>4, <3>1
  <2>6. f[j] = Engine!deeper(f[j - 1]) /\ f[j - 1] \in V /\ f[j] \in V /\ j \in Nat
    BY <1>7, <2>2, <2>4
  <2>7. Goes(f[j - 1])
    BY <1>3, <2>2, <2>6
  <2>8. f[j].taker.quantity < f[j - 1].taker.quantity
    BY <1>2, <2>6, <2>7
  <2>9. f[j].taker.quantity \in Nat /\ f[j - 1].taker.quantity \in Nat
    BY <1>1, <2>6
  <2> HIDE DEF bad
  <2> QED BY <1>8, <2>2, <2>5, <2>6, <2>7, <2>8, <2>9, SMTT(60)
<1>10. f[Q] \in V /\ f[Q].taker.quantity \in Nat
  BY <1>1, <1>7, <1>8
<1>11. ~Goes(f[Q])
  <2>1. f[Q].taker.quantity <= Q - Q \/ ~Goes(f[Q])
    BY <1>8, <1>9
  <2>2. f[Q].taker.quantity <= 0 => ~Goes(f[Q])
    BY <1>10 DEF Goes
  <2> QED BY <1>8, <2>1, <2>2
<1> QED BY <1>6, <1>10, <1>11 DEF V, Q

(* A side holds for one more order, if that one is of the other side or has *)
(* nothing left.                                                            *)
LEMMA SideNext ==
  ASSUME NEW o, NEW t, NEW b, NEW side, NEW n \in Nat, Side(o, t, b, side, n),
         o[n + 1].isBuy # side \/ Open(o, t, n + 1) = 0
  PROVE  Side(o, t, b, side, n + 1)
<1>1. 1..n \subseteq 1..(n + 1) /\ \A id \in 1..(n + 1) : id \in 1..n \/ id = n + 1
  OBVIOUS
<1>2. ASSUME NEW p \in DOMAIN b PROVE Queue(o, t, side, n + 1, p, b[p])
  <2>1. Queue(o, t, side, n, p, b[p])
    BY DEF Side
  <2> QED BY <1>1, <2>1 DEF Queue, Good
<1>3. ASSUME NEW id \in 1..(n + 1), o[id].isBuy = side, Open(o, t, id) # 0
      PROVE  o[id].price \in DOMAIN b /\ RestsIn(id, b[o[id].price])
  <2>1. id \in 1..n
    BY <1>1, <1>3
  <2> QED BY <1>3, <2>1 DEF Side
<1> QED BY <1>2, <1>3 DEF Side

(* A rest of the newest order at the end of the queue s, or of none.        *)
LEMMA QueueRests ==
  ASSUME NEW o, NEW t, NEW side, NEW n \in Nat, NEW p, NEW s,
         s = <<>> \/ Queue(o, t, side, n, p, s),
         NEW x, x.id = n + 1, Good(o, t, side, n + 1, p, x)
  PROVE  /\ s \o <<x>> = Append(s, x)
         /\ Queue(o, t, side, n + 1, p, Append(s, x))
         /\ RestsIn(n + 1, Append(s, x))
         /\ \A id : s # <<>> /\ RestsIn(id, s) => RestsIn(id, Append(s, x))
<1>1. x \in Resters
  BY DEF Good
<1>2. s \in Seq(Resters)
  <2>1. CASE s = <<>>
    BY <2>1
  <2>2. CASE Queue(o, t, side, n, p, s)
    BY <2>2 DEF Queue
  <2> QED BY <2>1, <2>2
<1>3. s \o <<x>> = Append(s, x)
  BY <1>1, <1>2, AppendIsConcat
<1>4. PICK u : u = Append(s, x)
  OBVIOUS
<1>5. PICK m \in Nat : m = Len(s)
  BY <1>2
<1>6. /\ u \in Seq(Resters) /\ Len(u) = m + 1 /\ u[m + 1] = x
      /\ \A k \in 1..m : u[k] = s[k]
  BY <1>1, <1>2, <1>4, <1>5
<1>7. /\ \A k \in 1..m : Good(o, t, side, n, p, s[k])
      /\ \A j, k \in 1..m : j < k => s[j].id < s[k].id
  <2>1. CASE s = <<>>
    <3>1. m = 0
      BY <1>5, <2>1
    <3>2. 1..m = {}
      BY <3>1
    <3> QED BY <3>2
  <2>2. CASE Queue(o, t, side, n, p, s)
    BY <1>5, <2>2 DEF Queue
  <2> QED BY <2>1, <2>2
<1>8. \A k \in 1..(m + 1) : k \in 1..m \/ k = m + 1
  BY <1>5
<1>9. \A k \in 1..m : u[k].id \in 1..n /\ Good(o, t, side, n + 1, p, u[k])
  <2> TAKE k \in 1..m
  <2>1. u[k] = s[k] /\ Good(o, t, side, n, p, s[k])
    BY <1>6, <1>7
  <2>2. 1..n \subseteq 1..(n + 1)
    OBVIOUS
  <2> QED BY <2>1, <2>2 DEF Good
<1>10. \A k \in 1..(m + 1) : Good(o, t, side, n + 1, p, u[k])
  BY <1>6, <1>8, <1>9
<1>11. \A j, k \in 1..(m + 1) : j < k => u[j].id < u[k].id
  <2> TAKE j, k \in 1..(m + 1)
  <2> HAVE j < k
  <2>1. j \in 1..m
    BY <1>5
  <2>2. CASE k \in 1..m
    BY <1>6, <1>7, <2>1, <2>2
  <2>3. CASE k = m + 1
    BY <1>6, <1>9, <2>1, <2>3
  <2> QED BY <1>8, <2>2, <2>3
<1>12. Queue(o, t, side, n + 1, p, u)
  <2>1. Len(u) > 0
    BY <1>5, <1>6
  <2> QED BY <1>6, <1>10, <1>11, <2>1 DEF Queue
<1>13. RestsIn(n + 1, u)
  <2>1. m + 1 \in 1..Len(u) /\ u[m + 1].id = n + 1
    BY <1>5, <1>6
  <2> QED BY <2>1 DEF RestsIn
<1>14. ASSUME NEW id, RestsIn(id, s) PROVE RestsIn(id, u)
  <2>1. PICK k \in 1..m : s[k].id = id
    BY <1>5, <1>14 DEF RestsIn
  <2>2. k \in 1..Len(u) /\ u[k].id = id
    BY <1>5, <1>6, <2>1
  <2> QED BY <2>2 DEF RestsIn
<1> QED BY <1>3, <1>4, <1>12, <1>13, <1>14

(* What is left of the newest order, x, may rest in book b.                 *)
MayRest(o, t, b, side, n, x) ==
  /\ n \in Nat /\ Side(o, t, b, side, n)
  /\ x.id = n + 1 /\ x.price \in Int /\ Good(o, t, side, n + 1, x.price, x)

(* A side is sound after an order has come to rest.                         *)
LEMMA RestSide ==
  ASSUME NEW o, NEW t, NEW b, NEW side, NEW n, NEW x, MayRest(o, t, b, side, n, x)
  PROVE  /\ Side(o, t, Engine!Rest(x, b), side, n + 1)
         /\ DOMAIN Engine!Rest(x, b) = DOMAIN b \union {x.price}
         /\ Engine!Rest(x, b) \in Books
<1> USE DEF MayRest
<1>1. PICK p \in Int : p = x.price
  OBVIOUS
<1>2. PICK s : s = IF p \in DOMAIN b THEN b[p] ELSE <<>>
  OBVIOUS
<1>3. s = <<>> \/ Queue(o, t, side, n, p, s)
  BY <1>2 DEF Side
<1>4. PICK v : v = Append(s, x)
  OBVIOUS
<1>5. /\ s \o <<x>> = v /\ Queue(o, t, side, n + 1, p, v) /\ RestsIn(n + 1, v)
      /\ \A id : s # <<>> /\ RestsIn(id, s) => RestsIn(id, v)
  <2>1. Good(o, t, side, n + 1, p, x) /\ x.id = n + 1 /\ n \in Nat
    BY <1>1
  <2> QED BY ONLY <1>3, <1>4, <2>1, QueueRests, SMTT(60)
<1>6. PICK c : c = Engine!Rest(x, b)
  OBVIOUS
<1>7. c = [q \in DOMAIN b \union {p} |-> IF q = p THEN v ELSE b[q]]
  BY <1>1, <1>2, <1>5, <1>6 DEF Engine!Rest, Engine!Updated
<1>8. /\ DOMAIN c = DOMAIN b \union {p} /\ c[p] = v /\ c = [q \in DOMAIN c |-> c[q]]
      /\ \A q \in DOMAIN b : q # p => c[q] = b[q]
  BY <1>7
<1>9. IsFiniteSet(DOMAIN c) /\ DOMAIN c \subseteq Int
  <2>1. IsFiniteSet(DOMAIN b) /\ DOMAIN b \subseteq Int
    BY DEF Side
  <2>2. IsFiniteSet(DOMAIN b \union {p})
    BY <2>1, FS_AddElement
  <2> QED BY <1>8, <2>1, <2>2
<1>10. ASSUME NEW q \in DOMAIN c PROVE Queue(o, t, side, n + 1, q, c[q])
  <2>1. CASE q = p
    BY <1>5, <1>8, <2>1
  <2>2. CASE q # p
    <3>1. q \in DOMAIN b /\ c[q] = b[q]
      BY <1>8, <2>2
    <3>2. Queue(o, t, side, n, q, b[q])
      BY <3>1 DEF Side
    <3>3. 1..n \subseteq 1..(n + 1)
      OBVIOUS
    <3> QED BY <3>1, <3>2, <3>3 DEF Queue, Good
  <2> QED BY <2>1, <2>2
<1>11. ASSUME NEW id \in 1..(n + 1), o[id].isBuy = side, Open(o, t, id) # 0
       PROVE  o[id].price \in DOMAIN c /\ RestsIn(id, c[o[id].price])
  <2>1. CASE id = n + 1
    <3>1. o[id].price = p
      BY <1>1, <2>1 DEF Good
    <3> QED BY <1>5, <1>8, <2>1, <3>1
  <2>2. CASE id # n + 1
    <3>1. id \in 1..n
      BY <2>2
    <3>2. o[id].price \in DOMAIN b /\ RestsIn(id, b[o[id].price])
      BY <1>11, <3>1 DEF Side
    <3>3. CASE o[id].price # p
      BY <1>8, <3>2, <3>3
    <3>4. CASE o[id].price = p
      <4>1. s = b[p] /\ RestsIn(id, s)
        BY <1>2, <3>2, <3>4
      <4>2. s # <<>>
        BY <4>1 DEF RestsIn
      <4> QED BY <1>5, <1>8, <3>4, <4>1, <4>2
    <3> QED BY <3>3, <3>4
  <2> QED BY <2>1, <2>2
<1>12. Side(o, t, c, side, n + 1)
  BY <1>9, <1>10, <1>11 DEF Side
<1>13. c \in Books
  BY <1>8, <1>12, BookOf
<1> QED BY <1>1, <1>6, <1>8, <1>12, <1>13

(* No price of the makers' side meets one of the other side.                *)
Apart(side, M, T) == \A q \in M, p \in T : IF side THEN q < p ELSE p < q

(* An order that does not cross the best price crosses none.                *)
LEMMA BestIsFarther ==
  ASSUME NEW o, NEW t, NEW b, NEW side \in BOOLEAN, NEW n, Side(o, t, b, side, n),
         NEW x, x.price \in Int, NEW isBuy \in BOOLEAN, isBuy # side, ~Engine!crosses(x, b, isBuy)
  PROVE  Apart(side, DOMAIN b, {x.price})
<1> SUFFICES ASSUME NEW q \in DOMAIN b PROVE IF side THEN q < x.price ELSE x.price < q
  BY DEF Apart
<1>1. IsFiniteSet(DOMAIN b) /\ DOMAIN b \subseteq Int /\ DOMAIN b # {}
  BY DEF Side
<1> DEFINE best == Engine!bestPrice(b, isBuy)
<1>2. best \in Int /\ IF isBuy THEN best <= q ELSE best >= q
  BY <1>1, BestIsBest
<1>3. ~(IF isBuy THEN x.price >= best ELSE x.price <= best)
  BY <1>1 DEF Engine!crosses
<1> HIDE DEF best
<1>4. q \in Int
  BY <1>1
<1>5. CASE isBuy
  <2>1. ~side
    BY <1>5
  <2>2. best <= q /\ ~(x.price >= best)
    BY <1>2, <1>3, <1>5
  <2> QED BY <1>2, <1>4, <2>1, <2>2
<1>6. CASE ~isBuy
  <2>1. side
    BY <1>6
  <2>2. best >= q /\ ~(x.price <= best)
    BY <1>2, <1>3, <1>6, SMTT(60)
  <2> QED BY <1>2, <1>4, <2>1, <2>2
<1> QED BY <1>5, <1>6

(* The newest order meets the book.                                         *)
Arrives(n, o, t, side, isBuy, mb, tb, taker) ==
  /\ n \in Nat /\ o \in Seq(Submissions) /\ Len(o) = n + 1 /\ t \in Seq(Trades(n + 1))
  /\ side \in BOOLEAN /\ isBuy \in BOOLEAN /\ isBuy # side /\ isBuy = o[n + 1].isBuy
  /\ mb \in Books /\ tb \in Books /\ Side(o, t, mb, side, n) /\ Side(o, t, tb, isBuy, n)
  /\ Priority(o, t) /\ Apart(side, DOMAIN mb, DOMAIN tb)
  /\ Open(o, t, n + 1) = o[n + 1].quantity
  /\ taker = [id |-> n + 1, price |-> o[n + 1].price, quantity |-> o[n + 1].quantity]

(* ... and leaves it sound.                                                 *)
Matched(n, o, u, side, isBuy, mb, tb) ==
  /\ u \in Seq(Trades(n + 1))
  /\ mb \in Books /\ tb \in Books /\ Side(o, u, mb, side, n + 1) /\ Side(o, u, tb, isBuy, n + 1)
  /\ Priority(o, u) /\ Apart(side, DOMAIN mb, DOMAIN tb)

(* matchOrder returns what the call that trades nothing is left with.       *)
LEMMA MatchSettles ==
  ASSUME NEW n, NEW o, NEW t, NEW side, NEW isBuy, NEW mb, NEW tb, NEW taker,
         Arrives(n, o, t, side, isBuy, mb, tb, taker)
  PROVE  \E x \in Calling(o, t, tb, n, DOMAIN mb, side) :
           /\ ~Goes(x)
           /\ Engine!matchOrder(taker, mb, tb, isBuy) =
                [maker |-> x.makerBook, execs |-> x.execs,
                 taker |-> IF x.taker.quantity = 0 THEN tb ELSE Engine!Rest(x.taker, tb)]
<1> USE DEF Arrives
<1> DEFINE c == [taker |-> taker, makerBook |-> mb, isBuy |-> isBuy, execs |-> <<>>]
<1>1. o[n + 1] \in Submissions
  BY n + 1 \in 1..Len(o)
<1>2. c \in CallTypes(o, n)
  <2>1. taker \in Takers(o, n)
    BY <1>1 DEF Takers, Submissions
  <2>2. <<>> \in Seq(Trades(n + 1))
    OBVIOUS
  <2> QED BY <2>1, <2>2 DEF CallTypes
<1>3. t \o <<>> = t
  BY ConcatEmptySeq
<1>4. /\ c.taker = taker /\ c.makerBook = mb /\ c.isBuy = isBuy /\ c.execs = <<>>
      /\ c.taker.quantity = o[n + 1].quantity
  <2>1. taker.quantity = o[n + 1].quantity
    BY Zenon
  <2>2. c.taker = taker /\ c.makerBook = mb /\ c.isBuy = isBuy /\ c.execs = <<>>
    BY ONLY TRUE
  <2> QED BY ONLY <2>1, <2>2
<1> HIDE DEF c
<1>5. CallInv(o, t, tb, n, DOMAIN mb, side, c)
  BY <1>3, <1>4 DEF CallInv
<1>6. c \in Calling(o, t, tb, n, DOMAIN mb, side)
  BY <1>2, <1>5 DEF Calling
<1> DEFINE x == Engine!Calls(c)[c.taker.quantity]
<1>7. x \in Calling(o, t, tb, n, DOMAIN mb, side) /\ ~Goes(x)
  <2>1. side # o[n + 1].isBuy
    BY Zenon
  <2> QED BY <1>6, <2>1, Settles
<1>8. Engine!matchOrder(taker, mb, tb, isBuy) =
        [maker |-> x.makerBook, execs |-> x.execs,
         taker |-> IF x.taker.quantity = 0 THEN tb ELSE Engine!Rest(x.taker, tb)]
  BY <1>4 DEF Engine!matchOrder, c
<1> QED BY <1>7, <1>8

(* So matching leaves the book sound.                                       *)
LEMMA MatchIsSound ==
  ASSUME NEW n, NEW o, NEW t, NEW side, NEW isBuy, NEW mb, NEW tb, NEW taker,
         Arrives(n, o, t, side, isBuy, mb, tb, taker),
         NEW r, r = Engine!matchOrder(taker, mb, tb, isBuy)
  PROVE  Matched(n, o, t \o r.execs, side, isBuy, r.maker, r.taker)
<1>1. PICK x \in Calling(o, t, tb, n, DOMAIN mb, side) :
        /\ ~Goes(x)
        /\ r = [maker |-> x.makerBook, execs |-> x.execs,
                taker |-> IF x.taker.quantity = 0 THEN tb ELSE Engine!Rest(x.taker, tb)]
  BY MatchSettles
<1> USE DEF Arrives
<1>2. x \in CallTypes(o, n) /\ CallInv(o, t, tb, n, DOMAIN mb, side, x)
  BY DEF Calling
<1>3. /\ x.taker = [id |-> n + 1, price |-> o[n + 1].price, quantity |-> x.taker.quantity]
      /\ x.taker.quantity \in Nat /\ x.makerBook \in Books /\ x.isBuy = isBuy
      /\ x.execs \in Seq(Trades(n + 1))
  BY <1>2 DEF CallTypes, Takers
<1>4. PICK u : u = t \o x.execs
  OBVIOUS
<1>5. u \in Seq(Trades(n + 1))
  BY <1>3, <1>4, ConcatProperties
<1>6. /\ x.taker.quantity = Open(o, u, n + 1)
      /\ Side(o, u, x.makerBook, side, n) /\ Side(o, u, tb, isBuy, n)
      /\ Priority(o, u) /\ DOMAIN x.makerBook \subseteq DOMAIN mb
  BY <1>2, <1>4 DEF CallInv
<1>7. Side(o, u, x.makerBook, side, n + 1)
  BY <1>6, SideNext
<1>8. Apart(side, DOMAIN x.makerBook, DOMAIN tb)
  BY <1>6, SMTT(60) DEF Apart
<1>9. CASE x.taker.quantity = 0
  <2>1. Side(o, u, tb, isBuy, n + 1)
    BY <1>6, <1>9, SideNext
  <2>2. r.taker = tb /\ r.maker = x.makerBook /\ r.execs = x.execs
    BY <1>1, <1>9, SMTT(60)
  <2> QED BY <1>3, <1>4, <1>5, <1>6, <1>7, <1>8, <2>1, <2>2 DEF Matched
<1>10. CASE x.taker.quantity # 0
  <2>1. r.taker = Engine!Rest(x.taker, tb) /\ r.maker = x.makerBook /\ r.execs = x.execs
    BY <1>1, <1>10
  <2>2. o[n + 1] \in Submissions
    BY n + 1 \in 1..Len(o)
  <2>3. x.taker.price \in Int /\ x.taker.id = n + 1 /\ x.taker.price = o[n + 1].price
    BY <1>3, <2>2 DEF Submissions
  <2>4. Good(o, u, isBuy, n + 1, x.taker.price, x.taker)
    <3>1. x.taker \in Resters
      BY <1>3, <1>10, <2>3 DEF Resters
    <3>2. x.taker.id \in 1..(n + 1)
      BY <2>3, SMTT(60)
    <3> QED BY <1>6, <2>3, <3>1, <3>2 DEF Good
  <2>5. /\ Side(o, u, r.taker, isBuy, n + 1) /\ r.taker \in Books
        /\ DOMAIN r.taker = DOMAIN tb \union {x.taker.price}
    <3>1. MayRest(o, u, tb, isBuy, n, x.taker)
      BY <1>6, <2>3, <2>4 DEF MayRest
    <3>2. /\ Side(o, u, Engine!Rest(x.taker, tb), isBuy, n + 1)
          /\ DOMAIN Engine!Rest(x.taker, tb) = DOMAIN tb \union {x.taker.price}
          /\ Engine!Rest(x.taker, tb) \in Books
      BY ONLY <3>1, RestSide
    <3> QED BY <2>1, <3>2
  <2>6. Apart(side, DOMAIN x.makerBook, {x.taker.price})
    <3>1. ~Engine!crosses(x.taker, x.makerBook, isBuy)
      BY <1>1, <1>3, <1>10, SMTT(60) DEF Goes
    <3> QED BY <1>6, <2>3, <3>1, BestIsFarther
  <2>7. Apart(side, DOMAIN r.maker, DOMAIN r.taker)
    BY <1>8, <2>1, <2>5, <2>6 DEF Apart
  <2> QED BY <1>3, <1>4, <1>5, <1>6, <1>7, <2>1, <2>5, <2>7 DEF Matched
<1> QED BY <1>9, <1>10

(* The inductive invariant of the engine.                                   *)
EngineInv ==
  /\ orders \in Seq(Submissions) /\ trades \in Seq(Trades(Len(orders)))
  /\ bids \in Books /\ asks \in Books
  /\ Side(orders, trades, bids, TRUE, Len(orders))
  /\ Side(orders, trades, asks, FALSE, Len(orders))
  /\ Priority(orders, trades) /\ Apart(TRUE, DOMAIN bids, DOMAIN asks)

(* The list of orders, with the one that arrives.                           *)
Extends(o, o0, n, t, x) ==
  /\ n \in Nat /\ o0 \in Seq(Submissions) /\ Len(o0) = n /\ t \in Seq(Trades(n))
  /\ x \in Submissions /\ o = Append(o0, x)

(* A new order changes nothing of the others.                               *)
LEMMA Enters ==
  ASSUME NEW o, NEW o0, NEW n, NEW t, NEW x, Extends(o, o0, n, t, x)
  PROVE  /\ o \in Seq(Submissions) /\ Len(o) = n + 1 /\ t \in Seq(Trades(n + 1)) /\ o[n + 1] = x
         /\ \A k \in 1..Len(t) : t[k].maker \in 1..n /\ t[k].taker \in 1..n
         /\ \A id \in 1..n : o[id] = o0[id]
         /\ Open(o, t, n + 1) = x.quantity
<1> USE DEF Extends
<1>1. /\ o \in Seq(Submissions) /\ Len(o) = n + 1 /\ o[n + 1] = x
      /\ \A id \in 1..n : o[id] = o0[id]
  OBVIOUS
<1>2. \A k \in 1..Len(t) : t[k] \in Trades(n)
  OBVIOUS
<1>3. Trades(n) \subseteq Trades(n + 1)
  <2>1. 1..n \subseteq 1..(n + 1)
    OBVIOUS
  <2> QED BY <2>1 DEF Trades
<1>4. t \in Seq(Trades(n + 1))
  <2>1. t \in [1..Len(t) -> Trades(n)] /\ Len(t) \in Nat
    OBVIOUS
  <2>2. t \in [1..Len(t) -> Trades(n + 1)]
    BY <1>3, <2>1
  <2> QED BY <2>1, <2>2, SeqDef
<1>5. \A k \in 1..Len(t) : t[k].maker \in 1..n /\ t[k].taker \in 1..n
  BY <1>2 DEF Trades
<1>6. Fill(t, n + 1, Len(t)) = 0
  <2>1. \A k \in 1..Len(t) : ~Of(t[k], n + 1)
    <3> TAKE k \in 1..Len(t)
    <3>1. t[k].maker \in 1..n /\ t[k].taker \in 1..n
      BY <1>5
    <3>2. n + 1 \notin 1..n
      OBVIOUS
    <3> QED BY <3>1, <3>2 DEF Of
  <2> QED BY <2>1, FillNone
<1>7. Open(o, t, n + 1) = x.quantity
  <2>1. x.quantity \in Int
    BY DEF Submissions
  <2> QED BY <1>1, <1>6, <2>1 DEF Open
<1> QED BY <1>1, <1>4, <1>5, <1>7

(* A side is sound when an order arrives,                                   *)
LEMMA SideEnters ==
  ASSUME NEW o, NEW o0, NEW n, NEW t, NEW x, Extends(o, o0, n, t, x),
         NEW b, NEW side, Side(o0, t, b, side, n)
  PROVE  Side(o, t, b, side, n)
<1>1. \A id \in 1..n : o[id] = o0[id]
  BY Enters
<1>2. \A id \in 1..n : Open(o, t, id) = Open(o0, t, id)
  BY <1>1 DEF Open
<1>3. ASSUME NEW p \in DOMAIN b PROVE Queue(o, t, side, n, p, b[p])
  <2>1. Queue(o0, t, side, n, p, b[p])
    BY DEF Side
  <2> QED BY <1>1, <1>2, <2>1 DEF Queue, Good
<1> QED BY <1>1, <1>2, <1>3 DEF Side

(* and no trade has passed over that order.                                 *)
LEMMA PriorityEnters ==
  ASSUME NEW o, NEW o0, NEW n, NEW t, NEW x, Extends(o, o0, n, t, x), Priority(o0, t)
  PROVE  Priority(o, t)
<1> SUFFICES ASSUME NEW k \in 1..Len(t) PROVE PriorityAt(o, t, k)
  BY DEF Priority
<1>1. \A id \in 1..n : o[id] = o0[id]
  BY Enters
<1>2. t[k].maker \in 1..n /\ t[k].taker \in 1..n /\ n \in Nat
  BY Enters DEF Extends
<1>3. 1..(t[k].taker - 1) \subseteq 1..n
  BY <1>2
<1>4. PriorityAt(o0, t, k)
  BY DEF Priority
<1> QED BY <1>1, <1>2, <1>3, <1>4 DEF PriorityAt, Beats

(* Submitting an order keeps the invariant.                                 *)
LEMMA SubmitKeeps ==
  ASSUME EngineInv, NEW isBuy \in BOOLEAN, NEW price \in Prices, NEW amount \in Quantities,
         Engine!SubmitOrder(isBuy, price, amount)
  PROVE  EngineInv'
<1>1. PICK n \in Nat : n = Len(orders)
  BY DEF EngineInv
<1>2. PICK x : x = [isBuy |-> isBuy, price |-> price, quantity |-> amount]
  OBVIOUS
<1>3. x \in Submissions /\ x.isBuy = isBuy
  BY <1>2, EngineConstants DEF Submissions
<1>4. PICK o : o = Append(orders, x)
  OBVIOUS
<1>5. Extends(o, orders, n, trades, x)
  BY <1>1, <1>3, <1>4 DEF EngineInv, Extends
<1>6. /\ o \in Seq(Submissions) /\ Len(o) = n + 1 /\ trades \in Seq(Trades(n + 1)) /\ o[n + 1] = x
      /\ Open(o, trades, n + 1) = x.quantity
  BY <1>5, Enters
<1>7. Side(o, trades, bids, TRUE, n) /\ Side(o, trades, asks, FALSE, n)
  BY <1>1, <1>5, SideEnters DEF EngineInv
<1>8. Priority(o, trades)
  BY <1>5, PriorityEnters DEF EngineInv
<1>9. PICK taker : taker = [id |-> n + 1, price |-> price, quantity |-> amount]
  OBVIOUS
<1>10. taker = [id |-> n + 1, price |-> o[n + 1].price, quantity |-> o[n + 1].quantity]
  BY <1>2, <1>6, <1>9
<1>11. orders' = o
  BY <1>2, <1>4 DEF Engine!SubmitOrder
<1>12. CASE isBuy
  <2>1. PICK r : r = Engine!matchOrder(taker, asks, bids, TRUE)
    OBVIOUS
  <2>2. trades' = trades \o r.execs /\ bids' = r.taker /\ asks' = r.maker
    BY <1>1, <1>9, <1>12, <2>1 DEF Engine!SubmitOrder
  <2>3. Arrives(n, o, trades, FALSE, TRUE, asks, bids, taker)
    <3>1. Apart(FALSE, DOMAIN asks, DOMAIN bids)
      BY DEF EngineInv, Apart
    <3>2. TRUE = o[n + 1].isBuy
      BY <1>3, <1>6, <1>12
    <3> QED BY <1>6, <1>7, <1>8, <1>10, <3>1, <3>2 DEF Arrives, EngineInv
  <2>4. Matched(n, o, trades', FALSE, TRUE, asks', bids')
    BY <2>1, <2>2, <2>3, MatchIsSound
  <2>5. Apart(TRUE, DOMAIN bids', DOMAIN asks')
    BY <2>4 DEF Matched, Apart
  <2> QED BY <1>6, <1>11, <2>4, <2>5 DEF EngineInv, Matched
<1>13. CASE ~isBuy
  <2>1. PICK r : r = Engine!matchOrder(taker, bids, asks, FALSE)
    OBVIOUS
  <2>2. trades' = trades \o r.execs /\ bids' = r.maker /\ asks' = r.taker
    BY <1>1, <1>9, <1>13, <2>1 DEF Engine!SubmitOrder
  <2>3. Arrives(n, o, trades, TRUE, FALSE, bids, asks, taker)
    <3>1. Apart(TRUE, DOMAIN bids, DOMAIN asks)
      BY DEF EngineInv
    <3>2. FALSE = o[n + 1].isBuy
      BY <1>3, <1>6, <1>13
    <3> QED BY <1>6, <1>7, <1>8, <1>10, <3>1, <3>2 DEF Arrives, EngineInv
  <2>4. Matched(n, o, trades', TRUE, FALSE, bids', asks')
    BY <2>1, <2>2, <2>3, MatchIsSound
  <2>5. Apart(TRUE, DOMAIN bids', DOMAIN asks')
    BY <2>4 DEF Matched
  <2> QED BY <1>6, <1>11, <2>4, <2>5 DEF EngineInv, Matched
<1> QED BY <1>12, <1>13

(* Where order id rests.                                                    *)
Spots(b, id) == {x \in Engine!Places(b) : b[x[1]][x[2]].id = id}

(* An order with shares left has one place in the book, and others have     *)
(* none.                                                                    *)
LEMMA SpotIs ==
  ASSUME NEW o, NEW t, NEW b, NEW side, NEW n, Side(o, t, b, side, n), NEW id
  PROVE  /\ \A x \in Spots(b, id) :
              /\ x = <<o[id].price, x[2]>> /\ o[id].isBuy = side /\ o[id].price \in DOMAIN b
              /\ x[2] \in 1..Len(b[o[id].price]) /\ b[o[id].price][x[2]].id = id
              /\ b[o[id].price][x[2]].quantity = Open(o, t, id) /\ Open(o, t, id) \in Nat \ {0}
         /\ \A k : o[id].price \in DOMAIN b /\ k \in 1..Len(b[o[id].price]) /\ b[o[id].price][k].id = id
              => <<o[id].price, k>> \in Spots(b, id)
<1>1. ASSUME NEW p \in DOMAIN b PROVE Queue(o, t, side, n, p, b[p]) /\ DOMAIN b[p] = 1..Len(b[p])
  <2>1. Queue(o, t, side, n, p, b[p])
    BY DEF Side
  <2>2. b[p] \in Seq(Resters)
    BY <2>1 DEF Queue
  <2> QED BY <2>1, <2>2
<1>2. ASSUME NEW x \in Spots(b, id)
      PROVE  /\ x = <<o[id].price, x[2]>> /\ o[id].isBuy = side /\ o[id].price \in DOMAIN b
             /\ x[2] \in 1..Len(b[o[id].price]) /\ b[o[id].price][x[2]].id = id
             /\ b[o[id].price][x[2]].quantity = Open(o, t, id) /\ Open(o, t, id) \in Nat \ {0}
  <2>1. PICK p \in DOMAIN b : x \in {p} \X DOMAIN b[p]
    BY DEF Spots, Engine!Places
  <2>2. x = <<p, x[2]>> /\ x[1] = p /\ x[2] \in 1..Len(b[p]) /\ b[p][x[2]].id = id
    BY <1>1, <2>1 DEF Spots
  <2>3. Good(o, t, side, n, p, b[p][x[2]])
    BY <1>1, <2>2 DEF Queue
  <2>4. o[id].price = p /\ o[id].isBuy = side /\ b[p][x[2]].quantity = Open(o, t, id) /\ Open(o, t, id) \in Nat \ {0}
    BY <2>2, <2>3 DEF Good, Resters
  <2> QED BY <2>2, <2>4
<1>3. ASSUME NEW k, o[id].price \in DOMAIN b, k \in 1..Len(b[o[id].price]), b[o[id].price][k].id = id
      PROVE  <<o[id].price, k>> \in Spots(b, id)
  <2> DEFINE p == o[id].price
             x == <<p, k>>
  <2>1. x \in {p} \X DOMAIN b[p] /\ x[1] = p /\ x[2] = k
    BY <1>1, <1>3
  <2>2. x \in Engine!Places(b)
    BY <1>3, <2>1 DEF Engine!Places
  <2> QED BY <1>3, <2>1, <2>2 DEF Spots
<1> QED BY <1>2, <1>3

(* The engine's sums are sums.                                              *)
LEMMA EngineSum ==
  ASSUME NEW f, NEW S
  PROVE  Engine!SumFunctionOnSet(f, S) = SumFunctionOnSet(f, S)
  BY DEF Engine!SumFunctionOnSet, Engine!FoldFunctionOnSet, Engine!MapThenFoldSet,
         SumFunctionOnSet, FoldFunctionOnSet, MapThenFoldSet

(* So what rests of an order is what it has yet to trade.                   *)
LEMMA RestingIs ==
  ASSUME NEW o, NEW t, NEW b, NEW side, NEW n, Side(o, t, b, side, n), NEW id \in 1..n
  PROVE  Engine!Resting(b, id) = IF o[id].isBuy = side THEN Open(o, t, id) ELSE 0
<1> DEFINE f == [x \in Engine!Places(b) |-> b[x[1]][x[2]].quantity]
           S == Spots(b, id)
           p == o[id].price
<1>0. Engine!Resting(b, id) = SumFunctionOnSet(f, S)
  BY EngineSum, SMTT(60) DEF Engine!Resting, Spots
<1>1. \A x \in S : /\ x = <<p, x[2]>> /\ o[id].isBuy = side /\ p \in DOMAIN b
                   /\ x[2] \in 1..Len(b[p]) /\ b[p][x[2]].id = id
                   /\ b[p][x[2]].quantity = Open(o, t, id) /\ Open(o, t, id) \in Nat \ {0}
  BY SpotIs
<1>2. \A k : p \in DOMAIN b /\ k \in 1..Len(b[p]) /\ b[p][k].id = id => <<p, k>> \in S
  BY SpotIs
<1>3. \A x \in S : x \in Engine!Places(b)
  BY DEF Spots
<1>4. \A x \in S : f[x] = Open(o, t, id)
  <2> TAKE x \in S
  <2>1. x = <<p, x[2]>> /\ b[p][x[2]].quantity = Open(o, t, id)
    BY <1>1
  <2>2. x[1] = p
    BY <2>1
  <2> QED BY <1>3, <2>1, <2>2
<1>5. \A x, y \in S : x = y
  <2> TAKE x, y \in S
  <2>1. /\ x = <<p, x[2]>> /\ y = <<p, y[2]>> /\ p \in DOMAIN b
        /\ x[2] \in 1..Len(b[p]) /\ y[2] \in 1..Len(b[p])
        /\ b[p][x[2]].id = id /\ b[p][y[2]].id = id
    BY <1>1
  <2>2. Queue(o, t, side, n, p, b[p])
    BY <2>1 DEF Side
  <2>3. b[p] \in Seq(Resters)
    BY <2>2 DEF Queue
  <2>4. x[2] \in Nat /\ y[2] \in Nat /\ id \in Int
    BY <2>1, <2>3
  <2>5. ~(x[2] < y[2]) /\ ~(y[2] < x[2])
    BY <2>1, <2>2, <2>4 DEF Queue
  <2>6. x[2] = y[2]
    BY <2>4, <2>5
  <2> QED BY <2>1, <2>6
<1> HIDE DEF f, S
<1>6. CASE S = {}
  <2>1. ~(o[id].isBuy = side /\ Open(o, t, id) # 0)
    <3> SUFFICES ASSUME o[id].isBuy = side, Open(o, t, id) # 0 PROVE FALSE
      OBVIOUS
    <3>1. p \in DOMAIN b /\ RestsIn(id, b[p])
      BY DEF Side
    <3>2. PICK k \in 1..Len(b[p]) : b[p][k].id = id
      BY <3>1 DEF RestsIn
    <3> QED BY <1>2, <1>6, <3>1, <3>2
  <2> QED BY <1>0, <1>6, <2>1, SumEmpty
<1>7. CASE S # {}
  <2>1. PICK x \in S : TRUE
    BY <1>7
  <2>2. S = {x} /\ S \ {x} = {}
    BY <1>5, <2>1
  <2>3. IsFiniteSet(S)
    BY <2>2, FS_Singleton
  <2>4. f[x] = Open(o, t, id) /\ Open(o, t, id) \in Int /\ o[id].isBuy = side
    BY <1>1, <1>4, <2>1
  <2>5. \A y \in S : f[y] \in Int
    BY <2>2, <2>4
  <2>6. SumFunctionOnSet(f, S) = f[x] + SumFunctionOnSet(f, {})
    BY <2>2, <2>3, <2>5, SumSplit
  <2> QED BY <1>0, <2>4, <2>6, SumEmpty
<1> QED BY <1>6, <1>7

(* The invariant holds always.                                              *)
LEMMA EngineInductive == SuiteSpec => []EngineInv
<1>1. SuiteInit => EngineInv
  <2> SUFFICES ASSUME SuiteInit PROVE EngineInv
    OBVIOUS
  <2>1. orders = <<>> /\ trades = <<>> /\ bids = [p \in {} |-> <<>>] /\ asks = [p \in {} |-> <<>>]
    BY DEF SuiteInit, Engine!Init, Engine!NoOrders
  <2>2. DOMAIN bids = {} /\ DOMAIN asks = {} /\ bids \in [{} -> Seq(Resters)] /\ asks \in [{} -> Seq(Resters)]
    BY <2>1
  <2>3. bids \in Books /\ asks \in Books
    <3>1. {} \in SUBSET Int
      OBVIOUS
    <3> QED BY <2>2, <3>1 DEF Books
  <2>4. Len(orders) = 0 /\ Len(trades) = 0 /\ 1..0 = {}
    BY <2>1
  <2>5. orders \in Seq(Submissions) /\ trades \in Seq(Trades(Len(orders)))
    BY <2>1
  <2>6. Side(orders, trades, bids, TRUE, Len(orders)) /\ Side(orders, trades, asks, FALSE, Len(orders))
    BY <2>2, <2>4, FS_EmptySet DEF Side
  <2>7. Priority(orders, trades) /\ Apart(TRUE, DOMAIN bids, DOMAIN asks)
    BY <2>2, <2>4 DEF Priority, Apart
  <2> QED BY <2>3, <2>5, <2>6, <2>7 DEF EngineInv
<1>2. EngineInv /\ [SuiteNext]_<<subject, vars, ButAllocator>> => EngineInv'
  <2> SUFFICES ASSUME EngineInv, [Engine!Next]_engineVars PROVE EngineInv'
    BY EngineStep
  <2>1. CASE Engine!Next
    BY <2>1, SubmitKeeps DEF Engine!Next
  <2>2. CASE UNCHANGED engineVars
    BY <2>2 DEF engineVars, EngineInv
  <2> QED BY <2>1, <2>2
<1> QED BY <1>1, <1>2, PTL DEF SuiteSpec

(* It implies the property.                                                 *)
LEMMA EngineIsSound == EngineInv => BookIsSound
<1> SUFFICES ASSUME EngineInv PROVE BookIsSound
  OBVIOUS
<1> USE DEF EngineInv
<1>1. Engine!NotCrossed
  BY DEF Apart, Engine!NotCrossed
<1>2. \A id, n : Engine!Filled(id, n) = Fill(trades, id, n)
  BY EngineSum DEF Engine!Filled, Fill, Names, Of
<1>3. Engine!Conserved
  <2> SUFFICES ASSUME NEW id \in 1..Len(orders)
               PROVE  orders[id].quantity = Engine!Filled(id, Len(trades))
                        + Engine!Resting(bids, id) + Engine!Resting(asks, id)
    BY DEF Engine!Conserved
  <2>1. orders[id] \in Submissions
    OBVIOUS
  <2>2. orders[id].quantity \in Int /\ orders[id].isBuy \in BOOLEAN
    BY <2>1 DEF Submissions
  <2>3. Fill(trades, id, Len(trades)) \in Int
    <3>1. Len(trades) \in 0..Len(trades)
      OBVIOUS
    <3> QED BY <3>1, FillInt
  <2>4. /\ Engine!Resting(bids, id) = IF orders[id].isBuy = TRUE THEN Open(orders, trades, id) ELSE 0
        /\ Engine!Resting(asks, id) = IF orders[id].isBuy = FALSE THEN Open(orders, trades, id) ELSE 0
    <3>1. ASSUME NEW b, NEW side, Side(orders, trades, b, side, Len(orders))
          PROVE  Engine!Resting(b, id) = IF orders[id].isBuy = side THEN Open(orders, trades, id) ELSE 0
      BY <3>1, RestingIs
    <3>2. Side(orders, trades, bids, TRUE, Len(orders)) /\ Side(orders, trades, asks, FALSE, Len(orders))
      OBVIOUS
    <3> QED BY ONLY <3>1, <3>2, Zenon
  <2>5. Engine!Resting(bids, id) + Engine!Resting(asks, id) = Open(orders, trades, id)
    BY <2>2, <2>3, <2>4 DEF Open
  <2>6. /\ Engine!Resting(bids, id) \in Int /\ Engine!Resting(asks, id) \in Int
    BY <2>2, <2>3, <2>4 DEF Open
  <2>7. Engine!Filled(id, Len(trades)) = Fill(trades, id, Len(trades))
    BY <1>2, Zenon
  <2>8. orders[id].quantity = Fill(trades, id, Len(trades)) + Open(orders, trades, id)
    BY ONLY <2>2, <2>3 DEF Open
  <2>9. Fill(trades, id, Len(trades)) + (Engine!Resting(bids, id) + Engine!Resting(asks, id))
          = Fill(trades, id, Len(trades)) + Engine!Resting(bids, id) + Engine!Resting(asks, id)
    BY ONLY <2>3, <2>6
  <2> QED BY ONLY <2>5, <2>7, <2>8, <2>9, Zenon
<1>4. Engine!PriceTimePriority
  <2> SUFFICES ASSUME NEW k \in 1..Len(trades), NEW id \in 1..(trades[k].taker - 1),
                      orders[id].isBuy = orders[trades[k].maker].isBuy,
                      Engine!Better(id, trades[k].maker)
               PROVE  Engine!Filled(id, k) = orders[id].quantity
    BY DEF Engine!PriceTimePriority
  <2>1. PriorityAt(orders, trades, k)
    BY DEF Priority
  <2>2. Beats(orders, id, trades[k].maker)
    BY DEF Beats, Engine!Better
  <2> QED BY <1>2, <2>1, <2>2 DEF PriorityAt
<1> QED BY <1>1, <1>3, <1>4 DEF BookIsSound, Engine!BookIsSound

(* For any prices, quantities and number of orders: buyers and sellers that *)
(* could trade never rest together, every share of every order is traded    *)
(* once or rests, and no order is passed over by one that comes after it in *)
(* price-time priority.                                                     *)
THEOREM BooksAreSound == SuiteSpec => []BookIsSound
  BY EngineInductive, EngineIsSound, PTL
-----------------------------------------------------------------------------
(* The parser: the messages on the wire, one behind the other.              *)

(* What the recursive definition of FlattenSeq defines.                     *)
LEMMA FlattenIs ==
  ASSUME NEW s \in Seq(Seq(Nat)), Len(s) > 0
  PROVE  \E f : /\ \A k \in 1..Len(s) : f[k] = IF k = 1 THEN s[1] ELSE f[k - 1] \o s[k]
                /\ \A k \in 1..Len(s) : f[k] \in Seq(Nat)
                /\ Parser!FlattenSeq(s) = f[Len(s)]
<1> DEFINE m == Len(s)
           V == Seq(Nat)
           G == [x \in Nat \X V |-> IF x[1] + 2 \in 1..m THEN x[2] \o s[x[1] + 2] ELSE x[2]]
<1>0. m \in Nat /\ m > 0
  OBVIOUS
<1>1. \A k \in 1..m : s[k] \in V
  OBVIOUS
<1>2. s[1] \in V
  BY <1>0
<1> HIDE DEF m
<1>3. \A n \in Nat, a \in V : /\ G[<<n, a>>] = IF n + 2 \in 1..m THEN a \o s[n + 2] ELSE a
                              /\ G[<<n, a>>] \in V
  <2> TAKE n \in Nat, a \in V
  <2>1. G[<<n, a>>] = IF n + 2 \in 1..m THEN a \o s[n + 2] ELSE a
    OBVIOUS
  <2>2. n + 2 \in 1..m => a \o s[n + 2] \in V
    BY <1>1, ConcatProperties
  <2> QED BY <2>1, <2>2
<1>4. G \in [Nat \X V -> V]
  <2>1. \A x \in Nat \X V : G[x] \in V
    BY <1>3
  <2> QED BY <2>1
<1> HIDE DEF G, V
<1>5. PICK g \in [Nat -> V] : g[0] = s[1] /\ \A n \in Nat : g[n + 1] = G[<<n, g[n]>>]
  <2> DEFINE b == s[1]
  <2>1. b \in V
    BY <1>2
  <2> HIDE DEF b
  <2>2. \E g \in [Nat -> V] : Recurs(g, b, G)
    BY <1>4, <2>1, Recursion
  <2> QED BY <2>2 DEF b, Recurs
<1> DEFINE r == [k \in 1..m |-> g[k - 1]]
<1>6. ASSUME NEW k \in 1..m PROVE r[k] = IF k = 1 THEN s[k] ELSE r[k - 1] \o s[k]
  <2>1. CASE k = 1
    BY <1>0, <1>5, <2>1
  <2>2. CASE k # 1
    <3>1. k - 2 \in Nat /\ k - 2 + 1 = k - 1 /\ k - 2 + 2 = k /\ k - 1 \in 1..m /\ k - 1 - 1 = k - 2
      BY <1>0, <2>2
    <3>2. g[k - 2 + 1] = G[<<k - 2, g[k - 2]>>] /\ g[k - 2] \in V
      BY <1>5, <3>1
    <3>3. g[k - 1] = g[k - 2] \o s[k]
      BY <1>3, <3>1, <3>2
    <3>4. r[k] = g[k - 1] /\ r[k - 1] = g[k - 2]
      BY <3>1
    <3> QED BY <2>2, <3>3, <3>4
  <2> QED BY <2>1, <2>2
<1>7. \A k \in 1..m : r[k] \in V
  <2> TAKE k \in 1..m
  <2>1. k - 1 \in Nat
    BY <1>0
  <2> QED BY <1>5, <2>1
<1>8. r = [k \in 1..m |-> r[k]]
  OBVIOUS
<1> HIDE DEF r
<1>9. r = [k \in 1..m |-> IF k = 1 THEN s[k] ELSE r[k - 1] \o s[k]]
  BY <1>6, <1>8, Zenon
<1> DEFINE R == CHOOSE h : h = [k \in 1..m |-> IF k = 1 THEN s[k] ELSE h[k - 1] \o s[k]]
<1>10. R = [k \in 1..m |-> IF k = 1 THEN s[k] ELSE R[k - 1] \o s[k]]
  BY <1>9, Zenon
<1>11. Parser!FlattenSeq(s) = R[m]
  BY <1>0 DEF Parser!FlattenSeq, m
<1> HIDE DEF R
<1>12. \A k \in 1..m : R[k] = IF k = 1 THEN s[k] ELSE R[k - 1] \o s[k]
  BY <1>10
<1>13. \A n \in Nat : n \in 1..m => R[n] = r[n]
  <2> DEFINE bad == {n \in Nat : n \in 1..m /\ R[n] # r[n]}
  <2> SUFFICES ASSUME bad # {} PROVE FALSE
    OBVIOUS
  <2>1. PICK n \in bad : \A j \in bad : n <= j
    BY LeastNumber, bad \subseteq Nat
  <2>2. n # 1 /\ n \in 1..m
    BY <1>6, <1>12, <2>1
  <2>3. n - 1 \in Nat /\ n - 1 \in 1..m /\ ~(n <= n - 1)
    BY <1>0, <2>1, <2>2
  <2>4. R[n - 1] = r[n - 1]
    BY <2>1, <2>3
  <2>5. R[n] = R[n - 1] \o s[n] /\ r[n] = r[n - 1] \o s[n]
    BY <1>6, <1>12, <2>2
  <2> QED BY <2>1, <2>4, <2>5
<1>14. \A k \in 1..m : R[k] \in V
  <2>1. \A k \in 1..m : k \in Nat
    BY <1>0
  <2> QED BY <1>7, <1>13, <2>1, Zenon
<1>15. \A k \in 1..m : R[k] = IF k = 1 THEN s[1] ELSE R[k - 1] \o s[k]
  BY <1>12
<1> QED BY <1>11, <1>14, <1>15 DEF m, V

(* A sequence more goes to the end.                                         *)
LEMMA FlattenAppend ==
  ASSUME NEW s \in Seq(Seq(Nat)), NEW x \in Seq(Nat)
  PROVE  /\ Parser!FlattenSeq(s) \in Seq(Nat)
         /\ Parser!FlattenSeq(Append(s, x)) = Parser!FlattenSeq(s) \o x
<1> DEFINE m == Len(s)  t == Append(s, x)
<1>1. /\ m \in Nat /\ t \in Seq(Seq(Nat)) /\ Len(t) = m + 1 /\ t[m + 1] = x
      /\ \A k \in 1..m : t[k] = s[k]
  BY AppendProperties
<1> HIDE DEF t
<1>2. PICK g : /\ \A k \in 1..(m + 1) : g[k] = IF k = 1 THEN t[1] ELSE g[k - 1] \o t[k]
               /\ Parser!FlattenSeq(t) = g[m + 1]
  <2>1. Len(t) > 0
    BY <1>1
  <2>2. \E f : /\ \A k \in 1..Len(t) : f[k] = IF k = 1 THEN t[1] ELSE f[k - 1] \o t[k]
               /\ \A k \in 1..Len(t) : f[k] \in Seq(Nat)
               /\ Parser!FlattenSeq(t) = f[Len(t)]
    BY <1>1, <2>1, FlattenIs
  <2> QED BY <1>1, <2>2
<1>3. CASE m = 0
  <2>1. s = <<>>
    BY <1>3
  <2>2. Parser!FlattenSeq(s) = <<>>
    BY <1>3, <2>1 DEF Parser!FlattenSeq
  <2>3. Parser!FlattenSeq(t) = x
    BY <1>1, <1>2, <1>3
  <2>4. <<>> \o x = x
    BY ConcatEmptySeq
  <2> QED BY <2>2, <2>3, <2>4 DEF t
<1>4. CASE m > 0
  <2>1. PICK f : /\ \A k \in 1..m : f[k] = IF k = 1 THEN s[1] ELSE f[k - 1] \o s[k]
                 /\ \A k \in 1..m : f[k] \in Seq(Nat)
                 /\ Parser!FlattenSeq(s) = f[m]
    BY <1>4, FlattenIs
  <2> HIDE DEF m
  <2>2. \A n \in Nat : n \in 1..m => g[n] = f[n]
    <3> DEFINE bad == {n \in Nat : n \in 1..m /\ g[n] # f[n]}
    <3> SUFFICES ASSUME bad # {} PROVE FALSE
      OBVIOUS
    <3>1. PICK n \in bad : \A j \in bad : n <= j
      BY LeastNumber, bad \subseteq Nat
    <3>2. n \in 1..m /\ n \in 1..(m + 1) /\ t[n] = s[n] /\ 1 \in 1..m /\ t[1] = s[1]
      BY <1>1, <1>4, <3>1
    <3>3. n # 1
      BY <1>2, <2>1, <3>1, <3>2
    <3>4. n - 1 \in Nat /\ n - 1 \in 1..m /\ ~(n <= n - 1)
      <4>1. m \in Nat /\ n \in 1..m
        BY <1>1, <3>2
      <4> QED BY ONLY <3>3, <4>1
    <3>5. g[n - 1] = f[n - 1]
      BY <3>1, <3>4
    <3>6. g[n] = g[n - 1] \o t[n] /\ f[n] = f[n - 1] \o s[n]
      BY <1>2, <2>1, <3>2, <3>3
    <3> QED BY <3>1, <3>2, <3>5, <3>6
  <2>3. m \in 1..m /\ m + 1 \in 1..(m + 1) /\ m + 1 # 1 /\ m + 1 - 1 = m
    BY <1>1, <1>4
  <2>4. g[m + 1] = f[m] \o x
    <3>1. m \in Nat /\ t[m + 1] = x
      BY <1>1
    <3>2. g[m] = f[m]
      BY <2>2, <2>3, <3>1
    <3> DEFINE j == m + 1
    <3>3. g[j] = g[j - 1] \o t[j]
      <4>1. j \in 1..(m + 1) /\ j # 1
        BY <2>3
      <4> HIDE DEF j
      <4> QED BY <1>2, <4>1
    <3>4. j - 1 = m
      BY <2>3
    <3>6. t[j] = x
      BY <3>1
    <3> HIDE DEF j
    <3>5. g[j] = f[m] \o x
      BY <3>2, <3>3, <3>4, <3>6
    <3> QED BY <3>5 DEF j
  <2> QED BY <1>2, <2>1, <2>3, <2>4 DEF t
<1> QED BY <1>1, <1>3, <1>4, SMTT(60)

(* What the parser's constants may be.                                      *)
LEMMA ParserConstants ==
  /\ ByteBase \in Nat \ {0} /\ AddOrderSize \in Nat \ {0} /\ MessageSizes \subseteq Nat \ {0}
  /\ UintModulus \in Nat \ {0} /\ Digits \subseteq 0..9 /\ MaxMessages \in Nat /\ MaxDigits \in Nat
  BY HistoriesAssumption DEF Parser!ParserAssumption

(* A message of this host has two bytes for its length, low byte first, and *)
(* its type.                                                                *)
LEMMA FrameIs ==
  ASSUME NEW m \in Parser!Message
  PROVE  /\ m.len \in Nat \ {0}
         /\ Parser!Frame("host", m) \in Seq(Nat) /\ Len(Parser!Frame("host", m)) = m.len + 2
         /\ Parser!Frame("host", m)[1] + ByteBase * Parser!Frame("host", m)[2] = m.len
         /\ Parser!Frame("host", m)[3] = m.type
<1>1. m.len \in Nat \ {0} /\ m.type \in 0..1
  <2>1. m.type \in {Parser!TypeA, Parser!TypeOther} /\ m.len \in MessageSizes
    BY DEF Parser!Message
  <2>2. m.type \in {0, 1}
    BY <2>1 DEF Parser!TypeA, Parser!TypeOther
  <2>3. m.len \in Nat \ {0}
    BY ONLY <2>1, ParserConstants, Zenon
  <2> DEFINE t == m.type
  <2>4. t \in 0..1
    <3>1. t \in {0, 1}
      BY <2>2
    <3> HIDE DEF t
    <3> QED BY ONLY <3>1
  <2> QED BY <2>3, <2>4
<1> DEFINE r == m.len % ByteBase  d == m.len \div ByteBase  n == m.len - 1
           a == <<r, d, m.type>>  b == [k \in 1..n |-> Parser!TypeA]
<1>2. d \in Int /\ r \in 0..(ByteBase - 1) /\ m.len = ByteBase * d + r
  <2>1. m.len \in Int /\ ByteBase \in Nat \ {0}
    BY <1>1, ParserConstants
  <2> QED BY ONLY <2>1, DivMod
<1>3. d \in Nat /\ r \in Nat
  <2> DEFINE l == m.len
  <2>1. l \in Nat /\ l = ByteBase * d + r
    BY <1>1, <1>2
  <2>2. r \in Nat /\ r < ByteBase
    BY <1>2, ParserConstants
  <2> HIDE DEF d, r, l
  <2>3. CASE d <= -1
    <3>1. ByteBase * d <= ByteBase * (-1)
      BY <1>2, <2>3, ParserConstants
    <3> QED BY <1>2, <2>1, <2>2, <3>1, ParserConstants
  <2> QED BY <1>2, <2>2, <2>3
<1>4. n \in Nat /\ n + 3 = m.len + 2
  BY <1>1
<1> HIDE DEF r, d, n
<1>5. a \in Seq(Nat) /\ Len(a) = 3 /\ a[1] = r /\ a[2] = d /\ a[3] = m.type
  <2>1. m.type \in Nat
    BY <1>1
  <2> QED BY <1>3, <2>1
<1>6. b \in Seq(Nat) /\ Len(b) = n
  BY <1>4 DEF Parser!TypeA
<1>7. Parser!Frame("host", m) = a \o b
  BY DEF Parser!Frame, r, d, n
<1> HIDE DEF a, b
<1>8. a \o b \in Seq(Nat) /\ Len(a \o b) = 3 + n
  <2>1. a \o b \in Seq(Nat) /\ Len(a \o b) = Len(a) + Len(b)
    BY ONLY <1>5, <1>6, ConcatProperties
  <2> QED BY <1>5, <1>6, <2>1
<1>9. (a \o b)[1] = r /\ (a \o b)[2] = d /\ (a \o b)[3] = m.type
  <2>1. \A j \in 1..3 : (a \o b)[j] = a[j]
    <3>1. \A j \in 1..(Len(a) + Len(b)) : (a \o b)[j] = IF j <= Len(a) THEN a[j] ELSE b[j - Len(a)]
      BY ONLY <1>5, <1>6, ConcatProperties
    <3>2. Len(a) = 3 /\ Len(b) = n /\ n \in Nat
      BY <1>4, <1>5, <1>6
    <3>3. \A j \in 1..3 : j \in 1..(Len(a) + Len(b)) /\ j <= Len(a)
      BY ONLY <3>2
    <3> QED BY ONLY <3>1, <3>3
  <2>2. a[1] = r /\ a[2] = d /\ a[3] = m.type
    BY <1>5
  <2>3. (a \o b)[1] = a[1] /\ (a \o b)[2] = a[2] /\ (a \o b)[3] = a[3]
    <3>1. 1 \in 1..3 /\ 2 \in 1..3 /\ 3 \in 1..3
      OBVIOUS
    <3> QED BY ONLY <2>1, <3>1
  <2> QED BY ONLY <2>2, <2>3
<1> DEFINE l == m.len  t == m.type  F == Parser!Frame("host", m)  q == ByteBase * d
<1>10. r + ByteBase * d = l
  <2>1. q \in Nat /\ r \in Nat /\ l = q + r
    BY <1>2, <1>3, ParserConstants
  <2> HIDE DEF q, l
  <2>2. r + q = l
    BY ONLY <2>1
  <2> QED BY <2>2 DEF q
<1>11. /\ l \in Nat \ {0} /\ F = a \o b /\ a \o b \in Seq(Nat) /\ Len(a \o b) = 3 + n
       /\ n \in Nat /\ n + 3 = l + 2 /\ (a \o b)[1] = r /\ (a \o b)[2] = d /\ (a \o b)[3] = t
  BY <1>1, <1>4, <1>7, <1>8, <1>9
<1> HIDE DEF l, t, F, q
<1>12. F \in Seq(Nat) /\ F[1] = r /\ F[2] = d /\ F[3] = t
  BY <1>11, Zenon
<1>13. Len(F) = l + 2
  <2>1. Len(F) = 3 + n
    BY <1>11, Zenon
  <2> QED BY ONLY <1>11, <2>1
<1>14. l \in Nat \ {0} /\ F[1] + ByteBase * F[2] = l
  BY <1>10, <1>11, <1>12, Zenon
<1> QED BY <1>12, <1>13, <1>14, Zenon DEF F, l, t

(* The first k messages on the wire.                                        *)
Part(ms, k) == Parser!Wire("host", SubSeq(ms, 1, k))

(* One of them more.                                                        *)
LEMMA PartNext ==
  ASSUME NEW ms \in Seq(Parser!Message), NEW k \in 0..(Len(ms) - 1)
  PROVE  Part(ms, k) \in Seq(Nat) /\ Part(ms, k + 1) = Part(ms, k) \o Parser!Frame("host", ms[k + 1])
<1> DEFINE F(u) == [j \in 1..Len(u) |-> Parser!Frame("host", u[j])]
           u == SubSeq(ms, 1, k)
           v == SubSeq(ms, 1, k + 1)
           x == Parser!Frame("host", ms[k + 1])
<1>1. k \in Nat /\ k + 1 \in 1..Len(ms) /\ Len(ms) \in Nat
  OBVIOUS
<1>2. Len(u) = k /\ \A j \in 1..k : u[j] = ms[j] /\ ms[j] \in Parser!Message
  <2>1. k \in 0..Len(ms)
    BY <1>1
  <2> QED BY <1>1, <2>1
<1>3. Len(v) = k + 1 /\ \A j \in 1..(k + 1) : v[j] = ms[j]
  BY <1>1
<1>4. \A m \in Parser!Message : Parser!Frame("host", m) \in Seq(Nat)
  BY FrameIs
<1>5. ms[k + 1] \in Parser!Message
  BY <1>1
<1> HIDE DEF u, v
<1>6. F(u) \in Seq(Seq(Nat)) /\ Len(F(u)) = k
  <2>1. \A j \in 1..k : Parser!Frame("host", u[j]) \in Seq(Nat)
    BY <1>2, <1>4
  <2> DEFINE W == Seq(Nat)
  <2>2. [j \in 1..k |-> Parser!Frame("host", u[j])] \in [1..k -> W]
    BY <2>1
  <2> HIDE DEF W
  <2>3. [j \in 1..k |-> Parser!Frame("host", u[j])] \in Seq(W) /\ Len([j \in 1..k |-> Parser!Frame("host", u[j])]) = k
    BY <1>1, <2>2
  <2> QED BY <1>2, <2>3 DEF W
<1>7. x \in Seq(Nat)
  BY <1>4, <1>5
<1>8. F(v) = Append(F(u), x)
  <2> DEFINE s == F(u)  t == Append(s, x)
  <2>1. \A j \in 1..k : s[j] = Parser!Frame("host", ms[j])
    BY <1>2
  <2>2. s \in Seq(Seq(Nat)) /\ Len(s) = k /\ x \in Seq(Nat)
    BY <1>6, <1>7
  <2> HIDE DEF s, x
  <2>3. DOMAIN t = 1..(k + 1) /\ t[k + 1] = x /\ (\A j \in 1..k : t[j] = s[j]) /\ t = [j \in DOMAIN t |-> t[j]]
    <3> DEFINE W == Seq(Nat)
    <3>1. s \in Seq(W) /\ x \in W
      BY <2>2
    <3> HIDE DEF W
    <3>2. t \in Seq(W) /\ Len(t) = k + 1 /\ t[k + 1] = x /\ \A j \in 1..k : t[j] = s[j]
      BY <2>2, <3>1, AppendProperties
    <3> HIDE DEF t
    <3> QED BY <3>2
  <2> HIDE DEF t
  <2>4. \A j \in 1..(k + 1) : t[j] = Parser!Frame("host", v[j])
    <3> TAKE j \in 1..(k + 1)
    <3>1. CASE j = k + 1
      BY <1>3, <2>3, <3>1 DEF x
    <3>2. CASE j # k + 1
      <4>1. j \in 1..k
        BY <1>1, <3>2
      <4> QED BY <1>3, <2>1, <2>3, <4>1
    <3> QED BY <3>1, <3>2
  <2>5. t = [j \in 1..(k + 1) |-> Parser!Frame("host", v[j])]
    BY <2>3, <2>4
  <2> QED BY <1>3, <2>5 DEF t, s
<1>9. Part(ms, k) = Parser!FlattenSeq(F(u)) /\ Part(ms, k + 1) = Parser!FlattenSeq(F(v))
  BY DEF Part, Parser!Wire, u, v
<1> HIDE DEF F, x
<1> QED BY <1>6, <1>7, <1>8, <1>9, FlattenAppend DEF x

(* Where the message behind the first k begins.                             *)
Reach(ms, k) == Len(Part(ms, k))

(* Before the first message there is nothing, behind the last everything.   *)
LEMMA PartEnds ==
  ASSUME NEW ms \in Seq(Parser!Message)
  PROVE  Part(ms, 0) = <<>> /\ Part(ms, Len(ms)) = Parser!Wire("host", ms)
<1>1. SubSeq(ms, 1, 0) = <<>>
  BY SubSeqProperties
<1>2. SubSeq(ms, 1, Len(ms)) = ms
  OBVIOUS
<1>3. Part(ms, 0) = Parser!FlattenSeq([j \in 1..Len(<<>>) |-> Parser!Frame("host", <<>>[j])])
  BY <1>1 DEF Part, Parser!Wire
<1>4. [j \in 1..Len(<<>>) |-> Parser!Frame("host", <<>>[j])] = <<>>
  OBVIOUS
<1>5. Parser!FlattenSeq(<<>>) = <<>>
  BY DEF Parser!FlattenSeq
<1> QED BY <1>2, <1>3, <1>4, <1>5 DEF Part

(* A message more takes its length, and two bytes.                          *)
LEMMA EndNext ==
  ASSUME NEW ms \in Seq(Parser!Message), NEW k \in 0..(Len(ms) - 1)
  PROVE  /\ Reach(ms, k) \in Nat /\ ms[k + 1] \in Parser!Message
         /\ Reach(ms, k + 1) = Reach(ms, k) + 2 + ms[k + 1].len
         /\ Part(ms, k + 1) \in Seq(Nat)
<1> DEFINE p == Part(ms, k)  x == Parser!Frame("host", ms[k + 1])
<1>1. ms[k + 1] \in Parser!Message
  OBVIOUS
<1>2. x \in Seq(Nat) /\ Len(x) = ms[k + 1].len + 2 /\ ms[k + 1].len \in Nat
  BY <1>1, FrameIs
<1>3. p \in Seq(Nat) /\ Part(ms, k + 1) = p \o x
  BY PartNext
<1> HIDE DEF p, x
<1>4. p \o x \in Seq(Nat) /\ Len(p \o x) = Len(p) + Len(x) /\ Len(p) \in Nat
  BY <1>2, <1>3, ConcatProperties, LenProperties
<1>5. Reach(ms, k) = Len(p) /\ Reach(ms, k + 1) = Len(p \o x)
  BY <1>3 DEF Reach, p
<1>6. Part(ms, k + 1) \in Seq(Nat)
  BY <1>3, <1>4
<1> DEFINE l == ms[k + 1].len
<1>7. Len(p) \in Nat /\ l \in Nat /\ Len(x) = l + 2
  BY <1>2, <1>4
<1> HIDE DEF l
<1>8. Reach(ms, k) \in Nat /\ Reach(ms, k + 1) = Reach(ms, k) + 2 + l
  BY ONLY <1>4, <1>5, <1>7
<1> QED BY <1>1, <1>6, <1>8 DEF l

(* Where message k + 1 is, however many come behind it.                     *)
Holds(ms, m, k) ==
  /\ Reach(ms, k + 1) <= Reach(ms, m)
  /\ \A j \in 1..(ms[k + 1].len + 2) : Part(ms, m)[Reach(ms, k) + j] = Parser!Frame("host", ms[k + 1])[j]

LEMMA PartHolds ==
  ASSUME NEW ms \in Seq(Parser!Message)
  PROVE  \A m \in Nat : m \in 0..Len(ms) => \A k \in 0..(m - 1) : Holds(ms, m, k)
<1> DEFINE bad == {m \in Nat : m \in 0..Len(ms) /\ \E k \in 0..(m - 1) : ~Holds(ms, m, k)}
<1> SUFFICES ASSUME bad # {} PROVE FALSE
  OBVIOUS
<1>1. PICK m \in bad : \A j \in bad : m <= j
  BY LeastNumber, bad \subseteq Nat
<1>2. PICK k \in 0..(m - 1) : ~Holds(ms, m, k)
  BY <1>1
<1> DEFINE n == m - 1
<1>3. n \in Nat /\ n + 1 = m /\ n \in 0..(Len(ms) - 1) /\ n \in 0..Len(ms) /\ k \in 0..n /\ ~(m <= n)
      /\ k \in Nat
  <2>1. m \in Nat /\ m \in 0..Len(ms) /\ Len(ms) \in Nat /\ k \in 0..(m - 1)
    BY <1>1, <1>2
  <2> QED BY ONLY <2>1
<1>4. n \notin bad
  BY <1>1, <1>3
<1>5. \A l \in 0..(n - 1) : Holds(ms, n, l)
  BY <1>3, <1>4
<1> HIDE DEF bad, n
<1> DEFINE p == Part(ms, n)  x == Parser!Frame("host", ms[n + 1])
<1>6. p \in Seq(Nat) /\ Part(ms, m) = p \o x
  BY <1>3, PartNext
<1>7. Reach(ms, n) \in Nat /\ ms[n + 1] \in Parser!Message /\ Reach(ms, m) = Reach(ms, n) + 2 + ms[n + 1].len
  BY <1>3, EndNext
<1>8. x \in Seq(Nat) /\ Len(x) = ms[n + 1].len + 2 /\ ms[n + 1].len \in Nat
  BY <1>7, FrameIs
<1>9. Len(p) = Reach(ms, n)
  BY DEF Reach
<1> HIDE DEF p, x
<1>10. \A j \in 1..(Len(p) + Len(x)) : (p \o x)[j] = IF j <= Len(p) THEN p[j] ELSE x[j - Len(p)]
  BY ONLY <1>6, <1>8, ConcatProperties
<1>11. CASE k = n
  <2>1. Reach(ms, k + 1) <= Reach(ms, m)
    <3> DEFINE A == Reach(ms, n)  B == ms[n + 1].len  C == Reach(ms, m)
    <3>1. A \in Nat /\ B \in Nat /\ C = A + 2 + B
      BY <1>7, <1>8
    <3> HIDE DEF A, B, C
    <3>2. C <= C
      BY ONLY <3>1, SMTT(60)
    <3>3. C = Reach(ms, k + 1)
      BY <1>3, <1>11 DEF C
    <3> QED BY <3>2, <3>3 DEF C
  <2>2. ASSUME NEW j \in 1..(ms[k + 1].len + 2)
        PROVE  Part(ms, m)[Reach(ms, k) + j] = Parser!Frame("host", ms[k + 1])[j]
    <3> DEFINE e == Len(p) + j
    <3>1. j \in 1..Len(x) /\ Len(p) \in Nat /\ Len(x) \in Nat
      BY <1>7, <1>8, <1>9, <1>11, <2>2
    <3>2. e \in 1..(Len(p) + Len(x)) /\ ~(e <= Len(p)) /\ e - Len(p) = j
      BY ONLY <3>1
    <3> HIDE DEF e
    <3>3. (p \o x)[e] = x[j]
      BY ONLY <1>10, <3>2
    <3> QED BY <1>6, <1>9, <1>11, <3>3 DEF e, x
  <2> QED BY <1>2, <2>1, <2>2 DEF Holds
<1>12. CASE k # n
  <2>1. k \in 0..(n - 1) /\ k \in 0..(Len(ms) - 1)
    BY <1>3, <1>12
  <2>2. Holds(ms, n, k)
    BY <1>5, <2>1
  <2>3. Reach(ms, k) \in Nat /\ Reach(ms, k + 1) = Reach(ms, k) + 2 + ms[k + 1].len /\ ms[k + 1] \in Parser!Message
    BY <2>1, EndNext
  <2>4. ms[k + 1].len \in Nat
    BY <2>3, FrameIs
  <2>5. Reach(ms, k + 1) <= Reach(ms, n)
    BY <2>2 DEF Holds
  <2>6. Reach(ms, k + 1) <= Reach(ms, m)
    <3> DEFINE A == Reach(ms, n)  B == ms[n + 1].len  C == Reach(ms, k)  D == ms[k + 1].len
    <3>1. Reach(ms, n) <= Reach(ms, m) /\ Reach(ms, n) \in Nat /\ Reach(ms, m) \in Nat /\ Reach(ms, k + 1) \in Nat
      <4>1. A \in Nat /\ B \in Nat /\ Reach(ms, m) = A + 2 + B
        BY <1>7, <1>8
      <4>2. C \in Nat /\ D \in Nat /\ Reach(ms, k + 1) = C + 2 + D
        BY <2>3, <2>4
      <4> HIDE DEF A, B, C, D
      <4>3. A <= Reach(ms, m) /\ Reach(ms, m) \in Nat /\ Reach(ms, k + 1) \in Nat
        BY ONLY <4>1, <4>2
      <4> QED BY ONLY <4>1, <4>3 DEF A
    <3> QED BY ONLY <2>5, <3>1
  <2>7. ASSUME NEW j \in 1..(ms[k + 1].len + 2)
        PROVE  Part(ms, m)[Reach(ms, k) + j] = Parser!Frame("host", ms[k + 1])[j]
    <3> DEFINE e == Reach(ms, k) + j
    <3>1. e \in Nat /\ 1 <= e /\ e <= Len(p) /\ Len(p) \in Nat /\ Len(x) \in Nat
      <4> DEFINE d == ms[k + 1].len  c == Reach(ms, k)  A == Len(p)  B == Len(x)  l == ms[n + 1].len
                 u == Reach(ms, k + 1)
      <4>a. c \in Nat /\ A \in Nat /\ l \in Nat /\ B = l + 2 /\ u = c + 2 + d /\ u <= A
        BY <1>7, <1>8, <1>9, <2>3, <2>5
      <4> HIDE DEF c, d, A, B, l, u
      <4>1. c \in Nat /\ A \in Nat /\ B \in Nat /\ c + 2 + d <= A
        BY ONLY <4>a
      <4>2. d \in Nat /\ j \in 1..(d + 2)
        BY <2>4 DEF d
      <4>3. c + j \in Nat /\ 1 <= c + j /\ c + j <= A
        BY ONLY <4>1, <4>2
      <4> QED BY <4>1, <4>3 DEF c, A, B
    <3>2. p[e] = Parser!Frame("host", ms[k + 1])[j]
      BY <2>2 DEF Holds, p
    <3> HIDE DEF e
    <3>3. e \in 1..(Len(p) + Len(x))
      BY ONLY <3>1
    <3>4. (p \o x)[e] = p[e]
      BY ONLY <1>10, <3>1, <3>3
    <3> QED BY <1>6, <3>2, <3>4 DEF e
  <2> QED BY <1>2, <2>6, <2>7 DEF Holds
<1> QED BY <1>11, <1>12

(* The bytes at the beginning of message k + 1, which are in the buffer.    *)
LEMMA MessageAt ==
  ASSUME NEW ms \in Seq(Parser!Message), NEW k \in 0..(Len(ms) - 1)
  PROVE  LET b == Parser!Wire("host", ms)  e == Reach(ms, k)  m == ms[k + 1] IN
         /\ e \in Nat /\ Len(b) \in Nat /\ Reach(ms, k + 1) = e + 2 + m.len /\ Reach(ms, k + 1) <= Len(b)
         /\ m.len \in Nat \ {0} /\ b \in Seq(Nat)
         /\ b[e + 1] + ByteBase * b[e + 2] = m.len /\ b[e + 3] = m.type
<1> DEFINE b == Parser!Wire("host", ms)  e == Reach(ms, k)  m == ms[k + 1]  n == Len(ms)
<1>1. n \in Nat /\ n \in 0..Len(ms) /\ k \in 0..(n - 1) /\ n - 1 \in 0..(Len(ms) - 1) /\ n - 1 + 1 = n
  OBVIOUS
<1>2. Holds(ms, n, k)
  BY <1>1, PartHolds
<1>3. Part(ms, n) = b
  BY PartEnds
<1>4. e \in Nat /\ m \in Parser!Message /\ Reach(ms, k + 1) = e + 2 + m.len
  BY EndNext
<1>5. m.len \in Nat \ {0}
      /\ Parser!Frame("host", m)[1] + ByteBase * Parser!Frame("host", m)[2] = m.len /\ Parser!Frame("host", m)[3] = m.type
  BY <1>4, FrameIs
<1>6. Part(ms, n) \in Seq(Nat)
  <2> DEFINE j == n - 1
  <2>1. j \in 0..(Len(ms) - 1) /\ j + 1 = n
    BY <1>1
  <2> HIDE DEF j, n
  <2>2. Part(ms, j + 1) \in Seq(Nat)
    BY <2>1, EndNext
  <2> QED BY <2>1, <2>2
<1>7. b \in Seq(Nat) /\ Len(b) \in Nat /\ Reach(ms, n) = Len(b)
  BY <1>3, <1>6, LenProperties DEF Reach
<1> HIDE DEF b, e, m, n
<1>8. \A j \in 1..(m.len + 2) : b[e + j] = Parser!Frame("host", m)[j]
  BY <1>2, <1>3 DEF Holds, e, m
<1>9. b[e + 1] = Parser!Frame("host", m)[1] /\ b[e + 2] = Parser!Frame("host", m)[2] /\ b[e + 3] = Parser!Frame("host", m)[3]
  <2>1. 1 \in 1..(m.len + 2) /\ 2 \in 1..(m.len + 2) /\ 3 \in 1..(m.len + 2)
    BY <1>5
  <2> QED BY ONLY <1>8, <2>1
<1>10. Reach(ms, k + 1) <= Len(b)
  BY <1>2, <1>7 DEF Holds
<1>11. b[e + 1] + ByteBase * b[e + 2] = m.len /\ b[e + 3] = m.type
  BY <1>5, <1>9
<1> QED BY <1>4, <1>5, <1>7, <1>10, <1>11 DEF b, e, m

(* Messages further on begin further on.                                    *)
LEMMA EndsGrow ==
  ASSUME NEW ms \in Seq(Parser!Message), NEW m \in 0..Len(ms), NEW k \in 0..(m - 1)
  PROVE  Reach(ms, k) \in Nat /\ Reach(ms, m) \in Int /\ Reach(ms, k) + 2 < Reach(ms, m)
<1>1. Len(ms) \in Nat /\ m \in Nat /\ m - 1 \in 0..(Len(ms) - 1) /\ k \in 0..(Len(ms) - 1) /\ m - 1 + 1 = m
  OBVIOUS
<1>2. Reach(ms, k + 1) <= Reach(ms, m)
  BY <1>1, PartHolds DEF Holds
<1>3. Reach(ms, k) \in Nat /\ Reach(ms, k + 1) = Reach(ms, k) + 2 + ms[k + 1].len /\ ms[k + 1] \in Parser!Message
  BY <1>1, EndNext
<1>4. ms[k + 1].len \in Nat \ {0}
  BY <1>3, FrameIs
<1>5. Reach(ms, m) \in Int
  <2> DEFINE j == m - 1
  <2>1. j \in 0..(Len(ms) - 1) /\ j + 1 = m
    BY <1>1
  <2> HIDE DEF j
  <2>2. Reach(ms, j + 1) = Reach(ms, j) + 2 + ms[j + 1].len /\ Reach(ms, j) \in Nat /\ ms[j + 1] \in Parser!Message
    BY <2>1, EndNext
  <2>3. ms[j + 1].len \in Nat
    BY <2>2, FrameIs
  <2> QED BY <2>1, <2>2, <2>3, SMTT(60)
<1> QED BY <1>2, <1>3, <1>4, <1>5, SMTT(60)

-----------------------------------------------------------------------------
(* The parser: digits and their number.                                     *)

(* The parser's sums are sums.                                              *)
LEMMA ParserSum ==
  ASSUME NEW f, NEW S
  PROVE  Parser!SumFunctionOnSet(f, S) = SumFunctionOnSet(f, S)
  BY DEF Parser!SumFunctionOnSet, Parser!FoldFunctionOnSet, Parser!MapThenFoldSet,
         SumFunctionOnSet, FoldFunctionOnSet, MapThenFoldSet

(* The recursive definition of the worth of a digit.                        *)
LEMMA WorthIs ==
  Parser!Worth[0] = 1 /\ \A n \in Nat : Parser!Worth[n] \in Int /\ Parser!Worth[n + 1] = 10 * Parser!Worth[n]
<1> DEFINE G == [x \in Nat \X Int |-> 10 * x[2]]
<1>1. G \in [Nat \X Int -> Int] /\ \A n \in Nat, a \in Int : G[<<n, a>>] = 10 * a
  OBVIOUS
<1> HIDE DEF G
<1>2. PICK f \in [Nat -> Int] : f[0] = 1 /\ \A n \in Nat : f[n + 1] = 10 * f[n]
  <2>1. 1 \in Int
    OBVIOUS
  <2>2. \E f \in [Nat -> Int] : Recurs(f, 1, G)
    BY <1>1, <2>1, Recursion
  <2> QED BY <1>1, <2>2 DEF Recurs
<1>3. ASSUME NEW n \in Nat PROVE f[n] = IF n = 0 THEN 1 ELSE 10 * f[n - 1]
  <2>1. CASE n = 0
    BY <1>2, <2>1
  <2>2. CASE n # 0
    <3>1. n - 1 \in Nat /\ n - 1 + 1 = n
      BY <2>2
    <3> QED BY <1>2, <2>2, <3>1
  <2> QED BY <2>1, <2>2
<1>4. f = [n \in Nat |-> IF n = 0 THEN 1 ELSE 10 * f[n - 1]]
  BY <1>3
<1> DEFINE R == Parser!Worth
<1>5. R = [n \in Nat |-> IF n = 0 THEN 1 ELSE 10 * R[n - 1]]
  BY <1>4 DEF Parser!Worth
<1> HIDE DEF R
<1>6. \A n \in Nat : R[n] = IF n = 0 THEN 1 ELSE 10 * R[n - 1]
  BY <1>5
<1>7. \A n \in Nat : R[n] = f[n]
  <2> DEFINE bad == {n \in Nat : R[n] # f[n]}
  <2> SUFFICES ASSUME bad # {} PROVE FALSE
    OBVIOUS
  <2>1. PICK n \in bad : \A j \in bad : n <= j
    BY LeastNumber, bad \subseteq Nat
  <2>2. n # 0
    BY <1>3, <1>6, <2>1
  <2>3. n - 1 \in Nat /\ ~(n <= n - 1)
    BY <2>1, <2>2
  <2>4. R[n - 1] = f[n - 1]
    BY <2>1, <2>3
  <2> QED BY <1>3, <1>6, <2>1, <2>2, <2>4
<1>8. R[0] = 1 /\ \A n \in Nat : R[n] \in Int /\ R[n + 1] = 10 * R[n]
  BY <1>2, <1>7
<1> QED BY <1>8 DEF R

(* The exclusive or with '0' takes '0' away from a digit.                   *)
LEMMA XorIs == \A c \in 48..57 : Parser!Xor(c, 48) = c - 48
<1>1. Parser!Xor(48, 48) = 0
  BY Z3 DEF Parser!Xor
<1>2. Parser!Xor(49, 48) = 1
  BY Z3 DEF Parser!Xor
<1>3. Parser!Xor(50, 48) = 2
  BY Z3 DEF Parser!Xor
<1>4. Parser!Xor(51, 48) = 3
  BY Z3 DEF Parser!Xor
<1>5. Parser!Xor(52, 48) = 4
  BY Z3 DEF Parser!Xor
<1>6. Parser!Xor(53, 48) = 5
  BY Z3 DEF Parser!Xor
<1>7. Parser!Xor(54, 48) = 6
  BY Z3 DEF Parser!Xor
<1>8. Parser!Xor(55, 48) = 7
  BY Z3 DEF Parser!Xor
<1>9. Parser!Xor(56, 48) = 8
  BY Z3 DEF Parser!Xor
<1>10. Parser!Xor(57, 48) = 9
  BY Z3 DEF Parser!Xor
<1> QED BY <1>1, <1>2, <1>3, <1>4, <1>5, <1>6, <1>7, <1>8, <1>9, <1>10

(* The number that the first n digits of s stand for.                       *)
Number(s, n) ==
  SumFunctionOnSet([k \in 1..n |-> (s[k] - 48) * Parser!Worth[n - k]], 1..n)

(* A digit more multiplies it by ten.                                       *)
LEMMA NumberNext ==
  ASSUME NEW s \in Seq(48..57), NEW n \in 0..(Len(s) - 1)
  PROVE  Number(s, n) \in Int /\ Number(s, n + 1) = Number(s, n) * 10 + (s[n + 1] - 48)
<1>0. n \in Nat /\ \A k \in 1..(n + 1) : s[k] \in Int
  OBVIOUS
<1> DEFINE f == [k \in 1..n |-> (s[k] - 48) * Parser!Worth[n - k]]
           h == [k \in 1..(n + 1) |-> (s[k] - 48) * Parser!Worth[n + 1 - k]]
           S == 1..n
           T == 1..(n + 1)
<1>1. S = T \ {n + 1} /\ n + 1 \in T
  BY <1>0
<1>2. IsFiniteSet(S) /\ IsFiniteSet(T)
  BY <1>0, FS_Interval
<1>3. h[n + 1] = s[n + 1] - 48
  <2>1. n + 1 - (n + 1) = 0 /\ n + 1 \in 1..(n + 1)
    BY <1>0
  <2>2. h[n + 1] = (s[n + 1] - 48) * Parser!Worth[0] /\ s[n + 1] \in Int
    BY <1>0, <2>1
  <2>3. Parser!Worth[0] = 1
    BY WorthIs
  <2> QED BY <2>2, <2>3
<1>4. \A k \in S : f[k] \in Int /\ h[k] = 10 * f[k]
  <2> TAKE k \in S
  <2> DEFINE a == s[k] - 48  w == Parser!Worth[n - k]
  <2>1. n - k \in Nat /\ n + 1 - k = n - k + 1 /\ k \in T
    BY <1>0
  <2>2. a \in Int
    BY <1>0, <2>1
  <2>3. w \in Int /\ Parser!Worth[n + 1 - k] = 10 * w
    BY <2>1, WorthIs
  <2>4. f[k] = a * w /\ h[k] = a * (10 * w)
    BY <2>1, <2>3
  <2> HIDE DEF a, w, f, h
  <2> QED BY <2>2, <2>3, <2>4
<1>5. Number(s, n) = SumFunctionOnSet(f, S) /\ Number(s, n + 1) = SumFunctionOnSet(h, T)
  BY DEF Number
<1>6. \A k \in T : h[k] \in Int
  <2>1. h[n + 1] \in Int
    BY <1>0, <1>3
  <2> HIDE DEF f, h, S, T
  <2>2. \A k \in S : h[k] \in Int
    BY <1>4
  <2> QED BY <1>1, <2>1, <2>2
<1> HIDE DEF f, h, S, T
<1>7. SumFunctionOnSet(h, T) = h[n + 1] + SumFunctionOnSet(h, S)
  BY <1>1, <1>2, <1>6, SumSplit
<1>8. SumFunctionOnSet(h, S) = 10 * SumFunctionOnSet(f, S)
  <2>1. 10 \in Int
    OBVIOUS
  <2> QED BY <1>2, <1>4, <2>1, SumScale
<1>9. SumFunctionOnSet(f, S) \in Int
  BY <1>2, <1>4, SumInt
<1>10. s[n + 1] \in Int
  BY <1>0
<1> QED BY <1>3, <1>5, <1>7, <1>8, <1>9, <1>10

-----------------------------------------------------------------------------
(* The parser: its two loops.                                               *)

(* What happens to the parser is a step of its module or nothing.           *)
LEMMA ParserStep ==
  [SuiteNext]_<<subject, vars, ButAllocator>> => [Parser!Next]_parserVars
  BY DEF SuiteNext, ButAllocator, parserVars, ButBook, ButEngine, ButLedger, ButStream, ButFraud, ButEncoder

(* The Add Orders among ms whose beginning lies before c and whose type lies*)
(* before e.                                                                *)
Sent(ms, c, e) ==
  {m \in 1..Len(ms) : ms[m].type = Parser!TypeA /\ Reach(ms, m - 1) < c /\ Reach(ms, m - 1) + 2 < e}

(* The bytes e of the messages ms are cut, or one of the orders is short.   *)
Partial(ms, e) ==
  \/ \A k \in 0..Len(ms) : Reach(ms, k) # e
  \/ \E k \in 1..Len(ms) : ms[k].type = Parser!TypeA /\ ms[k].len < AddOrderSize

(* The loop is at offset c of the first e bytes of ms, and has found f.     *)
Parsed(ms, e, c, f, over) ==
  /\ c \in Nat /\ f \in Seq(Int)
  /\ c < e => \E k \in 0..(Len(ms) - 1) : c = Reach(ms, k)
  /\ \A a \in 1..Len(f) : f[a] <= c
  /\ \A a, b \in 1..Len(f) : a < b => f[a] < f[b]
  /\ \A a \in 1..Len(f) : f[a] < e => \E m \in Sent(ms, c, e) : f[a] = Reach(ms, m - 1) + 2
  /\ \A m \in Sent(ms, c, e) : \E a \in 1..Len(f) : f[a] = Reach(ms, m - 1) + 2
  /\ (over \/ \E a \in 1..Len(f) : f[a] >= e) => Partial(ms, e)

(* The inductive invariant of the parser.                                   *)
FeedInv ==
  /\ messages \in Seq(Parser!Message)
  /\ sender = "host" =>
       /\ end_ptr \in 0..Len(Parser!Wire("host", messages))
       /\ Parsed(messages, end_ptr, current_ptr, found, overrun)
  /\ str \in Seq(48..57) /\ i \in 0..Len(str)
  /\ result = Number(str, i) % UintModulus

(* The end of the messages.                                                 *)
LEMMA WireEnd ==
  ASSUME NEW ms \in Seq(Parser!Message)
  PROVE  /\ Len(Parser!Wire("host", ms)) \in Nat
         /\ Reach(ms, Len(ms)) = Len(Parser!Wire("host", ms))
         /\ \A k \in 0..Len(ms) : Reach(ms, k) \in Nat
         /\ Reach(ms, 0) = 0
<1> DEFINE n == Len(ms)
<1>0. n \in Nat
  OBVIOUS
<1>1. Reach(ms, n) = Len(Parser!Wire("host", ms)) /\ Reach(ms, 0) = 0
  BY PartEnds DEF Reach
<1>2. ASSUME NEW k \in 0..n PROVE Reach(ms, k) \in Nat
  <2>1. CASE k = n /\ n = 0
    BY <1>1, <2>1
  <2>2. CASE k < n
    <3>1. k \in 0..(n - 1)
      BY <1>0, <2>2
    <3> QED BY <3>1, EndNext
  <2>3. CASE k = n /\ n > 0
    <3>1. 0 \in 0..(n - 1)
      BY <1>0, <2>3
    <3>2. Len(Parser!Wire("host", ms)) \in Nat
      BY <3>1, MessageAt
    <3> QED BY <1>1, <2>3, <3>2
  <2> QED BY <1>0, <2>1, <2>2, <2>3
<1>3. n \in 0..n
  BY <1>0
<1> QED BY <1>1, <1>2, <1>3

(* Nothing is read yet.                                                     *)
LEMMA FeedStarts == SuiteInit => FeedInv
<1> SUFFICES ASSUME SuiteInit PROVE FeedInv
  OBVIOUS
<1>1. /\ messages \in Seq(Parser!Message) /\ str \in Seq(48..57)
      /\ found = <<>> /\ overrun = FALSE /\ current_ptr = 0 /\ i = 0 /\ result = 0
      /\ sender = "host" => end_ptr \in 0..Len(Parser!Wire("host", messages))
  <2>1. CASE Parser!Init
    <3>1. found = <<>> /\ overrun = FALSE /\ current_ptr = 0 /\ i = 0 /\ result = 0
      BY <2>1 DEF Parser!Init
    <3>2. CASE /\ str = <<>> /\ messages \in UNION {[1..n -> Parser!Message] : n \in 0..MaxMessages}
               /\ end_ptr \in 0..Len(Parser!network_buffer)
      <4>1. PICK n \in 0..MaxMessages : messages \in [1..n -> Parser!Message]
        BY <3>2
      <4>2. n \in Nat
        BY ParserConstants
      <4>3. messages \in Seq(Parser!Message)
        BY <4>1, <4>2
      <4>4. str \in Seq(48..57)
        BY <3>2
      <4>5. sender = "host" => end_ptr \in 0..Len(Parser!Wire("host", messages))
        BY <3>2, Zenon DEF Parser!network_buffer
      <4> QED BY <3>1, <4>3, <4>4, <4>5
    <3>3. CASE /\ messages = <<>> /\ end_ptr = 0
               /\ str \in UNION {[1..n -> {48 + d : d \in Digits}] : n \in 0..MaxDigits}
      <4>1. PICK n \in 0..MaxDigits : str \in [1..n -> {48 + d : d \in Digits}]
        BY <3>3
      <4>2. n \in Nat
        BY ParserConstants
      <4>3. {48 + d : d \in Digits} \subseteq 48..57
        <5>1. \A d \in Digits : d \in 0..9
          BY ParserConstants
        <5> QED BY <5>1
      <4>4. str \in [1..n -> 48..57]
        BY <4>1, <4>3
      <4>5. str \in Seq(48..57)
        BY <4>2, <4>4
      <4>6. messages \in Seq(Parser!Message)
        BY <3>3
      <4>7. end_ptr \in 0..Len(Parser!Wire("host", messages))
        BY <3>3, <4>6, WireEnd
      <4> QED BY <3>1, <4>5, <4>6, <4>7
    <3> QED BY <2>1, <3>2, <3>3 DEF Parser!Init
  <2>2. CASE ParserIdle
    <3>1. messages \in Seq(Parser!Message) /\ end_ptr = 0
      BY <2>2 DEF ParserIdle
    <3>2. end_ptr \in 0..Len(Parser!Wire("host", messages))
      BY <3>1, WireEnd
    <3> QED BY <2>2, <3>1, <3>2 DEF ParserIdle
  <2> QED BY <2>1, <2>2 DEF SuiteInit
<1>2. i \in 0..Len(str)
  BY <1>1
<1>3. ASSUME sender = "host" PROVE Parsed(messages, end_ptr, current_ptr, found, overrun)
  <2>1. Reach(messages, 0) = 0 /\ Reach(messages, Len(messages)) = Len(Parser!Wire("host", messages))
    BY <1>1, WireEnd
  <2>2. 0 < end_ptr => 0 \in 0..(Len(messages) - 1)
    <3>1. Len(messages) \in Nat /\ Len(Parser!Wire("host", messages)) \in Nat
      BY <1>1, WireEnd
    <3>2. end_ptr \in 0..Len(Parser!Wire("host", messages))
      BY <1>1, <1>3
    <3> QED BY <2>1, <3>1, <3>2
  <2>3. Sent(messages, 0, end_ptr) = {}
    <3> SUFFICES ASSUME NEW m \in 1..Len(messages), Reach(messages, m - 1) < 0 PROVE FALSE
      BY DEF Sent
    <3>1. m - 1 \in 0..Len(messages)
      BY <1>1
    <3> QED BY <1>1, <3>1, WireEnd
  <2> QED BY <1>1, <2>1, <2>2, <2>3 DEF Parsed
<1>4. result = Number(str, i) % UintModulus
  <2>1. 1..i = {} /\ Number(str, i) = 0
    BY <1>1, SumEmpty DEF Number
  <2>2. 0 \in 0..(UintModulus - 1) /\ 0 = UintModulus * 0 + 0 /\ UintModulus \in Nat \ {0}
    BY ParserConstants
  <2>3. 0 % UintModulus = 0
    BY <2>2, ModIs
  <2> QED BY <1>1, <2>1, <2>3
<1> QED BY <1>1, <1>2, <1>3, <1>4 DEF FeedInv

(* Messages in order begin in order.                                        *)
LEMMA ReachOrder ==
  ASSUME NEW ms \in Seq(Parser!Message), NEW j \in 0..Len(ms), NEW k \in 0..Len(ms)
  PROVE  /\ Reach(ms, j) \in Nat /\ Reach(ms, k) \in Nat
         /\ Reach(ms, j) < Reach(ms, k) <=> j < k
         /\ Reach(ms, j) <= Reach(ms, k) <=> j <= k
<1>0. Len(ms) \in Nat /\ j \in Nat /\ k \in Nat
  OBVIOUS
<1>1. Reach(ms, j) \in Nat /\ Reach(ms, k) \in Nat
  BY WireEnd
<1>2. j < k => Reach(ms, j) < Reach(ms, k)
  <2> SUFFICES ASSUME j < k PROVE Reach(ms, j) < Reach(ms, k)
    OBVIOUS
  <2>1. j \in 0..(k - 1)
    BY <1>0
  <2>2. Reach(ms, j) + 2 < Reach(ms, k)
    BY <2>1, EndsGrow
  <2> QED BY <1>1, <2>2
<1>3. k < j => Reach(ms, k) < Reach(ms, j)
  <2> SUFFICES ASSUME k < j PROVE Reach(ms, k) < Reach(ms, j)
    OBVIOUS
  <2>1. k \in 0..(j - 1)
    BY <1>0
  <2>2. Reach(ms, k) + 2 < Reach(ms, j)
    BY <2>1, EndsGrow
  <2> QED BY <1>1, <2>2
<1>4. j = k => Reach(ms, j) = Reach(ms, k)
  OBVIOUS
<1> DEFINE a == Reach(ms, j)  b == Reach(ms, k)
<1>5. a \in Nat /\ b \in Nat /\ (j < k => a < b) /\ (k < j => b < a) /\ (j = k => a = b)
  BY <1>1, <1>2, <1>3, <1>4
<1> HIDE DEF a, b
<1>6. (a < b <=> j < k) /\ (a <= b <=> j <= k)
  BY ONLY <1>0, <1>5
<1> QED BY <1>1, <1>6 DEF a, b

(* A message more whose type has arrived.                                   *)
LEMMA SentNext ==
  ASSUME NEW ms \in Seq(Parser!Message), NEW k \in 0..(Len(ms) - 1), NEW e \in Nat, Reach(ms, k) + 2 < e
  PROVE  Sent(ms, Reach(ms, k + 1), e) =
           Sent(ms, Reach(ms, k), e) \union (IF ms[k + 1].type = Parser!TypeA THEN {k + 1} ELSE {})
<1>0. Len(ms) \in Nat /\ k \in Nat /\ k \in 0..Len(ms) /\ k + 1 \in 0..Len(ms) /\ k + 1 \in 1..Len(ms)
      /\ k + 1 - 1 = k
  OBVIOUS
<1>1. ASSUME NEW m \in 1..Len(ms)
      PROVE  Reach(ms, m - 1) < Reach(ms, k + 1) <=> (Reach(ms, m - 1) < Reach(ms, k) \/ m = k + 1)
  <2>1. m - 1 \in 0..Len(ms)
    BY <1>0
  <2>2. /\ Reach(ms, m - 1) < Reach(ms, k + 1) <=> m - 1 < k + 1
        /\ Reach(ms, m - 1) < Reach(ms, k) <=> m - 1 < k
    BY <1>0, <2>1, ReachOrder
  <2>3. m - 1 < k + 1 <=> (m - 1 < k \/ m = k + 1)
    BY <1>0
  <2> QED BY <2>2, <2>3
<1>2. \A m \in 1..Len(ms) :
        m \in Sent(ms, Reach(ms, k + 1), e) <=>
          (m \in Sent(ms, Reach(ms, k), e) \/ (m = k + 1 /\ ms[m].type = Parser!TypeA))
  <2> TAKE m \in 1..Len(ms)
  <2>1. m = k + 1 => Reach(ms, m - 1) + 2 < e
    BY <1>0
  <2> QED BY <1>1, <2>1 DEF Sent
<1>3. Sent(ms, Reach(ms, k + 1), e) \subseteq 1..Len(ms) /\ Sent(ms, Reach(ms, k), e) \subseteq 1..Len(ms)
  BY DEF Sent
<1> QED BY <1>0, <1>2, <1>3

(* A message more whose type has not arrived.                               *)
LEMMA SentSame ==
  ASSUME NEW ms \in Seq(Parser!Message), NEW k \in 0..(Len(ms) - 1), NEW e \in Nat, NEW c \in Nat,
         Reach(ms, k) + 2 >= e, c >= Reach(ms, k)
  PROVE  Sent(ms, c, e) = Sent(ms, Reach(ms, k), e)
<1>0. Len(ms) \in Nat /\ k \in 0..Len(ms) /\ Reach(ms, k) \in Nat
  BY WireEnd
<1>1. ASSUME NEW m \in 1..Len(ms), Reach(ms, m - 1) + 2 < e
      PROVE  Reach(ms, m - 1) < c /\ Reach(ms, m - 1) < Reach(ms, k)
  <2>1. m - 1 \in 0..Len(ms)
    BY <1>0
  <2>2. Reach(ms, m - 1) \in Nat
    BY <2>1, WireEnd
  <2> DEFINE a == Reach(ms, m - 1)  b == Reach(ms, k)
  <2>3. a \in Nat /\ b \in Nat /\ a + 2 < e /\ b + 2 >= e /\ c >= b
    BY <1>0, <1>1, <2>2
  <2> HIDE DEF a, b
  <2>4. a < c /\ a < b
    BY ONLY <2>3, e \in Nat, c \in Nat
  <2> QED BY <2>4 DEF a, b
<1> QED BY <1>1 DEF Sent

(* Whole messages: the next one has arrived, and is long enough.            *)
LEMMA Complete ==
  ASSUME NEW ms \in Seq(Parser!Message), NEW k \in 0..(Len(ms) - 1), NEW e \in Nat, Reach(ms, k) < e,
         ~Partial(ms, e)
  PROVE  /\ Reach(ms, k + 1) <= e
         /\ ms[k + 1].type = Parser!TypeA => ms[k + 1].len >= AddOrderSize
<1>0. Len(ms) \in Nat /\ k \in Nat /\ k \in 0..Len(ms) /\ k + 1 \in 0..Len(ms) /\ k + 1 \in 1..Len(ms)
  OBVIOUS
<1>1. PICK j \in 0..Len(ms) : Reach(ms, j) = e
  BY DEF Partial
<1>2. k < j
  BY <1>0, <1>1, ReachOrder
<1>3. k + 1 <= j
  BY <1>0, <1>2
<1>4. Reach(ms, k + 1) <= Reach(ms, j)
  BY <1>0, <1>3, ReachOrder
<1>5. ms[k + 1].type = Parser!TypeA => ~(ms[k + 1].len < AddOrderSize)
  BY <1>0 DEF Partial
<1>6. ms[k + 1] \in Parser!Message
  BY <1>0
<1>7. ms[k + 1].len \in Nat /\ AddOrderSize \in Nat
  BY <1>6, FrameIs, ParserConstants
<1> DEFINE l == ms[k + 1].len
<1>8. l \in Nat /\ (ms[k + 1].type = Parser!TypeA => ~(l < AddOrderSize))
  BY <1>5, <1>7
<1> HIDE DEF l
<1>9. ms[k + 1].type = Parser!TypeA => l >= AddOrderSize
  BY ONLY <1>7, <1>8
<1> QED BY <1>1, <1>4, <1>9 DEF l

(* The loop goes from c, the beginning of message k + 1, to d, and finds one*)
(* order more or none.                                                      *)
Advances(ms, e, c, d, f, g, over, more, type, k) ==
  /\ e \in Nat /\ e <= Reach(ms, Len(ms)) /\ c \in Nat /\ d \in Nat /\ f \in Seq(Int)
  /\ k \in 0..(Len(ms) - 1) /\ c = Reach(ms, k) /\ c < e /\ d >= c + 2
  /\ d < e => d = Reach(ms, k + 1)
  /\ Sent(ms, d, e) =
       Sent(ms, c, e) \union (IF type = Parser!TypeA /\ c + 2 < e THEN {k + 1} ELSE {})
  /\ g = IF type = Parser!TypeA THEN Append(f, c + 2) ELSE f
  /\ more => (over \/ Partial(ms, e))
  /\ c + 2 >= e => Partial(ms, e)

(* Then it is where the invariant says.                                     *)
LEMMA ParsedNext ==
  ASSUME NEW ms \in Seq(Parser!Message), NEW e, NEW c, NEW d, NEW f, NEW g, NEW over, NEW more,
         NEW type, NEW k, Parsed(ms, e, c, f, over), Advances(ms, e, c, d, f, g, over, more, type, k)
  PROVE  Parsed(ms, e, d, g, more)
<1> DEFINE h == Len(f)  add == type = Parser!TypeA
<1>a. /\ e \in Nat /\ e <= Reach(ms, Len(ms)) /\ c \in Nat /\ d \in Nat /\ f \in Seq(Int)
      /\ k \in 0..(Len(ms) - 1) /\ c = Reach(ms, k) /\ c < e /\ d >= c + 2
      /\ d < e => d = Reach(ms, k + 1)
      /\ Sent(ms, d, e) = Sent(ms, c, e) \union (IF add /\ c + 2 < e THEN {k + 1} ELSE {})
      /\ g = IF add THEN Append(f, c + 2) ELSE f
      /\ more => (over \/ Partial(ms, e))
      /\ c + 2 >= e => Partial(ms, e)
  BY DEF Advances
<1> HIDE DEF add
<1>0. /\ h \in Nat /\ Len(ms) \in Nat /\ k \in Nat /\ (k + 1) - 1 = k /\ c + 2 \in Int
      /\ \A a \in 1..h : f[a] <= c
      /\ \A a, b \in 1..h : a < b => f[a] < f[b]
      /\ \A a \in 1..h : f[a] < e => \E m \in Sent(ms, c, e) : f[a] = Reach(ms, m - 1) + 2
      /\ \A m \in Sent(ms, c, e) : \E a \in 1..h : f[a] = Reach(ms, m - 1) + 2
      /\ (over \/ \E a \in 1..h : f[a] >= e) => Partial(ms, e)
  BY <1>a, SMTT(60) DEF Parsed
<1>1. d < e => \E j \in 0..(Len(ms) - 1) : d = Reach(ms, j)
  <2> SUFFICES ASSUME d < e PROVE k + 1 \in 0..(Len(ms) - 1) /\ d = Reach(ms, k + 1)
    OBVIOUS
  <2>1. d = Reach(ms, k + 1) /\ d < Reach(ms, Len(ms))
    <3>1. Reach(ms, Len(ms)) \in Nat
      BY <1>0, WireEnd
    <3> QED BY <1>a, <3>1
  <2>2. k + 1 \in 0..Len(ms) /\ Len(ms) \in 0..Len(ms)
    BY <1>a, <1>0
  <2>3. k + 1 < Len(ms)
    BY <2>1, <2>2, ReachOrder
  <2> QED BY <1>0, <2>1, <2>3
<1>2. CASE ~add
  <2>1. g = f /\ Sent(ms, d, e) = Sent(ms, c, e)
    BY <1>a, <1>2
  <2>2. \A a \in 1..h : f[a] <= d
    <3>1. \A a \in 1..h : f[a] \in Int
      BY <1>a
    <3> QED BY <1>0, <1>a, <3>1, SMTT(60)
  <2>3. (more \/ \E a \in 1..h : f[a] >= e) => Partial(ms, e)
    BY <1>0, <1>a
  <2> QED BY <1>0, <1>a, <1>1, <2>1, <2>2, <2>3, ZenonT(60) DEF Parsed
<1>3. CASE add
  <2> DEFINE o == c + 2
  <2>1. g = Append(f, o) /\ o \in Int /\ f \in Seq(Int)
    BY <1>a, <1>0, <1>3
  <2>2. Sent(ms, d, e) = Sent(ms, c, e) \union (IF o < e THEN {k + 1} ELSE {})
    BY <1>a, <1>3
  <2>3. \A a \in 1..h : f[a] < o /\ f[a] <= d /\ f[a] \in Int
    <3> SUFFICES ASSUME NEW a \in 1..h PROVE f[a] < o /\ f[a] <= d /\ f[a] \in Int
      OBVIOUS
    <3>1. f[a] \in Int
      <4>1. f \in Seq(Int) /\ a \in 1..Len(f)
        BY <1>a
      <4> QED BY ONLY <4>1
    <3>2. f[a] <= c
      BY <1>0
    <3>3. c \in Nat /\ d \in Nat /\ d >= c + 2
      BY <1>a
    <3> QED BY ONLY <3>1, <3>2, <3>3
  <2>4. o <= d /\ e \in Nat /\ d \in Nat
    BY <1>a
  <2>5. o = Reach(ms, (k + 1) - 1) + 2
    BY <1>0, <1>a
  <2>6. o >= e => Partial(ms, e)
    BY <1>a
  <2> HIDE DEF o, h
  <2>7. g \in Seq(Int) /\ Len(g) = h + 1 /\ g[h + 1] = o /\ \A a \in 1..h : g[a] = f[a]
    BY <2>1, AppendProperties DEF h
  <2>8. \A a \in 1..(h + 1) : a \in 1..h \/ a = h + 1
    BY <1>0
  <2>9. \A a \in 1..(h + 1) : g[a] <= d
    BY <2>3, <2>4, <2>7, <2>8
  <2>10. \A a, b \in 1..(h + 1) : a < b => g[a] < g[b]
    <3> SUFFICES ASSUME NEW a \in 1..(h + 1), NEW b \in 1..(h + 1), a < b PROVE g[a] < g[b]
      OBVIOUS
    <3>1. a \in 1..h
      BY <1>0
    <3>2. CASE b \in 1..h
      BY <1>0, <2>7, <3>1, <3>2
    <3>3. CASE b = h + 1
      BY <2>3, <2>7, <3>1, <3>3
    <3> QED BY <2>8, <3>2, <3>3
  <2>11. ASSUME NEW a \in 1..(h + 1), g[a] < e PROVE \E m \in Sent(ms, d, e) : g[a] = Reach(ms, m - 1) + 2
    <3>1. CASE a \in 1..h
      <4>1. f[a] < e /\ g[a] = f[a]
        BY <2>7, <2>11, <3>1
      <4>2. PICK m \in Sent(ms, c, e) : f[a] = Reach(ms, m - 1) + 2
        BY <1>0, <3>1, <4>1
      <4>3. m \in Sent(ms, d, e)
        BY <2>2, Zenon
      <4> QED BY <4>1, <4>2, <4>3
    <3>2. CASE a = h + 1
      <4>1. g[a] = o /\ o < e
        BY <2>7, <2>11, <3>2
      <4>2. k + 1 \in Sent(ms, d, e)
        BY <2>2, <4>1
      <4>3. g[a] = Reach(ms, (k + 1) - 1) + 2
        BY <2>5, <4>1
      <4> WITNESS k + 1 \in Sent(ms, d, e)
      <4> QED BY ONLY <4>3
    <3> QED BY <2>8, <3>1, <3>2
  <2>12. ASSUME NEW m \in Sent(ms, d, e) PROVE \E a \in 1..(h + 1) : g[a] = Reach(ms, m - 1) + 2
    <3>1. CASE m \in Sent(ms, c, e)
      <4>1. PICK a \in 1..h : f[a] = Reach(ms, m - 1) + 2
        BY <1>0, <3>1
      <4>2. a \in 1..(h + 1)
        BY <1>0
      <4> QED BY <2>7, <4>1, <4>2
    <3>2. CASE m = k + 1
      <4>1. h + 1 \in 1..(h + 1)
        BY <1>0
      <4>2. g[h + 1] = o /\ Reach(ms, m - 1) = Reach(ms, (k + 1) - 1)
        BY <2>7, <3>2
      <4> WITNESS h + 1 \in 1..(h + 1)
      <4> QED BY ONLY <2>5, <4>2
    <3> QED BY <2>2, <3>1, <3>2
  <2>13. (more \/ \E a \in 1..(h + 1) : g[a] >= e) => Partial(ms, e)
    <3>1. ASSUME NEW a \in 1..(h + 1), g[a] >= e PROVE Partial(ms, e)
      <4>1. CASE a \in 1..h
        BY <1>0, <2>7, <3>1, <4>1
      <4>2. CASE a = h + 1
        BY <2>6, <2>7, <3>1, <4>2
      <4> QED BY <2>8, <4>1, <4>2
    <3> QED BY <1>0, <1>a, <3>1
  <2> QED BY <1>1, <2>4, <2>7, <2>9, <2>10, <2>11, <2>12, <2>13 DEF Parsed
<1> QED BY <1>2, <1>3

(* An iteration of the loop of process_market_data_buffer keeps the         *)
(* invariant.                                                               *)
LEMMA MessageParsed == FeedInv /\ Parser!ProcessMessage => FeedInv'
<1> SUFFICES ASSUME FeedInv, Parser!ProcessMessage PROVE FeedInv'
  OBVIOUS
<1>1. /\ sender' = sender /\ messages' = messages /\ end_ptr' = end_ptr
      /\ str' = str /\ i' = i /\ result' = result /\ current_ptr < end_ptr
  BY DEF Parser!ProcessMessage
<1>2. ASSUME sender = "host" PROVE Parsed(messages, end_ptr, current_ptr', found', overrun')
  <2> DEFINE b == Parser!Wire("host", messages)  e == end_ptr  c == current_ptr
  <2>0. messages \in Seq(Parser!Message) /\ e \in Nat /\ e <= Len(b) /\ Len(b) \in Nat
        /\ e <= Reach(messages, Len(messages))
        /\ Parsed(messages, e, c, found, overrun) /\ c \in Nat /\ found \in Seq(Int)
    <3>1. messages \in Seq(Parser!Message) /\ e \in 0..Len(b) /\ Parsed(messages, e, c, found, overrun)
      BY <1>2 DEF FeedInv
    <3>2. Len(b) \in Nat /\ Reach(messages, Len(messages)) = Len(b)
      BY <3>1, WireEnd
    <3> QED BY <3>1, <3>2 DEF Parsed
  <2>1. PICK k \in 0..(Len(messages) - 1) : c = Reach(messages, k)
    BY <1>1, <2>0 DEF Parsed
  <2> DEFINE m == messages[k + 1]  l == m.len
  <2>2. /\ Reach(messages, k + 1) = c + 2 + l /\ Reach(messages, k + 1) <= Len(b)
        /\ l \in Nat \ {0} /\ b \in Seq(Nat)
        /\ b[c + 1] + ByteBase * b[c + 2] = l /\ b[c + 3] = m.type
    BY <2>0, <2>1, MessageAt
  <2>3. PICK low \in Parser!Memory(c), high \in Parser!Memory(c + 1), type \in Parser!Memory(c + 2) :
          /\ current_ptr' = Parser!NextMessage(low + ByteBase * high)
          /\ found' = IF type = Parser!TypeA THEN Append(found, c + 2) ELSE found
          /\ overrun' = \/ overrun \/ c + 2 >= e
                        \/ type = Parser!TypeA /\ c + 2 + AddOrderSize > e
    BY DEF Parser!ProcessMessage
  <2>4. Parser!network_buffer = b
    BY <1>2 DEF Parser!network_buffer
  <2> HIDE DEF b, m, l, e, c
  <2>5. ASSUME NEW p \in Nat PROVE Parser!Memory(p) = IF p < e THEN {b[p + 1]} ELSE 0..(ByteBase - 1)
    BY <2>4 DEF Parser!Memory, e
  <2>6. ASSUME NEW p \in Nat, NEW x \in Parser!Memory(p) PROVE x \in Nat
    <3>1. CASE p < e
      <4>1. p + 1 \in 1..Len(b)
        BY ONLY <2>0, <3>1, p \in Nat
      <4>2. b[p + 1] \in Nat
        <5>1. b \in Seq(Nat)
          BY <2>2
        <5> QED BY ONLY <4>1, <5>1
      <4>3. x = b[p + 1]
        BY <2>5, <3>1
      <4> QED BY <4>2, <4>3
    <3>2. CASE ~(p < e)
      BY <2>5, <3>2, ParserConstants
    <3> QED BY <3>1, <3>2
  <2>7. c \in Nat /\ c + 1 \in Nat /\ c + 2 \in Nat /\ c + 1 + 1 = c + 2 /\ c + 2 + 1 = c + 3 /\ c < e
    BY <1>1, <2>0 DEF c, e
  <2>8. low \in Nat /\ high \in Nat
    BY <2>3, <2>6, <2>7
  <2>9. ByteBase * high \in Nat /\ current_ptr' = c + 2 + (low + ByteBase * high)
    <3>1. ByteBase \in Nat
      BY ParserConstants
    <3>2. ByteBase * high \in Nat
      BY ONLY <2>8, <3>1
    <3> QED BY <2>3, <3>2 DEF Parser!NextMessage, c
  <2> DEFINE d == current_ptr'
  <2>10. d \in Nat /\ d >= c + 2
    <3> DEFINE q == ByteBase * high
    <3>1. q \in Nat /\ d = c + 2 + (low + q)
      BY <2>9
    <3> HIDE DEF q, d
    <3> QED BY ONLY <2>7, <2>8, <3>1
  <2>11. found' = IF type = Parser!TypeA THEN Append(found, c + 2) ELSE found
    BY <2>3
  <2>12. CASE c + 2 < e
    <3>1. low = b[c + 1] /\ high = b[c + 2] /\ type = b[c + 3]
      <4>1. c + 1 < e
        BY <2>0, <2>7, <2>12
      <4> QED BY <2>3, <2>5, <2>7, <2>12, <4>1
    <3>2. low + ByteBase * high = l /\ type = m.type
      BY <2>2, <3>1
    <3>3. d = Reach(messages, k + 1)
      BY <2>2, <2>9, <3>2
    <3>4. Sent(messages, d, e) = Sent(messages, c, e) \union (IF type = Parser!TypeA /\ c + 2 < e THEN {k + 1} ELSE {})
      BY <2>0, <2>1, <2>12, <3>2, <3>3, SentNext, SMTT(60) DEF m
    <3>5. overrun' => (overrun \/ Partial(messages, e))
      <4> SUFFICES ASSUME ~overrun, ~Partial(messages, e) PROVE ~overrun'
        OBVIOUS
      <4>1. Reach(messages, k + 1) <= e /\ (m.type = Parser!TypeA => l >= AddOrderSize)
        BY <2>0, <2>1, <2>7, Complete DEF m, l
      <4>2. ~(c + 2 >= e)
        BY <2>0, <2>7, <2>12
      <4>3. ~(type = Parser!TypeA /\ c + 2 + AddOrderSize > e)
        <5>1. AddOrderSize \in Nat
          BY ParserConstants
        <5>2. c + 2 + l <= e
          BY <2>2, <4>1
        <5> QED BY <2>0, <2>2, <2>7, <3>2, <4>1, <5>1, <5>2
      <4> QED BY <2>3, <4>2, <4>3, Zenon
    <3>6. c + 2 >= e => Partial(messages, e)
      BY <2>0, <2>7, <2>12
    <3> HIDE DEF d
    <3>7. Advances(messages, e, c, d, found, found', overrun, overrun', type, k)
      BY <2>0, <2>1, <2>7, <2>10, <2>11, <3>3, <3>4, <3>5, <3>6, ZenonT(60) DEF Advances
    <3>8. Parsed(messages, e, d, found', overrun')
      BY <2>0, <3>7, ParsedNext
    <3> QED BY <3>8 DEF d, e
  <2>13. CASE c + 2 >= e
    <3>1. ~(d < e)
      <4> HIDE DEF d
      <4> QED BY <2>0, <2>7, <2>10, <2>13
    <3>2. Sent(messages, d, e) = Sent(messages, c, e)
      <4>1. d >= c
        <5> HIDE DEF d
        <5> QED BY <2>7, <2>10
      <4> QED BY <2>0, <2>1, <2>10, <2>13, <4>1, SentSame
    <3>3. ~(c + 2 < e)
      BY <2>0, <2>7, <2>13
    <3>4. Sent(messages, d, e) = Sent(messages, c, e) \union (IF type = Parser!TypeA /\ c + 2 < e THEN {k + 1} ELSE {})
      BY <3>2, <3>3
    <3>5. Partial(messages, e)
      <4> SUFFICES ASSUME ~Partial(messages, e) PROVE FALSE
        OBVIOUS
      <4>1. Reach(messages, k + 1) <= e
        BY <2>0, <2>1, <2>7, Complete
      <4>2. c + 2 + l <= e
        BY <2>2, <4>1
      <4> QED BY <2>0, <2>2, <2>7, <2>13, <4>2
    <3> HIDE DEF d
    <3>6. Advances(messages, e, c, d, found, found', overrun, overrun', type, k)
      BY <2>0, <2>1, <2>7, <2>10, <2>11, <3>1, <3>4, <3>5, ZenonT(60) DEF Advances
    <3>7. Parsed(messages, e, d, found', overrun')
      BY <2>0, <3>6, ParsedNext
    <3> QED BY <3>7 DEF d, e
  <2>14. c + 2 < e \/ c + 2 >= e
    BY <2>0, <2>7
  <2> QED BY <2>12, <2>13, <2>14 DEF e
<1>3. /\ messages \in Seq(Parser!Message) /\ str \in Seq(48..57) /\ i \in 0..Len(str)
      /\ result = Number(str, i) % UintModulus
      /\ sender = "host" => end_ptr \in 0..Len(Parser!Wire("host", messages))
  BY DEF FeedInv
<1> QED BY <1>1, <1>2, <1>3 DEF FeedInv

(* An iteration of the loop of fast_parse_uint reads one digit more.        *)
LEMMA DigitParsed == FeedInv /\ Parser!ParseDigit => FeedInv'
<1> SUFFICES ASSUME FeedInv, Parser!ParseDigit PROVE FeedInv'
  OBVIOUS
<1>1. str \in Seq(48..57) /\ i \in 0..Len(str) /\ result = Number(str, i) % UintModulus
  BY DEF FeedInv
<1>2. /\ i < Len(str) /\ result' = (result * 10 + Parser!Xor(str[i + 1], 48)) % UintModulus /\ i' = i + 1
      /\ UNCHANGED <<sender, messages, end_ptr, current_ptr, found, overrun, str>>
  BY DEF Parser!ParseDigit
<1>3. i \in 0..(Len(str) - 1) /\ i + 1 \in 0..Len(str) /\ str[i + 1] \in 48..57
  <2>1. i \in Nat /\ Len(str) \in Nat /\ i < Len(str)
    BY <1>1, <1>2
  <2>2. i \in 0..(Len(str) - 1) /\ i + 1 \in 0..Len(str) /\ i + 1 \in 1..Len(str)
    BY ONLY <2>1
  <2> QED BY <1>1, <2>2
<1> DEFINE a == Number(str, i)  d == str[i + 1] - 48
<1>4. a \in Int /\ Number(str, i + 1) = a * 10 + d
  BY <1>1, <1>3, NumberNext
<1>5. Parser!Xor(str[i + 1], 48) = d /\ d \in Int
  <2>1. \A c \in 48..57 : c - 48 \in Int
    OBVIOUS
  <2> QED BY <1>3, <2>1, XorIs, Zenon
<1> HIDE DEF a, d
<1>6. result' = ((a % UintModulus) * 10 + d) % UintModulus
  BY <1>1, <1>2, <1>5 DEF a
<1>7. ((a % UintModulus) * 10 + d) % UintModulus = (a * 10 + d) % UintModulus
  <2>1. UintModulus \in Nat \ {0} /\ 10 \in Int
    BY ParserConstants
  <2>2. a \in Int /\ d \in Int
    BY <1>4, <1>5
  <2> QED BY ONLY <2>1, <2>2, ModTimes, ZenonT(60)
<1>8. result' = Number(str', i') % UintModulus
  BY <1>2, <1>4, <1>6, <1>7
<1>9. str' \in Seq(48..57) /\ i' \in 0..Len(str')
  BY <1>1, <1>2, <1>3
<1>10. /\ messages' \in Seq(Parser!Message)
       /\ sender' = "host" =>
            /\ end_ptr' \in 0..Len(Parser!Wire("host", messages'))
            /\ Parsed(messages', end_ptr', current_ptr', found', overrun')
  BY <1>2, Zenon DEF FeedInv
<1> QED BY <1>8, <1>9, <1>10 DEF FeedInv

(* The invariant says where the loops are, which is what was sent.          *)
LEMMA FeedIsSound == FeedInv => FeedIsRead
<1> SUFFICES ASSUME FeedInv PROVE FeedIsRead
  OBVIOUS
<1> DEFINE n == Len(messages)
<1>1. Parser!OrdersAreThoseSent
  <2> SUFFICES ASSUME sender = "host" PROVE Parser!OrdersAreThoseSent
    BY DEF Parser!OrdersAreThoseSent
  <2>0. messages \in Seq(Parser!Message) /\ n \in Nat
        /\ Parsed(messages, end_ptr, current_ptr, found, overrun)
    BY DEF FeedInv
  <2>1. \A k : Parser!Start(k) = Reach(messages, k - 1) /\ Parser!Type(k) = Reach(messages, k - 1) + 2
    BY DEF Parser!Start, Parser!Type, Reach, Part
  <2>2. \A k \in 0..n : k + 1 \in 1..(n + 1) /\ k + 1 - 1 = k
    BY <2>0
  <2>3. current_ptr < end_ptr => \E k \in 1..n : Parser!Start(k) = current_ptr
    <3> SUFFICES ASSUME current_ptr < end_ptr PROVE \E k \in 1..n : Parser!Start(k) = current_ptr
      OBVIOUS
    <3>1. PICK k \in 0..(n - 1) : current_ptr = Reach(messages, k)
      BY <2>0 DEF Parsed
    <3>2. k + 1 \in 1..n /\ k + 1 - 1 = k
      BY <2>0
    <3>3. Parser!Start(k + 1) = Reach(messages, k + 1 - 1)
      BY <2>1
    <3> QED BY <3>1, <3>2, <3>3
  <2> DEFINE S == {m \in Parser!AddOrders : Parser!Start(m) < current_ptr /\ Parser!Type(m) < end_ptr}
  <2>4. S = Sent(messages, current_ptr, end_ptr)
    BY <2>1 DEF Sent, Parser!AddOrders
  <2>5. Parser!Range(found) = {found[a] : a \in 1..Len(found)}
    BY <2>0 DEF Parsed, Parser!Range
  <2>6. {o \in Parser!Range(found) : o < end_ptr} = {Parser!Type(k) : k \in S}
    <3>1. ASSUME NEW a \in 1..Len(found), found[a] < end_ptr PROVE \E m \in S : found[a] = Parser!Type(m)
      BY <2>0, <2>1, <2>4, <3>1 DEF Parsed
    <3>2. ASSUME NEW m \in S PROVE \E a \in 1..Len(found) : found[a] = Parser!Type(m)
      BY <2>0, <2>1, <2>4 DEF Parsed
    <3>3. \A m \in S : Parser!Type(m) < end_ptr
      OBVIOUS
    <3> HIDE DEF S
    <3> QED BY <2>5, <3>1, <3>2, <3>3
  <2>7. (overrun \/ \E o \in Parser!Range(found) : o >= end_ptr) => Parser!Incomplete
    <3>1. (overrun \/ \E o \in Parser!Range(found) : o >= end_ptr) => Partial(messages, end_ptr)
      BY <2>0, <2>5 DEF Parsed
    <3>2. Partial(messages, end_ptr) => Parser!Incomplete
      <4>1. (\A k \in 0..n : Reach(messages, k) # end_ptr) => \A k \in 1..(n + 1) : Parser!Start(k) # end_ptr
        <5>1. \A k \in 1..(n + 1) : k - 1 \in 0..n
          BY <2>0
        <5> QED BY <2>1, <5>1
      <4>2. (\E k \in 1..n : messages[k].type = Parser!TypeA /\ messages[k].len < AddOrderSize)
              => \E k \in Parser!AddOrders : messages[k].len < AddOrderSize
        BY DEF Parser!AddOrders
      <4> QED BY <4>1, <4>2 DEF Partial, Parser!Incomplete
    <3> QED BY <3>1, <3>2
  <2>8. \A a, b \in 1..Len(found) : a < b => found[a] < found[b]
    BY <2>0 DEF Parsed
  <2> QED BY <2>3, <2>6, <2>7, <2>8 DEF Parser!OrdersAreThoseSent
<1>2. Parser!DigitsAreRead
  <2>1. result = Number(str, i) % UintModulus
    BY DEF FeedInv
  <2>2. Number(str, i) =
          Parser!SumFunctionOnSet([k1 \in 1..i |-> (str[k1] - 48) * Parser!Worth[i - k1]], 1..i)
    BY ParserSum DEF Number
  <2> QED BY <2>1, <2>2 DEF Parser!DigitsAreRead
<1> QED BY <1>1, <1>2 DEF FeedIsRead, Parser!FeedIsRead

(* For any messages, cut anywhere, and any digits: if the sender has the    *)
(* byte order of the host, the parser stays at the beginnings of messages   *)
(* and finds the Add Orders whose type has arrived; it leaves the buffer    *)
(* only if the buffer is cut within a message or an Add Order is short.     *)
(* And fast_parse_uint reads the number that its digits stand for.          *)
THEOREM FeedsAreRead == SuiteSpec => []FeedIsRead
<1>1. FeedInv /\ [SuiteNext]_<<subject, vars, ButAllocator>> => FeedInv'
  <2> SUFFICES ASSUME FeedInv, [Parser!Next]_parserVars PROVE FeedInv'
    BY ParserStep
  <2>1. CASE UNCHANGED parserVars
    <3>1. /\ sender' = sender /\ messages' = messages /\ end_ptr' = end_ptr
          /\ found' = found /\ overrun' = overrun /\ current_ptr' = current_ptr
          /\ str' = str /\ i' = i /\ result' = result
      BY <2>1 DEF parserVars
    <3> QED BY <3>1, ZenonT(60) DEF FeedInv
  <2> QED BY <2>1, MessageParsed, DigitParsed DEF Parser!Next
<1> QED BY <1>1, FeedStarts, FeedIsSound, PTL DEF SuiteSpec
=============================================================================
