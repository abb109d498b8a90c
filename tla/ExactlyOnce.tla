----------------------------- MODULE ExactlyOnce -----------------------------
(* The consume-transform-produce loop of                                    *)
(* 07-Real-Time-Event-Streaming/ExactlyOnceStreamProcessor.java, run by     *)
(* processes that share the hard-coded transactional id and consumer group. *)
(* The source topic has one partition, in which others write the records    *)
(* 1..Records.  The Kafka cluster is external: it keeps the partition, the  *)
(* group's offset, the epoch of the transactional id and at most one open   *)
(* transaction of it, and moves the partition between the group's members.  *)
EXTENDS Naturals, Sequences

CONSTANTS
  Processes,
  Records, MaxPoll,   \* how many records are ever written, and a poll returns
  MaxStarts,          \* bound: how often a process is started in all
  MaxErrors           \* bound: how many transient errors happen

NoOwner == "nobody"

StreamAssumption ==
  /\ Records \in Nat /\ MaxPoll \in Nat /\ MaxStarts \in Nat /\ MaxErrors \in Nat
  /\ NoOwner \notin Processes

VARIABLES
  produced,   \* how many records the source topic has
  committed,  \* the group's committed offset: the last record done, 0 for none
  output,     \* the records a read_committed reader of the destination sees
  epoch,      \* the epoch of the transactional id
  txn,        \* what the open transaction has written
  txnOffset,  \* the offset sent to it, 0 for none
  owner,      \* the process the partition is assigned to
  pc, position, myEpoch, records,  \* of each process
  errors

kafka == <<produced, committed, output, epoch, txn, txnOffset, owner>>
vars == <<kafka, pc, position, myEpoch, records, errors>>

InTransaction == {"send", "offsets", "commit"}

(* Offsets and epochs stay in range: no commit stores an offset beyond the  *)
(* last record.                                                             *)
TypeOK ==
  /\ produced \in 0..Records /\ committed \in 0..produced /\ output \in Seq(1..Records)
  /\ epoch \in 0..MaxStarts /\ txn \in Seq(1..Records) /\ txnOffset \in 0..Records
  /\ owner \in Processes \union {NoOwner}
  /\ pc \in [Processes -> {"off", "poll"} \union InTransaction]
  /\ position \in [Processes -> 0..produced]
  /\ myEpoch \in [Processes -> 0..MaxStarts]
  /\ records \in [Processes -> Seq(1..Records)]
  /\ errors \in 0..MaxErrors

Init ==
  /\ produced = 0 /\ committed = 0 /\ output = <<>> /\ epoch = 0 /\ txn = <<>> /\ txnOffset = 0
  /\ owner = NoOwner
  /\ pc = [p \in Processes |-> "off"]
  /\ position = [p \in Processes |-> 0]
  /\ myEpoch = [p \in Processes |-> 0]
  /\ records = [p \in Processes |-> <<>>]
  /\ errors = 0

-----------------------------------------------------------------------------
Goto(p, label) == pc' = [pc EXCEPT ![p] = label]

(* mutant: an id per process, so that initTransactions fences nobody *)
InitTransactionsUnfenced(p) ==
  /\ epoch < MaxStarts
  /\ epoch' = epoch + 1 /\ myEpoch' = [q \in Processes |-> epoch + 1]
  /\ UNCHANGED <<txn, txnOffset>>

(* initTransactions(): fences older producers, aborts what they left open.  *)
InitTransactions(p) ==
  /\ epoch < MaxStarts
  /\ epoch' = epoch + 1 /\ myEpoch' = [myEpoch EXCEPT ![p] = epoch + 1]
  /\ txn' = <<>> /\ txnOffset' = 0

(* A new process is a new member of the group, without partitions.          *)
Start(p) ==
  /\ pc[p] = "off"
  /\ InitTransactions(p) /\ Goto(p, "poll")
  /\ owner' = IF owner = p THEN NoOwner ELSE owner
  /\ UNCHANGED <<produced, committed, output, position, records, errors>>

(* The producers of the source topic. *)
Produce ==
  /\ produced < Records /\ produced' = produced + 1
  /\ UNCHANGED <<committed, output, epoch, txn, txnOffset, owner, pc, position, myEpoch, records,
                 errors>>

(* The consumer starts from the committed offset, and as long as the group  *)
(* has none, at the end of the log: the configuration leaves                *)
(* auto.offset.reset at "latest".                                           *)
StartOffset == IF committed = 0 THEN produced ELSE committed

(* In poll() the group assigns the partition.                               *)
Assign(p) ==
  /\ pc[p] = "poll" /\ owner # p
  /\ owner' = p
  /\ position' = [position EXCEPT ![p] = StartOffset]
  /\ UNCHANGED <<produced, committed, output, epoch, txn, txnOffset, pc, myEpoch, records, errors>>

(* poll() returns records and moves the position in memory past them;       *)
(* beginTransaction() is local.                                             *)
Poll(p) ==
  /\ pc[p] = "poll" /\ owner = p
  /\ \E n \in 1..MaxPoll :
       /\ position[p] + n <= produced
       /\ records' = [records EXCEPT ![p] = [k \in 1..n |-> position[p] + k]]
       /\ position' = [position EXCEPT ![p] = @ + n]
  /\ Goto(p, "send")
  /\ UNCHANGED <<kafka, myEpoch, errors>>

(* mutant: the offset after the next record *)
LastOffsetPlusOne(p) == records[p][Len(records[p])] + 1

(* offset + 1 of the last record, the next one to read, is its number here. *)
LastOffset(p) == records[p][Len(records[p])]

Fenced(p) == myEpoch[p] # epoch

(* The loop over the records; a read_committed reader sees none of them.    *)
SendRecords(p) ==
  /\ pc[p] = "send" /\ ~Fenced(p)
  /\ txn' = txn \o records[p]
  /\ Goto(p, "offsets")
  /\ UNCHANGED <<produced, committed, output, epoch, txnOffset, owner, position, myEpoch, records, errors>>

SendOffsets(p) ==
  /\ pc[p] = "offsets" /\ ~Fenced(p)
  /\ txnOffset' = LastOffset(p)
  /\ Goto(p, "commit")
  /\ UNCHANGED <<produced, committed, output, epoch, txn, owner, position, myEpoch, records, errors>>

ApplyTransaction ==
  /\ committed' = txnOffset /\ output' = output \o txn

Commit(p) ==
  /\ pc[p] = "commit" /\ ~Fenced(p)
  /\ ApplyTransaction
  /\ txn' = <<>> /\ txnOffset' = 0
  /\ Goto(p, "poll")
  /\ UNCHANGED <<produced, epoch, owner, position, myEpoch, records, errors>>

(* ProducerFencedException, also from abortTransaction(): the process ends. *)
ShutDownFenced(p) ==
  /\ pc[p] \in InTransaction /\ Fenced(p)
  /\ Goto(p, "off")
  /\ UNCHANGED <<kafka, position, myEpoch, records, errors>>

(* Any other exception: abortTransaction(), and on with the loop.  Nothing  *)
(* moves the consumer's position back.                                      *)
TransientError(p) ==
  /\ pc[p] \in InTransaction /\ ~Fenced(p) /\ errors < MaxErrors
  /\ errors' = errors + 1
  /\ txn' = <<>> /\ txnOffset' = 0
  /\ Goto(p, "poll")
  /\ UNCHANGED <<produced, committed, output, epoch, owner, position, myEpoch, records>>

Crash(p) ==
  /\ pc[p] # "off" /\ Goto(p, "off")
  /\ UNCHANGED <<kafka, position, myEpoch, records, errors>>

Next ==
  \/ Produce
  \/ \E p \in Processes :
       \/ Start(p) \/ Assign(p) \/ Poll(p) \/ SendRecords(p) \/ SendOffsets(p)
       \/ Commit(p) \/ ShutDownFenced(p) \/ TransientError(p) \/ Crash(p)

Spec == Init /\ [][Next]_vars

-----------------------------------------------------------------------------
(* No record reaches the destination twice, and none overtakes another:     *)
(* zombies, crashes and aborted batches leave no trace.                     *)
NoDuplicates == \A j, k \in 1..Len(output) : j < k => output[j] < output[k]

(* Line 60, "Atomically commit the offsets AND the produced records": the   *)
(* offset is that of the last record the destination has.                   *)
OffsetsWithRecords ==
  IF output = <<>> THEN committed = 0 ELSE committed = output[Len(output)]

(* The two together: sendOffsetsToTransaction makes the committed offset    *)
(* tell exactly how far the destination, in which nothing is repeated, has  *)
(* got.                                                                     *)
OutputMatchesOffset == NoDuplicates /\ OffsetsWithRecords

(* Behind the first record that was delivered, every record whose offset is *)
(* committed is in the destination.  Line 72 relies on it after an error:   *)
(* "Abort the transaction, Kafka will rewind the consumer offset            *)
(* automatically".  Of the records before it nothing is said: a group that  *)
(* has not committed yet starts at the end of the log, again after every    *)
(* crash and every rebalance.                                               *)
NoLoss ==
  output # <<>> => \A r \in output[1]..committed : \E k \in 1..Len(output) : output[k] = r

(* As long as no batch was aborted on a transient error, nothing is lost    *)
(* behind the first commit: not by crashes, not by processes that fence     *)
(* each other, not by rebalances.                                           *)
NoLossWithoutErrors == errors = 0 => NoLoss
=============================================================================
