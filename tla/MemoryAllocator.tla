--------------------------- MODULE MemoryAllocator ---------------------------
(* The allocator of 01-Core-Systems-and-Bare-Metal/custom-memory-allocator.c*)
(* called by threads that use it as they should: a pointer is freed once,   *)
(* by whoever holds it.  global_malloc_lock makes each call one step, but   *)
(* for the two calls of sbrk in request_space: the break also belongs to    *)
(* code outside the allocator (libc's own malloc), which does not take this *)
(* lock.  Addresses start at the first break; size_t is counted modulo      *)
(* SizeModulus.                                                             *)
EXTENDS Integers, Sequences

CONSTANTS
  META_SIZE,
  Sizes,         \* the sizes asked for
  SizeModulus,   \* 2^64 in the code
  HeapLimit,     \* sbrk refuses to move the break beyond it
  OthersRace     \* others may move the break while request_space runs

ASSUME AllocatorAssumption ==
  /\ META_SIZE \in Nat \ {0} /\ HeapLimit \in Nat
  /\ SizeModulus \in Nat /\ SizeModulus > META_SIZE
  /\ Sizes \subseteq 1..(SizeModulus - 1) /\ OthersRace \in BOOLEAN

VARIABLES
  brk,      \* the program break
  blocks,   \* the list from global_base: [start, size, free]
  request,  \* request_space at work: [block, size], or NoRequest
  held,     \* held[k]: the caller has blocks[k] and has not freed it
  others    \* the regions other code has got from sbrk

vars == <<brk, blocks, request, held, others>>

NoRequest == [block |-> 0, size |-> 0]
Block == [start : Nat, size : Sizes, free : BOOLEAN]
Region == [start : Nat, end : Nat]

(* The break stays below the limit, and callers hold blocks of the list only.*)
TypeOK ==
  /\ brk \in 0..HeapLimit
  /\ blocks \in Seq(Block)
  /\ request \in [block : Nat, size : Sizes] \union {NoRequest}
  /\ held \subseteq 1..Len(blocks)
  /\ others \subseteq Region

Init ==
  brk = 0 /\ blocks = <<>> /\ request = NoRequest /\ held = {} /\ others = {}

-----------------------------------------------------------------------------
Fits(k, size) == blocks[k].free /\ blocks[k].size >= size

(* find_free_block: the first block of the list that fits. *)
IsFreeBlock(k, size) ==
  /\ k \in 1..Len(blocks) /\ Fits(k, size)
  /\ \A j \in 1..(k - 1) : ~Fits(j, size)

NoFreeBlock(size) == \A k \in 1..Len(blocks) : ~Fits(k, size)

(* my_malloc recycles a block, whole. *)
ReuseBlock(k, size) ==
  /\ request = NoRequest /\ IsFreeBlock(k, size)
  /\ blocks' = [blocks EXCEPT ![k].free = FALSE]
  /\ held' = held \union {k}
  /\ UNCHANGED <<brk, request, others>>

(* block = sbrk(0) *)
ReadBreak(size) ==
  /\ request = NoRequest /\ NoFreeBlock(size)
  /\ request' = [block |-> brk, size |-> size]
  /\ UNCHANGED <<brk, blocks, held, others>>

(* mutant: no room for the header *)
GrowthNoMeta(size) == size
(* sbrk takes the sum, computed in size_t, for a signed increment. *)
Growth(size) ==
  LET sum == (size + META_SIZE) % SizeModulus
  IN  IF 2 * sum < SizeModulus THEN sum ELSE sum - SizeModulus

Refused == brk + Growth(request.size) \notin 0..HeapLimit

(* sbrk(size + META_SIZE) succeeds and the block goes to the end of the list*)
AppendBlock ==
  /\ request # NoRequest /\ ~Refused
  /\ brk' = brk + Growth(request.size)
  /\ blocks' = Append(blocks, [start |-> request.block, size |-> request.size, free |-> FALSE])
  /\ held' = held \union {Len(blocks) + 1}
  /\ request' = NoRequest
  /\ UNCHANGED others

(* sbrk refuses: my_malloc returns NULL. *)
RefuseBlock ==
  /\ request # NoRequest /\ Refused
  /\ request' = NoRequest
  /\ UNCHANGED <<brk, blocks, held, others>>

(* my_free; the magic number of a held block is in place. *)
Free(k) ==
  /\ request = NoRequest /\ k \in held
  /\ blocks' = [blocks EXCEPT ![k].free = TRUE]
  /\ held' = held \ {k}
  /\ UNCHANGED <<brk, request, others>>

(* Other code moves the break by one. *)
OtherSbrk ==
  /\ request = NoRequest \/ OthersRace
  /\ brk < HeapLimit /\ brk' = brk + 1
  /\ others' = others \union {[start |-> brk, end |-> brk + 1]}
  /\ UNCHANGED <<blocks, request, held>>

my_malloc(size) ==
  ReadBreak(size) \/ \E k \in 1..Len(blocks) : ReuseBlock(k, size)

Next ==
  \/ \E size \in Sizes : my_malloc(size)
  \/ AppendBlock \/ RefuseBlock
  \/ \E k \in held : Free(k)
  \/ OtherSbrk

Spec == Init /\ [][Next]_vars

-----------------------------------------------------------------------------
Start(k) == blocks[k].start
End(k) == blocks[k].start + META_SIZE + blocks[k].size

(* The blocks, header included, lie behind each other below the break and   *)
(* clear of what other code has got: two callers never share memory.        *)
NoOverlap ==
  /\ \A j, k \in 1..Len(blocks) : j < k => End(j) <= Start(k)
  /\ \A k \in 1..Len(blocks) : \A r \in others : End(k) <= r.start \/ r.end <= Start(k)

(* Line 40, "increment the heap pointer by our required size + metadata":   *)
(* a block that is handed out is backed by memory up to its end.            *)
BlocksAreBacked == \A k \in 1..Len(blocks) : End(k) <= brk

(* A block is free or held by one caller, so that a free block is the only  *)
(* one that is recycled.                                                    *)
HeldIsNotFree == \A k \in 1..Len(blocks) : blocks[k].free <=> k \notin held

(* my_malloc never hands out memory that somebody has or nobody has.        *)
HeapIsSound == NoOverlap /\ BlocksAreBacked /\ HeldIsNotFree
=============================================================================
