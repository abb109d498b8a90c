# A TLA+ development of polyglot-architecture-sandbox

The repository is a collection of independent programs in a dozen languages, in
twelve directories. There are no tests; what the programs promise is in their
comments and in `README.md`. This project models the programs that keep state
and can go wrong in ways a test would hardly reach: concurrent buffers, locks
and pipelines, a transaction coordinator, ledgers, stream processors, a rate
limiter, order books, contracts, the drivers and kernels of devices. Each is a
module of its own, for the programs
do not call each other; where two of them promise the same thing they are shown
to implement the same abstract specification.

Contents: [inventory](#inventory), [readings of the source](#readings-of-the-source),
[modules](#modules-and-the-code), [runs](#runs-bounds-and-what-they-show),
[fairness](#fairness), [proofs](#what-is-proved), [findings](#findings),
[what is not modelled](#what-is-not-modelled), [plan](#plan).

## Inventory

State, operations and the hard part of every component that is modelled. "Ext."
is what the code uses and the repository does not contain.

| component | state | operations | interaction | hard behaviour | what makes it correct |
|---|---|---|---|---|---|
| heap allocator (01) | list of blocks, program break | `my_malloc`, `my_free`, `request_space` | `sbrk`, shared with all code of the process | a break moved between two calls, size overflow, reuse | blocks never overlap, are backed by memory, have one holder |
| mempool ring buffer (02) | slots, two atomic indices | `push`, `pop` | two threads, acquire/release | stale loads, wrap-around, full and empty | bounded FIFO without a data race |
| disruptor (02) | ring of events, two sequences | `publish`, `consume` | two threads, volatile and lazy stores | overwriting a lap, reading a claimed event | events are read whole, in order, before they are overwritten |
| IPC channel (02) | shared memory, two indices | `new`, `publish`, `consume` | two processes | start order, dropped signals, restart | bounded FIFO of accepted signals |
| matching engine (02) | bids and asks by price | `SubmitOrder` | one actor | partial fills over several levels | never crossed, conserved, price-time priority |
| limit order book (02) | nodes of a pool, levels | insert, cancel | pointers | unlinking first, last and only nodes | the lists are queues in order of arrival |
| market data parser (02) | offset in a buffer; a number | `process_market_data_buffer`, `fast_parse_uint` | sequential | lengths that lead from message to message, payload that looks like a type, buffers cut off anywhere | finds the orders that were sent; stays inside a buffer of whole messages |
| process list (01) | buffer and its size | `main` | ext. kernel, while processes come and go | the list grows between two queries | the buffer is as large as the kernel is told; the loop ends |
| P4 switch (03) | table | parser, `ipv4_lpm`, `ipv4_forward` | ext. control plane that replaces tables, other switches | loops while tables are replaced | packets get out; frames name their link |
| HIP scan (03) | stream, device memory | host calls, `amdWavefrontPrefixSum` | host and device run concurrently | asynchronous copies, the last wavefront | exact sums; nothing used after it was freed |
| SYCL reduction (03) | shared and local memory, an atomic | host, kernel | host and sub-groups | barriers, relaxed atomics, padding | the sum of all the data; the host is not left waiting |
| tensor-core product (03) | accumulator fragments | `tensorCoreMatMulKernel` | warps | warps outside the matrix, sizes that are not whole tiles | every product once in every number, as far as no tile reaches over a row |
| two-phase commit (04) | position in the protocol | `ExecuteTransaction` | RPCs to ext. banks from goroutines | lost and late requests, deadline, crash | banks agree; the verdict is true |
| transfer procedure (04) | accounts, ledger, keys | `process_financial_transfer` | concurrent sessions, row locks of ext. PostgreSQL | retries that overlap, opposite transfers | no overdraft, posted once, balances equal the ledger |
| event-sourced ledger (04) | event stream | `WithdrawAsync` | ext. event store with expected versions | races, lost answers | no overdraft, no gaps, no double withdrawal |
| policy engine (05) | statements | `attach_policy`, `authorize` | sequential | early return against running flag | the order of statements is irrelevant |
| API gateway (06) | buckets by address | `GetBucket`, `Allow` | concurrent handlers, `sync.Map` | two handlers create one bucket; refill arithmetic | the limit holds from any instant on |
| fleet dispatcher (06) | bounded channel | `route_fleet` | detached task, ext. client | full channel, client gone | answers complete and in order; the task ends |
| exactly-once processor (07) | position, transaction | the poll loop | ext. Kafka, several processes | zombies, aborts, rebalances, a group without a committed offset | no duplicates; no loss behind the first commit but by an aborted batch |
| Raft node (07) | role, term, vote | timer loop, AppendEntries handler, broadcaster | goroutines, mutex, channels | dropped heartbeats, leadership lost while sending | one candidacy per term, elections are called |
| fraud detector (07) | flag and timer of a key | `processElement`, `onTimer` | ext. Flink | events out of order and late | no pattern missed, none invented |
| market maker (08) | reserves, shares | `swap`, `addLiquidity`, `_sqrt` | ext. tokens that call back | rounding, overflow, reentrancy, reverts | a share never loses value |
| Merkle tree and miner (08) | levels; two atomics | `calculate_merkle_root`, `mine_block_parallel` | Rayon workers | odd levels; relaxed stores in the wrong order | the tree's root; a nonce that meets the target |
| DAO voting (08) | nonces, votes | `castVoteBySignature` | relayers | repeated and reordered signatures | a signature counts once |
| spin lock (09) | shared array, lock | worker loop, exit handler | worker threads | contention, completion | mutual exclusion, complete sum, termination |
| HLS orchestrator (10) | futures, manifests | `processProfile`, `writeManifest` | pool, completion stages | any order, failing stages | complete manifests; nothing left running |
| NVENC encoder (10) | session | constructor, `encodeFrame`, destructor | ext. driver, other processes | any call fails, at any point; sessions run out | no session is left behind but by a destructor's call that failed |
| pipeline (12) | channels | workers, multiplexers, closer | goroutines | timeout against delivery, close against send | no panic, complete unless cancelled |
| thread pool (12) | channel behind a mutex | `execute`, `drop`, worker loop | threads | panicking jobs | each job once; drop ends |

The other components are listed under [what is not modelled](#what-is-not-modelled);
the hazards, each at its line, in `PROJECT.json`.

## Readings of the source

Many files do not compile as they stand because of misspelt identifiers. In a
compiled language such a name has no behaviour, so it is read as the only name
in scope it can stand for. In the dynamic languages a wrong name is behaviour:
those components (circuit breaker, bytecode machine, reactive engine) are not
modelled by what their authors meant.

| file | in the code | read as |
|---|---|---|
| two-phase-commit-distributed-coordinator.go | `perpareErrChan` | `prepareErrChan` |
| lock-free-ring-buffer.cpp | `current_tail _ 1` | `current_tail + 1` |
| acid-double-entry-transfer.sql | `IF EXISTS (...)` without `THEN` (line 22) | with `THEN` |
| event-sourced-ledger-engine.cs | `GetUncommittedChanges`, `DataTimeOffset` | `GetUncommittedEvents`, `DateTimeOffset` |
| automated-market-maker.sol | `reverse0`, `nonReentranct`, `toalSupply`, `unit256` | `reserve0`, `nonReentrant`, `totalSupply`, `uint256` |
| hft-matching-engine.sc | `TreeMap[...](Ordering[Double].reverse)` in a type | bids sorted from the highest price |
| memory-safe-policy.rs | `MfaCondition`, `network_trust_sore`, `ResourceArc` | `RequireMfaCondition`, `network_trust_score`, `ResourceArn` |
| windows-nt-internals.cpp | `buffer`, `bufferSize`, `status` are not declared; five arguments for four | a buffer of `bufferSize` bytes, or none if that is 0, and the call with the buffer, its size and where to write the size |
| rocm-hip.cpp | `threadIsx`, `thresdIdx`, `landId` | `threadIdx`, `threadIdx`, `laneId` |
| oneapi-data-parallel.cpp | misplaced brackets around the command group | `q.submit(...)` with `.wait()` on its event |
| ethernet-switch.cpp | `drop` is not declared | the action that marks the packet to be dropped |
| tensor-core-matrix.cpp | `cuba_fp16.h` | `cuda_fp16.h` |
| merkle-tree-pow-miner.rs | no `use rayon::prelude::*` | `into_par_iter` is Rayon's |

## Modules and the code

Definitions carry the names of the source; `map` in `PROJECT.json` gives the
lines of each. An operator marked *mutant* stands before the definition it is a
faulty version of; no specification uses it. `pc`-like variables hold the
position of a thread between two accesses to shared state; what happens between
two accesses is one step.

**Banking.** `AtomicCommit` says what commitment promises: banks prepare, then all commit
or all abort. `TwoPhaseCommit` is `ExecuteTransaction`: the two goroutines of each phase,
requests that arrive late or never, a deadline that covers phase 1 only, and a
crash that loses everything, for the coordinator keeps no log. `ImplementsAtomicCommit`
is the refinement, with each bank's state as the mapping. `FinancialTransfer`
runs the SQL procedure in concurrent sessions, statement by statement up to the
writes, which are one step because they become visible together at the commit, or not at all: a failure between two of
them is undone by the database, with the block's `EXCEPTION`, and cannot be seen in the model;
`FOR UPDATE` takes the locks in the order of the account ids. The runs' configurations
give the requests: opposite transfers, a retry, a competing withdrawal, an
unknown source. `EventSourcedLedger` keeps the stream as the only state and
rehydrates aggregates from its prefixes; an attempt reads, decides, appends
with the expected version, and may lose its answer at any point.

**Trading.** `BoundedFifo` is the promise of a buffer: what is accepted comes out in
order, and no more than the capacity is inside. `LockFreeMempoolBuffer` and
`IpcChannel` implement it, with indices that wrap at `IndexModulus` (for 2^64)
and acquire loads that may return any value the index has had since the thread's
last look. The capacity divides the modulus, as a power of two does, or, in the channel,
the indices do not get to the modulus.
`LmaxDisruptor` writes and reads the fields of an event one by one, since
they are plain fields of Java. `MatchingEngine` computes the recursive match of
an order in one step, as an actor handles one message; `LimitOrderBook` has the
pointers of the node pool and implements `PriceQueues`.

**Streams.** `ExactlyOnce` runs the main loop in several processes with one
transactional id; Kafka's fencing, transactions and group, and those who write the source
topic (`Produce`), are external and modelled from the calls. A consumer starts at the committed
offset or, if the group has none, at the end of the log, which is the default the configuration leaves (`StartOffset`). `RaftNode` is the one node the code has: the timer
loop holds the mutex while it starts an election, the handler drops the
heartbeat if the loop is not in its select; peers send any AppendEntries.
`FraudDetector` is one key of the Flink function, with a watermark that trails
behind or overtakes the events.

**Gateways and policies.** `ApiGateway` lets handlers race through `GetBucket`'s load, creation and
LoadOrStore. Tokens are counted in units (`Unit` per token) instead of float64,
which leaves out rounding. `since`, `admitted` and `lastAdmit` only observe.
`RouteFleet` is the
spawned task with its channel; the client is external. `PolicyEngine` has
`authorize` as the loop it is, against a definition by quantifiers.

**Chain.** `ConstantProductAMM` splits `swap` and `addLiquidity` where a token is called,
which is where other calls can enter; a revert restores the pool. `FeeScale`
and `FeeKept` stand for 1000 and 997. `NewtonSqrt` is `_sqrt`. `MerkleRoot` has the levels of the loop as states
and a hash as the tuple it hashes. `PowMiner` gives every nonce every hash.
`DaoGovernance` accepts any signature any voter could have made, so relayers and
wallets need no state.

**Memory and threads.** `MemoryAllocator` has addresses as numbers and the header
size as a parameter; `OthersRace` says whether other code may call `sbrk` between
the two calls of `request_space`. `ConcurrencyPipeline`, `ThreadPool`,
`SpinLock`, `HlsOrchestrator` follow their programs thread by thread.

**Devices.** `P4Switch` has two switches that run the pipeline and one packet; what
v1model does around the two blocks, and the control plane that replaces tables one
switch at a time, are external. `NtProcessList` is `main` as it is written, with
the walk in the branch for a failed query, where every entry is memory that nobody
has filled. `NvencEncoder` takes constructors of several objects call by call on a
device with a limited number of sessions; any call of the driver may fail. The macro ends the process, and the driver then
closes its sessions; the destructor looks at no status and may leave its session open. The configuration that is
written between the calls is left out, and so are copies of an encoder, which nobody makes. In `WavefrontScan`, `SubGroupReduction` and
`TensorCoreMatMul` the lanes of a wavefront, sub-group or warp go in step and
everything else in any order; data are numbers whose sums tell which of them were
added, or the lists of the products themselves, so that a term left out, doubled or
misplaced shows. The arrays of `TensorCoreMatMul` are flat and of any size; an index is an
unbounded number, so that an access behind an array is seen (`stray`) and the kernel goes on; the store of a warp is one step, in which cells
of one address overwrite each other in any order. `MarketDataParser` has senders with the byte order of the host and of the network, and buffers
that end at any byte; every byte of a message behind its type looks like the type of an order, and
memory behind the buffer holds anything.

**Suites.** The programs do not interact, so one TLC run checks several of them
side by side. A suite `MC<name>` declares the constants and variables of its
components, and a variable `subject` that says which of them a behaviour is
about: the others stay in their initial state, so the reachable states are the
disjoint sum of the components' and nothing is interleaved that the repository
does not interleave. The fairness of a behaviour is that of its subject.

| suite | components |
|---|---|
| `MCCoordination` | `TwoPhaseCommit`, `RaftNode`, `RouteFleet` |
| `FinancialTransfer` (itself) | `FinancialTransfer` |
| `MCHistories` | `MemoryAllocator`, `LimitOrderBook`, `MatchingEngine`, `MarketDataParser`, `ExactlyOnce`, `FraudDetector`, `EventSourcedLedger`, `NvencEncoder` |
| `MCConcurrency` | `LockFreeMempoolBuffer`, `IpcChannel`, `LmaxDisruptor`, `ConcurrencyPipeline`, `ThreadPool`, `SpinLock`, `HlsOrchestrator`, `NtProcessList`, `WavefrontScan`, `SubGroupReduction`, `TensorCoreMatMul` |
| `MCGateways` | `ApiGateway`, `PolicyEngine`, `P4Switch` |
| `MCOnChain` | `DaoGovernance`, `NewtonSqrt`, `ConstantProductAMM`, `MerkleRoot`, `PowMiner` |

A component that a suite has by INSTANCE contributes its properties under their
names, or several of them under one: `BuffersAreFifo` is `ImplementsBoundedFifo` of
the buffer and of the channel; `NoSlotRace` that of both and `NoLapOverwrite` of the
disruptor; `BookIsSound` includes `PriceTimePriority`; `StreamIsExact` is
`OutputMatchesOffset` and `NoLossWithoutErrors`; `NodeMakesProgress` is `ElectionIsCalled`
and `DemotedFallsSilent`; `BlockIsSound` is `RootIsTree` and `VerdictIsMined`. Liveness
is conditional on the subject: `AlgorithmsEnd` and `ProgramsEnd` say for each
component of their suite that it ends, that is, reaches its `AtEnd`. Where a component's
correctness has parts, the parts are definitions of its module and the run checks
their conjunction (`HeapIsSound`, `BookIsSound`, `PipelineDelivers` and others).

`TypeOK` of a module gives the values of its variables. In the modules with proofs
it is part of the proved invariant; in the others it documents the variables.

## Runs, bounds and what they show

Runs marked *violated* check a sentence of the code's comments that the code
does not keep; see [findings](#findings). All others pass.

| run | bounds | properties | shows |
|---|---|---|---|
| Coordination | Banks = {source, dest}, id = 1, MaxTerm = 3, MaxRPCs = 3, Locations = 5, Capacity = 2, Window = 2 | VerdictIsTrue, ImplementsAtomicCommit, Phase1Ends, OneCandidacyPerTerm, NodeMakesProgress, AnswersAreComplete, TaskEnds | Delayed, lost and late requests, deadlines, a coordinator crash, election timers racing heartbeats and clients that vanish: the banks agree and the verdict returned is true, a Raft node never campaigns twice in a term, and route_fleet answers in order and leaves no task behind. |
| FinancialTransfer | Sessions = {"pay", "back", "retry", "spend"}, Accounts = {1, 2, 3}, Opening <- MCOpening, Request <- MCRequest | NoOverdraft, PostedOnce, BalanceMatchesLedger, EveryCallReturns | Opposite transfers, a retry that overlaps its original and a competing withdrawal: no overdraft, no double posting, balances equal to the ledger, no deadlock. |
| Histories | META_SIZE = 1, Sizes = {1, 2}, SizeModulus = 16, HeapLimit = 8, OthersRace = FALSE, Levels = {l1, l2}, Lots = {1, 2}, Capacity = 4, VolumeModulus = 4, NULL = NULL, Prices = {1, 2, 3}, Quantities = {1, 2, 3}, MaxOrders = 4, ByteBase = 3, AddOrderSize = 4, MessageSizes = {1, 4, 5}, MaxMessages = 3, UintModulus = 256, Digits = {0, 1, 2, 5, 8, 9}, MaxDigits = 4, Processes = {p1, p2}, Records = 4, MaxPoll = 2, MaxStarts = 3, MaxErrors = 1, Window = 1, MaxTime = 2, MaxEvents = 4, NoTimer = NoTimer, Withdrawals = {w1, w2}, Attempts = {t1, t2, t3}, Sums = {0, 1}, MaxVersion = 4, NoView = NoView, Encoders = {e1, e2, e3}, MaxSessions = 2 | HeapIsSound, ImplementsQueues, BookIsSound, FeedIsRead, StreamIsExact, AlertsAreExact, WithdrawalsAreSound, EncodersAreSound | Long histories of calls, failures and restarts: memory blocks never overlap, price levels implement queues, the matching engine keeps its book and its priorities, the parser stays on the boundaries of messages however they are cut off, the stream processor doubles no record and behind its first commit loses none without an error, alerts are exact, the account is never overdrawn, and no encoding session is left behind but by a destructor that fails. |
| Concurrency | Capacity = 4, IndexModulus = 8, Transactions = 19, CAPACITY = 2, UsizeModulus = 4, Signals = 6, Restarts = 0, Slots = 2, Trades = 5, Goroutines = {w1, w2}, TaskCount = 4, size = 3, Jobs = 3, numWorkers = 4, Iterations = 2, Cells = {0, 1}, Chunks = 4, PoolSize = 3, InitialSizes = {0, 2}, MaxProcesses = 4, MaxChurn = 3, Input <- Powers, ScanSizes = {0, 3, 6, 9}, blockSize = 8, warpSize = 4, ReductionSizes = {0, 3, 7}, workGroupSize = 4, subGroupSize = 2, Tile = 2, MatrixSizes = {0, 1, 2, 3, 4}, WarpRows = 2, WarpCols = 2 | NoSlotRace, BuffersAreFifo, PipelineDelivers, EachJobRunsOnce, NoIncrementLost, OutputIsComplete, BufferIsExact, ScanIsExact, ReductionIsSum, ProductIsExact, ProgramsEnd | Every interleaving of threads, goroutines, processes, streams and warps, with stale loads and wrapping indices: the ring buffers are race-free FIFO queues, nothing is sent on a closed channel, run twice or counted short, manifests, scans, sums and products are complete when they are used, products as far as no tile reaches over the end of a row, and every program ends. |
| Gateways | Handlers = {h1, h2}, Addrs = {a1}, Unit = 2, Rate = 1, Capacity = 4, MaxTime = 5, NoBucket = NoBucket, Actions = {"Read", "Write"}, Resources = {"db"}, TrustScores = {85, 86}, MaxStatements = 3, Switches = {"s1", "s2"}, Hosts = {"h0", "h1"}, AddrBits = 2, Tables <- UpdatedTables, TableSize = 4, TtlModulus = 4 | RateLimited, RefusedIsSpent, OrderIrrelevant, FramesNameTheirLink, PacketLeaves | Handlers that create and use buckets at once keep the rate, the policy engine's decision does not depend on the order of the statements, and a packet gets out of switches whose tables are replaced under way, each frame naming the ends of its link. |
| OnChain | Voters = {v1, v2}, Proposals = {1, 2}, Domains = {here, elsewhere}, DOMAIN_SEPARATOR = here, MaxNonce = 1, MaxTime = 1, Inputs <- SmallInputs, Amounts = {0, 1, 4, 9}, WordModulus = 256, FeeScale = 10, FeeKept = 9, MaxReserve = 20, MaxDepth = 2, Transactions = {t1, t2}, MaxTransactions = 9, Threads = {1, 2}, NonceEnd = 3, Bytes = {0, 9, 16}, HashLen = 2, difficulty_prefix_zeros = 3 | VotesAreSigned, IsSqrt, ShareValueNeverDrops, BlockIsSound, AlgorithmsEnd | Votes are the accepted signatures, _sqrt is exact, the worth of a share never drops under re-entrant calls, the Merkle root is that of the smallest tree over the leaves, and the miner's header meets its target. |
| ExactlyOnceRewind (*violated*) | Processes = {p1, p2}, Records = 4, MaxPoll = 2, MaxStarts = 3, MaxErrors = 1 | NoLoss | After one transient error the next batch commits past the aborted one, whose records are lost. |
| LmaxDisruptorClaim (*violated*) | Capacity = 2, Trades = 5 | ConsumesItsTrade | The consumer prints an event whose sequence is claimed but not yet written. |
| IpcChannelRestart (*violated*) | CAPACITY = 2, IndexModulus = 8, Signals = 4, Restarts = 1 | ReaderSeesPayload | A producer restarted while the consumer is inside consume() makes it return payloads nobody published. |
| FinancialTransferUnknown (*violated*) | Sessions = {"pay", "back", "retry", "spend"}, Accounts = {1, 2, 3}, Opening <- MCOpening, Request <- MCUnknownSource | MoneyConserved | A transfer from an account without a row passes the balance check and credits the destination. |
| MemoryAllocatorSbrk (*violated*) | META_SIZE = 1, Sizes = {1, 2}, SizeModulus = 16, HeapLimit = 8, OthersRace = TRUE | NoOverlap | Code that moves the break between the two calls of sbrk gets the memory of the new block. |
| NtProcessListError (*violated*) | InitialSizes = {0, 2}, MaxProcesses = 4, MaxChurn = 3 | ErrorMeansFailure | The check of the status is the wrong way round: a query that succeeded is reported as an error, and the list is walked only if it failed. |

Deadlock is checked, except in `MCHistories` and the
violated runs `ExactlyOnceRewind`, `IpcChannelRestart` and `MemoryAllocatorSbrk`. There
the bounded histories simply end (no more records, orders or memory) and
the program has no end of its own that a stuttering step could stand for.
Elsewhere the states in which a program has ended, or may be left idle, allow
a stuttering step, and a state in which everyone waits for everyone is an
error.

Why the bounds are enough: a ring buffer's cases are empty, full and wrapped,
and two or four slots with two laps of the index modulus have all of them in every
combination of stale reads. Two banks are what the coordinator has. Transfers
need two accounts in opposite directions, a repeated key and one more
withdrawal to have every conflict between two calls. A token bucket of two tokens with a refill of half a
token per tick is empty, partly full and full within five ticks. Two handlers,
processes or attempts make every race between a pair, and a third is added where a
stale third party matters (attempts on the ledger, pool workers). Four events
make a run of small transactions, a break of it and a second one. The hashes of
two bytes have every number of leading zero digits. Matching needs an
order that sweeps two levels and leaves a remainder: quantities and prices up
to 3, four orders. Two switches and two versions of their tables are the smallest network in
which replacing them one by one makes a loop. Three encoders and two sessions,
some of which another process may have, run out of sessions with one constructor
half-way and one object alive. The data of the kernels end inside, at the start and
behind a wavefront or work-group. The sizes 0 to 4 of the matrices, with tiles of 2 and two by two warps, are none, less than a tile,
one tile, a ragged last tile and whole tiles, with warps outside the matrix, in every combination. Messages shorter than, as long as and longer than an order,
of lengths that need one byte or both, come in every order of three, in either byte order and cut off at every byte; the digits have 0 and 9 and overflow the word.
The list of processes grows between up to three queries.

## Fairness

Weak fairness of a thread, goroutine or task says that the scheduler runs it.
Strong fairness is used for two things: a load that is repeated eventually
sees the last store (what C++ and Java ask of an implementation; in
`LockFreeMempoolBuffer`, `LmaxDisruptor`); a session gets a row lock it queues for
(PostgreSQL's queue; `FinancialTransfer`). No fairness is assumed of
banks, the network, peers, or of clients beyond reading what they are sent
(`RouteFleet`); a device runs what it was given, as its programming model says of a
stream or of a kernel whose groups all fit; the control plane of the switches gets done with
its updates; none of the mutex in `ThreadPool` nor of the spin lock, whose
workers all finish because each has finitely many turns. Components without a
liveness property have no fairness. A suite has the fairness of the component
that is its subject.

## What is proved

TLAPS checks the theorems for every value of the constants. What they assume of the
constants are the `ASSUME`s of the modules, or the named assumptions of a component that
its suite collects in one `ASSUME`; TLC evaluates them in every run. `Lemmas` has the
facts about operators that several proofs need; every other module with proofs belongs
to a suite, and its theorems speak of the suite's specification, component by component: a lemma
`...Step` says that what the suite's step does to a component is a step of the
component or nothing.

**`Lemmas`.** Sums of a function over a finite set, by which balances are compared with
entries and counters with sets (`SumSplit`, `SumSame`, `SumTwo`); quotients, remainders and the
wrapped distance of two indices, by which a counter that wraps is as good as one that
does not while it is less than a lap ahead; sequences; rows and tiles, by which an index is cut into a
block and a place in it; the least number of a set of
numbers; and `Recursion`, the existence of what a recursive definition with a given
step describes. The prover has no induction over data. Where one is
needed, it is made of the least counterexample, and recursive definitions
are recursive functions.

**`CoordinationProofs`.**

* **Agreement** of the banks, **Verdict** and **Refinement** (`ImplementsAtomicCommit`). The invariant adds to the
  types that votes are binding (a goroutine that reports success has a prepared bank, and a
  Commit is on its way only after the decision) and that the decision is safe (no
  bank aborts by itself once prepared, and no request of the other kind is in
  flight). Agreement and the refinement follow from it step by step.
* **CandidaciesHaveTerms**: a Raft node campaigns at most once in a term. A step either leaves
  the term alone or moves it forward, and only the start of an election makes a candidate.
* **FleetAnswersAll**: what was answered, waits in the channel, is being sent and has
  not been read is, in this order, what the client sent, as long as its receiver exists.

**`FinancialTransferProofs`.**

* **NeverOverdrawn**, **NeverPostedTwice**. The invariant says that a call past its SELECTs holds both
  row locks, that the balance it has read is therefore still the committed one, and that every
  posted key is recorded, on which the unique index acts.
* **BalancesAreTheLedgers**: a balance is the sum of the account's entries. Two entries are added where a
  balance is changed twice, also if an account has no row.
* **MoneyIsConserved**, if both accounts of every request have a row. Without that it is false,
  as the run `FinancialTransferUnknown` shows.

**`HistoriesProofs`.**

* **BlocksAreSound**, under two conditions: no size overflows and nobody moves the break inside
  `request_space`. Both are needed: with `OthersRace = TRUE` TLC finds a block that overlaps memory of
  others (the run `MemoryAllocatorSbrk`), and with a size near `SizeModulus` a
  block without memory. The invariant adds that a block in the making starts at the break.
* **LevelsAreQueues**: the invariant is that some queues are spelt by the links (`Linked`): next
  and previous nodes, heads, tails and volumes are theirs, and no node is in two. Every operation maps
  such queues to the ones `PriceQueues` has after it, so the abstract queues, which follow the pointers, are these.
* **BooksAreSound**: the levels of each side are queues, in order of arrival, of exactly the orders of
  that side that have shares left, with what they have left (`Side`); the two sides do not cross (`Apart`); and every
  trade found the orders before its maker filled (`Priority`). All of this but `Apart` is
  kept by each call of the recursion, in which a taker meets the
  first order at the best price. A call that trades makes the taker smaller, so after as many calls as the
  taker has shares it is filled or does not cross. Orders have at least one share (`EngineAssumption`);
  the code does not check that.
* **FeedsAreRead**: if the sender has the byte order of the host, the loop of the parser stands where a message begins or behind the
  buffer, and has found the Add Orders before it (`Parsed`). A message stays where it is however many come behind it (`PartHolds`); if its length
  has arrived, the two bytes at its beginning are that length and the next iteration stands at the next message, and if it has
  not, the loop is at its end. A read behind the buffer in an iteration means that the buffer ends in the message or
  that the message is an Add Order too short. `fast_parse_uint` has the number
  that the digits so far stand for (`Number`), modulo the width of the result: a digit more
  multiplies that number by ten, and `^ 0x30` is `- 48` on the ten digits.
* **StreamDeliversOnce**: the process with the present epoch has a position not before the committed offset, and its
  transaction holds a run of records behind that offset in their order; of the others nothing is needed, for
  the broker fences them. While no batch was aborted and something is committed, that run begins right behind the
  committed offset. Before the first commit it may begin anywhere, since a consumer then starts at the end of the log.
* **AlertsAreRight**: a raised flag has a small transaction in the log that raised it and one timer, which is the
  window's end; each entry of the log was judged as the entries before it say.
* **WithdrawalsAreRight**: an attempt that may append has rehydrated a prefix of the stream; if the
  stream is still that prefix, the event it appends leaves a balance that is not negative.
* **SessionsAreKept**: whichever call of whichever object fails, an object under construction or in use has its session,
  and an open session without such an object is one that `nvEncDestroyEncoder` failed to close. It is inductive with
  the stages of the objects alone; the failing destructor is the only step that takes the owner from a session and leaves it.

**`ConcurrencyProofs`.** The theorems are about any number of threads, tasks and items and any capacity.

* **SlotsDoNotRace** and **BuffersRefine** (of the mempool buffer and the IPC channel). The indices are the numbers of
  items pushed and popped, modulo `IndexModulus`; a thread's view of the other's index is one of its
  past values, so a view that errs does so towards full or empty; producer and consumer
  are less than a lap apart, hence equal slots are equal items. For the channel either the capacity divides
  the modulus or the counts stay below it, which is what the theorem needs.
* **PipelineIsSound**: a task is with one worker, multiplexer or in the results; channels are closed after
  their last sender has returned; without a cancellation nothing was dropped on the way.
* **JobsRunOnce**: the jobs that were received are the first ones that were sent, each at one worker; `drop` joins
  in order, and a worker ends only when the channel is empty and closed.
* **IncrementsAreKept**: the lock excludes, and the sum of the cells is the number of finished turns, the one under
  way included; the last worker to exit prints after all.
* **PlaylistsAreComplete**: a stage of a profile runs after the one before it, and a manifest after the stages it lists.
* **BuffersAreExact**: the size of the buffer is the size the next query is told.
* **ProductsAreExact**, for matrices of any size. A lane's fragment holds, at each of its places, the products of the columns the loop has passed,
  in order (`Through`). A last tile that reaches over the end of a row reaches `Spoilt` columns into the next row, or, in the last row, behind the array.
  A number of `C` in a column behind those has one place and one warp, so no other warp writes it. If all sizes are whole tiles,
  `Spoilt` is 0 and every index is below the end of its array (`RoundedUp`, `InRows`).
* **ReductionsAreSums**: the lanes behind the last element are padded with zeros, so a sub-group's places sum to its
  elements after the load and its leader has that sum after the collective. `deviceResult` is the sum over the sub-groups
  that have added; their lanes are disjoint and cover the work items.
* **ScansAreExact**: with the turn at `offset` done a lane holds the sum of the `2 * offset` elements up to its
  own, as far as its wavefront has them; a turn joins two adjacent windows. `Course` says what the
  device's memory holds after each of the host's calls.

**`GatewaysProofs`.**

* **RateIsLimited**, **RefusalsAreFree**. The core is an account per address:
  tokens now plus what was granted since any instant is at most the capacity
  plus the refill since. It needs that all handlers past `GetBucket` use the bucket in
  the map and that a bucket lost in the race to be stored is never used.
* **OrderDoesNotMatter**: by the least statement at which the loop and the quantifiers disagree.
* **FramesAreAddressed**: for tables that name the neighbour behind each port, whichever switch has
  which version of its table.

**`OnChainProofs`.**

* **SqrtIsExact**, **GuessesStayAbove**. The mean of a guess and the
  quotient is never below the root, by a lemma on the square of a mean and
  integer division; the loop stops when a guess does not fall any more.
* **VotesCounted**, **NoncesInOrder**. A voter's nonces in the accepted signatures are
  exactly those below `nonces[voter]`; a signature over the current nonce is
  therefore new, and the sets the votes count grow by one.
* **SharesKeepTheirWorth**: an action property. The guard lets one call be in progress at a time, so the pool is as the
  call has left it when the token returns; the product never falls in a swap, and minted shares round down.
* **BlocksAreMined**: a level of the loop is the level of the tree at its height, odd ones included; and whoever has stored
  `found` has a good nonce and stores it before the pool is joined.

Only model-checked:

* liveness (`AlgorithmsEnd`, `ProgramsEnd`, `NodeMakesProgress` and the others under fairness) and deadlock,
  which are out of the prover's reach;
* the violated runs, which are counterexamples.

## Findings

Each is the violated run of that name.

* **MemoryAllocatorSbrk** (`src/01-Core-Systems-and-Bare-Metal/custom-memory-allocator.c:41`): The block is placed at the value of sbrk(0) read before, not at the one sbrk(size + META_SIZE) returns, so code that moves the break in between shares its memory with the block; the comment promises "Requesting new memory from the OS Kernel via sbrk" (01-Core-Systems-and-Bare-Metal/custom-memory-allocator.c:34), and "sbrk(0) gives the current top of the heap" (01-Core-Systems-and-Bare-Metal/custom-memory-allocator.c:37) no longer holds when the second call is made.
* **LmaxDisruptorClaim** (`src/02-High-Frequency-Trading-Engine/LmaxDisruptorSimulator.java:40`): getAndIncrement() announces the sequence before the event is written, so consume() can pass its spin and print a blank event, one of the previous lap or a mixture; the comment says "Spin until the producer has moved past our target sequence" (02-High-Frequency-Trading-Engine/LmaxDisruptorSimulator.java:58).
* **IpcChannelRestart** (`src/02-High-Frequency-Trading-Engine/inter-process-communication.rs:72`): new(name, true) zeroes a region that a consumer may be using; a consume() in progress then returns a zeroed payload and stores a read_index ahead of write_index, after which publish() drops everything; the comment says "Release memory ordering guarantees the reader sees the payload *before* seeing the updated index" (02-High-Frequency-Trading-Engine/inter-process-communication.rs:97).
* **FinancialTransferUnknown** (`src/04-Distributed-Banking-Ledgers/acid-double-entry-transfer.sql:46`): The balance of a source account without a row is NULL, NULL < amount is not true, the check passes, the debit at line 59 updates no row and the destination is credited; the comments promise "The Double-Entry Ledger Insert" (04-Distributed-Banking-Ledgers/acid-double-entry-transfer.sql:51) and "Materialize the View (Update the chaced balance)" (04-Distributed-Banking-Ledgers/acid-double-entry-transfer.sql:58).
* **ExactlyOnceRewind** (`src/07-Real-Time-Event-Streaming/ExactlyOnceStreamProcessor.java:73`): abortTransaction() does not move the consumer's position, the next poll() goes on behind the aborted batch and the next commit stores an offset past it: the batch is lost; the comment says "Transient error: Abort the transaction, Kafka will rewind the consumer offset automatically" (07-Real-Time-Event-Streaming/ExactlyOnceStreamProcessor.java:72).
* **NtProcessListError** (`src/01-Core-Systems-and-Bare-Metal/windows-nt-internals.cpp:93`): The condition is negated: the branch for !NT_SUCCESS(status) walks the buffer, which the kernel has not filled, and a query that succeeded ends in the branch that prints "NTSTATUS Error: 0x" (01-Core-Systems-and-Bare-Metal/windows-nt-internals.cpp:120) with a status that is none.

Other disagreements were met while modelling and confirmed with TLC. They are
not kept as runs of their own, for each can be seen in a few lines of the code:

* `custom-memory-allocator.c`: a request near `SIZE_MAX` overflows when the header is added
  and gets a block without memory.
* `ethernet-switch.cpp`: `ipv4_forward` follows "Standard IP routing rules" (line 82) and decreases the
  TTL, and nothing looks at it: it wraps from 0 to 255, and with tables that
  form a loop a packet circles for ever. `PacketLeaves` therefore asks for tables that are
  free of loops in the end. The header checksum is not brought up to date.
* `rocm-hip.cpp`: the status of the launch (line 54) is not asked for; if the kernel
  was refused, `h_data` is overwritten with memory that nobody has written. `ScanIsExact` speaks of
  accepted kernels.
* `ExactlyOnceStreamProcessor.java`: lines 16–20 leave `auto.offset.reset` at its default `latest`. As long as the group has
  no committed offset, the consumer skips what was written before it got the partition, again after a crash or a rebalance before
  the first commit, and without any error. `NoLoss` therefore speaks of the records behind the first one delivered.
* `zero-allocation-market-data-parser.cpp`: the structure is "to exactly match the network byte sequence" (line 20), and the length
  is read in the byte order of the host (line 43): from a sender that uses the network's order the loop jumps anywhere. It compares
  the pointer with the end only at the beginning of a message (line 41), so of a buffer that ends inside a length, at a type or inside an Add Order, or in which a
  message of type 'A' is shorter than the structure, it reads what lies behind (lines 43, 47, 49).
  `FeedIsRead` speaks of senders with the host's order, and of reads behind the buffer only if it is neither cut off nor has such a message.
* `tensor-core-matrix.cpp`, "Bounds checking" (lines 32 and 46): only the corner of a tile is compared. If `N` is not a multiple of 16
  the store of a row's last tile goes on in the next row, over numbers of other warps, and at the end behind `c`. If `M` or
  `N` is not, rows or columns behind the arrays are read; if `K` is not, products of the next row are added to every
  number. `ProductIsExact` says which numbers are right all the same.
* The same kernel: `b` is loaded column-major from the address of a row-major
  tile, with the stride of a row. The product is that of A and B only if every tile of B is
  kept column by column in its place; for a row-major B each tile enters transposed.
* `zero-copy-hardware-acceleration.cpp`: `encodeFrame` says 1920 by 1080, whatever the
  size the encoder was constructed for; what `NvEncodeAPICreateInstance` returns is
  ignored, and the next line calls through the list it may not have filled. What `nvEncDestroyEncoder` returns (line 69)
  is ignored too: if it fails, the session may stay open without a handle, one less for everybody until the process ends. The class can be
  copied, and the destructors of two copies would close one session twice.
* `eip-712-doa-signature-execution.sol`: `deadline` (line 37) is not part of what was signed, so whoever relays the vote chooses it and
  "Signature expired" binds nobody.
* `automated-market-maker.sol`: the `bool` that a token returns is ignored (lines 52, 62, 96 and 97). With a token that
  answers `false` instead of reverting, the reserves count what was not paid. `SharesKeepTheirWorth` speaks of the reserves only.
* `HlsTranscodingOrchestrator.java`: how many bytes were written (`operation.get()`, line 75) is ignored, so a short
  write leaves a truncated playlist that is reported as written. The model has whole writes.
* `two-phase-commit-distributed-coordinator.go`: the errors of `Rollback` are
  dropped, so a bank can stay prepared and locked after an abort; the deadline covers
  phase 1 only, and a Commit without an answer blocks the call for ever.
* `acid-double-entry-transfer.sql`: a retry that overlaps the call it repeats can
  fail on funds or on the duplicate key and is answered FALSE, as a failure, though the
  transfer was made.
* `zero-copy-api-gateway.go`: buckets are kept by `r.RemoteAddr`, which holds the client's
  port, so a host has a fresh bucket for each connection.
* `raft-consensus-log-appender.go`: a heartbeat that arrives while the timer loop
  is not in its select is dropped, and the node may campaign against a live leader.
* `apache-flink-complex-event-processing.sc` ends its window of 10 minutes with a timer of event time and never
  compares the timestamps of the two transactions, so events out of order can
  alert across a longer window.
* `concurrency-pipeline.go`: a worker sends without watching the context, and is left blocked when
  its multiplexer has gone.
* `memory-safe-gauntlet.rs`: `drop` unwraps every `join`: the first worker that panicked makes
  `drop` panic, and the workers behind it are not joined.

## What is not modelled

Inside modelled components: time other than its order; floating point (prices,
tokens and amounts are whole numbers); the contents of messages; logging. The
external systems (Kafka, Flink, PostgreSQL, event store, banks, Raft peers, tokens,
Rayon, tonic, the NT kernel, NVENC, the HIP and SYCL runtimes, the P4 architecture) are modelled from how the code uses them and as freely as that
allows. In the AMM `balanceOf`, which splits `totalSupply` by owner, is left
out. `EventSourcedLedger` and `PolicyEngine` assume a store that keeps its contract
and callers that do not change a list under evaluation.

Components without a module:

* SIMD and NEON kernels (01-Core-Systems-and-Bare-Metal/simd-vector-math.asm, 01-Core-Systems-and-Bare-Metal/neon-simd.asm): Straight-line vector arithmetic; planned: the index and remainder arithmetic of the dot-product loop as a pure algorithm.
* System-call dispatcher and CPU feature detection (01-Core-Systems-and-Bare-Metal/system-call-dispatch.asm, 01-Core-Systems-and-Bare-Metal/advanced-cpu-feature-detection.asm): A few instructions each that read the processor or trap once, with no state between calls.
* Raster interrupt (01-Core-Systems-and-Bare-Metal/cycle-precise-raster-interrupt.asm): Correctness is a matter of machine cycles of one video chip, which the code does not state.
* SNPE runtime selection (03-Hardware-Acceleration-and-Networking/snpe-snippet.cpp): Calls of the vendor's library with one choice of their own, DSP before GPU before CPU; the code keeps no state, and nothing it does depends on an order of events.
* Wi-Fi beacon parser (03-Hardware-Acceleration-and-Networking/wifi-driver-firmware.c): One stateless function: a length check and a comparison of two bit fields.
* Adaptive anomaly detection (05-Zero-Trust-Security-and-IAM/adaptive-anomaly-detection.ts): Floating-point risk scores; planned: the decision logic over abstract scores.
* Cryptographic identity provider (05-Zero-Trust-Security-and-IAM/cryptographic-identity-provider.go): Planned: issue and verification with expiry over ideal signatures.
* Envoy WebAssembly filter (06-Platform-Engineering-and-Gateways/envoy-proxy-webassembly-filter.cpp): One stateless callback: two header checks in sequence.
* Catalyst optimizer rule (07-Real-Time-Event-Streaming/apache-spark-custom-catalyst-optimizer-rule.sc): A rewrite of Spark's expression trees by pattern matching in library types.
* Flash-loan arbitrage contract (08-Web3-and-Cryptographic-Blockchains/aave-v3-flash-loan-arbitrage-contract.sol): Planned: loan, swaps and repayment as one transaction that reverts as a whole.
* Bytecode virtual machine (09-Advanced-Metaprogramming-and-Web/bytecode-virtual-machine.js): this.spq-- turns a fresh property into NaN, so a pop neither lowers the stack pointer nor reads an operand; planned: a module of the machine as it behaves.
* Reactive dependency engine (09-Advanced-Metaprogramming-and-Web/reactive-dependency-engine.js): track refers to the undeclared d1epsMap and throws for a target seen the first time; planned: a module of the engine as it behaves.
* Type-level and compile-time programs (09-Advanced-Metaprogramming-and-Web/compile-time.cpp, 09-Advanced-Metaprogramming-and-Web/deep-rational-labyrinth.ts, 09-Advanced-Metaprogramming-and-Web/theme-path-extractor.ts, 09-Advanced-Metaprogramming-and-Web/type-safe-rpc-factory.ts): Evaluated by a type checker or in a constant expression, with no state at run time. compile-time.cpp does not compile: for Current = Max the base case of PrimeGenerator and the case for the value of CurrentIsPrime both match, and neither is more special.
* Line interpreter (09-Advanced-Metaprogramming-and-Web/monad-stack.hs): Planned: parseLine and executeProgram, whose errors end the fold with the state of the lines before.
* WebAssembly text module (09-Advanced-Metaprogramming-and-Web/webassembly-text-format.asm): A single pure function in straight-line code.
* MPEG-TS multiplexer (10-Media-and-Transcoding/mpeg-ts-multiplexer.go): Planned: packetisation, continuity counters and stuffing as a module over lengths.
* MPEG-DASH manifest engine (10-Media-and-Transcoding/mpeg-dash-dynamic-manifest-engine.ts): Formats an XML document; planned: the arithmetic of its segment window.
* RTMP demuxer (10-Media-and-Transcoding/rtmp-stream-demuxer.rs): Planned: the chunk header parser as a pure algorithm over bounded inputs.
* Scene-cut detection (10-Media-and-Transcoding/scene-cut-detection-engine.py): Image arithmetic of OpenCV and NumPy.
* AV1 transcoding worker (10-Media-and-Transcoding/distributed-av1-transcoding-worker.py): Planned: the Celery task with its retries and the external encoder.
* Dynamic LINQ expressions (11-Advanced-Database-Analaytics/dynamic-linq-expression.cs): Builds an expression tree that the database provider evaluates.
* Recursive CTE and sessionization (11-Advanced-Database-Analaytics/recursive-cte.sql, 11-Advanced-Database-Analaytics/timeseries-sessionization.sql): Planned: both queries as operators on bounded tables, against a set-based reference.
* Asynchronous circuit breaker (12-DevOps-and-Concurrency/asynchronous-circuit-breaker.py): __aexit__ names the attribute _lock that __init__ calls lock, so every exit raises AttributeError and the breaker never leaves CLOSED; the decorator's only use raises TypeError at import (threshold for threshould). Planned: a module of the breaker as it behaves, with the run that shows it.
* CI/CD and container configuration (12-DevOps-and-Concurrency/ci-cd-labyrinth.yaml, 12-DevOps-and-Concurrency/devops-everything-bagel.yaml): Configuration of external services.
* Repository documentation (README.md, LICENSE): Documentation.

## Plan

Done, in this order: the coordinator with its abstract specification and proofs; the
transfer procedure; the buffers with `BoundedFifo`; the stream processor; pipeline
and thread pool; Raft node; allocator; gateway; event store; fraud detector;
order books; market maker; miner, voting, spin lock, orchestrator, dispatcher,
policy engine; then the programs that drive devices: switch, process list, encoder,
scan, reduction, matrix product, and the market data parser.

Next, more of the system:

1. `MpegTsMultiplexer` (continuity counters, stuffing, packet boundaries) and
   `RtmpDemuxer` (chunk headers) as algorithms over bounded inputs.
2. `BytecodeVM`, `ReactiveEngine` and `CircuitBreaker` as they behave, with runs
   against what their comments say.
3. `FlashLoan` (loan, swaps, repayment, revert), `IdentityProvider` (issue, verify,
   expiry), `AnomalyDetection` (decisions over abstract scores).
4. `TranscodeTask` (Celery retries), the DASH segment window.
5. `Sessionization` and `RecursiveCte` as operators on bounded tables.

As for proofs, every invariant, action property and refinement that a passing run checks is
a theorem; liveness is not, and stays with TLC. A new component is to come with the theorems of its invariants.
