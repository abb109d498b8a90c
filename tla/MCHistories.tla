----------------------------- MODULE MCHistories -----------------------------
(* Model checking of the components that must stay sound under long         *)
(* histories of calls, failures and restarts: the memory allocator, the     *)
(* price levels of the limit order book, the matching engine, the market    *)
(* data parser, the exactly-once processor, the fraud detector, the event-  *)
(* sourced ledger and the hardware encoder.  They do not interact:          *)
(* `subject' says which of them a behaviour is about, and the other ones    *)
(* stay as they were initially.                                             *)
EXTENDS MemoryAllocator, TLC

CONSTANTS
  Levels, Lots, Capacity, VolumeModulus, NULL,              \* of the price levels
  Prices, Quantities, MaxOrders,                            \* of the matching engine
  ByteBase, AddOrderSize, MessageSizes, MaxMessages,
  UintModulus, Digits, MaxDigits,                           \* of the parser
  Processes, Records, MaxPoll, MaxStarts, MaxErrors,        \* of the processor
  Window, MaxTime, MaxEvents, NoTimer,                      \* of the detector
  Withdrawals, Attempts, Sums, MaxVersion, NoView,          \* of the ledger
  Encoders, MaxSessions                                     \* of the encoder

VARIABLES
  subject,
  next_free_index, next, prev, quantity, head, tail, total_volume, live,
  bids, asks, orders, trades,
  function, sender, messages, end_ptr, current_ptr, found, overrun, str, i, result,
  produced, committed, output, epoch, txn, txnOffset, owner, pc, position, myEpoch, records, errors,
  flagState, timerState, timers, watermark, log,
  store, args, serves, view, status,
  process, object, listed, sessions, foreign

Book    == INSTANCE LimitOrderBook WITH Quantities <- Lots
Engine  == INSTANCE MatchingEngine
Parser  == INSTANCE MarketDataParser WITH orders <- found
Stream  == INSTANCE ExactlyOnce
Fraud   == INSTANCE FraudDetector
Ledger  == INSTANCE EventSourcedLedger WITH Amounts <- Sums
Encoder == INSTANCE NvencEncoder WITH others <- foreign

ASSUME HistoriesAssumption ==
  /\ Book!NullAssumption /\ Engine!EngineAssumption /\ Parser!ParserAssumption
  /\ Stream!StreamAssumption /\ Fraud!FraudAssumption /\ Ledger!LedgerAssumption
  /\ Encoder!EncoderAssumption

bookVars == <<next_free_index, next, prev, quantity, head, tail, total_volume, live>>
engineVars == <<bids, asks, orders, trades>>
parserVars == <<function, sender, messages, end_ptr, current_ptr, found, overrun, str, i, result>>
streamVars == <<produced, committed, output, epoch, txn, txnOffset, owner,
                pc, position, myEpoch, records, errors>>
fraudVars  == <<flagState, timerState, timers, watermark, log>>
ledgerVars == <<store, args, serves, view, status>>
encoderVars == <<process, object, listed, sessions, foreign>>

(* The states of all components but the one a behaviour is about. *)
ButAllocator == <<bookVars, engineVars, parserVars, streamVars, fraudVars, ledgerVars, encoderVars>>
ButBook   == <<vars, engineVars, parserVars, streamVars, fraudVars, ledgerVars, encoderVars>>
ButEngine == <<vars, bookVars, parserVars, streamVars, fraudVars, ledgerVars, encoderVars>>
ButParser == <<vars, bookVars, engineVars, streamVars, fraudVars, ledgerVars, encoderVars>>
ButStream == <<vars, bookVars, engineVars, parserVars, fraudVars, ledgerVars, encoderVars>>
ButFraud  == <<vars, bookVars, engineVars, parserVars, streamVars, ledgerVars, encoderVars>>
ButLedger == <<vars, bookVars, engineVars, parserVars, streamVars, fraudVars, encoderVars>>
ButEncoder == <<vars, bookVars, engineVars, parserVars, streamVars, fraudVars, ledgerVars>>

(* What the pool of nodes, the buffer of messages and the clients' calls are*)
(* at first matters to their own component alone.                           *)
BookIdle ==
  Book!Init /\ \A n \in 1..Capacity : next[n] = NULL /\ quantity[n] = CHOOSE q \in Lots : TRUE
ParserIdle ==
  /\ function = "process_market_data_buffer" /\ sender = "host" /\ messages = <<>>
  /\ end_ptr = 0 /\ str = <<>>
  /\ current_ptr = 0 /\ found = <<>> /\ overrun = FALSE /\ i = 0 /\ result = 0
LedgerIdle ==
  store = <<>> /\ args = <<>> /\ serves = <<>> /\ view = <<>> /\ status = <<>>

SuiteInit ==
  /\ subject \in {"allocator", "book", "engine", "parser", "stream", "fraud", "ledger", "encoder"}
  /\ Init /\ Engine!Init /\ Stream!Init /\ Fraud!Init /\ Encoder!Init
  /\ IF subject = "book" THEN Book!Init ELSE BookIdle
  /\ IF subject = "parser" THEN Parser!Init ELSE ParserIdle
  /\ IF subject = "ledger" THEN Ledger!Init ELSE LedgerIdle

(* The histories are bounded, and may end. *)
SuiteNext ==
  /\ UNCHANGED subject
  /\ \/ subject = "allocator" /\ Next /\ UNCHANGED ButAllocator
     \/ subject = "book" /\ Book!Next /\ UNCHANGED ButBook
     \/ subject = "engine" /\ Engine!Next /\ UNCHANGED ButEngine
     \/ subject = "parser" /\ Parser!Next /\ UNCHANGED ButParser
     \/ subject = "stream" /\ Stream!Next /\ UNCHANGED ButStream
     \/ subject = "fraud" /\ Fraud!Next /\ UNCHANGED ButFraud
     \/ subject = "ledger" /\ Ledger!Next /\ UNCHANGED ButLedger
     \/ subject = "encoder" /\ Encoder!Next /\ UNCHANGED ButEncoder

SuiteSpec == SuiteInit /\ [][SuiteNext]_<<subject, vars, ButAllocator>>

(* Withdrawals differ by their arguments alone, and attempts by what they   *)
(* serve.                                                                   *)
Symmetry == Permutations(Withdrawals) \union Permutations(Attempts)

-----------------------------------------------------------------------------
(* insert_order_at_level and cancel_order, on the pointers of the nodes,    *)
(* implement queues in the order of arrival, volumes included.              *)
ImplementsQueues == Book!ImplementsQueues

(* The matching engine's book never holds two orders that could trade,      *)
(* matchOrders neither loses nor invents a share, and when a maker trades   *)
(* every better and every earlier order is filled.                          *)
BookIsSound == Engine!BookIsSound /\ Engine!PriceTimePriority

(* process_market_data_buffer finds the Add Orders that a sender with the   *)
(* byte order of the host has sent, and reads no byte behind a buffer of    *)
(* whole messages whose Add Orders are long enough; and fast_parse_uint     *)
(* reads the number its digits stand for.                                   *)
FeedIsRead == Parser!FeedIsRead

(* No record reaches the destination topic twice or overtakes another, the  *)
(* committed offset is that of the last one, whatever zombies, crashes and  *)
(* aborted batches there were; and behind the first record delivered, every *)
(* record up to the offset is in the topic, as long as no batch was aborted *)
(* on a transient error.                                                    *)
StreamIsExact == Stream!OutputMatchesOffset /\ Stream!NoLossWithoutErrors

(* processElement reports every massive transaction right behind a run of   *)
(* small ones while their window is open, and nothing else.                 *)
AlertsAreExact == Fraud!AlertsAreExact

(* The event-sourced account was never overdrawn, and a withdrawal is made  *)
(* once, whichever servers withdrew at a time and whatever became of their  *)
(* answers.                                                                 *)
WithdrawalsAreSound == Ledger!WithdrawalsAreSound

(* No object loses the session it uses, and no session outlives its object  *)
(* but those that nvEncDestroyEncoder failed to close, whichever calls of   *)
(* the driver failed.                                                       *)
EncodersAreSound == Encoder!SessionsAreOwned
=============================================================================
