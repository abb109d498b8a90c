-------------------------- MODULE MarketDataParser --------------------------
(* The two functions of 02-High-Frequency-Trading-Engine/zero-allocation-   *)
(* market-data-parser.cpp, loop iteration by loop iteration.                *)
(* process_market_data_buffer gets what has arrived, up to any byte, of     *)
(* messages behind their 2-byte lengths, which the sender wrote in the byte *)
(* order of this host or in that of the network; every byte of a message    *)
(* behind its type could be mistaken for the type of an Add Order.  A byte  *)
(* has ByteBase values.  fast_parse_uint gets ASCII digits.                 *)
EXTENDS Integers, Sequences, SequencesExt

CONSTANTS
  ByteBase,        \* 256 in the code
  AddOrderSize,    \* sizeof(AddOrderMessage), 38 in the code
  MessageSizes,    \* the sizes of the messages, which have a type at least
  MaxMessages,
  UintModulus,     \* 2^64 in the code
  Digits,          \* the digits a string is made of
  MaxDigits

ParserAssumption ==
  /\ ByteBase \in Nat /\ ByteBase > 1 /\ AddOrderSize \in Nat \ {0}
  /\ MessageSizes \subseteq Nat \ {0} /\ \A n \in MessageSizes : n < ByteBase^2
  /\ UintModulus \in Nat \ {0} /\ Digits \subseteq 0..9 /\ MaxMessages \in Nat /\ MaxDigits \in Nat

VARIABLES
  function,       \* the one that runs
  sender,         \* the byte order of the sender: "host" or "network"
  messages,       \* what it sends
  end_ptr,        \* how many of its bytes are in network_buffer
  current_ptr,    \* the offset of current_ptr in network_buffer
  orders,         \* the offsets at which an Add Order was found
  overrun,        \* memory behind the buffer was read
  str, i, result  \* of fast_parse_uint

vars == <<function, sender, messages, end_ptr, current_ptr, orders, overrun, str, i, result>>

TypeOther == 0    \* 'E' is one of these
TypeA == 1
Message == [type : {TypeA, TypeOther}, len : MessageSizes]

(* A message on the wire. *)
Frame(order, m) ==
  LET low == m.len % ByteBase
      high == m.len \div ByteBase
  IN  (IF order = "host" THEN <<low, high, m.type>> ELSE <<high, low, m.type>>)
        \o [k \in 1..(m.len - 1) |-> TypeA]

Wire(order, ms) == FlattenSeq([k \in 1..Len(ms) |-> Frame(order, ms[k])])
network_buffer == Wire(sender, messages)    \* its first end_ptr bytes

(* One of the two functions runs, on messages or on digits. *)
TypeOK ==
  /\ function \in {"process_market_data_buffer", "fast_parse_uint"}
  /\ sender \in {"host", "network"} /\ messages \in Seq(Message) /\ end_ptr \in 0..Len(network_buffer)
  /\ orders \in Seq(Nat) /\ overrun \in BOOLEAN
  /\ current_ptr \in Nat /\ i \in 0..Len(str) /\ result \in 0..(UintModulus - 1)

Init ==
  /\ current_ptr = 0 /\ orders = <<>> /\ overrun = FALSE /\ i = 0 /\ result = 0
  /\ \/ /\ function = "process_market_data_buffer" /\ str = <<>>
        /\ sender \in {"host", "network"}
        /\ messages \in UNION {[1..n -> Message] : n \in 0..MaxMessages}
        /\ end_ptr \in 0..Len(network_buffer)
     \/ /\ function = "fast_parse_uint" /\ sender = "host" /\ messages = <<>> /\ end_ptr = 0
        /\ str \in UNION {[1..n -> {48 + d : d \in Digits}] : n \in 0..MaxDigits}

-----------------------------------------------------------------------------
(* What memory holds at an offset: anything, behind the bytes that arrived.*)
Memory(p) == IF p < end_ptr THEN {network_buffer[p + 1]} ELSE 0..(ByteBase - 1)

(* mutant: the header counted twice *)
NextMessageTwice(msg_length) == current_ptr + 2 + msg_length + 2
(* current_ptr += msg_length, behind the 2 bytes of the length. *)
NextMessage(msg_length) == current_ptr + 2 + msg_length

(* One iteration of the loop; the branch for 'E' does nothing yet. *)
ProcessMessage ==
  /\ function = "process_market_data_buffer" /\ current_ptr < end_ptr
  /\ \E low \in Memory(current_ptr), high \in Memory(current_ptr + 1),
        type \in Memory(current_ptr + 2) :
       /\ current_ptr' = NextMessage(low + ByteBase * high)
       /\ orders' = IF type = TypeA THEN Append(orders, current_ptr + 2) ELSE orders
       /\ overrun' = \/ overrun \/ current_ptr + 2 >= end_ptr
                     \/ type = TypeA /\ current_ptr + 2 + AddOrderSize > end_ptr
  /\ UNCHANGED <<function, sender, messages, end_ptr, str, i, result>>

(* The exclusive or of two bytes. *)
Xor(a, b) ==
  LET bit(n, w) == (n \div w) % 2
      differ(w) == IF bit(a, w) # bit(b, w) THEN w ELSE 0
  IN  differ(1) + differ(2) + differ(4) + differ(8) + differ(16) + differ(32) + differ(64) + differ(128)

(* One iteration of the loop of fast_parse_uint. *)
ParseDigit ==
  /\ function = "fast_parse_uint" /\ i < Len(str)
  /\ result' = (result * 10 + Xor(str[i + 1], 48)) % UintModulus
  /\ i' = i + 1
  /\ UNCHANGED <<function, sender, messages, end_ptr, current_ptr, orders, overrun, str>>

Next == ProcessMessage \/ ParseDigit

Spec == Init /\ [][Next]_vars

-----------------------------------------------------------------------------
(* Where the messages begin and where the last one ends, and where their    *)
(* types are.                                                               *)
Start(k) == Len(Wire(sender, SubSeq(messages, 1, k - 1)))
Type(k) == Start(k) + 2
AddOrders == {k \in 1..Len(messages) : messages[k].type = TypeA}

(* The buffer ends within a message, or an Add Order is shorter than the    *)
(* structure it is cast to.                                                 *)
Incomplete ==
  \/ \A k \in 1..(Len(messages) + 1) : Start(k) # end_ptr
  \/ \E k \in AddOrders : messages[k].len < AddOrderSize

(* Line 58, "Jump exactly to the next message in the byte stream": if the   *)
(* sender has the byte order of this host, the loop only stops where a      *)
(* message begins or behind the buffer; of the Add Orders begun so far it   *)
(* finds, in order, all those whose type has arrived, and nothing inside    *)
(* another message; and it reads or finds nothing behind the buffer unless  *)
(* the buffer is incomplete.                                                *)
OrdersAreThoseSent ==
  sender = "host" =>
    /\ current_ptr < end_ptr => \E k \in 1..Len(messages) : Start(k) = current_ptr
    /\ \A a, b \in 1..Len(orders) : a < b => orders[a] < orders[b]
    /\ {o \in Range(orders) : o < end_ptr} =
         {Type(k) : k \in {m \in AddOrders : Start(m) < current_ptr /\ Type(m) < end_ptr}}
    /\ (overrun \/ \E o \in Range(orders) : o >= end_ptr) => Incomplete

(* What a digit is worth that n digits follow.                              *)
Worth[n \in Nat] == IF n = 0 THEN 1 ELSE 10 * Worth[n - 1]

(* Line 13, "Subtracting '0' is the same as bitwise XOR with 0x30": a string*)
(* of digits becomes its number, modulo the width of the result.            *)
DigitsAreRead ==
  result = SumFunctionOnSet([k \in 1..i |-> (str[k] - 48) * Worth[i - k]], 1..i) % UintModulus

(* What the two functions read is what was sent, as far as it has arrived.  *)
FeedIsRead == OrdersAreThoseSent /\ DigitsAreRead
=============================================================================
