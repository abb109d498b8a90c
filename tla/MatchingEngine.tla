--------------------------- MODULE MatchingEngine ---------------------------
(* The order book actor of 02-High-Frequency-Trading-Engine/                *)
(* hft-matching-engine.sc, which handles one command at a time.  A side of  *)
(* the book maps the prices it has orders at to queues of orders; order n   *)
(* is the n-th one submitted.  CancelOrder leaves the state as it is.       *)
EXTENDS Integers, SequencesExt

CONSTANTS
  Prices, Quantities,
  MaxOrders            \* orders submitted

(* SubmitOrder does not look at the quantity; an order of no shares, which  *)
(* would enter an execution of none, is left out.                           *)
EngineAssumption == Prices \subseteq Int /\ Quantities \subseteq Nat \ {0} /\ MaxOrders \in Nat

VARIABLES
  bids, asks,   \* OrderBookState
  orders,       \* the orders submitted: [isBuy, price, quantity]
  trades        \* the executions, oldest first: [maker, taker, price, quantity]

vars == <<bids, asks, orders, trades>>

Ids == 1..MaxOrders
Order == [id : Ids, price : Prices, quantity : Nat \ {0}]
Submission == [isBuy : BOOLEAN, price : Prices, quantity : Quantities]
Trade == [maker : Ids, taker : Ids, price : Prices, quantity : Nat]
IsBook(book) ==
  /\ DOMAIN book \subseteq Prices
  /\ \A p \in DOMAIN book : book[p] \in Seq(Order) /\ book[p] # <<>>

(* A book has no empty level, and no resting order or trade of no quantity. *)
TypeOK ==
  /\ IsBook(bids) /\ IsBook(asks)
  /\ orders \in Seq(Submission) /\ trades \in Seq(Trade)

NoOrders == [p \in {} |-> <<>>]

Init == bids = NoOrders /\ asks = NoOrders /\ orders = <<>> /\ trades = <<>>

-----------------------------------------------------------------------------
(* The first key of a side: bids are sorted descending, asks ascending. *)
bestPrice(makerBook, isBuy) ==
  CHOOSE p \in DOMAIN makerBook :
    \A q \in DOMAIN makerBook : IF isBuy THEN p <= q ELSE p >= q

crosses(taker, makerBook, isBuy) ==
  /\ DOMAIN makerBook # {}
  /\ IF isBuy THEN taker.price >= bestPrice(makerBook, isBuy)
              ELSE taker.price <= bestPrice(makerBook, isBuy)

Reduced(order, tradeQty) == [order EXCEPT !.quantity = @ - tradeQty]

(* mutant: a partly filled order goes to the end of its queue *)
updatedMakerOrdersRequeued(queue, tradeQty) ==
  IF Head(queue).quantity = tradeQty THEN Tail(queue)
  ELSE Append(Tail(queue), Reduced(Head(queue), tradeQty))
(* mutant: a partly filled order keeps its quantity *)
updatedMakerOrdersUnreduced(queue, tradeQty) ==
  IF Head(queue).quantity = tradeQty THEN Tail(queue) ELSE queue
updatedMakerOrders(queue, tradeQty) ==
  IF Head(queue).quantity = tradeQty THEN Tail(queue)
  ELSE <<Reduced(Head(queue), tradeQty)>> \o Tail(queue)

Updated(book, price, queue) ==
  [p \in DOMAIN book \union {price} |-> IF p = price THEN queue ELSE book[p]]

updatedMakerBook(book, price, queue) ==
  IF queue = <<>> THEN Restrict(book, DOMAIN book \ {price}) ELSE Updated(book, price, queue)

execPrice(taker, best) == best

(* A taker with no match rests at the end of its price's queue. *)
Rest(taker, takerBook) ==
  Updated(takerBook, taker.price,
          (IF taker.price \in DOMAIN takerBook THEN takerBook[taker.price] ELSE <<>>) \o <<taker>>)

(* A call of matchOrder that trades, with the first order at the best price,*)
(* yields the arguments of the next call and the executions so far.         *)
trade(c) ==
  LET best == bestPrice(c.makerBook, c.isBuy)
      queue == c.makerBook[best]
      tradeQty == Min({c.taker.quantity, Head(queue).quantity})
      exec == [maker |-> Head(queue).id, taker |-> c.taker.id,
               price |-> execPrice(c.taker, best), quantity |-> tradeQty]
  IN  [c EXCEPT !.taker = Reduced(@, tradeQty),
                !.makerBook = updatedMakerBook(@, best, updatedMakerOrders(queue, tradeQty)),
                !.execs = Append(@, exec)]

(* A taker that has nothing left makes no further call. *)
deeper(c) ==
  IF c.taker.quantity > 0 /\ crosses(c.taker, c.makerBook, c.isBuy) THEN trade(c) ELSE c

(* The recursion, call by call. *)
Calls(c) == LET call[n \in Nat] == IF n = 0 THEN c ELSE deeper(call[n - 1]) IN call

(* Every trade takes one share at least off the taker. *)
matchOrder(taker, makerBook, takerBook, isBuy) ==
  LET last == Calls([taker |-> taker, makerBook |-> makerBook, isBuy |-> isBuy,
                     execs |-> <<>>])[taker.quantity]
  IN  [maker |-> last.makerBook, execs |-> last.execs,
       taker |-> IF last.taker.quantity = 0 THEN takerBook ELSE Rest(last.taker, takerBook)]

SubmitOrder(isBuy, price, quantity) ==
  LET new == [id |-> Len(orders) + 1, price |-> price, quantity |-> quantity]
      result == IF isBuy THEN matchOrder(new, asks, bids, TRUE)
                         ELSE matchOrder(new, bids, asks, FALSE)
  IN  /\ Len(orders) < MaxOrders
      /\ orders' = Append(orders, [isBuy |-> isBuy, price |-> price, quantity |-> quantity])
      /\ trades' = trades \o result.execs
      /\ bids' = IF isBuy THEN result.taker ELSE result.maker
      /\ asks' = IF isBuy THEN result.maker ELSE result.taker

Next ==
  \E isBuy \in BOOLEAN, price \in Prices, quantity \in Quantities :
    SubmitOrder(isBuy, price, quantity)

Spec == Init /\ [][Next]_vars

-----------------------------------------------------------------------------
(* The orders of a side, each where it rests. *)
Places(book) == UNION {{p} \X DOMAIN book[p] : p \in DOMAIN book}

(* What rests of order id. *)
Resting(book, id) ==
  SumFunctionOnSet([x \in Places(book) |-> book[x[1]][x[2]].quantity],
                   {x \in Places(book) : book[x[1]][x[2]].id = id})

(* What order id has traded in the first n trades. *)
Filled(id, n) ==
  SumFunctionOnSet([k \in DOMAIN trades |-> trades[k].quantity],
                   {k \in 1..n : id \in {trades[k].maker, trades[k].taker}})

(* No two orders that could trade with each other rest in the book.         *)
NotCrossed == \A p \in DOMAIN bids, q \in DOMAIN asks : p < q

(* The quantity of an order is what it has traded and what still rests: the *)
(* recursion neither loses nor invents a share.                             *)
Conserved ==
  \A id \in 1..Len(orders) :
    orders[id].quantity = Filled(id, Len(trades)) + Resting(bids, id) + Resting(asks, id)

(* matchOrders leaves a book that is neither crossed nor short of a share.  *)
BookIsSound == NotCrossed /\ Conserved

Better(a, b) ==
  \/ IF orders[a].isBuy THEN orders[a].price > orders[b].price ELSE orders[a].price < orders[b].price
  \/ orders[a].price = orders[b].price /\ a < b

(* Price-time priority: when a maker trades, every order that was there and *)
(* has a better price, or came earlier at the same price, is filled.        *)
PriceTimePriority ==
  \A k \in 1..Len(trades) : \A id \in 1..(trades[k].taker - 1) :
    /\ orders[id].isBuy = orders[trades[k].maker].isBuy
    /\ Better(id, trades[k].maker)
    => Filled(id, k) = orders[id].quantity
=============================================================================
