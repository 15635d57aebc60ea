------------------------------ MODULE OrderBook ------------------------------
(***************************************************************************)
(* matching/order_book.go and the dispatch of runApplier                  *)
(* (matching/engine.go:114-146): one product's order book, fed with       *)
(* new-order and cancel messages that may be repeated and may overtake    *)
(* each other.                                                            *)
(*                                                                        *)
(* The handler of one message is a run of steps, one per loop iteration   *)
(* of ApplyOrder, because the engine applies messages one at a time: no   *)
(* message is taken before pc is "idle" again.  Sizes, prices and funds   *)
(* are naturals, in units of the product's base and quote increments.     *)
(***************************************************************************)
EXTENDS DedupWindow, Integers, Sequences, FiniteSetsExt

CONSTANTS
    Ids,                \* order ids
    Orders,             \* the orders PlaceOrder lets through, see ValidOrder
    MaxPrice,           \* MaxFloat32: the price a market buy is matched at
    IdStep,             \* 2^12: ids that differ by less share a shard
    SplitCount,         \* TableOrderSplitCount: de-duplication windows
    NoTaker,            \* no order is being applied
    MaxMessages         \* bound on the messages delivered

Sides  == {"buy", "sell"}
Types  == {"limit", "market"}
TIFs   == {"GTC", "IOC", "GTX", "FOK", "other"}

Opposite(side) == IF side = "buy" THEN "sell" ELSE "buy"

BookOrder ==
    [id : Ids, side : Sides, type : Types, tif : TIFs,
     price : Nat, size : Nat, funds : Nat]

\* What service.PlaceOrder stores: sizes, prices and funds it has rounded and
\* found positive, the funds of a limit order computed, the fields that do
\* not apply zero.  The time in force is whatever string the client sent.
ValidOrder(o) ==
    CASE o.type = "limit" -> /\ o.size > 0 /\ o.price > 0 /\ o.price <= MaxPrice
                             /\ o.funds = o.size * o.price
      [] o.type = "market" /\ o.side = "buy"  -> o.size = 0 /\ o.price = 0 /\ o.funds > 0
      [] o.type = "market" /\ o.side = "sell" -> o.size > 0 /\ o.price = 0 /\ o.funds = 0

ASSUME OrderBookAssumption ==
    /\ Ids \subseteq Nat
    /\ MaxPrice \in Nat
    /\ IdStep \in Nat \ {0} /\ SplitCount \in Nat \ {0}
    /\ \A o \in Orders : o \in BookOrder /\ ValidOrder(o)
    /\ NoTaker \notin BookOrder
    /\ MaxMessages \in Nat

Shards == 0 .. SplitCount - 1

\* mysql.GetTableIndexByOrderId
Shard(id) == (id \div IdStep) % SplitCount
-----------------------------------------------------------------------------
VARIABLES
    orders,             \* depth.orders of each side: order id -> BookOrder
    queue,              \* depth.queue of each side: the keys of the treemap
    windows,            \* orderIdWindows
    tradeSeq, logSeq,
    pc,                 \* "idle", "match" (in ApplyOrder), "rest" (IOC's cancel)
    taker,              \* takerOrder of the ApplyOrder in progress
    logs,               \* the logs of the current message
    submitted,          \* the orders some message has carried: id -> order
    messages            \* number of messages delivered

\* History of what the logs said.
VARIABLES
    filled,             \* per order: size matched, as taker or as maker
    spent,              \* per buy order: funds its matches cost
    closed,             \* per order: number of Done logs
    unfilled,           \* per order: size its Done logs report as not filled
    applied,            \* orders ApplyOrder's window let through
    nullified,          \* orders NullifyOrder answered
    cancelled,          \* orders a cancel message was delivered for
    dropped,            \* orders whose first message the window turned away
    took                \* orders that matched as taker

bookVars == <<orders, queue, tradeSeq, logSeq, logs>>
envVars  == <<submitted, messages>>
fillVars == <<filled, spent, took>>
doneVars == <<closed, unfilled>>
tagVars  == <<applied, nullified, cancelled, dropped>>
vars == <<bookVars, windows, pc, taker, envVars, fillVars, doneVars, tagVars>>

Key == [price : Nat, orderId : Ids]

MatchLog == [type : {"match"}, seq : Nat, tradeSeq : Nat, taker : Ids, maker : Ids,
             side : Sides, price : Nat, size : Nat]
OpenLog  == [type : {"open"}, seq : Nat, id : Ids, side : Sides, price : Nat, remaining : Nat]
DoneLog  == [type : {"done"}, seq : Nat, id : Ids, side : Sides, price : Nat,
             remaining : Nat, reason : {"filled", "cancelled"}]
Log      == MatchLog \cup OpenLog \cup DoneLog

\* A map from some of the ids to members of S.
IsIdMap(f, S) == DOMAIN f \subseteq Ids /\ f \in [DOMAIN f -> S]

TypeOK ==
    /\ orders = [s \in Sides |-> orders[s]]
    /\ \A s \in Sides : IsIdMap(orders[s], BookOrder)
    /\ queue \in [Sides -> SUBSET Key]
    /\ windows \in [Shards -> Windows]
    /\ tradeSeq \in Nat /\ logSeq \in Nat
    /\ pc \in {"idle", "match", "rest"}
    /\ taker \in BookOrder \cup {NoTaker}
    /\ pc = "idle" <=> taker = NoTaker
    /\ logs \in Seq(Log)
    /\ IsIdMap(submitted, Orders)
    /\ messages \in 0 .. MaxMessages
    /\ filled \in [Ids -> Nat] /\ spent \in [Ids -> Nat]
    /\ closed \in [Ids -> Nat] /\ unfilled \in [Ids -> Nat]
    /\ \A S \in {applied, nullified, cancelled, dropped, took} : S \subseteq Ids
-----------------------------------------------------------------------------
\* NewOrderBook
Init ==
    /\ orders = [s \in Sides |-> << >>]
    /\ queue = [s \in Sides |-> {}]
    /\ windows = [s \in Shards |-> EmptyWindow]
    /\ tradeSeq = 0 /\ logSeq = 0
    /\ pc = "idle" /\ taker = NoTaker /\ logs = << >>
    /\ submitted = << >> /\ messages = 0
    /\ filled = [i \in Ids |-> 0] /\ spent = [i \in Ids |-> 0]
    /\ closed = [i \in Ids |-> 0] /\ unfilled = [i \in Ids |-> 0]
    /\ applied = {} /\ nullified = {} /\ cancelled = {} /\ dropped = {} /\ took = {}

(***************************************************************************)
(* The depths.                                                             *)
(***************************************************************************)

OnBook(side, id) == id \in DOMAIN orders[side]

\* Faulty: puts every order of a price level behind the newer ones.
BeforeNewestFirst(side, j, k) ==
    \/ IF side = "sell" THEN j.price < k.price ELSE j.price > k.price
    \/ j.price = k.price /\ j.orderId > k.orderId

\* priceOrderIdKeyAscComparator on asks, priceOrderIdKeyDescComparator on bids.
Before(side, j, k) ==
    \/ IF side = "sell" THEN j.price < k.price ELSE j.price > k.price
    \/ j.price = k.price /\ j.orderId < k.orderId

\* The first and the last key of the treemap.
IsHead(side, k) == k \in queue[side] /\ \A j \in queue[side] : ~ Before(side, j, k)
IsTail(side, k) == k \in queue[side] /\ \A j \in queue[side] : ~ Before(side, k, j)

KeyOf(o) == [price |-> o.price, orderId |-> o.id]

\* The map f with entry id removed.
Without(f, id) == [i \in DOMAIN f \ {id} |-> f[i]]

\* The map f with entry o.id set to o.
With(f, o) == [i \in DOMAIN f \cup {o.id} |-> IF i = o.id THEN o ELSE f[i]]

\* depth.add
add(side, o) ==
    /\ orders' = [orders EXCEPT ![side] = With(@, o)]
    /\ queue' = [queue EXCEPT ![side] = @ \cup {KeyOf(o)}]

\* Faulty: leaves the key of a finished order in the treemap.
decrSizeKeepKey(side, o, size) ==
    IF o.size = size
    THEN orders' = [orders EXCEPT ![side] = Without(@, o.id)] /\ UNCHANGED queue
    ELSE /\ orders' = [orders EXCEPT ![side] = With(@, [o EXCEPT !.size = @ - size])]
         /\ UNCHANGED queue

\* depth.decrSize of an order o on the book by at most its size: an order
\* whose size reaches zero leaves the map and the treemap.
decrSize(side, o, size) ==
    IF o.size = size
    THEN /\ orders' = [orders EXCEPT ![side] = Without(@, o.id)]
         /\ queue' = [queue EXCEPT ![side] = @ \ {KeyOf(o)}]
    ELSE /\ orders' = [orders EXCEPT ![side] = With(@, [o EXCEPT !.size = @ - size])]
         /\ UNCHANGED queue

newMatchLog(seq, trade, t, m, size) ==
    [type |-> "match", seq |-> seq, tradeSeq |-> trade, taker |-> t.id, maker |-> m.id,
     side |-> m.side, price |-> m.price, size |-> size]

newOpenLog(seq, o) ==
    [type |-> "open", seq |-> seq, id |-> o.id, side |-> o.side, price |-> o.price,
     remaining |-> o.size]

newDoneLog(seq, o, remaining, reason) ==
    [type |-> "done", seq |-> seq, id |-> o.id, side |-> o.side, price |-> o.price,
     remaining |-> remaining, reason |-> reason]

\* An order's Done log: its history.
RecordDone(id, remaining) ==
    /\ closed' = [closed EXCEPT ![id] = @ + 1]
    /\ unfilled' = [unfilled EXCEPT ![id] = @ + remaining]

(***************************************************************************)
(* Prices and sizes of a match.                                            *)
(***************************************************************************)

prepareTakerOrder(o) ==
    IF o.type = "market"
    THEN [o EXCEPT !.price = IF o.side = "buy" THEN MaxPrice ELSE 0]
    ELSE o

\* Faulty: an order at exactly the maker's price does not match.
pricesCrossStrict(side, takerPrice, makerPrice) ==
    IF side = "buy" THEN takerPrice > makerPrice ELSE takerPrice < makerPrice

pricesCross(side, takerPrice, makerPrice) ==
    IF side = "buy" THEN takerPrice >= makerPrice ELSE takerPrice <= makerPrice

Smaller(a, b) == IF a <= b THEN a ELSE b

ByFunds(o) == o.type = "market" /\ o.side = "buy"

\* Faulty: trades all the taker asks for.
TradeSizeUncapped(t, m) == IF ByFunds(t) THEN t.funds \div m.price ELSE t.size

\* calcTradeSize: the size a taker and a maker trade, zero when the taker is
\* used up; a market buy trades what its funds pay for, truncated to BaseScale.
TradeSize(t, m) ==
    IF ByFunds(t) THEN Smaller(t.funds \div m.price, m.size) ELSE Smaller(t.size, m.size)

\* Faulty: a market buy pays one unit of funds per unit of size.
AfterTradeUnpaid(t, m, size) ==
    IF ByFunds(t) THEN [t EXCEPT !.funds = @ - size]
                  ELSE [t EXCEPT !.size = @ - size]

\* calcTradeSize's adjustment of the taker.
AfterTrade(t, m, size) ==
    IF ByFunds(t) THEN [t EXCEPT !.funds = @ - size * m.price]
                  ELSE [t EXCEPT !.size = @ - size]

\* Faulty: looks at the last key for a buy too.
IsOrderWillNotMatchTail(o) ==
    LET t == prepareTakerOrder(o)
        opp == Opposite(o.side)
    IN  \A k \in queue[opp] :
            IsTail(opp, k) => ~ pricesCross(o.side, t.price, orders[opp][k.orderId].price)

\* IsOrderWillNotMatch looks at the first ask for a buy, but at the last
\* key of the bids, the lowest bid, for a sell (queue.Max()).
IsOrderWillNotMatch(o) ==
    LET t == prepareTakerOrder(o)
        opp == Opposite(o.side)
    IN  \A k \in queue[opp] :
            (IF o.side = "buy" THEN IsHead(opp, k) ELSE IsTail(opp, k))
                => ~ pricesCross(o.side, t.price, orders[opp][k.orderId].price)

\* The size of makers K, keys of a side's treemap.
SizeOf(side, K) ==
    SumFunctionOnSet([k \in queue[side] |-> orders[side][k.orderId].size], K)

\* The makers a taker's price reaches.
Crossing(side, price) == {k \in queue[Opposite(side)] : pricesCross(side, price, k.price)}

\* Faulty: counts makers the taker's price does not reach.
IsOrderWillFullMatchAnyPrice(o) ==
    o.type = "limit" => SizeOf(Opposite(o.side), queue[Opposite(o.side)]) >= o.size

\* IsOrderWillFullMatch: the dry run of ApplyOrder's loop leaves a limit
\* order no size just when the crossing makers hold as much as it asks
\* for.  Whatever the dry run leaves a market order, the answer is TRUE.
IsOrderWillFullMatch(o) ==
    o.type = "limit" => SizeOf(Opposite(o.side), Crossing(o.side, o.price)) >= o.size

(***************************************************************************)
(* Messages.                                                               *)
(***************************************************************************)

\* A message that carries order o arrives: the first one for its id, or one
\* more (a redelivery, a cancel, an order its cancel overtook).
Deliver(o) ==
    /\ pc = "idle"
    /\ messages < MaxMessages
    /\ o.id \in DOMAIN submitted => submitted[o.id] = o
    /\ submitted' = With(submitted, o)
    /\ messages' = messages + 1

PutId(id) == windows' = [windows EXCEPT ![Shard(id)] = Put(@, id)]

FirstNew(o) == o.id \notin applied \cup nullified \cup dropped

\* Faulty: reads the remaining size after decrSize has taken it.
CancelOrderLate(o, sofar) ==
    /\ PutId(o.id)
    /\ \/ /\ ~ OnBook(o.side, o.id)
          /\ logs' = sofar
          /\ UNCHANGED <<orders, queue, logSeq, doneVars>>
       \/ /\ OnBook(o.side, o.id)
          /\ LET b == orders[o.side][o.id]
             IN  /\ decrSize(o.side, b, b.size)
                 /\ logs' = Append(sofar, newDoneLog(logSeq + 1, b, 0, "cancelled"))
                 /\ RecordDone(o.id, 0)
          /\ logSeq' = logSeq + 1

\* CancelOrder(order): take what is left of the order off the book.  sofar
\* are the logs the message has produced already.
CancelOrder(o, sofar) ==
    /\ PutId(o.id)
    /\ \/ /\ ~ OnBook(o.side, o.id)
          /\ logs' = sofar
          /\ UNCHANGED <<orders, queue, logSeq, doneVars>>
       \/ /\ OnBook(o.side, o.id)
          /\ LET b == orders[o.side][o.id]
             IN  /\ decrSize(o.side, b, b.size)
                 /\ logs' = Append(sofar, newDoneLog(logSeq + 1, b, b.size, "cancelled"))
                 /\ RecordDone(o.id, b.size)
          /\ logSeq' = logSeq + 1

ReceiveCancel(o) ==
    /\ Deliver(o)
    /\ CancelOrder(o, << >>)
    /\ cancelled' = cancelled \cup {o.id}
    /\ UNCHANGED <<tradeSeq, pc, taker, fillVars, applied, nullified, dropped>>

\* Faulty: applies the order whatever the window says.
StartApplyUnchecked(o) ==
    /\ PutId(o.id)
    /\ pc' = "match" /\ taker' = prepareTakerOrder(o)
    /\ applied' = applied \cup {o.id}
    /\ UNCHANGED dropped

\* The check of the window at the head of ApplyOrder, then on to the loop; an
\* order it turns away produces no log.  IOC's CancelOrder follows either way.
StartApply(o) ==
    /\ PutId(o.id)
    /\ \/ /\ Accepts(windows[Shard(o.id)], o.id)
          /\ pc' = "match" /\ taker' = prepareTakerOrder(o)
          /\ applied' = applied \cup {o.id}
          /\ UNCHANGED dropped
       \/ /\ ~ Accepts(windows[Shard(o.id)], o.id)
          /\ IF o.tif = "IOC" THEN pc' = "rest" /\ taker' = o
                              ELSE UNCHANGED <<pc, taker>>
          /\ dropped' = IF FirstNew(o) THEN dropped \cup {o.id} ELSE dropped
          /\ UNCHANGED applied

\* runApplier's choice between ApplyOrder and NullifyOrder.
Applies(o) ==
    \/ o.tif \in {"IOC", "GTC"}
    \/ o.tif = "GTX" /\ IsOrderWillNotMatch(o)
    \/ o.tif = "FOK" /\ IsOrderWillFullMatch(o)

ReceiveApply(o) ==
    /\ Deliver(o)
    /\ Applies(o)
    /\ StartApply(o)
    /\ logs' = << >>
    /\ UNCHANGED <<orders, queue, tradeSeq, logSeq, fillVars, doneVars, nullified, cancelled>>

\* NullifyOrder: a Done log, whatever the window says of the id.
ReceiveNullify(o) ==
    /\ Deliver(o)
    /\ o.tif \in {"GTX", "FOK"} /\ ~ Applies(o)
    /\ PutId(o.id)
    /\ logs' = <<newDoneLog(logSeq + 1, o, o.size, "cancelled")>>
    /\ logSeq' = logSeq + 1
    /\ RecordDone(o.id, o.size)
    /\ nullified' = nullified \cup {o.id}
    /\ UNCHANGED <<orders, queue, tradeSeq, pc, taker, fillVars, applied, cancelled, dropped>>

\* A time in force the dispatch does not know: no branch is taken.
ReceiveUnknown(o) ==
    /\ Deliver(o)
    /\ o.tif = "other"
    /\ logs' = << >>
    /\ UNCHANGED <<orders, queue, tradeSeq, logSeq, windows, pc, taker,
                    fillVars, doneVars, tagVars>>

(***************************************************************************)
(* The loop of ApplyOrder.  A maker that survives its turn leaves the      *)
(* taker without size, or with funds that pay for nothing at its price or  *)
(* a worse one; so the iterator's next maker can be taken to be the head   *)
(* of the queue.                                                           *)
(***************************************************************************)

Matches(k) ==
    LET opp == Opposite(taker.side)
        m == orders[opp][k.orderId]
    IN  /\ IsHead(opp, k)
        /\ pricesCross(taker.side, taker.price, m.price)
        /\ TradeSize(taker, m) > 0

\* What the two orders of a trade gain: their history.
RecordMatch(t, m, size) ==
    /\ filled' = [i \in Ids |-> filled[i] + IF i \in {t.id, m.id} THEN size ELSE 0]
    /\ spent' = [spent EXCEPT ![IF t.side = "buy" THEN t.id ELSE m.id] = @ + size * m.price]
    /\ took' = took \cup {t.id}

MatchMaker(k) ==
    /\ pc = "match"
    /\ Matches(k)
    /\ LET opp == Opposite(taker.side)
           m == orders[opp][k.orderId]
           size == TradeSize(taker, m)
           matchLog == newMatchLog(logSeq + 1, tradeSeq + 1, taker, m, size)
       IN  /\ taker' = AfterTrade(taker, m, size)
           /\ decrSize(opp, m, size)
           /\ tradeSeq' = tradeSeq + 1
           /\ IF m.size = size
              THEN /\ logSeq' = logSeq + 2
                   /\ logs' = logs \o <<matchLog, newDoneLog(logSeq + 2, m, 0, "filled")>>
                   /\ RecordDone(m.id, 0)
              ELSE /\ logSeq' = logSeq + 1
                   /\ logs' = Append(logs, matchLog)
                   /\ UNCHANGED doneVars
           /\ RecordMatch(taker, m, size)
    /\ UNCHANGED <<windows, pc, envVars, tagVars>>

\* After the loop: IOC's handler goes on to cancel the rest, others return.
EndApply == IF taker.tif = "IOC" THEN pc' = "rest" /\ UNCHANGED taker
                                 ELSE pc' = "idle" /\ taker' = NoTaker

LoopOver == pc = "match" /\ \A k \in queue[Opposite(taker.side)] : ~ Matches(k)

\* A limit order with size left goes on the book.
Rest ==
    /\ LoopOver
    /\ taker.type = "limit" /\ taker.size > 0
    /\ add(taker.side, taker)
    /\ logSeq' = logSeq + 1
    /\ logs' = Append(logs, newOpenLog(logSeq + 1, taker))
    /\ EndApply
    /\ UNCHANGED <<windows, tradeSeq, envVars, fillVars, doneVars, tagVars>>

\* Any other taker is done: filled, or a market order with something left.
Finish ==
    /\ LoopOver
    /\ ~ (taker.type = "limit" /\ taker.size > 0)
    /\ LET cut == taker.type = "market" /\ IF taker.side = "sell" THEN taker.size > 0
                                                                 ELSE taker.funds > 0
           done == IF taker.type = "market" THEN [taker EXCEPT !.price = 0] ELSE taker
       IN  logs' = Append(logs, newDoneLog(logSeq + 1, done, 0,
                                           IF cut THEN "cancelled" ELSE "filled"))
    /\ logSeq' = logSeq + 1
    /\ RecordDone(taker.id, 0)
    /\ EndApply
    /\ UNCHANGED <<orders, queue, windows, tradeSeq, envVars, fillVars, tagVars>>

\* Faulty: an IOC order's rest stays on the book.
CancelRestSkipped ==
    /\ pc = "rest"
    /\ pc' = "idle" /\ taker' = NoTaker
    /\ UNCHANGED <<bookVars, windows, doneVars, envVars, fillVars, tagVars>>

\* IOC: cancel the rest size (engine.go:123-127).
CancelRest ==
    /\ pc = "rest"
    /\ CancelOrder(taker, logs)
    /\ pc' = "idle" /\ taker' = NoTaker
    /\ UNCHANGED <<tradeSeq, envVars, fillVars, tagVars>>

Receive(o) == ReceiveCancel(o) \/ ReceiveApply(o) \/ ReceiveNullify(o) \/ ReceiveUnknown(o)

Match == \E k \in queue[Opposite(taker.side)] : MatchMaker(k)

Next ==
    \/ \E o \in Orders : Receive(o)
    \/ pc = "match" /\ Match
    \/ Rest
    \/ Finish
    \/ CancelRest

Spec == Init /\ [][Next]_vars
-----------------------------------------------------------------------------
(* Properties.                                                             *)

\* The maps of orders and the treemaps that order them never disagree
\* (depth.add, depth.decrSize): a key without its order would make the next
\* match dereference nil.
QueueMirrorsOrders ==
    \A s \in Sides : queue[s] = {KeyOf(orders[s][i]) : i \in DOMAIN orders[s]}

\* The book is never crossed: ApplyOrder rests an order only once nothing on
\* the other side matches it, whatever cancels, repeats and times in force
\* came before, and also between the trades of one taker.
BookNotCrossed ==
    \A b \in queue["buy"], a \in queue["sell"] : b.price < a.price

\* The order is being matched, or rests on the book.
InHand(id) ==
    \/ pc = "match" /\ taker.id = id
    \/ OnBook(submitted[id].side, id)

Working(id) ==
    IF pc = "match" /\ taker.id = id THEN taker.size
    ELSE IF OnBook(submitted[id].side, id) THEN orders[submitted[id].side][id].size
    ELSE 0

\* No size is created or lost: what a limit order's Match logs traded, what
\* its Done log returned and what is still working add up to its size.
\* Orders that NullifyOrder answered are apart: it writes a Done log for
\* every message, a repeated one too.
SizeConserved ==
    \A id \in applied \ nullified :
        submitted[id].type = "limit" =>
            filled[id] + unfilled[id] + Working(id) = submitted[id].size

\* Every order that ApplyOrder took has exactly one end: it is in hand and
\* has no Done log, or it is gone and has one, under repeated messages,
\* cancels at any time and IOC's cancel of the rest.  A Done log is thus the
\* last word on an order, on which ExecuteFill settles it for good.
EndsOnce ==
    \A id \in applied \ nullified : closed[id] = IF InHand(id) THEN 0 ELSE 1

\* The hold PlaceOrder took covers every trade of the order: a buy's funds
\* pay for its matches, a sell's size covers them.
HoldCoversFills ==
    \A id \in DOMAIN submitted :
        IF submitted[id].side = "buy" THEN spent[id] <= submitted[id].funds
                                      ELSE filled[id] <= submitted[id].size

\* A maker trades only when no order of its side with a better price, or
\* the same price and an older id, is on the book (order_book.go:355).
PriceTimePriority ==
    [][\A s \in Sides : \A i, j \in DOMAIN orders[s] :
            i # j /\ filled'[j] > filled[j]
            => \/ (IF s = "sell" THEN orders[s][j].price < orders[s][i].price
                                 ELSE orders[s][j].price > orders[s][i].price)
               \/ orders[s][j].price = orders[s][i].price /\ j < i]_vars

\* Once its message is handled, a FOK limit order has traded in full or was
\* never applied, and nothing of an IOC order rests; a GTX buy never takes.
\* The dry runs of IsOrderWillFullMatch and IsOrderWillNotMatch agree with
\* the loop of ApplyOrder.  (For a market order the first dry run's answer
\* is always yes, whatever size it left; for GTX sells see GtxNeverTakes.)
TimeInForceKept ==
    /\ \A id \in took : ~ (submitted[id].tif = "GTX" /\ submitted[id].side = "buy")
    /\ pc = "idle" =>
        /\ \A id \in applied : submitted[id].tif = "FOK" /\ submitted[id].type = "limit"
                               => filled[id] = submitted[id].size
        /\ \A s \in Sides : \A id \in DOMAIN orders[s] : orders[s][id].tif # "IOC"

\* The window turns an order's first message away only when a cancel came
\* first or an id of the shard ran ahead by a window's length.
DropsExplained ==
    \A id \in dropped :
        \/ id \in cancelled
        \/ \E j \in DOMAIN submitted : Shard(j) = Shard(id) /\ j >= id + Cap
-----------------------------------------------------------------------------
(* The orders as the logs tell of them.                                    *)

PhaseOf(id) ==
    CASE OnBook(submitted[id].side, id) -> "open"
      [] closed[id] > 0 /\ ~ OnBook(submitted[id].side, id) -> "done"
      [] OTHER -> IF id \in took THEN "taking" ELSE "sent"

RequestOf(id) ==
    IF id \in DOMAIN submitted THEN submitted[id] ELSE [price |-> 0, size |-> 0, funds |-> 0]

LiveOf(id) ==
    IF id \notin DOMAIN submitted THEN [size |-> 0, funds |-> 0, phase |-> "none"]
    ELSE LET o == submitted[id]
         IN  [size  |-> o.size - (IF o.size > 0 THEN filled[id] ELSE 0),
              funds |-> o.funds - spent[id],
              phase |-> PhaseOf(id)]

Matching == INSTANCE MatchingSpec
    WITH request <- [i \in Ids |-> RequestOf(i)], live <- [i \in Ids |-> LiveOf(i)],
         seq <- logSeq

\* The book keeps the promises that the workers behind its log rely on: sizes,
\* prices and funds of all matches, which orders rest, when each ends, and
\* seqs without gaps, for every mix of orders, cancels and repeats.
ImplementsMatching == Matching!Spec
-----------------------------------------------------------------------------
(* What the documents say, and the code does not do.                       *)

\* A GTX order never takes liquidity ("maker only"), a sell included.
GtxNeverTakes == \A id \in took : submitted[id].tif # "GTX"
=============================================================================
