----------------------------- MODULE Settlement -----------------------------
(***************************************************************************)
(* From an order's hold to its settlement: service.PlaceOrder and         *)
(* HoldBalance, worker/fill_maker.go (matching logs to rows of g_fill),   *)
(* the fill executor (service.ExecuteFill: fills to order state and rows  *)
(* of g_bill) and the bill executor (service.ExecuteBill: bills to        *)
(* account balances), with crashes of the process that runs the workers.  *)
(*                                                                        *)
(* The matching engine is module MatchingSpec, which module OrderBook is   *)
(* shown to implement, without a Done log that NullifyOrder repeats.      *)
(* ExecuteFill locks the order row, ExecuteBill and HoldBalance lock the  *)
(* account row before they read (SELECT ... FOR UPDATE), so each          *)
(* transaction is one step.  A worker may run for any order or account at *)
(* any time: the notifications that trigger it can be lost, delayed and   *)
(* repeated, the inspectors find what is left every second.               *)
(***************************************************************************)
EXTENDS Integers, Sequences, SequencesExt, FiniteSetsExt

CONSTANTS
    Users,              \* user ids of clients
    House,              \* user id 0, whom fees go to
    Ids,                \* order ids
    Request,            \* per order id: what its client asks PlaceOrder for
    Funding,            \* per client and currency: the balance at the start
    Fee(_, _),          \* fee of an amount for liquidity "T" or "M"
    ChCap,              \* capacity of fillCh (1000)
    FlushMax,           \* rows the flusher inserts at once (1000)
    FillLimit,          \* fills ExecuteFill settles at once (100)
    BillLimit,          \* bills ExecuteBill settles at once (100)
    NoFill,             \* no fill
    MaxRepeats,         \* bound on how often the engine stores logs again
    MaxAgain,           \* bound on the logs it then stores again
    MaxCrashes          \* bound on crashes

Currencies == {"base", "quote"}
Clients    == Users \cup {House}

Requests == [user : Users, side : {"buy", "sell"}, price : Nat, size : Nat, funds : Nat]

\* What PlaceOrder makes of an order's price, size and funds: a limit order
\* has a price, a market buy funds alone, a market sell a size alone.
ValidRequest(r) ==
    \/ r.price > 0 /\ r.funds = r.size * r.price
    \/ r.price = 0 /\ r.side = "buy" /\ r.size = 0
    \/ r.price = 0 /\ r.side = "sell" /\ r.funds = 0

ASSUME SettlementAssumption ==
    /\ House \notin Users
    /\ IsFiniteSet(Users) /\ IsFiniteSet(Ids)
    /\ Request \in [Ids -> Requests] /\ \A i \in Ids : ValidRequest(Request[i])
    /\ Funding \in [Users -> [Currencies -> Nat]]
    /\ {ChCap, FlushMax, FillLimit, BillLimit} \subseteq Nat \ {0}
    /\ {MaxRepeats, MaxAgain, MaxCrashes} \subseteq Nat

\* PlaceOrder refuses fee ratios that are negative, or not less than one.  (No
\* trade with maker i is larger than the amounts here.)
ASSUME FeeAssumption ==
    \A i \in Ids : \A amount \in 0 .. Request[i].size * (Request[i].price + 1) :
        \A liquidity \in {"T", "M"} : Fee(liquidity, amount) \in 0 .. amount

VARIABLES
    account,            \* g_account: [available, hold] per client and currency
    order,              \* g_order: per id, its status and what has been settled
    fillRows,           \* g_fill, in the order of its id
    bills,              \* the unsettled rows of g_bill, in the order of its id
    logTopic,           \* Kafka: the matching log
    live                \* the engine's orders: size and funds left, and phase

VARIABLES
    readOffset, lastSeq,\* the fill maker's log reader
    makerFill,          \* OnMatchLog's second fill, still to be sent
    fillCh,
    batch, flushing,    \* flusher: fills, and whether it is inserting them
    repeats, crashes,   \* counters for the bounds
    halved              \* history: a crash lost the second fill of a match

tables == <<account, order, fillRows, bills>>
engine == <<logTopic, live>>
maker  == <<readOffset, lastSeq, makerFill, fillCh, batch, flushing>>
vars == <<tables, engine, maker, repeats, crashes, halved>>

\* The matching engine.
LastLogSeq == IF logTopic = << >> THEN 0 ELSE Last(logTopic).seq

Matching == INSTANCE MatchingSpec WITH request <- Request, seq <- LastLogSeq

Final == {"filled", "cancelled", "partial"}

OrderRow == [status : {"none", "new", "open"} \cup Final, executed : Int, filled : Int]
Bill == [user : Clients, currency : Currencies, available : Int, hold : Int]
LogEntry == [type : {"match"}, seq : Nat, taker : Ids, maker : Ids, size : Nat, price : Nat]
       \cup [type : {"open"}, seq : Nat, id : Ids]
       \cup [type : {"done"}, seq : Nat, id : Ids, reason : {"filled", "cancelled"}]
Fill == [id : Ids, seq : Nat, offset : Nat, done : BOOLEAN, size : Nat, price : Nat,
         liquidity : {"T", "M", ""}, reason : {"filled", "cancelled", ""}, settled : BOOLEAN]

ASSUME NoFillAssumption == NoFill \notin Fill

TypeOK ==
    /\ account \in [Clients -> [Currencies -> [available : Int, hold : Int]]]
    /\ order \in [Ids -> OrderRow]
    /\ fillRows \in Seq(Fill) /\ bills \in Seq(Bill)
    /\ logTopic \in Seq(LogEntry)
    /\ live \in [Ids -> [size : Nat, funds : Nat, phase : Matching!Phases]]
    /\ readOffset \in Nat /\ lastSeq \in Nat
    /\ makerFill \in Fill \cup {NoFill}
    /\ fillCh \in Seq(Fill) /\ Len(fillCh) <= ChCap
    /\ batch \in Seq(Fill) /\ Len(batch) <= FlushMax /\ flushing \in BOOLEAN
    /\ repeats \in 0 .. MaxRepeats /\ crashes \in 0 .. MaxCrashes /\ halved \in BOOLEAN

Zero == [available |-> 0, hold |-> 0]

Init ==
    /\ account = [u \in Clients |-> [c \in Currencies |->
                    IF u = House THEN Zero ELSE [available |-> Funding[u][c], hold |-> 0]]]
    /\ order = [i \in Ids |-> [status |-> "none", executed |-> 0, filled |-> 0]]
    /\ fillRows = << >> /\ bills = << >>
    /\ logTopic = << >>
    /\ live = [i \in Ids |-> [size |-> 0, funds |-> 0, phase |-> "none"]]
    /\ readOffset = 0 /\ lastSeq = 0 /\ makerFill = NoFill
    /\ fillCh = << >> /\ batch = << >> /\ flushing = FALSE
    /\ repeats = 0 /\ crashes = 0 /\ halved = FALSE
-----------------------------------------------------------------------------
(* Placing an order.                                                       *)

HoldCurrency(side) == IF side = "buy" THEN "quote" ELSE "base"
HoldSize(r) == IF r.side = "buy" THEN r.funds ELSE r.size

\* Faulty: holds without looking at what is available.
HoldBalanceUnchecked(user, currency, size) ==
    /\ size > 0
    /\ account' = [account EXCEPT ![user][currency] =
                     [available |-> @.available - size, hold |-> @.hold + size]]

\* HoldBalance: fails, and PlaceOrder with it, unless enough is available.
HoldBalance(user, currency, size) ==
    /\ size > 0
    /\ account[user][currency].available >= size
    /\ account' = [account EXCEPT ![user][currency] =
                     [available |-> @.available - size, hold |-> @.hold + size]]

\* PlaceOrder commits the hold and the order; the order then reaches the
\* engine (which may turn it away, or never see it: then nothing follows).
PlaceOrder(i) ==
    LET r == Request[i]
    IN  /\ order[i].status = "none"
        /\ HoldBalance(r.user, HoldCurrency(r.side), HoldSize(r))
        /\ order' = [order EXCEPT ![i].status = "new"]
        /\ UNCHANGED <<fillRows, bills, logTopic, maker, repeats, crashes, halved>>
        /\ Matching!Submit(i)
-----------------------------------------------------------------------------
(* The engine, as module MatchingSpec has it, and the logs it stores.      *)

NextSeq == LastLogSeq + 1

DoneEntry(i, seq, used) ==
    [type |-> "done", seq |-> seq, id |-> i, reason |-> IF used THEN "filled" ELSE "cancelled"]

MatchOrders(t, m) ==
    /\ Matching!CanMatch(t, m)
    /\ logTopic' = logTopic
          \o <<[type |-> "match", seq |-> NextSeq, taker |-> t, maker |-> m,
                size |-> Matching!TradeSize(t, m), price |-> Request[m].price]>>
          \o (IF Matching!UsedUp(Matching!MakerAfter(t, m), m)
              THEN <<DoneEntry(m, NextSeq + 1, TRUE)>> ELSE << >>)
    /\ Matching!Match(t, m)
    /\ UNCHANGED <<tables, maker, repeats, crashes, halved>>

OpenOrder(i) ==
    /\ logTopic' = Append(logTopic, [type |-> "open", seq |-> NextSeq, id |-> i])
    /\ Matching!Open(i)
    /\ UNCHANGED <<tables, maker, repeats, crashes, halved>>

\* The end of an order that is used up or may not rest, and a cancel.
FinishOrder(i) ==
    /\ logTopic' = Append(logTopic, DoneEntry(i, NextSeq, Matching!UsedUp(live[i], i)))
    /\ Matching!Finish(i)
    /\ UNCHANGED <<tables, maker, repeats, crashes, halved>>

\* A restarted engine stores its last logs again.
RepeatLogs ==
    /\ repeats < MaxRepeats
    /\ repeats' = repeats + 1
    /\ \E n \in DOMAIN logTopic :
          /\ Len(logTopic) - n < MaxAgain
          /\ logTopic' = logTopic \o SubSeq(logTopic, n, Len(logTopic))
    /\ UNCHANGED <<tables, live, maker, crashes, halved>>
-----------------------------------------------------------------------------
(* The fill maker.                                                         *)

MatchFill(log, offset, id, liquidity) ==
    [id |-> id, seq |-> log.seq, offset |-> offset, done |-> FALSE, size |-> log.size,
     price |-> log.price, liquidity |-> liquidity, reason |-> "", settled |-> FALSE]

DoneFill(log, offset) ==
    [id |-> log.id, seq |-> log.seq, offset |-> offset, done |-> TRUE, size |-> 0,
     price |-> 0, liquidity |-> "", reason |-> log.reason, settled |-> FALSE]

CanRead == makerFill = NoFill /\ readOffset < Len(logTopic)

Reading == logTopic[readOffset + 1]

\* The log that KafkaLogReader.Run passes on: one it has not seen, with no
\* gap after the last (a gap ends the process, at every new start again).
CanPass(type) ==
    /\ CanRead
    /\ Reading.type = type
    /\ Reading.seq > lastSeq
    /\ lastSeq > 0 => Reading.seq = lastSeq + 1

\* KafkaLogReader.Run discards a log whose seq it has seen.
ReadRepeated ==
    /\ CanRead
    /\ Reading.seq <= lastSeq
    /\ readOffset' = readOffset + 1
    /\ UNCHANGED <<tables, engine, lastSeq, makerFill, fillCh, batch, flushing,
                    repeats, crashes, halved>>

\* OnMatchLog: the taker's fill, then (SendMakerFill) the maker's.
ReadMatch ==
    /\ CanPass("match")
    /\ Len(fillCh) < ChCap
    /\ fillCh' = Append(fillCh, MatchFill(Reading, readOffset, Reading.taker, "T"))
    /\ makerFill' = MatchFill(Reading, readOffset, Reading.maker, "M")
    /\ readOffset' = readOffset + 1 /\ lastSeq' = Reading.seq
    /\ UNCHANGED <<tables, engine, batch, flushing, repeats, crashes, halved>>

SendMakerFill ==
    /\ makerFill # NoFill
    /\ Len(fillCh) < ChCap
    /\ fillCh' = Append(fillCh, makerFill)
    /\ makerFill' = NoFill
    /\ UNCHANGED <<tables, engine, readOffset, lastSeq, batch, flushing,
                    repeats, crashes, halved>>

\* OnOpenLog: UpdateOrderStatus(New, Open), at once and not through fillCh.
ReadOpen ==
    /\ CanPass("open")
    /\ order' = [order EXCEPT ![Reading.id].status = IF @ = "new" THEN "open" ELSE @]
    /\ readOffset' = readOffset + 1 /\ lastSeq' = Reading.seq
    /\ UNCHANGED <<account, fillRows, bills, engine, makerFill, fillCh, batch, flushing,
                    repeats, crashes, halved>>

\* OnDoneLog
ReadDone ==
    /\ CanPass("done")
    /\ Len(fillCh) < ChCap
    /\ fillCh' = Append(fillCh, DoneFill(Reading, readOffset))
    /\ readOffset' = readOffset + 1 /\ lastSeq' = Reading.seq
    /\ UNCHANGED <<tables, engine, makerFill, batch, flushing, repeats, crashes, halved>>

\* Faulty: takes whatever is waiting, without the limit.
TakeFillUnbounded ==
    /\ ~ flushing /\ fillCh # << >>
    /\ batch' = Append(batch, Head(fillCh))
    /\ fillCh' = Tail(fillCh)
    /\ flushing' = ~ (Len(fillCh) > 1)
    /\ UNCHANGED <<tables, engine, readOffset, lastSeq, makerFill, repeats, crashes, halved>>

\* flusher: take a fill, and go on taking while more are waiting.
TakeFill ==
    /\ ~ flushing /\ fillCh # << >>
    /\ batch' = Append(batch, Head(fillCh))
    /\ fillCh' = Tail(fillCh)
    /\ flushing' = ~ (Len(fillCh) > 1 /\ Len(batch) + 1 < FlushMax)
    /\ UNCHANGED <<tables, engine, readOffset, lastSeq, makerFill, repeats, crashes, halved>>

\* The rows of a table whose numbers are in S.
Keep(table, S) == FlattenSeq([n \in DOMAIN table |-> IF n \in S THEN <<table[n]>> ELSE << >>])

\* Faulty: a unique key without the order id.
AddFillsOnePerLog(rows) ==
    LET Present(f) == \E k \in DOMAIN fillRows : fillRows[k].seq = f.seq
    IN  fillRows' = fillRows \o Keep(rows, {n \in DOMAIN rows : ~ Present(rows[n])})

\* Faulty: INSERT without a unique key.
AddFillsAgain(rows) == fillRows' = fillRows \o rows

\* AddFills: INSERT IGNORE with the unique key (order_id, message_seq), of
\* rows before and of rows of this statement.
AddFills(rows) ==
    LET Same(f, g) == f.id = g.id /\ f.seq = g.seq
        Present(f, n) == \/ \E k \in DOMAIN fillRows : Same(fillRows[k], f)
                         \/ \E k \in 1 .. n - 1 : Same(rows[k], f)
    IN  fillRows' = fillRows \o Keep(rows, {n \in DOMAIN rows : ~ Present(rows[n], n)})

Flush ==
    /\ flushing
    /\ AddFills(batch)
    /\ batch' = << >> /\ flushing' = FALSE
    /\ UNCHANGED <<account, order, bills, engine, readOffset, lastSeq, makerFill, fillCh,
                    repeats, crashes, halved>>

\* The rows are in, the flusher sees an error and will insert them again.
FlushUnsure ==
    /\ flushing
    /\ AddFills(batch)
    /\ UNCHANGED <<account, order, bills, engine, maker, repeats, crashes, halved>>

\* The match whose first fill is the last row, while its second is not a row.
Halves ==
    /\ fillRows # << >>
    /\ Last(fillRows).liquidity = "T"

\* Faulty: reads on from the log after the next one.
ResumeOffsetSkips(offset) == IF offset > 0 THEN offset + 2 ELSE 0

\* NewFillMaker and Start: read on after the log of the last row.
ResumeOffset(offset) == IF offset > 0 THEN offset + 1 ELSE 0

\* The process that runs the workers dies and starts again.
Crash ==
    /\ crashes < MaxCrashes
    /\ crashes' = crashes + 1
    /\ IF fillRows = << >>
       THEN readOffset' = 0 /\ lastSeq' = 0
       ELSE readOffset' = ResumeOffset(Last(fillRows).offset) /\ lastSeq' = Last(fillRows).seq
    /\ makerFill' = NoFill /\ fillCh' = << >> /\ batch' = << >> /\ flushing' = FALSE
    /\ halved' = (halved \/ Halves)
    /\ UNCHANGED <<tables, engine, repeats>>
-----------------------------------------------------------------------------
(* The fill executor.                                                      *)

Unsettled(i) == {n \in DOMAIN fillRows : fillRows[n].id = i /\ ~ fillRows[n].settled}

\* The first k members of a set of row numbers.
FirstOf(S, k) == {n \in S : Cardinality({m \in S : m <= n}) <= k}

\* The rows ExecuteFill settles: those GetUnsettledFillsByOrderId returns,
\* up to the first Done.
ToSettle(i) ==
    LET rows == FirstOf(Unsettled(i), FillLimit)
    IN  {n \in rows : \A m \in rows : m < n => ~ fillRows[m].done}

Values(rows) == SumFunctionOnSet([n \in rows |-> fillRows[n].size * fillRows[n].price], rows)
Sizes(rows) == SumFunctionOnSet([n \in rows |-> fillRows[n].size], rows)

NewBill(user, currency, available, hold) ==
    [user |-> user, currency |-> currency, available |-> available, hold |-> hold]

PositiveOnly(bill) == IF bill.available > 0 THEN <<bill>> ELSE << >>

\* Faulty: a sell's fee is booked in the base currency.
TradeBillsFeeInBase(r, f) ==
    LET value == f.size * f.price
        got  == IF r.side = "buy" THEN f.size ELSE value
        cur  == IF r.side = "buy" THEN "base" ELSE "quote"
        paid == IF r.side = "buy" THEN value ELSE f.size
        fee  == Fee(f.liquidity, got)
    IN  <<NewBill(r.user, cur, got - fee, 0),
          NewBill(r.user, HoldCurrency(r.side), 0, -paid)>>
            \o PositiveOnly(NewBill(House, "base", fee, 0))

\* The bills of a match fill: what is received, what leaves the hold, the fee.
TradeBills(r, f) ==
    LET value == f.size * f.price
        got  == IF r.side = "buy" THEN f.size ELSE value
        cur  == IF r.side = "buy" THEN "base" ELSE "quote"
        paid == IF r.side = "buy" THEN value ELSE f.size
        fee  == Fee(f.liquidity, got)
    IN  <<NewBill(r.user, cur, got - fee, 0),
          NewBill(r.user, HoldCurrency(r.side), 0, -paid)>>
            \o PositiveOnly(NewBill(House, cur, fee, 0))

\* Faulty: returns what the order held altogether.
ReleaseBillAll(r, executed, filled) ==
    PositiveOnly(NewBill(r.user, HoldCurrency(r.side), HoldSize(r), -HoldSize(r)))

\* The bill of a Done fill: what the order held and did not use.
ReleaseBill(r, executed, filled) ==
    LET rest == IF r.side = "buy" THEN r.funds - executed ELSE r.size - filled
    IN  PositiveOnly(NewBill(r.user, HoldCurrency(r.side), rest, -rest))

\* The bills of an order's match fills, one after the other.
BillsOf(r, trades) ==
    FlattenSeq([n \in DOMAIN fillRows |->
                  IF n \in trades THEN TradeBills(r, fillRows[n]) ELSE << >>])

ExecuteFill(i) ==
    LET r == Request[i]
        rows == ToSettle(i)
        trades == {n \in rows : ~ fillRows[n].done}
        dones == rows \ trades
        executed == order[i].executed + Values(trades)
        filled == order[i].filled + Sizes(trades)
        status == IF dones = {} THEN order[i].status
                  ELSE LET d == fillRows[CHOOSE n \in dones : TRUE]
                       IN  IF d.reason = "filled" THEN "filled"
                           ELSE IF filled = 0 THEN "cancelled" ELSE "partial"
    IN  /\ order[i].status \notin {"none"} \cup Final
        /\ rows # {}
        /\ order' = [order EXCEPT ![i] = [status |-> status, executed |-> executed,
                                          filled |-> filled]]
        /\ bills' = bills \o BillsOf(r, trades)
                     \o (IF dones = {} THEN << >> ELSE ReleaseBill(r, executed, filled))
        /\ fillRows' = [n \in DOMAIN fillRows |->
                          IF n \in rows THEN [fillRows[n] EXCEPT !.settled = TRUE]
                                        ELSE fillRows[n]]
        /\ UNCHANGED <<account, engine, maker, repeats, crashes, halved>>

\* The bill executor: ExecuteBill adds up the first bills of an account.
ToPay(u, c) ==
    FirstOf({n \in DOMAIN bills : bills[n].user = u /\ bills[n].currency = c}, BillLimit)

Availables(rows) == SumFunctionOnSet([n \in rows |-> bills[n].available], rows)
Holds(rows) == SumFunctionOnSet([n \in rows |-> bills[n].hold], rows)

ExecuteBill(u, c) ==
    LET rows == ToPay(u, c)
    IN  /\ rows # {}
        /\ account' = [account EXCEPT ![u][c] =
                         [available |-> @.available + Availables(rows),
                          hold |-> @.hold + Holds(rows)]]
        /\ bills' = Keep(bills, DOMAIN bills \ rows)
        /\ UNCHANGED <<order, fillRows, engine, maker, repeats, crashes, halved>>
-----------------------------------------------------------------------------
Next ==
    \/ \E i \in Ids : PlaceOrder(i) \/ OpenOrder(i) \/ FinishOrder(i) \/ ExecuteFill(i)
    \/ \E t, m \in Ids : MatchOrders(t, m)
    \/ RepeatLogs
    \/ ReadRepeated \/ ReadMatch \/ SendMakerFill \/ ReadOpen \/ ReadDone
    \/ TakeFill \/ Flush \/ FlushUnsure
    \/ Crash
    \/ \E u \in Clients, c \in Currencies : ExecuteBill(u, c)

Spec == Init /\ [][Next]_vars

\* The goroutines of the fill maker go on, and the inspectors, which poll
\* the tables every second, make a worker run for what is unsettled.
WorkerStep ==
    \/ ReadRepeated \/ ReadMatch \/ SendMakerFill \/ ReadOpen \/ ReadDone
    \/ TakeFill \/ Flush
    \/ \E i \in Ids : ExecuteFill(i)
    \/ \E u \in Clients, c \in Currencies : ExecuteBill(u, c)

Fairness == WF_vars(WorkerStep)

FairSpec == Spec /\ Fairness
-----------------------------------------------------------------------------
(* Properties.                                                             *)

\* No balance goes below zero, in whatever order the executors take fills
\* and bills, however few at a time: HoldBalance's check is made against a
\* balance that lags behind the trades.
BalancesNonNegative ==
    \A u \in Clients, c \in Currencies : account[u][c].available >= 0 /\ account[u][c].hold >= 0

\* What an order still holds, by its row.
HeldBy(i) ==
    IF order[i].status \in {"none"} \cup Final THEN 0
    ELSE HoldSize(Request[i])
            - (IF Request[i].side = "buy" THEN order[i].executed ELSE order[i].filled)

\* An account's hold, once its unsettled bills are paid, is just what its
\* user's unfinished orders hold: no hold is released twice, and none is
\* left behind when an order ends.
HoldsExact ==
    \A u \in Users, c \in Currencies :
        LET mine == {i \in Ids : Request[i].user = u /\ HoldCurrency(Request[i].side) = c}
            due == {n \in DOMAIN bills : bills[n].user = u /\ bills[n].currency = c}
        IN  account[u][c].hold + Holds(due) = SumFunctionOnSet([i \in mine |-> HeldBy(i)], mine)

\* At every moment an order row says at most what the engine traded: no fill
\* is settled twice, when logs and inserts are repeated and logs are read
\* again after a crash.
NeverOverSettled ==
    \A i \in Ids : order[i].status # "none" =>
        /\ Request[i].size > 0 => order[i].filled <= Request[i].size - live[i].size
        /\ Request[i].side = "buy" => order[i].executed <= Request[i].funds - live[i].funds

\* Every log has been read and all that follows from it is settled.
Quiet ==
    /\ readOffset = Len(logTopic) /\ makerFill = NoFill
    /\ fillCh = << >> /\ batch = << >>
    /\ \A n \in DOMAIN fillRows : fillRows[n].settled
    /\ bills = << >>

Balance(c) ==
    SumFunctionOnSet([u \in Clients |-> account[u][c].available + account[u][c].hold], Clients)

Supply(c) == SumFunctionOnSet([u \in Users |-> Funding[u][c]], Users)

\* Once everything is settled the accounts hold what they held at the start,
\* fees included: each trade was settled exactly once on both sides, through
\* crashes, repeated logs and repeated inserts (unless a crash lost the
\* second fill of a match).
MoneyConserved == Quiet /\ ~ halved => \A c \in Currencies : Balance(c) = Supply(c)

\* Once everything is settled the order rows say what the engine did:
\* sizes, funds, and who is finished.
OrdersMatchEngine ==
    Quiet /\ ~ halved =>
        \A i \in Ids : order[i].status # "none" =>
            /\ Request[i].size > 0 => order[i].filled = Request[i].size - live[i].size
            /\ Request[i].side = "buy" => order[i].executed = Request[i].funds - live[i].funds
            /\ order[i].status \in Final <=> live[i].phase = "done"
            /\ order[i].status = "filled" => Matching!UsedUp(live[i], i)
            /\ order[i].status = "cancelled" <=>
                  live[i].phase = "done" /\ ~ Matching!UsedUp(live[i], i) /\ order[i].filled = 0

\* Whatever was logged is settled in the end.
EventuallySettled == <>[]Quiet
-----------------------------------------------------------------------------
\* The executors turn every trade log into account balances (README.md:34):
\* once all is settled, both sides of every match are.
BothSidesSettled == Quiet => \A c \in Currencies : Balance(c) = Supply(c)
=============================================================================
