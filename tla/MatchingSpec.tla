---------------------------- MODULE MatchingSpec ----------------------------
(***************************************************************************)
(* What the order book promises to the readers of its log: the orders as  *)
(* the logs tell of them, with what is left of each.  One order at a time *)
(* is taken, trades with open orders at their prices as much as the two   *)
(* have left, and then is opened or ends.  Module OrderBook implements    *)
(* this specification, and module Settlement uses it as its engine.       *)
(***************************************************************************)
EXTENDS Integers, FiniteSetsExt

CONSTANT Ids            \* order ids

VARIABLES
    request,            \* per id of an order: its side, price, size and funds
    live,               \* per id: size and funds left, and phase
    seq                 \* the seq of the last log

Phases == {"none", "sent", "taking", "open", "done"}

NoOrder == [size |-> 0, funds |-> 0, phase |-> "none"]

Init ==
    /\ live = [i \in Ids |-> NoOrder]
    /\ seq = 0

\* No other order is being taken.
CanTake(i) == \A j \in Ids \ {i} : live[j].phase # "taking"

IsTaken(i) == live[i].phase \in {"sent", "taking"} /\ CanTake(i)

\* An order without a price is a market order.
Crosses(t, price) ==
    LET r == request[t]
    IN  \/ r.price = 0
        \/ IF r.side = "buy" THEN price <= r.price ELSE price >= r.price

\* A market buy trades by its funds, any other order by its size.
CanTrade(i, price) == IF request[i].size > 0 THEN live[i].size ELSE live[i].funds \div price

TradeSize(t, m) == Min({CanTrade(t, request[m].price), CanTrade(m, request[m].price)})

UsedUp(o, i) == IF request[i].size > 0 THEN o.size = 0 ELSE o.funds = 0

AfterTrade(i, size, price) ==
    [live[i] EXCEPT !.size  = IF request[i].size > 0 THEN @ - size ELSE 0,
                    !.funds = IF request[i].side = "buy" THEN @ - size * price ELSE @]

\* What a match leaves of its maker.
MakerAfter(t, m) == AfterTrade(m, TradeSize(t, m), request[m].price)

CanMatch(t, m) ==
    /\ live[m].phase = "open"
    /\ IsTaken(t)
    /\ request[t].side # request[m].side
    /\ Crosses(t, request[m].price)
    /\ TradeSize(t, m) > 0
-----------------------------------------------------------------------------
\* An order reaches the book, or a cancel of it does.
Submit(i) ==
    /\ seq' = seq
    /\ live[i].phase = "none"
    /\ live' = [live EXCEPT ![i] =
                  [size |-> request'[i].size, funds |-> request'[i].funds, phase |-> "sent"]]

\* A Match log and, when the maker is used up, its Done log.
Match(t, m) ==
    /\ CanMatch(t, m)
    /\ LET maker == MakerAfter(t, m)
           used  == UsedUp(maker, m)
       IN  /\ seq' = seq + (IF used THEN 2 ELSE 1)
           /\ live' = [live EXCEPT
                 ![t] = [AfterTrade(t, TradeSize(t, m), request[m].price) EXCEPT !.phase = "taking"],
                 ![m] = [maker EXCEPT !.phase = IF used THEN "done" ELSE @]]

\* An Open log: a limit order with size left rests.
Open(i) ==
    /\ seq' = seq + 1
    /\ IsTaken(i)
    /\ request[i].price > 0 /\ live[i].size > 0
    /\ live' = [live EXCEPT ![i].phase = "open"]

\* A Done log: an order that is used up or may not rest, and a cancel.
Finish(i) ==
    /\ seq' = seq + 1
    /\ IsTaken(i) \/ (live[i].phase = "open" /\ CanTake(i))
    /\ live' = [live EXCEPT ![i].phase = "done"]

\* NullifyOrder: a Done log at once.
Refuse(i) ==
    /\ seq' = seq + 1
    /\ live[i].phase = "none"
    /\ live' = [live EXCEPT ![i] =
                  [size |-> request'[i].size, funds |-> request'[i].funds, phase |-> "done"]]

\* NullifyOrder again, for an order that has been applied or refused before:
\* a Done log that changes nothing.
RefuseAgain(i) ==
    /\ seq' = seq + 1
    /\ live[i].phase \in {"open", "done"}
    /\ live' = live

Next ==
    /\ \/ \E i \in Ids : Submit(i) \/ Open(i) \/ Finish(i) \/ Refuse(i) \/ RefuseAgain(i)
       \/ seq' > seq /\ \E t, m \in Ids : Match(t, m)
    /\ \A i \in Ids : live[i].phase # "none" => request'[i] = request[i]

Spec == Init /\ [][Next]_<<request, live, seq>>
=============================================================================
