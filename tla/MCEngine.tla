------------------------------ MODULE MCEngine ------------------------------
(***************************************************************************)
(* Small instances of module Engine: orders of one price, odd ids sell    *)
(* and even ids buy.                                                      *)
(***************************************************************************)
EXTENDS Engine

CONSTANT Cancelled      \* orders that cancel messages are sent for

MCTif == [id \in Ids |-> CASE id = 1 -> "GTC" [] id = 2 -> "FOK" [] id = 4 -> "IOC" [] OTHER -> "GTX"]

MCSize == [id \in Ids |-> 1]

Makers(orders, id) == {i \in DOMAIN orders : i % 2 # id % 2}

\* ApplyOrder's loop at one maker.
MatchOne(r, maker) ==
    LET n == Min({r.left, r.orders[maker]})
        filled == r.orders[maker] = n
    IN  IF n = 0 THEN r
        ELSE [left    |-> r.left - n,
              orders  |-> IF filled THEN [i \in DOMAIN r.orders \ {maker} |-> r.orders[i]]
                                    ELSE [r.orders EXCEPT ![maker] = @ - n],
              trades  |-> r.trades + 1,
              entries |-> r.entries \o <<[type |-> "match", id |-> maker, size |-> n]>>
                                    \o (IF filled THEN <<DoneEntry(maker, 0)>> ELSE << >>)]

MatchLimit(orders, id) ==
    LET r == FoldLeft(MatchOne,
                      [left |-> Size[id], orders |-> orders, trades |-> 0, entries |-> << >>],
                      SetToSortSeq(Makers(orders, id), <))
        rest == [type |-> "open", id |-> id, size |-> r.left]
    IN  [orders  |-> IF r.left = 0 THEN r.orders
                     ELSE [i \in DOMAIN r.orders \cup {id} |-> IF i = id THEN r.left ELSE r.orders[i]],
         trades  |-> r.trades,
         entries |-> Append(r.entries, IF r.left = 0 THEN DoneEntry(id, 0) ELSE rest)]

MCMatch == [id \in Ids |-> [orders \in OrderMaps |-> MatchLimit(orders, id)]]

MCWillNotMatch == [id \in Ids |-> {orders \in OrderMaps : Makers(orders, id) = {}}]

MCWillFullMatch ==
    [id \in Ids |-> {orders \in OrderMaps :
                        SumFunctionOnSet(orders, Makers(orders, id)) >= Size[id]}]

\* How many snapshots are requested, made or waiting.
InFlight ==
    Len(snapshotReqCh) + Len(snapshotApproveReqCh) + Len(snapshotCh)
        + Len(SelectSeq(<<requesting, taking, pending, approved>>, LAMBDA s : s # NoSnapshot))

MCTraffic == [id : Ids, cancel : {FALSE}] \cup [id : Cancelled, cancel : {TRUE}]

\* After an unsound start the properties claim nothing, so such states are
\* followed no further than a first message.  After a crash one snapshot at
\* a time is followed, after a second crash none; more than two at once only
\* before the first is stored, with a message that is repeated and another
\* one.
Explored ==
    /\ unsound => Len(orderTopic) <= 1 /\ crashes = 0
    /\ crashes > 0 => InFlight + crashes <= 2
    /\ InFlight > 2 => /\ InFlight <= 4 /\ redis = NoSnapshot
                       /\ Len(orderTopic) >= 2 => orderTopic[1] = orderTopic[2]
=============================================================================
