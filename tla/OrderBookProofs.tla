--------------------------- MODULE OrderBookProofs ---------------------------
(***************************************************************************)
(* Proofs about module OrderBook, for every set of orders, every window   *)
(* capacity and every number of messages: types, the agreement of the     *)
(* maps with the treemaps, and that the book is never crossed; then what  *)
(* the logs say of an order over its whole life: that it ends once, that  *)
(* no size is created or lost, that its hold covers its trades, why an    *)
(* order is dropped, and that all of it implements module MatchingSpec.   *)
(***************************************************************************)
EXTENDS OrderBook, SumProofs, TLAPS

\* Orders on the book: filed under their id, with something left, at a
\* price PlaceOrder lets through.
RestingOrders ==
    \A s \in Sides : \A i \in DOMAIN orders[s] :
        /\ orders[s][i].id = i
        /\ orders[s][i].size > 0
        /\ orders[s][i].price > 0 /\ orders[s][i].price <= MaxPrice

\* No id is on both sides of the book.
OneSideOnly == DOMAIN orders["buy"] \cap DOMAIN orders["sell"] = {}

\* The taker in ApplyOrder's loop is not on the book.
TakerOffBook ==
    pc = "match" =>
        /\ \A s \in Sides : taker.id \notin DOMAIN orders[s]
        /\ taker.type = "limit" => taker.price > 0 /\ taker.price <= MaxPrice

\* The windows refuse every order that is on the book or being applied.
WindowsRefuse ==
    /\ \A s \in Sides : \A i \in DOMAIN orders[s] : ~ Accepts(windows[Shard(i)], i)
    /\ pc = "match" => ~ Accepts(windows[Shard(taker.id)], taker.id)

IndInv ==
    /\ TypeOK
    /\ RestingOrders
    /\ OneSideOnly
    /\ TakerOffBook
    /\ WindowsRefuse
    /\ QueueMirrorsOrders
    /\ BookNotCrossed
-----------------------------------------------------------------------------
(* Numbers.                                                                *)

\* Costs are naturals.
LEMMA ProductNat == ASSUME NEW a \in Nat, NEW b \in Nat PROVE a * b \in Nat
  BY Z3

\* What calcTradeSize lets a market buy trade, its funds pay for.
LEMMA DivisionPays ==
    ASSUME NEW f \in Nat, NEW p \in Nat, p > 0, NEW n \in Nat, n <= f \div p
    PROVE  n * p <= f
<1>1. (f \div p) \in Nat /\ (f \div p) * p <= f  BY Z3
<1>2. n * p <= (f \div p) * p  BY <1>1, Z3
<1>3. n * p \in Nat /\ (f \div p) * p \in Nat  BY <1>1, ProductNat
<1> QED  BY <1>1, <1>2, <1>3

\* Every shard has a window.
LEMMA ShardType == ASSUME NEW i \in Ids PROVE Shard(i) \in Shards
<1>1. i \in Nat /\ IdStep \in Nat /\ IdStep > 0 /\ SplitCount \in Nat /\ SplitCount > 0
  BY OrderBookAssumption
<1>2. i \div IdStep \in Nat  BY <1>1, Z3
<1>3. (i \div IdStep) % SplitCount \in 0 .. SplitCount - 1  BY <1>1, <1>2, Z3
<1> QED  BY <1>3 DEF Shard, Shards
-----------------------------------------------------------------------------
(* The de-duplication window as a value.                                   *)

\* put keeps refusing what it refused, and refuses what it was given.
LEMMA PutRefuses ==
    ASSUME NEW w \in Windows, NEW i \in Nat, NEW j \in Nat,
           ~ Accepts(w, j) \/ i = j
    PROVE  Put(w, i) \in Windows /\ ~ Accepts(Put(w, i), j)
<1>1. CASE ~ Accepts(w, i)
  BY <1>1 DEF Put
<1>2. CASE Accepts(w, i)
  <2> DEFINE lo == LoAfter(w, i)
  <2>1. lo \in Nat /\ lo >= w.lo
    BY <1>2, CapAssumption DEF LoAfter, Windows, Accepts
  <2>2. Put(w, i) = [lo |-> lo, seen |-> {n \in w.seen \cup {i} : n >= lo}]
    BY <1>2 DEF Put
  <2> HIDE DEF lo
  <2> QED  BY <2>1, <2>2 DEF Windows, Accepts
<1> QED  BY <1>1, <1>2
-----------------------------------------------------------------------------
(* The depths.                                                             *)

BookType ==
    /\ orders = [s \in Sides |-> orders[s]]
    /\ \A s \in Sides : IsIdMap(orders[s], BookOrder)
    /\ queue \in [Sides -> SUBSET Key]

\* The part of the invariant that speaks of the depths alone.
BookInv ==
    /\ BookType
    /\ RestingOrders
    /\ OneSideOnly
    /\ QueueMirrorsOrders
    /\ BookNotCrossed

\* A key of a treemap leads to its order (the lookup in ApplyOrder's loop).
LEMMA KeyFindsOrder ==
    ASSUME BookInv, NEW s \in Sides, NEW k \in queue[s]
    PROVE  /\ k.orderId \in DOMAIN orders[s]
           /\ orders[s][k.orderId] \in BookOrder
           /\ orders[s][k.orderId].id = k.orderId
           /\ orders[s][k.orderId].price = k.price
           /\ orders[s][k.orderId].size > 0
           /\ k.price > 0 /\ k.price <= MaxPrice
           /\ k \in Key /\ k = KeyOf(orders[s][k.orderId])
<1>1. PICK i \in DOMAIN orders[s] : k = KeyOf(orders[s][i])
  BY DEF BookInv, QueueMirrorsOrders
<1>2. orders[s][i].id = i  BY DEF BookInv, RestingOrders
<1>3. k.orderId = i /\ k.price = orders[s][i].price  BY <1>1, <1>2 DEF KeyOf
<1>4. orders[s][i] \in BookOrder  BY DEF BookInv, BookType, IsIdMap
<1>5. k \in Key  BY DEF BookInv, BookType
<1> QED  BY <1>1, <1>2, <1>3, <1>4, <1>5 DEF BookInv, RestingOrders

\* An order on the book has its key in the treemap.
LEMMA OrderHasKey ==
    ASSUME BookInv, NEW s \in Sides, NEW i \in DOMAIN orders[s]
    PROVE  /\ i \in Ids
           /\ orders[s][i] \in BookOrder
           /\ orders[s][i].id = i
           /\ orders[s][i].size > 0
           /\ KeyOf(orders[s][i]) \in queue[s]
  BY DEF BookInv, BookType, IsIdMap, RestingOrders, QueueMirrorsOrders

\* A depth that is not empty has a first key.
LEMMA HeadExists ==
    ASSUME NEW s \in Sides, queue[s] \in SUBSET Key, NEW q \in queue[s],
           \A k \in queue[s] : k.price <= MaxPrice
    PROVE  \E k \in queue[s] : IsHead(s, k)
<1>0. Ids \subseteq Nat /\ MaxPrice \in Nat  BY OrderBookAssumption
<1>1. \A k \in queue[s] : k.price \in Nat /\ k.orderId \in Nat  BY <1>0 DEF Key
<1> DEFINE rank(k) == IF s = "sell" THEN k.price ELSE MaxPrice - k.price
<1>2. \A k \in queue[s] : rank(k) \in Nat  BY <1>0, <1>1
<1>3. \A j, k \in queue[s] : Before(s, j, k) =>
         \/ rank(j) < rank(k)
         \/ rank(j) = rank(k) /\ j.orderId < k.orderId
  BY <1>0, <1>1 DEF Before
<1> HIDE DEF rank
<1>4. PICK r \in {rank(k) : k \in queue[s]} : \A n \in {rank(k) : k \in queue[s]} : r <= n
  <2> DEFINE S == {rank(k) : k \in queue[s]}
  <2>1. S \in SUBSET Nat /\ S # {}  BY <1>2
  <2> HIDE DEF S
  <2>2. \E m \in S : \A n \in S : m <= n  BY <2>1, NatMin
  <2> QED  BY <2>2 DEF S
<1> DEFINE T == {k.orderId : k \in {j \in queue[s] : rank(j) = r}}
<1>5. T \in SUBSET Nat /\ T # {}  BY <1>1, <1>4
<1>6. PICK i \in T : \A n \in T : i <= n
  <2> HIDE DEF T
  <2> QED  BY <1>5, NatMin
<1>7. PICK k \in queue[s] : rank(k) = r /\ k.orderId = i  BY <1>6
<1>8. ASSUME NEW j \in queue[s], Before(s, j, k) PROVE FALSE
  <2>1. rank(j) \in Nat /\ rank(k) \in Nat /\ rank(k) <= rank(j)  BY <1>2, <1>4, <1>7
  <2>2. rank(j) = r /\ j.orderId < k.orderId  BY <1>3, <1>7, <1>8, <2>1
  <2>3. j.orderId \in T  BY <2>2
  <2>4. i <= j.orderId /\ i \in Nat /\ j.orderId \in Nat  BY <1>1, <1>5, <1>6, <2>3
  <2> QED  BY <1>7, <2>2, <2>4
<1> QED  BY <1>7, <1>8 DEF IsHead
\* decrSize of an order on the book keeps the depths in order, and nothing
\* joins them.
LEMMA DecrKeeps ==
    ASSUME BookInv, NEW s \in Sides, NEW i \in DOMAIN orders[s],
           NEW n \in Nat, n > 0, n <= orders[s][i].size,
           decrSize(s, orders[s][i], n)
    PROVE  /\ BookInv'
           /\ \A t \in Sides : DOMAIN orders'[t] \subseteq DOMAIN orders[t]
<1> DEFINE o == orders[s][i]
<1>1. i \in Ids /\ o \in BookOrder /\ o.id = i /\ o.size > 0 /\ KeyOf(o) \in queue[s]
  BY OrderHasKey
<1>2. /\ orders = [t \in Sides |-> orders[t]]
      /\ queue \in [Sides -> SUBSET Key]
      /\ \A t \in Sides : DOMAIN orders[t] \subseteq Ids
      /\ \A t \in Sides : \A j \in DOMAIN orders[t] : orders[t][j] \in BookOrder
      /\ \A t \in Sides : orders[t] = [j \in DOMAIN orders[t] |-> orders[t][j]]
  BY DEF BookInv, BookType, IsIdMap
<1> HIDE DEF o
<1>3. CASE o.size = n
  <2>1. /\ orders' = [orders EXCEPT ![s] = Without(orders[s], i)]
        /\ queue' = [queue EXCEPT ![s] = queue[s] \ {KeyOf(o)}]
    BY <1>1, <1>3 DEF decrSize, o
  <2>2. /\ DOMAIN orders'[s] = DOMAIN orders[s] \ {i}
        /\ \A j \in DOMAIN orders'[s] : orders'[s][j] = orders[s][j]
        /\ orders'[s] = [j \in DOMAIN orders'[s] |-> orders'[s][j]]
        /\ \A t \in Sides \ {s} : orders'[t] = orders[t]
        /\ orders' = [t \in Sides |-> orders'[t]]
    BY <1>2, <2>1 DEF Without
  <2>3. queue'[s] = queue[s] \ {KeyOf(o)} /\ \A t \in Sides \ {s} : queue'[t] = queue[t]
    BY <1>2, <2>1
  <2>4. BookType'
    <3>1. \A t \in Sides : DOMAIN orders'[t] \subseteq Ids  BY <1>2, <2>2
    <3>2. \A t \in Sides : \A j \in DOMAIN orders'[t] : orders'[t][j] \in BookOrder
      BY <1>2, <2>2
    <3>3. \A t \in Sides : orders'[t] = [j \in DOMAIN orders'[t] |-> orders'[t][j]]
      BY <1>2, <2>2
    <3>4. \A t \in Sides : IsIdMap(orders'[t], BookOrder)  BY <3>1, <3>2, <3>3 DEF IsIdMap
    <3>5. queue' \in [Sides -> SUBSET Key]  BY <1>2, <2>1
    <3> QED  BY <2>2, <3>4, <3>5 DEF BookType
  <2>5. RestingOrders'
    BY <2>2 DEF BookInv, RestingOrders
  <2>6. QueueMirrorsOrders'
    <3>1. queue'[s] = {KeyOf(orders'[s][j]) : j \in DOMAIN orders'[s]}
      <4>1. queue[s] = {KeyOf(orders[s][j]) : j \in DOMAIN orders[s]}
        BY DEF BookInv, QueueMirrorsOrders
      <4>2. \A j \in DOMAIN orders[s] : orders[s][j].id = j
        BY DEF BookInv, RestingOrders
      <4>3. \A j \in DOMAIN orders[s] : KeyOf(orders[s][j]) = KeyOf(o) <=> j = i
        BY <4>2, <1>1 DEF KeyOf, o
      <4> QED  BY <2>2, <2>3, <4>1, <4>3
    <3> QED  BY <2>2, <2>3, <3>1 DEF BookInv, QueueMirrorsOrders
  <2>7. BookNotCrossed'
    BY <2>3 DEF BookInv, BookNotCrossed, Sides
  <2>8. OneSideOnly'
    BY <2>2 DEF BookInv, OneSideOnly, Sides
  <2> QED  BY <2>2, <2>4, <2>5, <2>6, <2>7, <2>8 DEF BookInv
<1>4. CASE o.size # n
  <2> DEFINE u == [o EXCEPT !.size = o.size - n]
  <2>0. o.size \in Nat /\ n < o.size  BY <1>1, <1>4 DEF BookOrder, o
  <2>1. /\ u \in BookOrder /\ u.id = i /\ u.size > 0 /\ u.price = o.price
        /\ KeyOf(u) = KeyOf(o)
    BY <1>1, <2>0 DEF BookOrder, KeyOf
  <2>2. orders' = [orders EXCEPT ![s] = With(orders[s], u)] /\ queue' = queue
    BY <1>4 DEF decrSize, o
  <2> HIDE DEF u
  <2>3. /\ DOMAIN orders'[s] = DOMAIN orders[s]
        /\ orders'[s][i] = u
        /\ \A j \in DOMAIN orders'[s] \ {i} : orders'[s][j] = orders[s][j]
        /\ orders'[s] = [j \in DOMAIN orders'[s] |-> orders'[s][j]]
        /\ \A t \in Sides \ {s} : orders'[t] = orders[t]
        /\ orders' = [t \in Sides |-> orders'[t]]
    BY <1>2, <2>1, <2>2 DEF With
  <2>4. BookType'
    <3>1. \A t \in Sides : DOMAIN orders'[t] \subseteq Ids  BY <1>2, <2>3
    <3>2. \A t \in Sides : \A j \in DOMAIN orders'[t] : orders'[t][j] \in BookOrder
      BY <1>2, <2>1, <2>3
    <3>3. \A t \in Sides : orders'[t] = [j \in DOMAIN orders'[t] |-> orders'[t][j]]
      BY <1>2, <2>3
    <3>4. \A t \in Sides : IsIdMap(orders'[t], BookOrder)  BY <3>1, <3>2, <3>3 DEF IsIdMap
    <3> QED  BY <1>2, <2>2, <2>3, <3>4 DEF BookType
  <2>5. RestingOrders'
    BY <2>1, <2>3 DEF BookInv, RestingOrders, o
  <2>6. QueueMirrorsOrders'
    <3>1. queue'[s] = {KeyOf(orders'[s][j]) : j \in DOMAIN orders'[s]}
      <4>1. queue[s] = {KeyOf(orders[s][j]) : j \in DOMAIN orders[s]}
        BY DEF BookInv, QueueMirrorsOrders
      <4>2. \A j \in DOMAIN orders[s] : KeyOf(orders'[s][j]) = KeyOf(orders[s][j])
        BY <2>1, <2>3 DEF o
      <4> QED  BY <2>2, <2>3, <4>1, <4>2
    <3> QED  BY <2>2, <2>3, <3>1 DEF BookInv, QueueMirrorsOrders
  <2>7. BookNotCrossed'
    BY <2>2 DEF BookInv, BookNotCrossed
  <2>8. OneSideOnly'
    BY <2>3 DEF BookInv, OneSideOnly, Sides
  <2> QED  BY <2>3, <2>4, <2>5, <2>6, <2>7, <2>8 DEF BookInv
<1> QED  BY <1>3, <1>4
\* CancelOrder takes an order off the book or leaves the depths alone.
LEMMA CancelKeeps ==
    ASSUME BookInv, NEW o \in BookOrder, NEW sofar \in Seq(Log), CancelOrder(o, sofar),
           logSeq \in Nat, closed \in [Ids -> Nat], unfilled \in [Ids -> Nat]
    PROVE  /\ BookInv'
           /\ \A t \in Sides : DOMAIN orders'[t] \subseteq DOMAIN orders[t]
           /\ logSeq' \in Nat /\ logs' \in Seq(Log)
           /\ closed' \in [Ids -> Nat] /\ unfilled' \in [Ids -> Nat]
<1>0. o.side \in Sides /\ o.id \in Ids  BY DEF BookOrder
<1>1. CASE ~ OnBook(o.side, o.id)
  <2>1. UNCHANGED <<orders, queue, logSeq, closed, unfilled>> /\ logs' = sofar
    BY <1>1 DEF CancelOrder, doneVars
  <2>2. BookInv'
    BY <2>1 DEF BookInv, BookType, RestingOrders, OneSideOnly, QueueMirrorsOrders, BookNotCrossed
  <2> QED  BY <2>1, <2>2
<1>2. CASE OnBook(o.side, o.id)
  <2> DEFINE b == orders[o.side][o.id]
  <2>1. /\ decrSize(o.side, b, b.size)
        /\ logs' = Append(sofar, newDoneLog(logSeq + 1, b, b.size, "cancelled"))
        /\ RecordDone(o.id, b.size)
        /\ logSeq' = logSeq + 1
    BY <1>2 DEF CancelOrder
  <2>2. o.id \in DOMAIN orders[o.side]  BY <1>2 DEF OnBook
  <2>3. b \in BookOrder /\ b.size > 0  BY <1>0, <2>2, OrderHasKey
  <2>4. b.size \in Nat /\ b.size <= b.size  BY <2>3 DEF BookOrder
  <2>5. BookInv' /\ \A t \in Sides : DOMAIN orders'[t] \subseteq DOMAIN orders[t]
    BY <1>0, <2>1, <2>2, <2>3, <2>4, DecrKeeps
  <2> HIDE DEF b
  <2>6. newDoneLog(logSeq + 1, b, b.size, "cancelled") \in Log
    BY <2>3 DEF newDoneLog, Log, DoneLog, BookOrder
  <2>7. closed' \in [Ids -> Nat] /\ unfilled' \in [Ids -> Nat]
    BY <1>0, <2>1, <2>4 DEF RecordDone
  <2> QED  BY <2>1, <2>5, <2>6, <2>7
<1> QED  BY <1>1, <1>2
-----------------------------------------------------------------------------
(* The rest of the state, part by part.                                    *)

LogType == tradeSeq \in Nat /\ logSeq \in Nat /\ logs \in Seq(Log)

ControlType ==
    /\ pc \in {"idle", "match", "rest"}
    /\ taker \in BookOrder \cup {NoTaker}
    /\ pc = "idle" <=> taker = NoTaker

EnvType == IsIdMap(submitted, Orders) /\ messages \in 0 .. MaxMessages

DoneType == closed \in [Ids -> Nat] /\ unfilled \in [Ids -> Nat]

FillType == filled \in [Ids -> Nat] /\ spent \in [Ids -> Nat] /\ took \subseteq Ids

TagType ==
    applied \subseteq Ids /\ nullified \subseteq Ids /\ cancelled \subseteq Ids /\ dropped \subseteq Ids

\* The windows are windows, and refuse what they must.
WindowInv == windows \in [Shards -> Windows] /\ WindowsRefuse

\* The invariant is the conjunction of its parts.
LEMMA IndInvParts ==
    IndInv <=> /\ BookInv /\ WindowInv /\ TakerOffBook
               /\ LogType /\ ControlType /\ EnvType /\ DoneType /\ FillType /\ TagType
  BY DEF IndInv, BookInv, WindowInv, TypeOK, BookType, LogType, ControlType, EnvType,
         DoneType, FillType, TagType

\* prepareTakerOrder changes nothing but a market order's price.
LEMMA OrderType ==
    ASSUME NEW o \in Orders
    PROVE  /\ o \in BookOrder /\ o.id \in Ids /\ o.id \in Nat /\ o.side \in Sides
           /\ prepareTakerOrder(o) \in BookOrder
           /\ prepareTakerOrder(o).id = o.id /\ prepareTakerOrder(o).side = o.side
           /\ prepareTakerOrder(o).type = o.type
           /\ o.type = "limit" => /\ prepareTakerOrder(o) = o
                                  /\ o.price > 0 /\ o.price <= MaxPrice
<1>1. o \in BookOrder /\ ValidOrder(o) /\ MaxPrice \in Nat /\ Ids \subseteq Nat
  BY OrderBookAssumption
<1>2. o.id \in Ids /\ o.id \in Nat /\ o.side \in Sides  BY <1>1 DEF BookOrder
<1>3. CASE o.type = "market"
  BY <1>1, <1>2, <1>3 DEF prepareTakerOrder, BookOrder
<1>4. CASE o.type # "market"
  <2>1. o.type = "limit"  BY <1>1, <1>4 DEF BookOrder, Types
  <2>2. o.price > 0 /\ o.price <= MaxPrice  BY <1>1, <2>1 DEF ValidOrder
  <2> QED  BY <1>1, <1>2, <1>4, <2>1, <2>2 DEF prepareTakerOrder
<1> QED  BY <1>3, <1>4

\* Receiving a message keeps the environment's types.
LEMMA DeliverType ==
    ASSUME NEW o \in Orders, EnvType, Deliver(o) PROVE EnvType'
<1>1. o.id \in Ids  BY OrderType
<1>2. /\ submitted' = [i \in DOMAIN submitted \cup {o.id} |-> IF i = o.id THEN o ELSE submitted[i]]
      /\ messages' = messages + 1 /\ messages < MaxMessages
  BY DEF Deliver, With
<1>3. DOMAIN submitted \subseteq Ids /\ \A i \in DOMAIN submitted : submitted[i] \in Orders
  BY DEF EnvType, IsIdMap
<1>4. IsIdMap(submitted', Orders)  BY <1>1, <1>2, <1>3 DEF IsIdMap
<1>5. messages' \in 0 .. MaxMessages  BY <1>2, OrderBookAssumption DEF EnvType
<1> QED  BY <1>4, <1>5 DEF EnvType

\* putting an id keeps every refusal, and adds that id's.
LEMMA PutIdRefuses ==
    ASSUME windows \in [Shards -> Windows], NEW i \in Ids, PutId(i)
    PROVE  /\ windows' \in [Shards -> Windows]
           /\ \A j \in Ids : ~ Accepts(windows[Shard(j)], j) \/ j = i
                                => ~ Accepts(windows'[Shard(j)], j)
<1>0. Ids \subseteq Nat  BY OrderBookAssumption
<1>1. windows' = [windows EXCEPT ![Shard(i)] = Put(windows[Shard(i)], i)]  BY DEF PutId
<1>2. Shard(i) \in Shards /\ windows[Shard(i)] \in Windows  BY ShardType
<1>3. Put(windows[Shard(i)], i) \in Windows  BY <1>0, <1>2, PutRefuses
<1>4. windows' \in [Shards -> Windows]  BY <1>1, <1>2, <1>3
<1>5. ASSUME NEW j \in Ids, ~ Accepts(windows[Shard(j)], j) \/ j = i
      PROVE  ~ Accepts(windows'[Shard(j)], j)
  <2>1. Shard(j) \in Shards  BY ShardType
  <2>2. CASE Shard(j) = Shard(i)
    <3>1. ~ Accepts(windows[Shard(i)], j) \/ i = j  BY <1>5, <2>2
    <3>2. ~ Accepts(Put(windows[Shard(i)], i), j)  BY <1>0, <1>2, <3>1, PutRefuses
    <3> QED  BY <1>1, <1>2, <2>2, <3>2
  <2>3. CASE Shard(j) # Shard(i)
    <3>1. windows'[Shard(j)] = windows[Shard(j)]  BY <1>1, <2>1, <2>3
    <3>2. j # i  BY <2>3
    <3> QED  BY <1>5, <3>1, <3>2
  <2> QED  BY <2>2, <2>3
<1> QED  BY <1>4, <1>5
-----------------------------------------------------------------------------
(* The initial state and the actions.                                      *)

\* NewOrderBook establishes the invariant.
LEMMA InitIndInv == Init => IndInv
<1> SUFFICES ASSUME Init PROVE IndInv
  OBVIOUS
<1>1. BookInv
  <2>1. orders = [s \in Sides |-> << >>] /\ queue = [s \in Sides |-> {}]  BY DEF Init
  <2>2. \A s \in Sides : DOMAIN orders[s] = {} /\ queue[s] = {}  BY <2>1
  <2>3. \A s \in Sides : IsIdMap(orders[s], BookOrder)  BY <2>1 DEF IsIdMap
  <2>4. BookType  BY <2>1, <2>3 DEF BookType
  <2>5. RestingOrders  BY <2>2 DEF RestingOrders
  <2>6. QueueMirrorsOrders  BY <2>2 DEF QueueMirrorsOrders
  <2>7. BookNotCrossed  BY <2>2 DEF BookNotCrossed, Sides
  <2>8. OneSideOnly  BY <2>2 DEF OneSideOnly, Sides
  <2> QED  BY <2>4, <2>5, <2>6, <2>7, <2>8 DEF BookInv
<1>2. WindowInv
  <2>1. \A s \in Sides : DOMAIN orders[s] = {}  BY DEF Init
  <2>2. EmptyWindow \in Windows  BY DEF EmptyWindow, Windows
  <2> QED  BY <2>1, <2>2 DEF Init, WindowInv, WindowsRefuse
<1>3. TakerOffBook /\ ControlType  BY DEF Init, TakerOffBook, ControlType
<1>4. LogType  BY DEF Init, LogType
<1>5. EnvType
  <2>1. IsIdMap(submitted, Orders)  BY DEF Init, IsIdMap
  <2> QED  BY <2>1, OrderBookAssumption DEF Init, EnvType
<1>6. DoneType /\ FillType /\ TagType  BY DEF Init, DoneType, FillType, TagType
<1> QED  BY <1>1, <1>2, <1>3, <1>4, <1>5, <1>6, IndInvParts

\* Steps that put an id and at most shrink the depths keep the windows'
\* refusals, provided a new taker's id is the one put.
LEMMA WindowInvKeeps ==
    ASSUME BookInv, WindowInv, ControlType, NEW i \in Ids, PutId(i),
           \A t \in Sides : DOMAIN orders'[t] \subseteq DOMAIN orders[t],
           pc' = "match" => taker'.id = i
    PROVE  WindowInv'
<1>1. windows \in [Shards -> Windows]  BY DEF WindowInv
<1>2. /\ windows' \in [Shards -> Windows]
      /\ \A j \in Ids : ~ Accepts(windows[Shard(j)], j) \/ j = i
                           => ~ Accepts(windows'[Shard(j)], j)
  BY <1>1, PutIdRefuses
<1>3. \A t \in Sides : \A j \in DOMAIN orders'[t] : j \in Ids /\ ~ Accepts(windows[Shard(j)], j)
  BY DEF WindowInv, WindowsRefuse, BookInv, BookType, IsIdMap
<1>4. \A t \in Sides : \A j \in DOMAIN orders'[t] : ~ Accepts(windows'[Shard(j)], j)
  BY <1>2, <1>3
<1>5. pc' = "match" => ~ Accepts(windows'[Shard(taker'.id)], taker'.id)
  BY <1>2
<1> QED  BY <1>2, <1>4, <1>5 DEF WindowInv, WindowsRefuse

\* A cancel message (CancelOrder) keeps the invariant.
LEMMA ReceiveCancelIndInv ==
    ASSUME IndInv, NEW o \in Orders, ReceiveCancel(o) PROVE IndInv'
<1>1. /\ BookInv /\ WindowInv /\ TakerOffBook
      /\ LogType /\ ControlType /\ EnvType /\ DoneType /\ FillType /\ TagType
  BY IndInvParts
<1>2. o \in BookOrder /\ o.id \in Ids  BY OrderType
<1>3. /\ Deliver(o) /\ CancelOrder(o, << >>) /\ PutId(o.id)
      /\ pc = "idle" /\ pc' = "idle" /\ taker' = taker
      /\ UNCHANGED <<tradeSeq, fillVars, applied, nullified, dropped>>
      /\ cancelled' = cancelled \cup {o.id}
  BY DEF ReceiveCancel, CancelOrder, Deliver
<1>4. /\ BookInv'
      /\ \A t \in Sides : DOMAIN orders'[t] \subseteq DOMAIN orders[t]
      /\ logSeq' \in Nat /\ logs' \in Seq(Log)
      /\ closed' \in [Ids -> Nat] /\ unfilled' \in [Ids -> Nat]
  <2>1. logSeq \in Nat /\ closed \in [Ids -> Nat] /\ unfilled \in [Ids -> Nat]
    BY <1>1 DEF LogType, DoneType
  <2>2. << >> \in Seq(Log)  OBVIOUS
  <2> QED  BY <1>1, <1>2, <1>3, <2>1, <2>2, CancelKeeps
<1>5. WindowInv'  BY <1>1, <1>2, <1>3, <1>4, WindowInvKeeps
<1>6. TakerOffBook' /\ ControlType'  BY <1>1, <1>3 DEF TakerOffBook, ControlType
<1>7. LogType' /\ DoneType'  BY <1>1, <1>3, <1>4 DEF LogType, DoneType
<1>8. EnvType'  BY <1>1, <1>3, DeliverType
<1>9. FillType' /\ TagType'  BY <1>1, <1>2, <1>3 DEF FillType, TagType, fillVars
<1> QED  BY <1>4, <1>5, <1>6, <1>7, <1>8, <1>9, IndInvParts, PTL

\* A new order that ApplyOrder takes or its window drops keeps the invariant:
\* an order the window lets through is not on the book.
LEMMA ReceiveApplyIndInv ==
    ASSUME IndInv, NEW o \in Orders, ReceiveApply(o) PROVE IndInv'
<1>1. /\ BookInv /\ WindowInv /\ TakerOffBook
      /\ LogType /\ ControlType /\ EnvType /\ DoneType /\ FillType /\ TagType
  BY IndInvParts
<1>2. o \in BookOrder /\ o.id \in Ids /\ o.side \in Sides  BY OrderType
<1>3. /\ Deliver(o) /\ StartApply(o) /\ PutId(o.id)
      /\ pc = "idle" /\ logs' = << >>
      /\ UNCHANGED <<orders, queue, tradeSeq, logSeq, fillVars, doneVars, nullified, cancelled>>
  BY DEF ReceiveApply, StartApply, Deliver
<1>4. BookInv'
  BY <1>1, <1>3 DEF BookInv, BookType, RestingOrders, OneSideOnly, QueueMirrorsOrders, BookNotCrossed
<1>5. NoTaker \notin BookOrder  BY OrderBookAssumption
<1>6. /\ LogType' /\ DoneType' /\ FillType'
  BY <1>1, <1>3 DEF LogType, DoneType, FillType, doneVars, fillVars
<1>7. EnvType'  BY <1>1, <1>3, DeliverType
<1>8. CASE /\ Accepts(windows[Shard(o.id)], o.id)
           /\ pc' = "match" /\ taker' = prepareTakerOrder(o)
           /\ applied' = applied \cup {o.id} /\ UNCHANGED dropped
  <2>1. /\ taker' \in BookOrder /\ taker'.id = o.id /\ taker'.side = o.side
        /\ taker'.type = "limit" => taker'.price > 0 /\ taker'.price <= MaxPrice
    BY <1>8, OrderType
  <2>2. \A s \in Sides : o.id \notin DOMAIN orders[s]
    BY <1>1, <1>2, <1>8 DEF WindowInv, WindowsRefuse
  <2>3. TakerOffBook'  BY <1>3, <2>1, <2>2 DEF TakerOffBook
  <2>4. ControlType'  BY <1>5, <1>8, <2>1 DEF ControlType
  <2>5. WindowInv'  BY <1>1, <1>2, <1>3, <2>1, WindowInvKeeps
  <2>6. TagType'  BY <1>1, <1>2, <1>3, <1>8 DEF TagType
  <2> QED  BY <1>4, <1>6, <1>7, <2>3, <2>4, <2>5, <2>6, IndInvParts, PTL
<1>9. CASE /\ IF o.tif = "IOC" THEN pc' = "rest" /\ taker' = o
                               ELSE UNCHANGED <<pc, taker>>
           /\ dropped' = IF FirstNew(o) THEN dropped \cup {o.id} ELSE dropped
           /\ UNCHANGED applied
  <2>1. pc' # "match"  BY <1>3, <1>9
  <2>2. TakerOffBook'  BY <2>1 DEF TakerOffBook
  <2>3. ControlType'  BY <1>1, <1>2, <1>3, <1>5, <1>9 DEF ControlType
  <2>4. WindowInv'  BY <1>1, <1>2, <1>3, <2>1, WindowInvKeeps
  <2>5. TagType'  BY <1>1, <1>2, <1>3, <1>9 DEF TagType
  <2> QED  BY <1>4, <1>6, <1>7, <2>2, <2>3, <2>4, <2>5, IndInvParts, PTL
<1> QED  BY <1>3, <1>8, <1>9 DEF StartApply

\* NullifyOrder leaves the depths alone.
LEMMA ReceiveNullifyIndInv ==
    ASSUME IndInv, NEW o \in Orders, ReceiveNullify(o) PROVE IndInv'
<1>1. /\ BookInv /\ WindowInv /\ TakerOffBook
      /\ LogType /\ ControlType /\ EnvType /\ DoneType /\ FillType /\ TagType
  BY IndInvParts
<1>2. o \in BookOrder /\ o.id \in Ids /\ o.size \in Nat  BY OrderType DEF BookOrder
<1>3. /\ Deliver(o) /\ PutId(o.id) /\ RecordDone(o.id, o.size)
      /\ pc = "idle" /\ logSeq' = logSeq + 1
      /\ logs' = <<newDoneLog(logSeq + 1, o, o.size, "cancelled")>>
      /\ nullified' = nullified \cup {o.id}
      /\ UNCHANGED <<orders, queue, tradeSeq, pc, taker, fillVars, applied, cancelled, dropped>>
  BY DEF ReceiveNullify, Deliver
<1>4. BookInv'
  BY <1>1, <1>3 DEF BookInv, BookType, RestingOrders, OneSideOnly, QueueMirrorsOrders, BookNotCrossed
<1>5. LogType'
  <2>1. newDoneLog(logSeq + 1, o, o.size, "cancelled") \in Log
    BY <1>1, <1>2 DEF newDoneLog, Log, DoneLog, BookOrder, LogType
  <2> QED  BY <1>1, <1>3, <2>1 DEF LogType
<1>6. DoneType'  BY <1>1, <1>2, <1>3 DEF DoneType, RecordDone
<1>7. WindowInv'  BY <1>1, <1>2, <1>3, WindowInvKeeps
<1>8. TakerOffBook' /\ ControlType'  BY <1>1, <1>3 DEF TakerOffBook, ControlType
<1>9. EnvType'  BY <1>1, <1>3, DeliverType
<1>10. FillType' /\ TagType'  BY <1>1, <1>2, <1>3 DEF FillType, TagType, fillVars
<1> QED  BY <1>4, <1>5, <1>6, <1>7, <1>8, <1>9, <1>10, IndInvParts, PTL

\* A message the dispatch ignores keeps the invariant.
LEMMA ReceiveUnknownIndInv ==
    ASSUME IndInv, NEW o \in Orders, ReceiveUnknown(o) PROVE IndInv'
<1>1. /\ BookInv /\ WindowInv /\ TakerOffBook
      /\ LogType /\ ControlType /\ EnvType /\ DoneType /\ FillType /\ TagType
  BY IndInvParts
<1>2. /\ Deliver(o) /\ logs' = << >>
      /\ UNCHANGED <<orders, queue, tradeSeq, logSeq, windows, pc, taker,
                     fillVars, doneVars, tagVars>>
  BY DEF ReceiveUnknown
<1>3. BookInv'
  BY <1>1, <1>2 DEF BookInv, BookType, RestingOrders, OneSideOnly, QueueMirrorsOrders, BookNotCrossed
<1>4. WindowInv' /\ TakerOffBook' /\ ControlType'
  BY <1>1, <1>2 DEF WindowInv, WindowsRefuse, TakerOffBook, ControlType
<1>5. LogType' /\ DoneType' /\ FillType' /\ TagType'
  BY <1>1, <1>2 DEF LogType, DoneType, FillType, TagType, doneVars, fillVars, tagVars
<1>6. EnvType'  BY <1>1, <1>2, DeliverType
<1> QED  BY <1>3, <1>4, <1>5, <1>6, IndInvParts, PTL
\* calcTradeSize of two orders that match: positive, within the maker's size,
\* and the taker can pay it.
LEMMA TradeSizeOK ==
    ASSUME NEW t \in BookOrder, NEW m \in BookOrder, m.price > 0, TradeSize(t, m) > 0
    PROVE  /\ TradeSize(t, m) \in Nat /\ TradeSize(t, m) <= m.size
           /\ AfterTrade(t, m, TradeSize(t, m)) \in BookOrder
           /\ AfterTrade(t, m, TradeSize(t, m)).id = t.id
           /\ AfterTrade(t, m, TradeSize(t, m)).side = t.side
           /\ AfterTrade(t, m, TradeSize(t, m)).type = t.type
           /\ AfterTrade(t, m, TradeSize(t, m)).price = t.price
<1> DEFINE n == TradeSize(t, m)
<1>1. t.size \in Nat /\ t.funds \in Nat /\ m.size \in Nat /\ m.price \in Nat  BY DEF BookOrder
<1>2. CASE ByFunds(t)
  <2>1. t.funds \div m.price \in Nat  BY <1>1, Z3
  <2>2. n \in Nat /\ n <= m.size /\ n <= t.funds \div m.price
    BY <1>1, <1>2, <2>1 DEF TradeSize, Smaller
  <2> HIDE DEF n
  <2>3. n * m.price \in Nat /\ n * m.price <= t.funds
    BY <1>1, <2>2, DivisionPays, ProductNat
  <2>4. t.funds - n * m.price \in Nat  BY <1>1, <2>3
  <2>5. AfterTrade(t, m, n) = [t EXCEPT !.funds = t.funds - n * m.price]
    BY <1>2 DEF AfterTrade
  <2> QED  BY <2>2, <2>4, <2>5 DEF BookOrder, n
<1>3. CASE ~ ByFunds(t)
  <2>1. n \in Nat /\ n <= m.size /\ n <= t.size
    BY <1>1, <1>3 DEF TradeSize, Smaller
  <2> HIDE DEF n
  <2>2. t.size - n \in Nat  BY <1>1, <2>1
  <2>3. AfterTrade(t, m, n) = [t EXCEPT !.size = t.size - n]
    BY <1>3 DEF AfterTrade
  <2> QED  BY <2>1, <2>2, <2>3 DEF BookOrder, n
<1> QED  BY <1>2, <1>3

\* One iteration of ApplyOrder's loop keeps the invariant.
LEMMA MatchMakerIndInv ==
    ASSUME IndInv, NEW k \in queue[Opposite(taker.side)], MatchMaker(k) PROVE IndInv'
<1>1. /\ BookInv /\ WindowInv /\ TakerOffBook
      /\ LogType /\ ControlType /\ EnvType /\ DoneType /\ FillType /\ TagType
  BY IndInvParts
<1> DEFINE opp == Opposite(taker.side)
           m == orders[opp][k.orderId]
           size == TradeSize(taker, m)
           matchLog == newMatchLog(logSeq + 1, tradeSeq + 1, taker, m, size)
           doneLog == newDoneLog(logSeq + 2, m, 0, "filled")
<1>2. pc = "match" /\ taker \in BookOrder /\ taker.side \in Sides /\ opp \in Sides
  BY <1>1 DEF MatchMaker, ControlType, BookOrder, Opposite, Sides
<1>3. /\ size > 0 /\ taker' = AfterTrade(taker, m, size) /\ decrSize(opp, m, size)
      /\ tradeSeq' = tradeSeq + 1 /\ RecordMatch(taker, m, size)
      /\ UNCHANGED <<windows, pc, envVars, tagVars>>
      /\ \/ /\ logSeq' = logSeq + 2 /\ logs' = logs \o <<matchLog, doneLog>>
            /\ RecordDone(m.id, 0)
         \/ /\ logSeq' = logSeq + 1 /\ logs' = Append(logs, matchLog) /\ UNCHANGED doneVars
  BY DEF MatchMaker, Matches
<1>4. /\ k.orderId \in DOMAIN orders[opp] /\ m \in BookOrder /\ m.id = k.orderId
      /\ m.price > 0
  BY <1>1, <1>2, KeyFindsOrder
<1>5. /\ m.id \in Ids /\ m.price \in Nat /\ m.side \in Sides /\ taker.id \in Ids
  BY <1>2, <1>4 DEF BookOrder
<1> HIDE DEF m
<1>6. /\ size \in Nat /\ size <= m.size
      /\ taker' \in BookOrder /\ taker'.id = taker.id /\ taker'.side = taker.side
      /\ taker'.type = taker.type /\ taker'.price = taker.price
  BY <1>2, <1>3, <1>4, TradeSizeOK
<1> HIDE DEF size, opp
<1>7. BookInv' /\ \A t \in Sides : DOMAIN orders'[t] \subseteq DOMAIN orders[t]
  BY <1>1, <1>2, <1>3, <1>4, <1>6, DecrKeeps DEF m
<1>8. WindowInv'
  BY <1>1, <1>3, <1>6, <1>7 DEF WindowInv, WindowsRefuse
<1>9. TakerOffBook'
  BY <1>1, <1>2, <1>3, <1>6, <1>7 DEF TakerOffBook
<1>10. ControlType'
  BY <1>2, <1>3, <1>6, OrderBookAssumption DEF ControlType
<1>11. LogType'
  <2>1. logSeq \in Nat /\ tradeSeq \in Nat /\ logs \in Seq(Log)  BY <1>1 DEF LogType
  <2>2. matchLog \in Log  BY <1>5, <1>6, <2>1 DEF newMatchLog, Log, MatchLog
  <2>3. doneLog \in Log  BY <1>5, <2>1 DEF newDoneLog, Log, DoneLog
  <2> HIDE DEF matchLog, doneLog
  <2>4. <<matchLog, doneLog>> \in Seq(Log)  BY <2>2, <2>3
  <2>5. logs \o <<matchLog, doneLog>> \in Seq(Log)  BY <2>1, <2>4
  <2>6. Append(logs, matchLog) \in Seq(Log)  BY <2>1, <2>2
  <2>7. CASE logSeq' = logSeq + 2 /\ logs' = logs \o <<matchLog, doneLog>>
    BY <1>3, <2>1, <2>5, <2>7 DEF LogType
  <2>8. CASE logSeq' = logSeq + 1 /\ logs' = Append(logs, matchLog)
    BY <1>3, <2>1, <2>6, <2>8 DEF LogType
  <2> QED  BY <1>3, <2>7, <2>8
<1>12. EnvType'  BY <1>1, <1>3 DEF EnvType, envVars
<1>13. DoneType'
  <2>1. CASE RecordDone(m.id, 0)  BY <1>1, <1>5, <2>1 DEF DoneType, RecordDone
  <2>2. CASE UNCHANGED doneVars  BY <1>1, <2>2 DEF DoneType, doneVars
  <2> QED  BY <1>3, <2>1, <2>2
<1>14. FillType'
  <2>1. size * m.price \in Nat  BY <1>5, <1>6, ProductNat
  <2> DEFINE buyer == IF taker.side = "buy" THEN taker.id ELSE m.id
             cost == size * m.price
  <2>2. buyer \in Ids  BY <1>5
  <2>3. spent' = [spent EXCEPT ![buyer] = spent[buyer] + cost]  BY <1>3 DEF RecordMatch
  <2> HIDE DEF buyer, cost
  <2>4. spent' \in [Ids -> Nat]  BY <1>1, <2>1, <2>2, <2>3 DEF FillType, cost
  <2>5. filled' \in [Ids -> Nat]
    <3>1. filled' = [i \in Ids |-> filled[i] + IF i \in {taker.id, m.id} THEN size ELSE 0]
      BY <1>3 DEF RecordMatch
    <3>2. filled \in [Ids -> Nat]  BY <1>1 DEF FillType
    <3> QED  BY <1>6, <3>1, <3>2
  <2>6. took' \subseteq Ids  BY <1>1, <1>3, <1>5 DEF FillType, RecordMatch
  <2> QED  BY <2>4, <2>5, <2>6 DEF FillType
<1>15. TagType'  BY <1>1, <1>3 DEF TagType, tagVars
<1> QED  BY <1>7, <1>8, <1>9, <1>10, <1>11, <1>12, <1>13, <1>14, <1>15, IndInvParts, PTL

\* When the loop is over and the taker still has size, nothing on the other
\* side crosses its price.
LEMMA NothingCrosses ==
    ASSUME BookInv, taker \in BookOrder, LoopOver, taker.type = "limit", taker.size > 0,
           NEW k \in queue[Opposite(taker.side)]
    PROVE  ~ pricesCross(taker.side, taker.price, k.price)
<1> DEFINE opp == Opposite(taker.side)
<1>1. taker.side \in Sides /\ opp \in Sides /\ taker.price \in Nat /\ taker.size \in Nat
  BY DEF BookOrder, Opposite, Sides
<1>2. queue[opp] \in SUBSET Key  BY <1>1 DEF BookInv, BookType
<1>3. \A j \in queue[opp] : j.price <= MaxPrice  BY <1>1, KeyFindsOrder
<1>4. PICK h \in queue[opp] : IsHead(opp, h)
  <2>1. k \in queue[opp]  OBVIOUS
  <2> HIDE DEF opp
  <2> QED  BY <1>1, <1>2, <1>3, <2>1, HeadExists
<1>5. /\ orders[opp][h.orderId] \in BookOrder /\ orders[opp][h.orderId].size > 0
      /\ orders[opp][h.orderId].price = h.price /\ h \in Key
  BY <1>1, KeyFindsOrder
<1>6. ~ Matches(h)  BY DEF LoopOver
<1>7. TradeSize(taker, orders[opp][h.orderId]) > 0
  BY <1>1, <1>5 DEF TradeSize, ByFunds, Smaller, BookOrder
<1>8. ~ pricesCross(taker.side, taker.price, h.price)
  BY <1>4, <1>5, <1>6, <1>7 DEF Matches
<1>9. ~ Before(opp, k, h)  BY <1>4 DEF IsHead
<1>10. h.price \in Nat /\ k.price \in Nat  BY <1>2, <1>5 DEF Key
<1> QED  BY <1>1, <1>8, <1>9, <1>10 DEF pricesCross, Before, Opposite, Sides
\* EndApply leaves no taker in the loop.
LEMMA EndApplyControl ==
    ASSUME ControlType, pc = "match", EndApply
    PROVE  ControlType' /\ TakerOffBook' /\ pc' # "match"
  BY OrderBookAssumption DEF ControlType, EndApply, TakerOffBook

\* depth.add of a taker that nothing crosses keeps the depths in order.
LEMMA AddKeeps ==
    ASSUME BookInv, NEW o \in BookOrder, add(o.side, o),
           \A t \in Sides : o.id \notin DOMAIN orders[t], o.size > 0, o.price > 0, o.price <= MaxPrice,
           \A k \in queue[Opposite(o.side)] : ~ pricesCross(o.side, o.price, k.price)
    PROVE  /\ BookInv'
           /\ \A t \in Sides : DOMAIN orders'[t] \subseteq DOMAIN orders[t] \cup {o.id}
<1> DEFINE s == o.side
<1>1. s \in Sides /\ o.id \in Ids /\ o.price \in Nat  BY DEF BookOrder
<1>2. /\ orders = [t \in Sides |-> orders[t]]
      /\ queue \in [Sides -> SUBSET Key]
      /\ \A t \in Sides : DOMAIN orders[t] \subseteq Ids
      /\ \A t \in Sides : \A j \in DOMAIN orders[t] : orders[t][j] \in BookOrder
      /\ \A t \in Sides : orders[t] = [j \in DOMAIN orders[t] |-> orders[t][j]]
  BY DEF BookInv, BookType, IsIdMap
<1>3. /\ orders' = [orders EXCEPT ![s] = With(orders[s], o)]
      /\ queue' = [queue EXCEPT ![s] = queue[s] \cup {KeyOf(o)}]
  BY DEF add
<1>4. \A t \in Sides : o.id \notin DOMAIN orders[t]  OBVIOUS
<1>5. \A k \in queue[Opposite(s)] : ~ pricesCross(s, o.price, k.price)  OBVIOUS
<1> HIDE DEF s
<1>6. /\ DOMAIN orders'[s] = DOMAIN orders[s] \cup {o.id}
      /\ orders'[s][o.id] = o
      /\ \A j \in DOMAIN orders[s] : orders'[s][j] = orders[s][j]
      /\ orders'[s] = [j \in DOMAIN orders'[s] |-> orders'[s][j]]
      /\ \A t \in Sides \ {s} : orders'[t] = orders[t]
      /\ orders' = [t \in Sides |-> orders'[t]]
  BY <1>1, <1>2, <1>3, <1>4 DEF With
<1>7. /\ queue'[s] = queue[s] \cup {KeyOf(o)}
      /\ \A t \in Sides \ {s} : queue'[t] = queue[t]
  BY <1>1, <1>2, <1>3
<1>8. BookType'
  <2>1. \A t \in Sides : DOMAIN orders'[t] \subseteq Ids  BY <1>1, <1>2, <1>6
  <2>2. \A t \in Sides : \A j \in DOMAIN orders'[t] : orders'[t][j] \in BookOrder
    BY <1>2, <1>6
  <2>3. \A t \in Sides : orders'[t] = [j \in DOMAIN orders'[t] |-> orders'[t][j]]
    BY <1>2, <1>6
  <2>4. \A t \in Sides : IsIdMap(orders'[t], BookOrder)  BY <2>1, <2>2, <2>3 DEF IsIdMap
  <2>5. KeyOf(o) \in Key  BY <1>1 DEF KeyOf, Key
  <2>6. queue' \in [Sides -> SUBSET Key]  BY <1>2, <1>3, <2>5
  <2> QED  BY <1>6, <2>4, <2>6 DEF BookType
<1>9. RestingOrders'
  BY <1>6 DEF BookInv, RestingOrders
<1>10. QueueMirrorsOrders'
  <2>1. queue'[s] = {KeyOf(orders'[s][j]) : j \in DOMAIN orders'[s]}
    <3>1. queue[s] = {KeyOf(orders[s][j]) : j \in DOMAIN orders[s]}
      BY <1>1 DEF BookInv, QueueMirrorsOrders
    <3> QED  BY <1>6, <1>7, <3>1
  <2> QED  BY <1>6, <1>7, <2>1 DEF BookInv, QueueMirrorsOrders
<1>11. BookNotCrossed'
  <2>1. KeyOf(o).price = o.price  BY DEF KeyOf
  <2>2. \A t \in Sides : \A k \in queue[t] : k.price \in Nat  BY <1>2 DEF Key
  <2>3. CASE s = "buy"
    BY <1>1, <1>5, <1>7, <2>1, <2>2, <2>3
    DEF BookInv, BookNotCrossed, pricesCross, Opposite, Sides
  <2>4. CASE s = "sell"
    BY <1>1, <1>5, <1>7, <2>1, <2>2, <2>4
    DEF BookInv, BookNotCrossed, pricesCross, Opposite, Sides
  <2> QED  BY <1>1, <2>3, <2>4 DEF Sides
<1>12. \A t \in Sides : DOMAIN orders'[t] \subseteq DOMAIN orders[t] \cup {o.id}
  BY <1>6
<1>13. OneSideOnly'
  BY <1>1, <1>4, <1>6 DEF BookInv, OneSideOnly, Sides
<1> QED  BY <1>8, <1>9, <1>10, <1>11, <1>12, <1>13 DEF BookInv

\* Resting the taker keeps the invariant: it is new to the book and crosses
\* nothing.
LEMMA RestIndInv == ASSUME IndInv, Rest PROVE IndInv'
<1>1. /\ BookInv /\ WindowInv /\ TakerOffBook
      /\ LogType /\ ControlType /\ EnvType /\ DoneType /\ FillType /\ TagType
  BY IndInvParts
<1>2. /\ pc = "match" /\ LoopOver /\ taker.type = "limit" /\ taker.size > 0
      /\ add(taker.side, taker) /\ logSeq' = logSeq + 1
      /\ logs' = Append(logs, newOpenLog(logSeq + 1, taker))
      /\ EndApply
      /\ UNCHANGED <<windows, tradeSeq, envVars, fillVars, doneVars, tagVars>>
  BY DEF Rest, LoopOver
<1>3. taker \in BookOrder /\ taker.id \in Ids  BY <1>1, <1>2 DEF ControlType, BookOrder
<1>4. \A k \in queue[Opposite(taker.side)] : ~ pricesCross(taker.side, taker.price, k.price)
  BY <1>1, <1>2, <1>3, NothingCrosses
<1>5. BookInv' /\ \A t \in Sides : DOMAIN orders'[t] \subseteq DOMAIN orders[t] \cup {taker.id}
  <2>1. /\ \A t \in Sides : taker.id \notin DOMAIN orders[t]
        /\ taker.price > 0 /\ taker.price <= MaxPrice
    BY <1>1, <1>2 DEF TakerOffBook
  <2> QED  BY <1>1, <1>2, <1>3, <1>4, <2>1, AddKeeps
<1>6. ControlType' /\ TakerOffBook' /\ pc' # "match"  BY <1>1, <1>2, EndApplyControl
<1>7. WindowInv'
  BY <1>1, <1>2, <1>5, <1>6 DEF WindowInv, WindowsRefuse
<1>8. LogType'
  <2>1. newOpenLog(logSeq + 1, taker) \in Log
    BY <1>1, <1>3 DEF newOpenLog, Log, OpenLog, BookOrder, LogType
  <2> QED  BY <1>1, <1>2, <2>1 DEF LogType
<1>9. EnvType' /\ DoneType' /\ FillType' /\ TagType'
  BY <1>1, <1>2 DEF EnvType, DoneType, FillType, TagType, envVars, doneVars, fillVars, tagVars
<1> QED  BY <1>5, <1>6, <1>7, <1>8, <1>9, IndInvParts, PTL

\* Ending the taker with a Done log leaves the depths alone.
LEMMA FinishIndInv == ASSUME IndInv, Finish PROVE IndInv'
<1>1. /\ BookInv /\ WindowInv /\ TakerOffBook
      /\ LogType /\ ControlType /\ EnvType /\ DoneType /\ FillType /\ TagType
  BY IndInvParts
<1> DEFINE done == IF taker.type = "market" THEN [taker EXCEPT !.price = 0] ELSE taker
<1>2. /\ pc = "match" /\ logSeq' = logSeq + 1 /\ RecordDone(taker.id, 0) /\ EndApply
      /\ UNCHANGED <<orders, queue, windows, tradeSeq, envVars, fillVars, tagVars>>
  BY DEF Finish, LoopOver
<1>3. taker \in BookOrder /\ taker.id \in Ids  BY <1>1, <1>2 DEF ControlType, BookOrder
<1>4. BookInv'
  BY <1>1, <1>2 DEF BookInv, BookType, RestingOrders, OneSideOnly, QueueMirrorsOrders, BookNotCrossed
<1>5. ControlType' /\ TakerOffBook' /\ pc' # "match"  BY <1>1, <1>2, EndApplyControl
<1>6. WindowInv'  BY <1>1, <1>2, <1>5 DEF WindowInv, WindowsRefuse
<1>7. LogType'
  <2>1. PICK reason \in {"filled", "cancelled"} :
            logs' = Append(logs, newDoneLog(logSeq + 1, done, 0, reason))
    BY DEF Finish
  <2>2. done \in BookOrder  BY <1>3 DEF BookOrder
  <2> HIDE DEF done
  <2>3. newDoneLog(logSeq + 1, done, 0, reason) \in Log
    BY <1>1, <2>2 DEF newDoneLog, Log, DoneLog, BookOrder, LogType
  <2> QED  BY <1>1, <1>2, <2>1, <2>3 DEF LogType
<1>8. DoneType'  BY <1>1, <1>2, <1>3 DEF DoneType, RecordDone
<1>9. EnvType' /\ FillType' /\ TagType'
  BY <1>1, <1>2 DEF EnvType, FillType, TagType, envVars, fillVars, tagVars
<1> QED  BY <1>4, <1>5, <1>6, <1>7, <1>8, <1>9, IndInvParts, PTL

\* IOC's cancel of the rest keeps the invariant.
LEMMA CancelRestIndInv == ASSUME IndInv, CancelRest PROVE IndInv'
<1>1. /\ BookInv /\ WindowInv /\ TakerOffBook
      /\ LogType /\ ControlType /\ EnvType /\ DoneType /\ FillType /\ TagType
  BY IndInvParts
<1>2. /\ pc = "rest" /\ pc' = "idle" /\ taker' = NoTaker
      /\ CancelOrder(taker, logs) /\ PutId(taker.id)
      /\ UNCHANGED <<tradeSeq, envVars, fillVars, tagVars>>
  BY DEF CancelRest, CancelOrder
<1>3. taker \in BookOrder /\ taker.id \in Ids  BY <1>1, <1>2 DEF ControlType, BookOrder
<1>4. /\ BookInv'
      /\ \A t \in Sides : DOMAIN orders'[t] \subseteq DOMAIN orders[t]
      /\ logSeq' \in Nat /\ logs' \in Seq(Log)
      /\ closed' \in [Ids -> Nat] /\ unfilled' \in [Ids -> Nat]
  <2>1. /\ logSeq \in Nat /\ logs \in Seq(Log)
        /\ closed \in [Ids -> Nat] /\ unfilled \in [Ids -> Nat]
    BY <1>1 DEF LogType, DoneType
  <2> QED  BY <1>1, <1>2, <1>3, <2>1, CancelKeeps
<1>5. WindowInv'  BY <1>1, <1>2, <1>3, <1>4, WindowInvKeeps
<1>6. TakerOffBook' /\ ControlType'  BY <1>2 DEF TakerOffBook, ControlType
<1>7. LogType' /\ DoneType'  BY <1>1, <1>2, <1>4 DEF LogType, DoneType
<1>8. EnvType' /\ FillType' /\ TagType'
  BY <1>1, <1>2 DEF EnvType, FillType, TagType, envVars, fillVars, tagVars
<1> QED  BY <1>4, <1>5, <1>6, <1>7, <1>8, IndInvParts, PTL

\* Every step keeps the invariant.
LEMMA NextIndInv == IndInv /\ [Next]_vars => IndInv'
<1> SUFFICES ASSUME IndInv, [Next]_vars PROVE IndInv'
  OBVIOUS
<1>1. ASSUME NEW o \in Orders, Receive(o) PROVE IndInv'
  BY <1>1, ReceiveCancelIndInv, ReceiveApplyIndInv, ReceiveNullifyIndInv,
     ReceiveUnknownIndInv DEF Receive
<1>2. CASE Match  BY <1>2, MatchMakerIndInv DEF Match
<1>3. CASE Rest  BY <1>3, RestIndInv
<1>4. CASE Finish  BY <1>4, FinishIndInv
<1>5. CASE CancelRest  BY <1>5, CancelRestIndInv
<1>6. CASE UNCHANGED vars
  BY <1>6 DEF vars, bookVars, envVars, fillVars, doneVars, tagVars, IndInv, TypeOK,
              RestingOrders, OneSideOnly, TakerOffBook, WindowsRefuse, QueueMirrorsOrders,
              BookNotCrossed
<1> QED  BY <1>1, <1>2, <1>3, <1>4, <1>5, <1>6 DEF Next
-----------------------------------------------------------------------------
(* The theorems.                                                           *)

\* The invariant behind the theorems below: besides types, what is on the
\* book has size left and a legal price, the windows refuse whatever is on
\* the book or being applied, and so the taker is never on the book too.
THEOREM BookInvariant == Spec => []IndInv
<1> QED  BY InitIndInv, NextIndInv, PTL DEF Spec

\* The order book's state, logs and history keep their types, whatever the
\* orders, the window capacity and the number of messages: in particular no
\* size and no funds of an order ever fall below zero (calcTradeSize).
THEOREM BookTypeOK == Spec => []TypeOK
<1>1. IndInv => TypeOK  BY DEF IndInv
<1> QED  BY <1>1, BookInvariant, PTL

\* Maps and treemaps agree for ever: ApplyOrder's lookup of a key's order
\* never comes back empty (depth.add, depth.decrSize).
THEOREM BookQueueMirrorsOrders == Spec => []QueueMirrorsOrders
<1>1. IndInv => QueueMirrorsOrders  BY DEF IndInv
<1> QED  BY <1>1, BookInvariant, PTL

\* The book is never crossed, before, during or after the application of an
\* order (ApplyOrder, CancelOrder).
THEOREM BookNeverCrossed == Spec => []BookNotCrossed
<1>1. IndInv => BookNotCrossed  BY DEF IndInv
<1> QED  BY <1>1, BookInvariant, PTL

\* A maker trades only when it is first in price and then in age among the
\* orders of its side (ApplyOrder's iteration over the treemap).
THEOREM BookPriceTimePriority == Spec => PriceTimePriority
<1> DEFINE Priority ==
        \A s \in Sides : \A i, j \in DOMAIN orders[s] :
            i # j /\ filled'[j] > filled[j]
            => \/ (IF s = "sell" THEN orders[s][j].price < orders[s][i].price
                                 ELSE orders[s][j].price > orders[s][i].price)
               \/ orders[s][j].price = orders[s][i].price /\ j < i
<1>1. IndInv /\ [Next]_vars => [Priority]_vars
  <2> SUFFICES ASSUME IndInv, [Next]_vars, vars' # vars PROVE Priority
    OBVIOUS
  <2>1. /\ BookInv /\ WindowInv /\ TakerOffBook /\ ControlType /\ FillType
    BY IndInvParts
  <2>2. CASE filled' = filled
    <3>1. \A i \in Ids : filled[i] \in Nat  BY <2>1 DEF FillType
    <3>2. \A s \in Sides : DOMAIN orders[s] \subseteq Ids
      BY <2>1 DEF BookInv, BookType, IsIdMap
    <3> QED  BY <2>2, <3>1, <3>2
  <2>3. ASSUME NEW k \in queue[Opposite(taker.side)], MatchMaker(k) PROVE Priority
    <3> DEFINE opp == Opposite(taker.side)
               m == orders[opp][k.orderId]
               size == TradeSize(taker, m)
    <3>1. pc = "match" /\ taker.side \in Sides /\ opp \in Sides
      BY <2>1, <2>3 DEF MatchMaker, ControlType, BookOrder, Opposite, Sides
    <3>2. filled' = [i \in Ids |-> filled[i] + IF i \in {taker.id, m.id} THEN size ELSE 0]
      BY <2>3 DEF MatchMaker, RecordMatch
    <3>3. /\ k.orderId \in DOMAIN orders[opp] /\ m.id = k.orderId /\ m.price = k.price
          /\ k \in Key
      BY <2>1, <3>1, KeyFindsOrder
    <3>4. IsHead(opp, k)  BY <2>3 DEF MatchMaker, Matches
    <3> SUFFICES ASSUME NEW s \in Sides, NEW i \in DOMAIN orders[s], NEW j \in DOMAIN orders[s],
                        i # j, filled'[j] > filled[j]
                 PROVE  \/ (IF s = "sell" THEN orders[s][j].price < orders[s][i].price
                                           ELSE orders[s][j].price > orders[s][i].price)
                        \/ orders[s][j].price = orders[s][i].price /\ j < i
      OBVIOUS
    <3> HIDE DEF size, m, opp
    <3>5. i \in Ids /\ j \in Ids /\ filled[j] \in Nat
      BY <2>1 DEF BookInv, BookType, IsIdMap, FillType
    <3>6. j \in {taker.id, m.id}  BY <3>2, <3>5
    <3>7. j # taker.id  BY <2>1, <3>1 DEF TakerOffBook
    <3>8. j = k.orderId /\ s = opp
      <4>1. j = k.orderId  BY <3>3, <3>6, <3>7
      <4> QED  BY <2>1, <3>1, <3>3, <4>1 DEF BookInv, OneSideOnly, Sides
    <3>9. /\ KeyOf(orders[s][i]) \in queue[s]
          /\ orders[s][i].id = i /\ orders[s][i].price \in Nat
      BY <2>1, OrderHasKey DEF BookOrder
    <3>10. ~ Before(s, KeyOf(orders[s][i]), k)  BY <3>4, <3>8, <3>9 DEF IsHead
    <3>11. k.price \in Nat /\ i \in Nat /\ j \in Nat /\ orders[s][j].price = k.price
      BY <3>3, <3>5, <3>8, OrderBookAssumption DEF Key, m
    <3> QED  BY <3>8, <3>9, <3>10, <3>11 DEF Before, KeyOf, Sides
  <2>4. CASE Match  BY <2>3, <2>4 DEF Match
  <2>5. CASE \E o \in Orders : Receive(o)
    <3>1. filled' = filled
      BY <2>5 DEF Receive, ReceiveCancel, ReceiveApply, ReceiveNullify, ReceiveUnknown, fillVars
    <3> QED  BY <2>2, <3>1
  <2>6. CASE Rest \/ Finish \/ CancelRest
    <3>1. filled' = filled  BY <2>6 DEF Rest, Finish, CancelRest, fillVars
    <3> QED  BY <2>2, <3>1
  <2> QED  BY <2>4, <2>5, <2>6 DEF Next
<1> QED  BY <1>1, BookInvariant, PTL DEF Spec, PriceTimePriority
-----------------------------------------------------------------------------
(* What the logs say of an order over its life.                            *)

\* Orders are filed under their id, and history speaks of orders that came.
Sent ==
    /\ \A i \in DOMAIN submitted : submitted[i].id = i
    /\ applied \subseteq DOMAIN submitted /\ nullified \subseteq DOMAIN submitted
    /\ cancelled \subseteq DOMAIN submitted /\ dropped \subseteq DOMAIN submitted
    /\ took \subseteq applied

\* What rests is a limit order that was applied, on the side and at the
\* price it came with.
BookOrigins ==
    \A s \in Sides : \A i \in DOMAIN orders[s] :
        /\ i \in applied
        /\ submitted[i].side = s /\ submitted[i].type = "limit"
        /\ orders[s][i].side = s /\ orders[s][i].type = "limit"
        /\ orders[s][i].price = submitted[i].price
        /\ orders[s][i].tif = submitted[i].tif

\* The order in hand is one that came, with its price prepared.
TakerOrigin ==
    /\ pc # "idle" =>
        /\ taker.id \in DOMAIN submitted
        /\ taker.side = submitted[taker.id].side
        /\ taker.type = submitted[taker.id].type
        /\ taker.tif = submitted[taker.id].tif
    /\ pc = "match" => /\ taker.id \in applied
                       /\ taker.price = prepareTakerOrder(submitted[taker.id]).price
    /\ pc = "rest" => taker.tif = "IOC"

Tagged == applied \cup nullified \cup cancelled \cup dropped

\* The windows refuse every order that was answered before, and know no
\* other id than those.
WindowsKnow ==
    /\ \A i \in Tagged : ~ Accepts(windows[Shard(i)], i)
    /\ pc = "rest" => ~ Accepts(windows[Shard(taker.id)], taker.id)
    /\ \A s \in Shards : windows[s].seen \subseteq applied \cup nullified \cup cancelled

\* A window has slid only as far as some id of its shard made it.
WindowsPushed ==
    \A s \in Shards : windows[s].lo > 0 =>
        \E j \in DOMAIN submitted : Shard(j) = s /\ j + 1 = windows[s].lo + Cap

\* Nothing is recorded of an order before it is answered.
Unrecorded ==
    \A i \in Ids :
        /\ i \notin applied => filled[i] = 0 /\ spent[i] = 0
        /\ i \notin applied \cup nullified => closed[i] = 0 /\ unfilled[i] = 0

\* What an order traded and what it has left in hand are its size.
SizesExact ==
    \A i \in applied : ~ ByFunds(submitted[i]) =>
        /\ filled[i] <= submitted[i].size
        /\ InHand(i) => filled[i] + Working(i) = submitted[i].size

\* What a market buy spent and has left are its funds; a limit buy paid no
\* more than its price for what it traded, a sell nothing.
FundsExact ==
    \A i \in applied :
        /\ ByFunds(submitted[i]) =>
            /\ spent[i] <= submitted[i].funds
            /\ pc = "match" /\ taker.id = i => spent[i] + taker.funds = submitted[i].funds
        /\ submitted[i].type = "limit" => spent[i] <= filled[i] * submitted[i].price
        /\ submitted[i].side = "sell" => spent[i] = 0

\* An IOC order is on the book only until its rest is cancelled.
IocRests ==
    \A s \in Sides : \A i \in DOMAIN orders[s] :
        orders[s][i].tif = "IOC" => pc = "rest" /\ taker.id = i /\ taker.side = s

\* A GTX buy finds no ask that crosses it.
GtxBuyStays ==
    /\ pc = "match" /\ taker.tif = "GTX" /\ taker.side = "buy" =>
         \A k \in queue["sell"] : ~ pricesCross("buy", taker.price, k.price)
    /\ \A i \in took : ~ (submitted[i].tif = "GTX" /\ submitted[i].side = "buy")

HistInv ==
    /\ IndInv
    /\ Sent /\ BookOrigins /\ TakerOrigin
    /\ WindowsKnow /\ WindowsPushed
    /\ Unrecorded /\ EndsOnce /\ SizeConserved /\ SizesExact /\ FundsExact
    /\ IocRests /\ GtxBuyStays
-----------------------------------------------------------------------------
(* What the operations do, order by order.                                 *)

\* decrSize touches one order, which leaves the book when nothing is left.
LEMMA DecrEffect ==
    ASSUME BookInv, NEW s \in Sides, NEW i \in DOMAIN orders[s],
           NEW n \in Nat, n <= orders[s][i].size,
           decrSize(s, orders[s][i], n)
    PROVE  /\ \A t \in Sides \ {s} : orders'[t] = orders[t]
           /\ \A j \in DOMAIN orders'[s] \ {i} : orders'[s][j] = orders[s][j]
           /\ orders[s][i].size = n => DOMAIN orders'[s] = DOMAIN orders[s] \ {i}
           /\ orders[s][i].size # n =>
                /\ DOMAIN orders'[s] = DOMAIN orders[s]
                /\ orders'[s][i] = [orders[s][i] EXCEPT !.size = orders[s][i].size - n]
<1>1. orders = [t \in Sides |-> orders[t]]  BY DEF BookInv, BookType
<1>2. orders[s][i].id = i  BY DEF BookInv, RestingOrders
<1>3. CASE orders[s][i].size = n
  <2>1. orders' = [orders EXCEPT ![s] = Without(orders[s], i)]  BY <1>2, <1>3 DEF decrSize
  <2> QED  BY <1>1, <1>3, <2>1 DEF Without
<1>4. CASE orders[s][i].size # n
  <2> DEFINE u == [orders[s][i] EXCEPT !.size = orders[s][i].size - n]
  <2>1. orders' = [orders EXCEPT ![s] = With(orders[s], u)]  BY <1>4 DEF decrSize
  <2>2. orders[s][i] \in BookOrder  BY OrderHasKey
  <2>3. u.id = i  BY <1>2, <2>2 DEF BookOrder
  <2> HIDE DEF u
  <2>4. /\ \A t \in Sides \ {s} : orders'[t] = orders[t]
        /\ \A j \in DOMAIN orders'[s] \ {i} : orders'[s][j] = orders[s][j]
        /\ DOMAIN orders'[s] = DOMAIN orders[s] /\ orders'[s][i] = u
    BY <1>1, <2>1, <2>3 DEF With
  <2> QED  BY <1>4, <2>4 DEF u
<1> QED  BY <1>3, <1>4

\* CancelOrder takes an order off the book, and says how much was left.
LEMMA CancelEffect ==
    ASSUME BookInv, NEW o \in BookOrder, NEW sofar, CancelOrder(o, sofar),
           closed \in [Ids -> Nat], unfilled \in [Ids -> Nat]
    PROVE  \/ /\ o.id \notin DOMAIN orders[o.side]
              /\ UNCHANGED <<orders, queue, closed, unfilled>>
           \/ /\ o.id \in DOMAIN orders[o.side]
              /\ \A t \in Sides : /\ DOMAIN orders'[t] = DOMAIN orders[t] \ {o.id}
                                  /\ \A j \in DOMAIN orders'[t] : orders'[t][j] = orders[t][j]
              /\ \A j \in Ids \ {o.id} : closed'[j] = closed[j] /\ unfilled'[j] = unfilled[j]
              /\ closed'[o.id] = closed[o.id] + 1
              /\ unfilled'[o.id] = unfilled[o.id] + orders[o.side][o.id].size
<1>0. o.side \in Sides /\ o.id \in Ids  BY DEF BookOrder
<1>1. CASE ~ OnBook(o.side, o.id)
  BY <1>1 DEF CancelOrder, doneVars, OnBook
<1>2. CASE OnBook(o.side, o.id)
  <2> DEFINE b == orders[o.side][o.id]
  <2>1. o.id \in DOMAIN orders[o.side]  BY <1>2 DEF OnBook
  <2>2. decrSize(o.side, b, b.size) /\ RecordDone(o.id, b.size)  BY <1>2 DEF CancelOrder
  <2>3. b \in BookOrder /\ b.size \in Nat /\ b.size <= b.size
    BY <1>0, <2>1, OrderHasKey DEF BookOrder
  <2>4. /\ \A t \in Sides \ {o.side} : orders'[t] = orders[t]
        /\ \A j \in DOMAIN orders'[o.side] \ {o.id} : orders'[o.side][j] = orders[o.side][j]
        /\ DOMAIN orders'[o.side] = DOMAIN orders[o.side] \ {o.id}
    BY <1>0, <2>1, <2>2, <2>3, DecrEffect
  <2>5. \A t \in Sides \ {o.side} : o.id \notin DOMAIN orders[t]
    BY <1>0, <2>1 DEF BookInv, OneSideOnly, Sides
  <2>6. /\ \A j \in Ids \ {o.id} : closed'[j] = closed[j] /\ unfilled'[j] = unfilled[j]
        /\ closed'[o.id] = closed[o.id] + 1
        /\ unfilled'[o.id] = unfilled[o.id] + b.size
    BY <1>0, <2>2 DEF RecordDone
  <2> QED  BY <2>1, <2>4, <2>5, <2>6
<1> QED  BY <1>1, <1>2

\* put of an id the window refuses changes nothing; otherwise the window
\* learns that id alone, and slides at most up to it.
LEMMA PutIdEffect ==
    ASSUME windows \in [Shards -> Windows], NEW i \in Ids, PutId(i)
    PROVE  /\ \A s \in Shards : windows'[s].seen \subseteq windows[s].seen \cup {i}
           /\ \A s \in Shards : \/ windows'[s].lo = windows[s].lo
                                \/ s = Shard(i) /\ i + 1 = windows'[s].lo + Cap
           /\ ~ Accepts(windows[Shard(i)], i) => windows' = windows
<1>0. i \in Nat /\ Cap \in Nat  BY OrderBookAssumption, CapAssumption
<1> DEFINE w == windows[Shard(i)]
<1>1. Shard(i) \in Shards /\ w \in Windows  BY ShardType
<1>2. windows' = [windows EXCEPT ![Shard(i)] = Put(w, i)]  BY DEF PutId
<1> HIDE DEF w
<1>3. CASE ~ Accepts(w, i)
  BY <1>1, <1>2, <1>3 DEF Put, w
<1>4. CASE Accepts(w, i)
  <2>1. /\ Put(w, i).seen \subseteq w.seen \cup {i}
        /\ Put(w, i).lo = LoAfter(w, i)
    BY <1>4 DEF Put
  <2>2. LoAfter(w, i) = w.lo \/ i + 1 = LoAfter(w, i) + Cap
    BY <1>0, <1>1 DEF LoAfter, Windows
  <2>3. \A s \in Shards : windows'[s] = IF s = Shard(i) THEN Put(w, i) ELSE windows[s]
    BY <1>1, <1>2
  <2> QED  BY <1>1, <1>4, <2>1, <2>2, <2>3 DEF w
<1> QED  BY <1>3, <1>4
-----------------------------------------------------------------------------
(* The parts of the invariant that several actions keep in the same way.   *)

\* submitted gains at most one order, and loses none.
Grows == \A i \in DOMAIN submitted : i \in DOMAIN submitted' /\ submitted'[i] = submitted[i]

\* Deliver only adds the order it carries.
LEMMA DeliverGrows ==
    ASSUME HistInv, NEW o \in Orders, Deliver(o)
    PROVE  /\ Grows /\ DOMAIN submitted' = DOMAIN submitted \cup {o.id}
           /\ submitted'[o.id] = o
           /\ \A i \in DOMAIN submitted' : submitted'[i].id = i /\ submitted'[i] \in Orders
<1>1. /\ submitted' = [i \in DOMAIN submitted \cup {o.id} |-> IF i = o.id THEN o ELSE submitted[i]]
      /\ o.id \in DOMAIN submitted => submitted[o.id] = o
  BY DEF Deliver, With
<1>2. \A i \in DOMAIN submitted : submitted[i].id = i /\ submitted[i] \in Orders
  BY DEF HistInv, Sent, IndInv, TypeOK, IsIdMap
<1> QED  BY <1>1, <1>2 DEF Grows

\* The windows, after a put.
LEMMA WindowsHistory ==
    ASSUME HistInv, NEW i \in Ids, PutId(i), Grows, i \in DOMAIN submitted',
           Tagged' \subseteq Tagged \cup {i},
           applied \cup nullified \cup cancelled
                \subseteq applied' \cup nullified' \cup cancelled',
           i \in applied' \cup nullified' \cup cancelled' \/ ~ Accepts(windows[Shard(i)], i),
           pc' = "rest" => taker'.id = i
    PROVE  WindowsKnow' /\ WindowsPushed'
<1>1. windows \in [Shards -> Windows]  BY DEF HistInv, IndInv, TypeOK
<1>2. /\ \A j \in Ids : ~ Accepts(windows[Shard(j)], j) \/ j = i
                            => ~ Accepts(windows'[Shard(j)], j)
  BY <1>1, PutIdRefuses
<1>3. /\ \A s \in Shards : windows'[s].seen \subseteq windows[s].seen \cup {i}
      /\ \A s \in Shards : \/ windows'[s].lo = windows[s].lo
                           \/ s = Shard(i) /\ i + 1 = windows'[s].lo + Cap
      /\ ~ Accepts(windows[Shard(i)], i) => windows' = windows
  BY <1>1, PutIdEffect
<1>4. Tagged \subseteq Ids  BY DEF HistInv, IndInv, TypeOK, Tagged
<1>5. \A j \in Tagged' : ~ Accepts(windows'[Shard(j)], j)
  BY <1>2, <1>4 DEF HistInv, WindowsKnow
<1>6. pc' = "rest" => ~ Accepts(windows'[Shard(taker'.id)], taker'.id)
  BY <1>2
<1>7. \A s \in Shards : windows'[s].seen \subseteq applied' \cup nullified' \cup cancelled'
  BY <1>3 DEF HistInv, WindowsKnow
<1>8. WindowsPushed'
  <2> SUFFICES ASSUME NEW s \in Shards, windows'[s].lo > 0
               PROVE  \E j \in DOMAIN submitted' : Shard(j) = s /\ j + 1 = windows'[s].lo + Cap
    BY DEF WindowsPushed
  <2>1. CASE windows'[s].lo = windows[s].lo
    BY <2>1 DEF HistInv, WindowsPushed, Grows
  <2>2. CASE s = Shard(i) /\ i + 1 = windows'[s].lo + Cap
    BY <2>2
  <2> QED  BY <1>3, <2>1, <2>2
<1> QED  BY <1>5, <1>6, <1>7, <1>8 DEF WindowsKnow

\* The part of the invariant about what the logs have said.
LogHistory ==
    /\ BookOrigins /\ Unrecorded /\ EndsOnce /\ SizeConserved
    /\ SizesExact /\ FundsExact /\ IocRests /\ GtxBuyStays

\* A message that neither touches the book nor starts ApplyOrder's loop says
\* nothing new of orders other than those it nullifies.
LEMMA QuietHistory ==
    ASSUME HistInv, Grows, pc = "idle", pc' # "match",
           UNCHANGED <<orders, queue, filled, spent, took, applied>>,
           nullified \subseteq nullified',
           \A i \in Ids \ nullified' : closed'[i] = closed[i] /\ unfilled'[i] = unfilled[i]
    PROVE  LogHistory'
<1>1. /\ BookOrigins /\ Unrecorded /\ EndsOnce /\ SizeConserved
      /\ SizesExact /\ FundsExact /\ IocRests /\ GtxBuyStays
      /\ applied \subseteq DOMAIN submitted /\ took \subseteq applied /\ applied \subseteq Ids
  BY DEF HistInv, Sent, IndInv, TypeOK
<1>2. BookOrigins'  BY <1>1 DEF BookOrigins, Grows
<1>3. Unrecorded'  BY <1>1 DEF Unrecorded
<1>4. EndsOnce'  BY <1>1 DEF EndsOnce, InHand, OnBook, Grows
<1>5. SizeConserved'  BY <1>1 DEF SizeConserved, Working, OnBook, Grows
<1>6. SizesExact'  BY <1>1 DEF SizesExact, InHand, Working, OnBook, Grows
<1>7. FundsExact'  BY <1>1 DEF FundsExact, Grows
<1>8. IocRests'  BY <1>1 DEF IocRests
<1>9. GtxBuyStays'  BY <1>1 DEF GtxBuyStays, Grows
<1> QED  BY <1>2, <1>3, <1>4, <1>5, <1>6, <1>7, <1>8, <1>9 DEF LogHistory

\* CancelOrder, as a message of its own or after an IOC order: the order it
\* takes off the book ends, with what was left returned.
LEMMA CancelHistory ==
    ASSUME HistInv, NEW o \in BookOrder, NEW sofar, CancelOrder(o, sofar),
           pc # "match", pc' = "idle", Grows,
           o.id \in DOMAIN submitted => o.side = submitted[o.id].side,
           pc = "rest" => taker.id = o.id /\ taker.side = o.side,
           UNCHANGED <<filled, spent, took, applied, nullified>>
    PROVE  LogHistory'
<1>1. /\ BookOrigins /\ Unrecorded /\ EndsOnce /\ SizeConserved
      /\ SizesExact /\ FundsExact /\ IocRests /\ GtxBuyStays
      /\ applied \subseteq DOMAIN submitted /\ took \subseteq applied /\ applied \subseteq Ids
      /\ closed \in [Ids -> Nat] /\ unfilled \in [Ids -> Nat] /\ filled \in [Ids -> Nat]
  BY DEF HistInv, Sent, IndInv, TypeOK
<1>2. BookInv  BY IndInvParts DEF HistInv
<1>3. o.side \in Sides /\ o.id \in Ids  BY DEF BookOrder
<1>4. /\ FundsExact' /\ GtxBuyStays'
  BY <1>1 DEF FundsExact, GtxBuyStays, Grows
<1>5. CASE /\ o.id \notin DOMAIN orders[o.side]
           /\ UNCHANGED <<orders, queue, closed, unfilled>>
  <2>1. BookOrigins'  BY <1>1, <1>5 DEF BookOrigins, Grows
  <2>2. Unrecorded'  BY <1>1, <1>5 DEF Unrecorded
  <2>3. EndsOnce'  BY <1>1, <1>5 DEF EndsOnce, InHand, OnBook, Grows
  <2>4. SizeConserved'  BY <1>1, <1>5 DEF SizeConserved, Working, OnBook, Grows
  <2>5. SizesExact'  BY <1>1, <1>5 DEF SizesExact, InHand, Working, OnBook, Grows
  <2>6. IocRests'  BY <1>1, <1>3, <1>5 DEF IocRests
  <2> QED  BY <1>4, <2>1, <2>2, <2>3, <2>4, <2>5, <2>6 DEF LogHistory
<1>6. CASE /\ o.id \in DOMAIN orders[o.side]
           /\ \A t \in Sides : /\ DOMAIN orders'[t] = DOMAIN orders[t] \ {o.id}
                               /\ \A j \in DOMAIN orders'[t] : orders'[t][j] = orders[t][j]
           /\ \A j \in Ids \ {o.id} : closed'[j] = closed[j] /\ unfilled'[j] = unfilled[j]
           /\ closed'[o.id] = closed[o.id] + 1
           /\ unfilled'[o.id] = unfilled[o.id] + orders[o.side][o.id].size
  <2>0. /\ o.id \in applied /\ submitted[o.id].side = o.side /\ submitted[o.id].type = "limit"
        /\ \A i \in applied : submitted'[i] = submitted[i]
        /\ \A i \in applied : submitted[i].side \in Sides
    <3>1. o.id \in applied /\ submitted[o.id].side = o.side /\ submitted[o.id].type = "limit"
      BY <1>1, <1>3, <1>6 DEF BookOrigins
    <3>2. \A i \in DOMAIN submitted : submitted[i].side \in Sides
      BY OrderType DEF HistInv, IndInv, TypeOK, IsIdMap
    <3> QED  BY <1>1, <3>1, <3>2 DEF Grows
  <2>1. BookOrigins'  BY <1>1, <1>6 DEF BookOrigins, Grows
  <2>2. Unrecorded'  BY <1>1, <1>6, <2>0 DEF Unrecorded
  <2>3. EndsOnce'  BY <1>1, <1>6, <2>0 DEF EndsOnce, InHand, OnBook
  <2>4. SizeConserved'
    <3>1. orders[o.side][o.id].size \in Nat
      BY <1>2, <1>3, <1>6, OrderHasKey DEF BookOrder
    <3> QED  BY <1>1, <1>6, <2>0, <3>1 DEF SizeConserved, Working, OnBook
  <2>5. SizesExact'  BY <1>1, <1>6, <2>0 DEF SizesExact, InHand, Working, OnBook
  <2>6. IocRests'  BY <1>1, <1>3, <1>6 DEF IocRests
  <2> QED  BY <1>4, <2>1, <2>2, <2>3, <2>4, <2>5, <2>6 DEF LogHistory
<1> QED  BY <1>1, <1>2, <1>5, <1>6, CancelEffect
-----------------------------------------------------------------------------
(* The actions.                                                            *)

\* What the invariant adds to IndInv.
History == Sent /\ TakerOrigin /\ WindowsKnow /\ WindowsPushed /\ LogHistory

LEMMA HistInvParts == HistInv <=> IndInv /\ History
  BY DEF HistInv, History, LogHistory

\* prepareTakerOrder and calcTradeSize leave an order's other fields alone.
LEMMA TakerFields ==
    ASSUME NEW o \in BookOrder, MaxPrice \in Nat
    PROVE  /\ prepareTakerOrder(o).tif = o.tif
           /\ prepareTakerOrder(o).size = o.size
           /\ prepareTakerOrder(o).funds = o.funds
  BY DEF prepareTakerOrder, BookOrder

\* A cancel message.
LEMMA ReceiveCancelHistory ==
    ASSUME HistInv, NEW o \in Orders, ReceiveCancel(o) PROVE History'
<1>1. /\ Deliver(o) /\ CancelOrder(o, << >>) /\ PutId(o.id)
      /\ pc = "idle" /\ pc' = "idle"
      /\ o.id \in DOMAIN submitted => submitted[o.id] = o
      /\ UNCHANGED <<filled, spent, took, applied, nullified, dropped>>
      /\ cancelled' = cancelled \cup {o.id}
  BY DEF ReceiveCancel, CancelOrder, Deliver, fillVars
<1>2. o \in BookOrder /\ o.id \in Ids  BY OrderType
<1>3. /\ Grows /\ DOMAIN submitted' = DOMAIN submitted \cup {o.id}
      /\ \A i \in DOMAIN submitted' : submitted'[i].id = i /\ submitted'[i] \in Orders
  BY <1>1, DeliverGrows
<1>4. Sent'  BY <1>1, <1>3 DEF Sent, HistInv
<1>5. TakerOrigin'  BY <1>1 DEF TakerOrigin
<1>6. WindowsKnow' /\ WindowsPushed'
  <2>1. Tagged' \subseteq Tagged \cup {o.id}  BY <1>1 DEF Tagged
  <2> QED  BY <1>1, <1>2, <1>3, <2>1, WindowsHistory
<1>7. LogHistory'  BY <1>1, <1>2, <1>3, CancelHistory
<1> QED  BY <1>4, <1>5, <1>6, <1>7 DEF History

\* When IsOrderWillNotMatch says so of a buy, no ask crosses its price.
LEMMA WillNotMatchBuy ==
    ASSUME BookInv, NEW o \in Orders, o.side = "buy", IsOrderWillNotMatch(o),
           NEW k \in queue["sell"]
    PROVE  ~ pricesCross("buy", prepareTakerOrder(o).price, k.price)
<1>1. "sell" \in Sides /\ Opposite("buy") = "sell"  BY DEF Sides, Opposite
<1>2. queue["sell"] \in SUBSET Key  BY <1>1 DEF BookInv, BookType
<1>3. \A j \in queue["sell"] : j.price <= MaxPrice  BY <1>1, KeyFindsOrder
<1>4. PICK h \in queue["sell"] : IsHead("sell", h)  BY <1>1, <1>2, <1>3, HeadExists
<1>5. orders["sell"][h.orderId].price = h.price  BY <1>1, KeyFindsOrder
<1>6. ~ pricesCross("buy", prepareTakerOrder(o).price, h.price)
  BY <1>1, <1>4, <1>5 DEF IsOrderWillNotMatch
<1>7. ~ Before("sell", k, h)  BY <1>4 DEF IsHead
<1>8. h.price \in Nat /\ k.price \in Nat /\ prepareTakerOrder(o).price \in Nat
  BY <1>2, <1>4, OrderType DEF Key, BookOrder
<1> QED  BY <1>6, <1>7, <1>8 DEF pricesCross, Before

\* A new order that the window lets through starts with nothing recorded.
LEMMA AcceptedHistory ==
    ASSUME HistInv, NEW o \in Orders, ReceiveApply(o),
           Accepts(windows[Shard(o.id)], o.id),
           pc' = "match", taker' = prepareTakerOrder(o),
           applied' = applied \cup {o.id}, UNCHANGED dropped
    PROVE  History'
<1>1. /\ Deliver(o) /\ Applies(o) /\ PutId(o.id) /\ pc = "idle"
      /\ UNCHANGED <<orders, queue, filled, spent, took, closed, unfilled, nullified, cancelled>>
  BY DEF ReceiveApply, StartApply, Deliver, fillVars, doneVars
<1>2. /\ o \in BookOrder /\ o.id \in Ids /\ o.side \in Sides
      /\ taker' \in BookOrder /\ taker'.id = o.id /\ taker'.side = o.side
      /\ taker'.type = o.type
  BY OrderType
<1>3. taker'.tif = o.tif /\ taker'.size = o.size /\ taker'.funds = o.funds
  BY <1>2, TakerFields, OrderBookAssumption
<1>4. /\ Grows /\ DOMAIN submitted' = DOMAIN submitted \cup {o.id}
      /\ submitted'[o.id] = o
      /\ \A i \in DOMAIN submitted' : submitted'[i].id = i /\ submitted'[i] \in Orders
  BY <1>1, DeliverGrows
<1>5. /\ Sent /\ BookOrigins /\ Unrecorded /\ EndsOnce /\ SizeConserved
      /\ SizesExact /\ FundsExact /\ IocRests /\ GtxBuyStays
      /\ applied \subseteq DOMAIN submitted /\ took \subseteq applied /\ applied \subseteq Ids
  BY DEF HistInv, Sent, IndInv, TypeOK
<1>6. o.id \notin Tagged  BY DEF HistInv, WindowsKnow
<1>7. /\ o.id \notin applied /\ o.id \notin nullified
      /\ filled[o.id] = 0 /\ spent[o.id] = 0 /\ closed[o.id] = 0 /\ unfilled[o.id] = 0
      /\ \A s \in Sides : o.id \notin DOMAIN orders[s]
  BY <1>2, <1>5, <1>6 DEF Tagged, Unrecorded, BookOrigins
<1>8. \A i \in applied : i # o.id /\ submitted'[i] = submitted[i]
  BY <1>4, <1>5, <1>7 DEF Grows
<1>9. o.size \in Nat /\ o.price \in Nat /\ o.funds \in Nat  BY <1>2 DEF BookOrder
<1>10. Sent'  BY <1>1, <1>4, <1>5 DEF Sent
<1>11. TakerOrigin'  BY <1>2, <1>3, <1>4 DEF TakerOrigin
<1>12. WindowsKnow' /\ WindowsPushed'
  <2>1. Tagged' \subseteq Tagged \cup {o.id}  BY <1>1 DEF Tagged
  <2> QED  BY <1>1, <1>2, <1>4, <2>1, WindowsHistory
<1>13. LogHistory'
  <2>1. BookOrigins'  BY <1>1, <1>5, <1>8 DEF BookOrigins
  <2>2. Unrecorded'  BY <1>1, <1>5 DEF Unrecorded
  <2>3. EndsOnce'
    BY <1>1, <1>2, <1>5, <1>7, <1>8 DEF EndsOnce, InHand, OnBook
  <2>4. SizeConserved'
    BY <1>1, <1>2, <1>3, <1>4, <1>5, <1>7, <1>8, <1>9 DEF SizeConserved, Working, OnBook
  <2>5. SizesExact'
    BY <1>1, <1>2, <1>3, <1>4, <1>5, <1>7, <1>8, <1>9
    DEF SizesExact, InHand, Working, OnBook
  <2>6. FundsExact'
    BY <1>1, <1>2, <1>3, <1>4, <1>5, <1>7, <1>8, <1>9 DEF FundsExact
  <2>7. IocRests'  BY <1>1, <1>5 DEF IocRests
  <2>8. GtxBuyStays'
    <3>1. \A i \in took : ~ (submitted'[i].tif = "GTX" /\ submitted'[i].side = "buy")
      BY <1>5, <1>8 DEF GtxBuyStays
    <3>2. ASSUME o.tif = "GTX", o.side = "buy", NEW k \in queue["sell"]
          PROVE  ~ pricesCross("buy", taker'.price, k.price)
      <4>1. IsOrderWillNotMatch(o)  BY <1>1, <3>2 DEF Applies
      <4>2. BookInv  BY IndInvParts DEF HistInv
      <4> QED  BY <3>2, <4>1, <4>2, WillNotMatchBuy
    <3> QED  BY <1>1, <1>2, <1>3, <3>1, <3>2 DEF GtxBuyStays
  <2> QED  BY <2>1, <2>2, <2>3, <2>4, <2>5, <2>6, <2>7, <2>8 DEF LogHistory
<1> QED  BY <1>10, <1>11, <1>12, <1>13 DEF History

\* A new order that the window turns away, and one NullifyOrder answers.
LEMMA ReceiveApplyHistory ==
    ASSUME HistInv, NEW o \in Orders, ReceiveApply(o) PROVE History'
<1>1. CASE /\ Accepts(windows[Shard(o.id)], o.id)
           /\ pc' = "match" /\ taker' = prepareTakerOrder(o)
           /\ applied' = applied \cup {o.id} /\ UNCHANGED dropped
  BY <1>1, AcceptedHistory
<1>2. CASE /\ ~ Accepts(windows[Shard(o.id)], o.id)
           /\ IF o.tif = "IOC" THEN pc' = "rest" /\ taker' = o
                               ELSE UNCHANGED <<pc, taker>>
           /\ dropped' = IF FirstNew(o) THEN dropped \cup {o.id} ELSE dropped
           /\ UNCHANGED applied
  <2>1. /\ Deliver(o) /\ PutId(o.id) /\ pc = "idle" /\ pc' # "match"
        /\ UNCHANGED <<orders, queue, filled, spent, took, closed, unfilled, nullified, cancelled>>
    BY <1>2 DEF ReceiveApply, StartApply, Deliver, fillVars, doneVars
  <2>2. o \in BookOrder /\ o.id \in Ids  BY OrderType
  <2>3. /\ Grows /\ DOMAIN submitted' = DOMAIN submitted \cup {o.id}
        /\ submitted'[o.id] = o
        /\ \A i \in DOMAIN submitted' : submitted'[i].id = i /\ submitted'[i] \in Orders
    BY <2>1, DeliverGrows
  <2>4. Sent'  BY <1>2, <2>1, <2>3 DEF Sent, HistInv
  <2>5. TakerOrigin'  BY <1>2, <2>1, <2>3 DEF TakerOrigin
  <2>6. WindowsKnow' /\ WindowsPushed'
    <3>1. Tagged' \subseteq Tagged \cup {o.id}  BY <1>2, <2>1 DEF Tagged
    <3>2. pc' = "rest" => taker'.id = o.id  BY <1>2, <2>1
    <3> QED  BY <1>2, <2>1, <2>2, <2>3, <3>1, <3>2, WindowsHistory
  <2>7. LogHistory'  BY <1>2, <2>1, <2>3, QuietHistory
  <2> QED  BY <2>4, <2>5, <2>6, <2>7 DEF History
<1> QED  BY <1>1, <1>2 DEF ReceiveApply, StartApply

LEMMA ReceiveNullifyHistory ==
    ASSUME HistInv, NEW o \in Orders, ReceiveNullify(o) PROVE History'
<1>1. /\ Deliver(o) /\ PutId(o.id) /\ pc = "idle" /\ pc' = "idle" /\ RecordDone(o.id, o.size)
      /\ nullified' = nullified \cup {o.id}
      /\ UNCHANGED <<orders, queue, filled, spent, took, applied, cancelled, dropped>>
  BY DEF ReceiveNullify, Deliver, fillVars
<1>2. o \in BookOrder /\ o.id \in Ids  BY OrderType
<1>3. /\ Grows /\ DOMAIN submitted' = DOMAIN submitted \cup {o.id}
      /\ \A i \in DOMAIN submitted' : submitted'[i].id = i /\ submitted'[i] \in Orders
  BY <1>1, DeliverGrows
<1>4. Sent'  BY <1>1, <1>3 DEF Sent, HistInv
<1>5. TakerOrigin'  BY <1>1 DEF TakerOrigin
<1>6. WindowsKnow' /\ WindowsPushed'
  <2>1. Tagged' \subseteq Tagged \cup {o.id}  BY <1>1 DEF Tagged
  <2> QED  BY <1>1, <1>2, <1>3, <2>1, WindowsHistory
<1>7. LogHistory'
  <2>1. \A i \in Ids \ nullified' : closed'[i] = closed[i] /\ unfilled'[i] = unfilled[i]
    BY <1>1 DEF RecordDone, HistInv, IndInv, TypeOK
  <2> QED  BY <1>1, <1>3, <2>1, QuietHistory
<1> QED  BY <1>4, <1>5, <1>6, <1>7 DEF History

\* A message the dispatch ignores.
LEMMA ReceiveUnknownHistory ==
    ASSUME HistInv, NEW o \in Orders, ReceiveUnknown(o) PROVE History'
<1>1. /\ Deliver(o) /\ pc = "idle" /\ pc' = "idle"
      /\ UNCHANGED <<orders, queue, windows, filled, spent, took, closed, unfilled,
                     applied, nullified, cancelled, dropped>>
  BY DEF ReceiveUnknown, Deliver, fillVars, doneVars, tagVars
<1>2. /\ Grows /\ DOMAIN submitted' = DOMAIN submitted \cup {o.id}
      /\ \A i \in DOMAIN submitted' : submitted'[i].id = i /\ submitted'[i] \in Orders
  BY <1>1, DeliverGrows
<1>3. Sent'  BY <1>1, <1>2 DEF Sent, HistInv
<1>4. TakerOrigin'  BY <1>1 DEF TakerOrigin
<1>5. WindowsKnow'  BY <1>1 DEF HistInv, WindowsKnow, Tagged
<1>6. WindowsPushed'
  <2>1. WindowsPushed  BY DEF HistInv
  <2> QED  BY <1>1, <1>2, <2>1 DEF WindowsPushed
<1>7. LogHistory'  BY <1>1, <1>2, QuietHistory
<1> QED  BY <1>3, <1>4, <1>5, <1>6, <1>7 DEF History

\* Paying no more than its price keeps what an order paid within its price
\* times what it traded.
LEMMA CostBound ==
    ASSUME NEW s \in Nat, NEW f \in Nat, NEW n \in Nat, NEW c \in Nat, NEW p \in Nat,
           c <= p, s <= f * p
    PROVE  s + n * c <= (f + n) * p
<1>1. n * c <= n * p  BY Z3
<1>2. (f + n) * p = f * p + n * p  BY Z3
<1>3. n * c \in Nat /\ n * p \in Nat /\ f * p \in Nat  BY ProductNat
<1> DEFINE nc == n * c
           np == n * p
           fp == f * p
           all == (f + n) * p
<1>4. nc <= np /\ all = fp + np /\ nc \in Nat /\ np \in Nat /\ fp \in Nat /\ s <= fp
  BY <1>1, <1>2, <1>3
<1>5. s + nc <= all
  <2> HIDE DEF nc, np, fp, all
  <2> QED  BY <1>4
<1> QED  BY <1>5

\* The loop's state before an iteration and what the iteration changes, order
\* by order.
Iteration(k, opp, m, n) ==
    /\ pc = "match" /\ pc' = "match"
    /\ taker \in BookOrder /\ taker.side \in Sides /\ opp \in Sides /\ opp # taker.side
    /\ m \in BookOrder /\ m.id = k.orderId /\ m.price = k.price
    /\ m.id \in DOMAIN orders[opp] /\ m = orders[opp][m.id] /\ m.id # taker.id
    /\ pricesCross(taker.side, taker.price, m.price)
    /\ n \in Nat /\ n > 0 /\ n <= m.size
    /\ ~ ByFunds(taker) => n <= taker.size /\ taker' = [taker EXCEPT !.size = taker.size - n]
    /\ ByFunds(taker) => /\ n * m.price \in Nat /\ n * m.price <= taker.funds
                         /\ taker' = [taker EXCEPT !.funds = taker.funds - n * m.price]
    /\ UNCHANGED <<windows, pc, submitted, applied, nullified, cancelled, dropped>>
    /\ RecordMatch(taker, m, n)
    /\ \A t \in Sides \ {opp} : orders'[t] = orders[t]
    /\ \A j \in DOMAIN orders'[opp] \ {m.id} : orders'[opp][j] = orders[opp][j]
    /\ m.size = n => /\ DOMAIN orders'[opp] = DOMAIN orders[opp] \ {m.id}
                     /\ RecordDone(m.id, 0)
    /\ m.size # n => /\ DOMAIN orders'[opp] = DOMAIN orders[opp]
                     /\ orders'[opp][m.id] = [m EXCEPT !.size = m.size - n]
                     /\ UNCHANGED <<closed, unfilled>>

\* MatchMaker is such an iteration.
LEMMA MatchEffect ==
    ASSUME HistInv, NEW k \in queue[Opposite(taker.side)], MatchMaker(k),
           NEW opp, opp = Opposite(taker.side), NEW m, m = orders[opp][k.orderId],
           NEW n, n = TradeSize(taker, m)
    PROVE  Iteration(k, opp, m, n)
<1>1. BookInv /\ ControlType /\ TakerOffBook  BY IndInvParts DEF HistInv
<1>2. pc = "match" /\ taker \in BookOrder /\ taker.side \in Sides /\ opp \in Sides /\ opp # taker.side
  BY <1>1 DEF MatchMaker, ControlType, BookOrder, Opposite, Sides
<1>3. k \in queue[opp]  OBVIOUS
<1>4. /\ k.orderId \in DOMAIN orders[opp] /\ m \in BookOrder /\ m.id = k.orderId
      /\ m.price = k.price /\ m.price > 0
  BY <1>1, <1>2, <1>3, KeyFindsOrder
<1>5. m.id # taker.id  BY <1>1, <1>2, <1>4 DEF TakerOffBook
<1>6. /\ n > 0 /\ pricesCross(taker.side, taker.price, m.price)
      /\ taker' = AfterTrade(taker, m, n) /\ decrSize(opp, m, n)
      /\ RecordMatch(taker, m, n)
      /\ UNCHANGED <<windows, pc, submitted, applied, nullified, cancelled, dropped>>
      /\ m.size = n => RecordDone(m.id, 0)
      /\ m.size # n => UNCHANGED <<closed, unfilled>>
  BY DEF MatchMaker, Matches, doneVars, envVars, tagVars
<1>7. taker.size \in Nat /\ taker.funds \in Nat /\ m.size \in Nat /\ m.price \in Nat
  BY <1>2, <1>4 DEF BookOrder
<1>8. n \in Nat /\ n <= m.size  BY <1>2, <1>4, <1>6, TradeSizeOK
<1>9. ~ ByFunds(taker) => n <= taker.size /\ taker' = [taker EXCEPT !.size = taker.size - n]
  <2> SUFFICES ASSUME ~ ByFunds(taker)
               PROVE  n <= taker.size /\ taker' = [taker EXCEPT !.size = taker.size - n]
    OBVIOUS
  <2>1. n = Smaller(taker.size, m.size)  BY DEF TradeSize
  <2>2. n <= taker.size  BY <1>7, <2>1 DEF Smaller
  <2>3. taker' = [taker EXCEPT !.size = taker.size - n]  BY <1>6 DEF AfterTrade
  <2> QED  BY <2>2, <2>3
<1>10. ASSUME ByFunds(taker)
       PROVE  /\ n * m.price \in Nat /\ n * m.price <= taker.funds
              /\ taker' = [taker EXCEPT !.funds = taker.funds - n * m.price]
  <2>1. taker.funds \div m.price \in Nat  BY <1>4, <1>7, Z3
  <2>2. n <= taker.funds \div m.price
    BY <1>7, <1>10, <2>1 DEF TradeSize, Smaller
  <2>3. n * m.price \in Nat /\ n * m.price <= taker.funds
    BY <1>4, <1>7, <1>8, <2>2, DivisionPays, ProductNat
  <2> QED  BY <1>6, <1>10, <2>3 DEF AfterTrade
<1>11. decrSize(opp, orders[opp][m.id], n) /\ n <= orders[opp][m.id].size
  BY <1>4, <1>6, <1>8
<1>12. /\ \A t \in Sides \ {opp} : orders'[t] = orders[t]
       /\ \A j \in DOMAIN orders'[opp] \ {m.id} : orders'[opp][j] = orders[opp][j]
       /\ m.size = n => DOMAIN orders'[opp] = DOMAIN orders[opp] \ {m.id}
       /\ m.size # n => /\ DOMAIN orders'[opp] = DOMAIN orders[opp]
                        /\ orders'[opp][m.id] = [m EXCEPT !.size = m.size - n]
  BY <1>1, <1>2, <1>4, <1>8, <1>11, DecrEffect
<1> QED  BY <1>2, <1>4, <1>5, <1>6, <1>8, <1>9, <1>10, <1>12 DEF Iteration

\* One iteration of ApplyOrder's loop moves size from taker and maker to what
\* they have traded, and ends the maker exactly when nothing of it is left.
LEMMA MatchHistory ==
    ASSUME HistInv, NEW k \in queue[Opposite(taker.side)], MatchMaker(k) PROVE History'
<1>a. PICK opp : opp = Opposite(taker.side)  OBVIOUS
<1>b. PICK m : m = orders[opp][k.orderId]  OBVIOUS
<1>c. PICK n : n = TradeSize(taker, m)  OBVIOUS
<1>d. Iteration(k, opp, m, n)  BY <1>a, <1>b, <1>c, MatchEffect
<1>1. /\ pc = "match" /\ pc' = "match"
      /\ taker \in BookOrder /\ taker.side \in Sides /\ opp \in Sides /\ opp # taker.side
      /\ m \in BookOrder /\ m.id = k.orderId /\ m.price = k.price
      /\ m.id \in DOMAIN orders[opp] /\ m = orders[opp][m.id] /\ m.id # taker.id
      /\ pricesCross(taker.side, taker.price, m.price)
      /\ n \in Nat /\ n > 0 /\ n <= m.size
      /\ ~ ByFunds(taker) => n <= taker.size /\ taker' = [taker EXCEPT !.size = taker.size - n]
      /\ ByFunds(taker) => /\ n * m.price \in Nat /\ n * m.price <= taker.funds
                           /\ taker' = [taker EXCEPT !.funds = taker.funds - n * m.price]
      /\ UNCHANGED <<windows, pc, submitted, applied, nullified, cancelled, dropped>>
      /\ RecordMatch(taker, m, n)
  BY <1>d DEF Iteration
<1>2. /\ \A t \in Sides \ {opp} : orders'[t] = orders[t]
      /\ \A j \in DOMAIN orders'[opp] \ {m.id} : orders'[opp][j] = orders[opp][j]
      /\ m.size = n => /\ DOMAIN orders'[opp] = DOMAIN orders[opp] \ {m.id}
                       /\ RecordDone(m.id, 0)
      /\ m.size # n => /\ DOMAIN orders'[opp] = DOMAIN orders[opp]
                       /\ orders'[opp][m.id] = [m EXCEPT !.size = m.size - n]
                       /\ UNCHANGED <<closed, unfilled>>
  BY <1>d DEF Iteration
<1>3. /\ Sent /\ BookOrigins /\ TakerOrigin /\ WindowsKnow /\ WindowsPushed
      /\ Unrecorded /\ EndsOnce /\ SizeConserved
      /\ SizesExact /\ FundsExact /\ IocRests /\ GtxBuyStays
      /\ applied \subseteq DOMAIN submitted /\ took \subseteq applied /\ applied \subseteq Ids
      /\ filled \in [Ids -> Nat] /\ spent \in [Ids -> Nat]
      /\ closed \in [Ids -> Nat] /\ unfilled \in [Ids -> Nat]
  BY DEF HistInv, Sent, IndInv, TypeOK
<1>4. /\ taker.id \in Ids /\ m.id \in Ids /\ taker.size \in Nat /\ taker.funds \in Nat
      /\ m.size \in Nat /\ m.price \in Nat /\ taker.price \in Nat
  BY <1>1 DEF BookOrder
<1>5. /\ taker.id \in applied /\ m.id \in applied
      /\ submitted[taker.id].side = taker.side /\ submitted[taker.id].type = taker.type
      /\ submitted[taker.id].tif = taker.tif
      /\ submitted[m.id].side = opp /\ submitted[m.id].type = "limit"
      /\ submitted[m.id].price = m.price /\ m.side = opp /\ m.type = "limit"
      /\ m.tif = submitted[m.id].tif
  BY <1>1, <1>3 DEF TakerOrigin, BookOrigins
<1>6. /\ taker'.id = taker.id /\ taker'.side = taker.side /\ taker'.type = taker.type
      /\ taker'.tif = taker.tif /\ taker'.price = taker.price
  BY <1>1 DEF BookOrder
<1>7. /\ \A i \in Ids : filled'[i] = filled[i] + IF i \in {taker.id, m.id} THEN n ELSE 0
      /\ took' = took \cup {taker.id}
  BY <1>1 DEF RecordMatch
<1>8. /\ \A i \in Ids \ {m.id} : closed'[i] = closed[i] /\ unfilled'[i] = unfilled[i]
      /\ unfilled'[m.id] = unfilled[m.id]
      /\ closed'[m.id] = closed[m.id] + IF m.size = n THEN 1 ELSE 0
  <2>1. CASE m.size = n  BY <1>2, <1>3, <1>4, <2>1 DEF RecordDone
  <2>2. CASE m.size # n  BY <1>2, <1>3, <1>4, <2>2
  <2> QED  BY <2>1, <2>2
<1>9. \A s \in Sides : \A i \in Ids \ {m.id} :
            /\ i \in DOMAIN orders'[s] <=> i \in DOMAIN orders[s]
            /\ i \in DOMAIN orders[s] => orders'[s][i] = orders[s][i]
  BY <1>2
<1>10. \A s \in Sides : DOMAIN orders'[s] \subseteq DOMAIN orders[s] /\ DOMAIN orders[s] \subseteq Ids
  BY <1>2 DEF HistInv, IndInv, TypeOK, IsIdMap
<1>11. /\ Sent' /\ WindowsKnow' /\ WindowsPushed'
  BY <1>1, <1>3, <1>5, <1>7 DEF Sent, WindowsKnow, WindowsPushed, Tagged
<1>12. TakerOrigin'  BY <1>1, <1>3, <1>6 DEF TakerOrigin
<1>13. \A s \in Sides : \A i \in DOMAIN orders'[s] :
            /\ i \in DOMAIN orders[s]
            /\ orders'[s][i].side = orders[s][i].side /\ orders'[s][i].type = orders[s][i].type
            /\ orders'[s][i].price = orders[s][i].price /\ orders'[s][i].tif = orders[s][i].tif
  <2> SUFFICES ASSUME NEW s \in Sides, NEW i \in DOMAIN orders'[s]
               PROVE  /\ i \in DOMAIN orders[s]
                      /\ orders'[s][i].side = orders[s][i].side
                      /\ orders'[s][i].type = orders[s][i].type
                      /\ orders'[s][i].price = orders[s][i].price
                      /\ orders'[s][i].tif = orders[s][i].tif
    OBVIOUS
  <2>1. CASE s = opp /\ i = m.id
    BY <1>1, <1>2, <2>1 DEF BookOrder
  <2>2. CASE ~ (s = opp /\ i = m.id)
    BY <1>2, <1>10, <2>2
  <2> QED  BY <2>1, <2>2
<1>14. BookOrigins'  BY <1>1, <1>3, <1>13 DEF BookOrigins
<1>15. Unrecorded'
  <2> DEFINE buyer == IF taker.side = "buy" THEN taker.id ELSE m.id
  <2>1. buyer \in applied /\ \A i \in Ids \ {buyer} : spent'[i] = spent[i]
    BY <1>1, <1>3, <1>5 DEF RecordMatch
  <2> HIDE DEF buyer
  <2> QED  BY <1>1, <1>3, <1>5, <1>7, <1>8, <2>1 DEF Unrecorded
<1>16. \A i \in applied : submitted[i].side \in Sides
  BY <1>3, OrderType DEF HistInv, IndInv, TypeOK, IsIdMap
<1>17. EndsOnce'
  <2> SUFFICES ASSUME NEW i \in applied \ nullified
               PROVE  closed'[i] = IF InHand(i)' THEN 0 ELSE 1
    BY <1>1 DEF EndsOnce
  <2>0. closed[i] = IF InHand(i) THEN 0 ELSE 1  BY <1>3 DEF EndsOnce
  <2>1. CASE i = m.id
    <3>1. InHand(i)  BY <1>1, <1>5, <2>1 DEF InHand, OnBook
    <3>2. InHand(i)' <=> m.size # n  BY <1>1, <1>2, <1>5, <1>6, <2>1 DEF InHand, OnBook
    <3> QED  BY <1>8, <2>0, <2>1, <3>1, <3>2
  <2>2. CASE i # m.id
    <3>1. InHand(i)' <=> InHand(i)
      BY <1>1, <1>3, <1>6, <1>9, <1>16, <2>2 DEF InHand, OnBook
    <3> QED  BY <1>3, <1>8, <2>0, <2>2, <3>1
  <2> QED  BY <2>1, <2>2
<1>18. \A i \in applied :
           /\ i \notin {taker.id, m.id} => Working(i)' = Working(i)
           /\ i = taker.id => Working(i) = taker.size
           /\ i = taker.id /\ ~ ByFunds(taker) => Working(i)' = taker.size - n
           /\ i = m.id => Working(i) = m.size /\ Working(i)' = m.size - n
  <2> SUFFICES ASSUME NEW i \in applied
               PROVE  /\ i \notin {taker.id, m.id} => Working(i)' = Working(i)
                      /\ i = taker.id => Working(i) = taker.size
                      /\ i = taker.id /\ ~ ByFunds(taker) => Working(i)' = taker.size - n
                      /\ i = m.id => Working(i) = m.size /\ Working(i)' = m.size - n
    OBVIOUS
  <2>1. i \notin {taker.id, m.id} => Working(i)' = Working(i)
    BY <1>1, <1>3, <1>6, <1>9, <1>16 DEF Working, OnBook
  <2>2. i = taker.id => Working(i) = taker.size  BY <1>1 DEF Working
  <2>3. i = taker.id /\ ~ ByFunds(taker) => Working(i)' = taker.size - n
    BY <1>1, <1>6 DEF Working, BookOrder
  <2>4. i = m.id => Working(i) = m.size  BY <1>1, <1>5 DEF Working, OnBook
  <2>5. ASSUME i = m.id PROVE Working(i)' = m.size - n
    <3>1. CASE m.size = n
      BY <1>1, <1>2, <1>4, <1>5, <1>6, <2>5, <3>1 DEF Working, OnBook
    <3>2. CASE m.size # n
      BY <1>1, <1>2, <1>4, <1>5, <1>6, <2>5, <3>2 DEF Working, OnBook, BookOrder
    <3> QED  BY <3>1, <3>2
  <2> QED  BY <2>1, <2>2, <2>3, <2>4, <2>5
<1>19. ByFunds(submitted[taker.id]) <=> ByFunds(taker)  BY <1>5 DEF ByFunds
<1>20. SizeConserved'
  <2> SUFFICES ASSUME NEW i \in applied \ nullified, submitted[i].type = "limit"
               PROVE  filled'[i] + unfilled'[i] + Working(i)' = submitted[i].size
    BY <1>1 DEF SizeConserved
  <2>0. filled[i] + unfilled[i] + Working(i) = submitted[i].size  BY <1>3 DEF SizeConserved
  <2>1. CASE i = m.id
    BY <1>1, <1>3, <1>4, <1>7, <1>8, <1>18, <2>0, <2>1
  <2>2. CASE i = taker.id
    <3>1. ~ ByFunds(taker)  BY <1>5, <2>2 DEF ByFunds
    <3> QED  BY <1>1, <1>3, <1>4, <1>7, <1>8, <1>18, <2>0, <2>2, <3>1
  <2>3. CASE i \notin {m.id, taker.id}
    BY <1>3, <1>7, <1>8, <1>18, <2>0, <2>3
  <2> QED  BY <2>1, <2>2, <2>3
<1>21. SizesExact'
  <2> SUFFICES ASSUME NEW i \in applied, ~ ByFunds(submitted[i])
               PROVE  /\ filled'[i] <= submitted[i].size
                      /\ InHand(i)' => filled'[i] + Working(i)' = submitted[i].size
    BY <1>1 DEF SizesExact
  <2>0. /\ filled[i] <= submitted[i].size
        /\ InHand(i) => filled[i] + Working(i) = submitted[i].size
    BY <1>3 DEF SizesExact
  <2>1. CASE i = m.id
    <3>1. InHand(i)  BY <1>1, <1>5, <2>1 DEF InHand, OnBook
    <3> QED  BY <1>1, <1>3, <1>4, <1>7, <1>18, <2>0, <2>1, <3>1
  <2>2. CASE i = taker.id
    <3>1. InHand(i)  BY <1>1, <2>2 DEF InHand
    <3>2. ~ ByFunds(taker)  BY <1>19, <2>2
    <3> QED  BY <1>1, <1>3, <1>4, <1>7, <1>18, <2>0, <2>2, <3>1, <3>2
  <2>3. CASE i \notin {m.id, taker.id}
    <3>1. InHand(i)' <=> InHand(i)
      BY <1>1, <1>3, <1>6, <1>9, <1>16, <2>3 DEF InHand, OnBook
    <3> QED  BY <1>3, <1>7, <1>18, <2>0, <2>3, <3>1
  <2> QED  BY <2>1, <2>2, <2>3
<1>22. FundsExact'
  <2> DEFINE buyer == IF taker.side = "buy" THEN taker.id ELSE m.id
             cost == n * m.price
  <2>1. /\ buyer \in applied /\ submitted[buyer].side = "buy"
        /\ cost \in Nat
        /\ \A i \in Ids : spent'[i] = spent[i] + IF i = buyer THEN cost ELSE 0
    <3>1. cost \in Nat  BY <1>1, <1>4, ProductNat
    <3>2. spent' = [spent EXCEPT ![buyer] = spent[buyer] + cost]  BY <1>1 DEF RecordMatch
    <3>3. buyer \in applied /\ submitted[buyer].side = "buy"
      BY <1>1, <1>5 DEF Sides
    <3> HIDE DEF buyer, cost
    <3> QED  BY <1>3, <3>1, <3>2, <3>3
  <2>2. buyer \in {taker.id, m.id} /\ (buyer = taker.id <=> taker.side = "buy")
    BY <1>1
  <2> SUFFICES ASSUME NEW i \in applied
               PROVE  /\ ByFunds(submitted[i]) =>
                           /\ spent'[i] <= submitted[i].funds
                           /\ pc' = "match" /\ taker'.id = i
                                => spent'[i] + taker'.funds = submitted[i].funds
                      /\ submitted[i].type = "limit" => spent'[i] <= filled'[i] * submitted[i].price
                      /\ submitted[i].side = "sell" => spent'[i] = 0
    BY <1>1 DEF FundsExact
  <2>3. /\ ByFunds(submitted[i]) =>
             /\ spent[i] <= submitted[i].funds
             /\ taker.id = i => spent[i] + taker.funds = submitted[i].funds
        /\ submitted[i].type = "limit" => spent[i] <= filled[i] * submitted[i].price
        /\ submitted[i].side = "sell" => spent[i] = 0
    BY <1>1, <1>3 DEF FundsExact
  <2>4. submitted[i].funds \in Nat /\ submitted[i].price \in Nat
    BY <1>3, OrderType DEF HistInv, IndInv, TypeOK, IsIdMap, BookOrder
  <2>5. /\ i \in Ids /\ spent[i] \in Nat /\ filled[i] \in Nat  BY <1>3
  <2>6. submitted[i].side = "sell" => spent'[i] = 0
    BY <2>1, <2>3, <2>5
  <2>7. ASSUME ByFunds(submitted[i])
        PROVE  /\ spent'[i] <= submitted[i].funds
               /\ taker'.id = i => spent'[i] + taker'.funds = submitted[i].funds
    <3>1. i # m.id  BY <1>5, <2>7 DEF ByFunds
    <3>2. CASE i = taker.id
      <4>1. ByFunds(taker) /\ buyer = taker.id  BY <1>19, <2>2, <2>7, <3>2 DEF ByFunds
      <4>2. cost <= taker.funds /\ taker'.funds = taker.funds - cost
        BY <1>1, <4>1 DEF BookOrder
      <4>3. spent'[i] = spent[i] + cost  BY <2>1, <2>5, <3>2, <4>1
      <4> HIDE DEF cost
      <4> QED  BY <1>4, <2>1, <2>3, <2>4, <2>5, <2>7, <3>2, <4>2, <4>3
    <3>3. CASE i # taker.id
      <4>1. spent'[i] = spent[i]  BY <2>1, <2>2, <2>5, <3>1, <3>3
      <4> QED  BY <1>6, <2>3, <2>7, <3>3, <4>1
    <3> QED  BY <3>2, <3>3
  <2>8. ASSUME submitted[i].type = "limit"
        PROVE  spent'[i] <= filled'[i] * submitted[i].price
    <3>1. CASE i \notin {taker.id, m.id}
      BY <1>7, <2>1, <2>2, <2>3, <2>5, <2>8, <3>1
    <3>2. CASE i \in {taker.id, m.id} /\ i = buyer
      <4>1. m.price <= submitted[i].price
        <5>1. CASE i = m.id  BY <1>4, <1>5, <5>1
        <5>2. CASE i = taker.id
          <6>1. submitted[i] \in Orders
            BY <1>3 DEF HistInv, IndInv, TypeOK, IsIdMap
          <6>2. prepareTakerOrder(submitted[i]) = submitted[i]  BY <2>8, <6>1, OrderType
          <6>3. taker.price = submitted[i].price  BY <1>1, <1>3, <5>2, <6>2 DEF TakerOrigin
          <6>4. taker.side = "buy"  BY <2>2, <3>2, <5>2
          <6> QED  BY <1>1, <1>4, <6>3, <6>4 DEF pricesCross
        <5> QED  BY <3>2, <5>1, <5>2
      <4>2. spent'[i] = spent[i] + n * m.price /\ filled'[i] = filled[i] + n
        BY <1>7, <2>1, <2>5, <3>2
      <4>3. spent[i] <= filled[i] * submitted[i].price  BY <2>3, <2>8
      <4>4. spent[i] + n * m.price <= (filled[i] + n) * submitted[i].price
        BY <1>1, <1>4, <2>4, <2>5, <4>1, <4>3, CostBound
      <4> QED  BY <4>2, <4>4
    <3>3. CASE i \in {taker.id, m.id} /\ i # buyer
      <4>1. spent'[i] = spent[i] /\ filled'[i] = filled[i] + n
        BY <1>7, <2>1, <2>5, <3>3
      <4>2. spent[i] <= filled[i] * submitted[i].price  BY <2>3, <2>8
      <4>3. 0 \in Nat /\ 0 <= submitted[i].price /\ n * 0 = 0  BY <1>1, <2>4
      <4>4. spent[i] + n * 0 <= (filled[i] + n) * submitted[i].price
        BY <1>1, <2>4, <2>5, <4>2, <4>3, CostBound
      <4>5. spent[i] + n * 0 = spent[i]  BY <2>5, <4>3
      <4> QED  BY <4>1, <4>4, <4>5
    <3> QED  BY <3>1, <3>2, <3>3
  <2> QED  BY <2>6, <2>7, <2>8
<1>23. IocRests'  BY <1>1, <1>3, <1>13 DEF IocRests
<1>24. GtxBuyStays'
  <2>1. ~ (taker.tif = "GTX" /\ taker.side = "buy")
    BY <1>1, <1>3, <1>a DEF GtxBuyStays, Opposite
  <2> QED  BY <1>1, <1>3, <1>5, <1>6, <1>7, <2>1 DEF GtxBuyStays
<1> QED  BY <1>11, <1>12, <1>14, <1>15, <1>17, <1>20, <1>21, <1>22, <1>23, <1>24
         DEF History, LogHistory

\* The end of the loop: the order in hand goes on the book as it is, or is
\* done.
LEMMA RestHistory == ASSUME HistInv, Rest PROVE History'
<1>1. /\ pc = "match" /\ pc' # "match" /\ taker.type = "limit" /\ taker.size > 0
      /\ add(taker.side, taker) /\ EndApply
      /\ UNCHANGED <<windows, submitted, filled, spent, took, closed, unfilled,
                     applied, nullified, cancelled, dropped>>
  BY DEF Rest, LoopOver, EndApply, envVars, fillVars, doneVars, tagVars
<1>2. BookInv /\ ControlType /\ TakerOffBook  BY IndInvParts DEF HistInv
<1>3. PICK t : t = taker  OBVIOUS
<1>4. t \in BookOrder /\ t.side \in Sides /\ t.id \in Ids /\ t.size \in Nat
  BY <1>1, <1>2, <1>3 DEF ControlType, BookOrder
<1>5. /\ Sent /\ BookOrigins /\ TakerOrigin /\ WindowsKnow /\ WindowsPushed
      /\ Unrecorded /\ EndsOnce /\ SizeConserved
      /\ SizesExact /\ FundsExact /\ IocRests /\ GtxBuyStays
      /\ applied \subseteq DOMAIN submitted /\ took \subseteq applied /\ applied \subseteq Ids
      /\ filled \in [Ids -> Nat] /\ unfilled \in [Ids -> Nat]
  BY DEF HistInv, Sent, IndInv, TypeOK
<1>6. \A s \in Sides : t.id \notin DOMAIN orders[s]  BY <1>1, <1>2, <1>3 DEF TakerOffBook
<1>7. /\ \A s \in Sides \ {t.side} : orders'[s] = orders[s]
      /\ DOMAIN orders'[t.side] = DOMAIN orders[t.side] \cup {t.id}
      /\ orders'[t.side][t.id] = t
      /\ \A j \in DOMAIN orders[t.side] : orders'[t.side][j] = orders[t.side][j]
  <2>1. orders = [s \in Sides |-> orders[s]]  BY <1>2 DEF BookInv, BookType
  <2>2. orders' = [orders EXCEPT ![t.side] = With(orders[t.side], t)]  BY <1>1, <1>3 DEF add
  <2> QED  BY <1>4, <1>6, <2>1, <2>2 DEF With
<1>8. /\ t.id \in applied /\ t.side = submitted[t.id].side /\ t.type = submitted[t.id].type
      /\ t.tif = submitted[t.id].tif /\ t.price = submitted[t.id].price
  <2>1. /\ t.id \in applied /\ t.side = submitted[t.id].side /\ t.type = submitted[t.id].type
        /\ t.tif = submitted[t.id].tif /\ t.price = prepareTakerOrder(submitted[t.id]).price
    BY <1>1, <1>3, <1>5 DEF TakerOrigin
  <2>2. submitted[t.id] \in Orders  BY <1>5, <2>1 DEF HistInv, IndInv, TypeOK, IsIdMap
  <2> QED  BY <1>1, <1>3, <2>1, <2>2, OrderType
<1>9. /\ t.tif = "IOC" => pc' = "rest" /\ taker' = t
      /\ t.tif # "IOC" => pc' = "idle"
  BY <1>1, <1>3 DEF EndApply
<1>10. Sent' /\ WindowsPushed'  BY <1>1, <1>5 DEF Sent, WindowsPushed
<1>11. TakerOrigin'  BY <1>1, <1>5, <1>8, <1>9 DEF TakerOrigin
<1>12. WindowsKnow'  BY <1>1, <1>5, <1>8, <1>9 DEF WindowsKnow, Tagged
<1>13. BookOrigins'  BY <1>1, <1>3, <1>5, <1>7, <1>8 DEF BookOrigins
<1>14. Unrecorded'  BY <1>1, <1>5 DEF Unrecorded
<1>15. \A i \in applied : submitted[i].side \in Sides
  BY <1>5, OrderType DEF HistInv, IndInv, TypeOK, IsIdMap
<1>16. \A i \in applied : /\ InHand(i)' <=> InHand(i)
                          /\ Working(i)' = Working(i)
  <2> SUFFICES ASSUME NEW i \in applied
               PROVE  (InHand(i)' <=> InHand(i)) /\ Working(i)' = Working(i)
    OBVIOUS
  <2>1. CASE i = t.id
    BY <1>1, <1>3, <1>7, <1>8, <2>1 DEF InHand, Working, OnBook
  <2>2. CASE i # t.id
    <3>1. ~ (pc = "match" /\ taker.id = i)  BY <1>3, <2>2
    <3>2. OnBook(submitted[i].side, i)' <=> OnBook(submitted[i].side, i)
      BY <1>1, <1>7, <1>15, <2>2 DEF OnBook
    <3>3. OnBook(submitted[i].side, i) =>
              orders'[submitted[i].side][i] = orders[submitted[i].side][i]
      BY <1>1, <1>7, <1>15, <2>2 DEF OnBook
    <3> QED  BY <1>1, <3>1, <3>2, <3>3 DEF InHand, Working
  <2> QED  BY <2>1, <2>2
<1>17. EndsOnce'  BY <1>1, <1>5, <1>16 DEF EndsOnce
<1>18. SizeConserved'  BY <1>1, <1>5, <1>16 DEF SizeConserved
<1>19. SizesExact'  BY <1>1, <1>5, <1>16 DEF SizesExact
<1>20. FundsExact'  BY <1>1, <1>5 DEF FundsExact
<1>21. IocRests'  BY <1>1, <1>5, <1>7, <1>9 DEF IocRests
<1>22. GtxBuyStays'  BY <1>1, <1>5 DEF GtxBuyStays
<1> QED  BY <1>10, <1>11, <1>12, <1>13, <1>14, <1>17, <1>18, <1>19, <1>20, <1>21, <1>22
         DEF History, LogHistory

LEMMA FinishHistory == ASSUME HistInv, Finish PROVE History'
<1>1. /\ pc = "match" /\ pc' # "match" /\ ~ (taker.type = "limit" /\ taker.size > 0)
      /\ RecordDone(taker.id, 0) /\ EndApply
      /\ UNCHANGED <<orders, queue, windows, submitted, filled, spent, took,
                     applied, nullified, cancelled, dropped>>
  BY DEF Finish, LoopOver, EndApply, envVars, fillVars, tagVars
<1>2. ControlType /\ TakerOffBook  BY IndInvParts DEF HistInv
<1>3. PICK t : t = taker  OBVIOUS
<1>4. t \in BookOrder /\ t.side \in Sides /\ t.id \in Ids /\ t.size \in Nat
  BY <1>1, <1>2, <1>3 DEF ControlType, BookOrder
<1>5. /\ Sent /\ BookOrigins /\ TakerOrigin /\ WindowsKnow /\ WindowsPushed
      /\ Unrecorded /\ EndsOnce /\ SizeConserved
      /\ SizesExact /\ FundsExact /\ IocRests /\ GtxBuyStays
      /\ applied \subseteq DOMAIN submitted /\ took \subseteq applied /\ applied \subseteq Ids
      /\ filled \in [Ids -> Nat] /\ unfilled \in [Ids -> Nat] /\ closed \in [Ids -> Nat]
  BY DEF HistInv, Sent, IndInv, TypeOK
<1>6. \A s \in Sides : t.id \notin DOMAIN orders[s]  BY <1>1, <1>2, <1>3 DEF TakerOffBook
<1>7. /\ \A i \in Ids \ {t.id} : closed'[i] = closed[i]
      /\ closed'[t.id] = closed[t.id] + 1
      /\ \A i \in Ids : unfilled'[i] = unfilled[i]
  BY <1>1, <1>3, <1>4, <1>5 DEF RecordDone
<1>8. /\ t.id \in applied /\ t.side = submitted[t.id].side /\ t.type = submitted[t.id].type
      /\ t.tif = submitted[t.id].tif
  BY <1>1, <1>3, <1>5 DEF TakerOrigin
<1>9. /\ t.tif = "IOC" => pc' = "rest" /\ taker' = t
      /\ t.tif # "IOC" => pc' = "idle"
  BY <1>1, <1>3 DEF EndApply
<1>10. Sent' /\ WindowsPushed'  BY <1>1, <1>5 DEF Sent, WindowsPushed
<1>11. TakerOrigin'  BY <1>1, <1>5, <1>8, <1>9 DEF TakerOrigin
<1>12. WindowsKnow'  BY <1>1, <1>5, <1>8, <1>9 DEF WindowsKnow, Tagged
<1>13. BookOrigins'  BY <1>1, <1>5 DEF BookOrigins
<1>14. Unrecorded'  BY <1>1, <1>5, <1>7, <1>8 DEF Unrecorded
<1>15. \A i \in applied : submitted[i].side \in Sides
  BY <1>5, OrderType DEF HistInv, IndInv, TypeOK, IsIdMap
<1>16. \A i \in applied :
           /\ i # t.id => (InHand(i)' <=> InHand(i)) /\ Working(i)' = Working(i)
           /\ i = t.id => InHand(i) /\ ~ InHand(i)' /\ Working(i) = t.size /\ Working(i)' = 0
  <2> SUFFICES ASSUME NEW i \in applied
               PROVE  /\ i # t.id => (InHand(i)' <=> InHand(i)) /\ Working(i)' = Working(i)
                      /\ i = t.id => /\ InHand(i) /\ ~ InHand(i)'
                                     /\ Working(i) = t.size /\ Working(i)' = 0
    OBVIOUS
  <2> QED  BY <1>1, <1>3, <1>4, <1>6, <1>8 DEF InHand, Working, OnBook
<1>17. EndsOnce'  BY <1>1, <1>5, <1>7, <1>16 DEF EndsOnce
<1>18. SizeConserved'
  <2> SUFFICES ASSUME NEW i \in applied \ nullified, submitted[i].type = "limit"
               PROVE  filled[i] + unfilled'[i] + Working(i)' = submitted[i].size
    BY <1>1 DEF SizeConserved
  <2>1. filled[i] + unfilled[i] + Working(i) = submitted[i].size  BY <1>5 DEF SizeConserved
  <2>2. i = t.id => t.size = 0  BY <1>1, <1>3, <1>4, <1>8
  <2> QED  BY <1>5, <1>7, <1>16, <2>1, <2>2
<1>19. SizesExact'  BY <1>1, <1>5, <1>16 DEF SizesExact
<1>20. FundsExact'  BY <1>1, <1>5 DEF FundsExact
<1>21. IocRests'  BY <1>1, <1>5 DEF IocRests
<1>22. GtxBuyStays'  BY <1>1, <1>5 DEF GtxBuyStays
<1> QED  BY <1>10, <1>11, <1>12, <1>13, <1>14, <1>17, <1>18, <1>19, <1>20, <1>21, <1>22
         DEF History, LogHistory

\* IOC's cancel of the rest.
LEMMA CancelRestHistory == ASSUME HistInv, CancelRest PROVE History'
<1>1. /\ pc = "rest" /\ pc' = "idle" /\ CancelOrder(taker, logs) /\ PutId(taker.id)
      /\ UNCHANGED <<submitted, filled, spent, took, applied, nullified, cancelled, dropped>>
  BY DEF CancelRest, CancelOrder, envVars, fillVars, tagVars
<1>2. ControlType  BY IndInvParts DEF HistInv
<1>3. PICK t : t = taker  OBVIOUS
<1>4. t \in BookOrder /\ t.id \in Ids
  BY <1>1, <1>2, <1>3 DEF ControlType, BookOrder
<1>5. Sent /\ TakerOrigin /\ WindowsKnow  BY DEF HistInv
<1>6. Grows  BY <1>1 DEF Grows
<1>7. t.id \in DOMAIN submitted /\ t.side = submitted[t.id].side
  BY <1>1, <1>3, <1>5 DEF TakerOrigin
<1>8. Sent' /\ TakerOrigin'  BY <1>1, <1>5 DEF Sent, TakerOrigin
<1>9. WindowsKnow' /\ WindowsPushed'
  <2>1. ~ Accepts(windows[Shard(t.id)], t.id)  BY <1>1, <1>3, <1>5 DEF WindowsKnow
  <2>2. Tagged' = Tagged  BY <1>1 DEF Tagged
  <2> QED  BY <1>1, <1>3, <1>4, <1>6, <1>7, <2>1, <2>2, WindowsHistory
<1>10. LogHistory'
  BY <1>1, <1>3, <1>4, <1>6, <1>7, CancelHistory
<1> QED  BY <1>8, <1>9, <1>10 DEF History

\* NewOrderBook: nothing has come and nothing is recorded.
LEMMA InitHistInv == Init => HistInv
<1> SUFFICES ASSUME Init PROVE HistInv
  OBVIOUS
<1>1. IndInv  BY InitIndInv
<1>2. /\ DOMAIN submitted = {} /\ pc = "idle"
      /\ applied = {} /\ nullified = {} /\ cancelled = {} /\ dropped = {} /\ took = {}
      /\ \A s \in Sides : DOMAIN orders[s] = {} /\ queue[s] = {}
      /\ \A i \in Ids : filled[i] = 0 /\ spent[i] = 0 /\ closed[i] = 0 /\ unfilled[i] = 0
      /\ \A s \in Shards : windows[s] = EmptyWindow
  BY DEF Init
<1>3. Sent /\ BookOrigins /\ TakerOrigin  BY <1>2 DEF Sent, BookOrigins, TakerOrigin
<1>4. WindowsKnow /\ WindowsPushed
  BY <1>2 DEF WindowsKnow, WindowsPushed, Tagged, EmptyWindow
<1>5. Unrecorded /\ EndsOnce /\ SizeConserved /\ SizesExact /\ FundsExact
  BY <1>2 DEF Unrecorded, EndsOnce, SizeConserved, SizesExact, FundsExact
<1>6. IocRests /\ GtxBuyStays  BY <1>2 DEF IocRests, GtxBuyStays
<1> QED  BY <1>1, <1>3, <1>4, <1>5, <1>6 DEF HistInv

\* Every step keeps the invariant.
LEMMA NextHistInv == HistInv /\ [Next]_vars => HistInv'
<1> SUFFICES ASSUME HistInv, [Next]_vars PROVE HistInv'
  OBVIOUS
<1>1. IndInv'  BY NextIndInv DEF HistInv
<1>2. History'
  <2>1. ASSUME NEW o \in Orders, Receive(o) PROVE History'
    BY <2>1, ReceiveCancelHistory, ReceiveApplyHistory, ReceiveNullifyHistory,
       ReceiveUnknownHistory DEF Receive
  <2>2. CASE Match  BY <2>2, MatchHistory DEF Match
  <2>3. CASE Rest  BY <2>3, RestHistory
  <2>4. CASE Finish  BY <2>4, FinishHistory
  <2>5. CASE CancelRest  BY <2>5, CancelRestHistory
  <2>6. CASE UNCHANGED vars
    <3>1. History  BY HistInvParts
    <3> QED
      BY <2>6, <3>1 DEF vars, bookVars, envVars, fillVars, doneVars, tagVars, History, Sent,
         TakerOrigin, WindowsKnow, WindowsPushed, Tagged, LogHistory, BookOrigins, Unrecorded,
         EndsOnce, SizeConserved, SizesExact, FundsExact, IocRests, GtxBuyStays, InHand,
         Working, OnBook
  <2> QED  BY <2>1, <2>2, <2>3, <2>4, <2>5, <2>6 DEF Next
<1> QED  BY <1>1, <1>2, HistInvParts, PTL
-----------------------------------------------------------------------------
(* The theorems.                                                           *)

\* The invariant behind the theorems below: besides IndInv, where everything
\* on the book and in hand comes from, what the windows know, and how each
\* order's size and funds are split between the logs and the book.
THEOREM BookHistory == Spec => []HistInv
<1> QED  BY InitHistInv, NextHistInv, PTL DEF Spec

\* No order that ApplyOrder took ends twice, and none vanishes without an
\* end, however messages repeat and cancels overtake (the Done logs of
\* ApplyOrder and CancelOrder, behind the window of ApplyOrder).
THEOREM BookEndsOnce == Spec => []EndsOnce
<1>1. HistInv => EndsOnce  BY DEF HistInv
<1> QED  BY <1>1, BookHistory, PTL

\* No size is created or lost between Match logs, Done logs and the book
\* (decrSize, CancelOrder's remaining size, calcTradeSize).
THEOREM BookSizeConserved == Spec => []SizeConserved
<1>1. HistInv => SizeConserved  BY DEF HistInv
<1> QED  BY <1>1, BookHistory, PTL

\* A limit order trades at its price or better, and no more than its size.
LEMMA PriceTimesSize ==
    ASSUME NEW f \in Nat, NEW n \in Nat, NEW p \in Nat, f <= n
    PROVE  f * p <= n * p
  BY Z3

\* The hold that PlaceOrder took before the order was sent covers all that
\* ApplyOrder ever trades of it: no fill settles below zero.
THEOREM BookHoldCoversFills == Spec => []HoldCoversFills
<1>1. HistInv => HoldCoversFills
  <2> SUFFICES ASSUME HistInv, NEW i \in DOMAIN submitted
               PROVE  IF submitted[i].side = "buy" THEN spent[i] <= submitted[i].funds
                                                   ELSE filled[i] <= submitted[i].size
    BY DEF HoldCoversFills
  <2>1. submitted[i] \in Orders /\ i \in Ids  BY DEF HistInv, IndInv, TypeOK, IsIdMap
  <2>2. /\ submitted[i] \in BookOrder /\ ValidOrder(submitted[i])
        /\ submitted[i].funds \in Nat /\ submitted[i].size \in Nat /\ submitted[i].price \in Nat
        /\ submitted[i].side \in Sides /\ submitted[i].type \in Types
    BY <2>1, OrderBookAssumption DEF BookOrder
  <2>3. spent[i] \in Nat /\ filled[i] \in Nat  BY <2>1 DEF HistInv, IndInv, TypeOK
  <2>4. CASE i \notin applied
    <3>1. filled[i] = 0 /\ spent[i] = 0  BY <2>1, <2>4 DEF HistInv, Unrecorded
    <3> QED  BY <2>2, <3>1
  <2>5. CASE i \in applied /\ submitted[i].side = "sell"
    <3>1. ~ ByFunds(submitted[i])  BY <2>5 DEF ByFunds
    <3> QED  BY <2>5, <3>1 DEF HistInv, SizesExact
  <2>6. CASE i \in applied /\ ByFunds(submitted[i])
    BY <2>6 DEF HistInv, FundsExact, ByFunds
  <2>7. CASE i \in applied /\ submitted[i].side = "buy" /\ submitted[i].type = "limit"
    <3>1. ~ ByFunds(submitted[i])  BY <2>7 DEF ByFunds
    <3>2. filled[i] <= submitted[i].size  BY <2>7, <3>1 DEF HistInv, SizesExact
    <3>3. spent[i] <= filled[i] * submitted[i].price  BY <2>7 DEF HistInv, FundsExact
    <3>4. filled[i] * submitted[i].price <= submitted[i].size * submitted[i].price
      BY <2>2, <2>3, <3>2, PriceTimesSize
    <3>5. submitted[i].funds = submitted[i].size * submitted[i].price
      BY <2>2, <2>7 DEF ValidOrder
    <3>6. filled[i] * submitted[i].price \in Nat  BY <2>2, <2>3, ProductNat
    <3> QED  BY <2>2, <2>3, <2>7, <3>3, <3>4, <3>5, <3>6
  <2> QED  BY <2>2, <2>4, <2>5, <2>6, <2>7 DEF ByFunds, Sides, Types
<1> QED  BY <1>1, BookHistory, PTL

\* The window costs an order its first message only when a cancel had come
\* before or ids of its shard ran a window's length ahead (put's two error
\* returns, and where ApplyOrder, CancelOrder and NullifyOrder call it).
THEOREM BookDropsExplained == Spec => []DropsExplained
<1>1. Init => DropsExplained  BY DEF Init, DropsExplained
<1>2. HistInv /\ DropsExplained /\ [Next]_vars => DropsExplained'
  <2> SUFFICES ASSUME HistInv, DropsExplained, [Next]_vars PROVE DropsExplained'
    OBVIOUS
  <2>1. ASSUME Grows, cancelled \subseteq cancelled',
               NEW S \in SUBSET dropped', dropped' = dropped \cup S,
               \A i \in S : \/ i \in cancelled'
                            \/ \E j \in DOMAIN submitted' : Shard(j) = Shard(i) /\ j >= i + Cap
        PROVE  DropsExplained'
    BY <2>1 DEF DropsExplained, Grows
  <2>2. ASSUME Grows, cancelled \subseteq cancelled', dropped' = dropped
        PROVE  DropsExplained'
    BY <2>2 DEF DropsExplained, Grows
  <2>3. ASSUME NEW o \in Orders, Receive(o) PROVE DropsExplained'
    <3>1. Deliver(o)
      BY <2>3 DEF Receive, ReceiveCancel, ReceiveApply, ReceiveNullify, ReceiveUnknown
    <3>2. Grows  BY <3>1, DeliverGrows
    <3>3. CASE ReceiveCancel(o) \/ ReceiveNullify(o) \/ ReceiveUnknown(o)
      <4>1. cancelled \subseteq cancelled' /\ dropped' = dropped
        BY <3>3 DEF ReceiveCancel, ReceiveNullify, ReceiveUnknown, tagVars
      <4> QED  BY <2>2, <3>2, <4>1
    <3>4. CASE ReceiveApply(o) /\ dropped' = dropped
      <4>1. cancelled' = cancelled  BY <3>4 DEF ReceiveApply
      <4> QED  BY <2>2, <3>2, <3>4, <4>1
    <3>5. CASE ReceiveApply(o) /\ dropped' # dropped
      <4>1. /\ ~ Accepts(windows[Shard(o.id)], o.id) /\ FirstNew(o)
            /\ dropped' = dropped \cup {o.id} /\ cancelled' = cancelled
        BY <3>5 DEF ReceiveApply, StartApply
      <4>2. o.id \in Ids /\ o.id \in Nat /\ Cap \in Nat  BY OrderType, CapAssumption
      <4> DEFINE w == windows[Shard(o.id)]
      <4>3. Shard(o.id) \in Shards /\ w \in Windows
        BY <4>2, ShardType DEF HistInv, IndInv, TypeOK
      <4>4. CASE o.id \in w.seen
        <5>1. o.id \in applied \cup nullified \cup cancelled
          BY <4>3, <4>4 DEF HistInv, WindowsKnow
        <5>2. o.id \in cancelled'  BY <4>1, <5>1 DEF FirstNew
        <5> QED  BY <2>1, <3>2, <4>1, <5>2
      <4>5. CASE o.id < w.lo
        <5>1. w.lo \in Nat /\ w.lo > 0  BY <4>2, <4>3, <4>5 DEF Windows
        <5>2. PICK j \in DOMAIN submitted : Shard(j) = Shard(o.id) /\ j + 1 = w.lo + Cap
          BY <4>3, <5>1 DEF HistInv, WindowsPushed
        <5>3. j \in Nat
          BY OrderBookAssumption DEF HistInv, IndInv, TypeOK, IsIdMap
        <5>4. j >= o.id + Cap  BY <4>2, <4>5, <5>1, <5>2, <5>3
        <5>5. j \in DOMAIN submitted'  BY <3>2 DEF Grows
        <5> QED  BY <2>1, <3>2, <4>1, <5>2, <5>4, <5>5
      <4>6. o.id \in w.seen \/ o.id < w.lo
        BY <4>1, <4>2, <4>3 DEF Accepts, Windows
      <4> QED  BY <4>4, <4>5, <4>6
    <3> QED  BY <2>3, <3>3, <3>4, <3>5 DEF Receive
  <2>4. ASSUME UNCHANGED <<submitted, cancelled, dropped>> PROVE DropsExplained'
    <3>1. Grows  BY <2>4 DEF Grows
    <3> QED  BY <2>2, <2>4, <3>1
  <2>5. CASE Match \/ Rest \/ Finish \/ CancelRest
    <3>1. UNCHANGED <<submitted, cancelled, dropped>>
      BY <2>5 DEF Match, MatchMaker, Rest, Finish, CancelRest, envVars, tagVars
    <3> QED  BY <2>4, <3>1
  <2>6. CASE UNCHANGED vars  BY <2>4, <2>6 DEF vars, envVars, tagVars
  <2> QED  BY <2>3, <2>5, <2>6 DEF Next
<1> QED  BY <1>1, <1>2, BookHistory, PTL DEF Spec
-----------------------------------------------------------------------------
(* Fill or kill: the dry run of IsOrderWillFullMatch and the loop that      *)
(* follows it agree.                                                        *)

IsFok(o) == o.type = "limit" /\ o.tif = "FOK"

\* Each depth holds finitely many orders.
FiniteBook == \A s \in Sides : IsFiniteSet(queue[s])

\* The makers that an FOK order in the loop still reaches hold what it asks
\* for; out of the loop it has traded in full.
FokInv ==
    /\ FiniteBook
    /\ pc = "match" /\ IsFok(taker) =>
            taker.size <= SizeOf(Opposite(taker.side), Crossing(taker.side, taker.price))
    /\ \A i \in applied : IsFok(submitted[i]) =>
            (pc = "match" /\ taker.id = i) \/ filled[i] = submitted[i].size

\* A trade takes its size from the makers that the taker reaches.
LEMMA TradeTakesSize ==
    ASSUME HistInv, FiniteBook, NEW k \in queue[Opposite(taker.side)], MatchMaker(k),
           NEW side, side = taker.side, NEW price, price = taker.price,
           NEW opp, opp = Opposite(side), NEW m, m = orders[opp][k.orderId],
           NEW n, n = TradeSize(taker, m)
    PROVE  /\ FiniteBook'
           /\ SizeOf(opp, Crossing(side, price))' = SizeOf(opp, Crossing(side, price)) - n
<1>1. Iteration(k, opp, m, n)  BY MatchEffect
<1>2. BookInv  BY IndInvParts DEF HistInv
<1>3. /\ opp \in Sides /\ m \in BookOrder /\ m.id = k.orderId /\ m = orders[opp][m.id]
      /\ m.id \in DOMAIN orders[opp]
      /\ pricesCross(side, price, k.price) /\ n \in Nat /\ n <= m.size /\ m.size \in Nat
  BY <1>1 DEF Iteration, BookOrder
<1>4. /\ \A j \in DOMAIN orders'[opp] \ {m.id} : orders'[opp][j] = orders[opp][j]
      /\ m.size # n => orders'[opp][m.id] = [m EXCEPT !.size = m.size - n]
  BY <1>1 DEF Iteration
<1>5. k \in queue[opp] /\ k = KeyOf(m)  BY <1>2, <1>3, KeyFindsOrder
<1>6. decrSize(opp, m, n)  BY DEF MatchMaker
<1>7. /\ queue \in [Sides -> SUBSET Key]
      /\ m.size = n => queue' = [queue EXCEPT ![opp] = queue[opp] \ {k}]
      /\ m.size # n => queue' = queue
  BY <1>2, <1>5, <1>6 DEF decrSize, BookInv, BookType
<1>8. /\ m.size = n => queue'[opp] = queue[opp] \ {k}
      /\ m.size # n => queue'[opp] = queue[opp]
      /\ \A s \in Sides : queue'[s] \subseteq queue[s]
  BY <1>3, <1>7
<1>9. FiniteBook'
  BY <1>8, FS_Subset DEF FiniteBook
<1> DEFINE Q == queue[opp]
           F == [j \in Q |-> orders[opp][j.orderId].size]
           X == {j \in Q : pricesCross(side, price, j.price)}
           G == [j \in queue'[opp] |-> orders'[opp][j.orderId].size]
           Y == {j \in queue'[opp] : pricesCross(side, price, j.price)}
<1>10. /\ SizeOf(opp, Crossing(side, price)) = SumFunctionOnSet(F, X)
       /\ SizeOf(opp, Crossing(side, price))' = SumFunctionOnSet(G, Y)
  BY DEF SizeOf, Crossing
<1>11. \A j \in Q : /\ j.orderId \in DOMAIN orders[opp]
                    /\ orders[opp][j.orderId].size \in Nat
                    /\ j # k => j.orderId # k.orderId
  <2>1. \A j \in queue[opp] : /\ j.orderId \in DOMAIN orders[opp]
                              /\ orders[opp][j.orderId] \in BookOrder
                              /\ j = KeyOf(orders[opp][j.orderId])
    BY <1>2, <1>3, KeyFindsOrder
  <2>2. \A o \in BookOrder : o.size \in Nat  BY DEF BookOrder
  <2> QED  BY <1>5, <2>1, <2>2
<1>12. \A j \in queue'[opp] \ {k} : j \in Q /\ orders'[opp][j.orderId] = orders[opp][j.orderId]
  <2>1. \A t \in Sides : \A j \in queue'[t] : j.orderId \in DOMAIN orders'[t]
    <3>1. IndInv'  BY MatchMakerIndInv DEF HistInv
    <3>2. \A t \in Sides : queue'[t] = {KeyOf(orders'[t][i]) : i \in DOMAIN orders'[t]}
      BY <3>1 DEF IndInv, QueueMirrorsOrders
    <3>3. \A t \in Sides : \A i \in DOMAIN orders'[t] : orders'[t][i].id = i
      BY <3>1 DEF IndInv, RestingOrders
    <3> QED  BY <3>2, <3>3 DEF KeyOf
  <2> QED  BY <1>3, <1>4, <1>8, <1>11, <2>1
<1>13. IsFiniteSet(X) /\ k \in X /\ F[k] = m.size /\ \A j \in X : F[j] \in Int /\ F[j] \in Nat
  <2>1. IsFiniteSet(Q)  BY <1>3 DEF FiniteBook
  <2>2. X \in SUBSET Q  OBVIOUS
  <2>3. IsFiniteSet(X)  BY <2>1, <2>2, FS_Subset
  <2>4. k \in X /\ F[k] = m.size  BY <1>3, <1>5
  <2>5. \A j \in X : F[j] \in Nat  BY <1>11
  <2> HIDE DEF F, X
  <2> QED  BY <2>3, <2>4, <2>5
<1>14. CASE m.size = n
  <2>1. Y = X \ {k} /\ \A j \in Y : G[j] = F[j]  BY <1>8, <1>12, <1>14
  <2> HIDE DEF F, G, X, Y
  <2>2. IsFiniteSet(Y)  BY <1>13, <2>1, FS_RemoveElement
  <2>3. SumFunctionOnSet(G, Y) = SumFunctionOnSet(F, Y)  BY <2>1, <2>2, SumAgree
  <2>4. SumFunctionOnSet(F, X) = F[k] + SumFunctionOnSet(F, X \ {k})  BY <1>13, SumRemove
  <2>5. SumFunctionOnSet(F, Y) \in Nat
    <3>1. \A j \in Y : F[j] \in Nat  BY <1>13, <2>1
    <3> QED  BY <2>2, <3>1, SumNat
  <2> QED  BY <1>3, <1>9, <1>10, <1>13, <1>14, <2>1, <2>3, <2>4, <2>5
<1>15. CASE m.size # n
  <2>1. Y = X /\ \A j \in X \ {k} : F[j] = G[j]  BY <1>8, <1>12, <1>15
  <2>2. G[k] = m.size - n /\ G[k] \in Int
    <3>1. k \in queue'[opp]  BY <1>5, <1>8, <1>15
    <3>2. orders'[opp][k.orderId].size = m.size - n  BY <1>3, <1>4, <1>15 DEF BookOrder
    <3> QED  BY <1>3, <3>1, <3>2
  <2>3. \A j \in X : F[j] \in Int /\ G[j] \in Int  BY <1>13, <2>1, <2>2
  <2> HIDE DEF F, G, X, Y
  <2>4. SumFunctionOnSet(G, X) = SumFunctionOnSet(F, X) - F[k] + G[k]
    BY <1>13, <2>1, <2>3, SumChange
  <2>5. SumFunctionOnSet(F, X) \in Nat  BY <1>13, SumNat
  <2> QED  BY <1>3, <1>9, <1>10, <1>13, <2>1, <2>2, <2>4, <2>5
<1> QED  BY <1>14, <1>15

\* Orders that leave the loop, or are not in it, keep what they traded.
LEMMA FokKeeps ==
    ASSUME HistInv, HistInv', FokInv, Grows, applied' = applied, FiniteBook', pc' # "match",
           \A i \in Ids : filled'[i] = filled[i],
           \A i \in applied : pc = "match" /\ taker.id = i /\ IsFok(submitted[i])
                                => filled[i] = submitted[i].size
    PROVE  FokInv'
<1>1. applied \subseteq Ids /\ applied \subseteq DOMAIN submitted
  BY DEF HistInv, Sent, IndInv, TypeOK
<1> QED  BY <1>1 DEF FokInv, Grows

\* Every step keeps the FOK invariant.
LEMMA NextFokInv == ASSUME HistInv, HistInv', FokInv, [Next]_vars PROVE FokInv'
<1>1. /\ applied \subseteq Ids /\ applied \subseteq DOMAIN submitted
      /\ \A i \in DOMAIN submitted : submitted[i] \in Orders /\ submitted[i].size \in Nat
      /\ filled \in [Ids -> Nat] /\ FiniteBook
  <2>1. \A i \in DOMAIN submitted : submitted[i] \in Orders
    BY DEF HistInv, IndInv, TypeOK, IsIdMap
  <2> QED  BY <2>1, OrderType DEF HistInv, Sent, IndInv, TypeOK, FokInv, BookOrder
<1>2. BookInv /\ ControlType /\ TakerOffBook  BY IndInvParts DEF HistInv
<1>3. ASSUME NEW o \in Orders, Receive(o) PROVE FokInv'
  <2>1. Deliver(o) /\ pc = "idle"
    BY <1>3 DEF Receive, ReceiveCancel, ReceiveApply, ReceiveNullify, ReceiveUnknown, Deliver
  <2>2. Grows /\ submitted'[o.id] = o  BY <2>1, DeliverGrows
  <2>3. filled' = filled /\ \A s \in Sides : queue'[s] \subseteq queue[s]
    <3>1. filled' = filled
      BY <1>3 DEF Receive, ReceiveCancel, ReceiveApply, ReceiveNullify, ReceiveUnknown, fillVars
    <3>2. CASE ReceiveCancel(o)
      <4>1. /\ queue \in [Sides -> SUBSET Key]
            /\ \/ queue' = queue
               \/ \E K : queue' = [queue EXCEPT ![o.side] = queue[o.side] \ K]
        BY <1>2, <3>2 DEF ReceiveCancel, CancelOrder, decrSize, BookInv, BookType
      <4> QED  BY <3>1, <4>1
    <3>3. CASE ~ ReceiveCancel(o)
      <4>1. queue' = queue
        BY <1>3, <3>3 DEF Receive, ReceiveApply, ReceiveNullify, ReceiveUnknown
      <4> QED  BY <3>1, <4>1
    <3> QED  BY <3>2, <3>3
  <2>4. FiniteBook'  BY <1>1, <2>3, FS_Subset DEF FiniteBook
  <2>5. CASE pc' # "match"
    <3>1. applied' = applied
      BY <1>3, <2>1, <2>5 DEF Receive, ReceiveCancel, ReceiveApply, ReceiveNullify,
                              ReceiveUnknown, StartApply, tagVars
    <3> QED  BY <2>1, <2>2, <2>3, <2>4, <2>5, <3>1, FokKeeps
  <2>6. CASE pc' = "match"
    <3>1. /\ Applies(o) /\ taker' = prepareTakerOrder(o) /\ applied' = applied \cup {o.id}
          /\ UNCHANGED <<orders, queue>>
      BY <1>3, <2>1, <2>6 DEF Receive, ReceiveCancel, ReceiveApply, ReceiveNullify,
                              ReceiveUnknown, StartApply
    <3>2. taker'.id = o.id /\ taker'.type = o.type /\ taker'.tif = o.tif
      BY <3>1, OrderType, TakerFields, OrderBookAssumption
    <3>3. ASSUME IsFok(taker)'
          PROVE  taker'.size <= SizeOf(Opposite(taker.side), Crossing(taker.side, taker.price))'
      <4>1. o.type = "limit" /\ o.tif = "FOK"  BY <3>2, <3>3 DEF IsFok
      <4>2. taker' = o  BY <3>1, <4>1, OrderType
      <4>3. SizeOf(Opposite(o.side), Crossing(o.side, o.price)) >= o.size
        BY <3>1, <4>1 DEF Applies, IsOrderWillFullMatch
      <4>4. SizeOf(Opposite(o.side), Crossing(o.side, o.price))'
                = SizeOf(Opposite(o.side), Crossing(o.side, o.price))
        BY <3>1 DEF SizeOf, Crossing
      <4> QED  BY <4>2, <4>3, <4>4
    <3>4. \A i \in applied' : IsFok(submitted'[i]) =>
              (pc' = "match" /\ taker'.id = i) \/ filled'[i] = submitted'[i].size
      BY <1>1, <2>1, <2>2, <2>3, <2>6, <3>1, <3>2 DEF FokInv, Grows
    <3> QED  BY <2>4, <3>3, <3>4 DEF FokInv
  <2> QED  BY <2>5, <2>6
<1>4. ASSUME NEW k \in queue[Opposite(taker.side)], MatchMaker(k) PROVE FokInv'
  <2>1. PICK side : side = taker.side  OBVIOUS
  <2>2. PICK price : price = taker.price  OBVIOUS
  <2>3. PICK opp : opp = Opposite(side)  OBVIOUS
  <2>4. PICK m : m = orders[opp][k.orderId]  OBVIOUS
  <2>5. PICK n : n = TradeSize(taker, m)  OBVIOUS
  <2>6. Iteration(k, opp, m, n)  BY <1>4, <2>1, <2>3, <2>4, <2>5, MatchEffect
  <2>7. /\ FiniteBook'
        /\ SizeOf(opp, Crossing(side, price))' = SizeOf(opp, Crossing(side, price)) - n
    BY <1>1, <1>4, <2>1, <2>2, <2>3, <2>4, <2>5, TradeTakesSize
  <2>8. /\ pc = "match" /\ pc' = "match" /\ taker \in BookOrder /\ taker.size \in Nat
        /\ n \in Nat /\ submitted' = submitted /\ applied' = applied
        /\ taker'.id = taker.id /\ taker'.side = side /\ taker'.price = price
        /\ taker'.type = taker.type /\ taker'.tif = taker.tif
    BY <2>1, <2>2, <2>6 DEF Iteration, BookOrder
  <2>9. ASSUME IsFok(taker)'
        PROVE  taker'.size <= SizeOf(Opposite(taker.side), Crossing(taker.side, taker.price))'
    <3>1. IsFok(taker)  BY <2>8, <2>9 DEF IsFok
    <3>2. taker.size <= SizeOf(opp, Crossing(side, price))
      BY <2>1, <2>2, <2>3, <2>8, <3>1 DEF FokInv
    <3>3. ~ ByFunds(taker)  BY <3>1 DEF IsFok, ByFunds
    <3>4. taker'.size = taker.size - n
      BY <2>6, <2>8, <3>3 DEF Iteration, BookOrder
    <3>5. SizeOf(opp, Crossing(side, price)) \in Nat
      <4> DEFINE F == [j \in queue[opp] |-> orders[opp][j.orderId].size]
                 X == {j \in queue[opp] : pricesCross(side, price, j.price)}
      <4>1. opp \in Sides  BY <2>6 DEF Iteration
      <4>2. \A j \in X : F[j] \in Nat  BY <1>2, <4>1, KeyFindsOrder DEF BookOrder
      <4>3. X \in SUBSET queue[opp]  OBVIOUS
      <4>4. IsFiniteSet(X)  BY <1>1, <4>1, <4>3, FS_Subset DEF FiniteBook
      <4>5. SizeOf(opp, Crossing(side, price)) = SumFunctionOnSet(F, X)
        BY <2>3 DEF SizeOf, Crossing
      <4> HIDE DEF F, X
      <4> QED  BY <4>2, <4>4, <4>5, SumNat
    <3>6. SizeOf(Opposite(taker.side), Crossing(taker.side, taker.price))'
              = SizeOf(opp, Crossing(side, price))'
      BY <2>3, <2>8 DEF SizeOf, Crossing
    <3> QED  BY <2>7, <2>8, <3>2, <3>4, <3>5, <3>6
  <2>10. \A i \in applied : IsFok(submitted[i]) =>
             taker.id = i \/ filled'[i] = submitted[i].size
    <3> SUFFICES ASSUME NEW i \in applied, IsFok(submitted[i]), taker.id # i
                 PROVE  filled'[i] = submitted[i].size
      OBVIOUS
    <3>1. filled[i] = submitted[i].size  BY <2>8 DEF FokInv
    <3>2. filled'[i] >= filled[i] /\ filled'[i] \in Nat
      <4>1. filled' = [j \in Ids |-> filled[j] + IF j \in {taker.id, m.id} THEN n ELSE 0]
        BY <2>6 DEF Iteration, RecordMatch
      <4> QED  BY <1>1, <2>8, <4>1
    <3>3. filled'[i] <= submitted'[i].size
      <4>1. ~ ByFunds(submitted'[i])  BY <2>8 DEF ByFunds, IsFok
      <4> QED  BY <2>8, <4>1 DEF HistInv, SizesExact
    <3>4. submitted[i].size \in Nat  BY <1>1
    <3> QED  BY <2>8, <3>1, <3>2, <3>3, <3>4
  <2> QED  BY <2>7, <2>8, <2>9, <2>10 DEF FokInv
<1>5. CASE Rest
  <2>1. PICK t : t = taker  OBVIOUS
  <2>2. /\ pc = "match" /\ pc' # "match" /\ LoopOver /\ t.type = "limit" /\ t.size > 0
        /\ t \in BookOrder /\ t.side \in Sides /\ t.size \in Nat
        /\ add(t.side, t) /\ UNCHANGED <<filled, submitted, applied>>
    BY <1>2, <1>5, <2>1 DEF Rest, LoopOver, EndApply, envVars, fillVars, tagVars, ControlType,
                            BookOrder
  <2>3. FiniteBook'
    <3>1. queue \in [Sides -> SUBSET Key]  BY <1>2 DEF BookInv, BookType
    <3>2. queue' = [queue EXCEPT ![t.side] = queue[t.side] \cup {KeyOf(t)}]
      BY <2>2 DEF add
    <3>3. \A s \in Sides : queue'[s] = IF s = t.side THEN queue[s] \cup {KeyOf(t)} ELSE queue[s]
      BY <2>2, <3>1, <3>2
    <3>4. \A s \in Sides : IsFiniteSet(queue[s]) /\ IsFiniteSet(queue[s] \cup {KeyOf(t)})
      BY <1>1, FS_AddElement DEF FiniteBook
    <3> QED  BY <3>3, <3>4 DEF FiniteBook
  <2>4. ~ IsFok(t)
    <3> SUFFICES ASSUME IsFok(t) PROVE FALSE
      OBVIOUS
    <3>1. \A k \in queue[Opposite(t.side)] : ~ pricesCross(t.side, t.price, k.price)
      BY <1>2, <2>1, <2>2, NothingCrosses
    <3>2. Crossing(t.side, t.price) = {}  BY <3>1 DEF Crossing
    <3>3. SizeOf(Opposite(t.side), Crossing(t.side, t.price)) = 0
      BY <3>2, SumEmpty DEF SizeOf
    <3>4. t.size <= 0  BY <2>1, <2>2, <3>3 DEF FokInv
    <3> QED  BY <2>2, <3>4
  <2>5. Grows  BY <2>2 DEF Grows
  <2>6. \A i \in applied : taker.id = i => ~ IsFok(submitted[i])
    BY <2>1, <2>2, <2>4 DEF IsFok, HistInv, TakerOrigin
  <2> QED  BY <2>2, <2>3, <2>5, <2>6, FokKeeps
<1>6. CASE Finish
  <2>1. /\ pc = "match" /\ pc' # "match" /\ ~ (taker.type = "limit" /\ taker.size > 0)
        /\ taker.size \in Nat
        /\ UNCHANGED <<queue, filled, submitted, applied>>
    BY <1>2, <1>6 DEF Finish, LoopOver, EndApply, envVars, fillVars, tagVars, ControlType,
                      BookOrder
  <2>2. FiniteBook'  BY <1>1, <2>1 DEF FiniteBook
  <2>3. Grows  BY <2>1 DEF Grows
  <2>4. ASSUME NEW i \in applied, taker.id = i, IsFok(submitted[i])
        PROVE  filled[i] = submitted[i].size
    <3>1. taker.type = "limit"  BY <2>1, <2>4 DEF HistInv, TakerOrigin, IsFok
    <3>2. ~ ByFunds(submitted[i])  BY <2>4 DEF ByFunds, IsFok
    <3>3. InHand(i) /\ Working(i) = taker.size  BY <2>1, <2>4 DEF InHand, Working
    <3>4. filled[i] + taker.size = submitted[i].size  BY <3>2, <3>3 DEF HistInv, SizesExact
    <3> QED  BY <1>1, <2>1, <3>1, <3>4
  <2> QED  BY <2>1, <2>2, <2>3, <2>4, FokKeeps
<1>7. CASE CancelRest
  <2>1. /\ pc = "rest" /\ pc' # "match" /\ CancelOrder(taker, logs)
        /\ UNCHANGED <<filled, submitted, applied>>
    BY <1>7 DEF CancelRest, envVars, fillVars, tagVars
  <2>2. \A s \in Sides : queue'[s] \subseteq queue[s]
    <3>1. /\ queue \in [Sides -> SUBSET Key]
          /\ \/ queue' = queue
             \/ \E K : queue' = [queue EXCEPT ![taker.side] = queue[taker.side] \ K]
      BY <1>2, <2>1 DEF CancelOrder, decrSize, BookInv, BookType
    <3> QED  BY <3>1
  <2>3. FiniteBook'  BY <1>1, <2>2, FS_Subset DEF FiniteBook
  <2>4. Grows  BY <2>1 DEF Grows
  <2> QED  BY <2>1, <2>3, <2>4, FokKeeps
<1>8. CASE UNCHANGED vars
  <2>1. UNCHANGED <<orders, queue, pc, taker, filled, submitted, applied>>
    BY <1>8 DEF vars, bookVars, envVars, fillVars, tagVars
  <2> QED  BY <2>1 DEF FokInv, FiniteBook, IsFok, SizeOf, Crossing
<1> QED  BY <1>3, <1>4, <1>5, <1>6, <1>7, <1>8 DEF Next, Match

\* The times in force are kept: FOK trades in full or not at all, nothing of
\* an IOC order stays, a GTX buy never takes (runApplier, ApplyOrder and the
\* dry runs IsOrderWillFullMatch and IsOrderWillNotMatch).
THEOREM BookTimeInForceKept == Spec => []TimeInForceKept
<1>1. Init => FokInv
  <2> SUFFICES ASSUME Init PROVE FokInv
    OBVIOUS
  <2>1. \A s \in Sides : queue[s] = {}  BY DEF Init
  <2>2. FiniteBook  BY <2>1, FS_EmptySet DEF FiniteBook
  <2> QED  BY <2>2 DEF Init, FokInv
<1>2. HistInv /\ HistInv' /\ FokInv /\ [Next]_vars => FokInv'  BY NextFokInv
<1>3. HistInv /\ FokInv => TimeInForceKept
  BY DEF HistInv, FokInv, IsFok, TimeInForceKept, GtxBuyStays, IocRests
<1> QED  BY <1>1, <1>2, <1>3, BookHistory, PTL DEF Spec
-----------------------------------------------------------------------------
(* The book implements MatchingSpec.                                        *)

\* NullifyOrder always leaves a Done log, and never answers the order in hand.
Answered ==
    /\ \A i \in nullified : closed[i] > 0
    /\ pc = "match" => taker.id \notin nullified

LEMMA NextAnswered == ASSUME HistInv, HistInv', Answered, [Next]_vars PROVE Answered'
<1>1. /\ nullified \subseteq Ids /\ closed \in [Ids -> Nat] /\ unfilled \in [Ids -> Nat]
      /\ BookInv /\ ControlType
  BY IndInvParts DEF HistInv, TagType, DoneType
<1>2. ASSUME nullified' = nullified, \A i \in Ids : closed'[i] >= closed[i],
             pc' = "match" => pc = "match" /\ taker'.id = taker.id
      PROVE  Answered'
  <2>1. closed' \in [Ids -> Nat]  BY DEF HistInv, IndInv, TypeOK
  <2>2. ASSUME NEW i \in nullified PROVE closed'[i] > 0
    <3>1. i \in Ids /\ closed[i] > 0 /\ closed[i] \in Nat /\ closed'[i] >= closed[i]
      BY <1>1, <1>2 DEF Answered
    <3>2. closed'[i] \in Nat  BY <2>1, <3>1
    <3> QED  BY <3>1, <3>2
  <2>3. pc' = "match" => taker'.id \notin nullified  BY <1>2 DEF Answered
  <2> QED  BY <1>2, <2>2, <2>3 DEF Answered
<1>3. ASSUME NEW o \in BookOrder, NEW sofar, CancelOrder(o, sofar)
      PROVE  \A i \in Ids : closed'[i] >= closed[i]
  BY <1>1, <1>3, CancelEffect
<1>4. ASSUME NEW o \in Orders, Receive(o) PROVE Answered'
  <2>1. o \in BookOrder /\ o.id \in Ids /\ prepareTakerOrder(o).id = o.id  BY OrderType
  <2>2. CASE ReceiveCancel(o)
    <3>1. nullified' = nullified /\ pc' = "idle" /\ CancelOrder(o, << >>)
      BY <2>2 DEF ReceiveCancel, Deliver
    <3> QED  BY <1>2, <1>3, <2>1, <3>1
  <2>3. CASE ReceiveApply(o)
    <3>1. nullified' = nullified /\ closed' = closed /\ pc = "idle"
      BY <2>3 DEF ReceiveApply, Deliver, doneVars
    <3>2. CASE Accepts(windows[Shard(o.id)], o.id)
      <4>1. o.id \notin nullified  BY <3>2 DEF HistInv, WindowsKnow, Tagged
      <4>2. taker' = prepareTakerOrder(o)  BY <2>3, <3>2 DEF ReceiveApply, StartApply
      <4> QED  BY <2>1, <3>1, <4>1, <4>2 DEF Answered
    <3>3. CASE ~ Accepts(windows[Shard(o.id)], o.id)
      <4>1. pc' # "match"  BY <2>3, <3>1, <3>3 DEF ReceiveApply, StartApply
      <4> QED  BY <1>1, <1>2, <3>1, <4>1
    <3> QED  BY <3>2, <3>3
  <2>4. CASE ReceiveNullify(o)
    <3>1. /\ nullified' = nullified \cup {o.id} /\ RecordDone(o.id, o.size) /\ pc' = "idle"
      BY <2>4 DEF ReceiveNullify, Deliver
    <3>2. closed' = [closed EXCEPT ![o.id] = closed[o.id] + 1]  BY <3>1 DEF RecordDone
    <3> QED  BY <1>1, <2>1, <3>1, <3>2 DEF Answered
  <2>5. CASE ReceiveUnknown(o)
    <3>1. nullified' = nullified /\ closed' = closed /\ pc' = "idle"
      BY <2>5 DEF ReceiveUnknown, Deliver, doneVars, tagVars
    <3> QED  BY <1>1, <1>2, <3>1
  <2> QED  BY <1>4, <2>2, <2>3, <2>4, <2>5 DEF Receive
<1>5. ASSUME NEW k \in queue[Opposite(taker.side)], MatchMaker(k) PROVE Answered'
  <2>1. PICK opp : opp = Opposite(taker.side)  OBVIOUS
  <2>2. PICK m : m = orders[opp][k.orderId]  OBVIOUS
  <2>3. PICK n : n = TradeSize(taker, m)  OBVIOUS
  <2>4. Iteration(k, opp, m, n)  BY <1>5, <2>1, <2>2, <2>3, MatchEffect
  <2>5. /\ nullified' = nullified /\ pc = "match" /\ taker \in BookOrder
        /\ closed' = closed \/ RecordDone(m.id, 0)
        /\ taker'.id = taker.id
    BY <2>4 DEF Iteration, BookOrder
  <2>6. \A i \in Ids : closed'[i] >= closed[i]
    BY <1>1, <2>5 DEF RecordDone
  <2> QED  BY <1>2, <2>5, <2>6
<1>6. CASE Rest \/ Finish
  <2>1. nullified' = nullified /\ pc' # "match" /\ (closed' = closed \/ RecordDone(taker.id, 0))
    BY <1>6 DEF Rest, Finish, EndApply, tagVars, doneVars
  <2>2. \A i \in Ids : closed'[i] >= closed[i]  BY <1>1, <2>1 DEF RecordDone
  <2> QED  BY <1>2, <2>1, <2>2
<1>7. CASE CancelRest
  <2>1. nullified' = nullified /\ pc' = "idle" /\ CancelOrder(taker, logs) /\ taker \in BookOrder
    BY <1>1, <1>7 DEF CancelRest, tagVars, ControlType
  <2> QED  BY <1>2, <1>3, <2>1
<1>8. CASE UNCHANGED vars
  BY <1>8 DEF vars, doneVars, tagVars, Answered
<1> QED  BY <1>4, <1>5, <1>6, <1>7, <1>8 DEF Next, Match

\* What MatchingSpec sees of an order that rests.
LEMMA OpenLive ==
    ASSUME HistInv, NEW s \in Sides, NEW i \in DOMAIN orders[s]
    PROVE  /\ i \in Ids /\ i \in applied /\ i \in DOMAIN submitted
           /\ submitted[i].side = s /\ submitted[i].size > 0 /\ submitted[i].price > 0
           /\ submitted[i].price = orders[s][i].price
           /\ LiveOf(i).phase = "open"
           /\ LiveOf(i).size = orders[s][i].size /\ LiveOf(i).size \in Nat
<1>1. /\ i \in applied /\ submitted[i].side = s /\ submitted[i].type = "limit"
      /\ submitted[i].price = orders[s][i].price
  BY DEF HistInv, BookOrigins
<1>2. i \in DOMAIN submitted /\ submitted[i] \in Orders /\ i \in Ids
  BY <1>1 DEF HistInv, Sent, IndInv, TypeOK, IsIdMap
<1>3. submitted[i].size > 0 /\ submitted[i].price > 0 /\ submitted[i].size \in Nat
  BY <1>1, <1>2, OrderBookAssumption DEF ValidOrder, BookOrder
<1>4. ~ (pc = "match" /\ taker.id = i)  BY DEF HistInv, IndInv, TakerOffBook
<1>5. filled[i] + orders[s][i].size = submitted[i].size
  BY <1>1, <1>4 DEF HistInv, SizesExact, InHand, Working, OnBook, ByFunds
<1>6. filled[i] \in Nat /\ orders[s][i].size \in Nat
  BY <1>2, IndInvParts, OrderHasKey DEF HistInv, FillType, BookOrder
<1>7. LiveOf(i).phase = "open"  BY <1>1, <1>2 DEF LiveOf, PhaseOf, OnBook
<1>8. LiveOf(i).size = submitted[i].size - filled[i]  BY <1>2, <1>3 DEF LiveOf
<1> QED  BY <1>1, <1>2, <1>3, <1>5, <1>6, <1>7, <1>8

\* What MatchingSpec sees of the order in hand.
LEMMA TakerLive ==
    ASSUME HistInv, Answered, pc = "match"
    PROVE  /\ taker.id \in Ids /\ taker.id \in DOMAIN submitted /\ submitted[taker.id] \in Orders
           /\ submitted[taker.id].side = taker.side
           /\ closed[taker.id] = 0 /\ ~ OnBook(submitted[taker.id].side, taker.id)
           /\ LiveOf(taker.id).phase \in {"sent", "taking"}
           /\ ByFunds(taker) <=> submitted[taker.id].size = 0
           /\ ~ ByFunds(taker) => LiveOf(taker.id).size = taker.size
           /\ ByFunds(taker) => LiveOf(taker.id).size = 0 /\ LiveOf(taker.id).funds = taker.funds
<1>1. PICK i : i = taker.id  OBVIOUS
<1>2. taker \in BookOrder /\ taker.size \in Nat /\ taker.funds \in Nat /\ i \in Ids
  BY <1>1, IndInvParts DEF HistInv, ControlType, BookOrder
<1>3. /\ i \in applied /\ i \in DOMAIN submitted /\ submitted[i] \in Orders
      /\ submitted[i].side = taker.side /\ submitted[i].type = taker.type
  BY <1>1 DEF HistInv, TakerOrigin, IndInv, TypeOK, IsIdMap
<1>4. /\ submitted[i] \in BookOrder /\ ValidOrder(submitted[i])
      /\ submitted[i].size \in Nat /\ submitted[i].funds \in Nat
      /\ submitted[i].type \in Types /\ submitted[i].side \in Sides
  BY <1>3, OrderBookAssumption DEF BookOrder
<1>5. ByFunds(taker) <=> ByFunds(submitted[i])  BY <1>3 DEF ByFunds
<1>6. ByFunds(submitted[i]) <=> submitted[i].size = 0
  <2> DEFINE o == submitted[i]
  <2>1. CASE o.type = "limit"  BY <1>4, <2>1 DEF ValidOrder, ByFunds
  <2>2. CASE o.type = "market" /\ o.side = "buy"  BY <1>4, <2>2 DEF ValidOrder, ByFunds
  <2>3. CASE o.type = "market" /\ o.side = "sell"  BY <1>4, <2>3 DEF ValidOrder, ByFunds
  <2> QED  BY <1>4, <2>1, <2>2, <2>3 DEF Types, Sides
<1>7. filled[i] \in Nat /\ spent[i] \in Nat  BY <1>2 DEF HistInv, IndInv, TypeOK
<1>8. InHand(i) /\ Working(i) = taker.size  BY <1>1 DEF InHand, Working
<1>9. closed[i] = 0  BY <1>1, <1>3, <1>8 DEF HistInv, EndsOnce, Answered
<1>10. ~ OnBook(submitted[i].side, i)
  BY <1>1, <1>4 DEF HistInv, IndInv, TakerOffBook, OnBook
<1>11. LiveOf(i).phase \in {"sent", "taking"}
  BY <1>3, <1>9, <1>10 DEF LiveOf, PhaseOf
<1>12. CASE ~ ByFunds(taker)
  <2>1. filled[i] + taker.size = submitted[i].size
    BY <1>3, <1>5, <1>8, <1>12 DEF HistInv, SizesExact
  <2>2. LiveOf(i).size = submitted[i].size - filled[i]
    BY <1>3, <1>4, <1>5, <1>6, <1>12 DEF LiveOf
  <2> QED  BY <1>1, <1>2, <1>3, <1>4, <1>5, <1>6, <1>7, <1>9, <1>10, <1>11, <1>12, <2>1, <2>2
<1>13. CASE ByFunds(taker)
  <2>1. spent[i] + taker.funds = submitted[i].funds
    BY <1>1, <1>3, <1>5, <1>13 DEF HistInv, FundsExact
  <2>2. LiveOf(i).size = 0 /\ LiveOf(i).funds = submitted[i].funds - spent[i]
    BY <1>3, <1>5, <1>6, <1>13 DEF LiveOf
  <2> QED  BY <1>1, <1>2, <1>3, <1>4, <1>5, <1>6, <1>7, <1>9, <1>10, <1>11, <1>13, <2>1, <2>2
<1> QED  BY <1>12, <1>13

\* No order but the one in hand is being taken.
LEMMA NobodyTaking ==
    ASSUME HistInv, Answered, NEW j \in Ids, ~ (pc = "match" /\ taker.id = j)
    PROVE  LiveOf(j).phase # "taking"
<1>1. CASE j \notin DOMAIN submitted  BY <1>1 DEF LiveOf
<1>2. CASE j \in DOMAIN submitted /\ j \notin took  BY <1>2 DEF LiveOf, PhaseOf
<1>3. CASE j \in DOMAIN submitted /\ j \in took
  <2>1. j \in applied /\ closed[j] \in Nat  BY <1>3 DEF HistInv, Sent, IndInv, TypeOK
  <2>2. OnBook(submitted[j].side, j) \/ closed[j] > 0
    BY <2>1 DEF HistInv, EndsOnce, InHand, Answered
  <2> QED  BY <1>3, <2>2 DEF LiveOf, PhaseOf
<1> QED  BY <1>1, <1>2, <1>3

\* A step that leaves the orders, as MatchingSpec sees them, or changes one.
LEMMA MapQuiet ==
    ASSUME \A j \in Ids : LiveOf(j)' = LiveOf(j)
    PROVE  [j \in Ids |-> LiveOf(j)]' = [j \in Ids |-> LiveOf(j)]
OBVIOUS

LEMMA MapSubmit ==
    ASSUME NEW i \in Ids, logSeq' = logSeq, LiveOf(i).phase = "none",
           LiveOf(i)' = [size |-> RequestOf(i)'.size, funds |-> RequestOf(i)'.funds, phase |-> "sent"],
           \A j \in Ids \ {i} : LiveOf(j)' = LiveOf(j)
    PROVE  Matching!Submit(i)
BY DEF Matching!Submit

LEMMA MapRefuse ==
    ASSUME NEW i \in Ids, logSeq' = logSeq + 1, LiveOf(i).phase = "none",
           LiveOf(i)' = [size |-> RequestOf(i)'.size, funds |-> RequestOf(i)'.funds, phase |-> "done"],
           \A j \in Ids \ {i} : LiveOf(j)' = LiveOf(j)
    PROVE  Matching!Refuse(i)
BY DEF Matching!Refuse

LEMMA MapFinish ==
    ASSUME NEW i \in Ids, logSeq' = logSeq + 1,
           LiveOf(i).phase \in {"sent", "taking", "open"},
           \A j \in Ids \ {i} : LiveOf(j).phase # "taking",
           LiveOf(i)' = [LiveOf(i) EXCEPT !.phase = "done"],
           \A j \in Ids \ {i} : LiveOf(j)' = LiveOf(j)
    PROVE  Matching!Finish(i)
BY DEF Matching!Finish, Matching!IsTaken, Matching!CanTake

LEMMA MapOpen ==
    ASSUME NEW i \in Ids, logSeq' = logSeq + 1,
           LiveOf(i).phase \in {"sent", "taking"},
           \A j \in Ids \ {i} : LiveOf(j).phase # "taking",
           RequestOf(i).price > 0, LiveOf(i).size > 0,
           LiveOf(i)' = [LiveOf(i) EXCEPT !.phase = "open"],
           \A j \in Ids \ {i} : LiveOf(j)' = LiveOf(j)
    PROVE  Matching!Open(i)
BY DEF Matching!Open, Matching!IsTaken, Matching!CanTake

LEMMA MapRefuseAgain ==
    ASSUME NEW i \in Ids, logSeq' = logSeq + 1, LiveOf(i).phase \in {"open", "done"},
           \A j \in Ids : LiveOf(j)' = LiveOf(j)
    PROVE  Matching!RefuseAgain(i)
BY DEF Matching!RefuseAgain

\* What MatchingSpec's AfterTrade makes of an order.
LEMMA MapAfterTrade ==
    ASSUME NEW i \in Ids, NEW n, NEW p,
           LiveOf(i) = [size |-> LiveOf(i).size, funds |-> LiveOf(i).funds, phase |-> LiveOf(i).phase]
    PROVE  Matching!AfterTrade(i, n, p) =
             [size  |-> IF RequestOf(i).size > 0 THEN LiveOf(i).size - n ELSE 0,
              funds |-> IF RequestOf(i).side = "buy" THEN LiveOf(i).funds - n * p ELSE LiveOf(i).funds,
              phase |-> LiveOf(i).phase]
<1>1. PICK x : x = IF RequestOf(i).size > 0 THEN LiveOf(i).size - n ELSE 0  OBVIOUS
<1>2. PICK y : y = IF RequestOf(i).side = "buy" THEN LiveOf(i).funds - n * p ELSE LiveOf(i).funds
  OBVIOUS
<1>3. [LiveOf(i) EXCEPT !.size = x, !.funds = y] = [size |-> x, funds |-> y, phase |-> LiveOf(i).phase]
  <2>1. PICK a, b, c : a = LiveOf(i).size /\ b = LiveOf(i).funds /\ c = LiveOf(i).phase  OBVIOUS
  <2>2. LiveOf(i) = [size |-> a, funds |-> b, phase |-> c]  BY <2>1, Zenon
  <2>3. [[size |-> a, funds |-> b, phase |-> c] EXCEPT !.size = x, !.funds = y]
          = [size |-> x, funds |-> y, phase |-> c]
    <3>1. [[size |-> a, funds |-> b, phase |-> c] EXCEPT !.size = x]
            = [size |-> x, funds |-> b, phase |-> c]
      OBVIOUS
    <3>2. [[size |-> x, funds |-> b, phase |-> c] EXCEPT !.funds = y]
            = [size |-> x, funds |-> y, phase |-> c]
      OBVIOUS
    <3> QED  BY <3>1, <3>2, Zenon
  <2>4. [LiveOf(i) EXCEPT !.size = x, !.funds = y] = [size |-> x, funds |-> y, phase |-> c]
    BY <2>2, <2>3, Zenon
  <2> QED  BY <2>1, <2>4, Zenon
<1>4. /\ [j \in Ids |-> LiveOf(j)][i] = LiveOf(i)
      /\ [j \in Ids |-> RequestOf(j)][i] = RequestOf(i)
  OBVIOUS
<1>5. Matching!AfterTrade(i, n, p) = [LiveOf(i) EXCEPT !.size = x, !.funds = y]
  BY <1>1, <1>2, <1>4 DEF Matching!AfterTrade
<1> QED  BY <1>1, <1>2, <1>3, <1>5

LEMMA MapMatch ==
    ASSUME NEW t \in Ids, NEW m \in Ids, t # m, NEW n, NEW used \in BOOLEAN,
           LiveOf(m).phase = "open", LiveOf(t).phase \in {"sent", "taking"},
           \A j \in Ids \ {t} : LiveOf(j).phase # "taking",
           RequestOf(t).side # RequestOf(m).side,
           \/ RequestOf(t).price = 0
           \/ IF RequestOf(t).side = "buy" THEN RequestOf(m).price <= RequestOf(t).price
                                           ELSE RequestOf(m).price >= RequestOf(t).price,
           n > 0, n = Matching!TradeSize(t, m),
           used <=> Matching!UsedUp(Matching!MakerAfter(t, m), m),
           logSeq' = logSeq + (IF used THEN 2 ELSE 1),
           LiveOf(t)' = [size  |-> IF RequestOf(t).size > 0 THEN LiveOf(t).size - n ELSE 0,
                         funds |-> IF RequestOf(t).side = "buy"
                                   THEN LiveOf(t).funds - n * RequestOf(m).price ELSE LiveOf(t).funds,
                         phase |-> "taking"],
           LiveOf(m)' = [size  |-> IF RequestOf(m).size > 0 THEN LiveOf(m).size - n ELSE 0,
                         funds |-> IF RequestOf(m).side = "buy"
                                   THEN LiveOf(m).funds - n * RequestOf(m).price ELSE LiveOf(m).funds,
                         phase |-> IF used THEN "done" ELSE "open"],
           \A i \in {t, m} : LiveOf(i) = [size |-> LiveOf(i).size, funds |-> LiveOf(i).funds,
                                          phase |-> LiveOf(i).phase],
           \A j \in Ids \ {t, m} : LiveOf(j)' = LiveOf(j)
    PROVE  Matching!Match(t, m)
<1>1. Matching!CanMatch(t, m)
  BY DEF Matching!CanMatch, Matching!IsTaken, Matching!CanTake, Matching!Crosses
<1>2. Matching!AfterTrade(t, n, RequestOf(m).price) =
        [size  |-> IF RequestOf(t).size > 0 THEN LiveOf(t).size - n ELSE 0,
         funds |-> IF RequestOf(t).side = "buy"
                   THEN LiveOf(t).funds - n * RequestOf(m).price ELSE LiveOf(t).funds,
         phase |-> LiveOf(t).phase]
  BY MapAfterTrade
<1>3. Matching!MakerAfter(t, m) =
        [size  |-> IF RequestOf(m).size > 0 THEN LiveOf(m).size - n ELSE 0,
         funds |-> IF RequestOf(m).side = "buy"
                   THEN LiveOf(m).funds - n * RequestOf(m).price ELSE LiveOf(m).funds,
         phase |-> "open"]
  <2>1. Matching!MakerAfter(t, m) = Matching!AfterTrade(m, n, RequestOf(m).price)
    BY DEF Matching!MakerAfter
  <2> QED  BY <2>1, MapAfterTrade
<1>4. LiveOf(t)' = [Matching!AfterTrade(t, n, RequestOf(m).price) EXCEPT !.phase = "taking"]
  BY <1>2
<1>5. LiveOf(m)' = [Matching!MakerAfter(t, m) EXCEPT !.phase = IF used THEN "done" ELSE @]
  BY <1>3
<1>6. [j \in Ids |-> LiveOf(j)]' =
        [[j \in Ids |-> LiveOf(j)] EXCEPT
            ![t] = [Matching!AfterTrade(t, n, RequestOf(m).price) EXCEPT !.phase = "taking"],
            ![m] = [Matching!MakerAfter(t, m) EXCEPT !.phase = IF used THEN "done" ELSE @]]
  BY <1>4, <1>5
<1>7. [j \in Ids |-> RequestOf(j)][m] = RequestOf(m)  OBVIOUS
<1> QED  BY <1>1, <1>6, <1>7 DEF Matching!Match

\* The requests MatchingSpec has seen never change.
LEMMA RequestsKept ==
    ASSUME Grows
    PROVE  \A i \in Ids : LiveOf(i).phase # "none" => RequestOf(i)' = RequestOf(i)
BY DEF Grows, LiveOf, RequestOf

LEMMA MapNext ==
    ASSUME Grows,
           \/ \E i \in Ids : \/ Matching!Submit(i) \/ Matching!Open(i) \/ Matching!Finish(i)
                             \/ Matching!Refuse(i) \/ Matching!RefuseAgain(i)
           \/ logSeq' > logSeq /\ \E t, m \in Ids : Matching!Match(t, m)
    PROVE  Matching!Next
<1>1. \A i \in Ids : [j \in Ids |-> LiveOf(j)][i].phase # "none" =>
                        [j \in Ids |-> RequestOf(j)]'[i] = [j \in Ids |-> RequestOf(j)][i]
  BY RequestsKept
<1> QED  BY <1>1 DEF Matching!Next

\* What came with an order.
LEMMA RequestType ==
    ASSUME HistInv, NEW i \in DOMAIN submitted
    PROVE  /\ i \in Ids /\ submitted[i] \in Orders /\ submitted[i] \in BookOrder
           /\ ValidOrder(submitted[i])
           /\ submitted[i].side \in Sides /\ submitted[i].size \in Nat
           /\ submitted[i].funds \in Nat /\ submitted[i].price \in Nat
           /\ filled[i] \in Nat /\ spent[i] \in Nat /\ closed[i] \in Nat
<1>1. submitted[i] \in Orders /\ i \in Ids
  BY DEF HistInv, IndInv, TypeOK, IsIdMap
<1>2. submitted[i] \in BookOrder /\ ValidOrder(submitted[i])  BY <1>1, OrderBookAssumption
<1>3. filled[i] \in Nat /\ spent[i] \in Nat /\ closed[i] \in Nat
  BY <1>1 DEF HistInv, IndInv, TypeOK
<1> QED  BY <1>1, <1>2, <1>3 DEF BookOrder

\* An order of which nothing changes that MatchingSpec sees.
LEMMA LiveKept ==
    ASSUME NEW j \in Ids, j \in DOMAIN submitted' <=> j \in DOMAIN submitted,
           j \in DOMAIN submitted =>
               /\ submitted[j].side \in Sides /\ submitted'[j] = submitted[j]
               /\ filled'[j] = filled[j] /\ spent'[j] = spent[j]
               /\ j \in took' <=> j \in took
               /\ closed'[j] = closed[j]
               /\ \A s \in Sides : j \in DOMAIN orders'[s] <=> j \in DOMAIN orders[s]
    PROVE  LiveOf(j)' = LiveOf(j) /\ RequestOf(j)' = RequestOf(j)
<1>1. CASE j \notin DOMAIN submitted  BY <1>1 DEF LiveOf, RequestOf
<1>2. CASE j \in DOMAIN submitted
  <2>1. PhaseOf(j)' = PhaseOf(j)  BY <1>2 DEF PhaseOf, OnBook
  <2> QED  BY <1>2, <2>1 DEF LiveOf, RequestOf
<1> QED  BY <1>1, <1>2

\* A message brings one order, and the first time it does that one is new.
LEMMA DeliverLive ==
    ASSUME HistInv, NEW o \in Orders, Deliver(o)
    PROVE  /\ Grows
           /\ o.id \in Ids /\ o.id \in DOMAIN submitted' /\ submitted'[o.id] = o
           /\ \A j \in Ids \ {o.id} : /\ j \in DOMAIN submitted' <=> j \in DOMAIN submitted
                                      /\ j \in DOMAIN submitted => submitted'[j] = submitted[j]
           /\ o.id \in DOMAIN submitted => submitted[o.id] = o
           /\ o.id \notin DOMAIN submitted =>
                /\ o.id \notin applied \cup nullified \cup took
                /\ \A s \in Sides : o.id \notin DOMAIN orders[s]
                /\ filled[o.id] = 0 /\ spent[o.id] = 0 /\ closed[o.id] = 0
                /\ LiveOf(o.id).phase = "none"
<1>1. o.id \in Ids  BY OrderType
<1>2. submitted' = With(submitted, o) /\ (o.id \in DOMAIN submitted => submitted[o.id] = o)
  BY DEF Deliver
<1>3. /\ DOMAIN submitted' = DOMAIN submitted \cup {o.id} /\ submitted'[o.id] = o
      /\ \A j \in DOMAIN submitted : j # o.id => submitted'[j] = submitted[j]
  BY <1>2 DEF With
<1>4. ASSUME o.id \notin DOMAIN submitted
      PROVE  /\ o.id \notin applied \cup nullified \cup took
             /\ \A s \in Sides : o.id \notin DOMAIN orders[s]
             /\ filled[o.id] = 0 /\ spent[o.id] = 0 /\ closed[o.id] = 0
             /\ LiveOf(o.id).phase = "none"
  <2>1. o.id \notin applied \cup nullified \cup took  BY <1>4 DEF HistInv, Sent
  <2>2. \A s \in Sides : o.id \notin DOMAIN orders[s]  BY <2>1 DEF HistInv, BookOrigins
  <2>3. filled[o.id] = 0 /\ spent[o.id] = 0 /\ closed[o.id] = 0
    BY <1>1, <2>1 DEF HistInv, Unrecorded
  <2>4. LiveOf(o.id).phase = "none"  BY <1>4 DEF LiveOf
  <2> QED  BY <2>1, <2>2, <2>3, <2>4
<1>5. Grows  BY <1>2, <1>3 DEF Grows
<1> QED  BY <1>1, <1>2, <1>3, <1>4, <1>5

\* A step of the book is one of MatchingSpec, or changes nothing it sees.
MatchingStep ==
    [Matching!Next]_<<[i \in Ids |-> RequestOf(i)], [i \in Ids |-> LiveOf(i)], logSeq>>

LEMMA MapStutter ==
    ASSUME \A j \in Ids : LiveOf(j)' = LiveOf(j) /\ RequestOf(j)' = RequestOf(j),
           logSeq' = logSeq
    PROVE  MatchingStep
<1>1. [i \in Ids |-> LiveOf(i)]' = [i \in Ids |-> LiveOf(i)]  OBVIOUS
<1>2. [i \in Ids |-> RequestOf(i)]' = [i \in Ids |-> RequestOf(i)]  OBVIOUS
<1> QED  BY <1>1, <1>2 DEF MatchingStep

\* No message brings a new order.
SentSame ==
    \A j \in Ids : /\ j \in DOMAIN submitted' <=> j \in DOMAIN submitted
                   /\ j \in DOMAIN submitted => submitted'[j] = submitted[j]

\* CancelOrder of an order that came: MatchingSpec's Finish, or nothing.
LEMMA CancelLive ==
    ASSUME HistInv, Answered, pc # "match", NEW o \in BookOrder, NEW sofar, CancelOrder(o, sofar),
           o.id \in DOMAIN submitted, submitted[o.id].side = o.side,
           SentSame, UNCHANGED <<filled, spent, took>>
    PROVE  MatchingStep
<1>1. /\ o.id \in Ids /\ o.side \in Sides /\ BookInv
      /\ closed \in [Ids -> Nat] /\ unfilled \in [Ids -> Nat]
  BY IndInvParts DEF HistInv, DoneType, BookOrder
<1>2. PICK i : i = o.id  OBVIOUS
<1>3. \A j \in DOMAIN submitted : submitted[j].side \in Sides  BY RequestType
<1>4. CASE i \notin DOMAIN orders[o.side]
  <2>1. UNCHANGED <<orders, closed>>  BY <1>1, <1>2, <1>4, CancelEffect
  <2>2. logSeq' = logSeq  BY <1>2, <1>4 DEF CancelOrder, OnBook
  <2>3. \A j \in Ids : LiveOf(j)' = LiveOf(j) /\ RequestOf(j)' = RequestOf(j)
    BY <1>3, <2>1, LiveKept DEF SentSame
  <2> QED  BY <2>2, <2>3, MapStutter
<1>5. CASE i \in DOMAIN orders[o.side]
  <2>1. /\ \A t \in Sides : DOMAIN orders'[t] = DOMAIN orders[t] \ {i}
        /\ \A j \in Ids \ {i} : closed'[j] = closed[j]
        /\ closed'[i] = closed[i] + 1
    BY <1>1, <1>2, <1>5, CancelEffect
  <2>2. logSeq' = logSeq + 1  BY <1>2, <1>5 DEF CancelOrder, OnBook
  <2>3. LiveOf(i).phase = "open"  BY <1>1, <1>2, <1>5, OpenLive
  <2>4. \A j \in Ids \ {i} : LiveOf(j)' = LiveOf(j)
    <3> SUFFICES ASSUME NEW j \in Ids \ {i} PROVE LiveOf(j)' = LiveOf(j)
      OBVIOUS
    <3> QED  BY <1>3, <2>1, LiveKept DEF SentSame
  <2>5. LiveOf(i)' = [LiveOf(i) EXCEPT !.phase = "done"]
    <3>1. closed'[i] > 0  BY <1>1, <1>2, <2>1
    <3>2. i \in DOMAIN submitted /\ i \in DOMAIN submitted' /\ submitted'[i] = submitted[i]
      BY <1>1, <1>2 DEF SentSame
    <3>3. PhaseOf(i)' = "done"  BY <1>1, <1>2, <2>1, <3>1, <3>2 DEF PhaseOf, OnBook
    <3> QED  BY <3>2, <3>3 DEF LiveOf
  <2>6. \A j \in Ids \ {i} : LiveOf(j).phase # "taking"  BY NobodyTaking
  <2>7. Matching!Finish(i)  BY <1>1, <1>2, <2>2, <2>3, <2>4, <2>5, <2>6, MapFinish
  <2>8. Grows  BY RequestType DEF SentSame, Grows
  <2> QED  BY <1>1, <1>2, <2>7, <2>8, MapNext DEF MatchingStep
<1> QED  BY <1>4, <1>5

\* A new order that no log tells of: Submit.
LEMMA SubmitLive ==
    ASSUME HistInv, NEW o \in Orders, Deliver(o), o.id \notin DOMAIN submitted,
           logSeq' = logSeq, UNCHANGED <<filled, spent, took, closed>>,
           \A s \in Sides : DOMAIN orders'[s] = DOMAIN orders[s]
    PROVE  MatchingStep
<1>1. PICK i : i = o.id  OBVIOUS
<1>2. /\ Grows /\ i \in Ids /\ i \in DOMAIN submitted' /\ submitted'[i] = o
      /\ \A j \in Ids \ {i} : /\ j \in DOMAIN submitted' <=> j \in DOMAIN submitted
                              /\ j \in DOMAIN submitted => submitted'[j] = submitted[j]
      /\ i \notin took /\ \A s \in Sides : i \notin DOMAIN orders[s]
      /\ filled[i] = 0 /\ spent[i] = 0 /\ closed[i] = 0
      /\ LiveOf(i).phase = "none"
  BY <1>1, DeliverLive
<1>3. \A j \in DOMAIN submitted : submitted[j].side \in Sides  BY RequestType
<1>4. ASSUME NEW j \in Ids \ {i} PROVE LiveOf(j)' = LiveOf(j)
  BY <1>2, <1>3, LiveKept
<1>5. o.side \in Sides /\ o.size \in Nat /\ o.funds \in Nat
  BY OrderBookAssumption DEF BookOrder
<1>6. PhaseOf(i)' = "sent"  BY <1>2, <1>5 DEF PhaseOf, OnBook
<1>7. LiveOf(i)' = [size |-> RequestOf(i)'.size, funds |-> RequestOf(i)'.funds, phase |-> "sent"]
  BY <1>2, <1>5, <1>6 DEF LiveOf, RequestOf
<1>8. Matching!Submit(i)  BY <1>2, <1>4, <1>7, MapSubmit
<1> QED  BY <1>2, <1>8, MapNext DEF MatchingStep

\* A repeated message that leaves book and logs alone.
LEMMA RepeatLive ==
    ASSUME HistInv, NEW o \in Orders, Deliver(o), o.id \in DOMAIN submitted,
           logSeq' = logSeq, UNCHANGED <<filled, spent, took, closed, orders>>
    PROVE  MatchingStep
<1>1. \A j \in Ids : /\ j \in DOMAIN submitted' <=> j \in DOMAIN submitted
                     /\ j \in DOMAIN submitted => submitted'[j] = submitted[j]
  BY DeliverLive
<1>2. \A j \in DOMAIN submitted : submitted[j].side \in Sides  BY RequestType
<1>3. \A j \in Ids : LiveOf(j)' = LiveOf(j) /\ RequestOf(j)' = RequestOf(j)
  BY <1>1, <1>2, LiveKept
<1> QED  BY <1>3, MapStutter

\* NullifyOrder: Refuse, Finish or RefuseAgain, by what became of the order.
LEMMA NullifyLive ==
    ASSUME HistInv, Answered, NEW o \in Orders, ReceiveNullify(o)
    PROVE  MatchingStep
<1>1. PICK i : i = o.id  OBVIOUS
<1>2. /\ Deliver(o) /\ pc = "idle" /\ logSeq' = logSeq + 1 /\ RecordDone(i, o.size)
      /\ UNCHANGED <<orders, filled, spent, took>>
  BY <1>1 DEF ReceiveNullify, Deliver, fillVars
<1>3. /\ Grows /\ i \in Ids /\ i \in DOMAIN submitted' /\ submitted'[i] = o
      /\ \A j \in Ids \ {i} : /\ j \in DOMAIN submitted' <=> j \in DOMAIN submitted
                              /\ j \in DOMAIN submitted => submitted'[j] = submitted[j]
      /\ i \in DOMAIN submitted => submitted[i] = o
      /\ i \notin DOMAIN submitted =>
           /\ \A s \in Sides : i \notin DOMAIN orders[s]
           /\ filled[i] = 0 /\ spent[i] = 0 /\ LiveOf(i).phase = "none"
  BY <1>1, <1>2, DeliverLive
<1>4. closed \in [Ids -> Nat]  BY DEF HistInv, IndInv, TypeOK
<1>5. closed'[i] > 0 /\ \A j \in Ids \ {i} : closed'[j] = closed[j]
  BY <1>2, <1>3, <1>4 DEF RecordDone
<1>6. \A j \in DOMAIN submitted : submitted[j].side \in Sides  BY RequestType
<1>7. ASSUME NEW j \in Ids \ {i} PROVE LiveOf(j)' = LiveOf(j)
  BY <1>2, <1>3, <1>5, <1>6, LiveKept
<1>8. \A j \in Ids : LiveOf(j).phase # "taking"  BY <1>2, NobodyTaking
<1>9. o.side \in Sides /\ o.size \in Nat /\ o.funds \in Nat
  BY OrderBookAssumption DEF BookOrder
<1>10. CASE i \notin DOMAIN submitted
  <2>1. PhaseOf(i)' = "done"  BY <1>2, <1>3, <1>5, <1>9, <1>10 DEF PhaseOf, OnBook
  <2>2. LiveOf(i)' = [size |-> RequestOf(i)'.size, funds |-> RequestOf(i)'.funds, phase |-> "done"]
    BY <1>2, <1>3, <1>9, <1>10, <2>1 DEF LiveOf, RequestOf
  <2>3. Matching!Refuse(i)  BY <1>2, <1>3, <1>7, <1>10, <2>2, MapRefuse
  <2> QED  BY <1>3, <2>3, MapNext DEF MatchingStep
<1>11. CASE i \in DOMAIN submitted /\ OnBook(o.side, i)
  <2>1. PhaseOf(i) = "open" /\ PhaseOf(i)' = "open"
    BY <1>2, <1>3, <1>9, <1>11 DEF PhaseOf, OnBook
  <2>2. LiveOf(i)' = LiveOf(i) /\ LiveOf(i).phase = "open"
    BY <1>2, <1>3, <1>11, <2>1 DEF LiveOf
  <2>3. Matching!RefuseAgain(i)  BY <1>2, <1>3, <1>7, <2>2, MapRefuseAgain
  <2> QED  BY <1>3, <2>3, MapNext DEF MatchingStep
<1>12. CASE i \in DOMAIN submitted /\ ~ OnBook(o.side, i)
  <2>1. PhaseOf(i) \in {"sent", "taking", "done"} /\ PhaseOf(i)' = "done"
    BY <1>2, <1>3, <1>5, <1>9, <1>12 DEF PhaseOf, OnBook
  <2>2. LiveOf(i).phase = PhaseOf(i) /\ LiveOf(i)' = [LiveOf(i) EXCEPT !.phase = "done"]
    BY <1>2, <1>3, <1>12, <2>1 DEF LiveOf
  <2>3. CASE PhaseOf(i) = "done"
    <3>1. LiveOf(i)' = LiveOf(i)  BY <1>2, <1>3, <1>12, <2>1, <2>3 DEF LiveOf
    <3>2. Matching!RefuseAgain(i)  BY <1>2, <1>3, <1>7, <2>2, <2>3, <3>1, MapRefuseAgain
    <3> QED  BY <1>3, <3>2, MapNext DEF MatchingStep
  <2>4. CASE PhaseOf(i) \in {"sent", "taking"}
    <3>1. Matching!Finish(i)  BY <1>2, <1>3, <1>7, <1>8, <2>2, <2>4, MapFinish
    <3> QED  BY <1>3, <3>1, MapNext DEF MatchingStep
  <2> QED  BY <2>1, <2>3, <2>4
<1> QED  BY <1>10, <1>11, <1>12

LEMMA ReceiveLive ==
    ASSUME HistInv, Answered, NEW o \in Orders, Receive(o)
    PROVE  MatchingStep
<1>1. CASE ReceiveCancel(o)
  <2>1. /\ Deliver(o) /\ CancelOrder(o, << >>) /\ pc = "idle" /\ o \in BookOrder
        /\ UNCHANGED <<filled, spent, took>>
    BY <1>1, OrderBookAssumption DEF ReceiveCancel, Deliver, fillVars
  <2>2. CASE o.id \in DOMAIN submitted
    <3>1. SentSame /\ submitted[o.id].side = o.side  BY <2>1, <2>2, DeliverLive DEF SentSame
    <3> QED  BY <2>1, <2>2, <3>1, CancelLive
  <2>3. CASE o.id \notin DOMAIN submitted
    <3>1. o.id \notin DOMAIN orders[o.side]  BY <2>1, <2>3, DeliverLive DEF BookOrder
    <3>2. UNCHANGED <<orders, logSeq, closed>>  BY <2>1, <3>1 DEF CancelOrder, OnBook, doneVars
    <3> QED  BY <2>1, <2>3, <3>2, SubmitLive
  <2> QED  BY <2>2, <2>3
<1>2. CASE ReceiveApply(o) \/ ReceiveUnknown(o)
  <2>1. Deliver(o) /\ UNCHANGED <<orders, logSeq, filled, spent, took, closed>>
    BY <1>2 DEF ReceiveApply, ReceiveUnknown, fillVars, doneVars
  <2> QED  BY <2>1, SubmitLive, RepeatLive
<1>3. CASE ReceiveNullify(o)  BY <1>3, NullifyLive
<1> QED  BY <1>1, <1>2, <1>3 DEF Receive

\* A limit order that rests: Open.
LEMMA RestLive == ASSUME HistInv, Answered, Rest PROVE MatchingStep
<1>1. PICK i : i = taker.id  OBVIOUS
<1>2. /\ pc = "match" /\ taker.type = "limit" /\ taker.size > 0
      /\ orders' = [orders EXCEPT ![taker.side] = With(orders[taker.side], taker)]
      /\ logSeq' = logSeq + 1
      /\ UNCHANGED <<submitted, filled, spent, took, closed>>
  BY DEF Rest, LoopOver, add, envVars, fillVars, doneVars
<1>3. taker \in BookOrder /\ taker.side \in Sides /\ orders = [s \in Sides |-> orders[s]]
  BY <1>2, IndInvParts DEF HistInv, ControlType, BookOrder, BookInv, BookType
<1>4. /\ \A s \in Sides \ {taker.side} : orders'[s] = orders[s]
      /\ DOMAIN orders'[taker.side] = DOMAIN orders[taker.side] \cup {i}
  BY <1>1, <1>2, <1>3 DEF With
<1>5. /\ i \in Ids /\ i \in DOMAIN submitted /\ submitted[i] \in Orders
      /\ submitted[i].side = taker.side
      /\ LiveOf(i).phase \in {"sent", "taking"}
      /\ ~ ByFunds(taker) => LiveOf(i).size = taker.size
  BY <1>1, <1>2, TakerLive
<1>6. LiveOf(i).size > 0  BY <1>2, <1>5 DEF ByFunds
<1>7. submitted[i].type = "limit"  BY <1>1, <1>2 DEF HistInv, TakerOrigin
<1>8. RequestOf(i).price > 0  BY <1>5, <1>7, RequestType DEF ValidOrder, RequestOf
<1>9. \A j \in DOMAIN submitted : submitted[j].side \in Sides  BY RequestType
<1>10. ASSUME NEW j \in Ids \ {i} PROVE LiveOf(j)' = LiveOf(j)
  BY <1>2, <1>4, <1>9, LiveKept
<1>11. PhaseOf(i)' = "open"  BY <1>2, <1>4, <1>5 DEF PhaseOf, OnBook
<1>12. LiveOf(i)' = [LiveOf(i) EXCEPT !.phase = "open"]  BY <1>2, <1>5, <1>11 DEF LiveOf
<1>13. \A j \in Ids \ {i} : LiveOf(j).phase # "taking"  BY <1>1, NobodyTaking
<1>14. Matching!Open(i)  BY <1>2, <1>5, <1>6, <1>8, <1>10, <1>12, <1>13, MapOpen
<1>15. Grows  BY <1>2 DEF Grows
<1> QED  BY <1>5, <1>14, <1>15, MapNext DEF MatchingStep

\* A taker that may not rest: Finish.
LEMMA FinishLive == ASSUME HistInv, Answered, Finish PROVE MatchingStep
<1>1. PICK i : i = taker.id  OBVIOUS
<1>2. /\ pc = "match" /\ logSeq' = logSeq + 1 /\ RecordDone(i, 0)
      /\ UNCHANGED <<orders, submitted, filled, spent, took>>
  BY <1>1 DEF Finish, LoopOver, envVars, fillVars
<1>3. /\ i \in Ids /\ i \in DOMAIN submitted
      /\ ~ OnBook(submitted[i].side, i)
      /\ LiveOf(i).phase \in {"sent", "taking"}
  BY <1>1, <1>2, TakerLive
<1>4. closed \in [Ids -> Nat]  BY DEF HistInv, IndInv, TypeOK
<1>5. closed'[i] > 0 /\ \A j \in Ids \ {i} : closed'[j] = closed[j]
  BY <1>2, <1>3, <1>4 DEF RecordDone
<1>6. \A j \in DOMAIN submitted : submitted[j].side \in Sides  BY RequestType
<1>7. ASSUME NEW j \in Ids \ {i} PROVE LiveOf(j)' = LiveOf(j)
  BY <1>2, <1>5, <1>6, LiveKept
<1>8. PhaseOf(i)' = "done"  BY <1>2, <1>3, <1>5 DEF PhaseOf, OnBook
<1>9. LiveOf(i)' = [LiveOf(i) EXCEPT !.phase = "done"]  BY <1>2, <1>3, <1>8 DEF LiveOf
<1>10. \A j \in Ids \ {i} : LiveOf(j).phase # "taking"  BY <1>1, NobodyTaking
<1>11. Matching!Finish(i)  BY <1>2, <1>3, <1>7, <1>9, <1>10, MapFinish
<1>12. Grows  BY <1>2 DEF Grows
<1> QED  BY <1>3, <1>11, <1>12, MapNext DEF MatchingStep

\* The size MatchingSpec lets taker and maker trade is calcTradeSize's.
LEMMA MapTradeSize ==
    ASSUME NEW t \in Ids, NEW m \in Ids, NEW a \in Nat, NEW b \in Nat,
           Matching!CanTrade(t, RequestOf(m).price) = a,
           Matching!CanTrade(m, RequestOf(m).price) = b
    PROVE  Matching!TradeSize(t, m) = Smaller(a, b)
<1>1. Matching!TradeSize(t, m) = Matching!Min({a, b})
  BY DEF Matching!TradeSize
<1>2. Matching!Min({a, b}) = Smaller(a, b)
  <2>1. Smaller(a, b) \in {a, b} /\ \A y \in {a, b} : Smaller(a, b) <= y  BY DEF Smaller
  <2>2. \A x \in {a, b} : (\A y \in {a, b} : x <= y) => x = Smaller(a, b)  BY DEF Smaller
  <2> HIDE DEF Smaller
  <2> QED  BY <2>1, <2>2 DEF Matching!Min
<1> QED  BY <1>1, <1>2

\* One iteration of the loop: Match.
LEMMA MatchLive ==
    ASSUME HistInv, Answered, NEW k \in queue[Opposite(taker.side)], MatchMaker(k)
    PROVE  MatchingStep
<1>1. PICK opp : opp = Opposite(taker.side)  OBVIOUS
<1>2. PICK mk : mk = orders[opp][k.orderId]  OBVIOUS
<1>3. PICK n : n = TradeSize(taker, mk)  OBVIOUS
<1>4. PICK t : t = taker.id  OBVIOUS
<1>5. PICK m : m = mk.id  OBVIOUS
<1>6. /\ pc = "match"
      /\ taker \in BookOrder /\ taker.side \in Sides /\ opp \in Sides /\ opp # taker.side
      /\ mk \in BookOrder /\ m \in DOMAIN orders[opp] /\ mk = orders[opp][m] /\ m # t
      /\ pricesCross(taker.side, taker.price, mk.price)
      /\ n \in Nat /\ n > 0 /\ n <= mk.size
      /\ ~ ByFunds(taker) => n <= taker.size
      /\ n * mk.price \in Int
      /\ UNCHANGED submitted
      /\ RecordMatch(taker, mk, n)
      /\ \A s \in Sides \ {opp} : orders'[s] = orders[s]
      /\ mk.size = n => DOMAIN orders'[opp] = DOMAIN orders[opp] \ {m} /\ RecordDone(m, 0)
      /\ mk.size # n => DOMAIN orders'[opp] = DOMAIN orders[opp] /\ UNCHANGED closed
  <2>1. Iteration(k, opp, mk, n)  BY <1>1, <1>2, <1>3, MatchEffect
  <2>2. n * mk.price \in Int  BY <2>1 DEF Iteration, BookOrder
  <2> QED  BY <1>4, <1>5, <2>1, <2>2 DEF Iteration
<1>7. /\ t \in Ids /\ t \in DOMAIN submitted /\ submitted[t] \in Orders
      /\ submitted[t].side = taker.side
      /\ closed[t] = 0 /\ ~ OnBook(submitted[t].side, t)
      /\ LiveOf(t).phase \in {"sent", "taking"}
      /\ ByFunds(taker) <=> submitted[t].size = 0
      /\ ~ ByFunds(taker) => LiveOf(t).size = taker.size
      /\ ByFunds(taker) => LiveOf(t).size = 0 /\ LiveOf(t).funds = taker.funds
  BY <1>4, <1>6, TakerLive
<1>8. /\ m \in Ids /\ m \in DOMAIN submitted
      /\ submitted[m].side = opp /\ submitted[m].size > 0
      /\ submitted[m].price = mk.price /\ mk.price > 0
      /\ LiveOf(m).phase = "open" /\ LiveOf(m).size = mk.size
  BY <1>6, OpenLive
<1>9. /\ submitted[t].size \in Nat /\ submitted[t].funds \in Nat /\ filled[t] \in Nat /\ spent[t] \in Nat
      /\ submitted[m].size \in Nat /\ submitted[m].funds \in Nat /\ filled[m] \in Nat /\ spent[m] \in Nat
  BY <1>7, <1>8, RequestType
<1>10. /\ mk.size \in Nat /\ mk.price \in Nat /\ taker.size \in Nat /\ taker.funds \in Nat
       /\ taker.price \in Nat
  BY <1>6 DEF BookOrder
<1>11. RequestOf(t) = submitted[t] /\ RequestOf(m) = submitted[m]  BY <1>7, <1>8 DEF RequestOf
<1>12. n = Matching!TradeSize(t, m)
  <2>1. PICK a : a = IF ByFunds(taker) THEN taker.funds \div mk.price ELSE taker.size  OBVIOUS
  <2>2. a \in Nat
    <3>1. taker.funds \div mk.price \in Nat  BY <1>8, <1>10, Z3
    <3> QED  BY <1>10, <2>1, <3>1
  <2>3. Matching!CanTrade(t, RequestOf(m).price) = a
    BY <1>7, <1>8, <1>9, <1>11, <2>1 DEF Matching!CanTrade
  <2>4. Matching!CanTrade(m, RequestOf(m).price) = mk.size
    BY <1>8, <1>11 DEF Matching!CanTrade
  <2>5. n = Smaller(a, mk.size)  BY <1>3, <2>1 DEF TradeSize
  <2> QED  BY <1>7, <1>8, <1>10, <2>2, <2>3, <2>4, <2>5, MapTradeSize
<1>13. PICK used : used = (mk.size = n)  OBVIOUS
<1>14. used \in BOOLEAN  BY <1>13
<1>15. PICK c : c = n * mk.price  OBVIOUS
<1>16. /\ filled'[t] = filled[t] + n /\ filled'[m] = filled[m] + n
       /\ \A j \in Ids \ {t, m} : filled'[j] = filled[j] /\ spent'[j] = spent[j]
       /\ taker.side = "buy" => spent'[t] = spent[t] + c /\ spent'[m] = spent[m]
       /\ taker.side # "buy" => spent'[m] = spent[m] + c /\ spent'[t] = spent[t]
       /\ took' = took \cup {t}
  <2>1. filled \in [Ids -> Nat] /\ spent \in [Ids -> Nat]  BY DEF HistInv, IndInv, TypeOK
  <2>2. /\ filled' = [i \in Ids |-> filled[i] + IF i \in {t, m} THEN n ELSE 0]
        /\ spent' = [spent EXCEPT ![IF taker.side = "buy" THEN t ELSE m] =
                        spent[IF taker.side = "buy" THEN t ELSE m] + c]
        /\ took' = took \cup {t}
    BY <1>4, <1>5, <1>6, <1>15 DEF RecordMatch
  <2> QED  BY <1>6, <1>7, <1>8, <2>1, <2>2
<1>17. /\ \A j \in Ids \ {m} : closed'[j] = closed[j]
       /\ used => closed'[m] = closed[m] + 1 /\ closed'[m] > 0
       /\ \A s \in Sides : \A j \in Ids \ {m} : j \in DOMAIN orders'[s] <=> j \in DOMAIN orders[s]
       /\ m \in DOMAIN orders'[opp] <=> ~ used
  <2>1. closed \in [Ids -> Nat]  BY DEF HistInv, IndInv, TypeOK
  <2>2. CASE used
    <3>1. closed' = [closed EXCEPT ![m] = closed[m] + 1]  BY <1>6, <1>13, <2>2 DEF RecordDone
    <3> QED  BY <1>6, <1>8, <1>13, <2>1, <2>2, <3>1
  <2>3. CASE ~ used  BY <1>6, <1>8, <1>13, <2>3
  <2> QED  BY <2>2, <2>3, <1>14
<1>18. logSeq' = logSeq + (IF used THEN 2 ELSE 1)
  BY <1>1, <1>2, <1>3, <1>13 DEF MatchMaker
<1>19. ASSUME NEW j \in Ids \ {t, m} PROVE LiveOf(j)' = LiveOf(j)
  <2>1. j \in DOMAIN submitted => submitted[j].side \in Sides  BY RequestType
  <2> QED  BY <1>6, <1>16, <1>17, <2>1, LiveKept
<1>20. LiveOf(t)' = [size  |-> IF RequestOf(t).size > 0 THEN LiveOf(t).size - n ELSE 0,
                     funds |-> IF RequestOf(t).side = "buy" THEN LiveOf(t).funds - c ELSE LiveOf(t).funds,
                     phase |-> "taking"]
  <2>1. PhaseOf(t)' = "taking"
    BY <1>6, <1>7, <1>16, <1>17 DEF PhaseOf, OnBook
  <2>2. c \in Int  BY <1>6, <1>15
  <2> QED  BY <1>6, <1>7, <1>9, <1>11, <1>16, <2>1, <2>2 DEF LiveOf
<1>21. LiveOf(m)' = [size  |-> IF RequestOf(m).size > 0 THEN LiveOf(m).size - n ELSE 0,
                     funds |-> IF RequestOf(m).side = "buy" THEN LiveOf(m).funds - c ELSE LiveOf(m).funds,
                     phase |-> IF used THEN "done" ELSE "open"]
  <2>1. PhaseOf(m)' = IF used THEN "done" ELSE "open"
    BY <1>6, <1>8, <1>17 DEF PhaseOf, OnBook
  <2>2. c \in Int  BY <1>6, <1>15
  <2>3. opp = "buy" <=> taker.side # "buy"  BY <1>6 DEF Sides
  <2> QED  BY <1>6, <1>8, <1>9, <1>11, <1>16, <2>1, <2>2, <2>3 DEF LiveOf
<1>22. \A i \in {t, m} : LiveOf(i) = [size |-> LiveOf(i).size, funds |-> LiveOf(i).funds,
                                      phase |-> LiveOf(i).phase]
  BY <1>7, <1>8 DEF LiveOf
<1>23. used <=> Matching!UsedUp(Matching!MakerAfter(t, m), m)
  <2>1. Matching!MakerAfter(t, m) = Matching!AfterTrade(m, n, RequestOf(m).price)
    BY <1>8, <1>12 DEF Matching!MakerAfter
  <2>2. Matching!MakerAfter(t, m).size = IF RequestOf(m).size > 0 THEN LiveOf(m).size - n ELSE 0
    BY <1>8, <1>22, <2>1, MapAfterTrade
  <2>3. Matching!MakerAfter(t, m).size = mk.size - n  BY <1>8, <1>11, <2>2
  <2>4. Matching!UsedUp(Matching!MakerAfter(t, m), m) <=> mk.size - n = 0
    BY <1>8, <1>11, <2>3 DEF Matching!UsedUp
  <2>5. mk.size = n <=> mk.size - n = 0  BY <1>6, <1>10
  <2> QED  BY <1>13, <2>4, <2>5, Zenon
<1>24. \/ RequestOf(t).price = 0
       \/ IF RequestOf(t).side = "buy" THEN RequestOf(m).price <= RequestOf(t).price
                                       ELSE RequestOf(m).price >= RequestOf(t).price
  <2>1. submitted[t].type = taker.type /\ taker.price = prepareTakerOrder(submitted[t]).price
    BY <1>4, <1>6 DEF HistInv, TakerOrigin
  <2>2. ValidOrder(submitted[t]) /\ submitted[t].type \in Types /\ submitted[t].side \in Sides
    BY <1>7, RequestType DEF BookOrder
  <2>3. CASE submitted[t].type = "market"
    BY <1>11, <2>2, <2>3 DEF ValidOrder, Types, Sides
  <2>4. CASE submitted[t].type = "limit"
    <3>1. taker.price = submitted[t].price  BY <2>1, <2>4 DEF prepareTakerOrder
    <3> QED  BY <1>6, <1>7, <1>8, <1>10, <1>11, <3>1 DEF pricesCross
  <2> QED  BY <2>2, <2>3, <2>4 DEF Types
<1>25. RequestOf(t).side # RequestOf(m).side  BY <1>6, <1>7, <1>8, <1>11
<1>26. \A j \in Ids \ {t} : LiveOf(j).phase # "taking"  BY <1>4, NobodyTaking
<1>27. RequestOf(m).price = mk.price /\ c = n * RequestOf(m).price  BY <1>8, <1>11, <1>15
<1>28. Matching!Match(t, m)
  BY <1>6, <1>7, <1>8, <1>12, <1>14, <1>18, <1>19, <1>20, <1>21, <1>22, <1>23, <1>24, <1>25,
     <1>26, <1>27, MapMatch
<1>29. Grows  BY <1>6 DEF Grows
<1>30. logSeq' > logSeq
  <2>1. logSeq \in Nat  BY DEF HistInv, IndInv, TypeOK
  <2> QED  BY <1>14, <1>18, <2>1
<1> QED  BY <1>7, <1>8, <1>28, <1>29, <1>30, MapNext DEF MatchingStep

LEMMA NextMatchingStep == ASSUME HistInv, Answered, [Next]_vars PROVE MatchingStep
<1>1. ASSUME NEW o \in Orders, Receive(o) PROVE MatchingStep  BY <1>1, ReceiveLive
<1>2. ASSUME NEW k \in queue[Opposite(taker.side)], MatchMaker(k) PROVE MatchingStep
  BY <1>2, MatchLive
<1>3. CASE Rest  BY <1>3, RestLive
<1>4. CASE Finish  BY <1>4, FinishLive
<1>5. CASE CancelRest
  <2>1. /\ pc = "rest" /\ CancelOrder(taker, logs) /\ UNCHANGED <<submitted, filled, spent, took>>
    BY <1>5 DEF CancelRest, envVars, fillVars
  <2>2. taker \in BookOrder  BY <2>1, IndInvParts DEF HistInv, ControlType
  <2>3. taker.id \in DOMAIN submitted /\ submitted[taker.id].side = taker.side
    BY <2>1 DEF HistInv, TakerOrigin
  <2>4. SentSame  BY <2>1 DEF SentSame
  <2> QED  BY <2>1, <2>2, <2>3, <2>4, CancelLive
<1>6. CASE UNCHANGED vars
  <2>1. UNCHANGED <<orders, submitted, filled, spent, took, closed, logSeq>>
    BY <1>6 DEF vars, bookVars, envVars, fillVars, doneVars
  <2>2. \A j \in Ids : LiveOf(j)' = LiveOf(j) /\ RequestOf(j)' = RequestOf(j)
    BY <2>1, LiveKept, RequestType
  <2> QED  BY <2>1, <2>2, MapStutter
<1> QED  BY <1>1, <1>2, <1>3, <1>4, <1>5, <1>6 DEF Next, Match

\* The order book implements what its log promises to the workers behind it:
\* every step of runApplier, ApplyOrder, CancelOrder and NullifyOrder is a
\* step of MatchingSpec, or one that no reader of the log can see.
THEOREM BookImplementsMatching == Spec => ImplementsMatching
<1>1. Init => Answered  BY DEF Init, Answered
<1>2. HistInv /\ HistInv' /\ Answered /\ [Next]_vars => Answered'  BY NextAnswered
<1>3. Init => Matching!Init
  <2> SUFFICES ASSUME Init PROVE Matching!Init
    OBVIOUS
  <2>1. DOMAIN submitted = {} /\ logSeq = 0  BY DEF Init
  <2>2. \A i \in Ids : LiveOf(i) = [size |-> 0, funds |-> 0, phase |-> "none"]
    BY <2>1 DEF LiveOf
  <2> QED  BY <2>1, <2>2 DEF Matching!Init, Matching!NoOrder
<1>4. HistInv /\ Answered /\ [Next]_vars => MatchingStep  BY NextMatchingStep
<1> QED  BY <1>1, <1>2, <1>3, <1>4, BookHistory, PTL
         DEF Spec, ImplementsMatching, Matching!Spec, MatchingStep
=============================================================================
