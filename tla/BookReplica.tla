---------------------------- MODULE BookReplica -----------------------------
(***************************************************************************)
(* The replica of the order book in the pushing service: how              *)
(* pushing/order_book.go rebuilds the book from the matching log, and how *)
(* pushing/order_book_stream.go takes full snapshots of it, stores them   *)
(* in Redis and starts again from them.                                   *)
(*                                                                        *)
(* logCh and the reader in front of the applier are one FIFO inside the   *)
(* process, so the applier reads the log itself.                          *)
(***************************************************************************)
EXTENDS Integers, FiniteSets, Sequences, FiniteSetsExt

CONSTANTS
    Ids,                \* order ids
    Order,              \* per id: its side, price and size when it opens
    FullGap,            \* changes between two full snapshots (10000)
    NoSnapshot,         \* no value
    MaxLogs,            \* bound on the matching log
    MaxCrashes          \* bound on crashes of the pushing service

Sides == {"buy", "sell"}

ASSUME BookReplicaAssumption ==
    /\ IsFiniteSet(Ids)
    /\ \A i \in Ids : Order[i].side \in Sides /\ {Order[i].price, Order[i].size} \subseteq Nat \ {0}
    /\ {FullGap, MaxLogs, MaxCrashes} \subseteq Nat

VARIABLES
    topic,              \* Kafka: the matching log
    engine,             \* the matching engine's orders: phase and size left
    written,            \* history: the engine's logs by seq, each once
    held                \* history: the engine's book after each of them

VARIABLES
    orders,             \* orders: order id -> size left
    depths,             \* depths: per side, price -> [size, count]
    seq, logOffset, logSeq,
    readOffset, lastSeq,\* its log reader: the next offset, the last seq passed on
    lastFull,           \* lastFullSnapshot
    snapshotCh,         \* full snapshots to be stored
    redis               \* the stored full snapshot

VARIABLES
    pc,                 \* "restore" in Restore's loop, then "run"
    unsaved,            \* the orders of the snapshot that Restore has not saved yet
    past,               \* history: log and levels of the first change with each seq
    crashes             \* counter for the bound

source  == <<topic, engine, written, held>>
book    == <<orders, depths, seq, logOffset, logSeq>>
reader  == <<readOffset, lastSeq>>
restore == <<pc, unsaved>>
vars == <<source, book, reader, lastFull, snapshotCh, redis, restore, past, crashes>>

\* The sizes of all price levels, as clients see them.
Prices == {Order[i].price : i \in Ids}

LevelsOf(d) ==
    [s \in Sides |-> [p \in Prices |-> IF p \in DOMAIN d[s] THEN d[s][p].size ELSE 0]]

Positive == Nat \ {0}

\* The maps hold positive sizes and counts only; while the stream runs,
\* seq, offset and log seq are of changes that were made.
TypeOK ==
    /\ DOMAIN orders \subseteq Ids /\ \A i \in DOMAIN orders : orders[i] \in Positive
    /\ \A s \in Sides : \A p \in DOMAIN depths[s] :
          p \in Prices /\ depths[s][p] \in [size : Positive, count : Positive]
    /\ {seq, logOffset, logSeq, readOffset, lastSeq} \subseteq Nat
    /\ pc \in {"restore", "run"} /\ unsaved \subseteq Ids
    /\ pc = "run" => seq <= Len(past) /\ readOffset <= Len(topic) /\ logSeq <= lastSeq

\* A map without entries.
Empty == [x \in {} |-> 0]

NoLevels == [s \in Sides |-> Empty]

Init ==
    /\ topic = << >> /\ written = << >> /\ held = << >>
    /\ engine = [i \in Ids |-> [phase |-> "new", size |-> 0]]
    /\ orders = Empty /\ depths = NoLevels
    /\ seq = 0 /\ logOffset = 0 /\ logSeq = 0
    /\ readOffset = 0 /\ lastSeq = 0
    /\ lastFull = NoSnapshot /\ snapshotCh = << >> /\ redis = NoSnapshot
    /\ pc = "run" /\ unsaved = {}
    /\ past = << >> /\ crashes = 0
-----------------------------------------------------------------------------
(* The matching engine's contract: what it logs of its orders.             *)

Log(type, i, size, n) == [type |-> type, id |-> i, size |-> size, seq |-> Len(written) + n]

\* The sizes left of the orders on the engine's book.
OnBook(e) == [i \in {j \in Ids : e[j].phase = "open"} |-> e[i].size]

EngineLogs(i, phase, left, new) ==
    /\ Len(topic) + Len(new) <= MaxLogs
    /\ topic' = topic \o new
    /\ engine' = [engine EXCEPT ![i] = [phase |-> phase, size |-> left]]
    /\ written' = written \o new
    /\ held' = held \o [n \in 1 .. Len(new) |-> OnBook(engine')]
    /\ UNCHANGED <<book, reader, lastFull, snapshotCh, redis, restore, past, crashes>>

EngineOpens(i) ==
    /\ engine[i].phase = "new"
    /\ EngineLogs(i, "open", Order[i].size, <<Log("open", i, Order[i].size, 1)>>)

\* A match takes some of a maker, or all of it, and then it is done.
EngineMatches(i, size) ==
    /\ engine[i].phase = "open" /\ size <= engine[i].size
    /\ \/ /\ size < engine[i].size
          /\ EngineLogs(i, "open", engine[i].size - size, <<Log("match", i, size, 1)>>)
       \/ /\ size = engine[i].size
          /\ EngineLogs(i, "done", 0, <<Log("match", i, size, 1), Log("done", i, 0, 2)>>)

\* A cancel, or the end of an order that never was on the book.
EngineEnds(i) ==
    /\ engine[i].phase \in {"new", "open"}
    /\ EngineLogs(i, "done", 0, <<Log("done", i, engine[i].size, 1)>>)

\* A restarted engine stores its last logs, from some seq on, once more.
EngineRepeats(first) ==
    LET again == SubSeq(written, first, Len(written))
    IN  /\ Len(topic) + Len(again) <= MaxLogs
        /\ topic' = topic \o again
        /\ UNCHANGED <<engine, written, held, book, reader, lastFull, snapshotCh, redis, restore, past, crashes>>
-----------------------------------------------------------------------------
(* The replica.                                                            *)

Without(f, x) == [y \in DOMAIN f \ {x} |-> f[y]]

With(f, x, v) == [y \in DOMAIN f \cup {x} |-> IF y = x THEN v ELSE f[y]]

\* saveOrder: a price level after one of its orders went from oldSize to
\* newSize; zero is no order.
LevelAfter(level, oldSize, newSize) ==
    [size  |-> level.size + newSize - oldSize,
     count |-> level.count + (IF oldSize = 0 THEN 1 ELSE 0) - (IF newSize = 0 THEN 1 ELSE 0)]

NoLevel == [size |-> 0, count |-> 0]

LevelAt(levels, p) == IF p \in DOMAIN levels THEN levels[p] ELSE NoLevel

\* Faulty: leaves a level of size zero.
PutLevelAlways(levels, p, level) == With(levels, p, level)

PutLevel(levels, p, level) ==
    IF level.size = 0 THEN Without(levels, p) ELSE With(levels, p, level)

\* saveOrder's maps with the size of order i set to newSize.
SetSize(sizes, i, newSize) == IF newSize = 0 THEN Without(sizes, i) ELSE With(sizes, i, newSize)

SizeIn(sizes, i) == IF i \in DOMAIN sizes THEN sizes[i] ELSE 0

SetLevel(d, i, oldSize, newSize) ==
    LET s == Order[i].side
        p == Order[i].price
    IN  [d EXCEPT ![s] = PutLevel(@, p, LevelAfter(LevelAt(@, p), oldSize, newSize))]

\* saveOrder, of an order that is on the book or has a size.
SaveOrder(offset, s, i, newSize) ==
    /\ orders' = SetSize(orders, i, newSize)
    /\ depths' = SetLevel(depths, i, SizeIn(orders, i), newSize)
    /\ logOffset' = offset /\ logSeq' = s /\ seq' = seq + 1

Due(last, n, gap) == IF last = NoSnapshot THEN TRUE ELSE n - last.seq > gap

CanRead == pc = "run" /\ readOffset < Len(topic)

Reading == topic[readOffset + 1]

\* The log reader stops for good at a gap in the seqs.
IsGap(log) == lastSeq > 0 /\ log.seq > lastSeq + 1

CanApply == CanRead /\ ~ IsGap(Reading)

\* The size an order has after a log, by the log and the replica.
NewSize(log) == IF log.type = "open" THEN log.size ELSE orders[log.id] - log.size

\* The logs that are passed over: repeated ones, by the log reader, and the
\* end of an order that is not on the book, by runApplier.
IsSkipped(log) ==
    \/ log.seq <= lastSeq
    \/ log.type = "done" /\ log.id \notin DOMAIN orders

SkipLog ==
    /\ CanApply
    /\ IsSkipped(Reading)
    /\ readOffset' = readOffset + 1
    /\ lastSeq' = IF Reading.seq > lastSeq THEN Reading.seq ELSE lastSeq
    /\ UNCHANGED <<source, book, lastFull, snapshotCh, redis, restore, past, crashes>>

\* runApplier panics at a match of an order that is not on the book,
\* saveOrder at a negative size and when it misses the order's level.
Panics(log) ==
    \/ log.type = "match" /\ log.id \notin DOMAIN orders
    \/ NewSize(log) < 0
    \/ log.id \in DOMAIN orders /\ Order[log.id].price \notin DOMAIN depths[Order[log.id].side]

SnapshotFull(sizes, n, offset, s) ==
    [seq |-> n, logOffset |-> offset, logSeq |-> s, orders |-> sizes]

\* runApplier, a log: save the order, which numbers the change, and take a
\* full snapshot when it is due.
ApplyLog ==
    /\ CanApply
    /\ ~ IsSkipped(Reading) /\ ~ Panics(Reading)
    /\ SaveOrder(readOffset, Reading.seq, Reading.id, NewSize(Reading))
    /\ past' = IF seq = Len(past)
               THEN Append(past, [logSeq |-> logSeq', levels |-> LevelsOf(depths')]) ELSE past
    /\ LET full == SnapshotFull(orders', seq', logOffset', logSeq')
       IN  IF Due(lastFull, seq', FullGap)
           THEN lastFull' = full /\ snapshotCh' = Append(snapshotCh, full)
           ELSE UNCHANGED <<lastFull, snapshotCh>>
    /\ readOffset' = readOffset + 1 /\ lastSeq' = Reading.seq
    /\ UNCHANGED <<source, redis, restore, crashes>>

\* runSnapshots; an error is logged and the snapshot forgotten.
StoreFull ==
    /\ snapshotCh # << >>
    /\ redis' \in {Head(snapshotCh), redis}
    /\ snapshotCh' = Tail(snapshotCh)
    /\ UNCHANGED <<source, book, reader, lastFull, restore, past, crashes>>

\* The pushing service dies.  It starts again with an empty book and, when
\* there is a stored snapshot, restores that; no other is stored meanwhile.
Crash ==
    /\ crashes < MaxCrashes
    /\ crashes' = crashes + 1
    /\ orders' = Empty /\ depths' = NoLevels
    /\ seq' = 0 /\ logOffset' = 0 /\ logSeq' = 0
    /\ readOffset' = 0 /\ lastSeq' = 0
    /\ lastFull' = NoSnapshot /\ snapshotCh' = << >>
    /\ IF redis = NoSnapshot THEN pc' = "run" /\ unsaved' = {}
       ELSE pc' = "restore" /\ unsaved' = DOMAIN redis.orders
    /\ UNCHANGED <<source, redis, past>>

\* Restore: the orders of the snapshot are saved one by one.
RestoreOrder(i) ==
    /\ pc = "restore" /\ i \in unsaved
    /\ SaveOrder(0, 0, i, redis.orders[i])
    /\ unsaved' = unsaved \ {i}
    /\ UNCHANGED <<source, reader, lastFull, snapshotCh, redis, pc, past, crashes>>

\* Faulty: starts two logs after the snapshot's.
StartOffsetSkips(offset) == IF offset > 0 THEN offset + 2 ELSE 0

\* OrderBookStream.Start's first offset.
StartOffset(offset) == IF offset > 0 THEN offset + 1 ELSE 0

\* Faulty: the restored book numbers its changes on from its orders.
RestoredSeqKept(snapshot) == seq

\* Restore's seq.
RestoredSeq(snapshot) == snapshot.seq

\* The end of Restore, and Start.
RestoreEnds ==
    /\ pc = "restore" /\ unsaved = {}
    /\ seq' = RestoredSeq(redis) /\ logOffset' = redis.logOffset /\ logSeq' = redis.logSeq
    /\ readOffset' = StartOffset(redis.logOffset) /\ lastSeq' = redis.logSeq
    /\ pc' = "run"
    /\ UNCHANGED <<source, orders, depths, lastFull, snapshotCh, redis, unsaved, past, crashes>>

Next ==
    \/ \E i \in Ids : EngineOpens(i) \/ EngineEnds(i)
    \/ \E i \in Ids : \E size \in 1 .. Order[i].size : EngineMatches(i, size)
    \/ \E first \in 1 .. Len(written) : EngineRepeats(first)
    \/ SkipLog \/ ApplyLog \/ StoreFull
    \/ Crash \/ (\E i \in unsaved : RestoreOrder(i)) \/ RestoreEnds

Spec == Init /\ [][Next]_vars
-----------------------------------------------------------------------------
(* Properties.                                                             *)

\* What the engine's book held after the log with seq n.
BookAfter(n) == IF n = 0 THEN Empty ELSE held[n]

\* Those of the orders that rest at a price.
RestingAt(sizes, s, p) == {i \in DOMAIN sizes : Order[i].side = s /\ Order[i].price = p}

\* Each price level is the sum, and the number, of the replica's orders at
\* its price.
LevelsMatchOrders ==
    \A s \in Sides : \A p \in Prices :
        LET there == RestingAt(orders, s, p)
        IN  IF there = {} THEN p \notin DOMAIN depths[s]
            ELSE p \in DOMAIN depths[s] /\ depths[s][p] =
                 [size |-> SumFunctionOnSet(orders, there), count |-> Cardinality(there)]

\* The replica is the engine's book as of the last log read, through
\* repeated logs, crashes and restarts from old snapshots: no log is applied
\* twice or left out, the reader meets no gap, and neither runApplier nor
\* saveOrder panics (they would again at every start).
\* Nor do saveOrder's adjustments of the price levels drift from the orders.
ReplicaMatchesEngine ==
    /\ pc = "run" => orders = BookAfter(lastSeq)
    /\ LevelsMatchOrders
    /\ CanRead => ~ IsGap(Reading) /\ (IsSkipped(Reading) \/ ~ Panics(Reading))

\* A seq names one log and one state of the book: the changes numbered again
\* after a restart from an older snapshot are the changes clients have seen
\* under these numbers, so a seq compared across restarts means what it says.
SeqNamesState == pc = "run" /\ seq > 0 => past[seq] = [logSeq |-> logSeq, levels |-> LevelsOf(depths)]
=============================================================================
