------------------------------- MODULE Engine -------------------------------
(***************************************************************************)
(* matching/engine.go: the goroutines of one product's engine (fetcher,   *)
(* applier, committer, snapshotter), the channels between them, the Kafka *)
(* topics and the Redis key they work on, and a process that may crash    *)
(* anywhere and start again from the stored snapshot.                     *)
(*                                                                        *)
(* The handler of a message is modelled by what it does to the book and   *)
(* which logs it makes.  The matching loop itself is module OrderBook's;  *)
(* here it is a parameter: any function of the order and of the orders on *)
(* the book.                                                              *)
(***************************************************************************)
EXTENDS DedupWindow, Integers, Sequences, SequencesExt

CONSTANTS
    Ids,                \* order ids
    Traffic,            \* the messages that are sent
    Tif,                \* per order: its time in force
    Size,               \* per order: its size
    Rests,              \* sizes orders on the book may have left
    Match,              \* per order: what the loop of ApplyOrder does to a book
    WillNotMatch,       \* per order: the books on which IsOrderWillNotMatch
    WillFullMatch,      \* ... and IsOrderWillFullMatch answer TRUE
    IdStep,             \* 2^12: ids that differ by less share a shard
    SplitCount,         \* TableOrderSplitCount: de-duplication windows
    OrderCap, LogCap,   \* capacities of orderCh and logCh
    SnapCap,            \* capacity of the three snapshot channels
    Batch,              \* logs the committer stores at once (100)
    Gap,                \* offsets between two snapshots (1000)
    NoSnapshot,         \* no snapshot
    MaxOrders,          \* bound on the messages of the order topic
    MaxCrashes,         \* bound on the crashes
    MaxExpiries         \* bound on the expiries of the Redis key

\* A message carries an order, to be applied or, when its status is
\* cancelling, to be cancelled.
Messages == [id : Ids, cancel : BOOLEAN]

Shards == 0 .. SplitCount - 1

\* mysql.GetTableIndexByOrderId
Shard(id) == (id \div IdStep) % SplitCount

\* The orders on a book: the size each has left.
OrderMaps == UNION {[S -> Rests] : S \in SUBSET Ids}

\* What a log says, apart from its numbers.
Entries == [type : {"match", "open", "done"}, id : Ids, size : Nat]

\* What handling a message does: the orders left on the book, the number of
\* trades, and the logs.
Outcomes == [orders : OrderMaps, trades : Nat, entries : Seq(Entries)]

ASSUME BookAssumption ==
    /\ Ids \subseteq Nat /\ Traffic \subseteq Messages
    /\ Tif \in [Ids -> {"GTC", "IOC", "GTX", "FOK", "other"}]
    /\ Rests \subseteq Nat /\ Size \in [Ids -> Nat]
    /\ IdStep \in Nat \ {0} /\ SplitCount \in Nat \ {0}
    /\ Match \in [Ids -> [OrderMaps -> Outcomes]]
    /\ {WillNotMatch, WillFullMatch} \subseteq [Ids -> SUBSET OrderMaps]

-----------------------------------------------------------------------------
(* The order book.                                                         *)

\* NewOrderBook
EmptyBook ==
    [orders |-> << >>, windows |-> [s \in Shards |-> EmptyWindow], tradeSeq |-> 0, logSeq |-> 0]

Untouched(orders) == [orders |-> orders, trades |-> 0, entries |-> << >>]

DoneEntry(id, remaining) == [type |-> "done", id |-> id, size |-> remaining]

\* Only ApplyOrder heeds what put says of the id.
ApplyOrder(b, id) ==
    IF Accepts(b.windows[Shard(id)], id) THEN Match[id][b.orders] ELSE Untouched(b.orders)

CancelOrder(orders, id) ==
    IF id \in DOMAIN orders
    THEN [orders  |-> [i \in DOMAIN orders \ {id} |-> orders[i]],
          trades  |-> 0,
          entries |-> <<DoneEntry(id, orders[id])>>]
    ELSE Untouched(orders)

NullifyOrder(orders, id) ==
    [orders |-> orders, trades |-> 0, entries |-> <<DoneEntry(id, Size[id])>>]

\* IOC: the rest of an applied order is cancelled.
CancelRest(r, id) ==
    LET c == CancelOrder(r.orders, id)
    IN  [orders |-> c.orders, trades |-> r.trades, entries |-> r.entries \o c.entries]

\* runApplier's dispatch.
Applies(orders, id) ==
    \/ Tif[id] = "GTC"
    \/ Tif[id] = "GTX" /\ orders \in WillNotMatch[id]
    \/ Tif[id] = "FOK" /\ orders \in WillFullMatch[id]

Handle(b, m) ==
    CASE m.cancel -> CancelOrder(b.orders, m.id)
      [] ~ m.cancel /\ Tif[m.id] = "IOC" -> CancelRest(ApplyOrder(b, m.id), m.id)
      [] ~ m.cancel /\ Applies(b.orders, m.id) -> ApplyOrder(b, m.id)
      [] ~ m.cancel /\ Tif[m.id] \in {"GTX", "FOK"} /\ ~ Applies(b.orders, m.id)
            -> NullifyOrder(b.orders, m.id)
      [] OTHER -> Untouched(b.orders)

\* Every handler puts the id; a time in force the dispatch does not know has
\* none.
PutId(windows, m) ==
    IF m.cancel \/ Tif[m.id] # "other"
    THEN [windows EXCEPT ![Shard(m.id)] = Put(@, m.id)]
    ELSE windows

ApplyTo(b, m) ==
    LET r == Handle(b, m)
    IN  [orders   |-> r.orders,
         windows  |-> PutId(b.windows, m),
         tradeSeq |-> b.tradeSeq + r.trades,
         logSeq   |-> b.logSeq + Len(r.entries)]

\* The logs of a message: their seq, the trade its own trades are numbered
\* from, and what they say.
LogsOf(b, m) ==
    LET r == Handle(b, m)
    IN  [n \in 1 .. Len(r.entries) |->
            [seq |-> b.logSeq + n, trades |-> b.tradeSeq, entry |-> r.entries[n]]]

\* The reference: a sequence of messages applied to an empty book, without
\* crashes, and all the logs this makes.
NothingApplied == [book |-> EmptyBook, logs |-> << >>]

ReplayOne(r, m) == [book |-> ApplyTo(r.book, m), logs |-> r.logs \o LogsOf(r.book, m)]

Replay(msgs) ==
    LET upTo[n \in 0 .. Len(msgs)] == IF n = 0 THEN NothingApplied ELSE ReplayOne(upTo[n - 1], msgs[n])
    IN  upTo[Len(msgs)]
-----------------------------------------------------------------------------
VARIABLES
    orderTopic,         \* Kafka: the order messages; offsets start at 0
    logTopic,           \* Kafka: the stored logs
    redis               \* the stored snapshot

VARIABLES
    fetchOffset,        \* fetcher: the next offset to read
    orderCh,
    book,               \* applier: OrderBook
    appliedOffset,      \* applier: orderOffset, the last message applied
    outbox,             \* applier: logs still to be sent to logCh
    taking,             \* applier: the snapshot it waits to send
    logCh,
    buffer,             \* committer: logs
    started,            \* committer: it has read its first seq
    seq,                \* committer: seq
    pending,            \* committer: pending
    approved,           \* committer: the snapshot it waits to send
    lastSnapshot,       \* snapshotter: orderOffset
    requesting,         \* snapshotter: the request it waits to send
    snapshotReqCh, snapshotApproveReqCh, snapshotCh

VARIABLES
    crashes, expiries,  \* counters for the bounds
    unsound,            \* history: some start restored an unsound snapshot, or
                        \* its committer started too late
    raced               \* history: ids were put into the windows of the stored
                        \* snapshot after it was taken

topics      == <<orderTopic, logTopic, redis>>
applier     == <<book, appliedOffset, outbox, taking>>
committer   == <<started, buffer, seq, pending, approved>>
snapshotter == <<lastSnapshot, requesting>>
snapChans   == <<snapshotReqCh, snapshotApproveReqCh, snapshotCh>>
faults      == <<crashes, expiries, unsound, raced>>
vars == <<topics, fetchOffset, orderCh, applier, logCh, committer, snapshotter,
          snapChans, faults>>

Books == [orders : OrderMaps, windows : [Shards -> Windows], tradeSeq : Nat, logSeq : Nat]
Snapshots == [offset : Nat, book : Books]
Logs == [seq : Nat, trades : Nat, entry : Entries]
OffsetOrders == [offset : Nat, order : Messages]

ASSUME EngineAssumption ==
    /\ {OrderCap, LogCap, SnapCap, Batch} \subseteq Nat \ {0}
    /\ {Gap, MaxOrders, MaxCrashes, MaxExpiries} \subseteq Nat
    /\ NoSnapshot \notin Snapshots \cup Nat

TypeOK ==
    /\ orderTopic \in Seq(Messages) /\ logTopic \in Seq(Logs)
    /\ redis \in Snapshots \cup {NoSnapshot}
    /\ fetchOffset \in Nat /\ orderCh \in Seq(OffsetOrders) /\ Len(orderCh) <= OrderCap
    /\ book \in Books /\ appliedOffset \in Nat
    /\ outbox \in Seq(Logs) /\ logCh \in Seq(Logs) /\ Len(logCh) <= LogCap
    /\ buffer \in Seq(Logs) /\ Len(buffer) < Batch /\ started \in BOOLEAN /\ seq \in Nat
    /\ {taking, pending, approved} \subseteq Snapshots \cup {NoSnapshot}
    /\ lastSnapshot \in Nat /\ requesting \in Nat \cup {NoSnapshot}
    /\ snapshotReqCh \in Seq(Nat)
    /\ snapshotApproveReqCh \in Seq(Snapshots) /\ snapshotCh \in Seq(Snapshots)
    /\ Len(snapshotReqCh) <= SnapCap
    /\ Len(snapshotApproveReqCh) <= SnapCap /\ Len(snapshotCh) <= SnapCap
    /\ crashes \in 0 .. MaxCrashes /\ expiries \in 0 .. MaxExpiries
    /\ unsound \in BOOLEAN /\ raced \in BOOLEAN
-----------------------------------------------------------------------------
\* Faulty: reads the message of the snapshot's offset again.
FirstOffsetAgain(offset) == offset

\* runFetcher's starting offset: after the snapshot's, or the first.
FirstOffset(offset) == IF offset > 0 THEN offset + 1 ELSE 0

\* NewEngine and Start with the state of Redis, in the next state: the book
\* and the offset of the snapshot if there is one, everything else anew.
Boot(snapshot) ==
    LET found == snapshot # NoSnapshot
        b == IF found THEN snapshot.book ELSE EmptyBook
        offset == IF found THEN snapshot.offset ELSE 0
    IN  /\ fetchOffset' = FirstOffset(offset)
        /\ orderCh' = << >>
        /\ book' = b /\ appliedOffset' = 0 /\ outbox' = << >> /\ taking' = NoSnapshot
        /\ logCh' = << >>
        /\ started' = FALSE /\ buffer' = << >> /\ seq' = b.logSeq
        /\ pending' = NoSnapshot /\ approved' = NoSnapshot
        /\ lastSnapshot' = offset /\ requesting' = NoSnapshot
        /\ snapshotReqCh' = << >> /\ snapshotApproveReqCh' = << >> /\ snapshotCh' = << >>

Init ==
    /\ orderTopic = << >> /\ logTopic = << >> /\ redis = NoSnapshot
    /\ fetchOffset = 0 /\ orderCh = << >>
    /\ book = EmptyBook /\ appliedOffset = 0 /\ outbox = << >> /\ taking = NoSnapshot
    /\ logCh = << >>
    /\ started = FALSE /\ buffer = << >> /\ seq = 0
    /\ pending = NoSnapshot /\ approved = NoSnapshot
    /\ lastSnapshot = 0 /\ requesting = NoSnapshot
    /\ snapshotReqCh = << >> /\ snapshotApproveReqCh = << >> /\ snapshotCh = << >>
    /\ crashes = 0 /\ expiries = 0 /\ unsound = FALSE /\ raced = FALSE

\* submitOrder of the REST server, and the resending its Kafka writer does.
SubmitOrder(m) ==
    /\ Len(orderTopic) < MaxOrders
    /\ orderTopic' = Append(orderTopic, m)
    /\ UNCHANGED <<logTopic, redis, fetchOffset, orderCh, applier, logCh, committer,
                   snapshotter, snapChans, faults>>

\* runFetcher
Fetch ==
    /\ fetchOffset < Len(orderTopic)
    /\ Len(orderCh) < OrderCap
    /\ orderCh' = Append(orderCh, [offset |-> fetchOffset, order |-> orderTopic[fetchOffset + 1]])
    /\ fetchOffset' = fetchOffset + 1
    /\ UNCHANGED <<topics, applier, logCh, committer, snapshotter, snapChans, faults>>

\* The applier is back at its select.
ApplierFree == outbox = << >> /\ taking = NoSnapshot

\* runApplier, a message: apply it; its logs are sent one by one (SendLog)
\* before the applier takes anything else, so that the offset can be noted
\* here.
ApplyMessage ==
    /\ ApplierFree
    /\ orderCh # << >>
    /\ book' = ApplyTo(book, Head(orderCh).order)
    /\ outbox' = LogsOf(book, Head(orderCh).order)
    /\ appliedOffset' = Head(orderCh).offset
    /\ orderCh' = Tail(orderCh)
    /\ UNCHANGED <<topics, fetchOffset, taking, logCh, committer, snapshotter, snapChans, faults>>

SendLog ==
    /\ outbox # << >>
    /\ Len(logCh) < LogCap
    /\ logCh' = Append(logCh, Head(outbox))
    /\ outbox' = Tail(outbox)
    /\ UNCHANGED <<topics, fetchOffset, orderCh, book, appliedOffset, taking, committer,
                   snapshotter, snapChans, faults>>

\* A send to one of the snapshot channels: a goroutine that finds it full
\* keeps what it sends and does nothing else until there is room.
Send(ch, held, s) ==
    IF Len(ch) < SnapCap THEN ch' = Append(ch, s) /\ UNCHANGED held
                         ELSE held' = s /\ UNCHANGED ch

SendHeld(ch, held) ==
    /\ held # NoSnapshot
    /\ Len(ch) < SnapCap
    /\ ch' = Append(ch, held)
    /\ held' = NoSnapshot

\* Faulty: notes the offset before the last message.
TakeSnapshotBehind ==
    /\ ApplierFree
    /\ snapshotReqCh # << >>
    /\ snapshotReqCh' = Tail(snapshotReqCh)
    /\ \/ /\ appliedOffset - Head(snapshotReqCh) <= Gap
          /\ UNCHANGED <<snapshotApproveReqCh, taking>>
       \/ /\ appliedOffset - Head(snapshotReqCh) > Gap
          /\ Send(snapshotApproveReqCh, taking, [offset |-> appliedOffset - 1, book |-> book])
    /\ UNCHANGED <<topics, fetchOffset, orderCh, book, appliedOffset, outbox, logCh, committer,
                   snapshotter, snapshotCh, faults>>

\* Faulty: takes a snapshot however few messages were applied since.
TakeSnapshotAlways ==
    /\ ApplierFree
    /\ snapshotReqCh # << >>
    /\ snapshotReqCh' = Tail(snapshotReqCh)
    /\ Send(snapshotApproveReqCh, taking, [offset |-> appliedOffset, book |-> book])
    /\ UNCHANGED <<topics, fetchOffset, orderCh, book, appliedOffset, outbox, logCh, committer,
                   snapshotter, snapshotCh, faults>>

\* runApplier, a snapshot request: refuse it, or take the snapshot and ask
\* the committer to approve it.
TakeSnapshot ==
    /\ ApplierFree
    /\ snapshotReqCh # << >>
    /\ snapshotReqCh' = Tail(snapshotReqCh)
    /\ \/ /\ appliedOffset - Head(snapshotReqCh) <= Gap
          /\ UNCHANGED <<snapshotApproveReqCh, taking>>
       \/ /\ appliedOffset - Head(snapshotReqCh) > Gap
          /\ Send(snapshotApproveReqCh, taking, [offset |-> appliedOffset, book |-> book])
    /\ UNCHANGED <<topics, fetchOffset, orderCh, book, appliedOffset, outbox, logCh, committer,
                   snapshotter, snapshotCh, faults>>

SendTaken ==
    /\ SendHeld(snapshotApproveReqCh, taking)
    /\ UNCHANGED <<topics, fetchOffset, orderCh, book, appliedOffset, outbox, logCh, committer,
                   snapshotter, snapshotReqCh, snapshotCh, faults>>

\* The log topic has the logs up to seq n.
Stored(n, topic) == \A k \in 1 .. n : \E i \in DOMAIN topic : topic[i].seq = k

\* runCommitter reads the book's logSeq when it gets to run, and Start does
\* not make the applier wait for that: it reads any value logSeq has had.
\* It will discard what the applier has logged by then: logs that are
\* stored already if the start replays them, or logs that no one has.
StartCommitter ==
    /\ ~ started
    /\ started' = TRUE
    /\ seq' \in seq .. book.logSeq
    /\ unsound' = (unsound \/ ~ Stored(seq', logTopic))
    /\ UNCHANGED <<topics, fetchOffset, orderCh, applier, logCh, buffer, pending, approved,
                   snapshotter, snapChans, crashes, expiries, raced>>

\* The committer has a log to read at its select.
LogWaits == started /\ approved = NoSnapshot /\ logCh # << >>

\* runCommitter, a log: one with a seq already written is discarded.
DiscardLog ==
    /\ LogWaits
    /\ Head(logCh).seq <= seq
    /\ logCh' = Tail(logCh)
    /\ UNCHANGED <<topics, fetchOffset, orderCh, applier, committer, snapshotter,
                   snapChans, faults>>

\* Faulty: waits for a full buffer even when no log is waiting.
KeepsReadingForever == Len(buffer) + 1 < Batch

\* Faulty: goes on while logs are waiting, however full the buffer.
KeepsReadingUnbounded == Len(logCh) > 1

\* chan is not empty and buffer is not full: continue reading.
KeepsReading == Len(logCh) > 1 /\ Len(buffer) + 1 < Batch

BufferLog ==
    /\ LogWaits
    /\ Head(logCh).seq > seq
    /\ KeepsReading
    /\ seq' = Head(logCh).seq
    /\ buffer' = Append(buffer, Head(logCh))
    /\ logCh' = Tail(logCh)
    /\ UNCHANGED <<topics, fetchOffset, orderCh, applier, started, pending, approved, snapshotter,
                   snapChans, faults>>

\* The committer holds a batch it has to store.
MustStore == LogWaits /\ Head(logCh).seq > seq /\ ~ KeepsReading

StoreLogs ==
    /\ MustStore
    /\ logTopic' = logTopic \o Append(buffer, Head(logCh))
    /\ seq' = Head(logCh).seq
    /\ buffer' = << >>
    /\ logCh' = Tail(logCh)
    /\ IF pending # NoSnapshot /\ Head(logCh).seq >= pending.book.logSeq
       THEN Send(snapshotCh, approved, pending) /\ pending' = NoSnapshot
       ELSE UNCHANGED <<snapshotCh, approved, pending>>
    /\ UNCHANGED <<orderTopic, redis, fetchOffset, orderCh, applier, started, snapshotter,
                   snapshotReqCh, snapshotApproveReqCh, faults>>

\* runCommitter, an approval request: approve it when seq has reached the
\* snapshot's, whether or not the logs up to seq are still in the buffer;
\* otherwise it replaces the pending one.
ApproveSnapshot ==
    /\ started /\ approved = NoSnapshot
    /\ snapshotApproveReqCh # << >>
    /\ snapshotApproveReqCh' = Tail(snapshotApproveReqCh)
    /\ LET s == Head(snapshotApproveReqCh)
       IN  \/ /\ seq >= s.book.logSeq
              /\ Send(snapshotCh, approved, s)
              /\ pending' = NoSnapshot
           \/ /\ seq < s.book.logSeq
              /\ pending' = s
              /\ UNCHANGED <<snapshotCh, approved>>
    /\ UNCHANGED <<topics, fetchOffset, orderCh, applier, logCh, started, buffer, seq, snapshotter,
                   snapshotReqCh, faults>>

SendApproved ==
    /\ SendHeld(snapshotCh, approved)
    /\ UNCHANGED <<topics, fetchOffset, orderCh, applier, logCh, started, buffer, seq, pending,
                   snapshotter, snapshotReqCh, snapshotApproveReqCh, faults>>

\* runSnapshots, the timer.  time.After starts anew in every round, so it
\* fires only while snapshotCh is empty.
RequestSnapshot ==
    /\ requesting = NoSnapshot
    /\ snapshotCh = << >>
    /\ Send(snapshotReqCh, requesting, lastSnapshot)
    /\ UNCHANGED <<topics, fetchOffset, orderCh, applier, logCh, committer, lastSnapshot,
                   snapshotApproveReqCh, snapshotCh, faults>>

SendRequest ==
    /\ SendHeld(snapshotReqCh, requesting)
    /\ UNCHANGED <<topics, fetchOffset, orderCh, applier, logCh, committer, lastSnapshot,
                   snapshotApproveReqCh, snapshotCh, faults>>

\* What json.Marshal may read of a window that has gone from w to now.
\* Without a slide it has some of the ids put since; after one the bits
\* stand for other ids than before, and any of them may be set.
TornWindow(w, now) ==
    IF w.lo = now.lo
    THEN {[w EXCEPT !.seen = @ \cup more] : more \in SUBSET (now.seen \ w.seen)}
    ELSE UNION {{[lo |-> lo, seen |-> seen] : seen \in SUBSET (lo .. lo + Cap - 1)} :
                   lo \in w.lo .. now.lo}

\* What json.Marshal may read for a snapshot.  Snapshot copies the orders
\* and the seqs, but only the slice of pointers to the windows: the applier
\* goes on putting ids into them (a data race).
Marshalled(s) ==
    LET torn == [i \in Shards |-> TornWindow(s.book.windows[i], book.windows[i])]
    IN  {[s EXCEPT !.book.windows = ws] :
            ws \in {ws \in [Shards -> UNION {torn[i] : i \in Shards}] :
                       \A i \in Shards : ws[i] \in torn[i]}}

PutSnapshot ==
    /\ redis' \in Marshalled(Head(snapshotCh))
    /\ raced' = (Head(snapshotCh).book.windows # book.windows)

\* runSnapshots, an approved snapshot is stored.
StoreSnapshot ==
    /\ requesting = NoSnapshot /\ snapshotCh # << >>
    /\ PutSnapshot
    /\ lastSnapshot' = Head(snapshotCh).offset
    /\ snapshotCh' = Tail(snapshotCh)
    /\ UNCHANGED <<orderTopic, logTopic, fetchOffset, orderCh, applier, logCh, committer,
                   requesting, snapshotReqCh, snapshotApproveReqCh, crashes, expiries, unsound>>

\* ... or reported as not stored, which it may have been all the same.
StoreSnapshotFails ==
    /\ requesting = NoSnapshot /\ snapshotCh # << >>
    /\ UNCHANGED <<redis, raced>> \/ PutSnapshot
    /\ snapshotCh' = Tail(snapshotCh)
    /\ UNCHANGED <<orderTopic, logTopic, fetchOffset, orderCh, applier, logCh, committer,
                   snapshotter, snapshotReqCh, snapshotApproveReqCh, crashes, expiries, unsound>>

\* A snapshot is the state that the messages up to its offset produce, and
\* all the logs they made are stored.
Prefix(offset) ==
    SubSeq(orderTopic, 1, IF offset < Len(orderTopic) THEN offset + 1 ELSE Len(orderTopic))

IsReplay(s) ==
    LET b == Replay(Prefix(s.offset)).book
    IN  /\ s.book.orders = b.orders
        /\ s.book.tradeSeq = b.tradeSeq /\ s.book.logSeq = b.logSeq

WindowsExact(s) == s.book.windows = Replay(Prefix(s.offset)).book.windows

Committed(s, topic) == Stored(s.book.logSeq, topic)

\* The code stores snapshots that are not: one whose logs are still in the
\* buffer (StoredSnapshotCommitted), and one whose windows, which Snapshot
\* copies by pointer, went on changing (SnapshotConsistent).
Sound(s, topic) ==
    s # NoSnapshot => IsReplay(s) /\ WindowsExact(s) /\ Committed(s, topic)

\* The process dies and starts again.
Restart(topic) ==
    /\ crashes < MaxCrashes
    /\ crashes' = crashes + 1
    /\ Boot(redis)
    /\ unsound' = (unsound \/ ~ Sound(redis, topic))
    /\ UNCHANGED <<orderTopic, redis, expiries, raced>>

Crash == Restart(logTopic) /\ UNCHANGED logTopic

\* Store fails, or the process dies in it: some of the batch is written.
CrashInStore ==
    /\ MustStore
    /\ LET batch == Append(buffer, Head(logCh))
       IN  \E n \in 1 .. Len(batch) :
              /\ logTopic' = logTopic \o SubSeq(batch, 1, n)
              /\ Restart(logTopic')

\* The Redis key outlives its seven days.
Expire ==
    /\ redis # NoSnapshot
    /\ expiries < MaxExpiries
    /\ expiries' = expiries + 1
    /\ redis' = NoSnapshot
    /\ UNCHANGED <<orderTopic, logTopic, fetchOffset, orderCh, applier, logCh, committer,
                   snapshotter, snapChans, crashes, unsound, raced>>

Next ==
    \/ \E m \in Traffic : SubmitOrder(m)
    \/ Fetch
    \/ ApplyMessage \/ SendLog \/ TakeSnapshot \/ SendTaken
    \/ StartCommitter \/ DiscardLog \/ BufferLog \/ StoreLogs \/ ApproveSnapshot \/ SendApproved
    \/ RequestSnapshot \/ SendRequest \/ StoreSnapshot \/ StoreSnapshotFails
    \/ Crash \/ CrashInStore \/ Expire

Spec == Init /\ [][Next]_vars

\* Every goroutine that can go on does, and select picks its case at random
\* among those that are ready: a message or a log that is ready again and
\* again is taken in the end, however often a snapshot is too.  Nothing is
\* assumed of clients, of the timer, of failures or of Redis.
Fairness ==
    /\ WF_vars(Fetch)
    /\ SF_vars(ApplyMessage) /\ WF_vars(TakeSnapshot) /\ WF_vars(SendLog \/ SendTaken)
    /\ SF_vars(DiscardLog \/ BufferLog \/ StoreLogs) /\ WF_vars(ApproveSnapshot)
    /\ WF_vars(StartCommitter \/ SendApproved)
    /\ WF_vars(SendRequest \/ StoreSnapshot)

FairSpec == Spec /\ Fairness
-----------------------------------------------------------------------------
(***************************************************************************)
(* matching/kafka_log_reader.go: what a reader that starts at the          *)
(* beginning of the log topic passes to its observer, and whether it       *)
(* stops at a discontinuity.                                               *)
(***************************************************************************)
ReadLog(r, log) ==
    IF r.fatal \/ log.seq <= r.last THEN r
    ELSE IF r.last > 0 /\ log.seq # r.last + 1 THEN [r EXCEPT !.fatal = TRUE]
    ELSE [last |-> log.seq, view |-> Append(r.view, log), fatal |-> FALSE]

NothingRead == [last |-> 0, view |-> << >>, fatal |-> FALSE]

Reader(topic) ==
    LET upTo[n \in 0 .. Len(topic)] == IF n = 0 THEN NothingRead ELSE ReadLog(upTo[n - 1], topic[n])
    IN  upTo[Len(topic)]
-----------------------------------------------------------------------------
(* Properties.                                                             *)

\* What a log reader passes on is a prefix of the crash-free log of the
\* order topic, and it never meets a discontinuity, however the engine
\* crashed, replayed messages and stored logs again: no log of a cancel, of
\* a repeated order or of a match is lost, doubled or numbered anew.  It
\* holds as long as every snapshot a start restored was sound and no
\* committer started so late that it discards a log nobody has; the code
\* guarantees neither.
ReaderConsistent ==
    ~ unsound => /\ ~ Reader(logTopic).fatal
                 /\ IsPrefix(Reader(logTopic).view, Replay(orderTopic).logs)

\* The stored snapshot pairs an order offset with the book of just the
\* messages up to that offset: its orders, its seqs and, unless ids were
\* put between the taking and the storing of the snapshot, its
\* de-duplication windows; so that the replay from the offset misses no
\* message and applies none twice.
SnapshotIsReplay ==
    ~ unsound /\ redis # NoSnapshot => IsReplay(redis) /\ (raced \/ WindowsExact(redis))

\* A later snapshot never gives way to an earlier one.
SnapshotMonotone ==
    [][redis # NoSnapshot /\ redis' # NoSnapshot => redis'.offset >= redis.offset]_vars

\* The snapshotter waits for the applier to take a request, the committer
\* for the snapshotter to take an approved snapshot, and the applier for
\* the committer to take a log: the engine is stuck until its process ends.
SnapshotCycle ==
    /\ requesting # NoSnapshot /\ Len(snapshotReqCh) = SnapCap
    /\ approved # NoSnapshot /\ Len(snapshotCh) = SnapCap
    /\ outbox # << >> /\ Len(logCh) = LogCap

\* Every log of every message is stored in the end: no log stays in the
\* committer's buffer, and no goroutine waits for another for ever except
\* in the cycle of full channels.
EventuallyCommitted ==
    <>[](unsound \/ SnapshotCycle \/ ToSet(Replay(orderTopic).logs) \subseteq ToSet(logTopic))
-----------------------------------------------------------------------------
(* What comments of the code say of a snapshot.                            *)

\* All data prior to a stored snapshot has been stored (engine.go:37).
StoredSnapshotCommitted ==
    ~ unsound /\ redis # NoSnapshot => Committed(redis, logTopic)

\* A stored snapshot is the consistent memory state of an engine at a given
\* time (engine.go:44): its windows have seen just what its orders and its
\* seqs have.
SnapshotConsistent ==
    ~ unsound /\ redis # NoSnapshot => WindowsExact(redis)
=============================================================================
