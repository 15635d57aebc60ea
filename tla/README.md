# A TLA+ verification project for CheetahExchange

CheetahExchange is a spot exchange in Go. Orders enter over REST, are held
against the user's balance in MySQL and sent to a Kafka topic; a matching engine
per product reads the topic, matches, and writes a log to a second topic; workers
turn the log into fills, bills and account balances; a push service turns it
into market data for WebSocket clients. This directory holds TLA+ modules for the
parts where order, repetition, crashes and concurrency decide whether money and
books stay right, TLC configurations that check them on small instances, and
TLAPS proofs that hold for every instance: of the de-duplication window, the order book, the
matching engine with its log reader, settlement, the subscription hub and the level-2 feed.

File names in this document are relative to the repository.

## 1. Inventory

### The system's parts

| part | code | state | operations |
|---|---|---|---|
| de-duplication window | `matching/window.go` | `Min`, `Max`, a ring bitmap of `Cap` bits | `put`, `contains` |
| order book | `matching/order_book.go`, `log.go` | two depths (map of orders, treemap of keys), windows per id shard, `tradeSeq`, `logSeq` | `ApplyOrder`, `CancelOrder`, `NullifyOrder`, `IsOrderWillNotMatch`, `IsOrderWillFullMatch`, `Snapshot`, `Restore` |
| matching engine | `matching/engine.go`, `kafka_order_reader.go`, `kafka_log_store.go`, `redis_snapshot_store.go` | four goroutines, five channels, the two topics, one Redis key | fetcher, applier, committer, snapshotter, restart |
| log reader | `matching/kafka_log_reader.go` | `lastSeq`, an offset | discard repeated logs, stop at a gap, pass on |
| order placement | `service/order_service.go`, `account_service.go`, `rest/order_controller.go` | `g_order`, `g_account` | `PlaceOrder` with `HoldBalance` in one transaction, then a message to Kafka; cancel messages |
| fill maker | `worker/fill_maker.go`, `models/mysql/fill_store.go` | `fillCh`, a batch, `g_fill` | `OnMatchLog`, `OnOpenLog`, `OnDoneLog`, flusher, restart from the last row |
| fill executor | `worker/fill_executor.go`, `service.ExecuteFill` | `g_order`, `g_fill`, `g_bill` | settle an order's fills in a transaction |
| bill executor | `worker/bill_executor.go`, `service.ExecuteBill` | `g_bill`, `g_account` | pay a user's bills in a transaction |
| trade maker, tick maker | `worker/trade_maker.go`, `tick_maker.go` | `g_trade`, `g_tick` | from logs to rows, restart from the last row |
| order book replica | `pushing/order_book.go`, `order_book_stream.go` | orders, price levels, `seq`, snapshots in Redis | `saveOrder`, `runApplier`, `runSnapshots`, restart |
| clients, subscriptions | `pushing/client.go`, `subscription.go`, `message.go` | two channels, a reader and two writers per client, subscriber sets under an RWMutex | `subscribe`, `unsubscribe`, `publish`, `close`, `runReader`, `runWriter`, `runL2ChangeWriter` |
| ticker, match, Redis streams | `pushing/ticker_stream.go`, `match_stream.go`, `redis_stream.go` | the last ticker, 24-hour and 30-day statistics | publish messages, replace or change the ticker |
| binlog stream | `models/binlog_stream.go` | none | MySQL row changes to Redis notifications |
| users, products, configuration, wallet | `rest/*`, `service/*`, `conf` | single rows | reads and writes |

`cmd/spot-core` runs engine and workers in one process; REST and push are
processes of their own. What connects them:

    REST --PlaceOrder--> MySQL(g_order, g_account.hold)
      |--order, cancel--> Kafka order topic --> engine --> Kafka log topic
                                               engine <--> Redis snapshot
    log topic --> fill maker --> g_fill --> fill executor --> g_order, g_bill
                                            bill executor --> g_account
    log topic --> tick maker --> g_tick, trade maker --> g_trade
    log topic --> replica, ticker and match streams --> publish --> client channels
                  replica <--> Redis snapshot            --> WebSocket
    g_order, g_account, g_trade --binlog, Redis--> Redis stream --> publish

### What is hard, and what has to hold

* **Repetition.** Kafka, a restarted fetcher and a failed insert deliver orders,
  logs and fills again. The window must accept an id once; an accepted order must
  end once; a reader must pass on a log once; a trade must be settled once.
* **Order.** A cancel overtakes its order, a late id overtakes an early one, an
  Open log is applied past fills that still wait, a snapshot request overtakes
  changes. Nothing may be settled from the wrong state.
* **Crashes.** Every process keeps state only in memory and restarts from a
  snapshot or a last row: the offset it resumes at must match the state it
  resumes with.
* **Concurrency.** Four goroutines per engine over bounded channels; several
  executors on the same rows; two writers per client that send to each other; one RWMutex
  that every stream holds while it sends and every client wants when it comes or goes.
* **Limits.** Full channels drop changes (push) or block (engine, workers); batches
  of 10, 100 and 1000 rows must not change results; the ring bitmap wraps.
* **Times in force.** Dry runs decide in advance what the matching loop would do.

`PROJECT.json` lists these as hazards, each at its line with the properties that
would catch it.

## 2. Modules

| module | models | extends or uses |
|---|---|---|
| `DedupWindow` | the window as a value: `Put`, `Accepts` | |
| `DedupSpec` | the abstract window: an exact set of ids and a lower bound, as a state machine | `DedupWindow` |
| `Window` | `window.go`: the ring bitmap | refines `DedupSpec` |
| `WindowProofs` | the theorems about `Window` | `Window`, TLAPS |
| `MatchingSpec` | what the order book's log promises its readers | |
| `OrderBook` | `order_book.go`, `log.go`, the dispatch in `engine.go` | `DedupWindow`, implements `MatchingSpec` |
| `OrderBookProofs` | the theorems about `OrderBook`'s state and about what its log says over time, and the refinement | `OrderBook`, `SumProofs` |
| `SumProofs` | `FiniteSetsExt!SumFunctionOnSet`: how a sum changes with its set or its terms | TLAPS |
| `Engine` | `engine.go` and its stores, the handlers of the order book, the log reader | `DedupWindow` |
| `EngineProofs` | the theorems about `Engine` | `Engine`, TLAPS |
| `Settlement` | `PlaceOrder` to `ExecuteBill` | `MatchingSpec` |
| `SettlementProofs` | the theorems about `Settlement` | `Settlement`, `SumProofs` |
| `BookReplica` | `pushing/order_book.go`, full snapshots of `order_book_stream.go` | |
| `BookReplicaProofs` | the theorems about `BookReplica` | `BookReplica`, `SumProofs` |
| `Level2Feed` | `runApplier`'s publishing, `subscription.go`, `client.go`: one product's level-2 channel of one client, with other products in the client's channels | |
| `Level2FeedProofs` | the theorems about `Level2Feed` | `Level2Feed`, TLAPS |
| `PushHub` | `subscription.go`, the other streams, `client.go`: connections, subscriptions, locks | |
| `PushHubProofs` | the theorems about `PushHub` | `PushHub`, TLAPS |
| `MarketData` | `tick_maker.go`, `trade_maker.go`, `tick_store.go`, `trade_store.go` | |
| `MC*` | the values of the constants | the module they name |

Abstractions between components: `OrderBook` uses the window as a value, which
`Window` is proved to implement, and so does `Engine`, whose handlers are those of the book but for the
matching loop and the two dry runs: these are arbitrary functions of an order and of the orders on the book. `Settlement` uses the book as
`MatchingSpec`, whose actions are its engine's, with the log topic in place of `seq`;
`OrderBook` is proved to implement it (`ImplementsMatching`). `BookReplica` uses what that says of
one maker at a time: it opens, is matched within its size, and ends. Both let logs be
stored again with the same seqs, as `Engine` does, and so does the topic of `MarketData`.
`Level2Feed` takes any change of any level.

### Window
State: `Min`, `Max`, `Bitmap` as in the code, `err` for the result of the last
`put`, and the history `accepted`. The four exits of `put` are the four actions.

### OrderBook
State: `orders` and `queue` are the two containers of each depth (map, treemap), kept
apart because the code changes them apart. `ApplyOrder` is one step per
iteration of its loop (`pc = "match"`), and IOC's cancel of the rest is a step
(`pc = "rest"`), because properties such as `BookNotCrossed` should hold between
them; no message is taken before the handler has ended. Messages carry orders that
`PlaceOrder` lets through (`ValidOrder`), at most one order per id, delivered
any number of times, with cancels at any time. Decimals are naturals in units of
the product's increments; division truncates, as `Div(...).Truncate` does.

### MatchingSpec
The orders as the logs tell of them: what is left of each and its phase, and the last `seq`. The
refinement mapping reads them off `OrderBook`'s record of its logs (`filled`, `spent`, `closed`) and
the book itself, not off `taker`, so a trade larger than what the logs say is left
would not be a step of `MatchingSpec`. `RefuseAgain` is the Done log `NullifyOrder` writes for an order that
was applied or refused before. `Settlement` has no such step: what follows when such an order
is still on the book (its hold is released while it can still trade) is outside it.

### Engine
One action per select case or per blocking point of each goroutine. `orderTopic`,
`logTopic` and `redis` survive a crash, all else is rebuilt by `Boot`. A store may
write a part of its batch and die (`CrashInStore`: the code panics), a snapshot
may fail to be stored, and its key may expire. `Reader` is the log reader applied
to the whole topic; `Replay` is the reference: the book and the logs that the order topic
makes without crashes.

A book is its orders with what is left of each, its windows, `tradeSeq` and `logSeq`. A message is an order or
a cancel, and any may come again. `Handle` is the dispatch of `runApplier`: only `ApplyOrder` heeds what
the window says of an id. `CancelOrder` puts the id, and removes and logs the order when it is on
the book; `NullifyOrder` puts the id and writes a Done log, every time. So a message of a known id may change
the book and write logs, a cancel of an absent order takes its id without a log, and a message handled once more
or once less is not the same. `Match`, `WillNotMatch` and `WillFullMatch`, the loop of `ApplyOrder` and the dry runs, are
constants: the theorems hold for all of them, and `MCEngine` has a loop over orders of one price.

`Snapshot` copies orders and seqs but only pointers to the windows, and the applier goes on putting ids
into them until the snapshotter marshals them: `Marshalled` is every state of the windows it may read (`raced`: there
was such an id). `StartCommitter` reads any `logSeq` the book has had since the start. A goroutine that
finds a snapshot channel full keeps what it sends (`taking`, `approved`, `requesting`) and does nothing
else until there is room.

### Settlement
Tables are sequences of rows in insertion order. A transaction is one step, since each
locks its order or account row before it reads. The executors may run for any
order or account at any time; their notifications and inspectors are only in
the fairness. The fill maker has its reader, `fillCh`, its batch and its insert,
which may take place and be repeated (`FlushUnsure`).

### BookReplica, Level2Feed
`BookReplica` has the applier's log path and the full snapshot. Where the code would panic
(`Panics`) or stop (`IsGap`), nothing more is read, and `ReplicaMatchesEngine` says that
this never happens. A restart is `Crash`, one `RestoreOrder` for each order of the snapshot, in any order because
the snapshot was made from a map, and `RestoreEnds`. `written` and `held` remember the engine's logs
and its book after each; `past` the log and the levels of the first change with each seq. `Level2Feed` has the change path: `ApplyChange` numbers
a change, `CheckRoom`/`Publish` are the look at `len(writeCh)` and the send that
may wait, `TakeForward`/`Forward`/`WriteMessage`/`WriteOther` are `runWriter`, and
`NoSnapshot`, `SendSnapshot`, `Discard`, `Lost`, `Collect` the five ways
`runL2ChangeWriter` handles a change, with its sends (`SendOut`, `SendOwnMarker`) as
steps of their own because they can block. `writeCh` and `l2ChangeCh` belong to the client and serve all that
it has subscribed to: `PublishOther` and `MarkOther` put changes, markers and messages of other products and
channels into them, and `TakeOther` is what `runL2ChangeWriter` may make of one. What else is waiting decides
whether changes go on being collected and whether a marker is sent (`MoreWaits`). A client that is not
subscribed is passed over (`PassOver`). Messages to clients carry no seq; `view.seq` is
the model's note of which one they stand for, `view.clean` whether no update since the last snapshot repeated an older
change. `missed`, `usedUp` and `heldUp` are its notes of a last change that was
dropped at the subscriber's full channel, of the newest change taken as a request for a snapshot, and of a change kept,
or a marker not sent, because more was waiting.

### PushHub
Several clients, each with its reader, its writer and its level-2 goroutine, and the streams as publishers. Order
book changes go round: the writer forwards them to `l2ChangeCh` (`ForwardChange`), the level-2 goroutine takes them
and sends a message to `writeCh` (`PushMessage`), a marker to its own channel (`PushMarker`) or nothing; each of these sends
waits for room, and so do the sends of `onSub` (`SendTicker`, `SendMarker`). Which message is made of which change is
`Level2Feed`'s. The locks
are explicit: `Client.mu` is `mu`, the subscription's RWMutex is held for reading by a publisher
that is visiting clients, and one goroutine at a time announces that it wants to write
(`Announce`), which keeps new readers out, as in Go's `sync.RWMutex`. `publish` visits its
subscribers in any order, looks at a channel's length (`PublishVisit`) and sends in a
later step (`PublishSend`), which may wait. `TakeMu` and `WithLock` are `Client.subscribe`,
`unsubscribe` and `close`, which takes the lock once for each channel and leaves
`Client.channels` as it is. A ticker is an object: `NewTicker` replaces it, `SameTicker` changes
the one that channels may hold, and a client is shown what is in it when it is written.

### MarketData
The log topic is there from the start, because both workers only read it and may lag behind by any
amount. `MakeTick` is one turn of `OnMatchLog`'s loop over the granularities, whose send may
wait; `TakeTick` and `TakeTrade` collect a batch, `AddTicks` inserts one chunk, and
`AddTicksAgain` is an insert that fails, or succeeds and seems to fail, after which all chunks
are inserted again. `Crash` loads the last rows, of which the last granularity's decides where
to read on. `AddTrades` succeeds when its rows have as many values as the statement has
columns, which they have not. `cut` and `torn` remember what a crash left of the rows.

## 3. Runs

Passing runs:

| run | configuration | checks |
|---|---|---|
| `window` | capacity 3, ids to 9 | `TypeOK`, `ContainsExact`, `AcceptedOnce`, `ImplementsDedup` (refinement) |
| `book` | 3 ids, which share one of 2 shards, 2 prices, 2 sizes, limit orders of every time in force, market orders, 4 messages | `QueueMirrorsOrders`, `BookNotCrossed`, `SizeConserved`, `EndsOnce`, `HoldCoversFills`, `DropsExplained`, `TimeInForceKept`, `PriceTimePriority`, `ImplementsMatching` (refinement), `TypeOK` |
| `engine` | 3 messages (a GTC sell, its cancel, a FOK buy, any of them again), 2 crashes, an expiry, up to 4 snapshots under way, channels of 1 and 2 | `ReaderConsistent`, `SnapshotIsReplay`, `SnapshotMonotone`, `TypeOK`, `EventuallyCommitted` |
| `settle` | 2 users, 3 orders, a crash, logs stored again once, a repeated insert | `BalancesNonNegative`, `HoldsExact`, `MoneyConserved`, `OrdersMatchEngine`, `NeverOverSettled`, `TypeOK`, `EventuallySettled` |
| `replica` | 3 orders (2 at one price), 5 logs with repetitions, 2 crashes | `ReplicaMatchesEngine` (orders and levels), `SeqNamesState`, `TypeOK` |
| `feed` | 2 levels, 4 changes, 2 subscriptions, 2 messages of other products, channels and batches of 2 | `ViewExact`, `ViewNeverBack`, `CaughtUp`, `TypeOK` |
| `market` | 2 granularities, 4 topics of 3 matches with other and repeated logs, channels of 2, batches of 3 in chunks of 2, a failing insert, 2 crashes | `CandlesExact` (`PricesExact` and `VolumesExact`), `EventuallyRecorded`, `TypeOK` |
| `hub` | 2 clients of which one ends, the ticker and the order book stream, channels of 1, 3 messages, 2 requests | `NoGhosts`, `TickersInOrder`, `NothingElseBlocks`, `TypeOK` |

Runs that show a disagreement between the code and what the repository says of it:

| run | shows |
|---|---|
| `book_gtx_sell` | A GTX ("maker only", `README_CN.md:41`) sell is compared with the lowest bid (`order_book.go:148`) and trades with a higher one. |
| `engine_committed` | The committer's `seq` counts buffered logs, so a snapshot is approved before "all data prior to the snapshot has been stored" (`engine.go:37`). |
| `settle_both_sides` | A crash between the inserts of a match's two fills loses the maker's fill for good: the fill maker resumes after the log of the last row. |
| `engine_windows` | A stored snapshot is not "the consistent memory state of an engine at a given time" (`engine.go:44`): its windows, copied by pointer (`order_book.go:306`), hold ids of later messages, which a restart would drop as repeated. |

What the passing properties leave out on purpose, and the code does:

* `NullifyOrder` ignores the window and writes a Done log for a repeated message
  too: `EndsOnce` and `SizeConserved` leave out nullified orders.
* `IsOrderWillFullMatch` is always true for a market order: what `TimeInForceKept` says of FOK is
  about limit orders, and what it says of GTX about buys.
* A new order is refused without a log when its cancel, or an id of its shard a window's
  length ahead, came first: `DropsExplained` says that these are the only cases.
* A stored snapshot's windows may know ids of later messages (`SnapshotConsistent`), and its logs may still
  be in the buffer (`StoredSnapshotCommitted`); after a restart from such a snapshot (`unsound`) `ReaderConsistent`,
  `SnapshotIsReplay` and `EventuallyCommitted` say nothing.
* The committer takes its first `seq` from the book when its goroutine first runs
  (`engine.go:176`). What the applier has logged by then is discarded as duplicate. After a restart these
  may be logs the topic has, and the properties cover such a start; when it discards a log
  that nobody has, it is `unsound`.
* Snapshotter, applier and committer can wait for one another in a cycle when the request channel, the log
  channel and the channel of approved snapshots are full (`SnapshotCycle`). TLC reaches it with channels of one
  place; with the 32 of the code it takes as many timer periods in which the applier takes no
  request. `EventuallyCommitted` says that nothing else keeps a log from being stored.
* A row of `AddTrades` has 14 values (and 12 arguments for its 13 placeholders) for 13 columns
  (`trade_store.go:33`), so MySQL refuses it, and the flusher's loop, "Ensuring Inbound Success"
  (`trade_maker.go:81`), never ends: `g_trade` stays empty, and `tradeCh` fills up. `MarketData` has this
  (`AddTrades`), and its properties are about ticks.
* `MoneyConserved` and `OrdersMatchEngine` leave out a crash between the two fills of
  a match (`halved`).
* When a change with Seq 0 arrives, a snapshot is sent but `state.changes` is kept: changes
  collected before it go out after it (`client.go:186`), although the code is to "Discard changes
  where seq is less than snapshot seq" (`client.go:198`). Such an update takes levels back though the seq rises.
  What `ViewExact` and `ViewNeverBack` say of levels holds until one is sent, and again from the next snapshot
  on; TLC finds such an update within 30 steps.
* When nothing more moves, a level-2 subscriber may be left behind (`CaughtUp`): the last change
  was dropped at its full channel; a change that asked for a snapshot was used up for none (the
  last one was too old) or for one without it, and nothing asks again before the next change;
  what was waiting of another product kept the last change in the collected ones, or kept the goroutine
  from asking for a snapshot after a loss (`client.go:210`, `220`: the length is that of the client's one channel);
  or the client's two writers block each other, or `runL2ChangeWriter` itself on its own
  channel, for good. Each of the four occurs, and TLC finds the property violated without it.
* The last place of a client's channel may be taken between `publish`'s look and its send. If
  the client's writer has failed and waits for the write lock in `close`, or has ended, or if it lives and its two
  writers block each other, `publish` keeps the read lock for good, and with it every stream, every subscription and every
  closing client waits (`HubStuck`). A reader may wait for good in `onSub`'s send of a ticker or of a
  marker (`ReaderStuck`), and a writer in forwarding a change (`WriterStuck`). TLC reaches each of these;
  `NothingElseBlocks` says that there is nothing else.
* The ticker `onSub` sends may be older than one published since it was loaded:
  `TickersInOrder` leaves out that one.
* A crash between the ticks of one match (`cut`) makes the granularities that had counted it count it
  again: their volumes are too large from then on. Prices do not suffer, except after
  a crash in the middle of a repeated batch, or when a granularity has no row yet (`torn`).

Each property has a faulty variant of a definition (`Faulty:` in the modules, listed as mutants in
`PROJECT.json`), a bug the code might plausibly have, that makes TLC find the property violated.

### Bounds, and why they are enough

* Window: with capacity 3 and ids to 9, slides shorter than, equal to and longer
  than the ring, and two wrap-arounds, occur. The proof covers the rest.
* Order book: three orders are a resting order, one that competes with it, and a
  taker, over both sides; two prices and sizes give partial fills, walks through
  two makers and price improvement; the fourth message is a repetition or a cancel. Which order
  may have which time in force is chosen so that each of them meets a book of the others'.
  A window of 2 or 3 ids makes ids expire.
* Engine: every channel can fill and every batch can be partial; three messages are an order, what
  trades with it or cancels it, and a repetition; a second crash replays what the first restart stored. `Explored`
  keeps the run small: an unsound start is followed only through a first message, as the properties
  say nothing of it; after a crash one snapshot is followed at a time, after a second crash none; three and four at
  once, which fill the channels, only before the first is stored and with a message that comes twice.
* Settlement: pages of one row in place of 100 and 1000, so that an order's Done is never on the page of its
  trade. The third order can only be placed with money the first one has returned. The fee, a third rounded
  down, is due when the sell takes.
* Replica: five logs hold an order's life and half of another's at the same price; two crashes
  restart from a snapshot made after a restart.
* Feed: channels of two fill up, drop and block; four changes are what the longest counterexample of a
  faulty variant needs. A second subscription is followed up to the third change; what comes of
  other products with one subscription and up to three changes, two such messages with up to two (`Explored`).
* Market data: three matches in one or several candles of either granularity, with sizes 1, 2 and 4, so
  that a volume tells which matches it counts; a batch spans two chunks, and a second crash
  restarts from what the first restart inserted.
* Hub: with channels of one place every second message finds them full; two clients are one
  that ends and one that must not suffer from it. To block a client's two writers takes three order book
  changes, which are published to a client alone (with a ticker among them if it lives); two messages (two tickers, one changed ticker, or a ticker and a
  change that compete for the last place) are published to two clients that live, one while one of them ends (`Explored`).
* All runs set `CHECK_DEADLOCK FALSE` where a bound ends every behaviour; `window` does not
  need it. That goroutines do not wait for each other for ever is `EventuallyCommitted` and
  `EventuallySettled`, and, with the exceptions named above, `CaughtUp` and `NothingElseBlocks`.

### Fairness

`Engine!Fairness`: each goroutine that can take a step eventually does (the Go scheduler), and a select with
several cases ready again and again takes each of them in the end, because Go picks one at random: strong fairness
for the applier's messages and the committer's logs. Nothing is assumed of clients, timer, failures or Redis. `Settlement!Fairness`: the same for the
fill maker's goroutines, and for the executors because the inspectors poll the tables
every second (`fill_executor.go:107`, `bill_executor.go`), whatever notification
is lost. `MarketData!FairSpec`: the readers and flushers of the two workers run when they can.
`PushHub!FairSpec`: the goroutines run when they can, and reads and writes on a closed connection
fail at the latest with the next ping; nothing about streams and clients. The last three are
stated for the union of the goroutines' steps (`MarketData`: per worker), which is all that systems need in which every
behaviour comes to an end. Crashes and repetitions are bounded, so the properties speak of what follows the
last of them.

## 4. Proofs

`WindowProofs` proves, for every capacity `Cap >= 1` and every set of natural ids
(`WindowAssumption`):

* `WindowTypeOK`: `Spec => []TypeOK`, `Max = Min + Cap` included;
* `WindowContainsExact`: `contains` is exact for the ids the window covers;
* `WindowAcceptedOnce`: no id is accepted twice;
* `WindowImplementsDedup`: the ring bitmap implements `DedupSpec`.

None of the properties is inductive: whether a bit is right after a slide depends on
which id last used it. The inductive invariant `IndInv` adds to `TypeOK` that accepted
ids are below `Max` (`AcceptedBelowMax`: an id that enters the window is fresh) and that
the bit `v % Cap` says whether `v` is accepted, for each `v` in the window
(`BitsExact`). The argument for a slide rests on two facts about residues: ids
less than `Cap` apart have different bits (`ResidueInjective`), and every `Cap` consecutive ids use
every bit (`ResidueSurjective`). From them `SlideClears` shows that the bits cleared
are those of just the ids that enter. Each exit of `put` then has a lemma, and the
refinement maps the ring to the set of accepted ids in the window.

`OrderBookProofs` proves, for every set of orders that satisfies `ValidOrder`, every
window capacity, shard count and number of messages (`CapAssumption`,
`OrderBookAssumption`):

* `BookTypeOK`: `Spec => []TypeOK`; no size and no funds fall below zero;
* `BookQueueMirrorsOrders`: maps and treemaps agree;
* `BookNeverCrossed`: the book is never crossed, between two trades of a taker included;
* `BookPriceTimePriority`: a maker trades only when it is first in price, then in id.

The inductive invariant `IndInv` adds four facts. What rests has size left and a price
between 1 and `MaxPrice` (`RestingOrders`): with it a maker at a crossing price always trades a
positive size, so that a loop that ended without one has seen every crossing maker
(`NothingCrosses`). The windows refuse each id that is on the book or being applied
(`WindowsRefuse`, from `PutRefuses`): that is why an order the window lets through is on
neither side (`TakerOffBook`), why no id is on both (`OneSideOnly`), and why `depth.add` never overwrites
an order and leaves its old key behind. That a depth that is not empty has a first key
(`HeadExists`) is proved from the least-element principle for naturals, on prices, or on
the distance to `MaxPrice` for bids, then on ids. That a market buy's funds stay natural is
`DivisionPays`. Each action has a lemma; `DecrKeeps`, `AddKeeps` and `CancelKeeps` are
what `decrSize`, `add` and `CancelOrder` do to the invariant of the depths.

The second part of `OrderBookProofs` proves, from the same assumptions, what the log tells of an order from its
first message to its last:

* `BookEndsOnce`: an order is opened and ended at most once, and never traded after its end;
* `BookSizeConserved`: what was traded, what rests and what a Done log reports add up to the order;
* `BookHoldCoversFills`: the trades of an order cost no more than `PlaceOrder` held for it;
* `BookDropsExplained`: an order is refused without a log only by its window;
* `BookTimeInForceKept`: IOC, FOK and GTX orders end as their time in force says;
* `BookImplementsMatching`: every step of the book is one of `MatchingSpec`, or none.

Their invariant `HistInv` ties the model's record of the logs (`filled`, `spent`, `closed`) to
the book and to the taker: an order is on the book, being applied, ended or not yet seen, and each
of these says what `filled` and `spent` are. For FOK the dry run has to agree with the loop that follows it: while
a FOK order is being matched, the makers that still cross hold at least what it lacks. This is a statement about
the sum `IsOrderWillFullMatch` computes, and uses `SumProofs`. There a fact about all sums is
shown without an induction theorem: the least size for which it fails would have a smaller one.

`EngineProofs` proves, for every set of orders and messages, every matching loop and dry run (as functions of order and
book), every number of crashes, and every capacity of windows, channels and batches (`BookAssumption`, `EngineAssumption`):

* `EngineTypeOK`;
* `EngineSnapshotMonotone`: the offset of the stored snapshot never decreases, but when the key expires;
* `EngineSnapshotIsReplay`: a stored snapshot's orders and seqs are those the order topic up to its offset makes, and its
  windows too, unless ids were put between its taking and its storing;
* `EngineReaderConsistent`: whatever the crashes, a log reader gets a prefix of the log that an
  engine without crashes would have written, logs of cancels and of repeated messages included, and meets no gap.

The first two follow from `OffsetInv`: `orderCh` holds the messages of the topic after the last one applied
(`Flow`), and the snapshots under way, approved, pending and asked for, each with the one its sender still
holds (`Approved`, `Asked`), ascend from the stored one to `appliedOffset` (`SnapshotsAscend`). The others need
`SoundInv`, which says, as long as no start was unsound, that the book and every snapshot under way are, windows
and all, those of a prefix of the topic (`BooksExact`; of the stored one the windows are only if nothing
`raced`); that what the applier has still to send, `logCh` and the committer's
buffer are consecutive parts of the crash-free log (`LogsFollow`, from `Base` on), where a committer that started late may
have a `seq` ahead of `logCh`, and discards what is stored; and that the reader's result covers what is committed
(`ReadsOn`, with `StoredRead`: a log that is stored is one the reader has passed). That `Replay` and `Reader`,
which are recursive functions, go message by message is `UptoDef` and `ReadUptoDef`, again by least
counterexample; `ReadBatch` is what a reader does with a batch that is stored again in part.

`SettlementProofs` proves, for every set of users and of orders as `PlaceOrder` makes them (`ValidRequest`), every
funding, every fee between nothing and the amount (`FeeAssumption`: `PlaceOrder` refuses other ratios), and every number of
crashes and repetitions and size of channel, batch and page:

* `SettlementTypeOK`;
* `SettlementHoldsExact`: each account's hold, with the bills on their way, is what its user's unfinished orders hold;
* `SettlementBalancesNonNegative`: no balance goes below zero;
* `SettlementNeverOverSettled`: an order row never says more than the engine has traded.

That a release gives back no more than is left, and that a hold is not overdrawn, is a chain of
three bounds, and the inductive invariant `SettleInv` has a part for each. An order row's sums are
those of its settled fills (`SettledSums`). Its fills come from the log (`FillsGenuine`, which
follows them through `fillCh`, the batch and the table), and are unique by order and seq
(`RowsUnique`, the table's key), so they add up to no more than the log has traded of the order (`RowBound`): an
order has at most one fill in an entry, since nothing trades with itself, and an entry stored again is the entry it was
(`LogFine`). What the log has traded is what the engine has taken from the order (`EngineOK`), and that is
within the hold, because a limit order trades at its price or better and a market buy within its funds
(`TradeFits`). Balances then follow from `HoldsExact` and the signs of bills (`BillsSigned`): unpaid ones only
add to what is available and only take from what is held, so a hold is at least what is owed. What bills do to
sums over a table that grows and loses rows is `TotalJoin`, `FlatTotal`, `KeepTotal` and `DuePaid`. None of this
leaves out a crash between the two fills of a match.

What must *not be missing* when all is quiet is proved from a second inductive invariant on top, `WholeInv`:

* `SettlementOrdersMatchEngine`: with every log read and every fill and bill settled, each order row says what the
  engine did to its order, sizes, funds and end;
* `SettlementMoneyConserved`: then the accounts hold, fees included, what they were funded with.

`PipeInv` says that fills wait in the order of the log (`fillCh`, then the batch, then the table, by
`Key`: seq, taker before maker), and that each fill a log entry makes is in one of them or still
to be read; only a crash between the two fills of one match (`halved`, which both properties leave out) breaks it, because
the fill maker resumes after the log of the last *row*. `LogTells` says that the log has a
Done for an order just when the engine has ended it, with the reason it ended for, and that what is
bought is sold; `StatusInv` that a row's status is that of its settled Done, of `OnOpenLog`, or still the
one `PlaceOrder` gave it; `MoneyMoves` that accounts and unpaid bills together are the funding plus
what the rows of orders have moved. When nothing waits, every fill is a settled row, so the sums of `SettledSums` are the log's; all orders
have then moved what the two sides of each match moved, which is nothing in all once the house has its
fees. `NoFillAssumption` says that the model value for an empty `makerFill` is no fill.

`PushHubProofs` proves, for every number of clients, streams and requests and every channel size:

* `HubTypeOK`;
* `HubNoGhosts`: a client whose goroutines have ended is in no subscriber set, so that nothing
  publishes to it;
* `HubTickersInOrder`: a client is shown tickers in the order of their publication, the one `onSub` sends apart.

For `HubNoGhosts` the invariant `HubInv` says who may still change a client's entries: the lock
`Client.mu` is held from `TakeMu` to the last `WithLock`, `close` has removed the channels it has visited
(`WriterCloses`, `ReaderCloses`), and a client's subscriptions are all in its `channels` (`Listed`), which is what
`close` goes through. For `HubTickersInOrder`, `TickerInv` orders the
tickers on their way: shown, in the channel, looked up by a publisher that has still to
send, last ticker.

`Level2FeedProofs` proves, for every set of levels, number of changes and of what comes of other products, and every capacity:

* `FeedTypeOK`;
* `FeedViewExact`: what a client has pieced together from a snapshot and updates is the book at the seq it stands for,
  until an update repeats an older change;
* `FeedViewNeverBack`: nothing a client is written takes it to an earlier seq, and, with the same exception, each message takes
  it to the levels of the book at its seq.

The invariant `FeedInv` says that each change on its way is one that was made (`AllReal`), that the messages to the
client and the changes collected for it ascend (`InOrder`, `Collected`), and that view and
book agree (`ViewOK`). `ViewAfterChanges`, again by least counterexample, says that the changes
between two seqs, applied to the book at the first, give the book at the second.

`BookReplicaProofs` proves, for every finite set of orders with positive prices and sizes, every gap between
snapshots, and any number of logs, repetitions and crashes (`BookReplicaAssumption`):

* `ReplicaTypeOK`;
* `ReplicaFollowsEngine`: the replica's orders are those of the engine's book after the last log read, each price
  level is the sum and the number of its orders, and neither reader nor applier stops or panics;
* `ReplicaSeqNamesState`: a seq names one log and one state of the levels, whatever snapshot the
  stream has restarted from.

What makes it hold is one correspondence, between the engine's log and the replica's numbers, which every
part of the inductive invariant `ReplicaInv` is about. Each log tells how the engine's book came from
the one before (`WrittenOK`, `Tells`), and the topic holds the logs from the first
on, with repetitions but without skipping any (`TopicOK`), so that a reader that drops what it has seen meets no gap.
The numbered changes (`PastOK`) are those of the logs that change the book, in their order, with all the others
silent (`Silent`); without that, a second numbering could differ from the first. Every snapshot, in `snapshotCh`
or in Redis, is the engine's book after the log at its offset, with that log's number (`Faithful`), and so
is the running replica; in `Restore`'s loop it is the part of the stored snapshot that was saved (`PhaseInv`).
The levels (`DepthsOK`) follow the orders by `SaveKeepsLevels`: `saveOrder`'s additions and
subtractions keep a level equal to a sum over its orders (`SumProofs`), and a level's size is zero just when it has no orders.
That a snapshot at offset 0 starts the reader at 0 again, and not at 1, does no harm because the log there is
one that was seen.

Where an assumption on constants is needed it is an `ASSUME` of the component's module, which TLC evaluates in the
component's run: capacities are positive where the code's are, messages and model values are distinct.

Only model-checked are the safety properties of `MarketData` (`CandlesExact` and `TypeOK`), whose
proof is left to do; those that need
`ENABLED` (`CaughtUp`, `NothingElseBlocks`) and liveness under fairness
(`EventuallyCommitted`, `EventuallySettled`, `EventuallyRecorded`), which are out of the proof system's reach.

## 5. Not modelled

* Ticker statistics (`mergeIntervalTicks`): a fold over at most 30 rows of `g_tick` that depends on
  the clock only through its cutoff. It takes `Open` and `Close` of the last row it meets, so that a
  24-hour ticker shows the newest hour's open; no document says what it should show.
* A ticker that is marshalled by a client's writer while the stream changes it: a data race
  between the fields of one message, which the model shows as a whole.
* REST parsing, authorisation, queries, users, products, wallet stubs, configuration:
  no state of their own beyond single rows.
* Binlog stream and Redis notifications: they keep no state, only the first row of a multi-row
  event is notified (`binlog_stream.go`), and `Settlement` assumes nothing of them.
* Decimal representation, rounding to a product's scales, the fee schedule: fees are an
  arbitrary function of liquidity and amount.
* More than one product: engines and replicas of different products share no state. Accounts are shared, and the
  bills of two products meet in `ExecuteBill` as the bills of two orders do. In the push service products share
  the subscribers' lock and each client's two channels: `PushHub` has several streams, and `Level2Feed` one product with
  what comes of the others.
* In the push service: token checks, the start of streams for new products, the limit of 1000 levels in
  a snapshot. Pings are only in `WriteFails`: one that fails ends the client.

## 6. Plan

1. Done: window and order book (with proofs), engine, settlement, replica, level-2 feed, market
   data, the hub of the push service, and the composition of book and settlement.
2. Composition: `BookReplica`'s engine as an instance of `MatchingSpec` too, and the Done logs of
   `RefuseAgain` in `Settlement` and `BookReplica`, with what they do to an order that is still open.
3. Proofs: done for the window, the order book, the engine, settlement, the replica, the hub and the feed.
   Left: `MarketData` (`PricesExact`, then `VolumesExact`).
