----------------------------- MODULE MarketData -----------------------------
(***************************************************************************)
(* The two workers that turn the matching log into market data:           *)
(* worker/tick_maker.go (candles of several granularities, rows of        *)
(* g_tick) and worker/trade_maker.go (rows of g_trade), with their log    *)
(* readers, channels, flushers, failing inserts, and crashes of the       *)
(* process that runs both.                                                *)
(*                                                                        *)
(* Neither worker changes the topic, and both may lag behind it by any    *)
(* number of logs, so the topic is all there from the start.  Times are   *)
(* in units of the shortest granularity.                                  *)
(***************************************************************************)
EXTENDS Integers, Sequences, SequencesExt, FiniteSetsExt

CONSTANTS
    Minutes,            \* the granularities, a sequence
    Topics,             \* the contents the log topic may have
    MaxTime,            \* bound on the times of logs
    ChCap,              \* capacity of tickCh and of tradeCh (1000)
    FlushMax,           \* rows a flusher collects (1000)
    ChunkMax,           \* rows of one INSERT of AddTicks (500)
    NoTick,             \* no tick
    MaxErrors,          \* bound on failing inserts of AddTicks
    MaxCrashes          \* bound on crashes

Gs    == DOMAIN Minutes
Times == 0 .. MaxTime

Log == [type : {"match", "other"}, seq : Nat \ {0}, time : Times, price : Nat, size : Nat]

ASSUME MarketDataAssumption ==
    /\ Minutes \in Seq(Nat \ {0}) /\ Minutes # << >>
    /\ \A t \in Topics : t \in Seq(Log)
    /\ {ChCap, FlushMax, ChunkMax} \subseteq Nat \ {0}
    /\ {MaxTime, MaxErrors, MaxCrashes} \subseteq Nat

VARIABLES
    topic,              \* Kafka: the matching log
    tickRows,           \* g_tick: per granularity and time
    tradeRows           \* g_trade, in the order of its id

VARIABLES
    tickReader,         \* the tick maker's log reader: its offset and lastSeq
    turn,               \* OnMatchLog: the granularity it is at, 0 when it is not running
    ticks,              \* TickMaker.ticks
    tickCh, tickBatch,
    chunk               \* AddTicks: the first row of its next INSERT, 0 when not running

VARIABLES
    tradeReader, tradeCh, tradeBatch,
    adding              \* runFlusher is inserting its batch

VARIABLES
    tickErrors, crashes,    \* counters for the bounds
    refused,            \* history: an INSERT of AddTrades was refused
    cut, torn           \* history: what a crash left of g_tick, see below

tickVars  == <<tickReader, turn, ticks, tickCh, tickBatch, chunk, tickErrors>>
tradeVars == <<tradeReader, tradeCh, tradeBatch, adding, refused>>
vars == <<topic, tickRows, tradeRows, tickVars, tradeVars, crashes, cut, torn>>

Tick == [time : Times, open : Nat, close : Nat, low : Nat, high : Nat, volume : Nat,
         quote : Nat, offset : Nat, seq : Nat]
SentTick == [g : Gs, tick : Tick]
Trade  == [offset : Nat, seq : Nat]
Reader == [offset : Nat, seq : Nat]

TypeOK ==
    /\ topic \in Topics
    /\ tickRows \in [Gs -> [Times -> Tick \cup {NoTick}]]
    /\ tradeRows \in Seq(Trade)
    /\ tickReader \in Reader /\ tradeReader \in Reader
    /\ turn \in Gs \cup {0}
    /\ ticks \in [Gs -> Tick \cup {NoTick}]
    /\ tickCh \in Seq(SentTick) /\ Len(tickCh) <= ChCap
    /\ tickBatch \in Seq(SentTick) /\ Len(tickBatch) <= FlushMax
    /\ chunk \in 0 .. Len(tickBatch)
    /\ tradeCh \in Seq(Trade) /\ Len(tradeCh) <= ChCap
    /\ tradeBatch \in Seq(Trade) /\ Len(tradeBatch) <= FlushMax
    /\ adding \in BOOLEAN /\ cut \in BOOLEAN /\ torn \in BOOLEAN
    /\ refused \in BOOLEAN
    /\ tickErrors \in 0 .. MaxErrors /\ crashes \in 0 .. MaxCrashes

FromStart == [offset |-> 0, seq |-> 0]

Init ==
    /\ topic \in Topics
    /\ tickRows = [g \in Gs |-> [t \in Times |-> NoTick]]
    /\ tradeRows = << >>
    /\ tickReader = FromStart /\ tradeReader = FromStart
    /\ turn = 0 /\ ticks = [g \in Gs |-> NoTick]
    /\ tickCh = << >> /\ tickBatch = << >> /\ chunk = 0
    /\ tradeCh = << >> /\ tradeBatch = << >> /\ adding = FALSE
    /\ tickErrors = 0 /\ crashes = 0
    /\ refused = FALSE /\ cut = FALSE /\ torn = FALSE
-----------------------------------------------------------------------------
(* The log readers (KafkaLogReader.Run).                                   *)

CanFetch(r) == r.offset < Len(topic)
Fetched(r)  == topic[r.offset + 1]

\* A log is passed on when its seq is new and no seq is missing (a missing
\* one ends the process, at every new start again).
Passes(r) == Fetched(r).seq > r.seq /\ (r.seq > 0 => Fetched(r).seq = r.seq + 1)

PassesMatch(r) == CanFetch(r) /\ Passes(r) /\ Fetched(r).type = "match"

\* A repeated log is discarded; OnOpenLog and OnDoneLog do nothing.
PassesOther(r) ==
    CanFetch(r) /\ (Fetched(r).seq <= r.seq \/ (Passes(r) /\ Fetched(r).type = "other"))

Advanced(r) == [offset |-> r.offset + 1, seq |-> Max({r.seq, Fetched(r).seq})]
-----------------------------------------------------------------------------
(* The tick maker.                                                         *)

\* Time.Truncate
Truncate(time, g) == time - (time % Minutes[g])

newTick(log, offset, g) ==
    [time |-> Truncate(log.time, g), open |-> log.price, close |-> log.price,
     low |-> log.price, high |-> log.price, volume |-> log.size,
     quote |-> log.price * log.size, offset |-> offset, seq |-> log.seq]

updatedTick(tick, log, offset) ==
    [tick EXCEPT !.close = log.price,
                 !.low = Min({@, log.price}), !.high = Max({@, log.price}),
                 !.volume = @ + log.size, !.quote = @ + log.price * log.size,
                 !.offset = offset, !.seq = log.seq]

\* The tick of the log's time is updated, that of another time replaced.
TickAfter(g, log, offset) ==
    IF ticks[g] # NoTick /\ ticks[g].time = Truncate(log.time, g)
    THEN updatedTick(ticks[g], log, offset)
    ELSE newTick(log, offset, g)

TickSkipLog ==
    /\ turn = 0
    /\ PassesOther(tickReader)
    /\ tickReader' = Advanced(tickReader)
    /\ UNCHANGED <<topic, tickRows, tradeRows, turn, ticks, tickCh, tickBatch, chunk,
                    tickErrors, tradeVars, crashes, cut, torn>>

TickReadMatch ==
    /\ turn = 0
    /\ PassesMatch(tickReader)
    /\ tickReader' = Advanced(tickReader)
    /\ turn' = 1
    /\ UNCHANGED <<topic, tickRows, tradeRows, ticks, tickCh, tickBatch, chunk,
                    tickErrors, tradeVars, crashes, cut, torn>>

\* OnMatchLog's loop: one granularity after the other, each sent on its own.
MakeTick ==
    LET offset == tickReader.offset - 1
        tick   == TickAfter(turn, topic[offset + 1], offset)
    IN  /\ turn # 0
        /\ Len(tickCh) < ChCap
        /\ ticks' = [ticks EXCEPT ![turn] = tick]
        /\ tickCh' = Append(tickCh, [g |-> turn, tick |-> tick])
        /\ turn' = IF turn < Len(Minutes) THEN turn + 1 ELSE 0
        /\ UNCHANGED <<topic, tickRows, tradeRows, tickReader, tickBatch, chunk,
                        tickErrors, tradeVars, crashes, cut, torn>>

\* Faulty: collects as long as ticks are waiting.
KeepsTakingUnbounded(waiting, taken) == waiting > 0

\* Faulty: collects until the batch is full.
KeepsTakingForever(waiting, taken) == taken < FlushMax

\* The flushers: go on taking while more are waiting and the batch has room.
KeepsTaking(waiting, taken) == waiting > 0 /\ taken < FlushMax

TakeTick ==
    /\ chunk = 0 /\ tickCh # << >>
    /\ tickBatch' = Append(tickBatch, Head(tickCh))
    /\ tickCh' = Tail(tickCh)
    /\ chunk' = IF KeepsTaking(Len(tickCh'), Len(tickBatch')) THEN 0 ELSE 1
    /\ UNCHANGED <<topic, tickRows, tradeRows, tickReader, turn, ticks,
                    tickErrors, tradeVars, crashes, cut, torn>>

\* INSERT ... ON DUPLICATE KEY UPDATE with the unique key (granularity, time).
Upsert(rows, s) == [rows EXCEPT ![s.g][s.tick.time] = s.tick]

ChunkEnd == Min({chunk + ChunkMax - 1, Len(tickBatch)})
AddChunk == FoldLeft(Upsert, tickRows, SubSeq(tickBatch, chunk, ChunkEnd))

AddTicks ==
    /\ chunk # 0
    /\ tickRows' = AddChunk
    /\ IF ChunkEnd < Len(tickBatch)
       THEN chunk' = ChunkEnd + 1 /\ UNCHANGED tickBatch
       ELSE chunk' = 0 /\ tickBatch' = << >>
    /\ UNCHANGED <<topic, tradeRows, tickReader, turn, ticks, tickCh,
                    tickErrors, tradeVars, crashes, cut, torn>>

\* The INSERT fails, or seems to: all chunks are inserted again.
AddTicksAgain ==
    /\ chunk # 0
    /\ tickErrors < MaxErrors
    /\ tickErrors' = tickErrors + 1
    /\ tickRows' \in {tickRows, AddChunk}
    /\ chunk' = 1
    /\ UNCHANGED <<topic, tradeRows, tickReader, turn, ticks, tickCh, tickBatch,
                    tradeVars, crashes, cut, torn>>
-----------------------------------------------------------------------------
(* The trade maker.                                                        *)

TradeSkipLog ==
    /\ PassesOther(tradeReader)
    /\ tradeReader' = Advanced(tradeReader)
    /\ UNCHANGED <<topic, tickRows, tradeRows, tickVars, tradeCh, tradeBatch, adding,
                    refused, crashes, cut, torn>>

\* OnMatchLog
TradeReadMatch ==
    /\ PassesMatch(tradeReader)
    /\ Len(tradeCh) < ChCap
    /\ tradeCh' = Append(tradeCh,
                    [offset |-> tradeReader.offset, seq |-> Fetched(tradeReader).seq])
    /\ tradeReader' = Advanced(tradeReader)
    /\ UNCHANGED <<topic, tickRows, tradeRows, tickVars, tradeBatch, adding,
                    refused, crashes, cut, torn>>

TakeTrade ==
    /\ ~ adding /\ tradeCh # << >>
    /\ tradeBatch' = Append(tradeBatch, Head(tradeCh))
    /\ tradeCh' = Tail(tradeCh)
    /\ adding' = ~ KeepsTaking(Len(tradeCh'), Len(tradeBatch'))
    /\ UNCHANGED <<topic, tickRows, tradeRows, tickVars, tradeReader,
                    refused, crashes, cut, torn>>

\* One row of the INSERT has NOW() and 13 more values, for 13 columns.
InsertColumns == 13
InsertValues  == 14

\* INSERT IGNORE, which lets a repeated row pass but not one of another length
\* than the list of columns; the flusher tries an insert that fails again.
AddTrades ==
    /\ adding
    /\ IF InsertValues = InsertColumns
       THEN /\ tradeRows' = tradeRows \o tradeBatch
            /\ tradeBatch' = << >> /\ adding' = FALSE
            /\ UNCHANGED refused
       ELSE /\ refused' = TRUE
            /\ UNCHANGED <<tradeRows, tradeBatch, adding>>
    /\ UNCHANGED <<topic, tickRows, tickVars, tradeReader, tradeCh, crashes, cut, torn>>
-----------------------------------------------------------------------------
(* A crash of the process, and its new start.                              *)

RowTimes(g) == {t \in Times : tickRows[g][t] # NoTick}

\* GetLastTickByProductId
LastTick(g) == IF RowTimes(g) = {} THEN NoTick ELSE tickRows[g][Max(RowTimes(g))]

\* Faulty: reads the log of the last row again.
AfterAgain(row) == [offset |-> row.offset, seq |-> 0]

\* Start: read on after the log at the offset of the last row.
After(row) == [offset |-> IF row.offset > 0 THEN row.offset + 1 ELSE 0, seq |-> row.seq]

\* Faulty: goes by the shortest granularity.
TickResumeFirst ==
    LET loaded == {g \in Gs : LastTick(g) # NoTick}
    IN  IF loaded = {} THEN FromStart ELSE After(LastTick(Min(loaded)))

\* NewTickMaker: the last granularity that has a tick decides.
TickResume ==
    LET loaded == {g \in Gs : LastTick(g) # NoTick}
    IN  IF loaded = {} THEN FromStart ELSE After(LastTick(Max(loaded)))

\* NewTradeMaker
TradeResume == IF tradeRows = << >> THEN FromStart ELSE After(Last(tradeRows))

\* The matches of the topic, each at its first place.
MatchAt == {n \in DOMAIN topic :
              topic[n].type = "match" /\ \A m \in 1 .. n - 1 : topic[m].seq # topic[n].seq}

\* The last match any row of g_tick has counted, and the matches up to it
\* that the rows of a granularity lack.
Counted(g, n) ==
    LET row == tickRows[g][Truncate(topic[n].time, g)]
    IN  row # NoTick /\ row.seq >= topic[n].seq
Reached ==
    {n \in MatchAt : \E g \in Gs : \E t \in RowTimes(g) : tickRows[g][t].seq >= topic[n].seq}
Lacking(g) == {n \in Reached : ~ Counted(g, n)}

\* cut: some granularities lack matches that others have counted.  torn: and
\* not just the last of them, or one of them is without any row.
Crash ==
    /\ crashes < MaxCrashes
    /\ crashes' = crashes + 1
    /\ tickReader' = TickResume
    /\ ticks' = [g \in Gs |-> LastTick(g)]
    /\ turn' = 0 /\ tickCh' = << >> /\ tickBatch' = << >> /\ chunk' = 0
    /\ tradeReader' = TradeResume
    /\ tradeCh' = << >> /\ tradeBatch' = << >> /\ adding' = FALSE
    /\ cut' = (cut \/ \E g \in Gs : Lacking(g) # {})
    /\ torn' = (torn \/ \E g \in Gs : /\ Lacking(g) # {}
                                       /\ \/ Lacking(g) # {Max(Reached)}
                                          \/ RowTimes(g) = {})
    /\ UNCHANGED <<topic, tickRows, tradeRows, tickErrors, refused>>
-----------------------------------------------------------------------------
TickStep ==
    \/ TickSkipLog \/ TickReadMatch \/ MakeTick \/ TakeTick \/ AddTicks
TradeStep ==
    \/ TradeSkipLog \/ TradeReadMatch \/ TakeTrade \/ AddTrades

Next == TickStep \/ AddTicksAgain \/ TradeStep \/ Crash

Spec == Init /\ [][Next]_vars

\* The readers and the flushers are goroutines that run whenever they can.
FairSpec == Spec /\ WF_vars(TickStep) /\ WF_vars(TradeStep)
-----------------------------------------------------------------------------
(* Properties.                                                             *)

\* The matches a row stands for: those of its time, up to its seq.
MatchesOf(g, row) ==
    {n \in MatchAt : Truncate(topic[n].time, g) = row.time /\ topic[n].seq <= row.seq}

Prices(ns) == {topic[n].price : n \in ns}

\* Every candle in g_tick has the open, close, low and high of the matches up
\* to the row's log, through crashes that cut the ticks of one match apart
\* (the match is then counted again where it was counted already) and through
\* repeated inserts; not after a crash in the middle of inserting a batch
\* again, or of the very first match (torn).
PricesExact ==
    ~ torn => \A g \in Gs : \A t \in RowTimes(g) :
        LET row == tickRows[g][t]
            ns  == MatchesOf(g, row)
        IN  /\ ns # {} /\ row.time = t
            /\ row.open = topic[Min(ns)].price /\ row.close = topic[Max(ns)].price
            /\ row.low = Min(Prices(ns)) /\ row.high = Max(Prices(ns))

\* The volumes of a candle are those of its matches, each counted once, as
\* long as no crash cut the ticks of one match apart: then the granularities
\* that had counted the match count it again.
VolumesExact ==
    ~ cut => \A g \in Gs : \A t \in RowTimes(g) :
        LET row == tickRows[g][t]
            ns  == MatchesOf(g, row)
        IN  /\ row.volume = MapThenSumSet(LAMBDA n : topic[n].size, ns)
            /\ row.quote = MapThenSumSet(LAMBDA n : topic[n].price * topic[n].size, ns)

\* The rows of g_tick are exact candles of the log, in prices and in volumes,
\* through chunked, failing and repeated inserts and crashes of the tick maker.
CandlesExact == PricesExact /\ VolumesExact

\* In the end every granularity has counted every match: a batch is never left
\* in the flusher, and no crash makes the reader pass over logs (a torn start
\* apart).
EventuallyRecorded ==
    <>[](torn \/ \A g \in Gs, n \in MatchAt : Counted(g, n))
=============================================================================
