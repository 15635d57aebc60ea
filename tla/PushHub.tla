------------------------------ MODULE PushHub ------------------------------
(***************************************************************************)
(* The subscribers of the pushing service (pushing/subscription.go), the  *)
(* streams that publish to them (ticker_stream.go, match_stream.go,       *)
(* order_book_stream.go, redis_stream.go) and the life of a client with   *)
(* its three goroutines (client.go: runReader, runWriter,                 *)
(* runL2ChangeWriter, subscribe, unsubscribe, close).                     *)
(*                                                                        *)
(* All share one RWMutex: publish holds its read lock while it sends to   *)
(* the clients' channels one after the other, subscribe and unsubscribe   *)
(* take the write lock.  As in Go, one goroutine at a time announces that *)
(* it wants the write lock, which keeps new readers out, and then waits   *)
(* for the readers that are in.                                           *)
(*                                                                        *)
(* Order book changes go round: the writer forwards them to l2ChangeCh,   *)
(* and the level-2 goroutine sends what it makes of them to the writer.   *)
(* Which message it makes of which change is module Level2Feed; here it   *)
(* matters only that it sends, and where it may wait.                     *)
(***************************************************************************)
EXTENDS Integers, Sequences, FiniteSets

CONSTANTS
    Clients,            \* connections
    Level2,             \* the order book stream, which publishes changes
    Ticker,             \* the ticker stream
    Streams,            \* the other publishing goroutines
    WriteCap,           \* writeChannelSize (256)
    L2Cap,              \* l2ChangeChannelSize (512)
    None,               \* no value
    MaxMessages,        \* bound on what the streams publish
    MaxRequests,        \* bound on requests
    MaxFailed           \* bound on clients that end

\* Each stream publishes to a channel of its own.
Publishers == Streams \cup {Level2, Ticker}
Channels   == Publishers

ASSUME PushHubAssumption ==
    /\ IsFiniteSet(Clients) /\ IsFiniteSet(Streams)
    /\ Ticker \notin Streams \cup {Level2} /\ Level2 \notin Streams
    /\ None \notin Clients \cup Publishers /\ {"sub", "l2"} \cap Publishers = {}
    /\ {WriteCap, L2Cap} \subseteq Nat \ {0} /\ MaxMessages \in Nat /\ MaxRequests \in Nat /\ MaxFailed \in Nat

VARIABLES
    subscribers,        \* subscription.subscribers
    pub,                \* per publisher: what publish is doing
    sent,               \* messages published so far
    lastTicker,         \* lastTickers: the ticker object in use, 0 when there is none
    price               \* per ticker object: the message number it shows now

VARIABLES
    channels, mu,       \* per client: Client.channels, and who holds Client.mu
    writeCh,
    conn,               \* per client: the connection is open
    proc,               \* per client: what its reader and its writer are doing
    l2ChangeCh,
    l2,                 \* per client: what runL2ChangeWriter is doing
    requests, failed,   \* for the bounds: requests, and clients that end
    shown               \* per client: the ticker last written to it

hub == <<subscribers, pub, sent, lastTicker, price>>
feed == <<l2ChangeCh, l2>>
client == <<channels, mu, writeCh, conn, proc, feed, requests, failed, shown>>
vars == <<hub, client>>

Objects == 1 .. MaxMessages
\* A ticker message is a pointer; the others do not change.  "sub": sent by onSub.
\* "l2": a snapshot or an update, sent by runL2ChangeWriter.
Message == [from : Publishers \cup {"sub", "l2"}, ticker : {0} \cup Objects]

\* publish: wants the read lock; goes through the clients in rest; has found
\* room in the channel of the client to.
PubStates == [pc : {"idle"}]
        \cup [pc : {"rlock"}, msg : Message]
        \cup [pc : {"visit"}, msg : Message, rest : SUBSET Clients, to : Clients \cup {None}]

\* A goroutine of a client: runReader reads, loads the last ticker for onSub
\* or sends it, or sends a marker for onSub; runWriter selects, forwards an
\* order book change or writes; either wants Client.mu, or holds
\* it and wants, or has announced it wants, the write lock for an operation on
\* the channels in todo, or leaves, or has ended.
Goroutines == {"reader", "writer"}
Ops == {"sub", "unsub", "close"}
ProcStates == [pc : {"read", "load", "mark", "select", "forward", "leave", "end"}]
         \cup [pc : {"send", "write"}, msg : Message]
         \cup [pc : {"mu", "lock", "announced"}, op : Ops, todo : SUBSET Channels]

\* runL2ChangeWriter selects, sends a message to the writer or a marker to
\* itself, or has ended.  A marker is a change without a seq.
L2States == {"select", "push", "mark", "end"}
Changes == {"change", "marker"}

TypeOK ==
    /\ subscribers \in [Channels -> SUBSET Clients]
    /\ pub \in [Publishers -> PubStates]
    /\ sent \in 0 .. MaxMessages
    /\ lastTicker \in {0} \cup Objects
    /\ price \in [Objects -> 0 .. MaxMessages]
    /\ channels \in [Clients -> SUBSET Channels]
    /\ mu \in [Clients -> Goroutines \cup {None}]
    /\ writeCh \in [Clients -> Seq(Message)] /\ \A c \in Clients : Len(writeCh[c]) <= WriteCap
    /\ conn \in [Clients -> BOOLEAN]
    /\ proc \in [Clients -> [Goroutines -> ProcStates]]
    /\ l2ChangeCh \in [Clients -> Seq(Changes)] /\ \A c \in Clients : Len(l2ChangeCh[c]) <= L2Cap
    /\ l2 \in [Clients -> L2States]
    /\ requests \in 0 .. MaxRequests /\ failed \subseteq Clients
    /\ shown \in [Clients -> 0 .. MaxMessages]

Idle == [pc |-> "idle"]
Resting(g) == [pc |-> IF g = "reader" THEN "read" ELSE "select"]

Init ==
    /\ subscribers = [ch \in Channels |-> {}]
    /\ pub = [p \in Publishers |-> Idle] /\ sent = 0
    /\ lastTicker = 0 /\ price = [o \in Objects |-> 0]
    /\ channels = [c \in Clients |-> {}] /\ mu = [c \in Clients |-> None]
    /\ writeCh = [c \in Clients |-> << >>] /\ conn = [c \in Clients |-> TRUE]
    /\ proc = [c \in Clients |-> [g \in Goroutines |-> Resting(g)]]
    /\ l2ChangeCh = [c \in Clients |-> << >>] /\ l2 = [c \in Clients |-> "select"]
    /\ requests = 0 /\ failed = {} /\ shown = [c \in Clients |-> 0]
-----------------------------------------------------------------------------
(* The RWMutex.                                                            *)

ReadLocked  == \E p \in Publishers : pub[p].pc = "visit"
WriteWanted == \E c \in Clients, g \in Goroutines : proc[c][g].pc = "announced"

\* Faulty: one message more than the channel holds.
HasRoomOneMore(c) == Len(writeCh[c]) <= WriteCap

HasRoom(c) == Len(writeCh[c]) < WriteCap

L2HasRoom(c) == Len(l2ChangeCh[c]) < L2Cap
-----------------------------------------------------------------------------
(* The streams.                                                            *)

Publish(p, msg) ==
    /\ pub[p] = Idle
    /\ sent < MaxMessages
    /\ sent' = sent + 1
    /\ pub' = [pub EXCEPT ![p] = [pc |-> "rlock", msg |-> msg]]
    /\ UNCHANGED <<subscribers, client>>

\* An order book change; a match, an order, an account, a trade or a candle.
StreamMessage(p) ==
    /\ Publish(p, [from |-> p, ticker |-> 0])
    /\ UNCHANGED <<lastTicker, price>>

\* TickerStream.OnMatchLog, more than a second after the last new ticker: a
\* new one, which takes the place of the last.
NewTicker ==
    LET o == lastTicker + 1
    IN  /\ o \in Objects
        /\ Publish(Ticker, [from |-> Ticker, ticker |-> o])
        /\ lastTicker' = o
        /\ price' = [price EXCEPT ![o] = sent + 1]

\* Faulty: the last ticker is changed back to the log before.
SameTickerBefore ==
    /\ lastTicker # 0
    /\ Publish(Ticker, [from |-> Ticker, ticker |-> lastTicker])
    /\ price' = [price EXCEPT ![lastTicker] = sent - 1]
    /\ UNCHANGED lastTicker

\* ... within a second: the last ticker, which clients' channels may hold,
\* is changed and published again.
SameTicker ==
    /\ lastTicker # 0
    /\ Publish(Ticker, [from |-> Ticker, ticker |-> lastTicker])
    /\ price' = [price EXCEPT ![lastTicker] = sent + 1]
    /\ UNCHANGED lastTicker

MayRead == ~ WriteWanted

\* publish, when it has come to the clients in rest and waits for to.
Visiting(msg, rest, to) ==
    IF rest = {} /\ to = None THEN Idle
    ELSE [pc |-> "visit", msg |-> msg, rest |-> rest, to |-> to]

PublishBegin(p) ==
    /\ pub[p].pc = "rlock"
    /\ MayRead
    /\ pub' = [pub EXCEPT ![p] = Visiting(pub[p].msg, subscribers[p], None)]
    /\ UNCHANGED <<subscribers, sent, lastTicker, price, client>>

\* A client whose channel is full is passed over; others may fill the
\* channel between the look at its length and the send.
PublishVisit(p, c) ==
    /\ pub[p].pc = "visit" /\ pub[p].to = None /\ c \in pub[p].rest
    /\ pub' = [pub EXCEPT ![p] =
                 Visiting(pub[p].msg, pub[p].rest \ {c}, IF HasRoom(c) THEN c ELSE None)]
    /\ UNCHANGED <<subscribers, sent, lastTicker, price, client>>

PublishSend(p) ==
    /\ pub[p].pc = "visit" /\ pub[p].to # None
    /\ HasRoom(pub[p].to)
    /\ writeCh' = [writeCh EXCEPT ![pub[p].to] = Append(@, pub[p].msg)]
    /\ pub' = [pub EXCEPT ![p] = Visiting(pub[p].msg, pub[p].rest, None)]
    /\ UNCHANGED <<subscribers, sent, lastTicker, price, channels, mu, conn, proc, feed,
                    requests, failed, shown>>
-----------------------------------------------------------------------------
(* What the reader and the writer of a client both do: operations on its   *)
(* channels.                                                               *)

Becomes(c, g, state) == proc' = [proc EXCEPT ![c][g] = state]

Wants(op, chs) == [pc |-> "mu", op |-> op, todo |-> chs]

\* Where a goroutine goes on after an operation; onSub of the ticker goes on
\* to load it, onSub of level 2 to ask for a snapshot with a marker.
AfterOp(g, op, ch, done) ==
    CASE op = "close" -> [pc |-> "leave"]
      [] op = "sub" /\ done /\ ch = Ticker -> [pc |-> "load"]
      [] op = "sub" /\ done /\ ch = Level2 -> [pc |-> "mark"]
      [] OTHER -> Resting(g)

\* Faulty: the early returns keep Client.mu.
TakeMuKept(c, g) ==
    LET op   == proc[c][g].op
        todo == CASE op = "close" -> channels[c]
                  [] op = "sub"   -> proc[c][g].todo \ channels[c]
                  [] op = "unsub" -> proc[c][g].todo
    IN  /\ proc[c][g].pc = "mu"
        /\ mu[c] = None
        /\ Becomes(c, g, IF todo = {} THEN AfterOp(g, op, None, FALSE)
                         ELSE [pc |-> "lock", op |-> op, todo |-> todo])
        /\ mu' = [mu EXCEPT ![c] = g]
        /\ UNCHANGED <<hub, channels, writeCh, conn, feed, requests, failed, shown>>

\* Client.mu is taken; nothing else is to be done when subscribe finds the
\* channel in Client.channels, or close finds none there.
TakeMu(c, g) ==
    LET op   == proc[c][g].op
        todo == CASE op = "close" -> channels[c]
                  [] op = "sub"   -> proc[c][g].todo \ channels[c]
                  [] op = "unsub" -> proc[c][g].todo
    IN  /\ proc[c][g].pc = "mu"
        /\ mu[c] = None
        /\ IF todo = {}
           THEN Becomes(c, g, AfterOp(g, op, None, FALSE)) /\ UNCHANGED mu
           ELSE /\ Becomes(c, g, [pc |-> "lock", op |-> op, todo |-> todo])
                /\ mu' = [mu EXCEPT ![c] = g]
        /\ UNCHANGED <<hub, channels, writeCh, conn, feed, requests, failed, shown>>

Announce(c, g) ==
    /\ proc[c][g].pc = "lock"
    /\ ~ WriteWanted
    /\ Becomes(c, g, [proc[c][g] EXCEPT !.pc = "announced"])
    /\ UNCHANGED <<hub, channels, mu, writeCh, conn, feed, requests, failed, shown>>

\* subscription.subscribe and unsubscribe, under the write lock, and what
\* Client.subscribe and unsubscribe make of their answers.  close takes the
\* lock for each channel, and does not forget the channels.
WithLock(c, g, ch) ==
    LET op    == proc[c][g].op
        rest  == proc[c][g].todo \ {ch}
        found == c \in subscribers[ch]
    IN  /\ proc[c][g].pc = "announced" /\ ch \in proc[c][g].todo
        /\ ~ ReadLocked
        /\ subscribers' = [subscribers EXCEPT ![ch] = IF op = "sub" THEN @ \cup {c} ELSE @ \ {c}]
        /\ channels' = [channels EXCEPT ![c] =
                           CASE op = "sub" /\ ~ found  -> @ \cup {ch}
                             [] op = "unsub" /\ found  -> @ \ {ch}
                             [] OTHER -> @]
        /\ IF rest = {}
           THEN Becomes(c, g, AfterOp(g, op, ch, ~ found)) /\ mu' = [mu EXCEPT ![c] = None]
           ELSE Becomes(c, g, [proc[c][g] EXCEPT !.pc = "lock", !.todo = rest]) /\ UNCHANGED mu
        /\ UNCHANGED <<pub, sent, lastTicker, price, writeCh, conn, feed, requests, failed, shown>>

\* What ends a client: at most MaxFailed of them.
Fails(c) ==
    /\ failed' = failed \cup {c}
    /\ Cardinality(failed') <= MaxFailed

\* The deferred conn.Close.
Leave(c, g) ==
    /\ proc[c][g].pc = "leave"
    /\ conn' = [conn EXCEPT ![c] = FALSE]
    /\ Becomes(c, g, [pc |-> "end"])
    /\ UNCHANGED <<hub, channels, mu, writeCh, feed, requests, failed, shown>>
-----------------------------------------------------------------------------
(* runReader.                                                              *)

\* onMessage: subscribe to a channel, or unsubscribe.
Request(c, op, ch) ==
    /\ proc[c]["reader"].pc = "read" /\ conn[c]
    /\ requests < MaxRequests
    /\ requests' = requests + 1
    /\ Becomes(c, "reader", Wants(op, {ch}))
    /\ UNCHANGED <<hub, channels, mu, writeCh, conn, feed, failed, shown>>

\* Faulty: the reader leaves it to the writer to unsubscribe.
ReadFailsUnclosed(c) ==
    /\ proc[c]["reader"].pc = "read"
    /\ Fails(c)
    /\ Becomes(c, "reader", [pc |-> "leave"])
    /\ UNCHANGED <<hub, channels, mu, writeCh, conn, feed, requests, shown>>

\* The connection ends, or the client sends what is no request.
ReadFails(c) ==
    /\ proc[c]["reader"].pc = "read"
    /\ Fails(c)
    /\ Becomes(c, "reader", Wants("close", {}))
    /\ UNCHANGED <<hub, channels, mu, writeCh, conn, feed, requests, shown>>

\* onSub of the ticker: load the last one, and send it.
LoadTicker(c) ==
    /\ proc[c]["reader"].pc = "load"
    /\ Becomes(c, "reader", IF lastTicker = 0 THEN Resting("reader")
                            ELSE [pc |-> "send", msg |-> [from |-> "sub", ticker |-> lastTicker]])
    /\ UNCHANGED <<hub, channels, mu, writeCh, conn, feed, requests, failed, shown>>

SendTicker(c) ==
    /\ proc[c]["reader"].pc = "send"
    /\ HasRoom(c)
    /\ writeCh' = [writeCh EXCEPT ![c] = Append(@, proc[c]["reader"].msg)]
    /\ Becomes(c, "reader", Resting("reader"))
    /\ UNCHANGED <<hub, channels, mu, conn, feed, requests, failed, shown>>

\* onSub of level 2: the marker, sent however full l2ChangeCh is.
SendMarker(c) ==
    /\ proc[c]["reader"].pc = "mark"
    /\ L2HasRoom(c)
    /\ l2ChangeCh' = [l2ChangeCh EXCEPT ![c] = Append(@, "marker")]
    /\ Becomes(c, "reader", Resting("reader"))
    /\ UNCHANGED <<hub, channels, mu, writeCh, conn, l2, requests, failed, shown>>
-----------------------------------------------------------------------------
(* runWriter.                                                              *)

\* Order book changes are to be forwarded, the rest is to be written.
TakeMessage(c) ==
    /\ proc[c]["writer"].pc = "select" /\ writeCh[c] # << >>
    /\ LET msg == Head(writeCh[c])
       IN  Becomes(c, "writer", IF msg.from = Level2 THEN [pc |-> "forward"]
                                ELSE [pc |-> "write", msg |-> msg])
    /\ writeCh' = [writeCh EXCEPT ![c] = Tail(@)]
    /\ UNCHANGED <<hub, channels, mu, conn, feed, requests, failed, shown>>

ForwardChange(c) ==
    /\ proc[c]["writer"].pc = "forward"
    /\ L2HasRoom(c)
    /\ l2ChangeCh' = [l2ChangeCh EXCEPT ![c] = Append(@, "change")]
    /\ Becomes(c, "writer", Resting("writer"))
    /\ UNCHANGED <<hub, channels, mu, writeCh, conn, l2, requests, failed, shown>>

\* A ticker shows what is in it by now.
WriteMessage(c) ==
    LET msg == proc[c]["writer"].msg
    IN  /\ proc[c]["writer"].pc = "write" /\ conn[c]
        /\ shown' = [shown EXCEPT ![c] = IF msg.ticker = 0 THEN @ ELSE price[msg.ticker]]
        /\ Becomes(c, "writer", Resting("writer"))
        /\ UNCHANGED <<hub, channels, mu, writeCh, conn, feed, requests, failed>>

\* A message or a ping cannot be written, in time or at all.
WriteFails(c) ==
    /\ proc[c]["writer"].pc \in {"select", "write"}
    /\ Fails(c)
    /\ Becomes(c, "writer", Wants("close", {}))
    /\ UNCHANGED <<hub, channels, mu, writeCh, conn, feed, requests, shown>>
-----------------------------------------------------------------------------
(* runL2ChangeWriter.                                                      *)

\* A change or a marker leads to a message, or to none.  A change that comes
\* after a gap leads to a marker, if no more is waiting.
TakeChange(c) ==
    /\ l2[c] = "select" /\ l2ChangeCh[c] # << >>
    /\ l2ChangeCh' = [l2ChangeCh EXCEPT ![c] = Tail(@)]
    /\ \E state \in {"select", "push", "mark"} :
          /\ state = "mark" => l2ChangeCh[c] = <<"change">>
          /\ l2' = [l2 EXCEPT ![c] = state]
    /\ UNCHANGED <<hub, channels, mu, writeCh, conn, proc, requests, failed, shown>>

\* c.writeCh <- updateMsg, or the snapshot.
PushMessage(c) ==
    /\ l2[c] = "push"
    /\ HasRoom(c)
    /\ writeCh' = [writeCh EXCEPT ![c] = Append(@, [from |-> "l2", ticker |-> 0])]
    /\ l2' = [l2 EXCEPT ![c] = "select"]
    /\ UNCHANGED <<hub, channels, mu, conn, proc, l2ChangeCh, requests, failed, shown>>

\* The level-2 goroutine's marker to itself.
PushMarker(c) ==
    /\ l2[c] = "mark"
    /\ L2HasRoom(c)
    /\ l2ChangeCh' = [l2ChangeCh EXCEPT ![c] = Append(@, "marker")]
    /\ l2' = [l2 EXCEPT ![c] = "select"]
    /\ UNCHANGED <<hub, channels, mu, writeCh, conn, proc, requests, failed, shown>>

\* ctx.Done, once the writer has left.
EndL2(c) ==
    /\ l2[c] = "select" /\ proc[c]["writer"].pc = "end"
    /\ l2' = [l2 EXCEPT ![c] = "end"]
    /\ UNCHANGED <<hub, channels, mu, writeCh, conn, proc, l2ChangeCh, requests, failed, shown>>
-----------------------------------------------------------------------------
PublishStep(p) ==
    \/ PublishBegin(p) \/ PublishSend(p)
    \/ \E c \in Clients : PublishVisit(p, c)

CommonStep(c, g) ==
    \/ TakeMu(c, g) \/ Announce(c, g) \/ Leave(c, g)
    \/ \E ch \in Channels : WithLock(c, g, ch)

ReaderStep(c) == CommonStep(c, "reader") \/ LoadTicker(c) \/ SendTicker(c) \/ SendMarker(c)
WriterStep(c) == CommonStep(c, "writer") \/ TakeMessage(c) \/ ForwardChange(c) \/ WriteMessage(c)
L2Step(c)     == TakeChange(c) \/ PushMessage(c) \/ PushMarker(c) \/ EndL2(c)

Next ==
    \/ \E p \in Streams \cup {Level2} : StreamMessage(p)
    \/ NewTicker \/ SameTicker
    \/ \E p \in Publishers : PublishStep(p)
    \/ \E c \in Clients :
          \/ \E op \in {"sub", "unsub"}, ch \in Channels : Request(c, op, ch)
          \/ ReadFails(c) \/ WriteFails(c)
          \/ ReaderStep(c) \/ WriterStep(c) \/ L2Step(c)

Spec == Init /\ [][Next]_vars

\* Goroutines run when they can.  On a closed connection reads fail, and so
\* does at the latest the next ping.
GoroutineStep ==
    \/ \E p \in Publishers : PublishStep(p)
    \/ \E c \in Clients : ReaderStep(c) \/ WriterStep(c) \/ L2Step(c)
    \/ \E c \in Clients : ~ conn[c] /\ (ReadFails(c) \/ WriteFails(c))

FairSpec == Spec /\ WF_vars(GoroutineStep)
-----------------------------------------------------------------------------
(* Properties.                                                             *)

\* No subscription outlives its client, and none is served that has ended:
\* a subscriber's channel is one close will find, even after the writer has
\* closed and the reader subscribes once more; a client whose reader has
\* left is no subscriber; and publish goes only to subscribers.
NoGhosts ==
    /\ \A ch \in Channels : \A c \in subscribers[ch] :
          /\ ch \in channels[c]
          /\ proc[c]["reader"].pc \notin {"leave", "end"}
    /\ \A p \in Publishers : pub[p].pc = "visit" =>
          pub[p].rest \cup ({pub[p].to} \ {None}) \subseteq subscribers[p]

\* The tickers a client is shown never go back, although they are changed
\* while they wait in its channel; the one onSub sends may be older than one
\* published since it was loaded.
TickersInOrder ==
    [][\A c \in Clients : shown'[c] < shown[c] => proc[c]["writer"].msg.from = "sub"]_vars

\* The writer takes nothing more: it waits to close, or has.
WriterGone(c) == proc[c]["writer"].pc \notin {"select", "forward", "write"}

\* The writer waits to forward a change, and the level-2 goroutine, the only
\* one to take it, to send a message to the writer or a marker to itself.
LoopStuck(c) ==
    /\ proc[c]["writer"].pc = "forward" /\ ~ L2HasRoom(c)
    /\ l2[c] = "mark" \/ (l2[c] = "push" /\ ~ HasRoom(c))

\* Nothing more is ever taken from a client's full channel ...
Jammed(c) == ~ HasRoom(c) /\ (WriterGone(c) \/ LoopStuck(c))

\* ... or from its full l2ChangeCh.
L2Jammed(c) ==
    ~ L2HasRoom(c) /\ (l2[c] \in {"mark", "end"} \/ (l2[c] = "push" /\ Jammed(c)))

\* publish waits, with the read lock held, to send to a client that takes no
\* more, dead or alive.
HubStuck == \E p \in Publishers : pub[p].pc = "visit" /\ pub[p].to # None /\ Jammed(pub[p].to)

\* The reader waits to send the ticker or the marker of onSub.
ReaderStuck(c) ==
    \/ proc[c]["reader"].pc = "send" /\ Jammed(c)
    \/ proc[c]["reader"].pc = "mark" /\ L2Jammed(c)

\* The writer waits to forward a change.
WriterStuck(c) == proc[c]["writer"].pc = "forward" /\ L2Jammed(c)

\* Nothing else blocks: when no more comes from the streams and the clients,
\* then unless the hub is stuck every publish returns; unless its reader is
\* stuck too, no client whose connection failed stays subscribed; and a
\* client that lives has been written all its channel held, unless its
\* writer is stuck.
NothingElseBlocks ==
    []<>(\/ HubStuck
         \/ /\ \A p \in Publishers : pub[p] = Idle
            /\ \A c \in failed : \/ ReaderStuck(c)
                                 \/ \A ch \in Channels : c \notin subscribers[ch]
            /\ \A c \in Clients \ failed : writeCh[c] = << >> \/ WriterStuck(c))
=============================================================================
