----------------------------- MODULE Level2Feed -----------------------------
(***************************************************************************)
(* The protocol that brings the price levels of one product to one        *)
(* WebSocket client: runApplier of pushing/order_book_stream.go publishes *)
(* numbered changes and keeps a recent snapshot, and the client's two     *)
(* goroutines (pushing/client.go) make of them a snapshot and batches of  *)
(* changes without gaps, over channels that drop changes when full.       *)
(*                                                                        *)
(* The channels are the client's, not the product's: what else the client *)
(* has subscribed to goes through them too.  Of that only its kind and    *)
(* its place in the channels matter here.                                 *)
(*                                                                        *)
(* Which level a change sets, and to which size, is BookReplica's matter; *)
(* here they are arbitrary.  A snapshot has all levels: the code leaves   *)
(* out those beyond the best 1000 of a side.                              *)
(***************************************************************************)
EXTENDS Integers, Sequences, FiniteSetsExt

CONSTANTS
    Keys,               \* price levels: side and price
    Sizes,              \* the sizes a level can have
    NoSize,             \* the size of a level that is not there
    L2Gap,              \* changes between two level-2 snapshots (10)
    WriteCap,           \* writeChannelSize (256)
    L2Cap,              \* l2ChangeChannelSize (512)
    Batch,              \* changes of one update message (10)
    None,               \* no value
    MaxChanges,         \* bound on changes of the book
    MaxOthers,          \* bound on what comes of other products and channels
    MaxSubs             \* bound on subscriptions of the client

VARIABLES
    past,               \* the levels after each change; its length is the book's seq
    lastL2,             \* lastLevel2Snapshot, which clients read
    change              \* the change runApplier is publishing, and how far it is

VARIABLES
    subscribed,         \* the client is a subscriber
    marker,             \* onSub still has to send a change with Seq 0
    writeCh, l2ChangeCh,
    forward,            \* runWriter: the change it is forwarding
    resend, changes, clientSeq, \* runL2ChangeWriter: resendSnapshot, changes, lastSeq
    out                 \* runL2ChangeWriter: the message it is sending

VARIABLES
    view,               \* what the client was sent: its levels, the seq they
                        \* belong to, and whether no update was older than it
    missed,             \* the subscriber's channel was full for the last change
    usedUp,             \* the latest seq a snapshot was asked for, -1 at first
    heldUp,             \* as more was waiting in l2ChangeCh, the last change was
                        \* kept, or no snapshot was asked for after a loss
    subs, others        \* counters for the bounds

book == <<past, lastL2>>
vars == <<book, change, subscribed, marker, writeCh, l2ChangeCh, forward, resend, changes,
          clientSeq, out, view, missed, usedUp, heldUp, subs, others>>

Levels == [Keys -> Sizes]
NoLevels == [k \in Keys |-> NoSize]

LevelChange == [seq : Nat \ {0}, key : Keys, size : Sizes]
Marker == [seq |-> 0]
Message == [type : {"snapshot"}, seq : Nat, levels : Levels]
      \cup [type : {"update"}, seq : Nat, changes : Seq(LevelChange)]
\* Of another product, a change or its marker; of another product or channel,
\* a message for the client.
Other(kind) == [other |-> kind]
OtherChanges == {Other("change"), Other("marker")}

L2Changes == LevelChange \cup {Marker} \cup OtherChanges
Messages == Message \cup {Other("message")}

Snapshot == [seq : Nat, levels : Levels]
View == [seq : Nat, levels : Levels, clean : BOOLEAN]
Publication == [sending : BOOLEAN, it : LevelChange]

ASSUME Level2FeedAssumption ==
    /\ NoSize \in Sizes
    /\ {WriteCap, L2Cap, Batch} \subseteq Nat \ {0}
    /\ {L2Gap, MaxChanges, MaxOthers, MaxSubs} \subseteq Nat
    /\ None \notin L2Changes \cup Messages \cup Snapshot \cup View \cup Publication

TypeOK ==
    /\ past \in Seq(Levels) /\ Len(past) <= MaxChanges
    /\ lastL2 \in Snapshot \cup {None}
    /\ change \in Publication \cup {None}
    /\ {subscribed, marker, resend, missed, heldUp} \subseteq BOOLEAN
    /\ writeCh \in Seq(LevelChange \cup {Other("change")} \cup Messages) /\ Len(writeCh) <= WriteCap
    /\ l2ChangeCh \in Seq(L2Changes) /\ Len(l2ChangeCh) <= L2Cap
    /\ forward \in LevelChange \cup {Other("change"), None}
    /\ changes \in Seq(LevelChange) /\ Len(changes) < Batch
    /\ clientSeq \in 0 .. Len(past)
    /\ out \in Messages \cup {Marker, Other("marker"), None}
    /\ view \in View \cup {None}
    /\ usedUp \in -1 .. Len(past)
    /\ subs \in 0 .. MaxSubs /\ others \in 0 .. MaxOthers

Init ==
    /\ past = << >> /\ lastL2 = None /\ change = None
    /\ subscribed = FALSE /\ marker = FALSE
    /\ writeCh = << >> /\ l2ChangeCh = << >>
    /\ forward = None /\ out = None
    /\ resend = TRUE /\ changes = << >> /\ clientSeq = 0
    /\ view = None /\ subs = 0 /\ others = 0
    /\ missed = FALSE /\ usedUp = -1 /\ heldUp = FALSE
-----------------------------------------------------------------------------
(* runApplier.                                                             *)

Now == IF past = << >> THEN NoLevels ELSE past[Len(past)]

SnapshotLevel2(levels, n) == [seq |-> n, levels |-> levels]

\* Whether a snapshot of seq n is due.
Due(n, gap) == IF lastL2 = None THEN TRUE ELSE n - lastL2.seq > gap

l2Writer == <<resend, changes, clientSeq, out, usedUp, heldUp>>
client == <<subscribed, marker, writeCh, l2ChangeCh, forward, l2Writer, view, subs, others>>

\* A log changes a level: the change gets the next number and a snapshot is
\* taken when due; the change is then published.
ApplyChange(k, size) ==
    /\ change = None
    /\ Len(past) < MaxChanges
    /\ size # Now[k]
    /\ LET n == Len(past) + 1
           levels == [Now EXCEPT ![k] = size]
       IN  /\ past' = Append(past, levels)
           /\ lastL2' = IF Due(n, L2Gap) THEN SnapshotLevel2(levels, n) ELSE lastL2
           /\ change' = [sending |-> FALSE, it |-> [seq |-> n, key |-> k, size |-> size]]
    /\ UNCHANGED <<client, missed>>

\* 200 ms without a log.
RefreshLevel2 ==
    /\ change = None
    /\ Due(Len(past), 0)
    /\ lastL2' = SnapshotLevel2(Now, Len(past))
    /\ UNCHANGED <<past, change, client, missed>>

\* publish: a client that is no subscriber is not looked at.
PassOver ==
    /\ change # None /\ ~ change.sending
    /\ ~ subscribed
    /\ change' = None
    /\ UNCHANGED <<book, client, missed>>

\* A subscriber whose writeCh is full does not get the change.  Others send
\* to writeCh between the look at its length and the send, which then waits.
DropChange ==
    /\ change # None /\ ~ change.sending
    /\ subscribed /\ Len(writeCh) = WriteCap
    /\ change' = None /\ missed' = TRUE
    /\ UNCHANGED <<book, client>>

CheckRoom ==
    /\ change # None /\ ~ change.sending
    /\ subscribed /\ Len(writeCh) < WriteCap
    /\ change' = [change EXCEPT !.sending = TRUE]
    /\ UNCHANGED <<book, client, missed>>

Publish ==
    /\ change # None /\ change.sending
    /\ Len(writeCh) < WriteCap
    /\ writeCh' = Append(writeCh, change.it)
    /\ change' = None /\ missed' = FALSE
    /\ UNCHANGED <<book, subscribed, marker, l2ChangeCh, forward, l2Writer, view, subs, others>>
-----------------------------------------------------------------------------
(* The client's goroutines.                                                *)

service == <<book, change>>

\* publish holds the read lock of the subscribers, so none comes or goes.
Publishing == IF change = None THEN FALSE ELSE change.sending

\* onSub of the level-2 channel, and the change with Seq 0 it then sends: it
\* asks for the book of now.
Subscribe ==
    /\ subs < MaxSubs
    /\ ~ subscribed /\ ~ marker /\ ~ Publishing
    /\ subs' = subs + 1
    /\ subscribed' = TRUE /\ marker' = TRUE
    /\ missed' = FALSE
    /\ usedUp' = Len(past)
    /\ UNCHANGED <<service, writeCh, l2ChangeCh, forward, resend, changes, clientSeq, out, heldUp, view,
                    others>>

SendMarker ==
    /\ marker
    /\ Len(l2ChangeCh) < L2Cap
    /\ l2ChangeCh' = Append(l2ChangeCh, Marker)
    /\ marker' = FALSE
    /\ UNCHANGED <<service, missed, subscribed, writeCh, forward, l2Writer, view, subs, others>>

\* onUnSub
Unsubscribe ==
    /\ subscribed /\ ~ marker /\ ~ Publishing
    /\ subscribed' = FALSE
    /\ UNCHANGED <<service, missed, marker, writeCh, l2ChangeCh, forward, l2Writer, view,
                    subs, others>>

\* What else comes: a change or a message is published on another channel of
\* the client's, whose writeCh has room ...
PublishOther ==
    /\ others < MaxOthers
    /\ others' = others + 1
    /\ Len(writeCh) < WriteCap
    /\ \E kind \in {"change", "message"} : writeCh' = Append(writeCh, Other(kind))
    /\ UNCHANGED <<service, missed, subscribed, marker, l2ChangeCh, forward, l2Writer, view, subs>>

\* ... or onSub sends the marker of another product.
MarkOther ==
    /\ others < MaxOthers
    /\ others' = others + 1
    /\ ~ marker
    /\ Len(l2ChangeCh) < L2Cap
    /\ l2ChangeCh' = Append(l2ChangeCh, Other("marker"))
    /\ UNCHANGED <<service, missed, subscribed, marker, writeCh, forward, l2Writer, view, subs>>

\* runWriter: a change is passed on to the other goroutine ...
TakeMessage ==
    /\ forward = None
    /\ writeCh # << >>
    /\ writeCh' = Tail(writeCh)
    /\ UNCHANGED <<service, missed, subscribed, marker, l2ChangeCh, l2Writer, subs, others>>

Forward ==
    /\ forward # None
    /\ Len(l2ChangeCh) < L2Cap
    /\ l2ChangeCh' = Append(l2ChangeCh, forward)
    /\ forward' = None
    /\ UNCHANGED <<service, missed, subscribed, marker, writeCh, l2Writer, view, subs, others>>

TakeForward ==
    /\ TakeMessage
    /\ Head(writeCh) \in LevelChange \cup {Other("change")}
    /\ forward' = Head(writeCh)
    /\ UNCHANGED view

\* ... a message is written to the client, who puts what is of the product
\* into its view: of the changes to a level the last one counts.
ViewAfter(levels, cs) ==
    [k \in Keys |-> LET ns == {n \in DOMAIN cs : cs[n].key = k}
                    IN  IF ns = {} THEN levels[k] ELSE cs[Max(ns)].size]

WriteOther ==
    /\ TakeMessage
    /\ Head(writeCh) = Other("message")
    /\ UNCHANGED <<forward, view>>

WriteMessage ==
    /\ TakeMessage
    /\ Head(writeCh) \in Message
    /\ LET m == Head(writeCh)
       IN  view' = IF m.type = "snapshot"
                   THEN [seq |-> m.seq, levels |-> m.levels, clean |-> TRUE]
                   ELSE [seq |-> m.seq, levels |-> ViewAfter(view.levels, m.changes),
                         clean |-> view.clean /\ \A n \in DOMAIN m.changes : m.changes[n].seq > view.seq]
    /\ UNCHANGED forward

\* runL2ChangeWriter takes what is next in l2ChangeCh.
TakeNext ==
    /\ out = None
    /\ l2ChangeCh # << >>
    /\ l2ChangeCh' = Tail(l2ChangeCh)
    /\ UNCHANGED <<service, missed, subscribed, marker, writeCh, forward, view, subs, others>>

\* More is waiting, of any product: len(c.l2ChangeCh) > 0.
MoreWaits == Len(l2ChangeCh) > 1

\* Of another product, it leads to a message or to none; when a change was
\* lost and no more is waiting, to a marker.
TakeOther ==
    /\ TakeNext
    /\ Head(l2ChangeCh) \in OtherChanges
    /\ \/ out' \in {None, Other("message")}
       \/ Head(l2ChangeCh) = Other("change") /\ ~ MoreWaits /\ out' = Other("marker")
    /\ UNCHANGED <<resend, changes, clientSeq, usedUp, heldUp>>

\* A change or a marker of the product, in one of five ways.
TakeChange ==
    /\ TakeNext
    /\ Head(l2ChangeCh) \in LevelChange \cup {Marker}

WantsSnapshot(c) == resend \/ c.seq = 0

\* Faulty: sends whatever snapshot there is.
UsableAlways(snapshot) == snapshot # None

\* A snapshot that exists and is not too old.
Usable(snapshot) == IF snapshot = None THEN FALSE ELSE clientSeq <= snapshot.seq

\* A change that asks for a snapshot is used up; one with Seq 0 asks for what
\* the client had last.
Ask(c) == usedUp' = Max({usedUp, c.seq, clientSeq}) /\ heldUp' = FALSE

NoSnapshot ==
    /\ TakeChange
    /\ WantsSnapshot(Head(l2ChangeCh))
    /\ ~ Usable(lastL2)
    /\ Ask(Head(l2ChangeCh))
    /\ UNCHANGED <<resend, changes, clientSeq, out>>

SendSnapshot ==
    /\ TakeChange
    /\ WantsSnapshot(Head(l2ChangeCh))
    /\ Usable(lastL2)
    /\ clientSeq' = lastL2.seq
    /\ resend' = FALSE
    /\ Ask(Head(l2ChangeCh))
    /\ out' = [type |-> "snapshot", seq |-> lastL2.seq, levels |-> lastL2.levels]
    /\ UNCHANGED changes

Discard ==
    /\ TakeChange
    /\ ~ WantsSnapshot(Head(l2ChangeCh))
    /\ Head(l2ChangeCh).seq <= clientSeq
    /\ UNCHANGED <<resend, changes, clientSeq, out, usedUp, heldUp>>

\* Faulty: takes any newer change for the next one.
IsNextLoose(c) == c.seq > clientSeq

IsNext(c) == c.seq = clientSeq + 1

\* Faulty: waits for the next change to ask for a snapshot.
LostUnasked ==
    /\ TakeChange
    /\ ~ WantsSnapshot(Head(l2ChangeCh))
    /\ Head(l2ChangeCh).seq > clientSeq /\ ~ IsNext(Head(l2ChangeCh))
    /\ resend' = TRUE /\ changes' = << >>
    /\ clientSeq' = Head(l2ChangeCh).seq
    /\ UNCHANGED <<out, usedUp, heldUp>>

\* Changes were lost: ask for a snapshot, by a change with Seq 0 of its own
\* when no other change is waiting.
Lost ==
    /\ TakeChange
    /\ ~ WantsSnapshot(Head(l2ChangeCh))
    /\ Head(l2ChangeCh).seq > clientSeq /\ ~ IsNext(Head(l2ChangeCh))
    /\ resend' = TRUE /\ changes' = << >>
    /\ clientSeq' = Head(l2ChangeCh).seq
    /\ out' = IF MoreWaits THEN None ELSE Marker
    /\ heldUp' = MoreWaits
    /\ UNCHANGED usedUp

\* Faulty: buffers as long as changes are waiting.
KeepsCollectingUnbounded(all) == MoreWaits

\* chan still has messages: continue to read the buffer.
KeepsCollecting(all) == MoreWaits /\ Len(all) < Batch

\* The next change: buffered, or sent with those buffered before.
Collect ==
    /\ TakeChange
    /\ ~ WantsSnapshot(Head(l2ChangeCh))
    /\ IsNext(Head(l2ChangeCh))
    /\ LET c == Head(l2ChangeCh)
           all == Append(changes, c)
       IN  /\ clientSeq' = c.seq
           /\ heldUp' = KeepsCollecting(all)
           /\ IF KeepsCollecting(all)
              THEN changes' = all /\ UNCHANGED out
              ELSE changes' = << >> /\ out' = [type |-> "update", seq |-> c.seq, changes |-> all]
    /\ UNCHANGED <<resend, usedUp>>

\* Its sends: to writeCh, or to its own channel.
SendOut ==
    /\ out \in Messages
    /\ Len(writeCh) < WriteCap
    /\ writeCh' = Append(writeCh, out)
    /\ out' = None
    /\ UNCHANGED <<service, missed, subscribed, marker, l2ChangeCh, forward, resend, changes,
                    clientSeq, usedUp, heldUp, view, subs, others>>

SendOwnMarker ==
    /\ out \in {Marker, Other("marker")}
    /\ Len(l2ChangeCh) < L2Cap
    /\ l2ChangeCh' = Append(l2ChangeCh, out)
    /\ out' = None
    /\ UNCHANGED <<service, missed, subscribed, marker, writeCh, forward, resend, changes,
                    clientSeq, usedUp, heldUp, view, subs, others>>
-----------------------------------------------------------------------------
\* What the goroutines do of themselves, the 200 ms timer included.
FeedStep ==
    \/ RefreshLevel2 \/ PassOver \/ DropChange \/ CheckRoom \/ Publish \/ SendMarker
    \/ TakeForward \/ Forward \/ WriteMessage \/ WriteOther
    \/ TakeOther \/ NoSnapshot \/ SendSnapshot \/ Discard \/ Lost \/ Collect
    \/ SendOut \/ SendOwnMarker

Next ==
    \/ \E k \in Keys, size \in Sizes : ApplyChange(k, size)
    \/ Subscribe \/ Unsubscribe \/ PublishOther \/ MarkOther
    \/ FeedStep

Spec == Init /\ [][Next]_vars
-----------------------------------------------------------------------------
(* Properties.                                                             *)

\* The levels a client was sent are those the book had at the client's seq,
\* whatever was dropped, discarded and sent again, until an update repeats
\* a change older than what the client has (SendSnapshot leaves the changes
\* collected before it); the next snapshot puts that right.
ViewExact ==
    view # None /\ view.seq > 0 /\ view.clean => view.levels = past[view.seq]

BookAt(n) == IF n = 0 THEN NoLevels ELSE past[n]

\* Whatever a client is written, a snapshot or an update, takes it to a seq
\* not before the one it has, and to the levels the book had at that seq; the
\* levels only as long as no update repeats changes older than a snapshot
\* written before it, which takes them back though the seq rises: SendSnapshot
\* keeps the changes collected before, though client.go:198 says of such
\* changes that they are discarded.
ViewNeverBack ==
    [][view # None =>
            view'.seq >= view.seq /\ (view.clean => view.levels = BookAt(view.seq))']_vars

\* runL2ChangeWriter waits for room in l2ChangeCh, which it alone empties, or
\* in writeCh while runWriter waits for room in l2ChangeCh.
WriterStuck ==
    /\ Len(l2ChangeCh) = L2Cap
    /\ \/ out \in {Marker, Other("marker")}
       \/ out \in Messages /\ Len(writeCh) = WriteCap /\ forward # None

SeqShown == IF view = None THEN -1 ELSE view.seq

\* When nothing more moves, a subscriber has the current book.  Only these
\* leave one behind, until the next change or for good: the last change was
\* dropped at its full channel; a change that asked for a snapshot was used
\* up for none, or for one without it; what was waiting of other products
\* held the last change up; or the client's writers are stuck.
CaughtUp ==
    subscribed /\ ~ ENABLED FeedStep =>
        SeqShown = Len(past) \/ missed \/ SeqShown < usedUp \/ heldUp \/ WriterStuck
=============================================================================
