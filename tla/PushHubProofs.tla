---------------------------- MODULE PushHubProofs ----------------------------
(***************************************************************************)
(* Proofs about module PushHub, for any number of clients, streams and    *)
(* requests and every capacity of the channels: types, that no            *)
(* subscription outlives its client, that tickers are shown in order.     *)
(***************************************************************************)
EXTENDS PushHub, TLAPS

USE DEF feed

\* The writer's only operation on subscriptions is close.
WriterCloses ==
    \A c \in Clients : proc[c]["writer"].pc \in {"mu", "lock", "announced"}
                       => proc[c]["writer"].op = "close"

\* A subscription is one that Client.channels lists.
Listed == \A ch \in Channels : \A c \in subscribers[ch] : ch \in channels[c]

\* What a closing reader has still to unsubscribe from is all there is.
ReaderCloses ==
    \A c \in Clients : proc[c]["reader"].pc \in {"lock", "announced"} /\ proc[c]["reader"].op = "close"
        => \A ch \in Channels : c \in subscribers[ch] => ch \in proc[c]["reader"].todo

\* A client whose reader has left subscribes to nothing.
LeftIsGone ==
    \A ch \in Channels : \A c \in subscribers[ch] : proc[c]["reader"].pc \notin {"leave", "end"}

\* publish goes to subscribers only, as the read lock keeps them.
Served ==
    \A p \in Publishers : pub[p].pc = "visit" =>
        pub[p].rest \cup ({pub[p].to} \ {None}) \subseteq subscribers[p]

HubInv == TypeOK /\ WriterCloses /\ Listed /\ ReaderCloses /\ LeftIsGone /\ Served
-----------------------------------------------------------------------------
(* Types.                                                                  *)

\* A goroutine's step changes its own state only.
LEMMA BecomesEffect ==
    ASSUME TypeOK, NEW c \in Clients, NEW g \in Goroutines, NEW st, Becomes(c, g, st)
    PROVE  /\ proc'[c][g] = st
           /\ \A d \in Clients, h \in Goroutines : d # c \/ h # g => proc'[d][h] = proc[d][h]
           /\ st \in ProcStates => proc' \in [Clients -> [Goroutines -> ProcStates]]
<1>1. proc \in [Clients -> [Goroutines -> ProcStates]]  BY DEF TypeOK
<1>2. proc' = [proc EXCEPT ![c] = [proc[c] EXCEPT ![g] = st]]  BY <1>1 DEF Becomes
<1>3. /\ proc'[c] = [proc[c] EXCEPT ![g] = st]
      /\ \A d \in Clients : d # c => proc'[d] = proc[d]
  BY <1>1, <1>2
<1>4. proc'[c][g] = st /\ \A h \in Goroutines : h # g => proc'[c][h] = proc[c][h]  BY <1>1, <1>3
<1>5. ASSUME st \in ProcStates PROVE proc' \in [Clients -> [Goroutines -> ProcStates]]
  <2>1. [proc[c] EXCEPT ![g] = st] \in [Goroutines -> ProcStates]  BY <1>1, <1>5
  <2> QED  BY <1>1, <1>2, <2>1
<1> QED  BY <1>3, <1>4, <1>5

\* The records of the goroutines' states, by pc.
LEMMA ProcFields ==
    ASSUME TypeOK, NEW c \in Clients, NEW g \in Goroutines
    PROVE  /\ proc[c][g] \in ProcStates
           /\ proc[c][g].pc \in {"send", "write"} => proc[c][g].msg \in Message
           /\ proc[c][g].pc \in {"mu", "lock", "announced"} =>
                proc[c][g].op \in Ops /\ proc[c][g].todo \subseteq Channels
<1>1. proc[c][g] \in ProcStates  BY DEF TypeOK
<1> QED  BY <1>1 DEF ProcStates

LEMMA PubFields ==
    ASSUME TypeOK, NEW p \in Publishers
    PROVE  /\ pub[p] \in PubStates /\ pub[p].pc \in {"idle", "rlock", "visit"}
           /\ pub[p].pc # "idle" => pub[p].msg \in Message
           /\ pub[p].pc = "visit" => pub[p].rest \subseteq Clients /\ pub[p].to \in Clients \cup {None}
<1>1. pub[p] \in PubStates  BY DEF TypeOK
<1> QED  BY <1>1 DEF PubStates

LEMMA AfterOpType ==
    ASSUME NEW g, NEW op, NEW ch, NEW done
    PROVE  AfterOp(g, op, ch, done) \in ProcStates
<1>1. \A x \in {"read", "load", "mark", "select", "leave", "end"} : [pc |-> x] \in ProcStates
  BY DEF ProcStates
<1>2. AfterOp(g, op, ch, done) \in {[pc |-> "leave"], [pc |-> "load"], [pc |-> "mark"], [pc |-> "read"], [pc |-> "select"]}
  BY DEF AfterOp, Resting
<1> QED  BY <1>1, <1>2

LEMMA VisitingType ==
    ASSUME NEW msg \in Message, NEW rest \in SUBSET Clients, NEW to \in Clients \cup {None}
    PROVE  Visiting(msg, rest, to) \in PubStates
BY DEF Visiting, PubStates, Idle

\* A message that Append or Tail puts into or takes out of a channel.
LEMMA ChannelTypes ==
    ASSUME TypeOK, NEW c \in Clients
    PROVE  /\ \A m \in Message : HasRoom(c) =>
                Append(writeCh[c], m) \in Seq(Message) /\ Len(Append(writeCh[c], m)) <= WriteCap
           /\ writeCh[c] # << >> =>
                /\ Tail(writeCh[c]) \in Seq(Message) /\ Len(Tail(writeCh[c])) <= WriteCap
                /\ Head(writeCh[c]) \in Message
<1>1. writeCh[c] \in Seq(Message) /\ Len(writeCh[c]) <= WriteCap /\ WriteCap \in Nat
  BY PushHubAssumption DEF TypeOK
<1> QED  BY <1>1 DEF HasRoom

\* ... and into and out of l2ChangeCh.
LEMMA L2ChannelTypes ==
    ASSUME TypeOK, NEW c \in Clients, NEW s,
           \/ L2HasRoom(c) /\ \E x \in Changes : s = Append(l2ChangeCh[c], x)
           \/ l2ChangeCh[c] # << >> /\ s = Tail(l2ChangeCh[c]),
           l2ChangeCh' = [l2ChangeCh EXCEPT ![c] = s]
    PROVE  /\ l2ChangeCh' \in [Clients -> Seq(Changes)]
           /\ \A d \in Clients : Len(l2ChangeCh'[d]) <= L2Cap
<1>1. l2ChangeCh[c] \in Seq(Changes) /\ Len(l2ChangeCh[c]) <= L2Cap /\ L2Cap \in Nat
  BY PushHubAssumption DEF TypeOK
<1>2. s \in Seq(Changes) /\ Len(s) <= L2Cap
  <2>1. CASE L2HasRoom(c) /\ \E x \in Changes : s = Append(l2ChangeCh[c], x)
    BY <1>1, <2>1 DEF L2HasRoom
  <2>2. CASE l2ChangeCh[c] # << >> /\ s = Tail(l2ChangeCh[c])  BY <1>1, <2>2
  <2> QED  BY <2>1, <2>2
<1> QED  BY <1>2 DEF TypeOK
-----------------------------------------------------------------------------
LEMMA PublishTypeOK ==
    ASSUME TypeOK, NEW p \in Publishers, NEW msg \in Message, Publish(p, msg),
           lastTicker' \in {0} \cup Objects, price' \in [Objects -> 0 .. MaxMessages]
    PROVE  TypeOK'
<1>1. [pc |-> "rlock", msg |-> msg] \in PubStates  BY DEF PubStates
<1>2. pub' \in [Publishers -> PubStates]  BY <1>1 DEF Publish, TypeOK
<1>3. sent' \in 0 .. MaxMessages  BY PushHubAssumption DEF Publish, TypeOK
<1> QED  BY <1>2, <1>3 DEF Publish, client, TypeOK

LEMMA TickerTypes ==
    ASSUME TypeOK, NewTicker \/ SameTicker
    PROVE  /\ lastTicker' \in Objects
           /\ Publish(Ticker, [from |-> Ticker, ticker |-> lastTicker'])
           /\ price' = [price EXCEPT ![lastTicker'] = sent + 1]
           /\ price' \in [Objects -> 0 .. MaxMessages]
           /\ lastTicker' = lastTicker \/ lastTicker' = lastTicker + 1
<1>1. lastTicker' \in Objects  BY DEF NewTicker, SameTicker, TypeOK
<1>2. /\ Publish(Ticker, [from |-> Ticker, ticker |-> lastTicker'])
      /\ price' = [price EXCEPT ![lastTicker'] = sent + 1]
      /\ lastTicker' = lastTicker \/ lastTicker' = lastTicker + 1
  BY DEF NewTicker, SameTicker
<1>3. sent + 1 \in 0 .. MaxMessages  BY <1>2, PushHubAssumption DEF Publish, TypeOK
<1> QED  BY <1>1, <1>2, <1>3 DEF TypeOK

LEMMA PublishStepTypeOK ==
    ASSUME TypeOK, NEW p \in Publishers, PublishStep(p) PROVE TypeOK'
<1>1. ASSUME NEW st \in PubStates, pub' = [pub EXCEPT ![p] = st] PROVE pub' \in [Publishers -> PubStates]
  BY <1>1 DEF TypeOK
<1>2. CASE PublishBegin(p)
  <2>1. subscribers[p] \subseteq Clients  BY DEF TypeOK, Channels
  <2>2. Visiting(pub[p].msg, subscribers[p], None) \in PubStates
    BY <1>2, <2>1, PubFields, VisitingType DEF PublishBegin
  <2>3. pub' \in [Publishers -> PubStates]  BY <1>1, <1>2, <2>2 DEF PublishBegin
  <2> QED  BY <1>2, <2>3 DEF PublishBegin, client, TypeOK
<1>3. CASE PublishSend(p)
  <2>1. Visiting(pub[p].msg, pub[p].rest, None) \in PubStates /\ pub[p].msg \in Message
        /\ pub[p].to \in Clients
    BY <1>3, PubFields, VisitingType DEF PublishSend
  <2>2. pub' \in [Publishers -> PubStates]  BY <1>1, <1>3, <2>1 DEF PublishSend
  <2>3. /\ writeCh' = [writeCh EXCEPT ![pub[p].to] = Append(writeCh[pub[p].to], pub[p].msg)]
        /\ HasRoom(pub[p].to)
    BY <1>3 DEF PublishSend
  <2>4. /\ Append(writeCh[pub[p].to], pub[p].msg) \in Seq(Message)
        /\ Len(Append(writeCh[pub[p].to], pub[p].msg)) <= WriteCap
    BY <2>1, <2>3, ChannelTypes
  <2>5. writeCh' \in [Clients -> Seq(Message)] /\ \A c \in Clients : Len(writeCh'[c]) <= WriteCap
    BY <2>1, <2>3, <2>4 DEF TypeOK
  <2> QED  BY <1>3, <2>2, <2>5 DEF PublishSend, TypeOK
<1>4. ASSUME NEW c \in Clients, PublishVisit(p, c) PROVE TypeOK'
  <2>1. Visiting(pub[p].msg, pub[p].rest \ {c}, IF HasRoom(c) THEN c ELSE None) \in PubStates
    <3>1. pub[p].msg \in Message /\ pub[p].rest \ {c} \in SUBSET Clients
      BY <1>4, PubFields DEF PublishVisit
    <3> QED  BY <3>1, VisitingType
  <2>2. pub' \in [Publishers -> PubStates]  BY <1>1, <1>4, <2>1 DEF PublishVisit
  <2> QED  BY <1>4, <2>2 DEF PublishVisit, client, TypeOK
<1> QED  BY <1>2, <1>3, <1>4 DEF PublishStep

LEMMA CommonTypeOK ==
    ASSUME TypeOK, NEW c \in Clients, NEW g \in Goroutines, CommonStep(c, g) PROVE TypeOK'
<1>1. ASSUME NEW st \in ProcStates, Becomes(c, g, st)
      PROVE  proc' \in [Clients -> [Goroutines -> ProcStates]]
  BY <1>1, BecomesEffect
<1>2. CASE TakeMu(c, g)
  <2>1. PICK todo : todo = CASE proc[c][g].op = "close" -> channels[c]
                             [] proc[c][g].op = "sub"   -> proc[c][g].todo \ channels[c]
                             [] proc[c][g].op = "unsub" -> proc[c][g].todo
    OBVIOUS
  <2>2. /\ proc[c][g].pc = "mu"
        /\ IF todo = {}
           THEN Becomes(c, g, AfterOp(g, proc[c][g].op, None, FALSE)) /\ UNCHANGED mu
           ELSE /\ Becomes(c, g, [pc |-> "lock", op |-> proc[c][g].op, todo |-> todo])
                /\ mu' = [mu EXCEPT ![c] = g]
        /\ UNCHANGED <<hub, channels, writeCh, conn, feed, requests, failed, shown>>
    BY <1>2, <2>1 DEF TakeMu
  <2>3. proc[c][g].op \in Ops /\ todo \subseteq Channels
    BY <2>1, <2>2, ProcFields DEF Ops, TypeOK
  <2>4. [pc |-> "lock", op |-> proc[c][g].op, todo |-> todo] \in ProcStates
    BY <2>3 DEF ProcStates
  <2>5. proc' \in [Clients -> [Goroutines -> ProcStates]] /\ mu' \in [Clients -> Goroutines \cup {None}]
    BY <1>1, <2>2, <2>4, AfterOpType DEF TypeOK
  <2> QED  BY <2>2, <2>5 DEF TypeOK, hub
<1>3. CASE Announce(c, g)
  <2>1. [proc[c][g] EXCEPT !.pc = "announced"] \in ProcStates
    <3>1. proc[c][g].pc = "lock" /\ proc[c][g] \in ProcStates
      BY <1>3, ProcFields DEF Announce
    <3>2. proc[c][g] \in [pc : {"mu", "lock", "announced"}, op : Ops, todo : SUBSET Channels]
      BY <3>1 DEF ProcStates
    <3> QED  BY <3>2 DEF ProcStates
  <2>2. proc' \in [Clients -> [Goroutines -> ProcStates]]  BY <1>1, <1>3, <2>1 DEF Announce
  <2> QED  BY <1>3, <2>2 DEF Announce, TypeOK, hub
<1>4. CASE Leave(c, g)
  <2>1. [pc |-> "end"] \in ProcStates  BY DEF ProcStates
  <2>2. proc' \in [Clients -> [Goroutines -> ProcStates]]  BY <1>1, <1>4, <2>1 DEF Leave
  <2> QED  BY <1>4, <2>2 DEF Leave, TypeOK, hub
<1>5. ASSUME NEW ch \in Channels, WithLock(c, g, ch) PROVE TypeOK'
  <2>1. PICK rest, found : rest = proc[c][g].todo \ {ch} /\ found = (c \in subscribers[ch])  OBVIOUS
  <2>2. /\ proc[c][g].pc = "announced"
        /\ subscribers' = [subscribers EXCEPT ![ch] =
              IF proc[c][g].op = "sub" THEN subscribers[ch] \cup {c} ELSE subscribers[ch] \ {c}]
        /\ \E S \in {channels[c], channels[c] \cup {ch}, channels[c] \ {ch}} :
              channels' = [channels EXCEPT ![c] = S]
        /\ IF rest = {}
           THEN Becomes(c, g, AfterOp(g, proc[c][g].op, ch, ~ found)) /\ mu' = [mu EXCEPT ![c] = None]
           ELSE Becomes(c, g, [proc[c][g] EXCEPT !.pc = "lock", !.todo = rest]) /\ UNCHANGED mu
        /\ UNCHANGED <<pub, sent, lastTicker, price, writeCh, conn, feed, requests, failed, shown>>
    BY <1>5, <2>1 DEF WithLock
  <2>3. [proc[c][g] EXCEPT !.pc = "lock", !.todo = rest] \in ProcStates
    <3>1. proc[c][g] \in [pc : {"mu", "lock", "announced"}, op : Ops, todo : SUBSET Channels]
      BY <2>2, ProcFields DEF ProcStates
    <3>2. rest \subseteq Channels  BY <2>1, <3>1
    <3> QED  BY <3>1, <3>2 DEF ProcStates
  <2>4. proc' \in [Clients -> [Goroutines -> ProcStates]] /\ mu' \in [Clients -> Goroutines \cup {None}]
    BY <1>1, <2>2, <2>3, AfterOpType DEF TypeOK
  <2>5. subscribers' \in [Channels -> SUBSET Clients] /\ channels' \in [Clients -> SUBSET Channels]
    BY <2>2 DEF TypeOK
  <2> QED  BY <2>2, <2>4, <2>5 DEF TypeOK
<1> QED  BY <1>2, <1>3, <1>4, <1>5 DEF CommonStep

LEMMA ClientTypeOK ==
    ASSUME TypeOK, NEW c \in Clients,
           \/ \E op \in {"sub", "unsub"}, ch \in Channels : Request(c, op, ch)
           \/ ReadFails(c) \/ WriteFails(c) \/ LoadTicker(c) \/ SendTicker(c) \/ SendMarker(c)
           \/ TakeMessage(c) \/ ForwardChange(c) \/ WriteMessage(c)
    PROVE  TypeOK'
<1>1. ASSUME NEW g \in Goroutines, NEW st \in ProcStates, Becomes(c, g, st)
      PROVE  proc' \in [Clients -> [Goroutines -> ProcStates]]
  BY <1>1, BecomesEffect
<1>2. "reader" \in Goroutines /\ "writer" \in Goroutines  BY DEF Goroutines
<1>3. \A g \in Goroutines : Resting(g) \in ProcStates  BY DEF Resting, ProcStates
<1>4. ASSUME NEW op \in {"sub", "unsub"}, NEW ch \in Channels, Request(c, op, ch) PROVE TypeOK'
  <2>1. Wants(op, {ch}) \in ProcStates  BY DEF Wants, ProcStates, Ops
  <2>2. proc' \in [Clients -> [Goroutines -> ProcStates]]  BY <1>1, <1>2, <1>4, <2>1 DEF Request
  <2>3. requests' \in 0 .. MaxRequests  BY <1>4, PushHubAssumption DEF Request, TypeOK
  <2> QED  BY <1>4, <2>2, <2>3 DEF Request, TypeOK, hub
<1>5. CASE ReadFails(c) \/ WriteFails(c)
  <2>1. Wants("close", {}) \in ProcStates  BY DEF Wants, ProcStates, Ops
  <2>2. proc' \in [Clients -> [Goroutines -> ProcStates]]
    BY <1>1, <1>2, <1>5, <2>1 DEF ReadFails, WriteFails
  <2>3. failed' \subseteq Clients  BY <1>5 DEF ReadFails, WriteFails, Fails, TypeOK
  <2> QED  BY <1>5, <2>2, <2>3 DEF ReadFails, WriteFails, TypeOK, hub
<1>6. CASE LoadTicker(c)
  <2>1. [pc |-> "send", msg |-> [from |-> "sub", ticker |-> lastTicker]] \in ProcStates
    BY DEF ProcStates, Message, TypeOK
  <2>2. proc' \in [Clients -> [Goroutines -> ProcStates]]
    BY <1>1, <1>2, <1>3, <1>6, <2>1 DEF LoadTicker
  <2> QED  BY <1>6, <2>2 DEF LoadTicker, TypeOK, hub
<1>7. CASE SendTicker(c)
  <2>1. proc' \in [Clients -> [Goroutines -> ProcStates]]
    BY <1>1, <1>2, <1>3, <1>7 DEF SendTicker
  <2>2. /\ proc[c]["reader"].msg \in Message /\ HasRoom(c)
        /\ writeCh' = [writeCh EXCEPT ![c] = Append(writeCh[c], proc[c]["reader"].msg)]
    BY <1>2, <1>7, ProcFields DEF SendTicker
  <2>3. /\ Append(writeCh[c], proc[c]["reader"].msg) \in Seq(Message)
        /\ Len(Append(writeCh[c], proc[c]["reader"].msg)) <= WriteCap
    BY <2>2, ChannelTypes
  <2>4. writeCh' \in [Clients -> Seq(Message)] /\ \A d \in Clients : Len(writeCh'[d]) <= WriteCap
    BY <2>2, <2>3 DEF TypeOK
  <2> QED  BY <1>7, <2>1, <2>4 DEF SendTicker, TypeOK, hub
<1>8. CASE TakeMessage(c)
  <2>1. /\ Tail(writeCh[c]) \in Seq(Message) /\ Len(Tail(writeCh[c])) <= WriteCap
        /\ Head(writeCh[c]) \in Message
    BY <1>8, ChannelTypes DEF TakeMessage
  <2>2. [pc |-> "write", msg |-> Head(writeCh[c])] \in ProcStates /\ [pc |-> "forward"] \in ProcStates
    BY <2>1 DEF ProcStates
  <2>3. proc' \in [Clients -> [Goroutines -> ProcStates]]
    BY <1>1, <1>2, <1>8, <2>2 DEF TakeMessage
  <2>4. writeCh' \in [Clients -> Seq(Message)] /\ \A d \in Clients : Len(writeCh'[d]) <= WriteCap
    BY <1>8, <2>1 DEF TakeMessage, TypeOK
  <2> QED  BY <1>8, <2>3, <2>4 DEF TakeMessage, TypeOK, hub
<1>9. CASE WriteMessage(c)
  <2>1. proc' \in [Clients -> [Goroutines -> ProcStates]]
    BY <1>1, <1>2, <1>3, <1>9 DEF WriteMessage
  <2>2. proc[c]["writer"].msg.ticker \in {0} \cup Objects
    BY <1>2, <1>9, ProcFields DEF WriteMessage, Message
  <2>3. shown' \in [Clients -> 0 .. MaxMessages]
    BY <1>9, <2>2 DEF WriteMessage, TypeOK
  <2> QED  BY <1>9, <2>1, <2>3 DEF WriteMessage, TypeOK, hub
<1>10. CASE SendMarker(c) \/ ForwardChange(c)
  <2>1. proc' \in [Clients -> [Goroutines -> ProcStates]]
    BY <1>1, <1>2, <1>3, <1>10 DEF SendMarker, ForwardChange
  <2>2. L2HasRoom(c) /\ \E x \in Changes : l2ChangeCh' = [l2ChangeCh EXCEPT ![c] = Append(l2ChangeCh[c], x)]
    BY <1>10 DEF SendMarker, ForwardChange, Changes
  <2>3. /\ l2ChangeCh' \in [Clients -> Seq(Changes)]
        /\ \A d \in Clients : Len(l2ChangeCh'[d]) <= L2Cap
    BY <2>2, L2ChannelTypes
  <2> QED  BY <1>10, <2>1, <2>3 DEF SendMarker, ForwardChange, TypeOK, hub
<1> QED  BY <1>4, <1>5, <1>6, <1>7, <1>8, <1>9, <1>10

\* runL2ChangeWriter changes nothing but its own state and the two channels.
LEMMA L2TypeOK ==
    ASSUME TypeOK, NEW c \in Clients, L2Step(c) PROVE TypeOK'
<1>1. ASSUME NEW st \in L2States, l2' = [l2 EXCEPT ![c] = st] PROVE l2' \in [Clients -> L2States]
  BY <1>1 DEF TypeOK
<1>2. CASE TakeChange(c)
  <2>1. l2' \in [Clients -> L2States]
    <3>1. \E st \in L2States : l2' = [l2 EXCEPT ![c] = st]  BY <1>2 DEF TakeChange, L2States
    <3> QED  BY <1>1, <3>1
  <2>2. l2ChangeCh[c] # << >> /\ l2ChangeCh' = [l2ChangeCh EXCEPT ![c] = Tail(l2ChangeCh[c])]
    BY <1>2 DEF TakeChange
  <2>3. /\ l2ChangeCh' \in [Clients -> Seq(Changes)]
        /\ \A d \in Clients : Len(l2ChangeCh'[d]) <= L2Cap
    BY <2>2, L2ChannelTypes
  <2> QED  BY <1>2, <2>1, <2>3 DEF TakeChange, TypeOK, hub
<1>3. CASE PushMessage(c)
  <2>1. l2' \in [Clients -> L2States]
    <3>1. l2' = [l2 EXCEPT ![c] = "select"] /\ "select" \in L2States  BY <1>3 DEF PushMessage, L2States
    <3> QED  BY <1>1, <3>1
  <2>2. PICK m : m = [from |-> "l2", ticker |-> 0]  OBVIOUS
  <2>3. m \in Message  BY <2>2 DEF Message
  <2>4. HasRoom(c) /\ writeCh' = [writeCh EXCEPT ![c] = Append(writeCh[c], m)]
    BY <1>3, <2>2 DEF PushMessage
  <2>5. Append(writeCh[c], m) \in Seq(Message) /\ Len(Append(writeCh[c], m)) <= WriteCap
    BY <2>3, <2>4, ChannelTypes
  <2>6. writeCh' \in [Clients -> Seq(Message)] /\ \A d \in Clients : Len(writeCh'[d]) <= WriteCap
    BY <2>4, <2>5 DEF TypeOK
  <2> QED  BY <1>3, <2>1, <2>6 DEF PushMessage, TypeOK, hub
<1>4. CASE PushMarker(c)
  <2>1. l2' \in [Clients -> L2States]
    <3>1. l2' = [l2 EXCEPT ![c] = "select"] /\ "select" \in L2States  BY <1>4 DEF PushMarker, L2States
    <3> QED  BY <1>1, <3>1
  <2>2. L2HasRoom(c) /\ \E x \in Changes : l2ChangeCh' = [l2ChangeCh EXCEPT ![c] = Append(l2ChangeCh[c], x)]
    BY <1>4 DEF PushMarker, Changes
  <2>3. /\ l2ChangeCh' \in [Clients -> Seq(Changes)]
        /\ \A d \in Clients : Len(l2ChangeCh'[d]) <= L2Cap
    BY <2>2, L2ChannelTypes
  <2> QED  BY <1>4, <2>1, <2>3 DEF PushMarker, TypeOK, hub
<1>5. CASE EndL2(c)
  <2>1. l2' \in [Clients -> L2States]
    <3>1. l2' = [l2 EXCEPT ![c] = "end"] /\ "end" \in L2States  BY <1>5 DEF EndL2, L2States
    <3> QED  BY <1>1, <3>1
  <2> QED  BY <1>5, <2>1 DEF EndL2, TypeOK, hub
<1> QED  BY <1>2, <1>3, <1>4, <1>5 DEF L2Step

LEMMA NextTypeOK == TypeOK /\ [Next]_vars => TypeOK'
<1> SUFFICES ASSUME TypeOK, [Next]_vars PROVE TypeOK'
  OBVIOUS
<1>1. ASSUME NEW p \in Streams \cup {Level2}, StreamMessage(p) PROVE TypeOK'
  <2>1. [from |-> p, ticker |-> 0] \in Message  BY DEF Message, Publishers
  <2> QED  BY <1>1, <2>1, PublishTypeOK DEF StreamMessage, TypeOK, Publishers
<1>2. CASE NewTicker \/ SameTicker
  <2>1. Ticker \in Publishers  BY DEF Publishers
  <2>2. [from |-> Ticker, ticker |-> lastTicker'] \in Message
    BY <1>2, <2>1, TickerTypes DEF Message
  <2> QED  BY <1>2, <2>1, <2>2, TickerTypes, PublishTypeOK
<1>3. ASSUME NEW p \in Publishers, PublishStep(p) PROVE TypeOK'  BY <1>3, PublishStepTypeOK
<1>4. ASSUME NEW c \in Clients, NEW g \in Goroutines, CommonStep(c, g) PROVE TypeOK'
  BY <1>4, CommonTypeOK
<1>5. ASSUME NEW c \in Clients,
             \/ \E op \in {"sub", "unsub"}, ch \in Channels : Request(c, op, ch)
             \/ ReadFails(c) \/ WriteFails(c) \/ LoadTicker(c) \/ SendTicker(c) \/ SendMarker(c)
             \/ TakeMessage(c) \/ ForwardChange(c) \/ WriteMessage(c)
      PROVE  TypeOK'
  BY <1>5, ClientTypeOK
<1>6. CASE UNCHANGED vars  BY <1>6 DEF TypeOK, vars, hub, client
<1>7. ASSUME NEW c \in Clients, L2Step(c) PROVE TypeOK'  BY <1>7, L2TypeOK
<1> QED  BY <1>1, <1>2, <1>3, <1>4, <1>5, <1>6, <1>7 DEF Next, ReaderStep, WriterStep, Goroutines
-----------------------------------------------------------------------------
(* No subscription outlives its client.                                    *)

\* Steps that leave the subscriptions alone.  quiet states of a goroutine
\* carry no duty, except that a reader leaves only when it may.
LEMMA QuietGhosts ==
    ASSUME HubInv, NEW c \in Clients, NEW g \in Goroutines, NEW st, Becomes(c, g, st),
           UNCHANGED <<subscribers, channels, pub>>,
           g = "writer" /\ st.pc \in {"mu", "lock", "announced"} => st.op = "close",
           g = "reader" /\ st.pc \in {"lock", "announced"} /\ st.op = "close" =>
               \A ch \in Channels : c \in subscribers[ch] => ch \in st.todo,
           g = "reader" /\ st.pc \in {"leave", "end"} => \A ch \in Channels : c \notin subscribers[ch]
    PROVE  WriterCloses' /\ Listed' /\ ReaderCloses' /\ LeftIsGone' /\ Served'
<1>1. TypeOK /\ "reader" \in Goroutines /\ "writer" \in Goroutines  BY DEF HubInv, Goroutines
<1>2. /\ proc'[c][g] = st
      /\ \A d \in Clients, h \in Goroutines : d # c \/ h # g => proc'[d][h] = proc[d][h]
  BY <1>1, BecomesEffect
<1>3. Listed' /\ Served'  BY DEF HubInv, Listed, Served
<1>4. WriterCloses'
  <2> SUFFICES ASSUME NEW d \in Clients, proc'[d]["writer"].pc \in {"mu", "lock", "announced"}
               PROVE  proc'[d]["writer"].op = "close"
    BY DEF WriterCloses
  <2>1. CASE d = c /\ g = "writer"  BY <1>2, <2>1
  <2>2. CASE ~ (d = c /\ g = "writer")
    <3>1. proc'[d]["writer"] = proc[d]["writer"]  BY <1>1, <1>2, <2>2
    <3> QED  BY <3>1 DEF HubInv, WriterCloses
  <2> QED  BY <2>1, <2>2
<1>5. ReaderCloses'
  <2> SUFFICES ASSUME NEW d \in Clients, proc'[d]["reader"].pc \in {"lock", "announced"},
                      proc'[d]["reader"].op = "close", NEW ch \in Channels, d \in subscribers[ch]
               PROVE  ch \in proc'[d]["reader"].todo
    BY DEF ReaderCloses
  <2>1. CASE d = c /\ g = "reader"  BY <1>2, <2>1
  <2>2. CASE ~ (d = c /\ g = "reader")
    <3>1. proc'[d]["reader"] = proc[d]["reader"]  BY <1>1, <1>2, <2>2
    <3> QED  BY <3>1 DEF HubInv, ReaderCloses
  <2> QED  BY <2>1, <2>2
<1>6. LeftIsGone'
  <2> SUFFICES ASSUME NEW ch \in Channels, NEW d \in subscribers[ch]
               PROVE  proc'[d]["reader"].pc \notin {"leave", "end"}
    BY DEF LeftIsGone
  <2>0. d \in Clients  BY <1>1 DEF TypeOK
  <2>1. CASE d = c /\ g = "reader"  BY <1>2, <2>1
  <2>2. CASE ~ (d = c /\ g = "reader")
    <3>1. proc'[d]["reader"] = proc[d]["reader"]  BY <1>1, <1>2, <2>0, <2>2
    <3> QED  BY <3>1 DEF HubInv, LeftIsGone
  <2> QED  BY <2>1, <2>2
<1> QED  BY <1>3, <1>4, <1>5, <1>6

\* publish only ever goes on through subscribers.
LEMMA PublishGhosts ==
    ASSUME HubInv, NEW p \in Publishers, UNCHANGED <<subscribers, channels, proc>>,
           NEW st, pub' = [pub EXCEPT ![p] = st],
           st.pc = "visit" => st.rest \cup ({st.to} \ {None}) \subseteq subscribers[p]
    PROVE  WriterCloses' /\ Listed' /\ ReaderCloses' /\ LeftIsGone' /\ Served'
<1>1. Served'
  <2> SUFFICES ASSUME NEW q \in Publishers, pub'[q].pc = "visit"
               PROVE  pub'[q].rest \cup ({pub'[q].to} \ {None}) \subseteq subscribers[q]
    BY DEF Served
  <2>1. CASE q = p  BY <2>1 DEF HubInv, TypeOK
  <2>2. CASE q # p
    <3>1. pub'[q] = pub[q]  BY <2>2 DEF HubInv, TypeOK
    <3> QED  BY <3>1 DEF HubInv, Served
  <2> QED  BY <2>1, <2>2
<1> QED  BY <1>1 DEF HubInv, WriterCloses, Listed, ReaderCloses, LeftIsGone

LEMMA PublishStepGhosts ==
    ASSUME HubInv, NEW p \in Publishers, PublishStep(p)
    PROVE  WriterCloses' /\ Listed' /\ ReaderCloses' /\ LeftIsGone' /\ Served'
<1>1. UNCHANGED <<subscribers, channels, proc>>
  BY DEF PublishStep, PublishBegin, PublishVisit, PublishSend, client
<1>2. ASSUME NEW msg, NEW rest, NEW to, rest \cup ({to} \ {None}) \subseteq subscribers[p]
      PROVE  Visiting(msg, rest, to).pc = "visit" =>
               Visiting(msg, rest, to).rest \cup ({Visiting(msg, rest, to).to} \ {None}) \subseteq subscribers[p]
  <2>1. CASE rest = {} /\ to = None
    <3>1. Visiting(msg, rest, to).pc = "idle"  BY <2>1 DEF Visiting, Idle
    <3> QED  BY <3>1
  <2>2. CASE ~ (rest = {} /\ to = None)
    <3>1. Visiting(msg, rest, to).rest = rest /\ Visiting(msg, rest, to).to = to
      BY <2>2 DEF Visiting
    <3> QED  BY <1>2, <3>1
  <2> QED  BY <2>1, <2>2
<1>3. pub[p].pc = "visit" => pub[p].rest \cup ({pub[p].to} \ {None}) \subseteq subscribers[p]
  BY DEF HubInv, Served
<1>4. CASE PublishBegin(p)
  <2>1. PICK st : st = Visiting(pub[p].msg, subscribers[p], None)  OBVIOUS
  <2>2. st.pc = "visit" => st.rest \cup ({st.to} \ {None}) \subseteq subscribers[p]  BY <1>2, <2>1
  <2>3. pub' = [pub EXCEPT ![p] = st]  BY <1>4, <2>1 DEF PublishBegin
  <2> QED  BY <1>1, <2>2, <2>3, PublishGhosts
<1>5. CASE PublishSend(p)
  <2>1. PICK st : st = Visiting(pub[p].msg, pub[p].rest, None)  OBVIOUS
  <2>2. pub[p].rest \cup ({None} \ {None}) \subseteq subscribers[p]  BY <1>3, <1>5 DEF PublishSend
  <2>3. st.pc = "visit" => st.rest \cup ({st.to} \ {None}) \subseteq subscribers[p]
    BY <1>2, <2>1, <2>2
  <2>4. pub' = [pub EXCEPT ![p] = st]  BY <1>5, <2>1 DEF PublishSend
  <2> QED  BY <1>1, <2>3, <2>4, PublishGhosts
<1>6. ASSUME NEW c \in Clients, PublishVisit(p, c)
      PROVE  WriterCloses' /\ Listed' /\ ReaderCloses' /\ LeftIsGone' /\ Served'
  <2>1. PICK to : to = IF HasRoom(c) THEN c ELSE None  OBVIOUS
  <2>2. PICK st : st = Visiting(pub[p].msg, pub[p].rest \ {c}, to)  OBVIOUS
  <2>3. (pub[p].rest \ {c}) \cup ({to} \ {None}) \subseteq subscribers[p]
    BY <1>3, <1>6, <2>1 DEF PublishVisit
  <2>4. st.pc = "visit" => st.rest \cup ({st.to} \ {None}) \subseteq subscribers[p]
    BY <1>2, <2>2, <2>3
  <2>5. pub' = [pub EXCEPT ![p] = st]  BY <1>6, <2>1, <2>2 DEF PublishVisit
  <2> QED  BY <1>1, <2>4, <2>5, PublishGhosts
<1> QED  BY <1>4, <1>5, <1>6 DEF PublishStep

\* subscription.subscribe and unsubscribe under the write lock: no publish is
\* under way, and Client.channels learns what the subscription did.
LEMMA WithLockGhosts ==
    ASSUME HubInv, NEW c \in Clients, NEW g \in Goroutines, NEW ch \in Channels, WithLock(c, g, ch)
    PROVE  WriterCloses' /\ Listed' /\ ReaderCloses' /\ LeftIsGone' /\ Served'
<1>1. TypeOK /\ "reader" \in Goroutines /\ "writer" \in Goroutines  BY DEF HubInv, Goroutines
<1>2. PICK op, rest, found : /\ op = proc[c][g].op /\ rest = proc[c][g].todo \ {ch}
                             /\ found = (c \in subscribers[ch])
  OBVIOUS
<1>3. PICK st : st = IF rest = {} THEN AfterOp(g, op, ch, ~ found)
                     ELSE [proc[c][g] EXCEPT !.pc = "lock", !.todo = rest]
  OBVIOUS
<1>4. /\ proc[c][g].pc = "announced" /\ ch \in proc[c][g].todo
      /\ Becomes(c, g, st)
      /\ \A p \in Publishers : pub[p].pc # "visit"
      /\ subscribers' = [subscribers EXCEPT ![ch] =
                           IF op = "sub" THEN subscribers[ch] \cup {c} ELSE subscribers[ch] \ {c}]
      /\ channels' = [channels EXCEPT ![c] =
                         CASE op = "sub" /\ ~ found  -> channels[c] \cup {ch}
                           [] op = "unsub" /\ found  -> channels[c] \ {ch}
                           [] OTHER -> channels[c]]
      /\ pub' = pub
  BY <1>2, <1>3 DEF WithLock, ReadLocked
<1>5. op \in Ops /\ proc[c][g].todo \subseteq Channels /\ proc[c][g] \in ProcStates
  BY <1>1, <1>2, <1>4, ProcFields
<1>6. /\ proc'[c][g] = st
      /\ \A d \in Clients, h \in Goroutines : d # c \/ h # g => proc'[d][h] = proc[d][h]
  BY <1>1, <1>4, BecomesEffect
<1>7. /\ \A x \in Channels \ {ch} : subscribers'[x] = subscribers[x]
      /\ op = "sub" => subscribers'[ch] = subscribers[ch] \cup {c}
      /\ op # "sub" => subscribers'[ch] = subscribers[ch] \ {c}
  BY <1>1, <1>4 DEF TypeOK
<1>8. /\ \A d \in Clients \ {c} : channels'[d] = channels[d]
      /\ op = "sub" /\ ~ found => channels'[c] = channels[c] \cup {ch}
      /\ op = "unsub" /\ found => channels'[c] = channels[c] \ {ch}
      /\ ~ (op = "sub" /\ ~ found) /\ ~ (op = "unsub" /\ found) => channels'[c] = channels[c]
  BY <1>1, <1>4 DEF TypeOK
<1>9. Served'  BY <1>4 DEF Served
<1>10. Listed'
  <2> SUFFICES ASSUME NEW x \in Channels, NEW d \in subscribers'[x] PROVE x \in channels'[d]
    BY DEF Listed
  <2>1. d \in subscribers[x] => x \in channels[d] /\ d \in Clients
    BY <1>1 DEF HubInv, Listed, TypeOK
  <2>2. CASE d # c
    <3>1. d \in subscribers[x]  BY <1>7, <2>2
    <3> QED  BY <1>8, <2>1, <2>2, <3>1
  <2>3. CASE d = c /\ x # ch
    <3>1. c \in subscribers[x]  BY <1>7, <2>3
    <3> QED  BY <1>8, <2>1, <2>3, <3>1
  <2>4. CASE d = c /\ x = ch
    <3>1. op = "sub"  BY <1>7, <2>4
    <3> QED  BY <1>2, <1>8, <2>1, <2>4, <3>1
  <2> QED  BY <2>2, <2>3, <2>4
<1>11. g = "writer" => op = "close"
  BY <1>2, <1>4 DEF HubInv, WriterCloses
<1>12. rest # {} => st.pc = "lock" /\ st.op = op /\ st.todo = rest
  <2>1. proc[c][g] \in [pc : {"mu", "lock", "announced"}, op : Ops, todo : SUBSET Channels]
    BY <1>4, <1>5 DEF ProcStates
  <2> QED  BY <1>2, <1>3, <2>1
<1>13. rest = {} => /\ op = "close" => st.pc = "leave"
                    /\ op # "close" => st.pc \in {"load", "mark", "read", "select"}
  BY <1>3, <1>5 DEF AfterOp, Resting, Ops
<1>14. WriterCloses'
  <2> SUFFICES ASSUME NEW d \in Clients, proc'[d]["writer"].pc \in {"mu", "lock", "announced"}
               PROVE  proc'[d]["writer"].op = "close"
    BY DEF WriterCloses
  <2>1. CASE d = c /\ g = "writer"  BY <1>6, <1>11, <1>12, <1>13, <2>1
  <2>2. CASE ~ (d = c /\ g = "writer")
    <3>1. proc'[d]["writer"] = proc[d]["writer"]  BY <1>1, <1>6, <2>2
    <3> QED  BY <3>1 DEF HubInv, WriterCloses
  <2> QED  BY <2>1, <2>2
\* A reader is touched by its own operation only, a closing one by none that adds.
<1>15. \A x \in Channels : \A d \in Clients :
          d \in subscribers'[x] => d \in subscribers[x] \/ (d = c /\ op = "sub" /\ g = "reader" /\ x = ch)
  <2>1. op = "sub" => g = "reader"  BY <1>11 DEF Goroutines
  <2> QED  BY <1>7, <2>1
<1>16. ReaderCloses'
  <2> SUFFICES ASSUME NEW d \in Clients, proc'[d]["reader"].pc \in {"lock", "announced"},
                      proc'[d]["reader"].op = "close", NEW x \in Channels, d \in subscribers'[x]
               PROVE  x \in proc'[d]["reader"].todo
    BY DEF ReaderCloses
  <2>1. CASE d = c /\ g = "reader"
    <3>1. rest # {} /\ op = "close" /\ proc'[d]["reader"].todo = rest
      BY <1>6, <1>12, <1>13, <2>1
    <3>2. x # ch /\ c \in subscribers[x]  BY <1>7, <2>1, <3>1
    <3>3. x \in proc[c]["reader"].todo
      BY <1>2, <1>4, <2>1, <3>1, <3>2 DEF HubInv, ReaderCloses
    <3> QED  BY <1>2, <2>1, <3>1, <3>2, <3>3
  <2>2. CASE ~ (d = c /\ g = "reader")
    <3>1. proc'[d]["reader"] = proc[d]["reader"] /\ d \in subscribers[x]  BY <1>1, <1>6, <1>15, <2>2
    <3> QED  BY <3>1 DEF HubInv, ReaderCloses
  <2> QED  BY <2>1, <2>2
<1>17. LeftIsGone'
  <2> SUFFICES ASSUME NEW x \in Channels, NEW d \in subscribers'[x]
               PROVE  proc'[d]["reader"].pc \notin {"leave", "end"}
    BY DEF LeftIsGone
  <2>1. d \in Clients  BY <1>1, <1>7 DEF TypeOK
  <2>2. CASE d = c /\ g = "reader"
    <3>1. CASE op # "close" \/ rest # {}  BY <1>6, <1>12, <1>13, <2>2, <3>1
    <3>2. CASE op = "close" /\ rest = {}
      <4>1. x # ch /\ c \in subscribers[x]  BY <1>7, <2>2, <3>2
      <4>2. x \in proc[c]["reader"].todo
        BY <1>2, <1>4, <2>2, <3>2, <4>1 DEF HubInv, ReaderCloses
      <4> QED  BY <1>2, <2>2, <3>2, <4>1, <4>2
    <3> QED  BY <3>1, <3>2
  <2>3. CASE ~ (d = c /\ g = "reader")
    <3>1. proc'[d]["reader"] = proc[d]["reader"] /\ d \in subscribers[x]
      BY <1>1, <1>6, <1>15, <2>1, <2>3
    <3> QED  BY <3>1 DEF HubInv, LeftIsGone
  <2> QED  BY <2>2, <2>3
<1> QED  BY <1>9, <1>10, <1>14, <1>16, <1>17

LEMMA CommonGhosts ==
    ASSUME HubInv, NEW c \in Clients, NEW g \in Goroutines, CommonStep(c, g)
    PROVE  WriterCloses' /\ Listed' /\ ReaderCloses' /\ LeftIsGone' /\ Served'
<1>1. TypeOK  BY DEF HubInv
<1>2. g = "writer" /\ proc[c][g].pc \in {"mu", "lock", "announced"} => proc[c][g].op = "close"
  BY DEF HubInv, WriterCloses
<1>3. CASE TakeMu(c, g)
  <2>1. PICK op, todo : /\ op = proc[c][g].op
                        /\ todo = CASE op = "close" -> channels[c]
                                    [] op = "sub"   -> proc[c][g].todo \ channels[c]
                                    [] op = "unsub" -> proc[c][g].todo
    OBVIOUS
  <2>2. PICK st : st = IF todo = {} THEN AfterOp(g, op, None, FALSE)
                       ELSE [pc |-> "lock", op |-> op, todo |-> todo]
    OBVIOUS
  <2>3. /\ proc[c][g].pc = "mu" /\ Becomes(c, g, st)
        /\ UNCHANGED <<subscribers, channels, pub>>
    BY <1>3, <2>1, <2>2 DEF TakeMu, hub
  <2>4. op \in Ops  BY <1>1, <2>1, <2>3, ProcFields
  <2>5. todo = {} => /\ op = "close" => st.pc = "leave"
                     /\ op # "close" => st.pc \in {"load", "mark", "read", "select"}
    BY <2>2, <2>4 DEF AfterOp, Resting, Ops
  <2>6. todo # {} => st.pc = "lock" /\ st.op = op /\ st.todo = todo  BY <2>2
  <2>7. op = "close" => \A ch \in Channels : c \in subscribers[ch] => ch \in todo
    BY <2>1 DEF HubInv, Listed
  <2> QED  BY <1>2, <2>1, <2>3, <2>5, <2>6, <2>7, QuietGhosts
<1>4. CASE Announce(c, g)
  <2>1. PICK st : st = [proc[c][g] EXCEPT !.pc = "announced"]  OBVIOUS
  <2>2. /\ proc[c][g].pc = "lock" /\ Becomes(c, g, st)
        /\ UNCHANGED <<subscribers, channels, pub>>
    BY <1>4, <2>1 DEF Announce, hub
  <2>3. st.pc = "announced" /\ st.op = proc[c][g].op /\ st.todo = proc[c][g].todo
    <3>1. proc[c][g] \in [pc : {"mu", "lock", "announced"}, op : Ops, todo : SUBSET Channels]
      BY <1>1, <2>2, ProcFields DEF ProcStates
    <3> QED  BY <2>1, <3>1
  <2>4. g = "reader" /\ st.op = "close" => \A ch \in Channels : c \in subscribers[ch] => ch \in st.todo
    BY <2>2, <2>3 DEF HubInv, ReaderCloses
  <2> QED  BY <1>2, <2>2, <2>3, <2>4, QuietGhosts
<1>5. CASE Leave(c, g)
  <2>1. PICK st : st = [pc |-> "end"]  OBVIOUS
  <2>2. /\ proc[c][g].pc = "leave" /\ Becomes(c, g, st) /\ st.pc = "end"
        /\ UNCHANGED <<subscribers, channels, pub>>
    BY <1>5, <2>1 DEF Leave, hub
  <2>3. g = "reader" => \A ch \in Channels : c \notin subscribers[ch]
    BY <2>2 DEF HubInv, LeftIsGone
  <2> QED  BY <2>2, <2>3, QuietGhosts
<1>6. ASSUME NEW ch \in Channels, WithLock(c, g, ch)
      PROVE  WriterCloses' /\ Listed' /\ ReaderCloses' /\ LeftIsGone' /\ Served'
  BY <1>6, WithLockGhosts
<1> QED  BY <1>3, <1>4, <1>5, <1>6 DEF CommonStep

LEMMA ClientGhosts ==
    ASSUME HubInv, NEW c \in Clients,
           \/ \E op \in {"sub", "unsub"}, ch \in Channels : Request(c, op, ch)
           \/ ReadFails(c) \/ WriteFails(c) \/ LoadTicker(c) \/ SendTicker(c) \/ SendMarker(c)
           \/ TakeMessage(c) \/ ForwardChange(c) \/ WriteMessage(c)
    PROVE  WriterCloses' /\ Listed' /\ ReaderCloses' /\ LeftIsGone' /\ Served'
<1>1. "reader" \in Goroutines /\ "writer" \in Goroutines  BY DEF Goroutines
<1>2. UNCHANGED <<subscribers, channels, pub>>
  BY DEF Request, ReadFails, WriteFails, LoadTicker, SendTicker, SendMarker,
         TakeMessage, ForwardChange, WriteMessage, hub
<1>3. ASSUME NEW op \in {"sub", "unsub"}, NEW ch \in Channels, Request(c, op, ch)
      PROVE  \E st : Becomes(c, "reader", st) /\ st.pc = "mu"
  BY <1>3 DEF Request, Wants
<1>4. ReadFails(c) => \E st : Becomes(c, "reader", st) /\ st.pc = "mu"
  BY DEF ReadFails, Wants
<1>5. WriteFails(c) => \E st : Becomes(c, "writer", st) /\ st.pc = "mu" /\ st.op = "close"
  BY DEF WriteFails, Wants
<1>6. LoadTicker(c) \/ SendTicker(c) \/ SendMarker(c) =>
        \E st : Becomes(c, "reader", st) /\ st.pc \in {"read", "send"}
  BY DEF LoadTicker, SendTicker, SendMarker, Resting
<1>7. TakeMessage(c) \/ ForwardChange(c) \/ WriteMessage(c) =>
        \E st : Becomes(c, "writer", st) /\ st.pc \in {"select", "forward", "write"}
  BY DEF TakeMessage, ForwardChange, WriteMessage, Resting
<1>8. ASSUME NEW st, Becomes(c, "reader", st), st.pc \in {"mu", "read", "send"}
      PROVE  WriterCloses' /\ Listed' /\ ReaderCloses' /\ LeftIsGone' /\ Served'
  BY <1>1, <1>2, <1>8, QuietGhosts
<1>9. ASSUME NEW st, Becomes(c, "writer", st), st.pc \in {"mu", "select", "forward", "write"},
             st.pc = "mu" => st.op = "close"
      PROVE  WriterCloses' /\ Listed' /\ ReaderCloses' /\ LeftIsGone' /\ Served'
  BY <1>1, <1>2, <1>9, QuietGhosts
<1> QED  BY <1>3, <1>4, <1>5, <1>6, <1>7, <1>8, <1>9

LEMMA NextHubInv == HubInv /\ [Next]_vars => HubInv'
<1> SUFFICES ASSUME HubInv, [Next]_vars PROVE HubInv'
  OBVIOUS
<1>1. TypeOK'  BY NextTypeOK DEF HubInv
<1> SUFFICES WriterCloses' /\ Listed' /\ ReaderCloses' /\ LeftIsGone' /\ Served'
  BY <1>1 DEF HubInv
<1>2. ASSUME NEW p \in Publishers, NEW msg, Publish(p, msg)
      PROVE  WriterCloses' /\ Listed' /\ ReaderCloses' /\ LeftIsGone' /\ Served'
  <2>1. PICK st : st = [pc |-> "rlock", msg |-> msg]  OBVIOUS
  <2>2. /\ UNCHANGED <<subscribers, channels, proc>> /\ pub' = [pub EXCEPT ![p] = st]
        /\ st.pc # "visit"
    BY <1>2, <2>1 DEF Publish, client
  <2> QED  BY <2>2, PublishGhosts
<1>3. CASE \E p \in Streams \cup {Level2} : StreamMessage(p)
  BY <1>2, <1>3 DEF StreamMessage, Publishers
<1>4. CASE NewTicker \/ SameTicker
  BY <1>2, <1>4 DEF NewTicker, SameTicker, Publishers
<1>5. CASE \E p \in Publishers : PublishStep(p)  BY <1>5, PublishStepGhosts
<1>6. CASE \E c \in Clients, g \in Goroutines : CommonStep(c, g)  BY <1>6, CommonGhosts
<1>7. ASSUME NEW c \in Clients,
             \/ \E op \in {"sub", "unsub"}, ch \in Channels : Request(c, op, ch)
             \/ ReadFails(c) \/ WriteFails(c) \/ LoadTicker(c) \/ SendTicker(c) \/ SendMarker(c)
             \/ TakeMessage(c) \/ ForwardChange(c) \/ WriteMessage(c)
      PROVE  WriterCloses' /\ Listed' /\ ReaderCloses' /\ LeftIsGone' /\ Served'
  BY <1>7, ClientGhosts
<1>8. CASE UNCHANGED vars
  BY <1>8 DEF vars, hub, client, HubInv, WriterCloses, Listed, ReaderCloses, LeftIsGone, Served
<1>9. ASSUME NEW c \in Clients, L2Step(c)
      PROVE  WriterCloses' /\ Listed' /\ ReaderCloses' /\ LeftIsGone' /\ Served'
  <2>1. UNCHANGED <<subscribers, channels, pub, proc>>
    BY <1>9 DEF L2Step, TakeChange, PushMessage, PushMarker, EndL2, hub
  <2> QED  BY <2>1 DEF HubInv, WriterCloses, Listed, ReaderCloses, LeftIsGone, Served
<1> QED  BY <1>3, <1>4, <1>5, <1>6, <1>7, <1>8, <1>9 DEF Next, ReaderStep, WriterStep, Goroutines

LEMMA InitHubInv == Init => HubInv
<1> SUFFICES ASSUME Init PROVE HubInv
  OBVIOUS
<1>1. TypeOK
  <2>1. Idle \in PubStates /\ \A g \in Goroutines : Resting(g) \in ProcStates
    BY DEF Idle, PubStates, Resting, ProcStates
  <2>2. << >> \in Seq(Message) /\ Len(<< >>) = 0 /\ WriteCap \in Nat  BY PushHubAssumption
  <2>3. writeCh \in [Clients -> Seq(Message)] /\ \A c \in Clients : Len(writeCh[c]) <= WriteCap
    BY <2>2 DEF Init
  <2>4. proc \in [Clients -> [Goroutines -> ProcStates]] /\ pub \in [Publishers -> PubStates]
    BY <2>1 DEF Init
  <2>5. /\ sent \in 0 .. MaxMessages /\ requests \in 0 .. MaxRequests
        /\ price \in [Objects -> 0 .. MaxMessages] /\ shown \in [Clients -> 0 .. MaxMessages]
    BY PushHubAssumption DEF Init
  <2>6. << >> \in Seq(Changes) /\ L2Cap \in Nat /\ "select" \in L2States  BY PushHubAssumption DEF L2States
  <2>7. /\ l2ChangeCh \in [Clients -> Seq(Changes)] /\ l2 \in [Clients -> L2States]
        /\ \A c \in Clients : Len(l2ChangeCh[c]) <= L2Cap
    BY <2>2, <2>6 DEF Init
  <2> QED  BY <2>3, <2>4, <2>5, <2>7 DEF Init, TypeOK
<1>2. Listed /\ LeftIsGone  BY DEF Init, Listed, LeftIsGone
<1>3. Served  BY DEF Init, Served, Idle
<1>4. \A c \in Clients : proc[c]["reader"].pc = "read" /\ proc[c]["writer"].pc = "select"
  BY DEF Init, Goroutines, Resting
<1>5. WriterCloses /\ ReaderCloses  BY <1>4 DEF WriterCloses, ReaderCloses
<1> QED  BY <1>1, <1>2, <1>3, <1>5 DEF HubInv

\* Whatever clients ask for and however they end, every value of the hub has
\* its type, and no channel holds more than its capacity: publish, onSub and
\* runWriter share it.
THEOREM HubTypeOK == Spec => []TypeOK
<1>1. Init => TypeOK  BY InitHubInv DEF HubInv
<1> QED  BY <1>1, NextTypeOK, PTL DEF Spec

\* No subscription outlives its client (Client.close, subscription.go): with
\* two goroutines that close at any time, a subscribe between them and a
\* publish under way, a subscriber is always one whose reader is there.
THEOREM HubNoGhosts == Spec => []NoGhosts
<1>1. HubInv => NoGhosts  BY DEF HubInv, Listed, LeftIsGone, Served, NoGhosts
<1> QED  BY <1>1, InitHubInv, NextHubInv, PTL DEF Spec
-----------------------------------------------------------------------------
(* Tickers are shown in order.                                             *)

\* Tickers are numbered in the order they were made, and show no more than
\* what was sent; a newer one shows no less than an older one.
PricesRise ==
    /\ \A o \in Objects : price[o] <= sent
    /\ \A a, b \in Objects : a <= b /\ b <= lastTicker => price[a] <= price[b]

\* What a stream publishes: the ticker stream always the last ticker, for
\* there is no other until its publish has returned.
PublishesLast ==
    \A p \in Publishers : pub[p].pc # "idle" =>
        /\ pub[p].msg.from = p
        /\ IF p = Ticker THEN lastTicker # 0 /\ pub[p].msg.ticker = lastTicker
                         ELSE pub[p].msg.ticker = 0

Known(m) ==
    /\ m.ticker <= lastTicker
    /\ m.from \in Streams \cup {Level2, "l2"} => m.ticker = 0
    /\ m.from = Ticker => m.ticker # 0

\* Every message on its way is of a ticker made, and the one onSub sends is
\* marked so.
InFlight ==
    \A c \in Clients :
        /\ \A i \in 1 .. Len(writeCh[c]) : Known(writeCh[c][i])
        /\ proc[c]["writer"].pc = "write" => Known(proc[c]["writer"].msg)
        /\ proc[c]["reader"].pc = "send" => Known(proc[c]["reader"].msg)
                                            /\ proc[c]["reader"].msg.from = "sub"

\* In a client's channel, no ticker of the stream is behind a newer one, and
\* none is older than the one being written.
Ascending ==
    \A c \in Clients : \A j \in 1 .. Len(writeCh[c]) : writeCh[c][j].from = Ticker =>
        /\ \A i \in 1 .. j : writeCh[c][i].ticker <= writeCh[c][j].ticker
        /\ proc[c]["writer"].pc = "write" => proc[c]["writer"].msg.ticker <= writeCh[c][j].ticker

\* What a client was shown is no newer than the last ticker, and than any of
\* the stream's that is on its way to the client.
ShownBefore ==
    \A c \in Clients :
        /\ shown[c] <= sent
        /\ lastTicker # 0 => shown[c] <= price[lastTicker]
        /\ \A j \in 1 .. Len(writeCh[c]) :
              writeCh[c][j].from = Ticker => shown[c] <= price[writeCh[c][j].ticker]
        /\ proc[c]["writer"].pc = "write" /\ proc[c]["writer"].msg.from = Ticker =>
              shown[c] <= price[proc[c]["writer"].msg.ticker]

TickerInv == PricesRise /\ PublishesLast /\ InFlight /\ Ascending /\ ShownBefore

\* Messages and numbers, by TypeOK.
LEMMA TickerNumbers ==
    ASSUME TypeOK
    PROVE  /\ lastTicker \in Nat /\ sent \in Nat /\ (lastTicker # 0 => lastTicker \in Objects)
           /\ \A o \in Objects : o \in Nat /\ o > 0 /\ price[o] \in Nat
           /\ \A m \in Message : m.ticker \in Nat /\ (m.ticker # 0 => m.ticker \in Objects)
           /\ \A c \in Clients : /\ shown[c] \in Nat /\ Len(writeCh[c]) \in Nat
                                 /\ \A i \in 1 .. Len(writeCh[c]) : writeCh[c][i] \in Message
           /\ \A c \in Clients : /\ proc[c]["writer"].pc = "write" => proc[c]["writer"].msg \in Message
                                 /\ proc[c]["reader"].pc = "send" => proc[c]["reader"].msg \in Message
<1>1. MaxMessages \in Nat  BY PushHubAssumption
<1>2. lastTicker \in Nat /\ sent \in Nat /\ (lastTicker # 0 => lastTicker \in Objects)
  BY <1>1 DEF TypeOK, Objects
<1>3. \A o \in Objects : o \in Nat /\ o > 0 /\ price[o] \in Nat  BY <1>1 DEF TypeOK, Objects
<1>4. \A m \in Message : m.ticker \in Nat /\ (m.ticker # 0 => m.ticker \in Objects)
  BY <1>1 DEF Message, Objects
<1>5. ASSUME NEW c \in Clients
      PROVE  /\ shown[c] \in Nat /\ Len(writeCh[c]) \in Nat
             /\ \A i \in 1 .. Len(writeCh[c]) : writeCh[c][i] \in Message
  <2>1. writeCh[c] \in Seq(Message)  BY DEF TypeOK
  <2>2. shown[c] \in Nat  BY <1>1 DEF TypeOK
  <2> QED  BY <2>1, <2>2
<1>6. "reader" \in Goroutines /\ "writer" \in Goroutines  BY DEF Goroutines
<1> QED  BY <1>2, <1>3, <1>4, <1>5, <1>6, ProcFields

\* A goroutine goes on to something else than a message.
LEMMA QuietTickers ==
    ASSUME TypeOK, TickerInv, NEW c \in Clients, NEW g \in Goroutines, NEW st, Becomes(c, g, st),
           st.pc \notin {"send", "write"},
           UNCHANGED <<pub, sent, lastTicker, price, writeCh, shown>>
    PROVE  TickerInv'
<1>1. "reader" \in Goroutines /\ "writer" \in Goroutines  BY DEF Goroutines
<1>2. \A d \in Clients, h \in Goroutines :
        proc'[d][h].pc \in {"send", "write"} => proc'[d][h] = proc[d][h]
  BY BecomesEffect
<1>3. PricesRise' /\ PublishesLast'  BY DEF TickerInv, PricesRise, PublishesLast
<1>4. InFlight'  BY <1>1, <1>2 DEF TickerInv, InFlight, Known
<1>5. Ascending'  BY <1>1, <1>2 DEF TickerInv, Ascending
<1>6. ShownBefore'  BY <1>1, <1>2 DEF TickerInv, ShownBefore
<1> QED  BY <1>3, <1>4, <1>5, <1>6 DEF TickerInv

\* publish, of a message that it has already or of one that a stream made.
LEMMA PubTickers ==
    ASSUME TypeOK, NEW p \in Publishers, NEW st, pub' = [pub EXCEPT ![p] = st],
           PublishesLast, UNCHANGED lastTicker,
           st.pc # "idle" => /\ st.msg.from = p
                             /\ IF p = Ticker THEN lastTicker # 0 /\ st.msg.ticker = lastTicker
                                              ELSE st.msg.ticker = 0
    PROVE  PublishesLast'
<1> SUFFICES ASSUME NEW q \in Publishers, pub'[q].pc # "idle"
             PROVE  /\ pub'[q].msg.from = q
                    /\ IF q = Ticker THEN lastTicker # 0 /\ pub'[q].msg.ticker = lastTicker
                                     ELSE pub'[q].msg.ticker = 0
  BY DEF PublishesLast
<1>1. CASE q = p
  <2>1. pub'[q] = st  BY <1>1 DEF TypeOK
  <2> QED  BY <1>1, <2>1
<1>2. CASE q # p
  <2>1. pub'[q] = pub[q]  BY <1>2 DEF TypeOK
  <2> QED  BY <2>1 DEF PublishesLast
<1> QED  BY <1>1, <1>2

\* A message joins a client's channel: a ticker of the stream is the last.
LEMMA AppendTickers ==
    ASSUME TypeOK, TickerInv, NEW c \in Clients, NEW m \in Message, Known(m),
           m.from = Ticker => m.ticker = lastTicker,
           writeCh' = [writeCh EXCEPT ![c] = Append(writeCh[c], m)],
           UNCHANGED <<sent, lastTicker, price, shown>>,
           \A d \in Clients : proc'[d]["writer"] = proc[d]["writer"],
           \A d \in Clients : proc'[d]["reader"].pc = "send" => proc'[d]["reader"] = proc[d]["reader"]
    PROVE  PricesRise' /\ InFlight' /\ Ascending' /\ ShownBefore'
<1>1. PICK n : n = Len(writeCh[c])  OBVIOUS
<1>2. /\ n \in Nat /\ Len(writeCh'[c]) = n + 1
      /\ writeCh'[c][n + 1] = m
      /\ \A i \in 1 .. n : writeCh'[c][i] = writeCh[c][i]
      /\ \A d \in Clients \ {c} : writeCh'[d] = writeCh[d]
  <2>1. writeCh \in [Clients -> Seq(Message)] /\ writeCh[c] \in Seq(Message)  BY DEF TypeOK
  <2>2. writeCh'[c] = Append(writeCh[c], m) /\ \A d \in Clients \ {c} : writeCh'[d] = writeCh[d]
    BY <2>1
  <2> QED  BY <1>1, <2>1, <2>2
<1>3. PricesRise'  BY DEF TickerInv, PricesRise
<1>4. InFlight'
  <2> SUFFICES ASSUME NEW d \in Clients
               PROVE  /\ \A i \in 1 .. Len(writeCh'[d]) : Known(writeCh'[d][i])
                      /\ proc[d]["writer"].pc = "write" => Known(proc[d]["writer"].msg)
                      /\ proc'[d]["reader"].pc = "send" => Known(proc'[d]["reader"].msg)
                                                           /\ proc'[d]["reader"].msg.from = "sub"
    BY DEF InFlight, Known
  <2>1. \A i \in 1 .. Len(writeCh'[d]) : Known(writeCh'[d][i])
    <3>1. CASE d # c  BY <1>2, <3>1 DEF TickerInv, InFlight
    <3>2. CASE d = c
      <4> SUFFICES ASSUME NEW i \in 1 .. n + 1 PROVE Known(writeCh'[c][i])
        BY <1>2, <3>2
      <4>1. CASE i = n + 1  BY <1>2, <4>1
      <4>2. CASE i # n + 1
        <5>1. i \in 1 .. n  BY <1>2, <4>2
        <5> QED  BY <1>1, <1>2, <5>1 DEF TickerInv, InFlight
      <4> QED  BY <4>1, <4>2
    <3> QED  BY <3>1, <3>2
  <2> QED  BY <2>1 DEF TickerInv, InFlight
<1>5. Ascending'
  <2> SUFFICES ASSUME NEW d \in Clients, NEW j \in 1 .. Len(writeCh'[d]), writeCh'[d][j].from = Ticker
               PROVE  /\ \A i \in 1 .. j : writeCh'[d][i].ticker <= writeCh'[d][j].ticker
                      /\ proc[d]["writer"].pc = "write" =>
                            proc[d]["writer"].msg.ticker <= writeCh'[d][j].ticker
    BY DEF Ascending
  <2>1. CASE d # c  BY <1>2, <2>1 DEF TickerInv, Ascending
  <2>2. CASE d = c /\ j \in 1 .. n
    <3>1. \A i \in 1 .. j : i \in 1 .. n  BY <1>2, <2>2
    <3> QED  BY <1>1, <1>2, <2>2, <3>1 DEF TickerInv, Ascending
  <2>3. CASE d = c /\ j = n + 1
    <3>1. writeCh'[d][j].ticker = lastTicker  BY <1>2, <2>3
    <3>2. proc[c]["writer"].pc = "write" => proc[c]["writer"].msg.ticker <= lastTicker
      BY DEF TickerInv, InFlight, Known
    <3>3. ASSUME NEW i \in 1 .. j PROVE writeCh'[d][i].ticker <= lastTicker
      <4>1. CASE i = n + 1  BY <1>2, <2>3, <4>1 DEF Known
      <4>2. CASE i # n + 1
        <5>1. i \in 1 .. n  BY <1>2, <2>3, <4>2
        <5> QED  BY <1>1, <1>2, <2>3, <5>1 DEF TickerInv, InFlight, Known
      <4> QED  BY <4>1, <4>2
    <3> QED  BY <2>3, <3>1, <3>2, <3>3
  <2>4. d = c => j \in 1 .. n \/ j = n + 1  BY <1>2
  <2> QED  BY <2>1, <2>2, <2>3, <2>4
<1>6. ShownBefore'
  <2> SUFFICES ASSUME NEW d \in Clients, NEW j \in 1 .. Len(writeCh'[d]), writeCh'[d][j].from = Ticker
               PROVE  shown[d] <= price[writeCh'[d][j].ticker]
    BY DEF TickerInv, ShownBefore
  <2>1. CASE d # c  BY <1>2, <2>1 DEF TickerInv, ShownBefore
  <2>2. CASE d = c /\ j \in 1 .. n  BY <1>1, <1>2, <2>2 DEF TickerInv, ShownBefore
  <2>3. CASE d = c /\ j = n + 1
    <3>1. writeCh'[d][j].ticker = lastTicker /\ lastTicker # 0  BY <1>2, <2>3 DEF Known
    <3> QED  BY <3>1 DEF TickerInv, ShownBefore
  <2>4. d = c => j \in 1 .. n \/ j = n + 1  BY <1>2
  <2> QED  BY <2>1, <2>2, <2>3, <2>4
<1> QED  BY <1>3, <1>4, <1>5, <1>6

\* TickerStream.OnMatchLog, between publishes: the new ticker, or the last
\* one with a new price, is ahead of all others.
LEMMA NewTickers ==
    ASSUME TypeOK, TickerInv, NewTicker \/ SameTicker PROVE TickerInv'
<1>1. PICK o : o = lastTicker'  OBVIOUS
<1>2. /\ o \in Objects /\ Publish(Ticker, [from |-> Ticker, ticker |-> o])
      /\ price' = [price EXCEPT ![o] = sent + 1]
      /\ o = lastTicker \/ o = lastTicker + 1
  BY <1>1, TickerTypes
<1>3. /\ sent' = sent + 1 /\ pub[Ticker] = Idle
      /\ pub' = [pub EXCEPT ![Ticker] = [pc |-> "rlock", msg |-> [from |-> Ticker, ticker |-> o]]]
      /\ UNCHANGED <<writeCh, proc, shown>>
  BY <1>2 DEF Publish, client
<1>4. /\ lastTicker \in Nat /\ sent \in Nat /\ o \in Nat /\ o > 0 /\ o >= lastTicker
      /\ \A a \in Objects : a \in Nat /\ price[a] \in Nat /\ price[a] <= sent
      /\ price'[o] = sent + 1 /\ \A a \in Objects \ {o} : price'[a] = price[a]
  BY <1>2, TickerNumbers DEF TypeOK, TickerInv, PricesRise
<1>5. \A a \in Objects : price'[a] >= price[a] /\ price'[a] <= sent + 1  BY <1>4
<1>6. PricesRise'
  <2>1. ASSUME NEW a \in Objects, NEW b \in Objects, a <= b, b <= o PROVE price'[a] <= price'[b]
    <3>1. CASE b = o  BY <1>4, <1>5, <3>1
    <3>2. CASE b # o
      <4>1. b <= lastTicker /\ a # o  BY <1>2, <1>4, <2>1, <3>2
      <4> QED  BY <1>4, <2>1, <3>2, <4>1 DEF TickerInv, PricesRise
    <3> QED  BY <3>1, <3>2
  <2> QED  BY <1>1, <1>3, <1>5, <2>1 DEF PricesRise
<1>7. PublishesLast'
  <2>1. \A q \in Publishers \ {Ticker} : pub'[q] = pub[q]  BY <1>3 DEF TypeOK
  <2>2. pub'[Ticker] = [pc |-> "rlock", msg |-> [from |-> Ticker, ticker |-> o]]
    BY <1>3 DEF TypeOK, Publishers
  <2> QED  BY <1>1, <1>4, <2>1, <2>2 DEF TickerInv, PublishesLast
<1>8. ASSUME NEW m \in Message, Known(m) PROVE Known(m)'
  BY <1>1, <1>4, <1>8, TickerNumbers DEF Known
<1>9. InFlight'
  <2> SUFFICES ASSUME NEW c \in Clients
               PROVE  /\ \A i \in 1 .. Len(writeCh[c]) : Known(writeCh[c][i])'
                      /\ proc[c]["writer"].pc = "write" => Known(proc[c]["writer"].msg)'
                      /\ proc[c]["reader"].pc = "send" => Known(proc[c]["reader"].msg)'
                                                          /\ proc[c]["reader"].msg.from = "sub"
    BY <1>3 DEF InFlight, Known
  <2>1. ASSUME NEW i \in 1 .. Len(writeCh[c]) PROVE Known(writeCh[c][i])'
    <3>1. PICK m : m = writeCh[c][i]  OBVIOUS
    <3>2. m \in Message /\ Known(m)  BY <3>1, TickerNumbers DEF TickerInv, InFlight
    <3>3. Known(m)'  BY <1>8, <3>2
    <3>4. m = writeCh'[c][i]  BY <1>3, <3>1
    <3> QED  BY <3>3, <3>4 DEF Known
  <2>2. ASSUME proc[c]["writer"].pc = "write" PROVE Known(proc[c]["writer"].msg)'
    <3>1. PICK m : m = proc[c]["writer"].msg  OBVIOUS
    <3>2. m \in Message /\ Known(m)  BY <2>2, <3>1, TickerNumbers DEF TickerInv, InFlight
    <3>3. Known(m)'  BY <1>8, <3>2
    <3> QED  BY <1>3, <3>1, <3>3 DEF Known
  <2>3. ASSUME proc[c]["reader"].pc = "send"
        PROVE  Known(proc[c]["reader"].msg)' /\ proc[c]["reader"].msg.from = "sub"
    <3>1. PICK m : m = proc[c]["reader"].msg  OBVIOUS
    <3>2. m \in Message /\ Known(m) /\ m.from = "sub"
      BY <2>3, <3>1, TickerNumbers DEF TickerInv, InFlight
    <3>3. Known(m)'  BY <1>8, <3>2
    <3> QED  BY <1>3, <3>1, <3>2, <3>3 DEF Known
  <2> QED  BY <2>1, <2>2, <2>3
<1>10. Ascending'  BY <1>3 DEF TickerInv, Ascending
<1>11. ShownBefore'
  <2> SUFFICES ASSUME NEW c \in Clients
               PROVE  /\ shown[c] <= sent + 1 /\ shown[c] <= price'[o]
                      /\ \A j \in 1 .. Len(writeCh[c]) :
                            writeCh[c][j].from = Ticker => shown[c] <= price'[writeCh[c][j].ticker]
                      /\ proc[c]["writer"].pc = "write" /\ proc[c]["writer"].msg.from = Ticker =>
                            shown[c] <= price'[proc[c]["writer"].msg.ticker]
    BY <1>1, <1>3 DEF ShownBefore
  <2>1. shown[c] \in Nat /\ shown[c] <= sent  BY TickerNumbers DEF TickerInv, ShownBefore
  <2>2. ASSUME NEW a \in Objects, shown[c] <= price[a] PROVE shown[c] <= price'[a]
    BY <1>4, <1>5, <2>1, <2>2
  <2>3. ASSUME NEW j \in 1 .. Len(writeCh[c]), writeCh[c][j].from = Ticker
        PROVE  shown[c] <= price'[writeCh[c][j].ticker]
    <3>1. writeCh[c][j].ticker \in Objects
      BY <2>3, TickerNumbers DEF TickerInv, InFlight, Known
    <3> QED  BY <2>2, <2>3, <3>1 DEF TickerInv, ShownBefore
  <2>4. ASSUME proc[c]["writer"].pc = "write", proc[c]["writer"].msg.from = Ticker
        PROVE  shown[c] <= price'[proc[c]["writer"].msg.ticker]
    <3>1. proc[c]["writer"].msg.ticker \in Objects
      BY <2>4, TickerNumbers DEF TickerInv, InFlight, Known
    <3> QED  BY <2>2, <2>4, <3>1 DEF TickerInv, ShownBefore
  <2> QED  BY <1>4, <2>1, <2>3, <2>4
<1> QED  BY <1>6, <1>7, <1>9, <1>10, <1>11 DEF TickerInv

LEMMA PublishStepTickers ==
    ASSUME TypeOK, TickerInv, NEW p \in Publishers, PublishStep(p) PROVE TickerInv'
<1>1. UNCHANGED <<sent, lastTicker, price, proc, shown>>
  BY DEF PublishStep, PublishBegin, PublishVisit, PublishSend, client
<1>2. pub[p].pc # "idle" => /\ pub[p].msg.from = p
                            /\ IF p = Ticker THEN lastTicker # 0 /\ pub[p].msg.ticker = lastTicker
                                             ELSE pub[p].msg.ticker = 0
  BY DEF TickerInv, PublishesLast
<1>3. ASSUME NEW rest, NEW to, pub[p].pc # "idle",
             pub' = [pub EXCEPT ![p] = Visiting(pub[p].msg, rest, to)]
      PROVE  PublishesLast'
  <2>1. PICK st : st = Visiting(pub[p].msg, rest, to)  OBVIOUS
  <2>2. st.pc # "idle" => st.msg = pub[p].msg  BY <2>1 DEF Visiting, Idle
  <2>3. st.pc # "idle" => /\ st.msg.from = p
                          /\ IF p = Ticker THEN lastTicker # 0 /\ st.msg.ticker = lastTicker
                                           ELSE st.msg.ticker = 0
    BY <1>2, <1>3, <2>2
  <2>4. pub' = [pub EXCEPT ![p] = st] /\ PublishesLast /\ UNCHANGED lastTicker
    BY <1>1, <1>3, <2>1 DEF TickerInv
  <2> QED  BY <2>3, <2>4, PubTickers
<1>4. CASE PublishSend(p)
  <2>1. pub[p].pc = "visit" /\ pub[p].to # None
        /\ writeCh' = [writeCh EXCEPT ![pub[p].to] = Append(writeCh[pub[p].to], pub[p].msg)]
        /\ pub' = [pub EXCEPT ![p] = Visiting(pub[p].msg, pub[p].rest, None)]
    BY <1>4 DEF PublishSend
  <2>2. pub[p].to \in Clients /\ pub[p].msg \in Message  BY <2>1, PubFields
  <2>3. Known(pub[p].msg) /\ (pub[p].msg.from = Ticker => pub[p].msg.ticker = lastTicker)
    BY <1>2, <2>1, TickerNumbers, PushHubAssumption DEF Known, Publishers
  <2>4. PublishesLast'  BY <1>3, <2>1
  <2>5. PricesRise' /\ InFlight' /\ Ascending' /\ ShownBefore'
    BY <1>1, <2>1, <2>2, <2>3, AppendTickers
  <2> QED  BY <2>4, <2>5 DEF TickerInv
<1>5. CASE ~ PublishSend(p)
  <2>1. writeCh' = writeCh /\ pub[p].pc # "idle"
        /\ \E rest, to : pub' = [pub EXCEPT ![p] = Visiting(pub[p].msg, rest, to)]
    BY <1>5 DEF PublishStep, PublishBegin, PublishVisit, client
  <2>2. PublishesLast'  BY <1>3, <2>1
  <2> QED  BY <1>1, <2>1, <2>2
           DEF TickerInv, PricesRise, InFlight, Known, Ascending, ShownBefore
<1> QED  BY <1>4, <1>5

\* onSub: the last ticker is loaded, and sent when there is room.
LEMMA OnSubTickers ==
    ASSUME TypeOK, TickerInv, NEW c \in Clients, LoadTicker(c) \/ SendTicker(c) PROVE TickerInv'
<1>1. "reader" \in Goroutines /\ "writer" \in Goroutines  BY DEF Goroutines
<1>2. CASE LoadTicker(c)
  <2>1. UNCHANGED <<pub, sent, lastTicker, price, writeCh, shown>>  BY <1>2 DEF LoadTicker, hub
  <2>2. PICK m : m = [from |-> "sub", ticker |-> lastTicker]  OBVIOUS
  <2>3. CASE lastTicker = 0
    <3>1. Becomes(c, "reader", Resting("reader")) /\ Resting("reader").pc = "read"
      BY <1>2, <2>3 DEF LoadTicker, Resting
    <3> QED  BY <1>1, <2>1, <3>1, QuietTickers
  <2>4. CASE lastTicker # 0
    <3>1. PICK st : st = [pc |-> "send", msg |-> m]  OBVIOUS
    <3>2. Becomes(c, "reader", st)  BY <1>2, <2>2, <2>4, <3>1 DEF LoadTicker
    <3>3. /\ proc'[c]["reader"] = st
          /\ \A d \in Clients : proc'[d]["writer"] = proc[d]["writer"]
          /\ \A d \in Clients \ {c} : proc'[d]["reader"] = proc[d]["reader"]
      BY <1>1, <3>2, BecomesEffect
    <3>4. Known(m) /\ m.from = "sub"
      BY <2>2, TickerNumbers, PushHubAssumption DEF Known, Publishers
    <3>5. InFlight'
      <4> SUFFICES ASSUME NEW d \in Clients
                   PROVE  /\ \A i \in 1 .. Len(writeCh[d]) : Known(writeCh[d][i])
                          /\ proc[d]["writer"].pc = "write" => Known(proc[d]["writer"].msg)
                          /\ proc'[d]["reader"].pc = "send" => Known(proc'[d]["reader"].msg)
                                                               /\ proc'[d]["reader"].msg.from = "sub"
        BY <2>1, <3>3 DEF InFlight, Known
      <4>1. CASE d = c  BY <3>1, <3>3, <3>4, <4>1 DEF TickerInv, InFlight
      <4>2. CASE d # c  BY <3>3, <4>2 DEF TickerInv, InFlight
      <4> QED  BY <4>1, <4>2
    <3> QED  BY <2>1, <3>3, <3>5
             DEF TickerInv, PricesRise, PublishesLast, Ascending, ShownBefore
  <2> QED  BY <2>3, <2>4
<1>3. CASE SendTicker(c)
  <2>1. /\ proc[c]["reader"].pc = "send" /\ Becomes(c, "reader", Resting("reader"))
        /\ writeCh' = [writeCh EXCEPT ![c] = Append(writeCh[c], proc[c]["reader"].msg)]
        /\ UNCHANGED <<pub, sent, lastTicker, price, shown>>
    BY <1>3 DEF SendTicker, hub
  <2>2. /\ proc'[c]["reader"].pc = "read"
        /\ \A d \in Clients : proc'[d]["writer"] = proc[d]["writer"]
        /\ \A d \in Clients \ {c} : proc'[d]["reader"] = proc[d]["reader"]
    BY <1>1, <2>1, BecomesEffect DEF Resting
  <2>3. /\ proc[c]["reader"].msg \in Message /\ Known(proc[c]["reader"].msg)
        /\ proc[c]["reader"].msg.from # Ticker
    BY <1>1, <2>1, ProcFields, PushHubAssumption DEF TickerInv, InFlight, Publishers
  <2>4. PricesRise' /\ InFlight' /\ Ascending' /\ ShownBefore'
    BY <2>1, <2>2, <2>3, AppendTickers
  <2> QED  BY <2>1, <2>4 DEF TickerInv, PublishesLast
<1> QED  BY <1>2, <1>3

\* runWriter takes the oldest message.
LEMMA TakeTickers ==
    ASSUME TypeOK, TickerInv, NEW c \in Clients, TakeMessage(c) PROVE TickerInv'
<1>1. "reader" \in Goroutines /\ "writer" \in Goroutines  BY DEF Goroutines
<1>2. PICK m, n : m = Head(writeCh[c]) /\ n = Len(writeCh[c])  OBVIOUS
<1>0. PICK st : st = IF m.from = Level2 THEN [pc |-> "forward"] ELSE [pc |-> "write", msg |-> m]  OBVIOUS
<1>3. /\ writeCh[c] # << >> /\ Becomes(c, "writer", st)
      /\ writeCh' = [writeCh EXCEPT ![c] = Tail(writeCh[c])]
      /\ UNCHANGED <<pub, sent, lastTicker, price, shown>>
  BY <1>0, <1>2 DEF TakeMessage, hub
<1>4. /\ n \in Nat /\ n > 0 /\ m = writeCh[c][1] /\ Len(writeCh'[c]) = n - 1
      /\ \A i \in 1 .. n - 1 : i \in 1 .. n /\ i + 1 \in 1 .. n /\ writeCh'[c][i] = writeCh[c][i + 1]
      /\ \A d \in Clients \ {c} : writeCh'[d] = writeCh[d]
  <2>1. writeCh \in [Clients -> Seq(Message)] /\ writeCh[c] \in Seq(Message)  BY DEF TypeOK
  <2>2. writeCh'[c] = Tail(writeCh[c]) /\ \A d \in Clients \ {c} : writeCh'[d] = writeCh[d]
    BY <1>3, <2>1
  <2> QED  BY <1>2, <1>3, <2>1, <2>2
<1>5. /\ proc'[c]["writer"].pc = "write" => proc'[c]["writer"].msg = m
      /\ \A d \in Clients : proc'[d]["reader"] = proc[d]["reader"]
      /\ \A d \in Clients \ {c} : proc'[d]["writer"] = proc[d]["writer"]
  BY <1>0, <1>1, <1>3, BecomesEffect
<1>6. 1 \in 1 .. n  BY <1>4
<1>7. PricesRise' /\ PublishesLast'  BY <1>3 DEF TickerInv, PricesRise, PublishesLast
<1>8. InFlight'
  <2> SUFFICES ASSUME NEW d \in Clients
               PROVE  /\ \A i \in 1 .. Len(writeCh'[d]) : Known(writeCh'[d][i])
                      /\ proc'[d]["writer"].pc = "write" => Known(proc'[d]["writer"].msg)
                      /\ proc[d]["reader"].pc = "send" => Known(proc[d]["reader"].msg)
                                                          /\ proc[d]["reader"].msg.from = "sub"
    BY <1>3, <1>5 DEF InFlight, Known
  <2>1. CASE d = c  BY <1>2, <1>4, <1>5, <1>6, <2>1 DEF TickerInv, InFlight
  <2>2. CASE d # c  BY <1>4, <1>5, <2>2 DEF TickerInv, InFlight
  <2> QED  BY <2>1, <2>2
<1>9. Ascending'
  <2> SUFFICES ASSUME NEW d \in Clients, NEW j \in 1 .. Len(writeCh'[d]), writeCh'[d][j].from = Ticker
               PROVE  /\ \A i \in 1 .. j : writeCh'[d][i].ticker <= writeCh'[d][j].ticker
                      /\ proc'[d]["writer"].pc = "write" =>
                            proc'[d]["writer"].msg.ticker <= writeCh'[d][j].ticker
    BY DEF Ascending
  <2>1. CASE d = c
    <3>1. j \in 1 .. n - 1 /\ j + 1 \in 1 .. n /\ writeCh'[c][j] = writeCh[c][j + 1]  BY <1>4, <2>1
    <3>2. \A i \in 1 .. j + 1 : writeCh[c][i].ticker <= writeCh[c][j + 1].ticker
      BY <1>2, <2>1, <3>1 DEF TickerInv, Ascending
    <3>3. ASSUME NEW i \in 1 .. j PROVE writeCh'[c][i].ticker <= writeCh'[c][j].ticker
      <4>1. i \in 1 .. n - 1 /\ i + 1 \in 1 .. j + 1  BY <1>4, <3>1
      <4> QED  BY <1>4, <3>1, <3>2, <4>1
    <3>4. m.ticker <= writeCh'[c][j].ticker
      <4>1. 1 \in 1 .. j + 1  BY <3>1
      <4> QED  BY <1>4, <3>1, <3>2, <4>1
    <3> QED  BY <1>5, <2>1, <3>3, <3>4
  <2>2. CASE d # c  BY <1>4, <1>5, <2>2 DEF TickerInv, Ascending
  <2> QED  BY <2>1, <2>2
<1>10. ShownBefore'
  <2> SUFFICES ASSUME NEW d \in Clients
               PROVE  /\ \A j \in 1 .. Len(writeCh'[d]) :
                            writeCh'[d][j].from = Ticker => shown[d] <= price[writeCh'[d][j].ticker]
                      /\ proc'[d]["writer"].pc = "write" /\ proc'[d]["writer"].msg.from = Ticker =>
                            shown[d] <= price[proc'[d]["writer"].msg.ticker]
    BY <1>3 DEF TickerInv, ShownBefore
  <2>1. CASE d = c
    <3>1. \A j \in 1 .. n : writeCh[c][j].from = Ticker => shown[c] <= price[writeCh[c][j].ticker]
      BY <1>2 DEF TickerInv, ShownBefore
    <3>2. ASSUME NEW j \in 1 .. Len(writeCh'[c]), writeCh'[c][j].from = Ticker
          PROVE  shown[c] <= price[writeCh'[c][j].ticker]
      <4>1. j + 1 \in 1 .. n /\ writeCh'[c][j] = writeCh[c][j + 1]  BY <1>4
      <4> QED  BY <3>1, <3>2, <4>1
    <3>3. m.from = Ticker => shown[c] <= price[m.ticker]  BY <1>4, <1>6, <3>1
    <3> QED  BY <1>5, <2>1, <3>2, <3>3
  <2>2. CASE d # c  BY <1>4, <1>5, <2>2 DEF TickerInv, ShownBefore
  <2> QED  BY <2>1, <2>2
<1> QED  BY <1>7, <1>8, <1>9, <1>10 DEF TickerInv

\* ... and writes it: a ticker of the stream shows no less than the last did.
LEMMA WriteTickers ==
    ASSUME TypeOK, TickerInv, NEW c \in Clients, WriteMessage(c)
    PROVE  /\ TickerInv'
           /\ shown'[c] < shown[c] => proc[c]["writer"].msg.from = "sub"
           /\ \A d \in Clients \ {c} : shown'[d] = shown[d]
<1>1. "reader" \in Goroutines /\ "writer" \in Goroutines  BY DEF Goroutines
<1>2. PICK m : m = proc[c]["writer"].msg  OBVIOUS
<1>3. /\ proc[c]["writer"].pc = "write" /\ Becomes(c, "writer", Resting("writer"))
      /\ shown' = [shown EXCEPT ![c] = IF m.ticker = 0 THEN shown[c] ELSE price[m.ticker]]
      /\ UNCHANGED <<pub, sent, lastTicker, price, writeCh>>
  BY <1>2 DEF WriteMessage, hub
<1>4. /\ proc'[c]["writer"].pc = "select"
      /\ \A d \in Clients : proc'[d]["reader"] = proc[d]["reader"]
      /\ \A d \in Clients \ {c} : proc'[d]["writer"] = proc[d]["writer"]
  BY <1>1, <1>3, BecomesEffect DEF Resting
<1>5. m \in Message /\ Known(m)  BY <1>2, <1>3, TickerNumbers DEF TickerInv, InFlight
<1>6. /\ shown'[c] = (IF m.ticker = 0 THEN shown[c] ELSE price[m.ticker])
      /\ \A d \in Clients \ {c} : shown'[d] = shown[d]
  BY <1>3 DEF TypeOK
<1>7. m.ticker # 0 => m.ticker \in Objects /\ lastTicker \in Objects /\ m.ticker <= lastTicker
  BY <1>5, TickerNumbers DEF Known, Objects
<1>8. shown'[c] < shown[c] => m.from = "sub"
  <2> SUFFICES ASSUME m.from # "sub" PROVE ~ (shown'[c] < shown[c])
    OBVIOUS
  <2>1. shown[c] \in Nat  BY TickerNumbers
  <2>2. m.from \in Publishers \cup {"l2"}  BY <1>5 DEF Message
  <2>3. CASE m.from = Ticker
    <3>1. m.ticker \in Objects /\ m.ticker # 0  BY <1>5, <1>7, <2>3 DEF Known
    <3>2. shown[c] <= price[m.ticker] /\ price[m.ticker] \in Nat
      BY <1>2, <1>3, <2>3, <3>1, TickerNumbers DEF TickerInv, ShownBefore
    <3> QED  BY <1>6, <2>1, <3>1, <3>2
  <2>4. CASE m.from \in Streams \cup {Level2, "l2"}
    <3>1. m.ticker = 0  BY <1>5, <2>4 DEF Known
    <3> QED  BY <1>6, <2>1, <3>1
  <2> QED  BY <2>2, <2>3, <2>4 DEF Publishers
<1>9. PricesRise' /\ PublishesLast'  BY <1>3 DEF TickerInv, PricesRise, PublishesLast
<1>10. InFlight'  BY <1>3, <1>4 DEF TickerInv, InFlight, Known
<1>11. Ascending'  BY <1>3, <1>4 DEF TickerInv, Ascending
<1>12. ShownBefore'
  <2> SUFFICES ASSUME NEW d \in Clients
               PROVE  /\ shown'[d] <= sent /\ (lastTicker # 0 => shown'[d] <= price[lastTicker])
                      /\ \A j \in 1 .. Len(writeCh[d]) :
                            writeCh[d][j].from = Ticker => shown'[d] <= price[writeCh[d][j].ticker]
                      /\ proc'[d]["writer"].pc = "write" /\ proc'[d]["writer"].msg.from = Ticker =>
                            shown'[d] <= price[proc'[d]["writer"].msg.ticker]
    BY <1>3 DEF ShownBefore
  <2>1. CASE d # c \/ m.ticker = 0
    <3>1. shown'[d] = shown[d]  BY <1>6, <2>1
    <3>2. proc'[d]["writer"].pc = "write" => proc'[d]["writer"] = proc[d]["writer"]  BY <1>4
    <3> QED  BY <3>1, <3>2 DEF TickerInv, ShownBefore
  <2>2. CASE d = c /\ m.ticker # 0
    <3>1. shown'[c] = price[m.ticker]  BY <1>6, <2>2
    <3>2. price[m.ticker] <= sent /\ price[m.ticker] <= price[lastTicker]
      <4>1. lastTicker <= lastTicker  BY TickerNumbers
      <4> QED  BY <1>7, <2>2, <4>1 DEF TickerInv, PricesRise
    <3>3. ASSUME NEW j \in 1 .. Len(writeCh[c]), writeCh[c][j].from = Ticker
          PROVE  price[m.ticker] <= price[writeCh[c][j].ticker]
      <4>1. /\ writeCh[c][j].ticker \in Objects /\ writeCh[c][j].ticker <= lastTicker
        BY <3>3, TickerNumbers DEF TickerInv, InFlight, Known
      <4>2. m.ticker <= writeCh[c][j].ticker
        BY <1>2, <1>3, <3>3 DEF TickerInv, Ascending
      <4> QED  BY <1>7, <2>2, <4>1, <4>2 DEF TickerInv, PricesRise
    <3> QED  BY <1>4, <2>2, <3>1, <3>2, <3>3
  <2> QED  BY <2>1, <2>2
<1> QED  BY <1>2, <1>6, <1>8, <1>9, <1>10, <1>11, <1>12 DEF TickerInv

\* What runL2ChangeWriter sends is no ticker.
LEMMA L2Tickers ==
    ASSUME TypeOK, TickerInv, NEW c \in Clients, L2Step(c)
    PROVE  shown' = shown /\ TickerInv'
<1>1. UNCHANGED <<pub, sent, lastTicker, price, proc, shown>>
  BY DEF L2Step, TakeChange, PushMessage, PushMarker, EndL2, hub
<1>2. CASE PushMessage(c)
  <2>1. PICK m : m = [from |-> "l2", ticker |-> 0]  OBVIOUS
  <2>2. m \in Message /\ Known(m) /\ m.from # Ticker
    <3>1. m.from = "l2" /\ m.ticker = 0 /\ m \in Message  BY <2>1 DEF Message
    <3>2. "l2" # Ticker /\ lastTicker \in Nat  BY PushHubAssumption, TickerNumbers DEF Publishers
    <3> QED  BY <3>1, <3>2 DEF Known
  <2>3. writeCh' = [writeCh EXCEPT ![c] = Append(writeCh[c], m)]  BY <1>2, <2>1 DEF PushMessage
  <2>4. PricesRise' /\ InFlight' /\ Ascending' /\ ShownBefore'
    BY <1>1, <2>2, <2>3, AppendTickers
  <2> QED  BY <1>1, <2>4 DEF TickerInv, PublishesLast
<1>3. CASE ~ PushMessage(c)
  <2>1. writeCh' = writeCh  BY <1>3 DEF L2Step, TakeChange, PushMarker, EndL2
  <2> QED  BY <1>1, <2>1
           DEF TickerInv, PricesRise, PublishesLast, InFlight, Known, Ascending, ShownBefore
<1> QED  BY <1>2, <1>3

LEMMA NextTickers ==
    ASSUME TypeOK, TickerInv, [Next]_vars
    PROVE  /\ TickerInv'
           /\ \A c \in Clients : shown'[c] < shown[c] => proc[c]["writer"].msg.from = "sub"
<1>1. \A c \in Clients : ~ (shown[c] < shown[c])  BY TickerNumbers
<1>2. CASE shown' = shown /\ TickerInv'  BY <1>1, <1>2
<1>3. ASSUME NEW c \in Clients, WriteMessage(c)
      PROVE  /\ TickerInv'
             /\ \A d \in Clients : shown'[d] < shown[d] => proc[d]["writer"].msg.from = "sub"
  BY <1>1, <1>3, WriteTickers
<1>4. ASSUME NEW p \in Streams \cup {Level2}, StreamMessage(p) PROVE shown' = shown /\ TickerInv'
  <2>1. PICK st : st = [pc |-> "rlock", msg |-> [from |-> p, ticker |-> 0]]  OBVIOUS
  <2>2. /\ sent' = sent + 1 /\ pub' = [pub EXCEPT ![p] = st]
        /\ UNCHANGED <<lastTicker, price, writeCh, proc, shown>>
    BY <1>4, <2>1 DEF StreamMessage, Publish, client
  <2>3. p # Ticker /\ p \in Publishers  BY PushHubAssumption DEF Publishers
  <2>4. PublishesLast'  BY <2>1, <2>2, <2>3, PubTickers DEF TickerInv
  <2>5. sent \in Nat /\ (\A o \in Objects : price[o] \in Nat) /\ \A c \in Clients : shown[c] \in Nat
    BY TickerNumbers
  <2>6. PricesRise' /\ \A c \in Clients : shown[c] <= sent'
    BY <2>2, <2>5 DEF TickerInv, PricesRise, ShownBefore
  <2> QED  BY <2>2, <2>4, <2>6 DEF TickerInv, InFlight, Known, Ascending, ShownBefore
<1>5. CASE NewTicker \/ SameTicker
  <2>1. shown' = shown  BY <1>5 DEF NewTicker, SameTicker, Publish, client
  <2> QED  BY <1>1, <1>5, <2>1, NewTickers
<1>6. ASSUME NEW p \in Publishers, PublishStep(p) PROVE shown' = shown /\ TickerInv'
  BY <1>6, PublishStepTickers DEF PublishStep, PublishBegin, PublishVisit, PublishSend, client
<1>7. ASSUME NEW c \in Clients, NEW g \in Goroutines, CommonStep(c, g) PROVE shown' = shown /\ TickerInv'
  <2>1. UNCHANGED <<pub, sent, lastTicker, price, writeCh, shown>>
    BY <1>7 DEF CommonStep, TakeMu, Announce, Leave, WithLock, hub
  <2>2. \A op, ch, done : AfterOp(g, op, ch, done).pc \notin {"send", "write"}
    BY DEF AfterOp, Resting
  <2>3. ASSUME NEW st, Becomes(c, g, st), st.pc \notin {"send", "write"} PROVE TickerInv'
    BY <2>1, <2>3, QuietTickers
  <2>4. CASE TakeMu(c, g)
    <3>1. \/ \E op : Becomes(c, g, AfterOp(g, op, None, FALSE))
          \/ \E op, todo : Becomes(c, g, [pc |-> "lock", op |-> op, todo |-> todo])
      BY <2>4 DEF TakeMu
    <3> QED  BY <2>1, <2>2, <2>3, <3>1
  <2>5. ASSUME proc[c][g].pc \in {"lock", "announced"}, NEW x, NEW rest
        PROVE  /\ [proc[c][g] EXCEPT !.pc = x].pc = x
               /\ [proc[c][g] EXCEPT !.pc = x, !.todo = rest].pc = x
    <3>1. proc[c][g] \in [pc : {"mu", "lock", "announced"}, op : Ops, todo : SUBSET Channels]
      BY <2>5, ProcFields DEF ProcStates
    <3> QED  BY <3>1
  <2>6. CASE Announce(c, g)
    <3>1. proc[c][g].pc = "lock" /\ Becomes(c, g, [proc[c][g] EXCEPT !.pc = "announced"])
      BY <2>6 DEF Announce
    <3> QED  BY <2>1, <2>3, <2>5, <3>1
  <2>7. CASE Leave(c, g)
    <3>1. Becomes(c, g, [pc |-> "end"])  BY <2>7 DEF Leave
    <3> QED  BY <2>1, <2>3, <3>1
  <2>8. ASSUME NEW ch \in Channels, WithLock(c, g, ch) PROVE TickerInv'
    <3>1. /\ proc[c][g].pc = "announced"
          /\ \/ \E op, done : Becomes(c, g, AfterOp(g, op, ch, done))
             \/ \E rest : Becomes(c, g, [proc[c][g] EXCEPT !.pc = "lock", !.todo = rest])
      BY <2>8 DEF WithLock
    <3>2. CASE \E op, done : Becomes(c, g, AfterOp(g, op, ch, done))  BY <2>2, <2>3, <3>2
    <3>3. CASE \E rest : Becomes(c, g, [proc[c][g] EXCEPT !.pc = "lock", !.todo = rest])
      <4>1. PICK rest : Becomes(c, g, [proc[c][g] EXCEPT !.pc = "lock", !.todo = rest])  BY <3>3
      <4>2. [proc[c][g] EXCEPT !.pc = "lock", !.todo = rest].pc = "lock"  BY <2>5, <3>1
      <4> QED  BY <2>3, <4>1, <4>2
    <3> QED  BY <3>1, <3>2, <3>3
  <2> QED  BY <1>7, <2>1, <2>4, <2>6, <2>7, <2>8 DEF CommonStep
<1>8. ASSUME NEW c \in Clients,
             \/ \E op \in {"sub", "unsub"}, ch \in Channels : Request(c, op, ch)
             \/ ReadFails(c) \/ WriteFails(c)
      PROVE  shown' = shown /\ TickerInv'
  <2>1. UNCHANGED <<pub, sent, lastTicker, price, writeCh, shown>>
    BY <1>8 DEF Request, ReadFails, WriteFails, hub
  <2>2. \E g \in Goroutines : \E op, chs : Becomes(c, g, Wants(op, chs))
    BY <1>8 DEF Request, ReadFails, WriteFails, Goroutines
  <2>3. PICK g \in Goroutines : \E op, chs : Becomes(c, g, Wants(op, chs))  BY <2>2
  <2>4. PICK op, chs : Becomes(c, g, Wants(op, chs))  BY <2>3
  <2>5. Wants(op, chs).pc = "mu"  BY DEF Wants
  <2> QED  BY <2>1, <2>4, <2>5, QuietTickers
<1>9. ASSUME NEW c \in Clients, LoadTicker(c) \/ SendTicker(c) PROVE shown' = shown /\ TickerInv'
  BY <1>9, OnSubTickers DEF LoadTicker, SendTicker
<1>10. ASSUME NEW c \in Clients, TakeMessage(c) PROVE shown' = shown /\ TickerInv'
  BY <1>10, TakeTickers DEF TakeMessage
<1>12. ASSUME NEW c \in Clients, SendMarker(c) \/ ForwardChange(c) PROVE shown' = shown /\ TickerInv'
  <2>1. PICK g \in Goroutines : Becomes(c, g, Resting(g))
    BY <1>12 DEF SendMarker, ForwardChange, Goroutines
  <2>2. UNCHANGED <<pub, sent, lastTicker, price, writeCh, shown>>
    BY <1>12 DEF SendMarker, ForwardChange, hub
  <2>3. Resting(g).pc \notin {"send", "write"}  BY DEF Resting
  <2> QED  BY <2>1, <2>2, <2>3, QuietTickers
<1>13. ASSUME NEW c \in Clients, L2Step(c) PROVE shown' = shown /\ TickerInv'
  BY <1>13, L2Tickers
<1>11. CASE UNCHANGED vars
  BY <1>1, <1>11
     DEF vars, hub, client, TickerInv, PricesRise, PublishesLast, InFlight, Known, Ascending, ShownBefore
<1> QED  BY <1>2, <1>3, <1>4, <1>5, <1>6, <1>7, <1>8, <1>9, <1>10, <1>11, <1>12, <1>13
         DEF Next, ReaderStep, WriterStep, Goroutines

\* The tickers a client is shown never go back (ticker_stream.go, client.go),
\* although the ticker object is changed while channels hold it: only the one
\* onSub sends may be older than the one before it.
THEOREM HubTickersInOrder == Spec => TickersInOrder
<1>1. Init => TypeOK /\ TickerInv
  <2> SUFFICES ASSUME Init PROVE TypeOK /\ TickerInv
    OBVIOUS
  <2>1. TypeOK  BY InitHubInv DEF HubInv
  <2>2. \A c \in Clients : proc[c]["reader"].pc = "read" /\ proc[c]["writer"].pc = "select"
    BY DEF Init, Goroutines, Resting
  <2>3. \A c \in Clients : Len(writeCh[c]) = 0  BY DEF Init
  <2>4. PricesRise /\ PublishesLast  BY DEF Init, PricesRise, PublishesLast, Idle
  <2>5. InFlight /\ Ascending  BY <2>2, <2>3 DEF InFlight, Ascending
  <2>6. ShownBefore  BY <2>2, <2>3 DEF Init, ShownBefore
  <2> QED  BY <2>1, <2>4, <2>5, <2>6 DEF TickerInv
<1>2. TypeOK /\ TickerInv /\ [Next]_vars => (TypeOK /\ TickerInv)'  BY NextTypeOK, NextTickers
<1>3. TypeOK /\ TickerInv /\ [Next]_vars =>
        [\A c \in Clients : shown'[c] < shown[c] => proc[c]["writer"].msg.from = "sub"]_vars
  BY NextTickers
<1> QED  BY <1>1, <1>2, <1>3, PTL DEF Spec, TickersInOrder
=============================================================================
