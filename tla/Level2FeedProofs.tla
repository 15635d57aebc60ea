--------------------------- MODULE Level2FeedProofs ---------------------------
(***************************************************************************)
(* Proofs about module Level2Feed, for any levels, sizes, capacities and  *)
(* batches: types, that a client's levels are those of its seq, and that   *)
(* it is never taken back.                                                *)
(***************************************************************************)
EXTENDS Level2Feed, SumProofs

USE DEF l2Writer

\* What goes through writeCh.
Writes == LevelChange \cup {Other("change")} \cup Messages

\* The levels after change n of a book with history p; none before the first.
At(p, n) == IF n = 0 THEN NoLevels ELSE p[n]

\* A change is what made the levels of its seq out of those before.
Real(p, c) ==
    /\ c.seq <= Len(p)
    /\ At(p, c.seq) = [At(p, c.seq - 1) EXCEPT ![c.key] = c.size]

\* A message to the client tells what was.
Sound(p, m) ==
    /\ m.seq <= Len(p)
    /\ m.type = "snapshot" => m.levels = At(p, m.seq)
    /\ m.type = "update" => \A n \in 1 .. Len(m.changes) : Real(p, m.changes[n])

\* All that is on its way is real.
AllReal ==
    /\ change # None => Real(past, change.it)
    /\ lastL2 # None => lastL2.seq <= Len(past) /\ lastL2.levels = At(past, lastL2.seq)
    /\ forward \in LevelChange => Real(past, forward)
    /\ \A n \in 1 .. Len(writeCh) : /\ writeCh[n] \in LevelChange => Real(past, writeCh[n])
                                    /\ writeCh[n] \in Message => Sound(past, writeCh[n])
    /\ \A n \in 1 .. Len(l2ChangeCh) : l2ChangeCh[n] \in LevelChange => Real(past, l2ChangeCh[n])
    /\ \A n \in 1 .. Len(changes) : Real(past, changes[n])
    /\ out \in Message => Sound(past, out)

\* What the client has.
ViewOK == view # None => view.seq <= Len(past) /\ (view.clean => view.levels = At(past, view.seq))

Seqs == 0 .. MaxChanges

\* x is the seq of the last message before place j of channel q: of what the
\* client has, v, when none is waiting there.
Precedes(q, v, x, j) ==
    \/ \E i \in 1 .. j - 1 : /\ q[i] \in Message /\ x = q[i].seq
                             /\ \A k \in i + 1 .. j - 1 : q[k] \notin Message
    \/ /\ \A k \in 1 .. j - 1 : q[k] \notin Message
       /\ v # None /\ x = v.seq

\* The changes cs, up to seq n, go on from seq x, or repeat some of before.
GoOn(x, cs, n) ==
    \/ \E i \in 1 .. Len(cs) : cs[i].seq <= x
    \/ n = x + Len(cs) /\ \A i \in 1 .. Len(cs) : cs[i].seq = x + i

\* A message may follow one with seq x.
Follows(x, m) == m.seq >= x /\ (m.type = "update" => GoOn(x, m.changes, m.seq))

\* It may be in place j of the channel: an update has something to go on from.
InPlace(q, v, m, j) ==
    /\ \A x \in Seqs : Precedes(q, v, x, j) => Follows(x, m)
    /\ m.type = "update" => \E x \in Seqs : Precedes(q, v, x, j)

\* x is the seq of the last message made for the client: o, when that waits.
LastSent(q, v, o, x) == IF o \in Message THEN x = o.seq ELSE Precedes(q, v, x, Len(q) + 1)

\* The messages are in order, ...
InOrder ==
    /\ \A j \in 1 .. Len(writeCh) : writeCh[j] \in Message => InPlace(writeCh, view, writeCh[j], j)
    /\ out \in Message => InPlace(writeCh, view, out, Len(writeCh) + 1)

\* ... and so will be the one of the changes collected, unless a snapshot
\* comes first.
Collected ==
    /\ \A x \in Seqs : LastSent(writeCh, view, out, x) =>
            x <= clientSeq /\ (~ resend => GoOn(x, changes, clientSeq))
    /\ ~ resend => \E x \in Seqs : LastSent(writeCh, view, out, x)
    /\ resend => changes = << >>
    /\ \A n \in 1 .. Len(changes) : changes[n].seq <= clientSeq

FeedInv == TypeOK /\ AllReal /\ ViewOK /\ InOrder /\ Collected
-----------------------------------------------------------------------------
(* The values in the channels.                                             *)

LEMMA ChangeFields ==
    ASSUME NEW c \in LevelChange
    PROVE  /\ c.seq \in Nat /\ c.seq > 0 /\ c.key \in Keys /\ c.size \in Sizes
           /\ c \notin Message /\ c # Marker /\ c # None
<1>1. c.seq \in Nat /\ c.seq > 0 /\ c.key \in Keys /\ c.size \in Sizes  BY DEF LevelChange
<1>2. DOMAIN c = {"seq", "key", "size"}  BY DEF LevelChange
<1>3. \A m \in Message : "type" \in DOMAIN m  BY DEF Message
<1>4. c # Marker  BY <1>1 DEF Marker
<1>5. c # None  BY Level2FeedAssumption DEF L2Changes
<1> QED  BY <1>1, <1>2, <1>3, <1>4, <1>5

LEMMA MessageFields ==
    ASSUME NEW m \in Message
    PROVE  /\ m.seq \in Nat /\ m.type \in {"snapshot", "update"}
           /\ m.type = "snapshot" => m.levels \in Levels
           /\ m.type = "update" => m.changes \in Seq(LevelChange)
           /\ m \notin LevelChange /\ m # Marker /\ m # None
<1>1. /\ m.seq \in Nat /\ m.type \in {"snapshot", "update"}
      /\ m.type = "snapshot" => m.levels \in Levels
      /\ m.type = "update" => m.changes \in Seq(LevelChange)
  BY DEF Message
<1>2. "type" \in DOMAIN m  BY DEF Message
<1>3. DOMAIN Marker = {"seq"}  BY DEF Marker
<1>4. m # None  BY Level2FeedAssumption DEF Messages
<1> QED  BY <1>1, <1>2, <1>3, <1>4, ChangeFields

LEMMA MarkerFields == Marker.seq = 0 /\ Marker \notin LevelChange /\ Marker \notin Message /\ Marker # None
<1>1. Marker.seq = 0  BY DEF Marker
<1>2. Marker # None  BY Level2FeedAssumption DEF L2Changes
<1> QED  BY <1>1, <1>2, ChangeFields, MessageFields

LEMMA NoneFields ==
    /\ None \notin LevelChange \cup Message \cup Snapshot \cup View \cup Publication \cup {Marker}
    /\ None \notin {Other("change"), Other("marker"), Other("message")}
  BY Level2FeedAssumption DEF L2Changes, OtherChanges, Messages

LEMMA OtherFields ==
    ASSUME NEW kind
    PROVE  Other(kind) \notin LevelChange /\ Other(kind) \notin Message /\ Other(kind) # Marker
<1>1. DOMAIN Other(kind) = {"other"}  BY DEF Other
<1>2. \A c \in LevelChange : "seq" \in DOMAIN c  BY DEF LevelChange
<1>3. \A m \in Message : "type" \in DOMAIN m  BY DEF Message
<1>4. DOMAIN Marker = {"seq"}  BY DEF Marker
<1> QED  BY <1>1, <1>2, <1>3, <1>4

\* The largest of three.
LEMMA MaxOfThree ==
    ASSUME NEW a \in Int, NEW b \in Int, NEW c \in Int
    PROVE  Max({a, b, c}) \in {a, b, c}
<1>1. \E x \in {a, b, c} : \A y \in {a, b, c} : x >= y
  <2>1. CASE a >= b /\ a >= c  BY <2>1
  <2>2. CASE b >= a /\ b >= c  BY <2>2
  <2>3. CASE c >= a /\ c >= b  BY <2>3
  <2> QED  BY <2>1, <2>2, <2>3
<1> QED  BY <1>1 DEF Max

\* The largest of places in a sequence.
LEMMA MaxPlace ==
    ASSUME NEW L \in Nat, NEW S \in SUBSET (1 .. L), S # {}
    PROVE  Max(S) \in S /\ \A n \in S : n <= Max(S)
<1> DEFINE T == {L - n : n \in S}
<1>1. T \in SUBSET Nat /\ T # {}
  <2>1. \A n \in S : L - n \in Nat  OBVIOUS
  <2>2. T \in SUBSET Nat  BY <2>1
  <2>3. T # {}  OBVIOUS
  <2> QED  BY <2>2, <2>3
<1>2. PICK t \in T : \A u \in T : t <= u
  <2> HIDE DEF T
  <2> QED  BY <1>1, NatMin
<1>3. PICK m \in S : t = L - m  BY <1>2
<1>4. \A n \in S : m >= n
  <2> TAKE n \in S
  <2>1. L - n \in T  OBVIOUS
  <2>2. t <= L - n  BY <1>2, <2>1
  <2> QED  BY <1>3, <2>2
<1>5. Max(S) \in S /\ \A n \in S : Max(S) >= n  BY <1>4 DEF Max
<1> QED  BY <1>5

\* What no step changes stays the same.
LEMMA Steady ==
    ASSUME NEW F, NEW a \in Nat, NEW b \in Nat, a <= b, \A i \in a + 1 .. b : F[i] = F[i - 1]
    PROVE  F[b] = F[a]
<1> DEFINE S == {i \in a .. b : F[i] # F[a]}
<1>1. SUFFICES ASSUME S # {} PROVE FALSE  OBVIOUS
<1>2. S \in SUBSET Nat  OBVIOUS
<1>3. PICK m \in S : \A n \in S : m <= n
  <2> HIDE DEF S
  <2> QED  BY <1>1, <1>2, NatMin
<1>4. m \in a + 1 .. b /\ m - 1 \in a .. b  BY <1>3
<1>5. m - 1 \notin S  BY <1>3, <1>4
<1> QED  BY <1>3, <1>4, <1>5

\* The levels are levels.
LEMMA AtType ==
    ASSUME TypeOK
    PROVE  /\ \A n \in 0 .. Len(past) : At(past, n) \in Levels
           /\ Now = At(past, Len(past))
           /\ Len(past) \in Nat
<1>1. past \in Seq(Levels) /\ NoLevels \in Levels  BY Level2FeedAssumption DEF TypeOK, NoLevels, Levels
<1> QED  BY <1>1 DEF At, Now

\* A history q goes on from p with some levels: what was stays.
GoesOn(p, q, levels) ==
    /\ Len(q) = Len(p) + 1
    /\ \A n \in 0 .. Len(p) : At(q, n) = At(p, n)
    /\ At(q, Len(p) + 1) = levels
    /\ \A c \in LevelChange : Real(p, c) => Real(q, c)
    /\ \A m \in Message : Sound(p, m) => Sound(q, m)

LEMMA PastStays ==
    ASSUME NEW p \in Seq(Levels), NEW levels \in Levels, NEW q, q = Append(p, levels)
    PROVE  GoesOn(p, q, levels)
<1>2. Len(p) \in Nat /\ Len(q) = Len(p) + 1 /\ \A n \in 1 .. Len(p) : q[n] = p[n]  OBVIOUS
<1>3. \A n \in 0 .. Len(p) : At(q, n) = At(p, n)  BY <1>2 DEF At
<1>4. At(q, Len(p) + 1) = levels  BY <1>2 DEF At
<1>5. ASSUME NEW c \in LevelChange, Real(p, c) PROVE Real(q, c)
  <2>1. c.seq \in 1 .. Len(p)  BY <1>2, <1>5, ChangeFields DEF Real
  <2>2. At(q, c.seq) = At(p, c.seq) /\ At(q, c.seq - 1) = At(p, c.seq - 1)  BY <1>2, <1>3, <2>1
  <2> QED  BY <1>2, <1>5, <2>1, <2>2 DEF Real
<1>6. ASSUME NEW m \in Message, Sound(p, m) PROVE Sound(q, m)
  <2>1. m.seq \in 0 .. Len(p)  BY <1>2, <1>6, MessageFields DEF Sound
  <2>2. At(q, m.seq) = At(p, m.seq)  BY <1>3, <2>1
  <2>3. m.type = "update" => \A n \in 1 .. Len(m.changes) : Real(q, m.changes[n])
    BY <1>5, <1>6, MessageFields DEF Sound
  <2> QED  BY <1>2, <1>6, <2>1, <2>2, <2>3 DEF Sound
<1> QED  BY <1>2, <1>3, <1>4, <1>5, <1>6 DEF GoesOn

\* Consecutive changes lead from the levels before them to those after them.
LEMMA ViewAfterChanges ==
    ASSUME TypeOK, NEW x \in Nat, NEW cs \in Seq(LevelChange), x + Len(cs) <= Len(past),
           \A i \in 1 .. Len(cs) : cs[i].seq = x + i /\ Real(past, cs[i])
    PROVE  ViewAfter(At(past, x), cs) = At(past, x + Len(cs))
<1>1. \A i \in 0 .. Len(cs) : At(past, x + i) \in Levels  BY AtType
<1>2. \A i \in 1 .. Len(cs) : cs[i] \in LevelChange  OBVIOUS
<1>3. ASSUME NEW k \in Keys, NEW i \in 1 .. Len(cs)
      PROVE  At(past, x + i)[k] = IF cs[i].key = k THEN cs[i].size ELSE At(past, x + i - 1)[k]
  <2>1. At(past, x + i) = [At(past, x + i - 1) EXCEPT ![cs[i].key] = cs[i].size]
    <3>1. Real(past, cs[i]) /\ cs[i].seq = x + i  OBVIOUS
    <3>2. PICK s : s = cs[i].seq  OBVIOUS
    <3>3. At(past, s) = [At(past, s - 1) EXCEPT ![cs[i].key] = cs[i].size]  BY <3>1, <3>2, Zenon DEF Real
    <3>4. s = x + i /\ s - 1 = x + i - 1  BY <3>1, <3>2
    <3> QED  BY <3>3, <3>4
  <2>2. At(past, x + i - 1) \in Levels
    <3>1. x + i - 1 = x + (i - 1) /\ i - 1 \in 0 .. Len(cs)  OBVIOUS
    <3> QED  BY <1>1, <3>1
  <2> QED  BY <2>1, <2>2 DEF Levels
<1>4. ASSUME NEW k \in Keys PROVE ViewAfter(At(past, x), cs)[k] = At(past, x + Len(cs))[k]
  <2> DEFINE ns == {n \in DOMAIN cs : cs[n].key = k}
             F == [i \in 0 .. Len(cs) |-> At(past, x + i)[k]]
  <2>1. ViewAfter(At(past, x), cs)[k] = IF ns = {} THEN At(past, x)[k] ELSE cs[Max(ns)].size  BY DEF ViewAfter
  <2>2. ns \in SUBSET (1 .. Len(cs)) /\ Len(cs) \in Nat  OBVIOUS
  <2>3. F[0] = At(past, x)[k] /\ F[Len(cs)] = At(past, x + Len(cs))[k]
    <3>1. x + 0 = x  OBVIOUS
    <3> QED  BY <3>1
  <2>4. \A i \in 1 .. Len(cs) : i \notin ns => F[i] = F[i - 1]
    <3> TAKE i \in 1 .. Len(cs)
    <3>1. x + i - 1 = x + (i - 1) /\ i - 1 \in 0 .. Len(cs)  OBVIOUS
    <3> QED  BY <1>3, <3>1
  <2>5. \A i \in ns : F[i] = cs[i].size  BY <1>3
  <2> HIDE DEF F
  <2>6. CASE ns = {}
    <3>1. \A i \in 0 + 1 .. Len(cs) : F[i] = F[i - 1]  BY <2>4, <2>6
    <3>2. F[Len(cs)] = F[0]  BY <2>2, <3>1, Steady
    <3> QED  BY <2>1, <2>3, <2>6, <3>2
  <2>7. CASE ns # {}
    <3> HIDE DEF ns
    <3>1. Max(ns) \in ns /\ \A n \in ns : n <= Max(ns)  BY <2>2, <2>7, MaxPlace
    <3>2. PICK m : m = Max(ns)  OBVIOUS
    <3>3. m \in 1 .. Len(cs) /\ m \in Nat
      <4>1. m \in 1 .. Len(cs)  BY <2>2, <3>1, <3>2, Zenon
      <4> QED  BY <4>1
    <3>4. \A i \in m + 1 .. Len(cs) : i \notin ns /\ i \in 1 .. Len(cs)  BY <2>2, <3>1, <3>2, <3>3
    <3>5. \A i \in m + 1 .. Len(cs) : F[i] = F[i - 1]  BY <2>4, <3>4
    <3>6. F[Len(cs)] = F[m]  BY <2>2, <3>3, <3>5, Steady
    <3> QED  BY <2>1, <2>3, <2>5, <2>7, <3>1, <3>2, <3>6
  <2> QED  BY <2>6, <2>7
<1>5. At(past, x + Len(cs)) \in Levels  BY <1>1
<1> QED  BY <1>4, <1>5 DEF ViewAfter, Levels
-----------------------------------------------------------------------------
(* The types.                                                              *)

\* The constants, and the lengths as numbers.
LEMMA Bounds ==
    ASSUME TypeOK
    PROVE  /\ WriteCap \in Nat /\ L2Cap \in Nat /\ Batch \in Nat \ {0} /\ MaxChanges \in Nat /\ MaxSubs \in Nat
           /\ MaxOthers \in Nat
           /\ writeCh \in Seq(Writes) /\ Len(writeCh) \in Nat
           /\ l2ChangeCh \in Seq(L2Changes) /\ Len(l2ChangeCh) \in Nat
           /\ changes \in Seq(LevelChange) /\ Len(changes) \in Nat
           /\ past \in Seq(Levels) /\ Len(past) \in Nat /\ Len(past) <= MaxChanges
           /\ clientSeq \in Nat /\ clientSeq <= Len(past)
<1>1. /\ WriteCap \in Nat /\ L2Cap \in Nat /\ Batch \in Nat \ {0} /\ MaxChanges \in Nat
      /\ MaxSubs \in Nat /\ MaxOthers \in Nat
  BY Level2FeedAssumption
<1> QED  BY <1>1 DEF TypeOK, Writes

\* What a goroutine takes from its channel.
LEMMA HeadOfChanges ==
    ASSUME TypeOK, AllReal, TakeChange
    PROVE  /\ Head(l2ChangeCh) \in LevelChange \cup {Marker}
           /\ Head(l2ChangeCh).seq \in 0 .. Len(past)
           /\ Head(l2ChangeCh).seq # 0 => Head(l2ChangeCh) \in LevelChange /\ Real(past, Head(l2ChangeCh))
           /\ Len(l2ChangeCh) > 0
<1>1. /\ l2ChangeCh # << >> /\ Head(l2ChangeCh) = l2ChangeCh[1] /\ 1 \in 1 .. Len(l2ChangeCh)
      /\ Len(l2ChangeCh) > 0 /\ l2ChangeCh[1] \in LevelChange \cup {Marker}
  BY Bounds DEF TakeChange, TakeNext
<1>2. l2ChangeCh[1] \in LevelChange => Real(past, l2ChangeCh[1])  BY <1>1 DEF AllReal
<1>3. CASE l2ChangeCh[1] \in LevelChange
  <2>1. l2ChangeCh[1].seq \in Nat /\ l2ChangeCh[1].seq <= Len(past)  BY <1>2, <1>3, ChangeFields DEF Real
  <2> QED  BY <1>1, <1>2, <1>3, <2>1, Bounds
<1>4. CASE l2ChangeCh[1] = Marker
  BY <1>1, <1>4, MarkerFields, Bounds
<1> QED  BY <1>1, <1>3, <1>4

LEMMA HeadOfWrites ==
    ASSUME TypeOK, AllReal, TakeMessage
    PROVE  /\ Head(writeCh) = writeCh[1] /\ 1 \in 1 .. Len(writeCh)
           /\ Head(writeCh) \in Writes
           /\ Head(writeCh) \in LevelChange => Real(past, Head(writeCh))
           /\ Head(writeCh) \in Message => Sound(past, Head(writeCh))
<1>1. Head(writeCh) = writeCh[1] /\ 1 \in 1 .. Len(writeCh) /\ writeCh[1] \in Writes
  BY Bounds DEF TakeMessage
<1> QED  BY <1>1 DEF AllReal

LEMMA TakeNextTypes ==
    ASSUME TypeOK, TakeNext
    PROVE  /\ l2ChangeCh' \in Seq(L2Changes) /\ Len(l2ChangeCh') <= L2Cap
           /\ past' = past /\ lastL2' = lastL2 /\ change' = change /\ missed' = missed
           /\ subscribed' = subscribed /\ marker' = marker /\ writeCh' = writeCh
           /\ forward' = forward /\ view' = view /\ subs' = subs /\ others' = others
<1>1. /\ past' = past /\ lastL2' = lastL2 /\ change' = change /\ missed' = missed
      /\ subscribed' = subscribed /\ marker' = marker /\ writeCh' = writeCh
      /\ forward' = forward /\ view' = view /\ subs' = subs /\ others' = others
  BY DEF TakeNext, service, book
<1>2. l2ChangeCh' = Tail(l2ChangeCh) /\ l2ChangeCh # << >>  BY DEF TakeNext
<1>3. Len(l2ChangeCh) <= L2Cap  BY DEF TypeOK
<1>4. l2ChangeCh' \in Seq(L2Changes) /\ Len(l2ChangeCh') <= L2Cap
  BY <1>2, <1>3, Bounds
<1> QED  BY <1>1, <1>4

\* The type invariant for a step of runL2ChangeWriter.
LEMMA TakeNextTypeOK ==
    ASSUME TypeOK, TakeNext,
           resend' \in BOOLEAN, changes' \in Seq(LevelChange), Len(changes') < Batch,
           clientSeq' \in 0 .. Len(past), out' \in Messages \cup {Marker, Other("marker"), None},
           usedUp' \in -1 .. Len(past), heldUp' \in BOOLEAN
    PROVE  TypeOK'
BY TakeNextTypes DEF TypeOK

LEMMA AskType ==
    ASSUME TypeOK, AllReal, TakeChange, Ask(Head(l2ChangeCh))
    PROVE  usedUp' \in -1 .. Len(past)
<1>1. PICK h : h = Head(l2ChangeCh).seq  OBVIOUS
<1>2. h \in 0 .. Len(past) /\ clientSeq \in 0 .. Len(past) /\ usedUp \in -1 .. Len(past) /\ Len(past) \in Nat
  BY <1>1, HeadOfChanges, Bounds DEF TypeOK
<1>3. usedUp' = Max({usedUp, h, clientSeq})  BY <1>1 DEF Ask
<1>4. usedUp' \in {usedUp, h, clientSeq}  BY <1>2, <1>3, MaxOfThree
<1> QED  BY <1>2, <1>4

LEMMA BookTypeOK ==
    ASSUME TypeOK
    PROVE  /\ (\E k \in Keys, size \in Sizes : ApplyChange(k, size)) => TypeOK'
           /\ RefreshLevel2 => TypeOK'
           /\ PassOver \/ DropChange \/ CheckRoom \/ Publish => TypeOK'
<1>1. ASSUME NEW k \in Keys, NEW size \in Sizes, ApplyChange(k, size) PROVE TypeOK'
  <2> DEFINE n == Len(past) + 1
             levels == [Now EXCEPT ![k] = size]
  <2>1. levels \in Levels  BY AtType DEF Levels
  <2>2. /\ past' = Append(past, levels) /\ Len(past) < MaxChanges
        /\ lastL2' = IF Due(n, L2Gap) THEN SnapshotLevel2(levels, n) ELSE lastL2
        /\ change' = [sending |-> FALSE, it |-> [seq |-> n, key |-> k, size |-> size]]
        /\ UNCHANGED <<client, missed>>
    BY <1>1 DEF ApplyChange
  <2>3. n \in Nat \ {0}  BY Bounds
  <2> HIDE DEF n, levels
  <2>4. lastL2' \in Snapshot \cup {None}  BY <2>1, <2>2, <2>3 DEF SnapshotLevel2, Snapshot, TypeOK
  <2>5. change' \in Publication  BY <2>2, <2>3 DEF Publication, LevelChange
  <2>6. past' \in Seq(Levels) /\ Len(past') = Len(past) + 1  BY <2>1, <2>2, Bounds
  <2>7. Len(past') <= MaxChanges /\ clientSeq \in 0 .. Len(past') /\ usedUp \in -1 .. Len(past')
    BY <2>2, <2>6, Bounds DEF TypeOK
  <2> QED  BY <2>2, <2>4, <2>5, <2>6, <2>7 DEF TypeOK, client
<1>2. CASE RefreshLevel2
  <2>1. Now \in Levels /\ Len(past) \in Nat  BY AtType
  <2>2. lastL2' \in Snapshot  BY <1>2, <2>1 DEF RefreshLevel2, SnapshotLevel2, Snapshot
  <2> QED  BY <1>2, <2>2 DEF RefreshLevel2, TypeOK, client
<1>3. CASE PassOver \/ DropChange
  BY <1>3 DEF PassOver, DropChange, TypeOK, client, book
<1>4. CASE CheckRoom
  <2>1. change \in Publication  BY <1>4 DEF CheckRoom, TypeOK
  <2>2. change' \in Publication  BY <1>4, <2>1 DEF CheckRoom, Publication
  <2> QED  BY <1>4, <2>2 DEF CheckRoom, TypeOK, client, book
<1>5. CASE Publish
  <2>1. change.it \in LevelChange  BY <1>5 DEF Publish, TypeOK, Publication
  <2>2. change.it \in Writes  BY <2>1 DEF Writes
  <2>3. writeCh' \in Seq(Writes) /\ Len(writeCh') <= WriteCap
    BY <1>5, <2>2, Bounds DEF Publish
  <2> QED  BY <1>5, <2>3 DEF Publish, TypeOK, book, Writes
<1> QED  BY <1>1, <1>2, <1>3, <1>4, <1>5

\* A message that is written to the client goes on from what it has.
LEMMA HeadGoesOn ==
    ASSUME FeedInv, WriteMessage
    PROVE  /\ view # None => view \in View /\ Follows(view.seq, Head(writeCh))
           /\ Head(writeCh).type = "update" => view # None
<1>1. /\ Head(writeCh) = writeCh[1] /\ 1 \in 1 .. Len(writeCh) /\ writeCh[1] \in Message
      /\ TypeOK /\ ViewOK /\ InOrder
  BY HeadOfWrites DEF WriteMessage, FeedInv
<1>2. InPlace(writeCh, view, writeCh[1], 1)  BY <1>1 DEF InOrder
<1>3. 1 .. 1 - 1 = {}  OBVIOUS
<1>4. \A x : Precedes(writeCh, view, x, 1) <=> view # None /\ x = view.seq  BY <1>3 DEF Precedes
<1>5. ASSUME view # None PROVE view \in View /\ view.seq \in Seqs
  <2>1. view \in View  BY <1>1, <1>5 DEF TypeOK
  <2>2. view.seq \in Nat  BY <2>1 DEF View
  <2>3. view.seq <= Len(past)  BY <1>1, <1>5 DEF ViewOK
  <2> QED  BY <1>1, <2>1, <2>2, <2>3, Bounds DEF Seqs
<1> QED  BY <1>1, <1>2, <1>4, <1>5, Zenon DEF InPlace

LEMMA WriteMessageType == ASSUME FeedInv, WriteMessage PROVE view' \in View
<1>1. PICK m \in Message : m = Head(writeCh)  BY DEF WriteMessage
<1>2. CASE m.type = "snapshot"
  <2>1. view' = [seq |-> m.seq, levels |-> m.levels, clean |-> TRUE]  BY <1>1, <1>2 DEF WriteMessage
  <2> QED  BY <1>2, <2>1, MessageFields DEF View
<1>3. CASE m.type = "update"
  <2>1. view \in View  BY <1>1, <1>3, HeadGoesOn
  <2>2. view.levels \in Levels /\ view.clean \in BOOLEAN  BY <2>1 DEF View
  <2>3. PICK b \in BOOLEAN : b = (view.clean /\ \A n \in DOMAIN m.changes : m.changes[n].seq > view.seq)
    BY <2>2
  <2>4. view' = [seq |-> m.seq, levels |-> ViewAfter(view.levels, m.changes), clean |-> b]
    BY <1>1, <1>3, <2>3 DEF WriteMessage
  <2>5. m.seq \in Nat /\ m.changes \in Seq(LevelChange)  BY <1>3, MessageFields
  <2>6. ViewAfter(view.levels, m.changes) \in Levels
    <3> SUFFICES ASSUME NEW k \in Keys PROVE ViewAfter(view.levels, m.changes)[k] \in Sizes
      BY DEF ViewAfter, Levels
    <3> DEFINE ns == {n \in DOMAIN m.changes : m.changes[n].key = k}
    <3>1. ViewAfter(view.levels, m.changes)[k] = IF ns = {} THEN view.levels[k] ELSE m.changes[Max(ns)].size
      BY DEF ViewAfter
    <3>2. ns \in SUBSET (1 .. Len(m.changes)) /\ Len(m.changes) \in Nat  BY <2>5
    <3> HIDE DEF ns
    <3>3. CASE ns = {}  BY <2>2, <3>1, <3>3 DEF Levels
    <3>4. CASE ns # {}
      <4>1. Max(ns) \in 1 .. Len(m.changes)  BY <3>2, <3>4, MaxPlace, Zenon
      <4>2. m.changes[Max(ns)] \in LevelChange  BY <2>5, <4>1
      <4> QED  BY <3>1, <3>4, <4>2, ChangeFields
    <3> QED  BY <3>3, <3>4
  <2> QED  BY <2>3, <2>4, <2>5, <2>6 DEF View
<1> QED  BY <1>2, <1>3, MessageFields

LEMMA ClientTypeOK ==
    ASSUME FeedInv
    PROVE  /\ Subscribe \/ Unsubscribe \/ SendMarker => TypeOK'
           /\ PublishOther \/ MarkOther => TypeOK'
           /\ Forward \/ TakeForward \/ WriteMessage \/ WriteOther => TypeOK'
           /\ TakeOther \/ NoSnapshot \/ SendSnapshot \/ Discard \/ Lost \/ Collect => TypeOK'
           /\ SendOut \/ SendOwnMarker => TypeOK'
<1> USE DEF FeedInv
<1>1. CASE Subscribe
  <2>1. subs' \in 0 .. MaxSubs /\ usedUp' \in -1 .. Len(past)  BY <1>1, Bounds DEF Subscribe, TypeOK
  <2> QED  BY <1>1, <2>1 DEF Subscribe, TypeOK, service, book
<1>2. CASE Unsubscribe
  BY <1>2 DEF Unsubscribe, TypeOK, service, book
<1>3. CASE SendMarker
  <2>1. l2ChangeCh' \in Seq(L2Changes) /\ Len(l2ChangeCh') <= L2Cap
    BY <1>3, Bounds DEF SendMarker, L2Changes
  <2> QED  BY <1>3, <2>1 DEF SendMarker, TypeOK, service, book
<1>4. CASE Forward
  <2>1. forward \in L2Changes  BY <1>4 DEF Forward, TypeOK, L2Changes, OtherChanges
  <2>2. l2ChangeCh' \in Seq(L2Changes) /\ Len(l2ChangeCh') <= L2Cap
    BY <1>4, <2>1, Bounds DEF Forward
  <2> QED  BY <1>4, <2>2 DEF Forward, TypeOK, service, book
<1>5. ASSUME TakeMessage
      PROVE  writeCh' \in Seq(Writes) /\ Len(writeCh') <= WriteCap
  <2>1. Len(writeCh) <= WriteCap  BY DEF TypeOK
  <2> QED  BY <1>5, <2>1, Bounds DEF TakeMessage
<1>6. CASE TakeForward
  <2>1. TakeMessage /\ forward' \in LevelChange \cup {Other("change")} /\ view' = view  BY <1>6 DEF TakeForward
  <2> QED  BY <1>5, <2>1 DEF TakeMessage, TypeOK, service, book, Writes
<1>7. CASE WriteMessage
  <2>1. TakeMessage /\ Head(writeCh) \in Message /\ forward' = forward  BY <1>7 DEF WriteMessage
  <2>2. view' \in View  BY <1>7, WriteMessageType
  <2> QED  BY <1>5, <2>1, <2>2 DEF TakeMessage, TypeOK, service, book, Writes
<1>8. CASE NoSnapshot
  <2>1. /\ TakeNext /\ TakeChange /\ Ask(Head(l2ChangeCh))
        /\ resend' = resend /\ changes' = changes /\ clientSeq' = clientSeq /\ out' = out /\ heldUp' = FALSE
    BY <1>8 DEF NoSnapshot, TakeChange, Ask
  <2>2. usedUp' \in -1 .. Len(past)  BY <2>1, AskType
  <2> QED  BY <2>1, <2>2, TakeNextTypeOK DEF TypeOK
<1>9. CASE SendSnapshot
  <2>1. /\ TakeNext /\ TakeChange /\ Ask(Head(l2ChangeCh)) /\ Usable(lastL2)
        /\ resend' = FALSE /\ changes' = changes /\ clientSeq' = lastL2.seq /\ heldUp' = FALSE
        /\ out' = [type |-> "snapshot", seq |-> lastL2.seq, levels |-> lastL2.levels]
    BY <1>9 DEF SendSnapshot, TakeChange, Ask
  <2>2. usedUp' \in -1 .. Len(past)  BY <2>1, AskType
  <2>3. lastL2 \in Snapshot  BY <2>1 DEF Usable, TypeOK
  <2>4. lastL2.seq \in Nat /\ lastL2.levels \in Levels /\ lastL2.seq <= Len(past)
    BY <2>3, NoneFields DEF Snapshot, AllReal
  <2>5. out' \in Messages  BY <2>1, <2>4 DEF Message, Messages
  <2>6. clientSeq' \in 0 .. Len(past)  BY <2>1, <2>4, Bounds
  <2> QED  BY <2>1, <2>2, <2>5, <2>6, TakeNextTypeOK DEF TypeOK
<1>10. CASE Discard
  <2>1. /\ TakeNext /\ TakeChange
        /\ resend' = resend /\ changes' = changes /\ clientSeq' = clientSeq /\ out' = out
        /\ usedUp' = usedUp /\ heldUp' = heldUp
    BY <1>10 DEF Discard, TakeChange
  <2> QED  BY <2>1, TakeNextTypeOK DEF TypeOK
<1>11. CASE Lost
  <2>1. /\ TakeNext /\ TakeChange /\ resend' = TRUE /\ changes' = << >> /\ clientSeq' = Head(l2ChangeCh).seq
        /\ out' \in {Marker, None} /\ usedUp' = usedUp /\ heldUp' \in BOOLEAN
    BY <1>11 DEF Lost, TakeChange, MoreWaits
  <2>2. clientSeq' \in 0 .. Len(past)  BY <2>1, HeadOfChanges
  <2>3. changes' \in Seq(LevelChange) /\ Len(changes') < Batch  BY <2>1, Bounds
  <2> QED  BY <2>1, <2>2, <2>3, TakeNextTypeOK DEF TypeOK
<1>12. CASE Collect
  <2>1. /\ TakeNext /\ TakeChange /\ ~ WantsSnapshot(Head(l2ChangeCh)) /\ clientSeq' = Head(l2ChangeCh).seq
        /\ resend' = resend /\ usedUp' = usedUp /\ heldUp' \in BOOLEAN
    BY <1>12 DEF Collect, TakeChange, KeepsCollecting, MoreWaits
  <2>2. PICK c \in LevelChange : c = Head(l2ChangeCh)  BY <2>1, HeadOfChanges DEF WantsSnapshot
  <2>3. PICK all : all = Append(changes, c)  OBVIOUS
  <2>4. IF KeepsCollecting(all) THEN changes' = all /\ out' = out
        ELSE changes' = << >> /\ out' = [type |-> "update", seq |-> c.seq, changes |-> all]
    BY <1>12, <2>2, <2>3 DEF Collect, TakeChange
  <2>5. all \in Seq(LevelChange) /\ (KeepsCollecting(all) => Len(all) < Batch)
    BY <2>3, Bounds DEF KeepsCollecting
  <2>6. clientSeq' \in 0 .. Len(past)  BY <2>1, HeadOfChanges
  <2>7. changes' \in Seq(LevelChange) /\ Len(changes') < Batch
    <3>1. CASE KeepsCollecting(all)  BY <2>4, <2>5, <3>1
    <3>2. CASE ~ KeepsCollecting(all)
      <4>1. changes' = << >> /\ Batch > 0  BY <2>4, <3>2, Bounds
      <4> QED  BY <4>1
    <3> QED  BY <3>1, <3>2
  <2>8. out' \in Messages \cup {Marker, Other("marker"), None}
    <3>1. c.seq \in Nat  BY ChangeFields
    <3>2. [type |-> "update", seq |-> c.seq, changes |-> all] \in Messages  BY <2>5, <3>1 DEF Message, Messages
    <3> QED  BY <2>4, <3>2 DEF TypeOK
  <2> QED  BY <2>1, <2>6, <2>7, <2>8, TakeNextTypeOK DEF TypeOK
<1>13. CASE SendOut
  <2>1. out \in Writes  BY <1>13 DEF SendOut, Writes
  <2>2. writeCh' \in Seq(Writes) /\ Len(writeCh') <= WriteCap
    BY <1>13, <2>1, Bounds DEF SendOut
  <2> QED  BY <1>13, <2>2 DEF SendOut, TypeOK, service, book, Writes
<1>14. CASE SendOwnMarker
  <2>1. out \in L2Changes  BY <1>14 DEF SendOwnMarker, L2Changes, OtherChanges
  <2>2. l2ChangeCh' \in Seq(L2Changes) /\ Len(l2ChangeCh') <= L2Cap
    BY <1>14, <2>1, Bounds DEF SendOwnMarker
  <2> QED  BY <1>14, <2>2 DEF SendOwnMarker, TypeOK, service, book
<1>15. CASE PublishOther
  <2>1. PICK v \in {Other("change"), Other("message")} : writeCh' = Append(writeCh, v)
    BY <1>15 DEF PublishOther
  <2>2. v \in Writes  BY <2>1 DEF Writes, Messages
  <2>3. writeCh' \in Seq(Writes) /\ Len(writeCh') <= WriteCap
    BY <1>15, <2>1, <2>2, Bounds DEF PublishOther
  <2>4. others' \in 0 .. MaxOthers  BY <1>15, Bounds DEF PublishOther, TypeOK
  <2> QED  BY <1>15, <2>3, <2>4 DEF PublishOther, TypeOK, service, book, Writes
<1>16. CASE MarkOther
  <2>1. Other("marker") \in L2Changes  BY DEF L2Changes, OtherChanges
  <2>2. l2ChangeCh' \in Seq(L2Changes) /\ Len(l2ChangeCh') <= L2Cap
    BY <1>16, <2>1, Bounds DEF MarkOther
  <2>3. others' \in 0 .. MaxOthers  BY <1>16, Bounds DEF MarkOther, TypeOK
  <2> QED  BY <1>16, <2>2, <2>3 DEF MarkOther, TypeOK, service, book
<1>17. CASE WriteOther
  <2>1. TakeMessage /\ forward' = forward /\ view' = view  BY <1>17 DEF WriteOther
  <2> QED  BY <1>5, <2>1 DEF TakeMessage, TypeOK, service, book, Writes
<1>18. CASE TakeOther
  <2>1. /\ TakeNext /\ UNCHANGED <<resend, changes, clientSeq, usedUp, heldUp>>
        /\ out' \in {None, Other("message"), Other("marker")}
    BY <1>18 DEF TakeOther
  <2>2. out' \in Messages \cup {Marker, Other("marker"), None}  BY <2>1 DEF Messages
  <2> QED  BY <2>1, <2>2, TakeNextTypeOK DEF TypeOK
<1> QED  BY <1>1, <1>2, <1>3, <1>4, <1>6, <1>7, <1>8, <1>9, <1>10, <1>11, <1>12, <1>13, <1>14, <1>15,
            <1>16, <1>17, <1>18
-----------------------------------------------------------------------------
(* What is on its way is real.                                             *)

\* In a channel that a value is added to, or the first is taken from, each
\* value was there before, or is the one added.
LEMMA ChannelValues ==
    ASSUME NEW S, NEW q \in Seq(S)
    PROVE  /\ \A v \in S : \A n \in 1 .. Len(Append(q, v)) :
                Append(q, v)[n] = v \/ (n \in 1 .. Len(q) /\ Append(q, v)[n] = q[n])
           /\ q # << >> => \A n \in 1 .. Len(Tail(q)) : n + 1 \in 1 .. Len(q) /\ Tail(q)[n] = q[n + 1]
OBVIOUS

LEMMA BookAllReal ==
    ASSUME FeedInv
    PROVE  /\ (\E k \in Keys, size \in Sizes : ApplyChange(k, size)) => AllReal' /\ ViewOK'
           /\ RefreshLevel2 \/ PassOver \/ DropChange \/ CheckRoom \/ Publish => AllReal' /\ ViewOK'
<1>1. ASSUME NEW k \in Keys, NEW size \in Sizes, ApplyChange(k, size) PROVE AllReal' /\ ViewOK'
  <2>1. PICK n \in Nat : n = Len(past) + 1  BY AtType DEF FeedInv
  <2>2. PICK levels \in Levels : levels = [Now EXCEPT ![k] = size]
    <3>1. Now \in Levels  BY AtType DEF FeedInv
    <3>2. [Now EXCEPT ![k] = size] \in Levels  BY <3>1 DEF Levels
    <3> QED  BY <3>2
  <2>3. PICK c \in LevelChange : c = [seq |-> n, key |-> k, size |-> size]
    <3>1. n \in Nat \ {0}  BY <2>1, AtType DEF FeedInv
    <3>2. [seq |-> n, key |-> k, size |-> size] \in LevelChange  BY <3>1 DEF LevelChange
    <3> QED  BY <3>2
  <2>4. /\ past' = Append(past, levels)
        /\ lastL2' = IF Due(n, L2Gap) THEN SnapshotLevel2(levels, n) ELSE lastL2
        /\ change' = [sending |-> FALSE, it |-> c]
        /\ UNCHANGED <<client, missed>>
    BY <1>1, <2>1, <2>2, <2>3, Zenon DEF ApplyChange
  <2>5. /\ Len(past') = Len(past) + 1 /\ Len(past) \in Nat
        /\ \A i \in 0 .. Len(past) : At(past', i) = At(past, i)
        /\ At(past', n) = levels
        /\ \A d \in LevelChange : Real(past, d) => Real(past', d)
        /\ \A m \in Message : Sound(past, m) => Sound(past', m)
    <3>1. past \in Seq(Levels) /\ Len(past) \in Nat  BY Bounds DEF FeedInv
    <3>2. GoesOn(past, past', levels)  BY <2>4, <3>1, PastStays
    <3> QED  BY <2>1, <3>1, <3>2, Zenon DEF GoesOn
  <2>6. Real(past', change'.it)
    <3>1. change'.it = c /\ c.seq = n /\ c.key = k /\ c.size = size  BY <2>3, <2>4
    <3>2. At(past', n - 1) = Now  BY <2>1, <2>5, AtType DEF FeedInv
    <3>3. n <= Len(past')  BY <2>1, <2>5
    <3> QED  BY <2>2, <2>5, <3>1, <3>2, <3>3 DEF Real
  <2>7. lastL2' # None => lastL2'.seq <= Len(past') /\ lastL2'.levels = At(past', lastL2'.seq)
    <3>1. CASE lastL2' = lastL2
      <4> SUFFICES ASSUME lastL2 # None PROVE lastL2.seq <= Len(past') /\ lastL2.levels = At(past', lastL2.seq)
        BY <3>1
      <4>1. lastL2 \in Snapshot  BY DEF FeedInv, TypeOK
      <4>2. lastL2.seq \in Nat /\ lastL2.seq <= Len(past) /\ lastL2.levels = At(past, lastL2.seq)
        BY <4>1 DEF FeedInv, AllReal, Snapshot
      <4> QED  BY <2>5, <4>2
    <3>2. CASE lastL2' = SnapshotLevel2(levels, n)
      <4>1. lastL2'.seq = n /\ lastL2'.levels = levels  BY <3>2 DEF SnapshotLevel2
      <4> QED  BY <2>1, <2>5, <4>1
    <3> QED  BY <2>4, <3>1, <3>2
  <2>8. UNCHANGED <<forward, writeCh, l2ChangeCh, changes, out, view>>  BY <2>4 DEF client
  <2>9. /\ forward \in LevelChange => Real(past', forward)
        /\ out \in Message => Sound(past', out)
    BY <2>5 DEF FeedInv, AllReal, TypeOK
  <2>10. \A i \in 1 .. Len(writeCh) : /\ writeCh[i] \in LevelChange => Real(past', writeCh[i])
                                      /\ writeCh[i] \in Message => Sound(past', writeCh[i])
    BY <2>5 DEF FeedInv, AllReal
  <2>11. \A i \in 1 .. Len(l2ChangeCh) : l2ChangeCh[i] \in LevelChange => Real(past', l2ChangeCh[i])
    BY <2>5 DEF FeedInv, AllReal
  <2>12. \A i \in 1 .. Len(changes) : changes[i] \in LevelChange /\ Real(past', changes[i])
    BY <2>5, Bounds DEF FeedInv, AllReal
  <2>13. AllReal'
    BY <2>6, <2>7, <2>8, <2>9, <2>10, <2>11, <2>12 DEF AllReal
  <2>14. ASSUME view # None
         PROVE  view.seq <= Len(past') /\ (view.clean => view.levels = At(past', view.seq))
    <3>1. view \in View  BY <2>14 DEF FeedInv, TypeOK
    <3>2. view.seq \in Nat  BY <3>1 DEF View
    <3>3. view.seq <= Len(past) /\ (view.clean => view.levels = At(past, view.seq))
      BY <2>14 DEF FeedInv, ViewOK
    <3>4. At(past', view.seq) = At(past, view.seq) /\ view.seq <= Len(past')  BY <2>5, <3>2, <3>3
    <3> QED  BY <3>3, <3>4, Zenon
  <2> QED  BY <2>8, <2>13, <2>14 DEF ViewOK
<1>2. ASSUME RefreshLevel2 \/ PassOver \/ DropChange \/ CheckRoom \/ Publish PROVE AllReal' /\ ViewOK'
  <2>1. UNCHANGED <<past, forward, l2ChangeCh, changes, out, view>>
    BY <1>2 DEF RefreshLevel2, PassOver, DropChange, CheckRoom, Publish, client, book
  <2>3. ViewOK'
    <3>1. ViewOK  BY DEF FeedInv
    <3> QED  BY <2>1, <3>1, Zenon DEF ViewOK
  <2>4. lastL2' # None => lastL2'.seq <= Len(past') /\ lastL2'.levels = At(past', lastL2'.seq)
    <3>1. CASE RefreshLevel2
      <4>1. lastL2'.seq = Len(past) /\ lastL2'.levels = Now  BY <3>1 DEF RefreshLevel2, SnapshotLevel2
      <4> QED  BY <2>1, <4>1, AtType DEF FeedInv
    <3>2. CASE ~ RefreshLevel2
      <4>1. lastL2' = lastL2  BY <1>2, <3>2 DEF PassOver, DropChange, CheckRoom, Publish, book
      <4> QED  BY <2>1, <4>1 DEF FeedInv, AllReal
    <3> QED  BY <3>1, <3>2
  <2>5. change' # None => Real(past', change'.it)
    <3>1. CASE CheckRoom
      <4>1. change \in Publication /\ change # None  BY <3>1 DEF CheckRoom, FeedInv, TypeOK
      <4>2. change'.it = change.it  BY <3>1, <4>1 DEF CheckRoom, Publication
      <4> QED  BY <2>1, <4>1, <4>2 DEF FeedInv, AllReal
    <3>2. CASE ~ CheckRoom
      <4>1. change' = change \/ change' = None  BY <1>2, <3>2 DEF RefreshLevel2, PassOver, DropChange, Publish
      <4> QED  BY <2>1, <4>1 DEF FeedInv, AllReal
    <3> QED  BY <3>1, <3>2
  <2>6. \A i \in 1 .. Len(writeCh') : /\ writeCh'[i] \in LevelChange => Real(past, writeCh'[i])
                                      /\ writeCh'[i] \in Message => Sound(past, writeCh'[i])
    <3>1. \A i \in 1 .. Len(writeCh) : /\ writeCh[i] \in LevelChange => Real(past, writeCh[i])
                                       /\ writeCh[i] \in Message => Sound(past, writeCh[i])
      BY DEF FeedInv, AllReal
    <3>2. CASE Publish
      <4>1. change \in Publication /\ change # None  BY <3>2 DEF Publish, FeedInv, TypeOK
      <4>2. PICK c \in LevelChange : c = change.it  BY <4>1 DEF Publication
      <4>3. Real(past, c) /\ c \notin Message  BY <4>1, <4>2, ChangeFields DEF FeedInv, AllReal
      <4>4. writeCh' = Append(writeCh, c)  BY <3>2, <4>2 DEF Publish
      <4>5. \A i \in 1 .. Len(writeCh') : writeCh'[i] = c \/ (i \in 1 .. Len(writeCh) /\ writeCh'[i] = writeCh[i])
        <5>1. writeCh \in Seq(Writes) /\ c \in Writes  BY Bounds DEF FeedInv, Writes
        <5> QED  BY <4>4, <5>1, ChannelValues
      <4> QED  BY <3>1, <4>3, <4>5
    <3>3. CASE ~ Publish
      <4>1. writeCh' = writeCh  BY <1>2, <3>3 DEF RefreshLevel2, PassOver, DropChange, CheckRoom, client
      <4> QED  BY <3>1, <4>1
    <3> QED  BY <3>2, <3>3
  <2>7. AllReal'
    <3>1. AllReal  BY DEF FeedInv
    <3> QED  BY <2>1, <2>4, <2>5, <2>6, <3>1 DEF AllReal
  <2> QED  BY <2>3, <2>7
<1> QED  BY <1>1, <1>2

LEMMA ClientAllReal ==
    ASSUME FeedInv
    PROVE  /\ Subscribe \/ Unsubscribe \/ SendMarker => AllReal'
           /\ PublishOther \/ MarkOther => AllReal'
           /\ Forward \/ TakeForward \/ WriteMessage \/ WriteOther => AllReal'
           /\ TakeOther \/ NoSnapshot \/ SendSnapshot \/ Discard \/ Lost \/ Collect => AllReal'
           /\ SendOut \/ SendOwnMarker => AllReal'
<1>1. TypeOK /\ AllReal  BY DEF FeedInv
<1> DEFINE WriteReal(q) == \A n \in 1 .. Len(q) : /\ q[n] \in LevelChange => Real(past, q[n])
                                                  /\ q[n] \in Message => Sound(past, q[n])
           ChangesReal(q) == \A n \in 1 .. Len(q) : q[n] \in LevelChange => Real(past, q[n])
<1>2. /\ \A v \in Writes :
            (v \in LevelChange => Real(past, v)) /\ (v \in Message => Sound(past, v))
            => WriteReal(Append(writeCh, v))
      /\ writeCh # << >> => WriteReal(Tail(writeCh))
  <2>1. WriteReal(writeCh)  BY <1>1 DEF AllReal
  <2>2. writeCh \in Seq(Writes)  BY <1>1, Bounds
  <2> QED  BY <2>1, <2>2, ChannelValues
<1>3. /\ \A v \in L2Changes :
            (v \in LevelChange => Real(past, v)) => ChangesReal(Append(l2ChangeCh, v))
      /\ l2ChangeCh # << >> => ChangesReal(Tail(l2ChangeCh))
  <2>1. ChangesReal(l2ChangeCh)  BY <1>1 DEF AllReal
  <2>2. l2ChangeCh \in Seq(L2Changes)  BY <1>1, Bounds
  <2> QED  BY <2>1, <2>2, ChannelValues
<1> HIDE DEF WriteReal, ChangesReal
<1>4. ASSUME past' = past, change' = change, lastL2' = lastL2,
             forward' \in LevelChange => Real(past, forward'),
             WriteReal(writeCh'), ChangesReal(l2ChangeCh'),
             \A n \in 1 .. Len(changes') : Real(past, changes'[n]),
             out' \in Message => Sound(past, out')
      PROVE  AllReal'
  BY <1>1, <1>4 DEF AllReal, WriteReal, ChangesReal
<1>5. /\ WriteReal(writeCh) /\ ChangesReal(l2ChangeCh) /\ (forward \in LevelChange => Real(past, forward))
      /\ \A n \in 1 .. Len(changes) : Real(past, changes[n])
      /\ out \in Message => Sound(past, out)
  BY <1>1 DEF AllReal, WriteReal, ChangesReal
<1>6. CASE Subscribe \/ Unsubscribe
  <2>1. UNCHANGED <<past, change, lastL2, forward, writeCh, l2ChangeCh, changes, out>>
    BY <1>6 DEF Subscribe, Unsubscribe, service, book
  <2> QED  BY <1>4, <1>5, <2>1
<1>7. CASE SendMarker \/ SendOwnMarker \/ MarkOther
  <2>1. /\ UNCHANGED <<past, change, lastL2, forward, writeCh, changes>> /\ out' \in {out, None}
        /\ \E v \in {Marker, Other("marker")} : l2ChangeCh' = Append(l2ChangeCh, v)
    BY <1>7 DEF SendMarker, SendOwnMarker, MarkOther, service, book
  <2>2. PICK v \in {Marker, Other("marker")} : l2ChangeCh' = Append(l2ChangeCh, v)  BY <2>1
  <2>3. v \in L2Changes /\ v \notin LevelChange
    BY <2>2, MarkerFields, OtherFields DEF L2Changes, OtherChanges
  <2>4. ChangesReal(l2ChangeCh')  BY <1>3, <2>2, <2>3
  <2> QED  BY <1>4, <1>5, <2>1, <2>4, NoneFields
<1>8. CASE Forward
  <2>1. /\ UNCHANGED <<past, change, lastL2, writeCh, changes, out>> /\ forward' = None
        /\ l2ChangeCh' = Append(l2ChangeCh, forward) /\ forward \in LevelChange \cup {Other("change")}
    BY <1>1, <1>8 DEF Forward, service, book, TypeOK
  <2>2. forward \in L2Changes  BY <2>1 DEF L2Changes, OtherChanges
  <2>3. ChangesReal(l2ChangeCh')  BY <1>3, <1>5, <2>1, <2>2
  <2> QED  BY <1>4, <1>5, <2>1, <2>3, NoneFields
<1>9. CASE TakeForward
  <2>1. /\ UNCHANGED <<past, change, lastL2, l2ChangeCh, changes, out>>
        /\ writeCh # << >> /\ writeCh' = Tail(writeCh)
        /\ TakeMessage /\ forward' = Head(writeCh)
    BY <1>9 DEF TakeForward, TakeMessage, service, book
  <2>2. forward' \in LevelChange => Real(past, forward')  BY <1>1, <2>1, HeadOfWrites
  <2> QED  BY <1>2, <1>4, <1>5, <2>1, <2>2
<1>10. CASE WriteMessage \/ WriteOther
  <2>1. /\ UNCHANGED <<past, change, lastL2, l2ChangeCh, changes, out, forward>>
        /\ writeCh # << >> /\ writeCh' = Tail(writeCh)
    BY <1>10 DEF WriteMessage, WriteOther, TakeMessage, service, book
  <2> QED  BY <1>2, <1>4, <1>5, <2>1
<1>11. CASE SendOut
  <2>1. /\ UNCHANGED <<past, change, lastL2, l2ChangeCh, changes, forward>>
        /\ out \in Messages /\ writeCh' = Append(writeCh, out) /\ out' = None
    BY <1>11 DEF SendOut, service, book
  <2>2. out \in Writes /\ out \notin LevelChange
    BY <2>1, MessageFields, OtherFields DEF Writes, Messages
  <2>3. WriteReal(writeCh')  BY <1>2, <1>5, <2>1, <2>2
  <2> QED  BY <1>4, <1>5, <2>1, <2>3, NoneFields
<1>12. ASSUME TakeNext
       PROVE  /\ UNCHANGED <<past, change, lastL2, forward, writeCh>>
              /\ ChangesReal(l2ChangeCh')
  BY <1>3, <1>12 DEF TakeNext, service, book
<1>13. CASE NoSnapshot \/ Discard
  <2>1. TakeNext /\ UNCHANGED <<changes, out>>  BY <1>13 DEF NoSnapshot, Discard, TakeChange
  <2> QED  BY <1>4, <1>5, <1>12, <2>1
<1>14. CASE Lost
  <2>1. TakeNext /\ changes' = << >> /\ out' \in {Marker, None}  BY <1>14 DEF Lost, TakeChange
  <2> QED  BY <1>4, <1>5, <1>12, <2>1, NoneFields, MarkerFields
<1>15. CASE SendSnapshot
  <2>1. /\ TakeNext /\ changes' = changes /\ Usable(lastL2)
        /\ out' = [type |-> "snapshot", seq |-> lastL2.seq, levels |-> lastL2.levels]
    BY <1>15 DEF SendSnapshot, TakeChange
  <2>2. lastL2 # None  BY <2>1 DEF Usable
  <2>3. Sound(past, out')  BY <1>1, <2>1, <2>2 DEF AllReal, Sound
  <2> QED  BY <1>4, <1>5, <1>12, <2>1, <2>3
<1>16. CASE Collect
  <2>1. TakeNext /\ TakeChange /\ ~ WantsSnapshot(Head(l2ChangeCh))  BY <1>16 DEF Collect, TakeChange
  <2>2. PICK c \in LevelChange : c = Head(l2ChangeCh) /\ Real(past, c)
    BY <1>1, <2>1, HeadOfChanges DEF WantsSnapshot
  <2>3. PICK all : all = Append(changes, c)  OBVIOUS
  <2>4. \/ changes' = all /\ out' = out
        \/ changes' = << >> /\ out' = [type |-> "update", seq |-> c.seq, changes |-> all]
    BY <1>16, <2>2, <2>3 DEF Collect
  <2>5. \A n \in 1 .. Len(all) : Real(past, all[n])
    <3>1. changes \in Seq(LevelChange)  BY <1>1, Bounds
    <3>2. \A n \in 1 .. Len(all) : all[n] = c \/ (n \in 1 .. Len(changes) /\ all[n] = changes[n])
      BY <2>3, <3>1, ChannelValues
    <3> QED  BY <1>5, <2>2, <3>2
  <2>6. c.seq <= Len(past)  BY <2>2 DEF Real
  <2>7. CASE changes' = all /\ out' = out  BY <1>4, <1>5, <1>12, <2>1, <2>5, <2>7
  <2>8. CASE changes' = << >> /\ out' = [type |-> "update", seq |-> c.seq, changes |-> all]
    <3>1. Sound(past, out')  BY <2>5, <2>6, <2>8 DEF Sound
    <3> QED  BY <1>4, <1>5, <1>12, <2>1, <2>8, <3>1
  <2> QED  BY <2>4, <2>7, <2>8
<1>17. CASE TakeOther
  <2>1. TakeNext /\ changes' = changes /\ out' \in {None, Other("message"), Other("marker")}
    BY <1>17 DEF TakeOther
  <2> QED  BY <1>4, <1>5, <1>12, <2>1, NoneFields, OtherFields
<1>18. CASE PublishOther
  <2>1. /\ UNCHANGED <<past, change, lastL2, l2ChangeCh, changes, forward, out>>
        /\ \E v \in {Other("change"), Other("message")} : writeCh' = Append(writeCh, v)
    BY <1>18 DEF PublishOther, service, book
  <2>2. PICK v \in {Other("change"), Other("message")} : writeCh' = Append(writeCh, v)  BY <2>1
  <2>3. v \in Writes /\ v \notin LevelChange /\ v \notin Message
    BY <2>2, OtherFields DEF Writes, Messages
  <2>4. WriteReal(writeCh')  BY <1>2, <2>2, <2>3
  <2> QED  BY <1>4, <1>5, <2>1, <2>4
<1> QED  BY <1>6, <1>7, <1>8, <1>9, <1>10, <1>11, <1>13, <1>14, <1>15, <1>16, <1>17, <1>18

\* What the client has is what was, as long as no update repeats a change.
LEMMA ClientViewOK ==
    ASSUME FeedInv
    PROVE  /\ Subscribe \/ Unsubscribe \/ SendMarker => ViewOK'
           /\ PublishOther \/ MarkOther => ViewOK'
           /\ Forward \/ TakeForward \/ WriteMessage \/ WriteOther => ViewOK'
           /\ TakeOther \/ NoSnapshot \/ SendSnapshot \/ Discard \/ Lost \/ Collect => ViewOK'
           /\ SendOut \/ SendOwnMarker => ViewOK'
<1>1. TypeOK /\ AllReal /\ ViewOK  BY DEF FeedInv
<1>2. ASSUME past' = past, view' = view PROVE ViewOK'  BY <1>1, <1>2 DEF ViewOK
<1>3. CASE \/ Subscribe \/ Unsubscribe \/ SendMarker \/ PublishOther \/ MarkOther
           \/ Forward \/ TakeForward \/ WriteOther \/ SendOut \/ SendOwnMarker
  BY <1>2, <1>3 DEF Subscribe, Unsubscribe, SendMarker, PublishOther, MarkOther, Forward, TakeForward,
                    WriteOther, TakeMessage, SendOut, SendOwnMarker, service, book
<1>4. CASE TakeOther \/ NoSnapshot \/ SendSnapshot \/ Discard \/ Lost \/ Collect
  <2>1. TakeNext  BY <1>4 DEF TakeOther, NoSnapshot, SendSnapshot, Discard, Lost, Collect, TakeChange
  <2> QED  BY <1>2, <2>1 DEF TakeNext, service, book
<1>5. CASE WriteMessage
  <2>1. TakeMessage /\ past' = past  BY <1>5 DEF WriteMessage, TakeMessage, service, book
  <2>2. PICK m \in Message : m = Head(writeCh)  BY <1>5 DEF WriteMessage
  <2>3. Sound(past, m)  BY <1>1, <2>1, <2>2, HeadOfWrites
  <2>4. m.seq <= Len(past) /\ m.seq \in Nat  BY <2>3, MessageFields DEF Sound
  <2>5. CASE m.type = "snapshot"
    <3>1. view' = [seq |-> m.seq, levels |-> m.levels, clean |-> TRUE]  BY <1>5, <2>2, <2>5 DEF WriteMessage
    <3>2. m.levels = At(past, m.seq)  BY <2>3, <2>5 DEF Sound
    <3> QED  BY <2>1, <2>4, <3>1, <3>2 DEF ViewOK
  <2>6. CASE m.type = "update"
    <3>1. view # None /\ view \in View /\ Follows(view.seq, m)  BY <1>5, <2>2, <2>6, HeadGoesOn
    <3>2. view.seq \in Nat /\ view.clean \in BOOLEAN  BY <3>1 DEF View
    <3>3. PICK cs \in Seq(LevelChange) : cs = m.changes  BY <2>6, MessageFields
    <3>4. PICK b : b = (view.clean /\ \A n \in DOMAIN cs : cs[n].seq > view.seq)  OBVIOUS
    <3>5. view' = [seq |-> m.seq, levels |-> ViewAfter(view.levels, cs), clean |-> b]
      BY <1>5, <2>2, <2>6, <3>3, <3>4 DEF WriteMessage
    <3>6. ASSUME b PROVE ViewAfter(view.levels, cs) = At(past, m.seq)
      <4>1. view.clean /\ \A n \in 1 .. Len(cs) : cs[n].seq > view.seq
        <5>1. view.clean /\ \A n \in DOMAIN cs : cs[n].seq > view.seq  BY <3>4, <3>6, Zenon
        <5>2. DOMAIN cs = 1 .. Len(cs)  OBVIOUS
        <5> QED  BY <5>1, <5>2, Zenon
      <4>2. \A n \in 1 .. Len(cs) : cs[n].seq \in Nat  BY <3>3, ChangeFields
      <4>3. GoOn(view.seq, cs, m.seq)  BY <2>6, <3>1, <3>3 DEF Follows
      <4>4. m.seq = view.seq + Len(cs) /\ \A i \in 1 .. Len(cs) : cs[i].seq = view.seq + i
        BY <3>2, <4>1, <4>2, <4>3 DEF GoOn
      <4>5. \A i \in 1 .. Len(cs) : Real(past, cs[i])  BY <2>3, <2>6, <3>3 DEF Sound
      <4>6. view.seq + Len(cs) <= Len(past)  BY <2>4, <4>4
      <4>7. view.levels = At(past, view.seq)  BY <1>1, <3>1, <4>1 DEF ViewOK
      <4>8. ViewAfter(At(past, view.seq), cs) = At(past, view.seq + Len(cs))
        BY <1>1, <3>2, <4>4, <4>5, <4>6, ViewAfterChanges
      <4> QED  BY <4>4, <4>7, <4>8
    <3>7. view'.seq = m.seq /\ view'.levels = ViewAfter(view.levels, cs) /\ view'.clean = b  BY <3>5
    <3> QED  BY <2>1, <2>4, <3>6, <3>7 DEF ViewOK
  <2> QED  BY <2>5, <2>6, MessageFields
<1> QED  BY <1>3, <1>4, <1>5
-----------------------------------------------------------------------------
(* The order of the messages.                                              *)

\* Channel q2 is q with m added: places stay, and m is the last message if
\* it is one.
Lengthened(q, q2, v, m) ==
    /\ \A j \in 1 .. Len(q) + 1 : \A x : Precedes(q2, v, x, j) <=> Precedes(q, v, x, j)
    /\ m \in Message => \A x : Precedes(q2, v, x, Len(q2) + 1) <=> x = m.seq
    /\ m \notin Message => \A x : Precedes(q2, v, x, Len(q2) + 1) <=> Precedes(q, v, x, Len(q) + 1)

LEMMA PrecedesAppend ==
    ASSUME NEW q \in Seq(Writes), NEW v, NEW m \in Writes,
           NEW q2, q2 = Append(q, m)
    PROVE  Lengthened(q, q2, v, m)
<1>1. /\ Len(q) \in Nat /\ Len(q2) = Len(q) + 1 /\ q2[Len(q) + 1] = m
      /\ \A i \in 1 .. Len(q) : q2[i] = q[i]
  OBVIOUS
<1>2. ASSUME NEW j \in 1 .. Len(q) + 1, NEW x PROVE Precedes(q2, v, x, j) <=> Precedes(q, v, x, j)
  <2>1. \A i \in 1 .. j - 1 : q2[i] = q[i] /\ (i + 1) .. j - 1 \subseteq 1 .. j - 1  BY <1>1
  <2> QED  BY <2>1, Zenon DEF Precedes
<1>3. ASSUME m \in Message, NEW x PROVE Precedes(q2, v, x, Len(q2) + 1) <=> x = m.seq
  <2>1. PICK L \in Nat : L = Len(q)  BY <1>1
  <2>2. Len(q2) + 1 - 1 = L + 1 /\ q2[L + 1] = m /\ L + 1 \in 1 .. L + 1  BY <1>1, <2>1
  <2>3. ASSUME Precedes(q2, v, x, Len(q2) + 1) PROVE x = m.seq
    <3>1. ~ \A k \in 1 .. L + 1 : q2[k] \notin Message  BY <1>3, <2>2
    <3>2. PICK i \in 1 .. L + 1 : /\ q2[i] \in Message /\ x = q2[i].seq
                                  /\ \A k \in i + 1 .. L + 1 : q2[k] \notin Message
      BY <2>2, <2>3, <3>1 DEF Precedes
    <3>3. i = L + 1  BY <1>3, <2>2, <3>2
    <3> QED  BY <2>2, <3>2, <3>3
  <2>4. ASSUME x = m.seq PROVE Precedes(q2, v, x, Len(q2) + 1)
    <3>1. (L + 1) + 1 .. L + 1 = {}  OBVIOUS
    <3> QED  BY <1>3, <2>2, <2>4, <3>1 DEF Precedes
  <2> QED  BY <2>3, <2>4
<1>4. ASSUME m \notin Message, NEW x
      PROVE  Precedes(q2, v, x, Len(q2) + 1) <=> Precedes(q, v, x, Len(q) + 1)
  <2>1. PICK L \in Nat : L = Len(q)  BY <1>1
  <2>2. Len(q2) + 1 - 1 = L + 1 /\ Len(q) + 1 - 1 = L /\ q2[L + 1] \notin Message  BY <1>1, <1>4, <2>1
  <2>3. \A i \in 1 .. L : q2[i] = q[i]  BY <1>1, <2>1
  <2>4. (\A k \in 1 .. L + 1 : q2[k] \notin Message) <=> (\A k \in 1 .. L : q[k] \notin Message)
    BY <2>2, <2>3
  <2>5. \A i \in 1 .. L : (\A k \in i + 1 .. L + 1 : q2[k] \notin Message)
                          <=> (\A k \in i + 1 .. L : q[k] \notin Message)
    BY <2>2, <2>3
  <2>6. (\E i \in 1 .. L + 1 : /\ q2[i] \in Message /\ x = q2[i].seq
                               /\ \A k \in i + 1 .. L + 1 : q2[k] \notin Message)
        <=> (\E i \in 1 .. L : /\ q[i] \in Message /\ x = q[i].seq
                               /\ \A k \in i + 1 .. L : q[k] \notin Message)
    <3>1. \A i \in 1 .. L + 1 : q2[i] \in Message => i \in 1 .. L  BY <2>2
    <3>2. \A i \in 1 .. L : i \in 1 .. L + 1  OBVIOUS
    <3> QED  BY <2>3, <2>5, <3>1, <3>2, Zenon
  <2>7. Precedes(q2, v, x, Len(q2) + 1) <=>
            \/ \E i \in 1 .. L + 1 : /\ q2[i] \in Message /\ x = q2[i].seq
                                     /\ \A k \in i + 1 .. L + 1 : q2[k] \notin Message
            \/ (\A k \in 1 .. L + 1 : q2[k] \notin Message) /\ v # None /\ x = v.seq
    BY <2>2 DEF Precedes
  <2>8. Precedes(q, v, x, Len(q) + 1) <=>
            \/ \E i \in 1 .. L : /\ q[i] \in Message /\ x = q[i].seq
                                 /\ \A k \in i + 1 .. L : q[k] \notin Message
            \/ (\A k \in 1 .. L : q[k] \notin Message) /\ v # None /\ x = v.seq
    BY <2>2 DEF Precedes
  <2> QED  BY <2>4, <2>6, <2>7, <2>8, Zenon
<1> QED  BY <1>2, <1>3, <1>4 DEF Lengthened

\* Taking the first value moves all by one place; a message then is what the
\* client has.
LEMMA PrecedesTail ==
    ASSUME NEW q \in Seq(Writes), q # << >>, NEW q2, q2 = Tail(q), NEW v, NEW v2,
           \/ q[1] \in Message /\ v2 # None /\ v2.seq = q[1].seq
           \/ q[1] \notin Message /\ v2 = v
    PROVE  \A j \in 1 .. Len(q) : \A x : Precedes(q2, v2, x, j) <=> Precedes(q, v, x, j + 1)
<1>1. Len(q) \in Nat /\ Len(q2) = Len(q) - 1 /\ \A i \in 1 .. Len(q2) : q2[i] = q[i + 1]  OBVIOUS
<1> TAKE j \in 1 .. Len(q)
<1> TAKE x
<1>2. j + 1 - 1 = j /\ 1 \in 1 .. j  OBVIOUS
<1>3. \A i \in 1 .. j - 1 : q2[i] = q[i + 1] /\ i + 1 \in 1 .. j  BY <1>1
<1>4. \A i \in 1 .. j : i = 1 \/ (i - 1 \in 1 .. j - 1 /\ q2[i - 1] = q[i])  BY <1>1
<1> DEFINE Last(s, i, n) == /\ s[i] \in Message /\ x = s[i].seq
                            /\ \A k \in i + 1 .. n : s[k] \notin Message
           Nothing(s, i, n) == \A k \in i .. n : s[k] \notin Message
<1>5. \A i \in 1 .. j - 1 : Last(q2, i, j - 1) <=> Last(q, i + 1, j)
  <2> TAKE i \in 1 .. j - 1
  <2>1. (\A k \in i + 1 .. j - 1 : q2[k] \notin Message) <=> (\A k \in (i + 1) + 1 .. j : q[k] \notin Message)
    <3>1. ASSUME \A k \in i + 1 .. j - 1 : q2[k] \notin Message, NEW k \in (i + 1) + 1 .. j
          PROVE  q[k] \notin Message
      <4>1. k - 1 \in i + 1 .. j - 1 /\ k - 1 \in 1 .. j - 1 /\ (k - 1) + 1 = k  OBVIOUS
      <4>2. q2[k - 1] = q[k]  BY <1>3, <4>1
      <4> QED  BY <3>1, <4>1, <4>2
    <3>2. ASSUME \A k \in (i + 1) + 1 .. j : q[k] \notin Message, NEW k \in i + 1 .. j - 1
          PROVE  q2[k] \notin Message
      <4>1. k + 1 \in (i + 1) + 1 .. j /\ k \in 1 .. j - 1  OBVIOUS
      <4> QED  BY <1>3, <3>2, <4>1
    <3> QED  BY <3>1, <3>2
  <2>2. q2[i] = q[i + 1]  BY <1>3
  <2> QED  BY <2>1, <2>2
<1>6. Nothing(q2, 1, j - 1) <=> Nothing(q, 2, j)
  <2>1. ASSUME Nothing(q2, 1, j - 1), NEW k \in 2 .. j PROVE q[k] \notin Message
    <3>1. k - 1 \in 1 .. j - 1 /\ (k - 1) + 1 = k  OBVIOUS
    <3>2. q2[k - 1] = q[k]  BY <1>3, <3>1
    <3> QED  BY <2>1, <3>1, <3>2
  <2>2. ASSUME Nothing(q, 2, j), NEW k \in 1 .. j - 1 PROVE q2[k] \notin Message
    <3>1. k + 1 \in 2 .. j  OBVIOUS
    <3> QED  BY <1>3, <2>2, <3>1
  <2> QED  BY <2>1, <2>2
<1>7. Last(q, 1, j) <=> q[1] \in Message /\ x = q[1].seq /\ Nothing(q, 2, j)
  <2>1. 1 + 1 = 2  OBVIOUS
  <2> QED  BY <2>1
<1>8. Nothing(q, 1, j) <=> q[1] \notin Message /\ Nothing(q, 2, j)
  <2>1. \A k \in 1 .. j : k = 1 \/ k \in 2 .. j  OBVIOUS
  <2>2. \A k \in 2 .. j : k \in 1 .. j  OBVIOUS
  <2> QED  BY <1>2, <2>1, <2>2
<1>9. Precedes(q2, v2, x, j) <=> \/ \E i \in 1 .. j - 1 : Last(q2, i, j - 1)
                                 \/ Nothing(q2, 1, j - 1) /\ v2 # None /\ x = v2.seq
  BY DEF Precedes
<1>10. Precedes(q, v, x, j + 1) <=> \/ \E i \in 1 .. j : Last(q, i, j)
                                    \/ Nothing(q, 1, j) /\ v # None /\ x = v.seq
  BY <1>2 DEF Precedes
<1> HIDE DEF Last, Nothing
<1>11. (\E i \in 1 .. j : Last(q, i, j)) <=> Last(q, 1, j) \/ \E i \in 1 .. j - 1 : Last(q, i + 1, j)
  <2>1. \A i \in 1 .. j : i = 1 \/ (i - 1 \in 1 .. j - 1 /\ (i - 1) + 1 = i)  OBVIOUS
  <2>2. \A i \in 1 .. j - 1 : i + 1 \in 1 .. j  OBVIOUS
  <2>3. ASSUME NEW i \in 1 .. j, Last(q, i, j)
        PROVE  Last(q, 1, j) \/ \E k \in 1 .. j - 1 : Last(q, k + 1, j)
    <3>1. CASE i = 1  BY <2>3, <3>1
    <3>2. CASE i # 1
      <4>1. i - 1 \in 1 .. j - 1 /\ Last(q, (i - 1) + 1, j)  BY <2>1, <2>3, <3>2, Zenon
      <4> QED  BY <4>1, Zenon
    <3> QED  BY <3>1, <3>2
  <2> QED  BY <1>2, <2>2, <2>3, Zenon
<1> QED  BY <1>5, <1>6, <1>7, <1>8, <1>9, <1>10, <1>11, Zenon

\* Places with the same messages before them are alike.
LEMMA PlaceSame ==
    ASSUME NEW q, NEW v, NEW j, NEW q2, NEW v2, NEW j2,
           \A x : Precedes(q2, v2, x, j2) <=> Precedes(q, v, x, j), NEW m, InPlace(q, v, m, j)
    PROVE  InPlace(q2, v2, m, j2)
BY Zenon DEF InPlace

\* The next change goes on from what was collected.
LEMMA GoOnNext ==
    ASSUME NEW x \in Nat, NEW cs \in Seq(LevelChange), NEW n \in Nat, NEW c \in LevelChange,
           GoOn(x, cs, n), c.seq = n + 1
    PROVE  GoOn(x, Append(cs, c), n + 1)
<1>1. PICK all : all = Append(cs, c)  OBVIOUS
<1>2. /\ Len(all) = Len(cs) + 1 /\ Len(cs) \in Nat /\ all[Len(cs) + 1] = c
      /\ \A i \in 1 .. Len(cs) : all[i] = cs[i]
  BY <1>1
<1>3. CASE \E i \in 1 .. Len(cs) : cs[i].seq <= x
  <2>1. PICK i \in 1 .. Len(cs) : cs[i].seq <= x  BY <1>3
  <2>2. i \in 1 .. Len(all) /\ all[i].seq <= x  BY <1>2, <2>1
  <2> QED  BY <1>1, <2>2 DEF GoOn
<1>4. CASE n = x + Len(cs) /\ \A i \in 1 .. Len(cs) : cs[i].seq = x + i
  <2>1. \A i \in 1 .. Len(all) : i \in 1 .. Len(cs) \/ i = Len(cs) + 1  BY <1>2
  <2>2. ASSUME NEW i \in 1 .. Len(all) PROVE all[i].seq = x + i
    <3>1. CASE i \in 1 .. Len(cs)  BY <1>2, <1>4, <3>1
    <3>2. CASE i = Len(cs) + 1
      <4>1. all[i] = c  BY <1>2, <3>2
      <4>2. n + 1 = x + i  BY <1>2, <1>4, <3>2
      <4> QED  BY <4>1, <4>2
    <3> QED  BY <2>1, <3>1, <3>2
  <2>3. n + 1 = x + Len(all)  BY <1>2, <1>4
  <2> QED  BY <1>1, <2>2, <2>3 DEF GoOn
<1> QED  BY <1>3, <1>4 DEF GoOn

\* Steps that leave the messages alone.
LEMMA MessagesSame ==
    ASSUME FeedInv, writeCh' = writeCh, view' = view, out' = out, resend' = resend,
           changes' = changes, clientSeq' = clientSeq
    PROVE  InOrder' /\ Collected'
BY DEF FeedInv, InOrder, Collected

\* writeCh gets something new.
LEMMA AppendInOrder ==
    ASSUME FeedInv, NEW m \in Writes, writeCh' = Append(writeCh, m), view' = view,
           resend' = resend, changes' = changes, clientSeq' = clientSeq,
           \/ m \notin Message /\ (out' = out \/ (out \notin Message /\ out' \notin Message))
           \/ m \in Message /\ out = m /\ out' = None
    PROVE  InOrder' /\ Collected'
<1>1. /\ TypeOK /\ InOrder /\ Collected
      /\ writeCh \in Seq(Writes) /\ Len(writeCh) \in Nat
  BY Bounds DEF FeedInv
<1>2. /\ \A j \in 1 .. Len(writeCh) + 1 : \A x :
            Precedes(writeCh', view, x, j) <=> Precedes(writeCh, view, x, j)
      /\ m \in Message => \A x : Precedes(writeCh', view, x, Len(writeCh') + 1) <=> x = m.seq
      /\ m \notin Message => \A x : Precedes(writeCh', view, x, Len(writeCh') + 1)
                                    <=> Precedes(writeCh, view, x, Len(writeCh) + 1)
  <2>1. Lengthened(writeCh, writeCh', view, m)  BY <1>1, PrecedesAppend
  <2> QED  BY <2>1, Zenon DEF Lengthened
<1>3. \A x : LastSent(writeCh', view', out', x) <=> LastSent(writeCh, view, out, x)
  <2>1. CASE m \notin Message
    BY <1>2, <2>1 DEF LastSent
  <2>2. CASE m \in Message
    <3>1. out = m /\ out' = None /\ None \notin Message  BY <2>2, MessageFields, NoneFields
    <3> QED  BY <1>2, <2>2, <3>1 DEF LastSent
  <2> QED  BY <2>1, <2>2
<1>4. Collected'  BY <1>1, <1>3 DEF Collected
<1>5. ASSUME NEW j \in 1 .. Len(writeCh'), writeCh'[j] \in Message
      PROVE  InPlace(writeCh', view', writeCh'[j], j)
  <2>1. j \in 1 .. Len(writeCh) + 1 /\ Len(writeCh') = Len(writeCh) + 1  BY <1>1
  <2>2. CASE j \in 1 .. Len(writeCh)
    <3>1. writeCh'[j] = writeCh[j]  BY <1>1, <2>2
    <3>2. InPlace(writeCh, view, writeCh[j], j)  BY <1>1, <1>5, <2>2, <3>1 DEF InOrder
    <3>3. InPlace(writeCh', view, writeCh[j], j)  BY <1>2, <2>1, <3>2, PlaceSame
    <3> QED  BY <3>1, <3>3
  <2>3. CASE j = Len(writeCh) + 1
    <3>1. writeCh'[j] = m  BY <1>1, <2>3
    <3>2. out = m  BY <1>5, <3>1
    <3>3. InPlace(writeCh, view, m, j)  BY <1>1, <1>5, <2>3, <3>1, <3>2 DEF InOrder
    <3>4. InPlace(writeCh', view, m, j)  BY <1>2, <2>1, <3>3, PlaceSame
    <3> QED  BY <3>1, <3>4
  <2> QED  BY <1>1, <2>1, <2>2, <2>3
<1>6. ASSUME out' \in Message PROVE InPlace(writeCh', view', out', Len(writeCh') + 1)
  <2>1. m \notin Message /\ out' = out  BY <1>6, NoneFields
  <2>2. InPlace(writeCh, view, out, Len(writeCh) + 1)  BY <1>1, <1>6, <2>1 DEF InOrder
  <2>3. InPlace(writeCh', view, out, Len(writeCh') + 1)  BY <1>2, <2>1, <2>2, PlaceSame
  <2> QED  BY <2>1, <2>3
<1> QED  BY <1>4, <1>5, <1>6 DEF InOrder

\* runWriter takes the first of writeCh.
LEMMA TailInOrder ==
    ASSUME FeedInv, TakeMessage,
           \/ Head(writeCh) \in Message /\ view' # None /\ view'.seq = Head(writeCh).seq
           \/ Head(writeCh) \notin Message /\ view' = view
    PROVE  InOrder' /\ Collected'
<1>1. /\ TypeOK /\ AllReal /\ InOrder /\ Collected
      /\ writeCh \in Seq(Writes) /\ Len(writeCh) \in Nat
  BY Bounds DEF FeedInv
<1>2. /\ writeCh # << >> /\ writeCh' = Tail(writeCh)
      /\ out' = out /\ resend' = resend /\ changes' = changes /\ clientSeq' = clientSeq
  BY DEF TakeMessage
<1>3. \A j \in 1 .. Len(writeCh) : \A x :
          Precedes(writeCh', view', x, j) <=> Precedes(writeCh, view, x, j + 1)
  <2>1. Head(writeCh) = writeCh[1]  BY <1>1, HeadOfWrites
  <2>2. \/ writeCh[1] \in Message /\ view' # None /\ view'.seq = writeCh[1].seq
        \/ writeCh[1] \notin Message /\ view' = view
    BY <2>1
  <2>3. PICK q2, v2 : q2 = writeCh' /\ v2 = view'  OBVIOUS
  <2> QED  BY <1>1, <1>2, <2>2, <2>3, PrecedesTail
<1>4. Len(writeCh') = Len(writeCh) - 1 /\ Len(writeCh) \in 1 .. Len(writeCh)  BY <1>1, <1>2
<1>5. \A x : Precedes(writeCh', view', x, Len(writeCh') + 1) <=> Precedes(writeCh, view, x, Len(writeCh) + 1)
  <2>1. Len(writeCh') + 1 = Len(writeCh)  BY <1>1, <1>4
  <2> QED  BY <1>3, <1>4, <2>1, Zenon
<1>6. \A x : LastSent(writeCh', view', out', x) <=> LastSent(writeCh, view, out, x)
  BY <1>2, <1>5 DEF LastSent
<1>7. Collected'  BY <1>1, <1>2, <1>6 DEF Collected
<1>8. ASSUME NEW j \in 1 .. Len(writeCh'), writeCh'[j] \in Message
      PROVE  InPlace(writeCh', view', writeCh'[j], j)
  <2>1. j \in 1 .. Len(writeCh) /\ j + 1 \in 1 .. Len(writeCh) /\ writeCh'[j] = writeCh[j + 1]
    BY <1>1, <1>2, <1>4
  <2>2. InPlace(writeCh, view, writeCh[j + 1], j + 1)  BY <1>1, <1>8, <2>1 DEF InOrder
  <2>3. InPlace(writeCh', view', writeCh[j + 1], j)  BY <1>3, <2>1, <2>2, PlaceSame
  <2> QED  BY <2>1, <2>3
<1>9. ASSUME out' \in Message PROVE InPlace(writeCh', view', out', Len(writeCh') + 1)
  <2>1. InPlace(writeCh, view, out, Len(writeCh) + 1)  BY <1>1, <1>2, <1>9 DEF InOrder
  <2>2. InPlace(writeCh', view', out, Len(writeCh') + 1)  BY <1>5, <2>1, PlaceSame
  <2> QED  BY <1>2, <2>2
<1> QED  BY <1>7, <1>8, <1>9 DEF InOrder

\* runL2ChangeWriter takes a change, and may make a message.
LEMMA TakeChangeInOrder ==
    ASSUME FeedInv, TakeOther \/ NoSnapshot \/ SendSnapshot \/ Discard \/ Lost \/ Collect
    PROVE  InOrder' /\ Collected'
<1>1. /\ TypeOK /\ AllReal /\ InOrder /\ Collected
      /\ changes \in Seq(LevelChange) /\ Len(changes) \in Nat /\ clientSeq \in Nat
      /\ Len(past) \in Nat /\ MaxChanges \in Nat /\ Len(past) <= MaxChanges
  BY Bounds DEF FeedInv
<1>2. TakeOther \/ TakeChange  BY DEF NoSnapshot, SendSnapshot, Discard, Lost, Collect
<1>3. out = None /\ writeCh' = writeCh /\ view' = view  BY <1>2 DEF TakeOther, TakeChange, TakeNext
<1>4. \A x : LastSent(writeCh, view, out, x) <=> Precedes(writeCh, view, x, Len(writeCh) + 1)
  BY <1>3, NoneFields DEF LastSent
<1>5. \A x : out' \in Message => (LastSent(writeCh', view', out', x) <=> x = out'.seq)
  BY DEF LastSent
<1>6. \A x : out' \notin Message => (LastSent(writeCh', view', out', x) <=> LastSent(writeCh, view, out, x))
  BY <1>3, <1>4 DEF LastSent
<1>7. ASSUME out' \in Message => InPlace(writeCh, view, out', Len(writeCh) + 1) PROVE InOrder'
  BY <1>1, <1>3, <1>7 DEF InOrder
<1>8. TakeChange => Head(l2ChangeCh).seq \in 0 .. Len(past)  BY <1>1, HeadOfChanges
<1>9. CASE NoSnapshot \/ Discard
  BY <1>3, <1>9, MessagesSame DEF NoSnapshot, Discard
<1>10. CASE Lost
  <2>1. /\ resend' = TRUE /\ changes' = << >> /\ clientSeq' = Head(l2ChangeCh).seq
        /\ Head(l2ChangeCh).seq > clientSeq /\ out' \in {Marker, None}
    BY <1>10 DEF Lost
  <2>2. out' \notin Message  BY <2>1, MarkerFields, NoneFields
  <2>3. \A x \in Seqs : LastSent(writeCh', view', out', x) => x <= clientSeq'
    BY <1>1, <1>6, <1>8, <1>10, <2>1, <2>2 DEF Collected, Seqs, Lost
  <2> QED  BY <1>7, <2>1, <2>2, <2>3 DEF Collected
<1>11. CASE SendSnapshot
  <2>1. /\ resend' = FALSE /\ changes' = changes /\ clientSeq' = lastL2.seq
        /\ lastL2 # None /\ clientSeq <= lastL2.seq
        /\ out' = [type |-> "snapshot", seq |-> lastL2.seq, levels |-> lastL2.levels]
    BY <1>11 DEF SendSnapshot, Usable
  <2>2. PICK s : s = lastL2.seq  OBVIOUS
  <2>3. lastL2 \in Snapshot  BY <1>1, <2>1 DEF TypeOK
  <2>4. s \in Nat /\ s <= Len(past) /\ lastL2.levels \in Levels  BY <1>1, <2>1, <2>2, <2>3 DEF Snapshot, AllReal
  <2>5. out' \in Message /\ out'.seq = s /\ out'.type = "snapshot"  BY <2>1, <2>2, <2>4 DEF Message
  <2>6. \A x \in Seqs : Precedes(writeCh, view, x, Len(writeCh) + 1) => Follows(x, out')
    <3>1. \A x \in Seqs : Precedes(writeCh, view, x, Len(writeCh) + 1) => x <= clientSeq
      BY <1>1, <1>4 DEF Collected
    <3>2. \A x \in Seqs : x <= clientSeq => out'.seq >= x  BY <1>1, <2>1, <2>2, <2>4, <2>5 DEF Seqs
    <3> QED  BY <2>5, <3>1, <3>2 DEF Follows
  <2>7. InPlace(writeCh, view, out', Len(writeCh) + 1)  BY <2>5, <2>6 DEF InPlace
  <2>8. \A n \in 1 .. Len(changes) : changes[n].seq <= s
    BY <1>1, <2>1, <2>2, <2>4, ChangeFields DEF Collected
  <2>9. GoOn(s, changes, s)
    <3>1. CASE Len(changes) = 0  BY <2>4, <3>1 DEF GoOn
    <3>2. CASE Len(changes) # 0
      <4>1. 1 \in 1 .. Len(changes)  BY <1>1, <3>2
      <4> QED  BY <2>8, <4>1 DEF GoOn
    <3> QED  BY <3>1, <3>2
  <2>10. s \in Seqs  BY <1>1, <2>4 DEF Seqs
  <2>11. \A x : LastSent(writeCh', view', out', x) <=> x = s  BY <1>5, <2>5
  <2>12. clientSeq' = s /\ s <= s /\ changes' = changes /\ resend' = FALSE  BY <2>1, <2>2, <2>4
  <2>13. Collected'  BY <2>8, <2>9, <2>10, <2>11, <2>12 DEF Collected
  <2> QED  BY <1>7, <2>7, <2>13
<1>12. CASE Collect
  <2>1. /\ TakeChange /\ ~ WantsSnapshot(Head(l2ChangeCh)) /\ IsNext(Head(l2ChangeCh))
        /\ clientSeq' = Head(l2ChangeCh).seq /\ resend' = resend
    BY <1>12 DEF Collect
  <2>2. PICK c \in LevelChange : c = Head(l2ChangeCh)
    BY <1>1, <2>1, HeadOfChanges DEF WantsSnapshot
  <2>3. PICK all : all = Append(changes, c)  OBVIOUS
  <2>4. \/ changes' = all /\ out' = out
        \/ changes' = << >> /\ out' = [type |-> "update", seq |-> c.seq, changes |-> all]
    BY <1>12, <2>2, <2>3 DEF Collect
  <2>5. /\ c.seq = clientSeq + 1 /\ clientSeq' = clientSeq + 1 /\ clientSeq' = c.seq
        /\ ~ resend /\ c.seq \in Nat /\ c.seq <= Len(past)
    BY <1>1, <1>8, <2>1, <2>2 DEF IsNext, WantsSnapshot
  <2>6. all \in Seq(LevelChange)  BY <1>1, <2>3
  <2>7. ASSUME NEW x \in Seqs, LastSent(writeCh, view, out, x)
        PROVE  x <= c.seq /\ GoOn(x, all, c.seq)
    <3>1. x \in Nat /\ x <= clientSeq /\ GoOn(x, changes, clientSeq)
      BY <1>1, <2>5, <2>7 DEF Collected, Seqs
    <3>2. GoOn(x, Append(changes, c), clientSeq + 1)  BY <1>1, <2>5, <3>1, GoOnNext
    <3> QED  BY <1>1, <2>3, <2>5, <3>1, <3>2
  <2>8. PICK y \in Seqs : LastSent(writeCh, view, out, y)  BY <1>1, <2>5 DEF Collected
  <2>9. CASE changes' = all /\ out' = out
    <3>1. out' \notin Message  BY <1>3, <2>9, NoneFields
    <3>2. \A x : LastSent(writeCh', view', out', x) <=> LastSent(writeCh, view, out, x)  BY <1>6, <3>1
    <3>3. \A n \in 1 .. Len(all) : all[n].seq <= c.seq
      <4>1. \A n \in 1 .. Len(all) : all[n] = c \/ (n \in 1 .. Len(changes) /\ all[n] = changes[n])
        BY <1>1, <2>3, ChannelValues
      <4>2. \A n \in 1 .. Len(changes) : changes[n].seq <= clientSeq /\ changes[n] \in LevelChange
        BY <1>1 DEF Collected
      <4>3. \A n \in 1 .. Len(changes) : changes[n].seq <= c.seq  BY <1>1, <2>5, <4>2, ChangeFields
      <4> QED  BY <2>5, <4>1, <4>3
    <3>4. Collected'  BY <2>1, <2>5, <2>7, <2>8, <2>9, <3>2, <3>3 DEF Collected
    <3> QED  BY <1>7, <3>1, <3>4
  <2>10. CASE changes' = << >> /\ out' = [type |-> "update", seq |-> c.seq, changes |-> all]
    <3>1. out' \in Message  BY <2>5, <2>6, <2>10 DEF Message
    <3>2. out'.seq = c.seq /\ out'.type = "update" /\ out'.changes = all  BY <2>10
    <3>3. \A x \in Seqs : Precedes(writeCh, view, x, Len(writeCh) + 1) => Follows(x, out')
      <4>1. \A x \in Seqs : x <= c.seq => c.seq >= x  BY <2>5 DEF Seqs
      <4> QED  BY <1>4, <2>7, <3>2, <4>1 DEF Follows
    <3>4. InPlace(writeCh, view, out', Len(writeCh) + 1)
      <4>1. Precedes(writeCh, view, y, Len(writeCh) + 1)  BY <1>4, <2>8
      <4> QED  BY <3>3, <4>1 DEF InPlace
    <3>5. \A x : LastSent(writeCh', view', out', x) <=> x = c.seq  BY <1>5, <3>1, <3>2
    <3>6. GoOn(c.seq, << >>, c.seq)  BY <2>5 DEF GoOn
    <3>7. c.seq \in Seqs /\ c.seq <= c.seq  BY <1>1, <2>5 DEF Seqs
    <3>8. Collected'  BY <2>1, <2>5, <2>10, <3>5, <3>6, <3>7 DEF Collected
    <3> QED  BY <1>7, <3>4, <3>8
  <2> QED  BY <2>4, <2>9, <2>10
<1>13. CASE TakeOther
  <2>1. /\ UNCHANGED <<resend, changes, clientSeq>>
        /\ out' \in {None, Other("message"), Other("marker")}
    BY <1>13 DEF TakeOther
  <2>2. out' \notin Message  BY <2>1, NoneFields, OtherFields
  <2>3. \A x : LastSent(writeCh', view', out', x) <=> LastSent(writeCh, view, out, x)  BY <1>6, <2>2
  <2>4. Collected'  BY <1>1, <2>1, <2>3 DEF Collected
  <2> QED  BY <1>7, <2>2, <2>4
<1> QED  BY <1>9, <1>10, <1>11, <1>12, <1>13
-----------------------------------------------------------------------------
(* The theorems.                                                           *)

LEMMA FeedInit == ASSUME Init PROVE FeedInv
<1>1. /\ WriteCap \in Nat /\ L2Cap \in Nat /\ Batch \in Nat \ {0} /\ MaxChanges \in Nat /\ MaxSubs \in Nat
      /\ MaxOthers \in Nat /\ None \notin Message /\ None \notin LevelChange
  BY Level2FeedAssumption, NoneFields
<1>2. TypeOK
  <2>1. /\ past \in Seq(Levels) /\ Len(past) = 0 /\ changes \in Seq(LevelChange) /\ Len(changes) = 0
        /\ writeCh \in Seq(Writes) /\ Len(writeCh) = 0
        /\ l2ChangeCh \in Seq(L2Changes) /\ Len(l2ChangeCh) = 0
    BY DEF Init
  <2>2. 0 <= MaxChanges /\ 0 <= WriteCap /\ 0 <= L2Cap /\ 0 < Batch  BY <1>1
  <2>3. clientSeq \in 0 .. Len(past) /\ usedUp \in -1 .. Len(past) /\ subs \in 0 .. MaxSubs /\ others \in 0 .. MaxOthers
    BY <1>1, <2>1 DEF Init
  <2> QED  BY <2>1, <2>2, <2>3 DEF Init, TypeOK, Writes
<1>3. AllReal /\ ViewOK  BY <1>1 DEF Init, AllReal, ViewOK
<1>4. \A x : ~ LastSent(writeCh, view, out, x)
  <2>1. Len(writeCh) + 1 - 1 = 0 /\ 1 .. 0 = {} /\ out \notin Message /\ view = None  BY <1>1 DEF Init
  <2> QED  BY <2>1 DEF LastSent, Precedes
<1>5. InOrder  BY <1>1 DEF Init, InOrder
<1>6. Collected  BY <1>4 DEF Init, Collected
<1> QED  BY <1>2, <1>3, <1>5, <1>6 DEF FeedInv

LEMMA FeedNext == ASSUME FeedInv, [Next]_vars PROVE FeedInv'
<1>1. TypeOK  BY DEF FeedInv
<1>2. CASE \E k \in Keys, size \in Sizes : ApplyChange(k, size)
  <2>1. UNCHANGED <<writeCh, view, out, resend, changes, clientSeq>>  BY <1>2 DEF ApplyChange, client
  <2> QED  BY <1>1, <1>2, <2>1, BookTypeOK, BookAllReal, MessagesSame DEF FeedInv
<1>3. CASE RefreshLevel2 \/ PassOver \/ DropChange \/ CheckRoom
  <2>1. UNCHANGED <<writeCh, view, out, resend, changes, clientSeq>>
    BY <1>3 DEF RefreshLevel2, PassOver, DropChange, CheckRoom, client
  <2> QED  BY <1>1, <1>3, <2>1, BookTypeOK, BookAllReal, MessagesSame DEF FeedInv
<1>4. CASE Publish
  <2>1. change \in Publication  BY <1>1, <1>4 DEF Publish, TypeOK
  <2>2. change.it \in Writes /\ change.it \notin Message
    <3>1. change.it \in LevelChange  BY <2>1 DEF Publication
    <3> QED  BY <3>1, ChangeFields DEF Writes
  <2>3. /\ writeCh' = Append(writeCh, change.it)
        /\ UNCHANGED <<view, out, resend, changes, clientSeq>>
    BY <1>4 DEF Publish
  <2> QED  BY <1>1, <1>4, <2>2, <2>3, BookTypeOK, BookAllReal, AppendInOrder DEF FeedInv
<1>5. CASE Subscribe \/ Unsubscribe \/ SendMarker \/ MarkOther
  <2>1. UNCHANGED <<writeCh, view, out, resend, changes, clientSeq>>
    BY <1>5 DEF Subscribe, Unsubscribe, SendMarker, MarkOther
  <2> QED  BY <1>5, <2>1, ClientTypeOK, ClientAllReal, ClientViewOK, MessagesSame DEF FeedInv
<1>6. CASE Forward
  <2>1. UNCHANGED <<writeCh, view, out, resend, changes, clientSeq>>  BY <1>6 DEF Forward
  <2> QED  BY <1>6, <2>1, ClientTypeOK, ClientAllReal, ClientViewOK, MessagesSame DEF FeedInv
<1>7. CASE TakeForward \/ WriteOther
  <2>1. TakeMessage /\ Head(writeCh) \notin Message /\ view' = view
    BY <1>7, ChangeFields, OtherFields DEF TakeForward, WriteOther
  <2> QED  BY <1>7, <2>1, ClientTypeOK, ClientAllReal, ClientViewOK, TailInOrder DEF FeedInv
<1>8. CASE WriteMessage
  <2>1. /\ TakeMessage /\ Head(writeCh) \in Message /\ view'.seq = Head(writeCh).seq
    BY <1>8 DEF WriteMessage
  <2>2. view' # None
    BY <1>8, WriteMessageType, NoneFields
  <2> QED  BY <1>8, <2>1, <2>2, ClientTypeOK, ClientAllReal, ClientViewOK, TailInOrder DEF FeedInv
<1>9. CASE TakeOther \/ NoSnapshot \/ SendSnapshot \/ Discard \/ Lost \/ Collect
  BY <1>9, ClientTypeOK, ClientAllReal, ClientViewOK, TakeChangeInOrder DEF FeedInv
<1>10. CASE SendOut
  <2>1. /\ out \in Messages /\ writeCh' = Append(writeCh, out) /\ out' = None
        /\ UNCHANGED <<view, resend, changes, clientSeq>>
    BY <1>10 DEF SendOut
  <2>2. out \in Writes /\ out' \notin Message  BY <2>1, NoneFields DEF Writes
  <2> QED  BY <1>10, <2>1, <2>2, ClientTypeOK, ClientAllReal, ClientViewOK, AppendInOrder DEF FeedInv
<1>11. CASE SendOwnMarker
  <2>1. /\ UNCHANGED <<writeCh, view, resend, changes, clientSeq>> /\ out' = None
        /\ out \in {Marker, Other("marker")}
    BY <1>11 DEF SendOwnMarker
  <2>2. InOrder' /\ Collected'
    <3>1. out \notin Message /\ out' \notin Message  BY <2>1, MarkerFields, OtherFields, NoneFields
    <3>2. InOrder /\ Collected  BY DEF FeedInv
    <3>3. \A x : LastSent(writeCh', view', out', x) <=> LastSent(writeCh, view, out, x)
      BY <2>1, <3>1 DEF LastSent
    <3>4. InOrder'  BY <2>1, <3>1, <3>2 DEF InOrder
    <3>5. Collected'  BY <2>1, <3>2, <3>3 DEF Collected
    <3> QED  BY <3>4, <3>5
  <2> QED  BY <1>11, <2>2, ClientTypeOK, ClientAllReal, ClientViewOK DEF FeedInv
<1>12. CASE UNCHANGED vars
  <2>1. UNCHANGED <<past, lastL2, change, subscribed, marker, writeCh, l2ChangeCh, forward, resend,
                    changes, clientSeq, out, view, missed, usedUp, heldUp, subs, others>>
    BY <1>12 DEF vars, book
  <2> QED  BY <2>1 DEF FeedInv, TypeOK, AllReal, ViewOK, InOrder, Collected
<1>13. CASE PublishOther
  <2>1. /\ UNCHANGED <<view, out, resend, changes, clientSeq>>
        /\ \E v \in {Other("change"), Other("message")} : writeCh' = Append(writeCh, v)
    BY <1>13 DEF PublishOther
  <2>2. PICK v \in {Other("change"), Other("message")} : writeCh' = Append(writeCh, v)  BY <2>1
  <2>3. v \in Writes /\ v \notin Message  BY <2>2, OtherFields DEF Writes, Messages
  <2> QED  BY <1>13, <2>1, <2>2, <2>3, ClientTypeOK, ClientAllReal, ClientViewOK, AppendInOrder DEF FeedInv
<1> QED  BY <1>2, <1>3, <1>4, <1>5, <1>6, <1>7, <1>8, <1>9, <1>10, <1>11, <1>12, <1>13 DEF Next, FeedStep

LEMMA FeedInvariant == Spec => []FeedInv
BY FeedInit, FeedNext, PTL DEF Spec

\* The goroutines of the feed keep their types, the channels their capacity
\* and the batch its size, whatever they interleave.
THEOREM FeedTypeOK == Spec => []TypeOK
<1>1. FeedInv => TypeOK  BY DEF FeedInv
<1> QED  BY <1>1, FeedInvariant, PTL

\* The client's levels are the book's at the client's seq, whatever publish
\* dropped and runL2ChangeWriter discarded, batched or sent again, until an
\* update repeats a change older than what the client has.
THEOREM FeedViewExact == Spec => []ViewExact
<1>1. FeedInv => ViewExact  BY DEF FeedInv, ViewOK, ViewExact, At
<1> QED  BY <1>1, FeedInvariant, PTL

\* What runL2ChangeWriter has written to the client, a snapshot or an update,
\* takes it to a seq not before the one it has and to the levels the book had
\* at that seq, as long as no update repeats changes of before a snapshot.
THEOREM FeedViewNeverBack == Spec => ViewNeverBack
<1> DEFINE Forth == view # None => view'.seq >= view.seq /\ (view.clean => view.levels = BookAt(view.seq))'
<1>1. ASSUME FeedInv, [Next]_vars PROVE [Forth]_vars
  <2> SUFFICES ASSUME view # None
               PROVE  view'.seq >= view.seq /\ (view.clean => view.levels = BookAt(view.seq))'
    OBVIOUS
  <2>1. CASE WriteMessage
    <3>1. view'.seq = Head(writeCh).seq  BY <2>1 DEF WriteMessage
    <3>2. view'.seq >= view.seq  BY <1>1, <2>1, <3>1, HeadGoesOn DEF Follows
    <3>3. view' # None  BY <1>1, <2>1, WriteMessageType, NoneFields
    <3> QED  BY <1>1, <3>2, <3>3, FeedNext DEF FeedInv, ViewOK, At, BookAt
  <2>2. CASE ~ WriteMessage
    <3>1. view' = view
      BY <1>1, <2>2 DEF Next, FeedStep, ApplyChange, RefreshLevel2, PassOver, DropChange, CheckRoom,
         Publish, Subscribe, Unsubscribe, SendMarker, PublishOther, MarkOther, Forward, TakeForward,
         WriteOther, TakeOther, NoSnapshot, SendSnapshot, Discard, Lost, Collect, TakeChange, TakeNext,
         SendOut, SendOwnMarker, client, vars
    <3>2. view \in View  BY <1>1 DEF FeedInv, TypeOK
    <3>3. view.seq \in Nat  BY <3>2 DEF View
    <3>4. view' # None /\ view'.seq >= view.seq  BY <3>1, <3>3
    <3> QED  BY <1>1, <3>4, FeedNext DEF FeedInv, ViewOK, At, BookAt
  <2> QED  BY <2>1, <2>2
<1> QED  BY <1>1, FeedInvariant, PTL DEF Spec, ViewNeverBack
=============================================================================
