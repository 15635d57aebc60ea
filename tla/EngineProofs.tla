---------------------------- MODULE EngineProofs ----------------------------
(***************************************************************************)
(* Proofs about module Engine, for any messages, any matching function,    *)
(* windows, channel capacities, batches and bounds: types, that snapshots  *)
(* only advance, that a stored snapshot is the replay of its messages, and *)
(* that a log reader sees the crash-free log.                              *)
(***************************************************************************)
EXTENDS Engine, SumProofs

-----------------------------------------------------------------------------
(* Replay: one message after another.                                      *)

IsRun(f, msgs) ==
    f = [n \in 0 .. Len(msgs) |-> IF n = 0 THEN NothingApplied ELSE ReplayOne(f[n - 1], msgs[n])]

IsRunUpTo(f, msgs, m) ==
    f = [n \in 0 .. m |-> IF n = 0 THEN NothingApplied ELSE ReplayOne(f[n - 1], msgs[n])]

LEMMA RunExists == ASSUME NEW msgs, Len(msgs) \in Nat PROVE \E f : IsRun(f, msgs)
<1>1. \E f : IsRunUpTo(f, msgs, 0)
  <2> DEFINE f == [n \in 0 .. 0 |-> NothingApplied]
  <2>1. IsRunUpTo(f, msgs, 0)  BY DEF IsRunUpTo
  <2> QED  BY <2>1
<1>2. ASSUME NEW m \in Nat, NEW f, IsRunUpTo(f, msgs, m)
      PROVE  \E h : IsRunUpTo(h, msgs, m + 1)
  <2> DEFINE h == [n \in 0 .. m + 1 |->
                     IF n = 0 THEN NothingApplied ELSE ReplayOne(f[n - 1], msgs[n])]
  <2>1. \A n \in 0 .. m : f[n] = IF n = 0 THEN NothingApplied ELSE ReplayOne(f[n - 1], msgs[n])
    BY <1>2 DEF IsRunUpTo
  <2>2. \A n \in 0 .. m : h[n] = f[n]
    <3>1. \A n \in 0 .. m : n \in 0 .. m + 1  OBVIOUS
    <3> QED  BY <2>1, <3>1
  <2>3. \A n \in 0 .. m + 1 : n # 0 => n - 1 \in 0 .. m  OBVIOUS
  <2>4. h = [n \in 0 .. m + 1 |-> IF n = 0 THEN NothingApplied ELSE ReplayOne(h[n - 1], msgs[n])]
    BY <2>2, <2>3
  <2>5. IsRunUpTo(h, msgs, m + 1)
    <3> HIDE DEF h
    <3> QED  BY <2>4 DEF IsRunUpTo
  <2> QED  BY <2>5
<1>3. \E f : IsRunUpTo(f, msgs, Len(msgs))
  <2> DEFINE N == {n \in Nat : ~ \E f : IsRunUpTo(f, msgs, n)}
  <2>1. CASE N # {}
    <3>0. N \in SUBSET Nat  OBVIOUS
    <3>1. PICK m \in N : \A n \in N : m <= n
      <4> HIDE DEF N
      <4> QED  BY <2>1, <3>0, NatMin
    <3>2. m # 0  BY <1>1
    <3>3. m - 1 \in Nat /\ m - 1 \notin N /\ (m - 1) + 1 = m  BY <3>1, <3>2
    <3>4. PICK f : IsRunUpTo(f, msgs, m - 1)  BY <3>3
    <3>5. \E h : IsRunUpTo(h, msgs, (m - 1) + 1)  BY <1>2, <3>3, <3>4
    <3> QED  BY <3>3, <3>5
  <2>2. CASE N = {}  BY <2>2
  <2> QED  BY <2>1, <2>2
<1> QED  BY <1>3 DEF IsRunUpTo, IsRun

\* Replay is the last value of such a function.
LEMMA ReplayRun ==
    ASSUME NEW msgs, Len(msgs) \in Nat
    PROVE  \E f : IsRun(f, msgs) /\ Replay(msgs) = f[Len(msgs)]
<1> DEFINE it == CHOOSE f :
        f = [n \in 0 .. Len(msgs) |-> IF n = 0 THEN NothingApplied ELSE ReplayOne(f[n - 1], msgs[n])]
<1>1. Replay(msgs) = it[Len(msgs)]  BY DEF Replay
<1>2. IsRun(it, msgs)
  <2>1. PICK h : IsRun(h, msgs)  BY RunExists
  <2> QED  BY <2>1 DEF IsRun
<1> QED  BY <1>1, <1>2

\* Two such functions agree on a common prefix.
LEMMA RunUnique ==
    ASSUME NEW msgs, NEW others, Len(msgs) \in Nat, Len(others) \in Nat, NEW f, NEW g,
           IsRun(f, msgs), IsRun(g, others), NEW m \in Nat, m <= Len(msgs), m <= Len(others),
           \A n \in 1 .. m : msgs[n] = others[n]
    PROVE  f[m] = g[m]
<1> DEFINE N == {n \in 0 .. m : f[n] # g[n]}
<1>1. CASE N # {}
  <2>0. N \in SUBSET Nat  OBVIOUS
  <2>1. PICK k \in N : \A n \in N : k <= n
    <3> HIDE DEF N
    <3> QED  BY <1>1, <2>0, NatMin
  <2>2. k \in 0 .. m /\ k \in 0 .. Len(msgs) /\ k \in 0 .. Len(others) /\ f[k] # g[k]  BY <2>1
  <2>3. /\ f[k] = IF k = 0 THEN NothingApplied ELSE ReplayOne(f[k - 1], msgs[k])
        /\ g[k] = IF k = 0 THEN NothingApplied ELSE ReplayOne(g[k - 1], others[k])
    BY <2>2 DEF IsRun
  <2>4. k # 0  BY <2>2, <2>3
  <2>5. k - 1 \in 0 .. m /\ k - 1 \notin N /\ msgs[k] = others[k]  BY <2>1, <2>2, <2>4
  <2>6. f[k - 1] = g[k - 1]  BY <2>5
  <2> QED  BY <2>2, <2>3, <2>4, <2>5, <2>6
<1>2. CASE N = {}  BY <1>2
<1> QED  BY <1>1, <1>2

\* The state after n messages.
Upto(msgs, n) == Replay(SubSeq(msgs, 1, n))

LEMMA UptoRun ==
    ASSUME NEW msgs \in Seq(Messages), NEW f, IsRun(f, msgs)
    PROVE  \A n \in 0 .. Len(msgs) : Upto(msgs, n) = f[n]
<1> TAKE n \in 0 .. Len(msgs)
<1>1. PICK s : s = SubSeq(msgs, 1, n)  OBVIOUS
<1>2. Len(s) = n /\ \A k \in 1 .. n : msgs[k] = s[k]  BY <1>1
<1>3. PICK g : IsRun(g, s) /\ Replay(s) = g[Len(s)]  BY <1>2, ReplayRun
<1>4. Len(msgs) \in Nat  OBVIOUS
<1>5. f[n] = g[n]  BY <1>2, <1>3, <1>4, RunUnique
<1> QED  BY <1>1, <1>2, <1>3, <1>5 DEF Upto

\* What Replay computes, message by message.
LEMMA UptoDef ==
    ASSUME NEW msgs \in Seq(Messages)
    PROVE  /\ Upto(msgs, 0) = NothingApplied
           /\ \A n \in 1 .. Len(msgs) : Upto(msgs, n) = ReplayOne(Upto(msgs, n - 1), msgs[n])
           /\ Upto(msgs, Len(msgs)) = Replay(msgs)
<1>0. Len(msgs) \in Nat  OBVIOUS
<1>1. PICK f : IsRun(f, msgs) /\ Replay(msgs) = f[Len(msgs)]  BY <1>0, ReplayRun
<1>2. \A n \in 0 .. Len(msgs) : Upto(msgs, n) = f[n]  BY <1>1, UptoRun
<1>3. \A n \in 0 .. Len(msgs) :
         f[n] = IF n = 0 THEN NothingApplied ELSE ReplayOne(f[n - 1], msgs[n])
  BY <1>1 DEF IsRun
<1>4. Upto(msgs, 0) = NothingApplied  BY <1>0, <1>2, <1>3
<1>5. \A n \in 1 .. Len(msgs) : Upto(msgs, n) = ReplayOne(Upto(msgs, n - 1), msgs[n])
  <2> TAKE n \in 1 .. Len(msgs)
  <2>1. n \in 0 .. Len(msgs) /\ n - 1 \in 0 .. Len(msgs) /\ n # 0  BY <1>0
  <2> QED  BY <1>2, <1>3, <2>1
<1>6. Len(msgs) \in 0 .. Len(msgs)  BY <1>0
<1> QED  BY <1>1, <1>2, <1>4, <1>5, <1>6

\* The messages of a prefix.
LEMMA UptoAgree ==
    ASSUME NEW msgs \in Seq(Messages), NEW others \in Seq(Messages), NEW n \in Nat,
           n <= Len(msgs), n <= Len(others), \A k \in 1 .. n : msgs[k] = others[k]
    PROVE  Upto(msgs, n) = Upto(others, n)
<1>1. SubSeq(msgs, 1, n) = SubSeq(others, 1, n)  OBVIOUS
<1> QED  BY <1>1 DEF Upto

\* A replay is well formed: its logs are numbered from 1 to logSeq.
WellFormed(r) ==
    /\ r.book \in Books /\ r.logs \in Seq(Logs)
    /\ Len(r.logs) = r.book.logSeq
    /\ \A k \in 1 .. Len(r.logs) : r.logs[k].seq = k
\* The windows, and what the handlers do.
LEMMA PutType ==
    ASSUME NEW w \in Windows, NEW id \in Nat PROVE Put(w, id) \in Windows
<1>1. w.lo \in Nat /\ w.seen \in SUBSET Nat  BY DEF Windows
<1>2. CASE Accepts(w, id)
  <2>1. PICK lo : lo = LoAfter(w, id)  OBVIOUS
  <2>2. lo \in Nat  BY <1>1, <2>1, CapAssumption DEF LoAfter
  <2>3. PICK seen : seen = {i \in w.seen \cup {id} : i >= lo}  OBVIOUS
  <2>4. seen \in SUBSET Nat  BY <1>1, <2>3
  <2>5. Put(w, id) = [lo |-> lo, seen |-> seen]  BY <1>2, <2>1, <2>3 DEF Put
  <2> QED  BY <2>2, <2>4, <2>5 DEF Windows
<1>3. CASE ~ Accepts(w, id)  BY <1>3 DEF Put
<1> QED  BY <1>2, <1>3

LEMMA ShardType == ASSUME NEW id \in Nat PROVE Shard(id) \in Shards
<1>1. IdStep \in Nat \ {0} /\ SplitCount \in Nat \ {0}  BY BookAssumption
<1>2. PICK q : q = id \div IdStep  OBVIOUS
<1>3. q \in Int  BY <1>1, <1>2
<1>4. q % SplitCount \in 0 .. SplitCount - 1  BY <1>1, <1>3
<1> QED  BY <1>2, <1>4 DEF Shard, Shards

LEMMA PutIdType ==
    ASSUME NEW ws \in [Shards -> Windows], NEW m \in Messages
    PROVE  PutId(ws, m) \in [Shards -> Windows]
<1>1. m.id \in Nat  BY BookAssumption DEF Messages
<1>2. PICK s : s = Shard(m.id)  OBVIOUS
<1>3. s \in Shards  BY <1>1, <1>2, ShardType
<1>4. PICK w : w = Put(ws[s], m.id)  OBVIOUS
<1>5. w \in Windows  BY <1>1, <1>3, <1>4, PutType
<1>6. [ws EXCEPT ![s] = w] \in [Shards -> Windows]  BY <1>3, <1>5
<1>7. PutId(ws, m) = ws \/ PutId(ws, m) = [ws EXCEPT ![s] = w]  BY <1>2, <1>4 DEF PutId
<1> QED  BY <1>6, <1>7

LEMMA UntouchedType == ASSUME NEW orders \in OrderMaps PROVE Untouched(orders) \in Outcomes
<1>1. << >> \in Seq(Entries)  OBVIOUS
<1> QED  BY <1>1 DEF Untouched, Outcomes

LEMMA OneEntry ==
    ASSUME NEW id \in Ids, NEW n \in Nat
    PROVE  <<DoneEntry(id, n)>> \in Seq(Entries)
<1>1. DoneEntry(id, n) \in Entries  BY DEF DoneEntry, Entries
<1> QED  BY <1>1

LEMMA CancelType ==
    ASSUME NEW orders \in OrderMaps, NEW id \in Ids PROVE CancelOrder(orders, id) \in Outcomes
<1>1. PICK S \in SUBSET Ids : orders \in [S -> Rests]  BY DEF OrderMaps
<1>2. CASE id \in S
  <2>1. PICK rest : rest = [i \in DOMAIN orders \ {id} |-> orders[i]]  OBVIOUS
  <2>2. rest \in OrderMaps
    <3>1. rest \in [S \ {id} -> Rests]  BY <1>1, <2>1
    <3>2. S \ {id} \in SUBSET Ids  OBVIOUS
    <3> QED  BY <3>1, <3>2 DEF OrderMaps
  <2>3. orders[id] \in Nat  BY <1>1, <1>2, BookAssumption
  <2>4. PICK es : es = <<DoneEntry(id, orders[id])>>  OBVIOUS
  <2>5. es \in Seq(Entries)  BY <2>3, <2>4, OneEntry
  <2>6. CancelOrder(orders, id) = [orders |-> rest, trades |-> 0, entries |-> es]
    BY <1>1, <1>2, <2>1, <2>4 DEF CancelOrder
  <2> QED  BY <2>2, <2>5, <2>6 DEF Outcomes
<1>3. CASE id \notin S  BY <1>1, <1>3, UntouchedType DEF CancelOrder
<1> QED  BY <1>2, <1>3

LEMMA NullifyType ==
    ASSUME NEW orders \in OrderMaps, NEW id \in Ids PROVE NullifyOrder(orders, id) \in Outcomes
<1>1. Size[id] \in Nat  BY BookAssumption
<1>2. PICK es : es = <<DoneEntry(id, Size[id])>>  OBVIOUS
<1>3. es \in Seq(Entries)  BY <1>1, <1>2, OneEntry
<1> QED  BY <1>2, <1>3 DEF NullifyOrder, Outcomes

LEMMA ApplyOrderType ==
    ASSUME NEW b \in Books, NEW id \in Ids PROVE ApplyOrder(b, id) \in Outcomes
<1>1. b.orders \in OrderMaps  BY DEF Books
<1>2. Match[id][b.orders] \in Outcomes  BY <1>1, BookAssumption
<1> QED  BY <1>1, <1>2, UntouchedType DEF ApplyOrder

LEMMA CancelRestType ==
    ASSUME NEW r \in Outcomes, NEW id \in Ids PROVE CancelRest(r, id) \in Outcomes
<1>1. r.orders \in OrderMaps /\ r.trades \in Nat /\ r.entries \in Seq(Entries)  BY DEF Outcomes
<1>2. PICK c : c = CancelOrder(r.orders, id)  OBVIOUS
<1>3. c \in Outcomes  BY <1>1, <1>2, CancelType
<1>4. c.orders \in OrderMaps /\ c.entries \in Seq(Entries)  BY <1>3 DEF Outcomes
<1>5. PICK es : es = r.entries \o c.entries  OBVIOUS
<1>6. es \in Seq(Entries)  BY <1>1, <1>4, <1>5
<1> QED  BY <1>1, <1>2, <1>4, <1>5, <1>6 DEF CancelRest, Outcomes

LEMMA HandleType ==
    ASSUME NEW b \in Books, NEW m \in Messages PROVE Handle(b, m) \in Outcomes
<1>1. b.orders \in OrderMaps /\ m.id \in Ids /\ m.cancel \in BOOLEAN  BY DEF Books, Messages
<1>2. /\ CancelOrder(b.orders, m.id) \in Outcomes /\ NullifyOrder(b.orders, m.id) \in Outcomes
      /\ ApplyOrder(b, m.id) \in Outcomes /\ Untouched(b.orders) \in Outcomes
  BY <1>1, CancelType, NullifyType, ApplyOrderType, UntouchedType
<1>3. CancelRest(ApplyOrder(b, m.id), m.id) \in Outcomes  BY <1>1, <1>2, CancelRestType
<1> QED  BY <1>1, <1>2, <1>3 DEF Handle, Applies

LEMMA EmptyType == EmptyBook \in Books
<1>1. PICK none : none = << >>  OBVIOUS
<1>2. none \in OrderMaps
  <2>1. none \in [{} -> Rests]  BY <1>1
  <2> QED  BY <2>1 DEF OrderMaps
<1>3. EmptyWindow \in Windows  BY DEF EmptyWindow, Windows
<1>4. PICK ws : ws = [s \in Shards |-> EmptyWindow]  OBVIOUS
<1>5. ws \in [Shards -> Windows]  BY <1>3, <1>4
<1>6. EmptyBook = [orders |-> none, windows |-> ws, tradeSeq |-> 0, logSeq |-> 0]
  BY <1>1, <1>4 DEF EmptyBook
<1> QED  BY <1>2, <1>5, <1>6 DEF Books

LEMMA ApplyToType ==
    ASSUME NEW b \in Books, NEW m \in Messages
    PROVE  /\ ApplyTo(b, m) \in Books /\ LogsOf(b, m) \in Seq(Logs)
           /\ ApplyTo(b, m).logSeq = b.logSeq + Len(LogsOf(b, m))
           /\ \A k \in 1 .. Len(LogsOf(b, m)) : LogsOf(b, m)[k].seq = b.logSeq + k
<1>1. /\ b.orders \in OrderMaps /\ b.windows \in [Shards -> Windows]
      /\ b.tradeSeq \in Nat /\ b.logSeq \in Nat
  BY DEF Books
<1>2. PICK r : r = Handle(b, m)  OBVIOUS
<1>3. r \in Outcomes  BY <1>2, HandleType
<1>4. r.orders \in OrderMaps /\ r.trades \in Nat /\ r.entries \in Seq(Entries)
  BY <1>3 DEF Outcomes
<1>5. PICK n : n = Len(r.entries)  OBVIOUS
<1>6. n \in Nat /\ \A k \in 1 .. n : r.entries[k] \in Entries  BY <1>4, <1>5
<1>7. PICK ls : ls = [k \in 1 .. n |->
                        [seq |-> b.logSeq + k, trades |-> b.tradeSeq, entry |-> r.entries[k]]]
  OBVIOUS
<1>8. ls \in Seq(Logs) /\ Len(ls) = n /\ \A k \in 1 .. n : ls[k].seq = b.logSeq + k
  <2>1. \A k \in 1 .. n :
           [seq |-> b.logSeq + k, trades |-> b.tradeSeq, entry |-> r.entries[k]] \in Logs
    BY <1>1, <1>6 DEF Logs
  <2>2. ls \in [1 .. n -> Logs]  BY <1>7, <2>1
  <2>3. ls \in Seq(Logs) /\ Len(ls) = n  BY <1>6, <2>2
  <2>4. \A k \in 1 .. n : ls[k].seq = b.logSeq + k  BY <1>7
  <2> QED  BY <2>3, <2>4
<1>9. LogsOf(b, m) = ls  BY <1>2, <1>5, <1>7 DEF LogsOf
<1>10. PICK ws : ws = PutId(b.windows, m)  OBVIOUS
<1>11. ws \in [Shards -> Windows]  BY <1>1, <1>10, PutIdType
<1>12. ApplyTo(b, m) = [orders |-> r.orders, windows |-> ws, tradeSeq |-> b.tradeSeq + r.trades,
                        logSeq |-> b.logSeq + n]
  BY <1>2, <1>5, <1>10 DEF ApplyTo
<1>13. ApplyTo(b, m) \in Books  BY <1>1, <1>4, <1>6, <1>11, <1>12 DEF Books
<1> QED  BY <1>8, <1>9, <1>12, <1>13

LEMMA ReplayOneOK ==
    ASSUME NEW r, WellFormed(r), NEW m \in Messages
    PROVE  /\ WellFormed(ReplayOne(r, m))
           /\ Len(r.logs) <= Len(ReplayOne(r, m).logs)
           /\ \A k \in 1 .. Len(r.logs) : ReplayOne(r, m).logs[k] = r.logs[k]
           /\ \A k \in 1 .. Len(LogsOf(r.book, m)) :
                 /\ Len(r.logs) + k \in 1 .. Len(ReplayOne(r, m).logs)
                 /\ ReplayOne(r, m).logs[Len(r.logs) + k] = LogsOf(r.book, m)[k]
<1>1. /\ r.book \in Books /\ r.logs \in Seq(Logs) /\ Len(r.logs) = r.book.logSeq
      /\ \A k \in 1 .. Len(r.logs) : r.logs[k].seq = k
  BY DEF WellFormed
<1>2. PICK ls : ls = LogsOf(r.book, m)  OBVIOUS
<1>3. PICK b : b = ApplyTo(r.book, m)  OBVIOUS
<1>4. /\ b \in Books /\ ls \in Seq(Logs) /\ b.logSeq = r.book.logSeq + Len(ls)
      /\ \A k \in 1 .. Len(ls) : ls[k].seq = r.book.logSeq + k
  BY <1>1, <1>2, <1>3, ApplyToType
<1>5. ReplayOne(r, m).book = b /\ ReplayOne(r, m).logs = r.logs \o ls
  BY <1>2, <1>3 DEF ReplayOne
<1>6. PICK q : q = r.logs \o ls  OBVIOUS
<1>7. /\ q \in Seq(Logs) /\ Len(q) = Len(r.logs) + Len(ls)
      /\ \A k \in 1 .. Len(r.logs) : q[k] = r.logs[k]
      /\ \A k \in 1 .. Len(ls) : q[Len(r.logs) + k] = ls[k]
  <2>1. q \in Seq(Logs) /\ Len(q) = Len(r.logs) + Len(ls)  BY <1>1, <1>4, <1>6
  <2>2. \A k \in 1 .. Len(r.logs) : q[k] = r.logs[k]  BY <1>1, <1>4, <1>6
  <2>3. \A k \in 1 .. Len(ls) : q[Len(r.logs) + k] = ls[k]  BY <1>1, <1>4, <1>6
  <2> QED  BY <2>1, <2>2, <2>3
<1>8. \A k \in 1 .. Len(q) : q[k].seq = k
  <2> TAKE k \in 1 .. Len(q)
  <2>1. CASE k <= Len(r.logs)  BY <1>1, <1>7, <2>1
  <2>2. CASE k > Len(r.logs)
    <3>1. PICK j : j = k - Len(r.logs)  OBVIOUS
    <3>2. Len(r.logs) \in Nat /\ Len(ls) \in Nat /\ Len(q) = Len(r.logs) + Len(ls)
      BY <1>1, <1>4, <1>7
    <3>3. j \in 1 .. Len(ls) /\ k = Len(r.logs) + j  BY <2>2, <3>1, <3>2
    <3> QED  BY <1>1, <1>4, <1>7, <3>3
  <2> QED  BY <1>1, <2>1, <2>2
<1>9. WellFormed(ReplayOne(r, m))  BY <1>1, <1>4, <1>5, <1>6, <1>7, <1>8 DEF WellFormed
<1>10. \A k \in 1 .. Len(ls) : Len(r.logs) + k \in 1 .. Len(q)
  BY <1>1, <1>4, <1>7
<1>11. Len(r.logs) <= Len(q)  BY <1>1, <1>4, <1>7
<1> QED  BY <1>2, <1>5, <1>6, <1>7, <1>9, <1>10, <1>11

LEMMA UptoOK ==
    ASSUME NEW msgs \in Seq(Messages)
    PROVE  \A n \in 0 .. Len(msgs) : WellFormed(Upto(msgs, n))
<1> DEFINE N == {n \in 0 .. Len(msgs) : ~ WellFormed(Upto(msgs, n))}
<1>1. CASE N # {}
  <2>0. N \in SUBSET Nat  OBVIOUS
  <2>1. PICK k \in N : \A n \in N : k <= n
    <3> HIDE DEF N
    <3> QED  BY <1>1, <2>0, NatMin
  <2>2. k \in 0 .. Len(msgs) /\ ~ WellFormed(Upto(msgs, k))  BY <2>1
  <2>3. CASE k = 0
    <3>2. WellFormed(NothingApplied)
      BY EmptyType DEF WellFormed, NothingApplied, EmptyBook
    <3> QED  BY <2>2, <2>3, <3>2, UptoDef
  <2>4. CASE k # 0
    <3>1. k \in 1 .. Len(msgs) /\ k - 1 \in 0 .. Len(msgs) /\ k - 1 \notin N  BY <2>1, <2>2, <2>4
    <3>2. WellFormed(Upto(msgs, k - 1)) /\ msgs[k] \in Messages  BY <3>1
    <3>3. Upto(msgs, k) = ReplayOne(Upto(msgs, k - 1), msgs[k])  BY <3>1, UptoDef
    <3> QED  BY <2>2, <3>2, <3>3, ReplayOneOK
  <2> QED  BY <2>3, <2>4
<1>2. CASE N = {}  BY <1>2
<1> QED  BY <1>1, <1>2

\* The logs of a prefix of the messages are a prefix of the logs.
Begins(s, t) == Len(s) <= Len(t) /\ \A k \in 1 .. Len(s) : s[k] = t[k]

LEMMA UptoGrows ==
    ASSUME NEW msgs \in Seq(Messages), NEW n \in 0 .. Len(msgs)
    PROVE  \A m \in n .. Len(msgs) : Begins(Upto(msgs, n).logs, Upto(msgs, m).logs)
<1> DEFINE N == {m \in n .. Len(msgs) : ~ Begins(Upto(msgs, n).logs, Upto(msgs, m).logs)}
<1>0. \A m \in 0 .. Len(msgs) : WellFormed(Upto(msgs, m)) /\ Len(Upto(msgs, m).logs) \in Nat
  BY UptoOK DEF WellFormed
<1>1. CASE N # {}
  <2>0. N \in SUBSET Nat  OBVIOUS
  <2>1. PICK k \in N : \A m \in N : k <= m
    <3> HIDE DEF N
    <3> QED  BY <1>1, <2>0, NatMin
  <2>2. k \in n .. Len(msgs) /\ ~ Begins(Upto(msgs, n).logs, Upto(msgs, k).logs)  BY <2>1
  <2>3. CASE k = n  BY <1>0, <2>2, <2>3 DEF Begins
  <2>4. CASE k # n
    <3>1. /\ k \in 1 .. Len(msgs) /\ k - 1 \in 0 .. Len(msgs) /\ k - 1 \in n .. Len(msgs)
          /\ k - 1 \notin N /\ msgs[k] \in Messages
      BY <2>1, <2>2, <2>4
    <3>2. Begins(Upto(msgs, n).logs, Upto(msgs, k - 1).logs)  BY <3>1
    <3>3. PICK r : r = Upto(msgs, k - 1)  OBVIOUS
    <3>4. PICK q : q = Upto(msgs, k)  OBVIOUS
    <3>5. q = ReplayOne(r, msgs[k])  BY <3>1, <3>3, <3>4, UptoDef
    <3>6. WellFormed(r) /\ WellFormed(q) /\ Len(r.logs) \in Nat /\ Len(q.logs) \in Nat
      <4>1. k \in 0 .. Len(msgs)  BY <3>1
      <4> QED  BY <1>0, <3>1, <3>3, <3>4, <4>1
    <3>7. Len(r.logs) <= Len(q.logs) /\ \A j \in 1 .. Len(r.logs) : q.logs[j] = r.logs[j]
      BY <3>1, <3>5, <3>6, ReplayOneOK
    <3>8. Len(Upto(msgs, n).logs) \in Nat  BY <1>0
    <3>9. Begins(Upto(msgs, n).logs, q.logs)
      BY <3>2, <3>3, <3>6, <3>7, <3>8 DEF Begins
    <3> QED  BY <2>2, <3>4, <3>9
  <2> QED  BY <2>3, <2>4
<1>2. CASE N = {}  BY <1>2
<1> QED  BY <1>1, <1>2
-----------------------------------------------------------------------------
(* Reader: one log after another.                                          *)

IsRead(f, topic) ==
    f = [n \in 0 .. Len(topic) |-> IF n = 0 THEN NothingRead ELSE ReadLog(f[n - 1], topic[n])]

IsReadUpTo(f, topic, m) ==
    f = [n \in 0 .. m |-> IF n = 0 THEN NothingRead ELSE ReadLog(f[n - 1], topic[n])]

LEMMA ReadExists == ASSUME NEW topic, Len(topic) \in Nat PROVE \E f : IsRead(f, topic)
<1>1. \E f : IsReadUpTo(f, topic, 0)
  <2> DEFINE f == [n \in 0 .. 0 |-> NothingRead]
  <2>1. IsReadUpTo(f, topic, 0)  BY DEF IsReadUpTo
  <2> QED  BY <2>1
<1>2. ASSUME NEW m \in Nat, NEW f, IsReadUpTo(f, topic, m)
      PROVE  \E h : IsReadUpTo(h, topic, m + 1)
  <2> DEFINE h == [n \in 0 .. m + 1 |->
                     IF n = 0 THEN NothingRead ELSE ReadLog(f[n - 1], topic[n])]
  <2>1. \A n \in 0 .. m : f[n] = IF n = 0 THEN NothingRead ELSE ReadLog(f[n - 1], topic[n])
    BY <1>2 DEF IsReadUpTo
  <2>2. \A n \in 0 .. m : h[n] = f[n]
    <3>1. \A n \in 0 .. m : n \in 0 .. m + 1  OBVIOUS
    <3> QED  BY <2>1, <3>1
  <2>3. \A n \in 0 .. m + 1 : n # 0 => n - 1 \in 0 .. m  OBVIOUS
  <2>4. h = [n \in 0 .. m + 1 |-> IF n = 0 THEN NothingRead ELSE ReadLog(h[n - 1], topic[n])]
    BY <2>2, <2>3
  <2>5. IsReadUpTo(h, topic, m + 1)
    <3> HIDE DEF h
    <3> QED  BY <2>4 DEF IsReadUpTo
  <2> QED  BY <2>5
<1>3. \E f : IsReadUpTo(f, topic, Len(topic))
  <2> DEFINE N == {n \in Nat : ~ \E f : IsReadUpTo(f, topic, n)}
  <2>1. CASE N # {}
    <3>0. N \in SUBSET Nat  OBVIOUS
    <3>1. PICK m \in N : \A n \in N : m <= n
      <4> HIDE DEF N
      <4> QED  BY <2>1, <3>0, NatMin
    <3>2. m # 0  BY <1>1
    <3>3. m - 1 \in Nat /\ m - 1 \notin N /\ (m - 1) + 1 = m  BY <3>1, <3>2
    <3>4. PICK f : IsReadUpTo(f, topic, m - 1)  BY <3>3
    <3>5. \E h : IsReadUpTo(h, topic, (m - 1) + 1)  BY <1>2, <3>3, <3>4
    <3> QED  BY <3>3, <3>5
  <2>2. CASE N = {}  BY <2>2
  <2> QED  BY <2>1, <2>2
<1> QED  BY <1>3 DEF IsReadUpTo, IsRead

\* Reader is the last value of such a function.
LEMMA ReaderRead ==
    ASSUME NEW topic, Len(topic) \in Nat
    PROVE  \E f : IsRead(f, topic) /\ Reader(topic) = f[Len(topic)]
<1> DEFINE it == CHOOSE f :
        f = [n \in 0 .. Len(topic) |-> IF n = 0 THEN NothingRead ELSE ReadLog(f[n - 1], topic[n])]
<1>1. Reader(topic) = it[Len(topic)]  BY DEF Reader
<1>2. IsRead(it, topic)
  <2>1. PICK h : IsRead(h, topic)  BY ReadExists
  <2> QED  BY <2>1 DEF IsRead
<1> QED  BY <1>1, <1>2

\* Two such functions agree on a common prefix.
LEMMA ReadUnique ==
    ASSUME NEW topic, NEW other, Len(topic) \in Nat, Len(other) \in Nat, NEW f, NEW g,
           IsRead(f, topic), IsRead(g, other), NEW m \in Nat, m <= Len(topic), m <= Len(other),
           \A n \in 1 .. m : topic[n] = other[n]
    PROVE  f[m] = g[m]
<1> DEFINE N == {n \in 0 .. m : f[n] # g[n]}
<1>1. CASE N # {}
  <2>0. N \in SUBSET Nat  OBVIOUS
  <2>1. PICK k \in N : \A n \in N : k <= n
    <3> HIDE DEF N
    <3> QED  BY <1>1, <2>0, NatMin
  <2>2. k \in 0 .. m /\ k \in 0 .. Len(topic) /\ k \in 0 .. Len(other) /\ f[k] # g[k]  BY <2>1
  <2>3. /\ f[k] = IF k = 0 THEN NothingRead ELSE ReadLog(f[k - 1], topic[k])
        /\ g[k] = IF k = 0 THEN NothingRead ELSE ReadLog(g[k - 1], other[k])
    BY <2>2 DEF IsRead
  <2>4. k # 0  BY <2>2, <2>3
  <2>5. k - 1 \in 0 .. m /\ k - 1 \notin N /\ topic[k] = other[k]  BY <2>1, <2>2, <2>4
  <2>6. f[k - 1] = g[k - 1]  BY <2>5
  <2> QED  BY <2>2, <2>3, <2>4, <2>5, <2>6
<1>2. CASE N = {}  BY <1>2
<1> QED  BY <1>1, <1>2

\* The state after n logs.
ReadUpto(topic, n) == Reader(SubSeq(topic, 1, n))

LEMMA ReadUptoRead ==
    ASSUME NEW topic \in Seq(Logs), NEW f, IsRead(f, topic)
    PROVE  \A n \in 0 .. Len(topic) : ReadUpto(topic, n) = f[n]
<1> TAKE n \in 0 .. Len(topic)
<1>1. PICK s : s = SubSeq(topic, 1, n)  OBVIOUS
<1>2. Len(s) = n /\ \A k \in 1 .. n : topic[k] = s[k]  BY <1>1
<1>3. PICK g : IsRead(g, s) /\ Reader(s) = g[Len(s)]  BY <1>2, ReaderRead
<1>4. Len(topic) \in Nat  OBVIOUS
<1>5. f[n] = g[n]  BY <1>2, <1>3, <1>4, ReadUnique
<1> QED  BY <1>1, <1>2, <1>3, <1>5 DEF ReadUpto

\* What Reader computes, log by log.
LEMMA ReadUptoDef ==
    ASSUME NEW topic \in Seq(Logs)
    PROVE  /\ ReadUpto(topic, 0) = NothingRead
           /\ \A n \in 1 .. Len(topic) : ReadUpto(topic, n) = ReadLog(ReadUpto(topic, n - 1), topic[n])
           /\ ReadUpto(topic, Len(topic)) = Reader(topic)
<1>0. Len(topic) \in Nat  OBVIOUS
<1>1. PICK f : IsRead(f, topic) /\ Reader(topic) = f[Len(topic)]  BY <1>0, ReaderRead
<1>2. \A n \in 0 .. Len(topic) : ReadUpto(topic, n) = f[n]  BY <1>1, ReadUptoRead
<1>3. \A n \in 0 .. Len(topic) :
         f[n] = IF n = 0 THEN NothingRead ELSE ReadLog(f[n - 1], topic[n])
  BY <1>1 DEF IsRead
<1>4. ReadUpto(topic, 0) = NothingRead  BY <1>0, <1>2, <1>3
<1>5. \A n \in 1 .. Len(topic) : ReadUpto(topic, n) = ReadLog(ReadUpto(topic, n - 1), topic[n])
  <2> TAKE n \in 1 .. Len(topic)
  <2>1. n \in 0 .. Len(topic) /\ n - 1 \in 0 .. Len(topic) /\ n # 0  BY <1>0
  <2> QED  BY <1>2, <1>3, <2>1
<1>6. Len(topic) \in 0 .. Len(topic)  BY <1>0
<1> QED  BY <1>1, <1>2, <1>4, <1>5, <1>6


\* The reader has passed on the first logs of l and nothing else.
Good(r, l) == ~ r.fatal /\ r.last \in 0 .. Len(l) /\ r.view = SubSeq(l, 1, r.last)

\* s is what l has after place a.
Part(s, a, l) == \A n \in 1 .. Len(s) : a + n \in 1 .. Len(l) /\ s[n] = l[a + n]

\* It goes on well with a log it has read, or the next.
LEMMA ReadLogOK ==
    ASSUME NEW l \in Seq(Logs), \A k \in 1 .. Len(l) : l[k].seq = k,
           NEW r, Good(r, l), NEW k \in 1 .. Len(l), k <= r.last + 1
    PROVE  /\ Good(ReadLog(r, l[k]), l)
           /\ ReadLog(r, l[k]).last >= r.last /\ ReadLog(r, l[k]).last >= k
<1>1. ~ r.fatal /\ r.last \in 0 .. Len(l) /\ r.view = SubSeq(l, 1, r.last)  BY DEF Good
<1>2. l[k].seq = k  OBVIOUS
<1>3. CASE k <= r.last
  <2>1. ReadLog(r, l[k]) = r  BY <1>2, <1>3 DEF ReadLog
  <2> QED  BY <1>1, <1>3, <2>1
<1>4. CASE ~ (k <= r.last)
  <2>1. k = r.last + 1  BY <1>1, <1>4
  <2>2. ReadLog(r, l[k]) = [last |-> k, view |-> Append(r.view, l[k]), fatal |-> FALSE]
    BY <1>1, <1>2, <1>4, <2>1 DEF ReadLog
  <2>3. Append(SubSeq(l, 1, r.last), l[k]) = SubSeq(l, 1, k)
    BY <1>1, <2>1
  <2>4. Good(ReadLog(r, l[k]), l)  BY <1>1, <2>2, <2>3 DEF Good
  <2> QED  BY <1>1, <2>1, <2>2, <2>4
<1> QED  BY <1>3, <1>4

\* Logs stored again, and the next ones, make the reader go on.
LEMMA ReadBatch ==
    ASSUME NEW l \in Seq(Logs), \A k \in 1 .. Len(l) : l[k].seq = k,
           NEW topic \in Seq(Logs), NEW batch \in Seq(Logs), Good(Reader(topic), l),
           NEW a \in Nat, a <= Reader(topic).last, Part(batch, a, l)
    PROVE  /\ Good(Reader(topic \o batch), l)
           /\ Reader(topic \o batch).last >= Reader(topic).last
           /\ Reader(topic \o batch).last >= a + Len(batch)
<1>1. PICK q : q = topic \o batch  OBVIOUS
<1>2. PICK c : c = Len(topic)  OBVIOUS
<1>3. /\ q \in Seq(Logs) /\ c \in Nat /\ Len(q) = c + Len(batch) /\ Len(batch) \in Nat
      /\ \A k \in 1 .. Len(batch) : q[c + k] = batch[k]
      /\ SubSeq(q, 1, c) = topic
  <2>1. q \in Seq(Logs) /\ c \in Nat /\ Len(q) = c + Len(batch) /\ Len(batch) \in Nat
    BY <1>1, <1>2
  <2>2. \A k \in 1 .. Len(batch) : q[c + k] = batch[k]  BY <1>1, <1>2
  <2>3. SubSeq(q, 1, c) = topic  BY <1>1, <1>2
  <2> QED  BY <2>1, <2>2, <2>3
<1>4. ReadUpto(q, c) = Reader(topic)  BY <1>3 DEF ReadUpto
<1> DEFINE OK(k) == /\ Good(ReadUpto(q, c + k), l)
                    /\ ReadUpto(q, c + k).last >= Reader(topic).last
                    /\ ReadUpto(q, c + k).last >= a + k
           N == {k \in 0 .. Len(batch) : ~ OK(k)}
<1>5. CASE N # {}
  <2>0. N \in SUBSET Nat  OBVIOUS
  <2>1. PICK k \in N : \A n \in N : k <= n
    <3> HIDE DEF N
    <3> QED  BY <1>5, <2>0, NatMin
  <2>2. k \in 0 .. Len(batch) /\ ~ OK(k)  BY <2>1
  <2>3. Reader(topic).last \in Nat  BY DEF Good
  <2>4. CASE k = 0
    <3>1. c + k = c  BY <1>3, <2>4
    <3>2. OK(k)  BY <1>4, <2>3, <2>4, <3>1
    <3> QED  BY <2>2, <3>2
  <2>5. CASE k # 0
    <3>1. k \in 1 .. Len(batch) /\ k - 1 \in 0 .. Len(batch) /\ k - 1 \notin N
      <4>1. k \in 0 .. Len(batch) /\ Len(batch) \in Nat  BY <1>3, <2>2
      <4> HIDE DEF N
      <4> QED  BY <2>1, <2>5, <4>1
    <3>2. OK(k - 1)  BY <3>1
    <3>3. c + k \in 1 .. Len(q) /\ (c + k) - 1 = c + (k - 1) /\ q[c + k] = batch[k]
      BY <1>3, <3>1
    <3>4. ReadUpto(q, c + k) = ReadLog(ReadUpto(q, (c + k) - 1), q[c + k])
      BY <1>3, <3>3, ReadUptoDef
    <3>5. PICK r : r = ReadUpto(q, c + (k - 1))  OBVIOUS
    <3>6. Good(r, l) /\ r.last >= Reader(topic).last /\ r.last >= a + (k - 1)
      BY <3>2, <3>5
    <3>7. r.last \in Nat  BY <3>6 DEF Good
    <3>8. PICK j : j = a + k  OBVIOUS
    <3>9. j \in 1 .. Len(l) /\ batch[k] = l[j]  BY <3>1, <3>8 DEF Part
    <3>10. j <= r.last + 1  BY <1>3, <3>1, <3>6, <3>7, <3>8
    <3>11. ReadUpto(q, c + k) = ReadLog(r, l[j])  BY <3>3, <3>4, <3>5, <3>9
    <3>12. /\ Good(ReadLog(r, l[j]), l)
           /\ ReadLog(r, l[j]).last >= r.last /\ ReadLog(r, l[j]).last >= j
      BY <3>6, <3>9, <3>10, ReadLogOK
    <3>13. ReadLog(r, l[j]).last \in Nat  BY <3>12 DEF Good
    <3>14. ReadLog(r, l[j]).last >= Reader(topic).last
      BY <2>3, <3>6, <3>7, <3>12, <3>13
    <3>15. OK(k)  BY <3>8, <3>11, <3>12, <3>14
    <3> QED  BY <2>2, <3>15
  <2> QED  BY <2>4, <2>5
<1>6. CASE N = {}
  <2>1. Len(batch) \in 0 .. Len(batch)  BY <1>3
  <2>2. OK(Len(batch))  BY <1>6, <2>1
  <2>3. ReadUpto(q, c + Len(batch)) = Reader(q)  BY <1>3, ReadUptoDef
  <2> QED  BY <1>1, <2>2, <2>3
<1> QED  BY <1>5, <1>6-----------------------------------------------------------------------------
(* Types.                                                                  *)

\* Channels.
LEMMA Received ==
    ASSUME NEW S, NEW q \in Seq(S), q # << >>
    PROVE  /\ Head(q) \in S /\ Head(q) = q[1] /\ Tail(q) \in Seq(S) /\ Len(Tail(q)) = Len(q) - 1
           /\ Len(q) \in Nat \ {0}
           /\ \A n \in 1 .. Len(q) - 1 : Tail(q)[n] = q[n + 1]
  OBVIOUS

LEMMA Sent ==
    ASSUME NEW S, NEW q \in Seq(S), NEW x \in S
    PROVE  /\ Append(q, x) \in Seq(S) /\ Len(Append(q, x)) = Len(q) + 1 /\ Len(q) \in Nat
           /\ \A n \in 1 .. Len(q) : Append(q, x)[n] = q[n]
           /\ Append(q, x)[Len(q) + 1] = x
  OBVIOUS

LEMMA SentWithin ==
    ASSUME NEW S, NEW q \in Seq(S), NEW c \in Nat, Len(q) <= c, NEW x, NEW r,
           r = q \/ (x \in S /\ Len(q) < c /\ r = Append(q, x))
    PROVE  r \in Seq(S) /\ Len(r) <= c
<1>1. CASE r = q  BY <1>1
<1>2. CASE x \in S /\ Len(q) < c /\ r = Append(q, x)  BY <1>2, Sent
<1> QED  BY <1>1, <1>2

LEMMA Joined ==
    ASSUME NEW S, NEW q \in Seq(S), NEW r \in Seq(S)
    PROVE  q \o r \in Seq(S)
  OBVIOUS

LEMMA Emptied == \A S : << >> \in Seq(S) /\ Len(<< >>) = 0
  OBVIOUS

LEMMA Snaps ==
    ASSUME NEW s \in Snapshots
    PROVE  s # NoSnapshot /\ s.offset \in Nat /\ s.book \in Books /\ s.book.logSeq \in Nat
  BY EngineAssumption DEF Snapshots, Books

\* A snapshot comes out of json.Marshal as one, with its offset, its orders
\* and its seqs, and with its windows if they have not changed since.
LEMMA TornType ==
    ASSUME NEW w \in Windows, NEW now \in Windows, NEW t \in TornWindow(w, now)
    PROVE  t \in Windows /\ (w = now => t = w)
<1>1. w.lo \in Nat /\ w.seen \in SUBSET Nat /\ now.lo \in Nat /\ now.seen \in SUBSET Nat
  BY DEF Windows
<1>2. CASE w.lo = now.lo
  <2>1. PICK more \in SUBSET (now.seen \ w.seen) : t = [w EXCEPT !.seen = @ \cup more]
    BY <1>2 DEF TornWindow
  <2>2. PICK seen : seen = w.seen \cup more  OBVIOUS
  <2>3. t = [lo |-> w.lo, seen |-> seen]  BY <2>1, <2>2 DEF Windows
  <2>4. seen \in SUBSET Nat  BY <1>1, <2>2
  <2>5. t \in Windows  BY <1>1, <2>3, <2>4 DEF Windows
  <2>6. ASSUME w = now PROVE t = w
    <3>1. seen = w.seen  BY <2>2, <2>6
    <3> QED  BY <2>3, <3>1 DEF Windows
  <2> QED  BY <2>5, <2>6
<1>3. CASE w.lo # now.lo
  <2>1. PICK lo \in w.lo .. now.lo :
           t \in {[lo |-> lo, seen |-> seen] : seen \in SUBSET (lo .. lo + Cap - 1)}
    BY <1>3 DEF TornWindow
  <2>2. PICK seen \in SUBSET (lo .. lo + Cap - 1) : t = [lo |-> lo, seen |-> seen]
    BY <2>1
  <2>3. lo \in Nat /\ Cap \in Nat  BY <1>1, CapAssumption
  <2>4. seen \in SUBSET Nat  BY <2>3
  <2>5. t \in Windows  BY <2>2, <2>3, <2>4 DEF Windows
  <2> QED  BY <1>3, <2>5
<1> QED  BY <1>2, <1>3

LEMMA MarshalledType ==
    ASSUME TypeOK, NEW s \in Snapshots, NEW m \in Marshalled(s)
    PROVE  /\ m \in Snapshots /\ m.offset = s.offset
           /\ m.book.orders = s.book.orders
           /\ m.book.tradeSeq = s.book.tradeSeq /\ m.book.logSeq = s.book.logSeq
           /\ s.book.windows = book.windows => m.book.windows = s.book.windows
<1>1. s.book \in Books /\ s.offset \in Nat /\ book \in Books  BY DEF Snapshots, TypeOK
<1>2. s.book.windows \in [Shards -> Windows] /\ book.windows \in [Shards -> Windows]
  BY <1>1 DEF Books
<1>3. PICK torn : torn = [i \in Shards |-> TornWindow(s.book.windows[i], book.windows[i])]
  OBVIOUS
<1>4. Marshalled(s) = {[s EXCEPT !.book.windows = ws] :
            ws \in {ws \in [Shards -> UNION {torn[i] : i \in Shards}] :
                       \A i \in Shards : ws[i] \in torn[i]}}
  BY <1>3 DEF Marshalled
<1>5. PICK ws \in [Shards -> UNION {torn[i] : i \in Shards}] :
         m = [s EXCEPT !.book.windows = ws] /\ \A i \in Shards : ws[i] \in torn[i]
  BY <1>4
<1>6. ASSUME NEW i \in Shards
      PROVE  ws[i] \in Windows /\ (s.book.windows[i] = book.windows[i] => ws[i] = s.book.windows[i])
  <2>1. ws[i] \in TornWindow(s.book.windows[i], book.windows[i])  BY <1>3, <1>5
  <2>2. s.book.windows[i] \in Windows /\ book.windows[i] \in Windows  BY <1>2
  <2> QED  BY <2>1, <2>2, TornType
<1>7. ws \in [Shards -> Windows]  BY <1>5, <1>6
<1>8. ASSUME s.book.windows = book.windows PROVE ws = s.book.windows
  <2>1. \A i \in Shards : ws[i] = s.book.windows[i]  BY <1>6, <1>8
  <2> QED  BY <1>2, <1>7, <2>1
<1>9. PICK b : b = [s.book EXCEPT !.windows = ws]  OBVIOUS
<1>10. /\ b \in Books /\ b.orders = s.book.orders /\ b.windows = ws
       /\ b.tradeSeq = s.book.tradeSeq /\ b.logSeq = s.book.logSeq
  BY <1>1, <1>7, <1>9 DEF Books
<1>11. m = [s EXCEPT !.book = b]  BY <1>5, <1>9 DEF Snapshots
<1>12. m = [offset |-> s.offset, book |-> b]  BY <1>11 DEF Snapshots
<1>13. m \in Snapshots /\ m.offset = s.offset /\ m.book = b  BY <1>1, <1>10, <1>12 DEF Snapshots
<1> QED  BY <1>8, <1>10, <1>13

\* What a start sets.
BootSets(b, offset) ==
    /\ fetchOffset' = FirstOffset(offset)
    /\ orderCh' = << >>
    /\ book' = b /\ appliedOffset' = 0 /\ outbox' = << >> /\ taking' = NoSnapshot
    /\ logCh' = << >>
    /\ started' = FALSE /\ buffer' = << >> /\ seq' = b.logSeq
    /\ pending' = NoSnapshot /\ approved' = NoSnapshot
    /\ lastSnapshot' = offset /\ requesting' = NoSnapshot
    /\ snapshotReqCh' = << >> /\ snapshotApproveReqCh' = << >> /\ snapshotCh' = << >>

LEMMA BootEffect ==
    ASSUME NEW s, Boot(s)
    PROVE  /\ s # NoSnapshot => BootSets(s.book, s.offset)
           /\ s = NoSnapshot => BootSets(EmptyBook, 0)
  BY DEF Boot, BootSets

LEMMA BootType ==
    ASSUME NEW b \in Books, NEW offset \in Nat, BootSets(b, offset),
           orderTopic' \in Seq(Messages), logTopic' \in Seq(Logs),
           redis' \in Snapshots \cup {NoSnapshot},
           crashes' \in 0 .. MaxCrashes, expiries' \in 0 .. MaxExpiries, unsound' \in BOOLEAN,
           raced' \in BOOLEAN
    PROVE  TypeOK'
<1>1. 0 < Batch /\ 0 <= OrderCap /\ 0 <= LogCap /\ 0 <= SnapCap
  BY EngineAssumption
<1>2. FirstOffset(offset) \in Nat  BY DEF FirstOffset
<1>3. b.logSeq \in Nat  BY DEF Books
<1> QED  BY <1>1, <1>2, <1>3, Emptied, Zenon DEF TypeOK, BootSets

\* A restart.
LEMMA RestartType ==
    ASSUME TypeOK, NEW topic, Restart(topic), logTopic' \in Seq(Logs)
    PROVE  TypeOK'
<1>1. /\ raced' \in BOOLEAN /\ crashes' \in 0 .. MaxCrashes /\ expiries' \in 0 .. MaxExpiries
      /\ orderTopic' \in Seq(Messages) /\ redis' \in Snapshots \cup {NoSnapshot}
  <2>1. MaxCrashes \in Nat  BY EngineAssumption
  <2> QED  BY <2>1 DEF TypeOK, Restart
<1>2. unsound' \in BOOLEAN
  BY Zenon DEF TypeOK, Restart
<1>3. Boot(redis)  BY DEF Restart
<1>4. CASE redis # NoSnapshot
  <2>1. redis.offset \in Nat /\ redis.book \in Books  BY <1>4, Snaps DEF TypeOK
  <2> QED  BY <1>1, <1>2, <1>3, <1>4, <2>1, BootEffect, BootType
<1>5. CASE redis = NoSnapshot
  <2>1. BootSets(EmptyBook, 0) /\ 0 \in Nat  BY <1>3, <1>5, BootEffect
  <2> QED  BY <1>1, <1>2, <2>1, EmptyType, BootType
<1> QED  BY <1>4, <1>5

LEMMA TypeStep == TypeOK /\ [Next]_vars => TypeOK'
<1> SUFFICES ASSUME TypeOK, [Next]_vars PROVE TypeOK'
  OBVIOUS
<1>0. /\ OrderCap \in Nat /\ LogCap \in Nat /\ SnapCap \in Nat /\ Batch \in Nat /\ Batch # 0
      /\ MaxExpiries \in Nat
  BY EngineAssumption
<1>q. /\ orderCh \in Seq(OffsetOrders) /\ outbox \in Seq(Logs) /\ logCh \in Seq(Logs)
      /\ buffer \in Seq(Logs) /\ logTopic \in Seq(Logs) /\ snapshotReqCh \in Seq(Nat)
      /\ snapshotApproveReqCh \in Seq(Snapshots) /\ snapshotCh \in Seq(Snapshots)
      /\ pending \in Snapshots \cup {NoSnapshot} /\ taking \in Snapshots \cup {NoSnapshot}
      /\ approved \in Snapshots \cup {NoSnapshot} /\ requesting \in Nat \cup {NoSnapshot}
  BY DEF TypeOK
<1>l. /\ Len(orderCh) <= OrderCap /\ Len(logCh) <= LogCap /\ Len(snapshotReqCh) <= SnapCap
      /\ Len(snapshotApproveReqCh) <= SnapCap /\ Len(snapshotCh) <= SnapCap
  BY DEF TypeOK
<1>1. ASSUME NEW m \in Traffic, SubmitOrder(m) PROVE TypeOK'
  <2>1. orderTopic' \in Seq(Messages)  BY <1>1, Sent, BookAssumption DEF SubmitOrder, TypeOK
  <2> QED  BY <1>1, <2>1 DEF SubmitOrder, TypeOK, applier, committer, snapshotter, snapChans, faults
<1>2. ASSUME Fetch PROVE TypeOK'
  <2>1. PICK m : m = [offset |-> fetchOffset, order |-> orderTopic[fetchOffset + 1]]  OBVIOUS
  <2>2. m \in OffsetOrders
    <3>1. /\ orderTopic \in Seq(Messages) /\ fetchOffset \in Nat /\ fetchOffset < Len(orderTopic)
      BY <1>2 DEF Fetch, TypeOK
    <3>2. orderTopic[fetchOffset + 1] \in Messages  BY <3>1
    <3> QED  BY <2>1, <3>1, <3>2 DEF OffsetOrders
  <2>3. orderCh' = Append(orderCh, m) /\ Len(orderCh) < OrderCap /\ fetchOffset' = fetchOffset + 1
    BY <1>2, <2>1 DEF Fetch
  <2>4. orderCh' \in Seq(OffsetOrders) /\ Len(orderCh') <= OrderCap
    BY <1>0, <1>q, <2>2, <2>3, Sent
  <2>5. fetchOffset' \in Nat  BY <2>3 DEF TypeOK
  <2> QED  BY <1>2, <2>4, <2>5 DEF Fetch, TypeOK, topics, applier, committer, snapshotter, snapChans, faults
<1>3. ASSUME ApplyMessage PROVE TypeOK'
  <2>1. PICK m : m = Head(orderCh)  OBVIOUS
  <2>2. orderCh # << >> /\ orderCh' = Tail(orderCh)  BY <1>3 DEF ApplyMessage
  <2>3. orderCh' \in Seq(OffsetOrders) /\ Len(orderCh') <= OrderCap /\ m \in OffsetOrders
    BY <1>0, <1>q, <1>l, <2>1, <2>2, Received
  <2>4. m.order \in Messages /\ m.offset \in Nat  BY <2>3 DEF OffsetOrders
  <2>5. ApplyTo(book, m.order) \in Books /\ LogsOf(book, m.order) \in Seq(Logs)
    BY <2>4, ApplyToType DEF TypeOK
  <2>6. book' \in Books /\ outbox' \in Seq(Logs) /\ appliedOffset' \in Nat
    BY <1>3, <2>1, <2>4, <2>5 DEF ApplyMessage
  <2> QED  BY <1>3, <2>3, <2>6 DEF ApplyMessage, TypeOK, topics, committer, snapshotter, snapChans, faults
<1>4. ASSUME SendLog PROVE TypeOK'
  <2>1. /\ outbox # << >> /\ Len(logCh) < LogCap
        /\ logCh' = Append(logCh, Head(outbox)) /\ outbox' = Tail(outbox)
    BY <1>4 DEF SendLog
  <2>2. Head(outbox) \in Logs /\ outbox' \in Seq(Logs)  BY <1>q, <2>1, Received
  <2>3. logCh' \in Seq(Logs) /\ Len(logCh') <= LogCap  BY <1>0, <1>q, <2>1, <2>2, Sent
  <2> QED  BY <1>4, <2>2, <2>3 DEF SendLog, TypeOK, topics, committer, snapshotter, snapChans, faults
<1>5. ASSUME TakeSnapshot PROVE TypeOK'
  <2>1. PICK s : s = [offset |-> appliedOffset, book |-> book]  OBVIOUS
  <2>2. s \in Snapshots  BY <2>1 DEF TypeOK, Snapshots
  <2>3. /\ snapshotReqCh # << >> /\ snapshotReqCh' = Tail(snapshotReqCh)
        /\ \/ snapshotApproveReqCh' = snapshotApproveReqCh
           \/ /\ Len(snapshotApproveReqCh) < SnapCap
              /\ snapshotApproveReqCh' = Append(snapshotApproveReqCh, s)
        /\ taking' = taking \/ taking' = s
    BY <1>5, <2>1 DEF TakeSnapshot, Send
  <2>4. snapshotApproveReqCh' \in Seq(Snapshots) /\ Len(snapshotApproveReqCh') <= SnapCap
    BY <1>0, <1>q, <1>l, <2>2, <2>3, SentWithin
  <2>5. snapshotReqCh' \in Seq(Nat) /\ Len(snapshotReqCh') <= SnapCap
    BY <1>0, <1>q, <1>l, <2>3, Received
  <2>6. taking' \in Snapshots \cup {NoSnapshot}  BY <1>q, <2>2, <2>3
  <2> QED  BY <1>5, <2>4, <2>5, <2>6 DEF TakeSnapshot, TypeOK, topics, committer, snapshotter, faults
<1>6. ASSUME StartCommitter PROVE TypeOK'
  <2>1. seq' \in Nat
    <3>1. seq \in Nat /\ book.logSeq \in Nat  BY DEF TypeOK, Books
    <3> QED  BY <1>6, <3>1 DEF StartCommitter
  <2>2. unsound' \in BOOLEAN  BY <1>6, Zenon DEF StartCommitter, TypeOK
  <2> QED  BY <1>6, <2>1, <2>2 DEF StartCommitter, TypeOK, topics, applier, snapshotter, snapChans
<1>c. ASSUME logCh # << >>, logCh' = Tail(logCh)
      PROVE  logCh' \in Seq(Logs) /\ Len(logCh') <= LogCap /\ Head(logCh) \in Logs /\ Head(logCh).seq \in Nat
  <2>1. logCh' \in Seq(Logs) /\ Len(logCh') <= LogCap /\ Head(logCh) \in Logs
    BY <1>0, <1>q, <1>l, <1>c, Received
  <2> QED  BY <2>1 DEF Logs
<1>7. ASSUME DiscardLog PROVE TypeOK'
  <2>1. logCh # << >> /\ logCh' = Tail(logCh)  BY <1>7 DEF DiscardLog, LogWaits
  <2>2. logCh' \in Seq(Logs) /\ Len(logCh') <= LogCap  BY <1>c, <2>1
  <2> QED  BY <1>7, <2>2 DEF DiscardLog, TypeOK, topics, applier, committer, snapshotter, snapChans, faults
<1>8. ASSUME BufferLog PROVE TypeOK'
  <2>1. /\ logCh # << >> /\ logCh' = Tail(logCh) /\ seq' = Head(logCh).seq
        /\ buffer' = Append(buffer, Head(logCh)) /\ Len(buffer) + 1 < Batch
    BY <1>8 DEF BufferLog, KeepsReading, LogWaits
  <2>2. logCh' \in Seq(Logs) /\ Len(logCh') <= LogCap /\ Head(logCh) \in Logs /\ seq' \in Nat
    BY <1>c, <2>1
  <2>3. buffer' \in Seq(Logs) /\ Len(buffer') < Batch  BY <1>0, <1>q, <2>1, <2>2, Sent
  <2> QED  BY <1>8, <2>2, <2>3 DEF BufferLog, TypeOK, topics, applier, snapshotter, snapChans, faults
<1>9. ASSUME StoreLogs PROVE TypeOK'
  <2>1. /\ logCh # << >> /\ logCh' = Tail(logCh) /\ seq' = Head(logCh).seq /\ buffer' = << >>
        /\ logTopic' = logTopic \o Append(buffer, Head(logCh))
        /\ \/ snapshotCh' = snapshotCh
           \/ /\ pending # NoSnapshot /\ Len(snapshotCh) < SnapCap
              /\ snapshotCh' = Append(snapshotCh, pending)
        /\ approved' = approved \/ approved' = pending
        /\ pending' = pending \/ pending' = NoSnapshot
    BY <1>9 DEF StoreLogs, MustStore, LogWaits, Send
  <2>2. logCh' \in Seq(Logs) /\ Len(logCh') <= LogCap /\ Head(logCh) \in Logs /\ seq' \in Nat
    BY <1>c, <2>1
  <2>3. buffer' \in Seq(Logs) /\ Len(buffer') < Batch  BY <1>0, <2>1, Emptied
  <2>4. logTopic' \in Seq(Logs)  BY <1>q, <2>1, <2>2, Sent, Joined
  <2>5. /\ snapshotCh' \in Seq(Snapshots) /\ Len(snapshotCh') <= SnapCap
        /\ pending' \in Snapshots \cup {NoSnapshot} /\ approved' \in Snapshots \cup {NoSnapshot}
    <3>1. pending \in Snapshots \/ pending = NoSnapshot  BY <1>q
    <3>2. snapshotCh' \in Seq(Snapshots) /\ Len(snapshotCh') <= SnapCap
      BY <1>0, <1>q, <1>l, <2>1, <3>1, SentWithin
    <3> QED  BY <1>q, <2>1, <3>2
  <2> QED  BY <1>9, <2>2, <2>3, <2>4, <2>5 DEF StoreLogs, TypeOK, applier, snapshotter, faults
<1>10. ASSUME ApproveSnapshot PROVE TypeOK'
  <2>1. PICK s : s = Head(snapshotApproveReqCh)  OBVIOUS
  <2>2. /\ snapshotApproveReqCh # << >> /\ snapshotApproveReqCh' = Tail(snapshotApproveReqCh)
        /\ \/ snapshotCh' = snapshotCh
           \/ Len(snapshotCh) < SnapCap /\ snapshotCh' = Append(snapshotCh, s)
        /\ approved' = approved \/ approved' = s
        /\ pending' = NoSnapshot \/ pending' = s
    BY <1>10, <2>1 DEF ApproveSnapshot, Send
  <2>3. /\ snapshotApproveReqCh' \in Seq(Snapshots) /\ Len(snapshotApproveReqCh') <= SnapCap
        /\ s \in Snapshots
    BY <1>0, <1>q, <1>l, <2>1, <2>2, Received
  <2>4. snapshotCh' \in Seq(Snapshots) /\ Len(snapshotCh') <= SnapCap
    BY <1>0, <1>q, <1>l, <2>2, <2>3, SentWithin
  <2>5. pending' \in Snapshots \cup {NoSnapshot} /\ approved' \in Snapshots \cup {NoSnapshot}
    BY <1>q, <2>2, <2>3
  <2> QED  BY <1>10, <2>3, <2>4, <2>5 DEF ApproveSnapshot, TypeOK, topics, applier, snapshotter, faults
<1>11. ASSUME RequestSnapshot PROVE TypeOK'
  <2>1. /\ \/ snapshotReqCh' = snapshotReqCh
           \/ Len(snapshotReqCh) < SnapCap /\ snapshotReqCh' = Append(snapshotReqCh, lastSnapshot)
        /\ requesting' = requesting \/ requesting' = lastSnapshot
    BY <1>11 DEF RequestSnapshot, Send
  <2>2. lastSnapshot \in Nat  BY DEF TypeOK
  <2>3. snapshotReqCh' \in Seq(Nat) /\ Len(snapshotReqCh') <= SnapCap
    BY <1>0, <1>q, <1>l, <2>1, <2>2, SentWithin
  <2>4. requesting' \in Nat \cup {NoSnapshot}  BY <1>q, <2>1, <2>2
  <2> QED  BY <1>11, <2>3, <2>4 DEF RequestSnapshot, TypeOK, topics, applier, committer, snapshotter, faults
<1>12. ASSUME StoreSnapshot \/ StoreSnapshotFails PROVE TypeOK'
  <2>1. PICK s : s = Head(snapshotCh)  OBVIOUS
  <2>2. snapshotCh # << >> /\ snapshotCh' = Tail(snapshotCh)
    BY <1>12 DEF StoreSnapshot, StoreSnapshotFails
  <2>3. s \in Snapshots /\ snapshotCh' \in Seq(Snapshots) /\ Len(snapshotCh') <= SnapCap
    BY <1>0, <1>q, <1>l, <2>1, <2>2, Received
  <2>4. redis' = redis \/ redis' \in Marshalled(s)
    BY <1>12, <2>1 DEF StoreSnapshot, StoreSnapshotFails, PutSnapshot
  <2>5. redis' \in Snapshots \cup {NoSnapshot}  BY <2>3, <2>4, MarshalledType DEF TypeOK
  <2>6. s.offset \in Nat  BY <2>3, Snaps
  <2>7. lastSnapshot' \in Nat
    BY <1>12, <2>1, <2>6 DEF StoreSnapshot, StoreSnapshotFails, TypeOK, snapshotter
  <2>8. raced' \in BOOLEAN
    <3>1. raced' = raced \/ raced' = (Head(snapshotCh).book.windows # book.windows)
      BY <1>12 DEF StoreSnapshot, StoreSnapshotFails, PutSnapshot
    <3> QED  BY <3>1, Zenon DEF TypeOK
  <2> QED  BY <1>12, <2>3, <2>5, <2>7, <2>8 DEF StoreSnapshot, StoreSnapshotFails, TypeOK, applier, committer, snapshotter
<1>13. ASSUME Crash PROVE TypeOK'
  BY <1>13, RestartType DEF Crash, TypeOK
<1>14. ASSUME CrashInStore PROVE TypeOK'
  <2>1. PICK b : b = Append(buffer, Head(logCh))  OBVIOUS
  <2>2. Head(logCh) \in Logs  BY <1>14, <1>q, Received DEF CrashInStore, MustStore, LogWaits
  <2>3. b \in Seq(Logs)  BY <1>q, <2>1, <2>2, Sent
  <2>4. PICK n \in 1 .. Len(b) : logTopic' = logTopic \o SubSeq(b, 1, n) /\ Restart(logTopic')
    BY <1>14, <2>1 DEF CrashInStore
  <2>5. SubSeq(b, 1, n) \in Seq(Logs)  BY <2>3
  <2>6. logTopic' \in Seq(Logs)  BY <1>q, <2>4, <2>5, Joined
  <2> QED  BY <2>4, <2>6, RestartType
<1>15. ASSUME Expire PROVE TypeOK'
  <2>1. expiries' \in 0 .. MaxExpiries  BY <1>0, <1>15 DEF Expire, TypeOK
  <2> QED  BY <1>15, <2>1, Zenon DEF Expire, TypeOK, applier, committer, snapshotter, snapChans
<1>17. ASSUME SendTaken PROVE TypeOK'
  <2>1. /\ taking # NoSnapshot /\ Len(snapshotApproveReqCh) < SnapCap /\ taking' = NoSnapshot
        /\ snapshotApproveReqCh' = Append(snapshotApproveReqCh, taking)
    BY <1>17 DEF SendTaken, SendHeld
  <2>2. snapshotApproveReqCh' \in Seq(Snapshots) /\ Len(snapshotApproveReqCh') <= SnapCap
    BY <1>0, <1>q, <1>l, <2>1, SentWithin
  <2> QED  BY <1>17, <2>1, <2>2 DEF SendTaken, TypeOK, topics, committer, snapshotter, faults
<1>18. ASSUME SendApproved PROVE TypeOK'
  <2>1. /\ approved # NoSnapshot /\ Len(snapshotCh) < SnapCap /\ approved' = NoSnapshot
        /\ snapshotCh' = Append(snapshotCh, approved)
    BY <1>18 DEF SendApproved, SendHeld
  <2>2. snapshotCh' \in Seq(Snapshots) /\ Len(snapshotCh') <= SnapCap
    BY <1>0, <1>q, <1>l, <2>1, SentWithin
  <2> QED  BY <1>18, <2>1, <2>2 DEF SendApproved, TypeOK, topics, applier, snapshotter, faults
<1>19. ASSUME SendRequest PROVE TypeOK'
  <2>1. /\ requesting # NoSnapshot /\ Len(snapshotReqCh) < SnapCap /\ requesting' = NoSnapshot
        /\ snapshotReqCh' = Append(snapshotReqCh, requesting)
    BY <1>19 DEF SendRequest, SendHeld
  <2>2. snapshotReqCh' \in Seq(Nat) /\ Len(snapshotReqCh') <= SnapCap
    BY <1>0, <1>q, <1>l, <2>1, SentWithin
  <2> QED  BY <1>19, <2>1, <2>2 DEF SendRequest, TypeOK, topics, applier, committer, snapshotter, faults
<1>16. ASSUME UNCHANGED vars PROVE TypeOK'
  BY <1>16 DEF vars, TypeOK, topics, applier, committer, snapshotter, snapChans, faults
<1> QED
  BY <1>1, <1>2, <1>3, <1>4, <1>5, <1>6, <1>7, <1>8, <1>9, <1>10, <1>11, <1>12, <1>13, <1>14, <1>15, <1>16,
     <1>17, <1>18, <1>19
     DEF Next

LEMMA TypeInit == Init => TypeOK
<1>1. /\ 0 < Batch /\ 0 <= OrderCap /\ 0 <= LogCap /\ 0 <= SnapCap
      /\ 0 \in 0 .. MaxCrashes /\ 0 \in 0 .. MaxExpiries /\ 0 \in Nat
  BY EngineAssumption
<1> QED  BY <1>1, EmptyType, Emptied, Zenon DEF Init, TypeOK

\* The program keeps its types: channels stay within their capacities, and
\* the committer's batch below 100 logs.
THEOREM EngineTypeOK == Spec => []TypeOK
  BY TypeInit, TypeStep, PTL DEF Spec-----------------------------------------------------------------------------
(* Offsets.                                                                *)

\* The messages the applier has taken, since the topic's beginning.
Taken == fetchOffset - Len(orderCh)

\* orderCh holds the messages from there to the fetcher's offset.
Flow ==
    /\ fetchOffset <= Len(orderTopic)
    /\ Taken \in Nat
    /\ \A n \in 1 .. Len(orderCh) :
          orderCh[n] = [offset |-> Taken + n - 1, order |-> orderTopic[Taken + n]]
    /\ appliedOffset = 0 \/ appliedOffset = Taken - 1

\* Snapshots in a channel are in the order of their offsets, which lie
\* between lo and hi.
Between(q, lo, hi) ==
    /\ \A i \in 1 .. Len(q) : lo <= q[i].offset /\ q[i].offset <= hi
    /\ \A i \in 1 .. Len(q) : \A j \in i .. Len(q) : q[i].offset <= q[j].offset

\* The snapshots of one channel come before those of another.
Below(q, r) == \A i \in 1 .. Len(q) : \A j \in 1 .. Len(r) : q[i].offset <= r[j].offset

\* The snapshots in a channel, and the one that waits to be sent to it.
WithHeld(q, held) == IF held = NoSnapshot THEN q ELSE Append(q, held)

\* Those that wait for the committer, and those it has approved.
Asked == WithHeld(snapshotApproveReqCh, taking)
Approved == WithHeld(snapshotCh, approved)

LEMMA HeldSent ==
    ASSUME NEW q, NEW s \in Snapshots, NEW r, NEW held,
           \/ r = Append(q, s) /\ held = NoSnapshot
           \/ r = q /\ held = s
    PROVE  WithHeld(r, held) = Append(WithHeld(q, NoSnapshot), s)
  BY Snaps DEF WithHeld

LEMMA HeldMoved ==
    ASSUME NEW q, NEW held, held # NoSnapshot
    PROVE  WithHeld(Append(q, held), NoSnapshot) = WithHeld(q, held)
  BY DEF WithHeld

LEMMA HeldReceived ==
    ASSUME NEW q \in Seq(Snapshots), q # << >>, NEW held \in Snapshots \cup {NoSnapshot}
    PROVE  /\ WithHeld(q, held) # << >>
           /\ Head(WithHeld(q, held)) = Head(q)
           /\ WithHeld(Tail(q), held) = Tail(WithHeld(q, held))
<1>1. CASE held = NoSnapshot  BY <1>1 DEF WithHeld
<1>2. CASE held # NoSnapshot
  <2>1. held \in Snapshots  BY <1>2
  <2>2. PICK r : r = Append(q, held)  OBVIOUS
  <2>3. /\ r \in Seq(Snapshots) /\ Len(r) = Len(q) + 1 /\ Len(q) \in Nat \ {0}
        /\ \A n \in 1 .. Len(q) : r[n] = q[n]
        /\ r[Len(q) + 1] = held
    BY <2>1, <2>2, Sent, Received
  <2>4. r # << >>  BY <2>3
  <2>5. Head(r) = r[1] /\ Head(q) = q[1] /\ 1 \in 1 .. Len(q)  BY <2>3, <2>4, Received
  <2>6. Append(Tail(q), held) = Tail(r)  BY <2>1, <2>2
  <2> QED  BY <1>2, <2>2, <2>3, <2>4, <2>5, <2>6 DEF WithHeld
<1> QED  BY <1>1, <1>2

LEMMA HeldType ==
    ASSUME NEW q \in Seq(Snapshots), NEW held \in Snapshots \cup {NoSnapshot}
    PROVE  WithHeld(q, held) \in Seq(Snapshots)
<1>1. CASE held = NoSnapshot  BY <1>1 DEF WithHeld
<1>2. CASE held \in Snapshots  BY <1>2, Sent DEF WithHeld
<1> QED  BY <1>1, <1>2

LEMMA ChainsType == TypeOK => Asked \in Seq(Snapshots) /\ Approved \in Seq(Snapshots)
  BY HeldType DEF TypeOK, Asked, Approved

\* The offset of the stored snapshot, or the least a snapshot has.
Least == IF redis = NoSnapshot THEN 1 ELSE redis.offset

\* Snapshots are approved and stored in the order of their offsets.
SnapshotsAscend ==
    /\ Least \in Nat \ {0}
    /\ redis # NoSnapshot => redis.offset < Taken
    /\ Between(Approved, Least, appliedOffset)
    /\ Between(Asked, Least, appliedOffset)
    /\ Below(Approved, Asked)
    /\ pending # NoSnapshot => /\ Between(Approved, Least, pending.offset)
                               /\ Between(Asked, pending.offset, appliedOffset)
                               /\ Least <= pending.offset /\ pending.offset <= appliedOffset

OffsetInv == TypeOK /\ Flow /\ SnapshotsAscend

LEMMA OffsetInit == Init => OffsetInv
<1> SUFFICES ASSUME Init PROVE OffsetInv
  OBVIOUS
<1>1. TypeOK  BY TypeInit
<1>2. Len(<< >>) = 0  OBVIOUS
<1>3. Flow
  <2>1. Len(orderTopic) = 0 /\ Len(orderCh) = 0 /\ fetchOffset = 0 /\ appliedOffset = 0
    BY <1>2 DEF Init
  <2> QED  BY <2>1 DEF Flow, Taken
<1>4. SnapshotsAscend
  <2>1. Len(Approved) = 0 /\ Len(Asked) = 0 /\ pending = NoSnapshot /\ redis = NoSnapshot
    BY <1>2 DEF Init, Asked, Approved, WithHeld
  <2> QED  BY <2>1 DEF SnapshotsAscend, Below, Between, Least
<1> QED  BY <1>1, <1>3, <1>4 DEF OffsetInv

\* A restart reads on after the stored snapshot.
LEMMA RestartOffsets ==
    ASSUME OffsetInv, NEW topic, Restart(topic)
    PROVE  Flow' /\ SnapshotsAscend'
<1>0. TypeOK /\ Flow /\ SnapshotsAscend  BY DEF OffsetInv
<1>1. Boot(redis) /\ redis' = redis /\ orderTopic' = orderTopic  BY DEF Restart
<1>2. Len(<< >>) = 0  OBVIOUS
<1>3. Len(orderTopic) \in Nat /\ Len(orderCh) \in Nat /\ fetchOffset \in Nat
  BY <1>0 DEF TypeOK
<1>4. CASE redis # NoSnapshot
  <2>1. BootSets(redis.book, redis.offset)  BY <1>1, <1>4, BootEffect
  <2>2. redis.offset \in Nat \ {0} /\ redis.offset < Taken /\ Least = redis.offset /\ Taken \in Nat
        /\ fetchOffset <= Len(orderTopic)
    BY <1>0, <1>4 DEF Flow, SnapshotsAscend, Least
  <2>3. fetchOffset' = redis.offset + 1  BY <2>1, <2>2 DEF BootSets, FirstOffset
  <2>4. Len(orderCh') = 0 /\ appliedOffset' = 0 /\ Len(Approved') = 0
        /\ Len(Asked') = 0 /\ pending' = NoSnapshot
    BY <1>2, <2>1 DEF BootSets, Asked, Approved, WithHeld
  <2>5. Taken' = redis.offset + 1  BY <2>2, <2>3, <2>4 DEF Taken
  <2>6. redis.offset + 1 <= Len(orderTopic)  BY <1>3, <2>2 DEF Taken
  <2>7. Flow'  BY <1>1, <1>3, <2>2, <2>3, <2>4, <2>5, <2>6 DEF Flow
  <2>8. Least' = redis.offset  BY <1>1, <2>2 DEF Least
  <2>9. SnapshotsAscend'  BY <1>1, <2>2, <2>4, <2>5, <2>8 DEF SnapshotsAscend, Below, Between
  <2> QED  BY <2>7, <2>9
<1>5. CASE redis = NoSnapshot
  <2>1. BootSets(EmptyBook, 0)  BY <1>1, <1>5, BootEffect
  <2>2. fetchOffset' = 0  BY <2>1 DEF BootSets, FirstOffset
  <2>3. Len(orderCh') = 0 /\ appliedOffset' = 0 /\ Len(Approved') = 0
        /\ Len(Asked') = 0 /\ pending' = NoSnapshot
    BY <1>2, <2>1 DEF BootSets, Asked, Approved, WithHeld
  <2>4. Flow'  BY <1>1, <1>3, <2>2, <2>3 DEF Flow, Taken
  <2>5. SnapshotsAscend'  BY <1>1, <1>5, <2>3 DEF SnapshotsAscend, Below, Between, Least
  <2> QED  BY <2>4, <2>5
<1> QED  BY <1>4, <1>5

\* Every other step takes messages and snapshots in turn.
LEMMA FlowStep ==
    ASSUME OffsetInv, [Next]_vars, ~ Crash, ~ CrashInStore
    PROVE  Flow' /\ Taken' >= Taken /\ appliedOffset' >= appliedOffset
<1>0. TypeOK /\ Flow  BY DEF OffsetInv
<1>1. /\ orderTopic \in Seq(Messages) /\ orderCh \in Seq(OffsetOrders) /\ fetchOffset \in Nat
      /\ Len(orderTopic) \in Nat /\ Len(orderCh) \in Nat /\ Taken \in Nat /\ appliedOffset \in Nat
      /\ fetchOffset = Taken + Len(orderCh) /\ fetchOffset <= Len(orderTopic)
  <2>1. orderTopic \in Seq(Messages) /\ orderCh \in Seq(OffsetOrders) /\ fetchOffset \in Nat /\ appliedOffset \in Nat
    BY <1>0 DEF TypeOK
  <2>2. Len(orderTopic) \in Nat /\ Len(orderCh) \in Nat  BY <2>1
  <2>3. Taken \in Nat /\ Taken = fetchOffset - Len(orderCh) /\ fetchOffset <= Len(orderTopic)
    BY <1>0 DEF Flow, Taken
  <2> QED  BY <2>1, <2>2, <2>3
<1>2. ASSUME NEW m \in Traffic, SubmitOrder(m) PROVE Flow' /\ Taken' >= Taken /\ appliedOffset' >= appliedOffset
  <2>1. /\ orderTopic' = Append(orderTopic, m)
        /\ orderCh' = orderCh /\ fetchOffset' = fetchOffset /\ appliedOffset' = appliedOffset
    BY <1>2 DEF SubmitOrder, applier
  <2>2. /\ Len(orderTopic') = Len(orderTopic) + 1
        /\ \A n \in 1 .. Len(orderTopic) : orderTopic'[n] = orderTopic[n]
    BY <1>1, <1>2, <2>1, Sent, BookAssumption
  <2>3. Taken' = Taken  BY <2>1 DEF Taken
  <2>4. \A n \in 1 .. Len(orderCh) : Taken + n \in 1 .. Len(orderTopic)  BY <1>1
  <2> QED  BY <1>0, <1>1, <2>1, <2>2, <2>3, <2>4 DEF Flow
<1>3. ASSUME Fetch PROVE Flow' /\ Taken' >= Taken /\ appliedOffset' >= appliedOffset
  <2>1. PICK m : m = [offset |-> fetchOffset, order |-> orderTopic[fetchOffset + 1]]  OBVIOUS
  <2>2. /\ orderCh' = Append(orderCh, m) /\ fetchOffset' = fetchOffset + 1
        /\ fetchOffset < Len(orderTopic)
        /\ orderTopic' = orderTopic /\ appliedOffset' = appliedOffset
    BY <1>3, <2>1 DEF Fetch, topics, applier
  <2>3. m \in OffsetOrders  BY <1>1, <2>1, <2>2 DEF OffsetOrders
  <2>4. /\ Len(orderCh') = Len(orderCh) + 1 /\ orderCh'[Len(orderCh) + 1] = m
        /\ \A n \in 1 .. Len(orderCh) : orderCh'[n] = orderCh[n]
    BY <1>1, <2>2, <2>3, Sent
  <2>5. Taken' = Taken  BY <1>1, <2>2, <2>4 DEF Taken
  <2>6. \A n \in 1 .. Len(orderCh') :
           orderCh'[n] = [offset |-> Taken + n - 1, order |-> orderTopic[Taken + n]]
    <3> TAKE n \in 1 .. Len(orderCh')
    <3>1. CASE n \in 1 .. Len(orderCh)  BY <1>0, <2>4, <3>1 DEF Flow
    <3>2. CASE n = Len(orderCh) + 1
      <4>1. Taken + n - 1 = fetchOffset /\ Taken + n = fetchOffset + 1  BY <1>1, <3>2
      <4> QED  BY <2>1, <2>4, <3>2, <4>1
    <3> QED  BY <1>1, <2>4, <3>1, <3>2
  <2> QED  BY <1>0, <1>1, <2>2, <2>5, <2>6 DEF Flow
<1>4. ASSUME ApplyMessage PROVE Flow' /\ Taken' >= Taken /\ appliedOffset' >= appliedOffset
  <2>1. /\ orderCh # << >> /\ orderCh' = Tail(orderCh) /\ appliedOffset' = Head(orderCh).offset
        /\ fetchOffset' = fetchOffset /\ orderTopic' = orderTopic
    BY <1>4 DEF ApplyMessage, topics
  <2>2. /\ Head(orderCh) = orderCh[1] /\ Len(orderCh') = Len(orderCh) - 1 /\ Len(orderCh) >= 1
        /\ \A n \in 1 .. Len(orderCh) - 1 : orderCh'[n] = orderCh[n + 1]
    BY <1>1, <2>1, Received
  <2>3. Taken' = Taken + 1  BY <1>1, <2>1, <2>2 DEF Taken
  <2>4. appliedOffset' = Taken
    <3>1. 1 \in 1 .. Len(orderCh)  BY <1>1, <2>2
    <3>2. orderCh[1] = [offset |-> Taken + 1 - 1, order |-> orderTopic[Taken + 1]]
      BY <1>0, <3>1 DEF Flow
    <3> QED  BY <1>1, <2>1, <2>2, <3>2
  <2>5. \A n \in 1 .. Len(orderCh') :
           orderCh'[n] = [offset |-> (Taken + 1) + n - 1, order |-> orderTopic[(Taken + 1) + n]]
    <3> TAKE n \in 1 .. Len(orderCh')
    <3>1. n + 1 \in 1 .. Len(orderCh) /\ orderCh'[n] = orderCh[n + 1]  BY <1>1, <2>2
    <3>2. orderCh[n + 1] = [offset |-> Taken + (n + 1) - 1, order |-> orderTopic[Taken + (n + 1)]]
      BY <1>0, <3>1 DEF Flow
    <3>3. Taken + (n + 1) = (Taken + 1) + n /\ Taken + (n + 1) - 1 = (Taken + 1) + n - 1  BY <1>1
    <3> QED  BY <3>1, <3>2, <3>3
  <2>6. appliedOffset' >= appliedOffset  BY <1>0, <1>1, <2>4 DEF Flow
  <2>7. Taken' \in Nat /\ Taken' >= Taken /\ appliedOffset' = Taken' - 1  BY <1>1, <2>3, <2>4
  <2> QED  BY <1>1, <2>1, <2>3, <2>5, <2>6, <2>7 DEF Flow
<1>5. ASSUME UNCHANGED <<orderTopic, orderCh, fetchOffset, appliedOffset>>
      PROVE  Flow' /\ Taken' >= Taken /\ appliedOffset' >= appliedOffset
  <2>1. Taken' = Taken  BY <1>5 DEF Taken
  <2> QED  BY <1>0, <1>1, <1>5, <2>1 DEF Flow
<1>6. \/ \E m \in Traffic : SubmitOrder(m)
      \/ Fetch \/ ApplyMessage
      \/ UNCHANGED <<orderTopic, orderCh, fetchOffset, appliedOffset>>
  <2>1. CASE SendLog  BY <2>1 DEF SendLog, topics
  <2>2. CASE TakeSnapshot \/ SendTaken  BY <2>2 DEF TakeSnapshot, SendTaken, topics, applier
  <2>3. CASE StartCommitter \/ DiscardLog \/ BufferLog
    BY <2>3 DEF StartCommitter, DiscardLog, BufferLog, topics, applier
  <2>4. CASE StoreLogs \/ ApproveSnapshot \/ SendApproved
    BY <2>4 DEF StoreLogs, ApproveSnapshot, SendApproved, topics, applier
  <2>5. CASE RequestSnapshot \/ SendRequest \/ StoreSnapshot \/ StoreSnapshotFails
    BY <2>5 DEF RequestSnapshot, SendRequest, StoreSnapshot, StoreSnapshotFails, topics, applier
  <2>6. CASE Expire \/ UNCHANGED vars  BY <2>6 DEF Expire, vars, topics, applier
  <2> QED  BY <2>1, <2>2, <2>3, <2>4, <2>5, <2>6 DEF Next
<1> QED  BY <1>2, <1>3, <1>4, <1>5, <1>6
LEMMA OffsetsNat ==
    ASSUME NEW q \in Seq(Snapshots)
    PROVE  \A i \in 1 .. Len(q) : q[i] \in Snapshots /\ q[i].offset \in Nat
<1>1. \A i \in 1 .. Len(q) : q[i] \in Snapshots  OBVIOUS
<1> QED  BY <1>1, Snaps

LEMMA BetweenWider ==
    ASSUME NEW q \in Seq(Snapshots), NEW lo \in Int, NEW hi \in Int, NEW lo2 \in Int, NEW hi2 \in Int,
           Between(q, lo, hi), lo2 <= lo, hi <= hi2
    PROVE  Between(q, lo2, hi2)
<1>1. \A i \in 1 .. Len(q) : q[i].offset \in Nat  BY OffsetsNat
<1> QED  BY <1>1 DEF Between

LEMMA BetweenSent ==
    ASSUME NEW q \in Seq(Snapshots), NEW lo \in Int, NEW hi \in Int, NEW s \in Snapshots,
           Between(q, lo, s.offset), lo <= s.offset, s.offset <= hi
    PROVE  Between(Append(q, s), lo, hi)
<1>1. \A i \in 1 .. Len(q) : q[i].offset \in Nat  BY OffsetsNat
<1>2. s.offset \in Nat  BY DEF Snapshots
<1>3. PICK r : r = Append(q, s)  OBVIOUS
<1>4. /\ Len(r) = Len(q) + 1 /\ Len(q) \in Nat /\ r[Len(q) + 1] = s
      /\ \A n \in 1 .. Len(q) : r[n] = q[n]
  BY <1>3, Sent
<1>5. \A i \in 1 .. Len(r) : i \in 1 .. Len(q) \/ i = Len(q) + 1  BY <1>4
<1>6. \A i \in 1 .. Len(r) : lo <= r[i].offset /\ r[i].offset <= s.offset
  BY <1>1, <1>2, <1>4, <1>5 DEF Between
<1>7. \A i \in 1 .. Len(r) : r[i].offset \in Nat  BY <1>1, <1>2, <1>4, <1>5
<1>8. ASSUME NEW i \in 1 .. Len(r), NEW j \in i .. Len(r) PROVE r[i].offset <= r[j].offset
  <2>1. CASE j = Len(q) + 1  BY <1>4, <1>6, <2>1
  <2>2. CASE j # Len(q) + 1
    <3>1. i \in 1 .. Len(q) /\ j \in i .. Len(q) /\ j \in 1 .. Len(q)  BY <1>4, <2>2
    <3> QED  BY <1>4, <3>1 DEF Between
  <2> QED  BY <2>1, <2>2
<1>9. \A i \in 1 .. Len(r) : lo <= r[i].offset /\ r[i].offset <= hi
  BY <1>2, <1>6, <1>7
<1> QED  BY <1>3, <1>8, <1>9 DEF Between

LEMMA BetweenReceived ==
    ASSUME NEW q \in Seq(Snapshots), q # << >>, NEW lo \in Int, NEW hi \in Int, Between(q, lo, hi)
    PROVE  /\ Between(Tail(q), Head(q).offset, hi)
           /\ lo <= Head(q).offset /\ Head(q).offset <= hi
<1>1. PICK r : r = Tail(q)  OBVIOUS
<1>2. /\ Head(q) = q[1] /\ Len(r) = Len(q) - 1 /\ Len(q) \in Nat \ {0}
      /\ \A n \in 1 .. Len(q) - 1 : r[n] = q[n + 1]
  BY <1>1, Received
<1>3. 1 \in 1 .. Len(q)  BY <1>2
<1>4. lo <= Head(q).offset /\ Head(q).offset <= hi  BY <1>2, <1>3 DEF Between
<1>5. ASSUME NEW i \in 1 .. Len(r) PROVE Head(q).offset <= r[i].offset /\ r[i].offset <= hi
  <2>1. i + 1 \in 1 .. Len(q) /\ r[i] = q[i + 1]  BY <1>2
  <2> QED  BY <1>2, <1>3, <2>1 DEF Between
<1>6. ASSUME NEW i \in 1 .. Len(r), NEW j \in i .. Len(r) PROVE r[i].offset <= r[j].offset
  <2>1. i + 1 \in 1 .. Len(q) /\ r[i] = q[i + 1]  BY <1>2
  <2>2. j + 1 \in i + 1 .. Len(q) /\ r[j] = q[j + 1]  BY <1>2
  <2> QED  BY <2>1, <2>2 DEF Between
<1> QED  BY <1>1, <1>4, <1>5, <1>6 DEF Between

LEMMA BelowReceived ==
    ASSUME NEW q \in Seq(Snapshots), NEW r \in Seq(Snapshots), Below(q, r)
    PROVE  /\ q # << >> => Below(Tail(q), r)
           /\ r # << >> => Below(q, Tail(r))
<1>1. ASSUME q # << >> PROVE Below(Tail(q), r)
  <2>1. PICK t : t = Tail(q)  OBVIOUS
  <2>2. Len(t) = Len(q) - 1 /\ Len(q) \in Nat /\ \A n \in 1 .. Len(q) - 1 : t[n] = q[n + 1]
    BY <1>1, <2>1, Received
  <2>3. \A i \in 1 .. Len(t) : i + 1 \in 1 .. Len(q) /\ t[i] = q[i + 1]  BY <2>2
  <2> QED  BY <2>1, <2>3 DEF Below
<1>2. ASSUME r # << >> PROVE Below(q, Tail(r))
  <2>1. PICK t : t = Tail(r)  OBVIOUS
  <2>2. Len(t) = Len(r) - 1 /\ Len(r) \in Nat /\ \A n \in 1 .. Len(r) - 1 : t[n] = r[n + 1]
    BY <1>2, <2>1, Received
  <2>3. \A i \in 1 .. Len(t) : i + 1 \in 1 .. Len(r) /\ t[i] = r[i + 1]  BY <2>2
  <2> QED  BY <2>1, <2>3 DEF Below
<1> QED  BY <1>1, <1>2

LEMMA BelowSent ==
    ASSUME NEW q \in Seq(Snapshots), NEW r \in Seq(Snapshots), Below(q, r), NEW s \in Snapshots
    PROVE  /\ (\A j \in 1 .. Len(r) : s.offset <= r[j].offset) => Below(Append(q, s), r)
           /\ (\A i \in 1 .. Len(q) : q[i].offset <= s.offset) => Below(q, Append(r, s))
<1>1. ASSUME \A j \in 1 .. Len(r) : s.offset <= r[j].offset PROVE Below(Append(q, s), r)
  <2>1. PICK t : t = Append(q, s)  OBVIOUS
  <2>2. Len(t) = Len(q) + 1 /\ Len(q) \in Nat /\ t[Len(q) + 1] = s /\ \A n \in 1 .. Len(q) : t[n] = q[n]
    BY <2>1, Sent
  <2>3. \A i \in 1 .. Len(t) : i \in 1 .. Len(q) \/ i = Len(q) + 1  BY <2>2
  <2> QED  BY <1>1, <2>1, <2>2, <2>3 DEF Below
<1>2. ASSUME \A i \in 1 .. Len(q) : q[i].offset <= s.offset PROVE Below(q, Append(r, s))
  <2>1. PICK t : t = Append(r, s)  OBVIOUS
  <2>2. Len(t) = Len(r) + 1 /\ Len(r) \in Nat /\ t[Len(r) + 1] = s /\ \A n \in 1 .. Len(r) : t[n] = r[n]
    BY <2>1, Sent
  <2>3. \A i \in 1 .. Len(t) : i \in 1 .. Len(r) \/ i = Len(r) + 1  BY <2>2
  <2> QED  BY <1>2, <2>1, <2>2, <2>3 DEF Below
<1> QED  BY <1>1, <1>2

\* Snapshots below those of a channel are below each of it.
LEMMA BelowBetween ==
    ASSUME NEW q \in Seq(Snapshots), NEW r \in Seq(Snapshots), Below(q, r), NEW lo \in Int, NEW hi \in Int,
           Between(q, lo, hi), Between(r, lo, hi)
    PROVE  /\ r # << >> => Between(q, lo, Head(r).offset)
           /\ q # << >> => Between(r, Head(q).offset, hi)
<1>1. ASSUME r # << >> PROVE Between(q, lo, Head(r).offset)
  <2>1. Head(r) = r[1] /\ 1 \in 1 .. Len(r)  BY <1>1, Received
  <2> QED  BY <2>1 DEF Below, Between
<1>2. ASSUME q # << >> PROVE Between(r, Head(q).offset, hi)
  <2>1. Head(q) = q[1] /\ 1 \in 1 .. Len(q)  BY <1>2, Received
  <2> QED  BY <2>1 DEF Below, Between
<1> QED  BY <1>1, <1>2
\* What the facts about offsets need of the types.
LEMMA OffsetTypes ==
    ASSUME OffsetInv
    PROVE  /\ Approved \in Seq(Snapshots) /\ Asked \in Seq(Snapshots)
           /\ pending # NoSnapshot => pending \in Snapshots /\ pending.offset \in Int
           /\ redis # NoSnapshot => redis \in Snapshots /\ redis.offset \in Nat /\ Least = redis.offset
           /\ appliedOffset \in Int /\ Least \in Int /\ Taken \in Int /\ Least >= 1
           /\ appliedOffset > 0 => appliedOffset = Taken - 1
<1>1. TypeOK /\ Flow /\ SnapshotsAscend  BY DEF OffsetInv
<1>2. /\ Approved \in Seq(Snapshots) /\ Asked \in Seq(Snapshots)
      /\ pending \in Snapshots \cup {NoSnapshot} /\ redis \in Snapshots \cup {NoSnapshot}
      /\ appliedOffset \in Nat
  BY <1>1, ChainsType DEF TypeOK
<1>3. /\ Taken \in Nat /\ Least \in Nat \ {0}
      /\ appliedOffset = 0 \/ appliedOffset = Taken - 1
  BY <1>1 DEF Flow, SnapshotsAscend
<1>4. pending # NoSnapshot => pending \in Snapshots /\ pending.offset \in Int  BY <1>2, Snaps
<1>5. redis # NoSnapshot => redis \in Snapshots /\ redis.offset \in Nat /\ Least = redis.offset
  BY <1>2, Snaps DEF Least
<1> QED  BY <1>2, <1>3, <1>4, <1>5

\* What the steps do to the snapshots on their way.
LEMMA TakeEffect ==
    ASSUME TypeOK, TakeSnapshot
    PROVE  /\ UNCHANGED <<orderTopic, redis, raced, book, pending, Approved, appliedOffset, Taken>>
           /\ snapshotReqCh # << >>
           /\ \/ Asked' = Asked
              \/ /\ appliedOffset - Head(snapshotReqCh) > Gap
                 /\ Asked' = Append(Asked, [offset |-> appliedOffset, book |-> book])
<1>1. PICK s : s = [offset |-> appliedOffset, book |-> book]  OBVIOUS
<1>2. s \in Snapshots  BY <1>1 DEF TypeOK, Snapshots
<1>3. /\ UNCHANGED <<orderTopic, redis, raced, book, pending, snapshotCh, approved, appliedOffset,
                     orderCh, fetchOffset>>
      /\ snapshotReqCh # << >> /\ taking = NoSnapshot
      /\ \/ snapshotApproveReqCh' = snapshotApproveReqCh /\ taking' = taking
         \/ /\ appliedOffset - Head(snapshotReqCh) > Gap
            /\ \/ snapshotApproveReqCh' = Append(snapshotApproveReqCh, s) /\ taking' = NoSnapshot
               \/ snapshotApproveReqCh' = snapshotApproveReqCh /\ taking' = s
  BY <1>1 DEF TakeSnapshot, Send, ApplierFree, topics, committer, faults
<1>4. Approved' = Approved /\ Taken' = Taken  BY <1>3 DEF Approved, Taken
<1>5. CASE snapshotApproveReqCh' = snapshotApproveReqCh /\ taking' = taking
  BY <1>3, <1>4, <1>5 DEF Asked
<1>6. CASE /\ appliedOffset - Head(snapshotReqCh) > Gap
           /\ \/ snapshotApproveReqCh' = Append(snapshotApproveReqCh, s) /\ taking' = NoSnapshot
              \/ snapshotApproveReqCh' = snapshotApproveReqCh /\ taking' = s
  <2>1. Asked' = Append(Asked, s)  BY <1>2, <1>3, <1>6, HeldSent DEF Asked
  <2> QED  BY <1>1, <1>3, <1>4, <1>6, <2>1
<1> QED  BY <1>3, <1>5, <1>6

LEMMA StoreEffect ==
    ASSUME TypeOK, StoreLogs
    PROVE  /\ UNCHANGED <<orderTopic, redis, raced, book, Asked, appliedOffset, Taken>>
           /\ \/ pending # NoSnapshot /\ Approved' = Append(Approved, pending) /\ pending' = NoSnapshot
              \/ Approved' = Approved /\ pending' = pending
<1>1. /\ UNCHANGED <<orderTopic, redis, raced, book, snapshotApproveReqCh, taking, appliedOffset,
                     orderCh, fetchOffset>>
      /\ approved = NoSnapshot
      /\ \/ /\ pending # NoSnapshot /\ pending' = NoSnapshot
            /\ \/ snapshotCh' = Append(snapshotCh, pending) /\ approved' = NoSnapshot
               \/ snapshotCh' = snapshotCh /\ approved' = pending
         \/ snapshotCh' = snapshotCh /\ approved' = approved /\ pending' = pending
  BY DEF StoreLogs, MustStore, LogWaits, Send, applier, faults
<1>2. Asked' = Asked /\ Taken' = Taken  BY <1>1 DEF Asked, Taken
<1>3. CASE /\ pending # NoSnapshot /\ pending' = NoSnapshot
           /\ \/ snapshotCh' = Append(snapshotCh, pending) /\ approved' = NoSnapshot
              \/ snapshotCh' = snapshotCh /\ approved' = pending
  <2>1. pending \in Snapshots  BY <1>3 DEF TypeOK
  <2>2. Approved' = Append(Approved, pending)  BY <1>1, <1>3, <2>1, HeldSent DEF Approved
  <2> QED  BY <1>1, <1>2, <1>3, <2>2
<1>4. CASE snapshotCh' = snapshotCh /\ approved' = approved /\ pending' = pending
  BY <1>1, <1>2, <1>4 DEF Approved
<1> QED  BY <1>1, <1>3, <1>4

LEMMA ApproveEffect ==
    ASSUME TypeOK, ApproveSnapshot
    PROVE  /\ UNCHANGED <<orderTopic, redis, raced, book, appliedOffset, Taken>>
           /\ Asked # << >> /\ Asked' = Tail(Asked)
           /\ \/ Approved' = Append(Approved, Head(Asked)) /\ pending' = NoSnapshot
              \/ Approved' = Approved /\ pending' = Head(Asked)
<1>1. PICK s : s = Head(snapshotApproveReqCh)  OBVIOUS
<1>2. /\ UNCHANGED <<orderTopic, redis, raced, book, taking, appliedOffset, orderCh, fetchOffset>>
      /\ approved = NoSnapshot
      /\ snapshotApproveReqCh # << >> /\ snapshotApproveReqCh' = Tail(snapshotApproveReqCh)
      /\ \/ /\ pending' = NoSnapshot
            /\ \/ snapshotCh' = Append(snapshotCh, s) /\ approved' = NoSnapshot
               \/ snapshotCh' = snapshotCh /\ approved' = s
         \/ snapshotCh' = snapshotCh /\ approved' = approved /\ pending' = s
  BY <1>1 DEF ApproveSnapshot, Send, topics, applier, faults
<1>3. snapshotApproveReqCh \in Seq(Snapshots) /\ taking \in Snapshots \cup {NoSnapshot}
  BY DEF TypeOK
<1>4. Asked # << >> /\ Head(Asked) = s /\ Asked' = Tail(Asked)
  BY <1>1, <1>2, <1>3, HeldReceived DEF Asked
<1>5. s \in Snapshots  BY <1>1, <1>2, <1>3, Received
<1>6. Taken' = Taken  BY <1>2 DEF Taken
<1>7. CASE /\ pending' = NoSnapshot
           /\ \/ snapshotCh' = Append(snapshotCh, s) /\ approved' = NoSnapshot
              \/ snapshotCh' = snapshotCh /\ approved' = s
  <2>1. Approved' = Append(Approved, s)  BY <1>2, <1>5, <1>7, HeldSent DEF Approved
  <2> QED  BY <1>2, <1>4, <1>6, <1>7, <2>1
<1>8. CASE snapshotCh' = snapshotCh /\ approved' = approved /\ pending' = s
  BY <1>2, <1>4, <1>6, <1>8 DEF Approved
<1> QED  BY <1>2, <1>7, <1>8

LEMMA PutEffect ==
    ASSUME TypeOK, StoreSnapshot \/ StoreSnapshotFails
    PROVE  /\ UNCHANGED <<orderTopic, book, pending, Asked, appliedOffset, Taken>>
           /\ Approved # << >> /\ Approved' = Tail(Approved)
           /\ \/ redis' = redis /\ raced' = raced
              \/ /\ redis' \in Marshalled(Head(Approved))
                 /\ raced' = (Head(Approved).book.windows # book.windows)
<1>1. /\ UNCHANGED <<orderTopic, book, pending, snapshotApproveReqCh, taking, approved, appliedOffset,
                     orderCh, fetchOffset>>
      /\ snapshotCh # << >> /\ snapshotCh' = Tail(snapshotCh)
      /\ UNCHANGED <<redis, raced>> \/ PutSnapshot
  BY DEF StoreSnapshot, StoreSnapshotFails, applier, committer
<1>2. snapshotCh \in Seq(Snapshots) /\ approved \in Snapshots \cup {NoSnapshot}  BY DEF TypeOK
<1>3. Approved # << >> /\ Head(Approved) = Head(snapshotCh) /\ Approved' = Tail(Approved)
  BY <1>1, <1>2, HeldReceived DEF Approved
<1>4. Asked' = Asked /\ Taken' = Taken  BY <1>1 DEF Asked, Taken
<1>5. CASE UNCHANGED <<redis, raced>>  BY <1>1, <1>3, <1>4, <1>5
<1>6. CASE PutSnapshot  BY <1>1, <1>3, <1>4, <1>6, Zenon DEF PutSnapshot
<1> QED  BY <1>1, <1>5, <1>6

\* The other steps leave them in their order.
LEMMA OtherEffect ==
    ASSUME TypeOK, [Next]_vars, ~ Crash, ~ CrashInStore, ~ TakeSnapshot, ~ StoreLogs, ~ ApproveSnapshot,
           ~ StoreSnapshot, ~ StoreSnapshotFails
    PROVE  /\ UNCHANGED <<Approved, Asked, pending, raced>>
           /\ redis' = redis \/ redis' = NoSnapshot
<1>1. ASSUME UNCHANGED <<snapshotCh, approved, snapshotApproveReqCh, taking>>
      PROVE  UNCHANGED <<Approved, Asked>>
  BY <1>1 DEF Asked, Approved
<1>2. ASSUME NEW m \in Traffic, SubmitOrder(m)
      PROVE  /\ UNCHANGED <<snapshotCh, approved, snapshotApproveReqCh, taking, pending, raced>>
             /\ redis' = redis
  BY <1>2 DEF SubmitOrder, applier, committer, snapChans, faults
<1>3. CASE Fetch \/ ApplyMessage \/ SendLog
  BY <1>1, <1>3 DEF Fetch, ApplyMessage, SendLog, topics, applier, committer, snapChans, faults
<1>4. CASE StartCommitter \/ DiscardLog \/ BufferLog
  BY <1>1, <1>4 DEF StartCommitter, DiscardLog, BufferLog, topics, applier, committer, snapChans, faults
<1>5. CASE RequestSnapshot \/ SendRequest
  BY <1>1, <1>5 DEF RequestSnapshot, SendRequest, topics, applier, committer, faults
<1>6. CASE Expire \/ UNCHANGED vars
  BY <1>1, <1>6 DEF Expire, vars, topics, applier, committer, snapChans, faults
<1>7. CASE SendTaken
  <2>1. /\ UNCHANGED <<snapshotCh, approved, pending, raced, redis>> /\ taking # NoSnapshot
        /\ snapshotApproveReqCh' = Append(snapshotApproveReqCh, taking) /\ taking' = NoSnapshot
    BY <1>7 DEF SendTaken, SendHeld, topics, committer, faults
  <2>2. Asked' = Asked  BY <2>1, HeldMoved DEF Asked
  <2> QED  BY <2>1, <2>2 DEF Approved
<1>8. CASE SendApproved
  <2>1. /\ UNCHANGED <<snapshotApproveReqCh, taking, pending, raced, redis>> /\ approved # NoSnapshot
        /\ snapshotCh' = Append(snapshotCh, approved) /\ approved' = NoSnapshot
    BY <1>8 DEF SendApproved, SendHeld, topics, applier, faults
  <2>2. Approved' = Approved  BY <2>1, HeldMoved DEF Approved
  <2> QED  BY <2>1, <2>2 DEF Asked
<1> QED  BY <1>1, <1>2, <1>3, <1>4, <1>5, <1>6, <1>7, <1>8 DEF Next

LEMMA SnapshotsStep ==
    ASSUME OffsetInv, [Next]_vars, ~ Crash, ~ CrashInStore
    PROVE  SnapshotsAscend' /\ (redis' # NoSnapshot => Least <= redis'.offset)
<1>0. TypeOK /\ TypeOK' /\ SnapshotsAscend  BY TypeStep DEF OffsetInv
<1>1. /\ Approved \in Seq(Snapshots) /\ Asked \in Seq(Snapshots)
      /\ pending # NoSnapshot => pending \in Snapshots /\ pending.offset \in Int
      /\ redis # NoSnapshot => redis \in Snapshots /\ redis.offset \in Nat /\ Least = redis.offset
      /\ appliedOffset \in Int /\ Least \in Int /\ Taken \in Int /\ Least >= 1
      /\ appliedOffset > 0 => appliedOffset = Taken - 1
  BY OffsetTypes
<1>2. /\ Least \in Nat \ {0}
      /\ redis # NoSnapshot => redis.offset < Taken
      /\ Between(Approved, Least, appliedOffset)
      /\ Between(Asked, Least, appliedOffset)
      /\ Below(Approved, Asked)
      /\ pending # NoSnapshot => /\ Between(Approved, Least, pending.offset)
                                 /\ Between(Asked, pending.offset, appliedOffset)
                                 /\ Least <= pending.offset /\ pending.offset <= appliedOffset
  BY <1>0 DEF SnapshotsAscend
<1>3. /\ Taken' >= Taken /\ appliedOffset' >= appliedOffset
      /\ Taken' \in Int /\ appliedOffset' \in Int
  <2>1. Flow' /\ Taken' >= Taken /\ appliedOffset' >= appliedOffset  BY FlowStep
  <2>2. appliedOffset' \in Nat  BY <1>0 DEF TypeOK
  <2> QED  BY <2>1, <2>2 DEF Flow
<1>l. redis' = redis => Least' = Least  BY DEF Least
<1>4. ASSUME TakeSnapshot PROVE SnapshotsAscend' /\ redis' = redis
  <2>1. PICK s : s = [offset |-> appliedOffset, book |-> book]  OBVIOUS
  <2>2. /\ redis' = redis /\ pending' = pending /\ Approved' = Approved
        /\ appliedOffset' = appliedOffset /\ Taken' = Taken /\ snapshotReqCh # << >>
        /\ \/ Asked' = Asked
           \/ /\ appliedOffset - Head(snapshotReqCh) > Gap
              /\ Asked' = Append(Asked, s)
    BY <1>0, <1>4, <2>1, TakeEffect
  <2>3. s \in Snapshots /\ s.offset = appliedOffset  BY <1>0, <2>1 DEF TypeOK, Snapshots
  <2>4. CASE Asked' = Asked
    BY <1>2, <1>l, <2>2, <2>4, Zenon DEF SnapshotsAscend
  <2>5. CASE /\ appliedOffset - Head(snapshotReqCh) > Gap
             /\ Asked' = Append(Asked, s)
    <3>1. Head(snapshotReqCh) \in Nat /\ Gap \in Nat
      <4>1. snapshotReqCh \in Seq(Nat)  BY <1>0 DEF TypeOK
      <4>2. Head(snapshotReqCh) \in Nat  BY <2>2, <4>1, Received
      <4> QED  BY <4>2, EngineAssumption
    <3>2. appliedOffset > 0 /\ appliedOffset = Taken - 1  BY <1>1, <2>5, <3>1
    <3>3. Least <= appliedOffset
      <4>1. CASE redis = NoSnapshot  BY <1>1, <3>2, <4>1 DEF Least
      <4>2. CASE redis # NoSnapshot  BY <1>1, <1>2, <3>2, <4>2
      <4> QED  BY <4>1, <4>2
    <3>4. Between(Asked', Least, appliedOffset)
      <4>1. Between(Asked, Least, s.offset) /\ s.offset <= appliedOffset
        BY <1>1, <1>2, <2>3
      <4> QED  BY <1>1, <2>3, <2>5, <3>3, <4>1, BetweenSent
    <3>5. Below(Approved, Asked')
      <4>1. \A i \in 1 .. Len(Approved) : Approved[i].offset <= s.offset
        BY <1>2, <2>3 DEF Between
      <4> QED  BY <1>1, <1>2, <2>3, <2>5, <4>1, BelowSent
    <3>6. pending # NoSnapshot => Between(Asked', pending.offset, appliedOffset)
      <4>1. pending # NoSnapshot =>
              /\ Between(Asked, pending.offset, s.offset)
              /\ pending.offset <= s.offset /\ s.offset <= appliedOffset /\ pending.offset \in Int
        BY <1>1, <1>2, <2>3
      <4> QED  BY <1>1, <2>3, <2>5, <4>1, BetweenSent
    <3> QED  BY <1>2, <1>l, <2>2, <3>4, <3>5, <3>6 DEF SnapshotsAscend
  <2> QED  BY <2>2, <2>4, <2>5
<1>5. ASSUME StoreLogs PROVE SnapshotsAscend' /\ redis' = redis
  <2>1. /\ redis' = redis /\ Asked' = Asked
        /\ appliedOffset' = appliedOffset /\ Taken' = Taken
        /\ \/ /\ pending # NoSnapshot
              /\ Approved' = Append(Approved, pending) /\ pending' = NoSnapshot
           \/ Approved' = Approved /\ pending' = pending
    BY <1>0, <1>5, StoreEffect
  <2>2. CASE Approved' = Approved /\ pending' = pending
    BY <1>2, <1>l, <2>1, <2>2, Zenon DEF SnapshotsAscend
  <2>3. CASE pending # NoSnapshot /\ Approved' = Append(Approved, pending) /\ pending' = NoSnapshot
    <3>1. Between(Approved', Least, appliedOffset)
      BY <1>1, <1>2, <2>3, BetweenSent
    <3>2. Below(Approved', Asked)
      <4>1. \A j \in 1 .. Len(Asked) : pending.offset <= Asked[j].offset
        BY <1>2, <2>3 DEF Between
      <4> QED  BY <1>1, <1>2, <2>3, <4>1, BelowSent
    <3> QED  BY <1>2, <1>l, <2>1, <2>3, <3>1, <3>2 DEF SnapshotsAscend
  <2> QED  BY <2>1, <2>2, <2>3
<1>6. ASSUME ApproveSnapshot PROVE SnapshotsAscend' /\ redis' = redis
  <2>1. PICK s : s = Head(Asked)  OBVIOUS
  <2>2. /\ redis' = redis /\ Asked # << >>
        /\ Asked' = Tail(Asked)
        /\ appliedOffset' = appliedOffset /\ Taken' = Taken
        /\ \/ Approved' = Append(Approved, s) /\ pending' = NoSnapshot
           \/ Approved' = Approved /\ pending' = s
    BY <1>0, <1>6, <2>1, ApproveEffect
  <2>3. s \in Snapshots /\ s.offset \in Int /\ s # NoSnapshot
    BY <1>1, <2>1, <2>2, Received, Snaps
  <2>4. /\ Between(Asked', s.offset, appliedOffset)
        /\ Least <= s.offset /\ s.offset <= appliedOffset
    BY <1>1, <1>2, <2>1, <2>2, BetweenReceived
  <2>5. Asked' \in Seq(Snapshots)  BY <1>1, <2>2, Received
  <2>6. Between(Asked', Least, appliedOffset)
    BY <1>1, <2>3, <2>4, <2>5, BetweenWider
  <2>7. Between(Approved, Least, s.offset)  BY <1>1, <1>2, <2>1, <2>2, BelowBetween
  <2>8. Below(Approved, Asked')  BY <1>1, <1>2, <2>2, BelowReceived
  <2>9. CASE Approved' = Append(Approved, s) /\ pending' = NoSnapshot
    <3>1. Between(Approved', Least, appliedOffset)
      BY <1>1, <2>3, <2>4, <2>7, <2>9, BetweenSent
    <3>2. Below(Approved', Asked')
      <4>1. \A j \in 1 .. Len(Asked') : s.offset <= Asked'[j].offset
        BY <2>4 DEF Between
      <4> QED  BY <1>1, <2>3, <2>5, <2>8, <2>9, <4>1, BelowSent
    <3> QED  BY <1>2, <1>l, <2>2, <2>6, <2>9, <3>1, <3>2 DEF SnapshotsAscend
  <2>10. CASE Approved' = Approved /\ pending' = s
    BY <1>2, <1>l, <2>2, <2>4, <2>6, <2>7, <2>8, <2>10 DEF SnapshotsAscend
  <2> QED  BY <2>2, <2>9, <2>10
<1>7. ASSUME StoreSnapshot \/ StoreSnapshotFails
      PROVE  SnapshotsAscend' /\ (redis' # NoSnapshot => Least <= redis'.offset)
  <2>1. PICK s : s = Head(Approved)  OBVIOUS
  <2>2. /\ Approved # << >> /\ Approved' = Tail(Approved) /\ pending' = pending
        /\ Asked' = Asked
        /\ appliedOffset' = appliedOffset /\ Taken' = Taken
        /\ redis' = redis \/ redis' \in Marshalled(s)
    BY <1>0, <1>7, <2>1, PutEffect
  <2>3. s \in Snapshots /\ s.offset \in Int  BY <1>1, <2>1, <2>2, Received, Snaps
  <2>4. /\ Between(Approved', s.offset, appliedOffset)
        /\ Least <= s.offset /\ s.offset <= appliedOffset
    BY <1>1, <1>2, <2>1, <2>2, BetweenReceived
  <2>5. Approved' \in Seq(Snapshots)  BY <1>1, <2>2, Received
  <2>6. Below(Approved', Asked)  BY <1>1, <1>2, <2>2, BelowReceived
  <2>7. pending # NoSnapshot => /\ Between(Approved', s.offset, pending.offset)
                                /\ s.offset <= pending.offset
    BY <1>1, <1>2, <2>1, <2>2, BetweenReceived
  <2>8. CASE redis' = redis
    <3>1. Between(Approved', Least, appliedOffset)  BY <1>1, <2>3, <2>4, <2>5, BetweenWider
    <3>2. pending # NoSnapshot => Between(Approved', Least, pending.offset)
      BY <1>1, <2>3, <2>4, <2>5, <2>7, BetweenWider
    <3>3. redis # NoSnapshot => Least <= redis.offset  BY <1>1
    <3>4. SnapshotsAscend'  BY <1>2, <1>l, <2>2, <2>6, <2>8, <3>1, <3>2 DEF SnapshotsAscend
    <3> QED  BY <2>8, <3>3, <3>4
  <2>9. CASE redis' \in Marshalled(s)
    <3>1. redis' # NoSnapshot /\ redis'.offset = s.offset  BY <1>0, <2>3, <2>9, MarshalledType, Snaps
    <3>2. Least' = s.offset  BY <3>1 DEF Least
    <3>3. s.offset \in Nat \ {0} /\ s.offset < Taken  BY <1>1, <2>3, <2>4
    <3>4. Between(Asked, s.offset, appliedOffset)
      BY <1>1, <1>2, <2>1, <2>2, BelowBetween
    <3>5. SnapshotsAscend'
      BY <1>2, <2>2, <2>4, <2>6, <2>7, <3>1, <3>2, <3>3, <3>4 DEF SnapshotsAscend
    <3> QED  BY <2>4, <3>1, <3>5
  <2> QED  BY <2>2, <2>8, <2>9
<1>8. ASSUME UNCHANGED <<Approved, Asked, pending>>,
             redis' = redis \/ redis' = NoSnapshot
      PROVE  SnapshotsAscend'
  <2>1. Least' \in Nat \ {0} /\ Least' <= Least  BY <1>1, <1>2, <1>8 DEF Least
  <2>2. redis' # NoSnapshot => redis'.offset < Taken'  BY <1>1, <1>2, <1>3, <1>8
  <2>3. /\ Between(Approved, Least', appliedOffset')
        /\ Between(Asked, Least', appliedOffset')
    BY <1>1, <1>2, <1>3, <2>1, BetweenWider
  <2>4. pending # NoSnapshot => /\ Between(Approved, Least', pending.offset)
                                /\ Between(Asked, pending.offset, appliedOffset')
                                /\ Least' <= pending.offset /\ pending.offset <= appliedOffset'
    BY <1>1, <1>2, <1>3, <2>1, BetweenWider
  <2> QED  BY <1>2, <1>8, <2>1, <2>2, <2>3, <2>4 DEF SnapshotsAscend
<1>9. \/ TakeSnapshot \/ StoreLogs \/ ApproveSnapshot \/ StoreSnapshot \/ StoreSnapshotFails
      \/ /\ UNCHANGED <<Approved, Asked, pending>>
         /\ redis' = redis \/ redis' = NoSnapshot
  BY <1>0, OtherEffect DEF Next
<1> QED
  <2>1. redis' = redis \/ redis' = NoSnapshot => (redis' # NoSnapshot => Least <= redis'.offset)
    BY <1>1
  <2> QED  BY <1>4, <1>5, <1>6, <1>7, <1>8, <1>9, <2>1

LEMMA OffsetStep == OffsetInv /\ [Next]_vars => OffsetInv'
<1> SUFFICES ASSUME OffsetInv, [Next]_vars PROVE OffsetInv'
  OBVIOUS
<1>1. TypeOK'  BY TypeStep DEF OffsetInv
<1>2. CASE Crash  BY <1>1, <1>2, RestartOffsets DEF OffsetInv, Crash
<1>3. CASE CrashInStore
  <2>1. Restart(logTopic')  BY <1>3 DEF CrashInStore
  <2> QED  BY <1>1, <2>1, RestartOffsets DEF OffsetInv
<1>4. CASE ~ Crash /\ ~ CrashInStore  BY <1>1, <1>4, FlowStep, SnapshotsStep DEF OffsetInv
<1> QED  BY <1>2, <1>3, <1>4

\* runSnapshots never replaces a later snapshot by an earlier one, whatever
\* was approved at once, left pending, replaced or lost in a crash.
THEOREM EngineSnapshotMonotone == Spec => SnapshotMonotone
<1>1. OffsetInv /\ [Next]_vars =>
        [redis # NoSnapshot /\ redis' # NoSnapshot => redis'.offset >= redis.offset]_vars
  <2> SUFFICES ASSUME OffsetInv, [Next]_vars, redis # NoSnapshot, redis' # NoSnapshot
               PROVE  redis'.offset >= redis.offset
    OBVIOUS
  <2>1. redis.offset \in Nat /\ Least = redis.offset  BY OffsetTypes
  <2>2. CASE Crash \/ CrashInStore
    <3>1. redis' = redis  BY <2>2 DEF Crash, CrashInStore, Restart
    <3> QED  BY <2>1, <3>1
  <2>3. CASE ~ Crash /\ ~ CrashInStore
    <3>1. Least <= redis'.offset  BY <2>3, SnapshotsStep
    <3>2. redis'.offset \in Nat
      <4>1. TypeOK'  BY TypeStep DEF OffsetInv
      <4> QED  BY <4>1, Snaps DEF TypeOK
    <3> QED  BY <2>1, <3>1, <3>2
  <2> QED  BY <2>2, <2>3
<1> QED  BY <1>1, OffsetInit, OffsetStep, PTL DEF Spec, SnapshotMonotone
-----------------------------------------------------------------------------
(* Books: every book is a replay.                                          *)

\* A snapshot in the engine has the book of its offset; one that was stored
\* has it too, but for its windows when they changed before it was.
Exact(msgs, s) == s.book = Upto(msgs, s.offset + 1).book

AllExact(msgs, q) == \A i \in 1 .. Len(q) : Exact(msgs, q[i])

Replays(msgs, s) ==
    /\ s.book.orders = Upto(msgs, s.offset + 1).book.orders
    /\ s.book.tradeSeq = Upto(msgs, s.offset + 1).book.tradeSeq
    /\ s.book.logSeq = Upto(msgs, s.offset + 1).book.logSeq

SameWindows(msgs, s) == s.book.windows = Upto(msgs, s.offset + 1).book.windows

BooksExact ==
    /\ book = Upto(orderTopic, Taken).book
    /\ AllExact(orderTopic, Approved)
    /\ AllExact(orderTopic, Asked)
    /\ pending # NoSnapshot => Exact(orderTopic, pending)
    /\ redis # NoSnapshot => Replays(orderTopic, redis) /\ (raced \/ SameWindows(orderTopic, redis))

\* Prefix is the messages up to an offset that has been applied.
LEMMA PrefixIs ==
    ASSUME OffsetInv, redis # NoSnapshot
    PROVE  /\ Replay(Prefix(redis.offset)) = Upto(orderTopic, redis.offset + 1)
           /\ redis.offset + 1 \in 1 .. Len(orderTopic)
<1>1. redis.offset \in Nat /\ redis.offset < Taken /\ Taken \in Nat
  BY OffsetTypes DEF OffsetInv, SnapshotsAscend, Flow
<1>2. Taken <= Len(orderTopic) /\ Len(orderTopic) \in Nat
  <2>1. /\ fetchOffset \in Nat /\ Len(orderCh) \in Nat /\ fetchOffset <= Len(orderTopic)
        /\ Len(orderTopic) \in Nat
    BY DEF OffsetInv, TypeOK, Flow
  <2> QED  BY <2>1 DEF Taken
<1>3. redis.offset < Len(orderTopic)  BY <1>1, <1>2
<1> QED  BY <1>1, <1>2, <1>3 DEF Prefix, Upto

\* Snapshots in the engine are of messages that were applied.
LEMMA WithinTopic ==
    ASSUME OffsetInv
    PROVE  /\ Taken \in 0 .. Len(orderTopic) /\ Len(orderTopic) \in Nat /\ orderTopic \in Seq(Messages)
           /\ \A i \in 1 .. Len(Approved) : Approved[i].offset + 1 \in 0 .. Len(orderTopic)
           /\ \A i \in 1 .. Len(Asked) :
                 Asked[i].offset + 1 \in 0 .. Len(orderTopic)
           /\ pending # NoSnapshot => pending.offset + 1 \in 0 .. Len(orderTopic)
           /\ redis # NoSnapshot => redis.offset + 1 \in 0 .. Len(orderTopic)
<1>1. /\ Approved \in Seq(Snapshots) /\ Asked \in Seq(Snapshots)
      /\ pending # NoSnapshot => pending \in Snapshots /\ pending.offset \in Int
      /\ redis # NoSnapshot => redis \in Snapshots /\ redis.offset \in Nat /\ Least = redis.offset
      /\ appliedOffset \in Int /\ Least \in Int /\ Taken \in Int /\ Least >= 1
      /\ appliedOffset > 0 => appliedOffset = Taken - 1
  BY OffsetTypes
<1>2. Taken \in 0 .. Len(orderTopic) /\ Len(orderTopic) \in Nat /\ orderTopic \in Seq(Messages)
  <2>1. /\ fetchOffset \in Nat /\ orderCh \in Seq(OffsetOrders) /\ orderTopic \in Seq(Messages)
        /\ fetchOffset <= Len(orderTopic) /\ Taken \in Nat
    BY DEF OffsetInv, TypeOK, Flow
  <2>2. Len(orderCh) \in Nat /\ Len(orderTopic) \in Nat  BY <2>1
  <2> QED  BY <2>1, <2>2 DEF Taken
<1>3. ASSUME NEW o \in Int, Least <= o, o <= appliedOffset PROVE o + 1 \in 0 .. Len(orderTopic)
  BY <1>1, <1>2, <1>3
<1>4. /\ Between(Approved, Least, appliedOffset)
      /\ Between(Asked, Least, appliedOffset)
      /\ pending # NoSnapshot => Least <= pending.offset /\ pending.offset <= appliedOffset
  BY DEF OffsetInv, SnapshotsAscend
<1>5. \A i \in 1 .. Len(Approved) : Approved[i].offset + 1 \in 0 .. Len(orderTopic)
  BY <1>1, <1>3, <1>4, OffsetsNat DEF Between
<1>6. \A i \in 1 .. Len(Asked) :
         Asked[i].offset + 1 \in 0 .. Len(orderTopic)
  BY <1>1, <1>3, <1>4, OffsetsNat DEF Between
<1>7. pending # NoSnapshot => pending.offset + 1 \in 0 .. Len(orderTopic)  BY <1>1, <1>3, <1>4
<1>8. redis # NoSnapshot => redis.offset + 1 \in 0 .. Len(orderTopic)
  <2>1. redis # NoSnapshot => redis.offset < Taken  BY DEF OffsetInv, SnapshotsAscend
  <2> QED  BY <1>1, <1>2, <2>1
<1> QED  BY <1>2, <1>5, <1>6, <1>7, <1>8

\* The topic only grows, and what a prefix of it does stays.
LEMMA TopicStep ==
    ASSUME OffsetInv, [Next]_vars
    PROVE  /\ \A n \in 0 .. Len(orderTopic) : Upto(orderTopic', n) = Upto(orderTopic, n)
           /\ Begins(Replay(orderTopic).logs, Replay(orderTopic').logs)
<1>0. orderTopic \in Seq(Messages) /\ orderTopic' \in Seq(Messages)  BY TypeStep DEF OffsetInv, TypeOK
<1>1. \/ orderTopic' = orderTopic
      \/ \E m \in Traffic : orderTopic' = Append(orderTopic, m)
  <2>1. ASSUME NEW m \in Traffic, SubmitOrder(m) PROVE orderTopic' = Append(orderTopic, m)
    BY <2>1 DEF SubmitOrder
  <2>2. CASE Fetch \/ ApplyMessage \/ SendLog \/ TakeSnapshot \/ SendTaken
    BY <2>2 DEF Fetch, ApplyMessage, SendLog, TakeSnapshot, SendTaken, topics
  <2>3. CASE StartCommitter \/ DiscardLog \/ BufferLog \/ StoreLogs \/ ApproveSnapshot \/ SendApproved
    BY <2>3 DEF StartCommitter, DiscardLog, BufferLog, StoreLogs, ApproveSnapshot, SendApproved, topics
  <2>4. CASE RequestSnapshot \/ SendRequest \/ StoreSnapshot \/ StoreSnapshotFails \/ Expire
    BY <2>4 DEF RequestSnapshot, SendRequest, StoreSnapshot, StoreSnapshotFails, Expire, topics
  <2>5. CASE Crash \/ CrashInStore  BY <2>5 DEF Crash, CrashInStore, Restart
  <2>6. CASE UNCHANGED vars  BY <2>6 DEF vars, topics
  <2> QED  BY <2>1, <2>2, <2>3, <2>4, <2>5, <2>6 DEF Next
<1>2. /\ Len(orderTopic) \in Nat /\ Len(orderTopic') \in Nat /\ Len(orderTopic) <= Len(orderTopic')
      /\ \A n \in 1 .. Len(orderTopic) : orderTopic'[n] = orderTopic[n]
  <2>1. CASE orderTopic' = orderTopic  BY <1>0, <2>1
  <2>2. ASSUME NEW m \in Traffic, orderTopic' = Append(orderTopic, m)
        PROVE  /\ Len(orderTopic') = Len(orderTopic) + 1 /\ Len(orderTopic) \in Nat
               /\ \A n \in 1 .. Len(orderTopic) : orderTopic'[n] = orderTopic[n]
    BY <1>0, <2>2, Sent, BookAssumption
  <2> QED  BY <1>1, <2>1, <2>2
<1>3. ASSUME NEW n \in 0 .. Len(orderTopic) PROVE Upto(orderTopic', n) = Upto(orderTopic, n)
  <2>1. n \in Nat /\ n <= Len(orderTopic) /\ n <= Len(orderTopic')
        /\ \A k \in 1 .. n : orderTopic'[k] = orderTopic[k]
    BY <1>2
  <2> QED  BY <1>0, <2>1, UptoAgree
<1>4. Begins(Replay(orderTopic).logs, Replay(orderTopic').logs)
  <2>1. Len(orderTopic) \in 0 .. Len(orderTopic') /\ Len(orderTopic') \in Len(orderTopic) .. Len(orderTopic')
    BY <1>2
  <2>2. Begins(Upto(orderTopic', Len(orderTopic)).logs, Upto(orderTopic', Len(orderTopic')).logs)
    BY <1>0, <2>1, UptoGrows
  <2>3. Upto(orderTopic', Len(orderTopic)) = Upto(orderTopic, Len(orderTopic))  BY <1>2, <1>3
  <2> QED  BY <1>0, <2>2, <2>3, UptoDef
<1> QED  BY <1>3, <1>4

\* A sound start.
LEMMA RestartBooks ==
    ASSUME OffsetInv, NEW topic, Restart(topic), ~ unsound', ~ unsound => BooksExact
    PROVE  BooksExact'
<1>1. /\ Boot(redis) /\ redis' = redis /\ orderTopic' = orderTopic /\ raced' = raced
      /\ ~ unsound /\ Sound(redis, topic)
  BY Zenon DEF Restart
<1>2. orderTopic \in Seq(Messages) /\ Len(orderTopic) \in Nat  BY WithinTopic
<1>3. Len(<< >>) = 0  OBVIOUS
<1>4. redis # NoSnapshot => Replays(orderTopic, redis) /\ (raced \/ SameWindows(orderTopic, redis))
  BY <1>1 DEF BooksExact
<1>5. CASE redis # NoSnapshot
  <2>1. BootSets(redis.book, redis.offset)  BY <1>1, <1>5, BootEffect
  <2>2. redis.offset \in Nat /\ redis.offset > 0
    BY <1>5, OffsetTypes
  <2>3. fetchOffset' = redis.offset + 1  BY <2>1, <2>2 DEF BootSets, FirstOffset
  <2>4. Len(orderCh') = 0 /\ book' = redis.book /\ Len(Approved') = 0
        /\ Len(Asked') = 0 /\ pending' = NoSnapshot
    BY <1>3, <2>1 DEF BootSets, Asked, Approved, WithHeld
  <2>5. Taken' = redis.offset + 1  BY <2>2, <2>3, <2>4 DEF Taken
  <2>6. redis.book = Upto(orderTopic, redis.offset + 1).book
    <3>1. PICK b : b = Upto(orderTopic, redis.offset + 1).book  OBVIOUS
    <3>2. Replay(Prefix(redis.offset)).book = b /\ redis.offset + 1 \in 0 .. Len(orderTopic)
      BY <1>5, <3>1, PrefixIs, WithinTopic
    <3>3. /\ redis.book.orders = b.orders /\ redis.book.windows = b.windows
          /\ redis.book.tradeSeq = b.tradeSeq /\ redis.book.logSeq = b.logSeq
      BY <1>1, <1>5, <3>2 DEF Sound, IsReplay, WindowsExact
    <3>4. b \in Books  BY <1>2, <3>1, <3>2, UptoOK DEF WellFormed
    <3>5. redis.book \in Books  BY <1>5, OffsetTypes, Snaps
    <3> QED  BY <3>1, <3>3, <3>4, <3>5 DEF Books
  <2> QED  BY <1>1, <1>4, <2>4, <2>5, <2>6 DEF BooksExact, AllExact
<1>6. CASE redis = NoSnapshot
  <2>1. BootSets(EmptyBook, 0)  BY <1>1, <1>6, BootEffect
  <2>2. fetchOffset' = 0  BY <2>1 DEF BootSets, FirstOffset
  <2>3. Len(orderCh') = 0 /\ book' = EmptyBook /\ Len(Approved') = 0
        /\ Len(Asked') = 0 /\ pending' = NoSnapshot
    BY <1>3, <2>1 DEF BootSets, Asked, Approved, WithHeld
  <2>4. Taken' = 0  BY <2>2, <2>3 DEF Taken
  <2>5. Upto(orderTopic, 0).book = EmptyBook  BY <1>2, UptoDef DEF NothingApplied
  <2> QED  BY <1>1, <1>6, <2>3, <2>4, <2>5 DEF BooksExact, AllExact
<1> QED  BY <1>5, <1>6
\* What the applier takes next is the message after those it has taken.
LEMMA NextMessage ==
    ASSUME OffsetInv, ApplyMessage, BooksExact
    PROVE  /\ Taken' = Taken + 1 /\ Taken + 1 \in 1 .. Len(orderTopic)
           /\ orderTopic[Taken + 1] \in Messages /\ orderTopic' = orderTopic
           /\ Head(orderCh).order = orderTopic[Taken + 1]
           /\ WellFormed(Upto(orderTopic, Taken))
           /\ Upto(orderTopic, Taken + 1) = ReplayOne(Upto(orderTopic, Taken), orderTopic[Taken + 1])
           /\ book' = Upto(orderTopic, Taken + 1).book
           /\ outbox' = LogsOf(Upto(orderTopic, Taken).book, orderTopic[Taken + 1])
<1>1. /\ orderTopic \in Seq(Messages) /\ orderCh \in Seq(OffsetOrders) /\ fetchOffset \in Nat
      /\ Len(orderTopic) \in Nat /\ Len(orderCh) \in Nat /\ Taken \in Nat
      /\ fetchOffset = Taken + Len(orderCh) /\ fetchOffset <= Len(orderTopic)
  <2>1. orderTopic \in Seq(Messages) /\ orderCh \in Seq(OffsetOrders) /\ fetchOffset \in Nat
    BY DEF OffsetInv, TypeOK
  <2>2. Len(orderTopic) \in Nat /\ Len(orderCh) \in Nat  BY <2>1
  <2>3. Taken \in Nat /\ Taken = fetchOffset - Len(orderCh) /\ fetchOffset <= Len(orderTopic)
    BY DEF OffsetInv, Flow, Taken
  <2> QED  BY <2>1, <2>2, <2>3
<1>2. /\ orderCh # << >> /\ orderCh' = Tail(orderCh)
      /\ fetchOffset' = fetchOffset /\ orderTopic' = orderTopic
      /\ book' = ApplyTo(book, Head(orderCh).order) /\ outbox' = LogsOf(book, Head(orderCh).order)
  BY DEF ApplyMessage, topics
<1>3. Head(orderCh) = orderCh[1] /\ Len(orderCh') = Len(orderCh) - 1 /\ 1 \in 1 .. Len(orderCh)
  BY <1>1, <1>2, Received
<1>4. Taken' = Taken + 1 /\ Taken + 1 \in 1 .. Len(orderTopic)  BY <1>1, <1>2, <1>3 DEF Taken
<1>5. orderTopic[Taken + 1] \in Messages  BY <1>1, <1>4
<1>6. Head(orderCh).order = orderTopic[Taken + 1]
  <2>1. orderCh[1] = [offset |-> Taken + 1 - 1, order |-> orderTopic[Taken + 1]]
    BY <1>3 DEF OffsetInv, Flow
  <2> QED  BY <1>3, <2>1
<1>7. Taken \in 0 .. Len(orderTopic) /\ (Taken + 1) - 1 = Taken  BY <1>1, <1>4
<1>8. WellFormed(Upto(orderTopic, Taken))  BY <1>1, <1>7, UptoOK
<1>9. Upto(orderTopic, Taken + 1) = ReplayOne(Upto(orderTopic, Taken), orderTopic[Taken + 1])
  <2>1. Upto(orderTopic, Taken + 1) = ReplayOne(Upto(orderTopic, (Taken + 1) - 1), orderTopic[Taken + 1])
    BY <1>1, <1>4, UptoDef
  <2> QED  BY <1>7, <2>1
<1>10. book' = Upto(orderTopic, Taken + 1).book
  BY <1>2, <1>6, <1>9 DEF BooksExact, ReplayOne
<1>11. outbox' = LogsOf(Upto(orderTopic, Taken).book, orderTopic[Taken + 1])
  BY <1>2, <1>6 DEF BooksExact
<1> QED  BY <1>2, <1>4, <1>5, <1>6, <1>8, <1>9, <1>10, <1>11

LEMMA ExactReceived ==
    ASSUME NEW msgs, NEW q \in Seq(Snapshots), q # << >>, AllExact(msgs, q)
    PROVE  AllExact(msgs, Tail(q)) /\ Exact(msgs, Head(q))
<1>1. PICK r : r = Tail(q)  OBVIOUS
<1>2. /\ Head(q) = q[1] /\ Len(r) = Len(q) - 1 /\ Len(q) \in Nat \ {0}
      /\ \A n \in 1 .. Len(q) - 1 : r[n] = q[n + 1]
  BY <1>1, Received
<1>3. 1 \in 1 .. Len(q) /\ \A i \in 1 .. Len(r) : i + 1 \in 1 .. Len(q) /\ r[i] = q[i + 1]  BY <1>2
<1> QED  BY <1>1, <1>2, <1>3 DEF AllExact

LEMMA ExactSent ==
    ASSUME NEW msgs, NEW q \in Seq(Snapshots), AllExact(msgs, q), NEW s \in Snapshots, Exact(msgs, s)
    PROVE  AllExact(msgs, Append(q, s))
<1>1. PICK t : t = Append(q, s)  OBVIOUS
<1>2. Len(t) = Len(q) + 1 /\ Len(q) \in Nat /\ t[Len(q) + 1] = s /\ \A n \in 1 .. Len(q) : t[n] = q[n]
  BY <1>1, Sent
<1>3. \A i \in 1 .. Len(t) : i \in 1 .. Len(q) \/ i = Len(q) + 1  BY <1>2
<1> QED  BY <1>1, <1>2, <1>3 DEF AllExact

LEMMA BooksStep ==
    ASSUME OffsetInv, [Next]_vars, ~ Crash, ~ CrashInStore, BooksExact
    PROVE  BooksExact'
<1>1. /\ Approved \in Seq(Snapshots) /\ Asked \in Seq(Snapshots)
      /\ pending # NoSnapshot => pending \in Snapshots /\ pending.offset \in Int
      /\ redis # NoSnapshot => redis \in Snapshots /\ redis.offset \in Nat /\ Least = redis.offset
      /\ appliedOffset \in Int /\ Least \in Int /\ Taken \in Int /\ Least >= 1
      /\ appliedOffset > 0 => appliedOffset = Taken - 1
  BY OffsetTypes
<1>2. /\ book = Upto(orderTopic, Taken).book
      /\ AllExact(orderTopic, Approved)
      /\ AllExact(orderTopic, Asked)
      /\ pending # NoSnapshot => Exact(orderTopic, pending)
      /\ redis # NoSnapshot => Replays(orderTopic, redis) /\ (raced \/ SameWindows(orderTopic, redis))
  BY DEF BooksExact
<1>t. TypeOK  BY DEF OffsetInv
<1>3. ASSUME NEW m \in Traffic, SubmitOrder(m) PROVE BooksExact'
  <2>1. UNCHANGED <<book, Approved, Asked, pending, redis, raced>> /\ Taken' = Taken
    BY <1>3 DEF SubmitOrder, applier, committer, snapChans, faults, Taken, Asked, Approved
  <2>2. \A n \in 0 .. Len(orderTopic) : Upto(orderTopic', n) = Upto(orderTopic, n)  BY TopicStep
  <2>3. book' = Upto(orderTopic', Taken').book  BY <1>2, <2>1, <2>2, WithinTopic
  <2>4. AllExact(orderTopic', Approved)  BY <1>2, <2>2, WithinTopic DEF AllExact, Exact
  <2>5. AllExact(orderTopic', Asked)  BY <1>2, <2>2, WithinTopic DEF AllExact, Exact
  <2>6. pending # NoSnapshot => Exact(orderTopic', pending)  BY <1>2, <2>2, WithinTopic DEF Exact
  <2>7. redis # NoSnapshot => Replays(orderTopic', redis) /\ (raced \/ SameWindows(orderTopic', redis))
    BY <1>2, <2>2, WithinTopic DEF Replays, SameWindows
  <2> QED  BY <2>1, <2>3, <2>4, <2>5, <2>6, <2>7 DEF BooksExact
<1>4. ASSUME Fetch PROVE BooksExact'
  <2>1. UNCHANGED <<orderTopic, book, Approved, Asked, pending, redis, raced>>
    BY <1>4 DEF Fetch, topics, applier, committer, snapChans, faults, Asked, Approved
  <2>2. Taken' = Taken
    <3>1. orderCh \in Seq(OffsetOrders) /\ fetchOffset \in Nat /\ orderTopic \in Seq(Messages)
      BY DEF OffsetInv, TypeOK
    <3>2. Len(orderCh') = Len(orderCh) + 1 /\ Len(orderCh) \in Nat
      <4>1. PICK m : m = [offset |-> fetchOffset, order |-> orderTopic[fetchOffset + 1]]  OBVIOUS
      <4>2. m \in OffsetOrders  BY <1>4, <3>1, <4>1 DEF Fetch, OffsetOrders
      <4> QED  BY <1>4, <3>1, <4>1, <4>2, Sent DEF Fetch
    <3> QED  BY <1>4, <3>1, <3>2 DEF Fetch, Taken
  <2> QED  BY <1>2, <2>1, <2>2, Zenon DEF BooksExact
<1>5. ASSUME ApplyMessage PROVE BooksExact'
  <2>1. UNCHANGED <<orderTopic, Approved, Asked, pending, redis, raced>>
    BY <1>5 DEF ApplyMessage, topics, committer, snapChans, faults, Asked, Approved
  <2>2. book' = Upto(orderTopic, Taken').book  BY <1>5, NextMessage
  <2> QED  BY <1>2, <2>1, <2>2, Zenon DEF BooksExact
<1>6. ASSUME TakeSnapshot PROVE BooksExact'
  <2>1. PICK s : s = [offset |-> appliedOffset, book |-> book]  OBVIOUS
  <2>2. /\ UNCHANGED <<orderTopic, book, Approved, pending, redis, raced>> /\ Taken' = Taken
        /\ snapshotReqCh # << >>
        /\ \/ Asked' = Asked
           \/ /\ appliedOffset - Head(snapshotReqCh) > Gap
              /\ Asked' = Append(Asked, s)
    BY <1>t, <1>6, <2>1, TakeEffect
  <2>3. AllExact(orderTopic, Asked')
    <3>1. CASE Asked' = Asked  BY <1>2, <3>1
    <3>2. CASE /\ appliedOffset - Head(snapshotReqCh) > Gap
               /\ Asked' = Append(Asked, s)
      <4>1. Head(snapshotReqCh) \in Nat /\ Gap \in Nat
        <5>1. snapshotReqCh \in Seq(Nat)  BY DEF OffsetInv, TypeOK
        <5>2. Head(snapshotReqCh) \in Nat  BY <2>2, <5>1, Received
        <5> QED  BY <5>2, EngineAssumption
      <4>2. appliedOffset + 1 = Taken  BY <1>1, <3>2, <4>1
      <4>3. Exact(orderTopic, s)  BY <1>2, <2>1, <4>2 DEF Exact
      <4>4. s \in Snapshots  BY <2>1 DEF OffsetInv, TypeOK, Snapshots
      <4> QED  BY <1>1, <1>2, <3>2, <4>3, <4>4, ExactSent
    <3> QED  BY <2>2, <3>1, <3>2
  <2> QED  BY <1>2, <2>2, <2>3, Zenon DEF BooksExact
<1>7. ASSUME StoreLogs PROVE BooksExact'
  <2>1. /\ UNCHANGED <<orderTopic, book, Asked, redis, raced>> /\ Taken' = Taken
        /\ \/ /\ pending # NoSnapshot
              /\ Approved' = Append(Approved, pending) /\ pending' = NoSnapshot
           \/ Approved' = Approved /\ pending' = pending
    BY <1>t, <1>7, StoreEffect
  <2>2. AllExact(orderTopic, Approved') /\ (pending' # NoSnapshot => Exact(orderTopic, pending'))
    BY <1>1, <1>2, <2>1, ExactSent
  <2> QED  BY <1>2, <2>1, <2>2, Zenon DEF BooksExact
<1>8. ASSUME ApproveSnapshot PROVE BooksExact'
  <2>1. PICK s : s = Head(Asked)  OBVIOUS
  <2>2. /\ UNCHANGED <<orderTopic, book, redis, raced>> /\ Taken' = Taken
        /\ Asked # << >>
        /\ Asked' = Tail(Asked)
        /\ \/ Approved' = Append(Approved, s) /\ pending' = NoSnapshot
           \/ Approved' = Approved /\ pending' = s
    BY <1>t, <1>8, <2>1, ApproveEffect
  <2>3. s \in Snapshots  BY <1>1, <2>1, <2>2, Received
  <2>4. AllExact(orderTopic, Asked') /\ Exact(orderTopic, s)
    BY <1>1, <1>2, <2>1, <2>2, ExactReceived
  <2>5. AllExact(orderTopic, Approved') /\ (pending' # NoSnapshot => Exact(orderTopic, pending'))
    BY <1>1, <1>2, <2>2, <2>3, <2>4, ExactSent
  <2> QED  BY <1>2, <2>2, <2>4, <2>5, Zenon DEF BooksExact
<1>9. ASSUME StoreSnapshot \/ StoreSnapshotFails PROVE BooksExact'
  <2>1. PICK s : s = Head(Approved)  OBVIOUS
  <2>2. /\ UNCHANGED <<orderTopic, book, pending, Asked>> /\ Taken' = Taken
        /\ Approved # << >> /\ Approved' = Tail(Approved)
        /\ \/ redis' = redis /\ raced' = raced
           \/ redis' \in Marshalled(s) /\ raced' = (s.book.windows # book.windows)
    BY <1>t, <1>9, <2>1, PutEffect
  <2>3. s \in Snapshots  BY <1>1, <2>1, <2>2, Received
  <2>4. AllExact(orderTopic, Approved') /\ Exact(orderTopic, s)
    BY <1>1, <1>2, <2>1, <2>2, ExactReceived
  <2>5. redis' # NoSnapshot => Replays(orderTopic, redis') /\ (raced' \/ SameWindows(orderTopic, redis'))
    <3>1. CASE redis' = redis /\ raced' = raced  BY <1>2, <3>1
    <3>2. CASE redis' \in Marshalled(s) /\ raced' = (s.book.windows # book.windows)
      <4>1. /\ redis'.offset = s.offset /\ redis'.book.orders = s.book.orders
            /\ redis'.book.tradeSeq = s.book.tradeSeq /\ redis'.book.logSeq = s.book.logSeq
            /\ s.book.windows = book.windows => redis'.book.windows = s.book.windows
        BY <1>t, <2>3, <3>2, MarshalledType
      <4>2. Replays(orderTopic, redis')  BY <2>4, <4>1 DEF Exact, Replays
      <4>3. CASE s.book.windows = book.windows
        <5>1. SameWindows(orderTopic, redis')  BY <2>4, <4>1, <4>3 DEF Exact, SameWindows
        <5> QED  BY <4>2, <5>1
      <4>4. CASE s.book.windows # book.windows
        <5>1. raced'  BY <3>2, <4>4, Zenon
        <5> QED  BY <4>2, <5>1
      <4> QED  BY <4>3, <4>4
    <3> QED  BY <2>2, <3>1, <3>2
  <2> QED  BY <1>2, <2>2, <2>4, <2>5, Zenon DEF BooksExact
<1>10. ASSUME UNCHANGED <<orderTopic, orderCh, fetchOffset, book, Approved, Asked, pending, raced>>,
              redis' = redis \/ redis' = NoSnapshot
       PROVE  BooksExact'
  <2>1. Taken' = Taken  BY <1>10 DEF Taken
  <2>2. redis' # NoSnapshot => Replays(orderTopic, redis') /\ (raced \/ SameWindows(orderTopic, redis'))
    BY <1>2, <1>10
  <2> QED  BY <1>2, <1>10, <2>1, <2>2, Zenon DEF BooksExact
<1>11. ASSUME \/ SendLog \/ SendTaken \/ StartCommitter \/ DiscardLog \/ BufferLog \/ SendApproved
              \/ RequestSnapshot \/ SendRequest \/ Expire \/ UNCHANGED vars
       PROVE  UNCHANGED <<orderTopic, orderCh, fetchOffset, book>>
  <2>1. CASE SendLog \/ SendTaken \/ StartCommitter \/ DiscardLog \/ BufferLog
    BY <2>1 DEF SendLog, SendTaken, StartCommitter, DiscardLog, BufferLog, topics, applier
  <2>2. CASE SendApproved \/ RequestSnapshot \/ SendRequest \/ Expire \/ UNCHANGED vars
    BY <2>2 DEF SendApproved, RequestSnapshot, SendRequest, Expire, vars, topics, applier
  <2> QED  BY <1>11, <2>1, <2>2
<1>12. CASE \/ TakeSnapshot \/ StoreLogs \/ ApproveSnapshot \/ StoreSnapshot \/ StoreSnapshotFails
  BY <1>6, <1>7, <1>8, <1>9, <1>12
<1>13. CASE ~ (\/ TakeSnapshot \/ StoreLogs \/ ApproveSnapshot \/ StoreSnapshot \/ StoreSnapshotFails)
  <2>1. UNCHANGED <<Approved, Asked, pending, raced>> /\ (redis' = redis \/ redis' = NoSnapshot)
    BY <1>t, <1>13, OtherEffect
  <2> QED  BY <1>3, <1>4, <1>5, <1>10, <1>11, <1>13, <2>1 DEF Next
<1> QED  BY <1>12, <1>13
-----------------------------------------------------------------------------
(* Logs: what is on its way to the topic, and what is in it.               *)

\* The crash-free log of the order topic.
AllLogs == Replay(orderTopic).logs

\* Where logCh begins in that log.
Base == book.logSeq - Len(logCh) - Len(outbox)

\* logCh and the applier's outbox follow each other in that log, up to the
\* book's logSeq, and the committer's buffer ends at its seq, which is not
\* before logCh: a committer that starts late discards logs.
LogsFollow ==
    /\ Base \in Nat /\ Base <= seq
    /\ Part(logCh, Base, AllLogs)
    /\ Part(outbox, Base + Len(logCh), AllLogs)
    /\ Len(buffer) <= seq
    /\ Part(buffer, seq - Len(buffer), AllLogs)
    /\ ~ started => Len(buffer) = 0

\* A reader has passed on no less than what the committer has stored.
ReadsOn == Good(Reader(logTopic), AllLogs) /\ seq - Len(buffer) <= Reader(logTopic).last

SoundInv == OffsetInv /\ (~ unsound => BooksExact /\ LogsFollow /\ ReadsOn)

\* The crash-free log is numbered without gaps.
LEMMA AllLogsOK ==
    ASSUME NEW msgs \in Seq(Messages)
    PROVE  /\ Replay(msgs).logs \in Seq(Logs)
           /\ \A k \in 1 .. Len(Replay(msgs).logs) : Replay(msgs).logs[k].seq = k
<1>1. Len(msgs) \in 0 .. Len(msgs)  OBVIOUS
<1>2. WellFormed(Replay(msgs))  BY <1>1, UptoOK, UptoDef
<1> QED  BY <1>2 DEF WellFormed

LEMMA PartReceived ==
    ASSUME NEW l, NEW q \in Seq(Logs), q # << >>, NEW a \in Nat, Part(q, a, l)
    PROVE  /\ Part(Tail(q), a + 1, l) /\ Head(q) = l[a + 1] /\ a + 1 \in 1 .. Len(l)
<1>1. PICK r : r = Tail(q)  OBVIOUS
<1>2. /\ Head(q) = q[1] /\ Len(r) = Len(q) - 1 /\ Len(q) \in Nat \ {0}
      /\ \A n \in 1 .. Len(q) - 1 : r[n] = q[n + 1]
  BY <1>1, Received
<1>3. 1 \in 1 .. Len(q)  BY <1>2
<1>4. ASSUME NEW n \in 1 .. Len(r) PROVE (a + 1) + n \in 1 .. Len(l) /\ r[n] = l[(a + 1) + n]
  <2>1. n + 1 \in 1 .. Len(q) /\ r[n] = q[n + 1] /\ a + (n + 1) = (a + 1) + n  BY <1>2
  <2> QED  BY <2>1 DEF Part
<1> QED  BY <1>1, <1>2, <1>3, <1>4 DEF Part

LEMMA PartSent ==
    ASSUME NEW l, NEW q \in Seq(Logs), NEW a \in Int, Part(q, a, l), NEW x \in Logs,
           NEW n, n = a + Len(q) + 1, n \in 1 .. Len(l), x = l[n]
    PROVE  Part(Append(q, x), a, l)
<1>1. PICK t : t = Append(q, x)  OBVIOUS
<1>2. Len(t) = Len(q) + 1 /\ Len(q) \in Nat /\ t[Len(q) + 1] = x /\ \A k \in 1 .. Len(q) : t[k] = q[k]
  BY <1>1, Sent
<1>3. ASSUME NEW k \in 1 .. Len(t) PROVE a + k \in 1 .. Len(l) /\ t[k] = l[a + k]
  <2>1. CASE k \in 1 .. Len(q)  BY <1>2, <2>1 DEF Part
  <2>2. CASE k = Len(q) + 1
    <3>1. a + k = n  BY <1>2, <2>2
    <3> QED  BY <1>2, <2>2, <3>1
  <2> QED  BY <1>2, <2>1, <2>2
<1> QED  BY <1>1, <1>3 DEF Part

LEMMA PartGrows ==
    ASSUME NEW l, NEW m, Len(l) \in Nat, Len(m) \in Nat, Begins(l, m), NEW q, NEW a \in Int, Part(q, a, l)
    PROVE  Part(q, a, m)
<1>1. \A n \in 1 .. Len(q) : a + n \in 1 .. Len(l) /\ q[n] = l[a + n]  BY DEF Part
<1>2. \A k \in 1 .. Len(l) : k \in 1 .. Len(m) /\ m[k] = l[k]  BY DEF Begins
<1> QED  BY <1>1, <1>2 DEF Part

LEMMA GoodGrows ==
    ASSUME NEW l \in Seq(Logs), NEW m \in Seq(Logs), Begins(l, m), NEW r, Good(r, l)
    PROVE  Good(r, m)
<1>1. ~ r.fatal /\ r.last \in 0 .. Len(l) /\ r.view = SubSeq(l, 1, r.last)  BY DEF Good
<1>2. r.last \in 0 .. Len(m) /\ \A k \in 1 .. r.last : m[k] = l[k]  BY <1>1 DEF Begins
<1>3. SubSeq(m, 1, r.last) = SubSeq(l, 1, r.last)  BY <1>1, <1>2
<1> QED  BY <1>1, <1>2, <1>3 DEF Good

\* What the facts about logs need of the types.
LEMMA LogTypes ==
    ASSUME OffsetInv
    PROVE  /\ logCh \in Seq(Logs) /\ outbox \in Seq(Logs) /\ buffer \in Seq(Logs) /\ logTopic \in Seq(Logs)
           /\ Len(logCh) \in Nat /\ Len(outbox) \in Nat /\ Len(buffer) \in Nat /\ seq \in Nat
           /\ book.logSeq \in Nat
           /\ AllLogs \in Seq(Logs) /\ Len(AllLogs) \in Nat
           /\ \A k \in 1 .. Len(AllLogs) : AllLogs[k].seq = k
<1>1. /\ logCh \in Seq(Logs) /\ outbox \in Seq(Logs) /\ buffer \in Seq(Logs) /\ logTopic \in Seq(Logs)
      /\ seq \in Nat /\ book \in Books /\ orderTopic \in Seq(Messages)
  BY DEF OffsetInv, TypeOK
<1>2. Len(logCh) \in Nat /\ Len(outbox) \in Nat /\ Len(buffer) \in Nat  BY <1>1
<1>3. book.logSeq \in Nat  BY <1>1 DEF Books
<1>4. AllLogs \in Seq(Logs) /\ \A k \in 1 .. Len(AllLogs) : AllLogs[k].seq = k
  BY <1>1, AllLogsOK DEF AllLogs
<1>5. Len(AllLogs) \in Nat  BY <1>4
<1> QED  BY <1>1, <1>2, <1>3, <1>4, <1>5

\* What the reader keeps.
Reads == [last : Nat, view : Seq(Logs), fatal : BOOLEAN]

LEMMA ReadType ==
    ASSUME NEW topic \in Seq(Logs)
    PROVE  \A n \in 0 .. Len(topic) : ReadUpto(topic, n) \in Reads
<1> DEFINE N == {n \in 0 .. Len(topic) : ReadUpto(topic, n) \notin Reads}
<1>0. Len(topic) \in Nat /\ \A i \in 1 .. Len(topic) : topic[i] \in Logs  OBVIOUS
<1>1. CASE N # {}
  <2>0. N \in SUBSET Nat  OBVIOUS
  <2>1. PICK k \in N : \A n \in N : k <= n
    <3> HIDE DEF N
    <3> QED  BY <1>1, <2>0, NatMin
  <2>2. k \in 0 .. Len(topic) /\ ReadUpto(topic, k) \notin Reads  BY <2>1
  <2>3. CASE k = 0
    <3>1. ReadUpto(topic, 0) = NothingRead  BY ReadUptoDef
    <3>2. NothingRead \in Reads  BY DEF NothingRead, Reads
    <3> QED  BY <2>2, <2>3, <3>1, <3>2
  <2>4. CASE k # 0
    <3>1. k \in 1 .. Len(topic) /\ k - 1 \in 0 .. Len(topic) /\ k - 1 \notin N
      <4> HIDE DEF N
      <4> QED  BY <1>0, <2>1, <2>2, <2>4
    <3>2. PICK r : r = ReadUpto(topic, k - 1)  OBVIOUS
    <3>3. PICK log : log = topic[k]  OBVIOUS
    <3>4. r \in Reads /\ log \in Logs  BY <1>0, <3>1, <3>2, <3>3
    <3>5. /\ r.last \in Nat /\ r.view \in Seq(Logs) /\ r.fatal \in BOOLEAN /\ log.seq \in Nat
      BY <3>4 DEF Reads, Logs
    <3>6. Append(r.view, log) \in Seq(Logs)  BY <3>4, <3>5
    <3>7. [r EXCEPT !.fatal = TRUE] \in Reads  BY <3>4 DEF Reads
    <3>8. [last |-> log.seq, view |-> Append(r.view, log), fatal |-> FALSE] \in Reads
      BY <3>5, <3>6 DEF Reads
    <3>9. ReadLog(r, log) \in Reads  BY <3>4, <3>7, <3>8 DEF ReadLog
    <3>10. ReadUpto(topic, k) = ReadLog(r, log)  BY <3>1, <3>2, <3>3, ReadUptoDef
    <3> QED  BY <2>2, <3>9, <3>10
  <2> QED  BY <2>3, <2>4
<1>2. CASE N = {}  BY <1>2
<1> QED  BY <1>1, <1>2

\* A reader that met no discontinuity has passed the largest seq.
LEMMA LastIsMax ==
    ASSUME NEW topic \in Seq(Logs), ~ Reader(topic).fatal
    PROVE  \A i \in 1 .. Len(topic) : topic[i].seq <= Reader(topic).last
<1> DEFINE OK(n) == LET r == ReadUpto(topic, n)
                    IN  r.last \in Nat /\ (r.fatal \/ \A i \in 1 .. n : topic[i].seq <= r.last)
           N == {n \in 0 .. Len(topic) : ~ OK(n)}
<1>0. Len(topic) \in Nat /\ \A i \in 1 .. Len(topic) : topic[i].seq \in Nat
  <2>1. \A i \in 1 .. Len(topic) : topic[i] \in Logs  OBVIOUS
  <2> QED  BY <2>1 DEF Logs
<1>1. CASE N # {}
  <2>0. N \in SUBSET Nat  OBVIOUS
  <2>1. PICK k \in N : \A n \in N : k <= n
    <3> HIDE DEF N
    <3> QED  BY <1>1, <2>0, NatMin
  <2>2. k \in 0 .. Len(topic) /\ ~ OK(k)  BY <2>1
  <2>3. CASE k = 0
    <3>1. ReadUpto(topic, 0) = NothingRead  BY ReadUptoDef
    <3>2. OK(0)  BY <3>1 DEF NothingRead
    <3> QED  BY <2>2, <2>3, <3>2
  <2>4. CASE k # 0
    <3>1. k \in 1 .. Len(topic) /\ k - 1 \in 0 .. Len(topic) /\ k - 1 \notin N
      <4> HIDE DEF N
      <4> QED  BY <1>0, <2>1, <2>2, <2>4
    <3>2. PICK r : r = ReadUpto(topic, k - 1)  OBVIOUS
    <3>3. PICK q : q = ReadUpto(topic, k)  OBVIOUS
    <3>4. q = ReadLog(r, topic[k])  BY <3>1, <3>2, <3>3, ReadUptoDef
    <3>5. r.last \in Nat /\ (r.fatal \/ \A i \in 1 .. k - 1 : topic[i].seq <= r.last)
      BY <3>1, <3>2
    <3>6. PICK x : x = topic[k].seq  OBVIOUS
    <3>7. x \in Nat  BY <1>0, <3>1, <3>6
    <3>8. \/ q = r /\ (r.fatal \/ x <= r.last)
          \/ q.fatal /\ q.last = r.last
          \/ ~ r.fatal /\ q.last = x /\ x > r.last
      <4>1. CASE r.fatal \/ x <= r.last  BY <3>4, <3>6, <4>1 DEF ReadLog
      <4>2. CASE ~ r.fatal /\ ~ (x <= r.last)
        <5>1. r = ReadUpto(topic, k - 1)  BY <3>2
        <5>2. CASE r.last > 0 /\ x # r.last + 1
          <6>1. q = [r EXCEPT !.fatal = TRUE]  BY <3>4, <3>6, <4>2, <5>2 DEF ReadLog
          <6>2. r \in Reads
            BY <3>1, <3>2, ReadType
          <6> QED  BY <6>1, <6>2 DEF Reads
        <5>3. CASE ~ (r.last > 0 /\ x # r.last + 1)
          <6>1. q = [last |-> x, view |-> Append(r.view, topic[k]), fatal |-> FALSE]
            BY <3>4, <3>6, <4>2, <5>3 DEF ReadLog
          <6> QED  BY <3>5, <3>7, <4>2, <6>1
        <5> QED  BY <5>2, <5>3
      <4> QED  BY <4>1, <4>2
    <3>9. q.last \in Nat  BY <3>5, <3>7, <3>8
    <3>10. ASSUME ~ q.fatal, NEW i \in 1 .. k PROVE topic[i].seq <= q.last
      <4>1. ~ r.fatal /\ r.last <= q.last /\ x <= q.last  BY <3>5, <3>7, <3>8, <3>10
      <4>2. CASE i = k  BY <3>6, <4>1, <4>2
      <4>3. CASE i # k
        <5>1. i \in 1 .. k - 1 /\ i \in 1 .. Len(topic)  BY <1>0, <3>1, <4>3
        <5> QED  BY <1>0, <3>5, <3>9, <4>1, <5>1
      <4> QED  BY <4>2, <4>3
    <3>11. OK(k)  BY <3>3, <3>9, <3>10
    <3> QED  BY <2>2, <3>11
  <2> QED  BY <2>3, <2>4
<1>2. CASE N = {}
  <2>1. Len(topic) \in 0 .. Len(topic)  BY <1>0
  <2>2. OK(Len(topic))  BY <1>2, <2>1
  <2>3. ReadUpto(topic, Len(topic)) = Reader(topic)  BY ReadUptoDef
  <2> QED  BY <2>2, <2>3
<1> QED  BY <1>1, <1>2

\* It has passed on all the logs that are stored.
LEMMA StoredRead ==
    ASSUME NEW topic \in Seq(Logs), ~ Reader(topic).fatal, Reader(topic).last \in Nat,
           NEW n \in Nat, Stored(n, topic)
    PROVE  n <= Reader(topic).last
<1>1. CASE n = 0  BY <1>1
<1>2. CASE n # 0
  <2>1. n \in 1 .. n  BY <1>2
  <2>2. PICK i \in DOMAIN topic : topic[i].seq = n  BY <2>1 DEF Stored
  <2>3. i \in 1 .. Len(topic)  OBVIOUS
  <2> QED  BY <2>2, <2>3, LastIsMax
<1> QED  BY <1>1, <1>2

\* The next log the committer takes.
LEMMA NextLog ==
    ASSUME OffsetInv, LogsFollow, logCh # << >>
    PROVE  /\ Head(logCh) \in Logs /\ Base + 1 \in 1 .. Len(AllLogs)
           /\ Head(logCh) = AllLogs[Base + 1] /\ Head(logCh).seq = Base + 1
           /\ Part(Tail(logCh), Base + 1, AllLogs) /\ Len(Tail(logCh)) = Len(logCh) - 1
<1>1. /\ logCh \in Seq(Logs)
      /\ AllLogs \in Seq(Logs) /\ \A k \in 1 .. Len(AllLogs) : AllLogs[k].seq = k
  BY LogTypes
<1>2. Part(logCh, Base, AllLogs) /\ Base \in Nat  BY DEF LogsFollow
<1>3. PICK a : a = Base  OBVIOUS
<1>4. Part(Tail(logCh), a + 1, AllLogs) /\ Head(logCh) = AllLogs[a + 1] /\ a + 1 \in 1 .. Len(AllLogs)
  BY <1>1, <1>2, <1>3, PartReceived
<1>5. Head(logCh) \in Logs /\ Len(Tail(logCh)) = Len(logCh) - 1  BY <1>1, Received
<1>6. Head(logCh).seq = a + 1  BY <1>1, <1>4
<1> QED  BY <1>3, <1>4, <1>5, <1>6

\* One that it does not discard goes on from its buffer.
LEMMA NextFresh ==
    ASSUME OffsetInv, LogsFollow, logCh # << >>, Head(logCh).seq > seq
    PROVE  /\ Base = seq /\ Head(logCh).seq = seq + 1
           /\ Part(Append(buffer, Head(logCh)), seq - Len(buffer), AllLogs)
           /\ Append(buffer, Head(logCh)) \in Seq(Logs)
           /\ Len(Append(buffer, Head(logCh))) = Len(buffer) + 1
<1>1. buffer \in Seq(Logs) /\ Len(buffer) \in Nat /\ seq \in Nat  BY LogTypes
<1>2. /\ Base \in Nat /\ Base <= seq
      /\ Len(buffer) <= seq /\ Part(buffer, seq - Len(buffer), AllLogs)
  BY DEF LogsFollow
<1>3. /\ Head(logCh) \in Logs /\ Base + 1 \in 1 .. Len(AllLogs)
      /\ Head(logCh) = AllLogs[Base + 1] /\ Head(logCh).seq = Base + 1
  BY NextLog
<1>4. Base = seq
  <2>1. PICK x : x = Head(logCh).seq  OBVIOUS
  <2>2. x > seq /\ x = Base + 1  BY <1>3, <2>1
  <2> QED  BY <1>1, <1>2, <2>2
<1>5. Part(Append(buffer, Head(logCh)), seq - Len(buffer), AllLogs)
  <2>1. PICK a : a = seq - Len(buffer)  OBVIOUS
  <2>2. PICK n : n = seq + 1  OBVIOUS
  <2>3. a \in Int /\ n = a + Len(buffer) + 1  BY <1>1, <2>1, <2>2
  <2>4. n \in 1 .. Len(AllLogs) /\ Head(logCh) = AllLogs[n]  BY <1>3, <1>4, <2>2
  <2> QED  BY <1>1, <1>2, <1>3, <2>1, <2>3, <2>4, PartSent
<1>6. Append(buffer, Head(logCh)) \in Seq(Logs) /\ Len(Append(buffer, Head(logCh))) = Len(buffer) + 1
  BY <1>1, <1>3, Sent
<1> QED  BY <1>3, <1>4, <1>5, <1>6

\* A sound start goes on where the book of its snapshot ends, which is no
\* later than where a reader is.
LEMMA RestartLogs ==
    ASSUME OffsetInv, NEW topic, Restart(topic), ~ unsound', logTopic' = topic, topic \in Seq(Logs),
           Good(Reader(topic), AllLogs)
    PROVE  LogsFollow' /\ ReadsOn'
<1>1. Boot(redis) /\ orderTopic' = orderTopic /\ Sound(redis, topic)
  BY Zenon DEF Restart
<1>2. AllLogs' = AllLogs  BY <1>1 DEF AllLogs
<1>3. Len(<< >>) = 0  OBVIOUS
<1>4. Reader(topic).last \in Nat  BY LogTypes DEF Good
<1>5. ASSUME NEW b \in Books, NEW o, BootSets(b, o), b.logSeq <= Reader(topic).last
      PROVE  LogsFollow' /\ ReadsOn'
  <2>1. /\ book' = b /\ seq' = b.logSeq /\ Len(logCh') = 0 /\ Len(outbox') = 0 /\ Len(buffer') = 0
        /\ started' = FALSE
    BY <1>3, <1>5 DEF BootSets
  <2>2. b.logSeq \in Nat  BY DEF Books
  <2>3. \A a, l : Part(logCh', a, l) /\ Part(outbox', a, l) /\ Part(buffer', a, l)
    BY <2>1 DEF Part
  <2>4. LogsFollow'  BY <2>1, <2>2, <2>3 DEF LogsFollow, Base
  <2>5. ReadsOn'  BY <1>2, <1>4, <1>5, <2>1, <2>2 DEF ReadsOn
  <2> QED  BY <2>4, <2>5
<1>6. CASE redis # NoSnapshot
  <2>1. redis.book \in Books /\ redis.book.logSeq \in Nat  BY <1>6, OffsetTypes, Snaps
  <2>2. Stored(redis.book.logSeq, topic)  BY <1>1, <1>6 DEF Sound, Committed
  <2>3. redis.book.logSeq <= Reader(topic).last  BY <1>4, <2>1, <2>2, StoredRead DEF Good
  <2> QED  BY <1>1, <1>5, <1>6, <2>1, <2>3, BootEffect
<1>7. CASE redis = NoSnapshot
  <2>1. EmptyBook.logSeq <= Reader(topic).last  BY <1>4 DEF EmptyBook
  <2> QED  BY <1>1, <1>5, <1>7, <2>1, BootEffect, EmptyType
<1> QED  BY <1>6, <1>7
\* Every step but a crash keeps the logs in order.
LEMMA LogsStep ==
    ASSUME OffsetInv, [Next]_vars, ~ Crash, ~ CrashInStore, ~ unsound', BooksExact, LogsFollow, ReadsOn
    PROVE  LogsFollow' /\ ReadsOn'
<1>1. /\ logCh \in Seq(Logs) /\ outbox \in Seq(Logs) /\ buffer \in Seq(Logs) /\ logTopic \in Seq(Logs)
      /\ Len(logCh) \in Nat /\ Len(outbox) \in Nat /\ Len(buffer) \in Nat /\ seq \in Nat
      /\ book.logSeq \in Nat
      /\ AllLogs \in Seq(Logs) /\ Len(AllLogs) \in Nat
      /\ \A k \in 1 .. Len(AllLogs) : AllLogs[k].seq = k
  BY LogTypes
<1>2. /\ Base \in Nat /\ Base <= seq
      /\ Part(logCh, Base, AllLogs)
      /\ Part(outbox, Base + Len(logCh), AllLogs)
      /\ Len(buffer) <= seq
      /\ Part(buffer, seq - Len(buffer), AllLogs)
      /\ ~ started => Len(buffer) = 0
  BY DEF LogsFollow
<1>3. /\ Good(Reader(logTopic), AllLogs) /\ seq - Len(buffer) <= Reader(logTopic).last
      /\ Reader(logTopic).last \in Nat
  <2>1. Good(Reader(logTopic), AllLogs) /\ seq - Len(buffer) <= Reader(logTopic).last  BY DEF ReadsOn
  <2> QED  BY <1>1, <2>1 DEF Good
<1>n. /\ Len(logCh) \in Nat /\ Len(outbox) \in Nat /\ Len(buffer) \in Nat /\ seq \in Nat
      /\ book.logSeq \in Nat /\ Base = book.logSeq - Len(logCh) - Len(outbox) /\ Len(buffer) <= seq
      /\ Base \in Nat /\ Base <= seq
  BY <1>1, <1>2 DEF Base
<1>4. ASSUME NEW m \in Traffic, SubmitOrder(m) PROVE LogsFollow' /\ ReadsOn'
  <2>1. UNCHANGED <<book, seq, logCh, outbox, buffer, started, logTopic>>
    BY <1>4 DEF SubmitOrder, applier, committer
  <2>2. Begins(AllLogs, AllLogs')  BY TopicStep DEF AllLogs
  <2>3. AllLogs' \in Seq(Logs) /\ Len(AllLogs') \in Nat
    <3>1. orderTopic' \in Seq(Messages)  BY TypeStep DEF OffsetInv, TypeOK
    <3>2. AllLogs' \in Seq(Logs)  BY <3>1, AllLogsOK DEF AllLogs
    <3> QED  BY <3>2
  <2>4. /\ Part(logCh, Base, AllLogs') /\ Part(outbox, Base + Len(logCh), AllLogs')
        /\ Part(buffer, seq - Len(buffer), AllLogs')
    <3>1. Base \in Int /\ Base + Len(logCh) \in Int /\ seq - Len(buffer) \in Int  BY <1>n
    <3> QED  BY <1>1, <1>2, <2>2, <2>3, <3>1, PartGrows
  <2>5. Good(Reader(logTopic), AllLogs')  BY <1>1, <1>3, <2>2, <2>3, GoodGrows
  <2>6. Base' = Base  BY <2>1 DEF Base
  <2>7. LogsFollow'  BY <1>2, <2>1, <2>4, <2>6, Zenon DEF LogsFollow
  <2>8. ReadsOn'  BY <1>3, <2>1, <2>5 DEF ReadsOn
  <2> QED  BY <2>7, <2>8
<1>5. ASSUME ApplyMessage PROVE LogsFollow' /\ ReadsOn'
  <2>1. UNCHANGED <<orderTopic, seq, logCh, buffer, started, logTopic>> /\ outbox = << >>
    BY <1>5 DEF ApplyMessage, ApplierFree, topics, committer
  <2>2. AllLogs' = AllLogs  BY <2>1 DEF AllLogs
  <2>3. PICK r : r = Upto(orderTopic, Taken)  OBVIOUS
  <2>4. PICK m : m = orderTopic[Taken + 1]  OBVIOUS
  <2>5. PICK t : t = Upto(orderTopic, Taken + 1)  OBVIOUS
  <2>6. /\ WellFormed(r) /\ m \in Messages /\ t = ReplayOne(r, m) /\ book' = t.book
        /\ outbox' = LogsOf(r.book, m) /\ book = r.book /\ Taken + 1 \in 1 .. Len(orderTopic)
    BY <1>5, <2>3, <2>4, <2>5, NextMessage DEF BooksExact
  <2>7. /\ WellFormed(t)
        /\ \A k \in 1 .. Len(outbox') :
              /\ Len(r.logs) + k \in 1 .. Len(t.logs)
              /\ t.logs[Len(r.logs) + k] = outbox'[k]
    BY <2>6, ReplayOneOK
  <2>8. Begins(t.logs, AllLogs)
    <3>1. orderTopic \in Seq(Messages) /\ Len(orderTopic) \in Nat  BY WithinTopic
    <3>2. Taken + 1 \in 0 .. Len(orderTopic) /\ Len(orderTopic) \in Taken + 1 .. Len(orderTopic)
      BY <2>6, <3>1
    <3> QED  BY <2>5, <3>1, <3>2, UptoGrows, UptoDef DEF AllLogs
  <2>9. Len(r.logs) = Base + Len(logCh) /\ r.book.logSeq = Base + Len(logCh)
    <3>1. Len(outbox) = 0  BY <2>1
    <3>2. Len(r.logs) = book.logSeq /\ r.book.logSeq = book.logSeq  BY <2>6 DEF WellFormed
    <3> QED  BY <1>n, <3>1, <3>2
  <2>10. Part(outbox', Base + Len(logCh), AllLogs)
    <3>1. Len(t.logs) \in Nat  BY <2>7 DEF WellFormed
    <3>2. \A k \in 1 .. Len(t.logs) : k \in 1 .. Len(AllLogs) /\ AllLogs[k] = t.logs[k]
      BY <1>1, <2>8, <3>1 DEF Begins
    <3> QED  BY <2>7, <2>9, <3>2 DEF Part
  <2>11. Base' = Base
    <3>1. r.book \in Books  BY <2>6 DEF WellFormed
    <3>2. book' = ApplyTo(r.book, m)  BY <2>6 DEF ReplayOne
    <3>3. book'.logSeq = r.book.logSeq + Len(outbox') /\ outbox' \in Seq(Logs)
      BY <2>6, <3>1, <3>2, ApplyToType
    <3>4. Len(outbox') \in Nat  BY <3>3
    <3>5. Base' = book'.logSeq - Len(logCh) - Len(outbox')  BY <2>1 DEF Base
    <3> QED  BY <1>n, <2>9, <3>3, <3>4, <3>5
  <2>12. LogsFollow'  BY <1>2, <2>1, <2>2, <2>10, <2>11, Zenon DEF LogsFollow
  <2>13. ReadsOn'  BY <1>3, <2>1, <2>2, Zenon DEF ReadsOn
  <2> QED  BY <2>12, <2>13
<1>6. ASSUME SendLog PROVE LogsFollow' /\ ReadsOn'
  <2>1. /\ UNCHANGED <<orderTopic, book, seq, buffer, started, logTopic>> /\ outbox # << >>
        /\ logCh' = Append(logCh, Head(outbox)) /\ outbox' = Tail(outbox)
    BY <1>6 DEF SendLog, topics, committer
  <2>2. AllLogs' = AllLogs  BY <2>1 DEF AllLogs
  <2>3. PICK a : a = Base + Len(logCh)  OBVIOUS
  <2>4. /\ Part(outbox', a + 1, AllLogs) /\ Head(outbox) = AllLogs[a + 1] /\ a + 1 \in 1 .. Len(AllLogs)
    <3>1. a \in Nat  BY <1>n, <2>3
    <3>2. outbox \in Seq(Logs) /\ Part(outbox, a, AllLogs)  BY <1>1, <1>2, <2>3
    <3> QED  BY <2>1, <3>1, <3>2, PartReceived
  <2>5. Head(outbox) \in Logs /\ Len(outbox') = Len(outbox) - 1  BY <1>1, <2>1, Received
  <2>6. Len(logCh') = Len(logCh) + 1  BY <1>1, <2>1, <2>5, Sent
  <2>7. Part(logCh', Base, AllLogs)
    <3>1. PICK n : n = a + 1  OBVIOUS
    <3>2. PICK c : c = Base  OBVIOUS
    <3>3. n = c + Len(logCh) + 1 /\ c \in Int  BY <1>n, <2>3, <3>1, <3>2
    <3>4. Part(logCh, c, AllLogs)  BY <1>2, <3>2
    <3>5. Part(logCh', c, AllLogs)  BY <1>1, <2>1, <2>4, <2>5, <3>1, <3>3, <3>4, PartSent
    <3> QED  BY <3>2, <3>5
  <2>8. Base' = Base /\ Base + Len(logCh') = a + 1
    <3>1. Len(outbox') = Len(outbox) - 1 /\ Len(logCh') = Len(logCh) + 1  BY <2>5, <2>6
    <3>2. Base' = book.logSeq - Len(logCh') - Len(outbox')  BY <2>1 DEF Base
    <3>3. Base' = Base  BY <1>n, <3>1, <3>2
    <3>4. PICK c : c = Base  OBVIOUS
    <3>5. PICK n : n = Len(logCh)  OBVIOUS
    <3>6. c \in Nat /\ n \in Nat /\ a = c + n /\ Len(logCh') = n + 1  BY <1>n, <2>3, <3>1, <3>4, <3>5
    <3>7. c + Len(logCh') = a + 1  BY <3>6
    <3> QED  BY <3>3, <3>4, <3>7
  <2>9. LogsFollow'  BY <1>2, <2>1, <2>2, <2>4, <2>7, <2>8, Zenon DEF LogsFollow
  <2>10. ReadsOn'  BY <1>3, <2>1, <2>2, Zenon DEF ReadsOn
  <2> QED  BY <2>9, <2>10
<1>r. ASSUME logCh # << >>, logCh' = Tail(logCh), UNCHANGED <<orderTopic, book, outbox>>
      PROVE  /\ AllLogs' = AllLogs /\ Base' = Base + 1 /\ Head(logCh).seq = Base + 1
             /\ Part(logCh', Base + 1, AllLogs) /\ Part(outbox, (Base + 1) + Len(logCh'), AllLogs)
  <2>1. AllLogs' = AllLogs  BY <1>r DEF AllLogs
  <2>2. Part(logCh', Base + 1, AllLogs) /\ Len(logCh') = Len(logCh) - 1 /\ Head(logCh).seq = Base + 1
    BY <1>r, NextLog
  <2>3. Base' = book.logSeq - Len(logCh') - Len(outbox)  BY <1>r DEF Base
  <2>4. Base' = Base + 1 /\ (Base + 1) + Len(logCh') = Base + Len(logCh)
    <3>1. Len(logCh') = Len(logCh) - 1  BY <2>2
    <3> QED  BY <1>n, <2>3, <3>1
  <2>5. Part(outbox, (Base + 1) + Len(logCh'), AllLogs)  BY <1>2, <2>4
  <2> QED  BY <2>1, <2>2, <2>4, <2>5
<1>7. ASSUME DiscardLog PROVE LogsFollow' /\ ReadsOn'
  <2>1. /\ UNCHANGED <<orderTopic, book, outbox, seq, buffer, started, logTopic>>
        /\ logCh # << >> /\ logCh' = Tail(logCh) /\ Head(logCh).seq <= seq
    BY <1>7 DEF DiscardLog, LogWaits, topics, applier, committer
  <2>2. /\ AllLogs' = AllLogs /\ Base' = Base + 1 /\ Head(logCh).seq = Base + 1
        /\ Part(logCh', Base + 1, AllLogs) /\ Part(outbox, (Base + 1) + Len(logCh'), AllLogs)
    BY <1>r, <2>1
  <2>3. Base' \in Nat /\ Base' <= seq
    <3>1. Base + 1 <= seq  BY <2>1, <2>2
    <3>2. Base' = Base + 1 /\ Base \in Nat  BY <1>n, <2>2
    <3> QED  BY <3>1, <3>2
  <2>4. LogsFollow'  BY <1>2, <2>1, <2>2, <2>3, Zenon DEF LogsFollow
  <2>5. ReadsOn'  BY <1>3, <2>1, <2>2, Zenon DEF ReadsOn
  <2> QED  BY <2>4, <2>5
<1>8. ASSUME BufferLog PROVE LogsFollow' /\ ReadsOn'
  <2>1. /\ UNCHANGED <<orderTopic, book, outbox, started, logTopic>> /\ logCh # << >> /\ started
        /\ Head(logCh).seq > seq
        /\ seq' = Head(logCh).seq /\ logCh' = Tail(logCh) /\ buffer' = Append(buffer, Head(logCh))
    BY <1>8 DEF BufferLog, LogWaits, topics, applier
  <2>2. /\ AllLogs' = AllLogs /\ Base' = Base + 1
        /\ Part(logCh', Base + 1, AllLogs) /\ Part(outbox, (Base + 1) + Len(logCh'), AllLogs)
    BY <1>r, <2>1
  <2>3. /\ Base = seq /\ seq' = seq + 1
        /\ Part(buffer', seq - Len(buffer), AllLogs) /\ Len(buffer') = Len(buffer) + 1
    BY <2>1, NextFresh
  <2>4. /\ seq' - Len(buffer') = seq - Len(buffer) /\ Len(buffer') <= seq'
        /\ Base' \in Nat /\ Base' <= seq'
    <3>1. seq' = seq + 1 /\ Len(buffer') = Len(buffer) + 1 /\ Base' = seq + 1  BY <2>2, <2>3
    <3> QED  BY <1>n, <3>1
  <2>5. LogsFollow'  BY <2>1, <2>2, <2>3, <2>4, Zenon DEF LogsFollow
  <2>6. ReadsOn'  BY <1>3, <2>1, <2>2, <2>4, Zenon DEF ReadsOn
  <2> QED  BY <2>5, <2>6
<1>9. ASSUME StoreLogs PROVE LogsFollow' /\ ReadsOn'
  <2>1. /\ UNCHANGED <<orderTopic, book, outbox, started>> /\ logCh # << >> /\ buffer' = << >>
        /\ Head(logCh).seq > seq
        /\ seq' = Head(logCh).seq /\ logCh' = Tail(logCh)
        /\ logTopic' = logTopic \o Append(buffer, Head(logCh))
    BY <1>9 DEF StoreLogs, MustStore, LogWaits, applier
  <2>2. /\ AllLogs' = AllLogs /\ Base' = Base + 1
        /\ Part(logCh', Base + 1, AllLogs) /\ Part(outbox, (Base + 1) + Len(logCh'), AllLogs)
    BY <1>r, <2>1
  <2>3. PICK b : b = Append(buffer, Head(logCh))  OBVIOUS
  <2>4. PICK a : a = seq - Len(buffer)  OBVIOUS
  <2>5. /\ Base = seq /\ seq' = seq + 1
        /\ Part(b, a, AllLogs) /\ Len(b) = Len(buffer) + 1 /\ b \in Seq(Logs)
    BY <2>1, <2>3, <2>4, NextFresh
  <2>6. a \in Nat /\ a <= Reader(logTopic).last /\ a + Len(b) = seq'  BY <1>1, <1>2, <1>3, <2>4, <2>5
  <2>7. Good(Reader(logTopic'), AllLogs) /\ Reader(logTopic').last >= a + Len(b)
    BY <1>1, <1>3, <2>1, <2>3, <2>5, <2>6, ReadBatch
  <2>8. Len(buffer') = 0 /\ seq' \in Nat /\ Reader(logTopic').last \in Nat
    BY <1>1, <2>1, <2>5, <2>7 DEF Good
  <2>9. Part(buffer', seq' - Len(buffer'), AllLogs)  BY <2>8 DEF Part
  <2>10. Base' \in Nat /\ Base' <= seq' /\ Len(buffer') <= seq'
    <3>1. Base' = seq + 1 /\ seq' = seq + 1  BY <2>2, <2>5
    <3> QED  BY <1>n, <2>8, <3>1
  <2>11. LogsFollow'  BY <2>1, <2>2, <2>8, <2>9, <2>10, Zenon DEF LogsFollow
  <2>12. seq' - Len(buffer') <= Reader(logTopic').last  BY <2>6, <2>7, <2>8
  <2>13. ReadsOn'  BY <2>2, <2>7, <2>12 DEF ReadsOn
  <2> QED  BY <2>11, <2>13
<1>12. ASSUME StartCommitter PROVE LogsFollow' /\ ReadsOn'
  <2>1. /\ UNCHANGED <<orderTopic, book, logCh, outbox, buffer, logTopic>>
        /\ ~ started /\ started' = TRUE /\ seq' \in seq .. book.logSeq
    BY <1>12 DEF StartCommitter, topics, applier
  <2>2. Stored(seq', logTopic)  BY <1>12, Zenon DEF StartCommitter
  <2>3. AllLogs' = AllLogs /\ Base' = Base  BY <2>1 DEF AllLogs, Base
  <2>4. Len(buffer) = 0  BY <1>2, <2>1
  <2>5. seq' \in Nat /\ Base <= seq' /\ Len(buffer) <= seq' /\ seq' - Len(buffer) = seq'
    <3>1. seq' \in seq .. book.logSeq  BY <2>1
    <3>2. seq' \in Nat /\ seq <= seq'  BY <1>n, <3>1
    <3>3. Base <= seq'  BY <1>n, <3>2
    <3>4. PICK n : n = seq'  OBVIOUS
    <3>5. PICK k : k = Len(buffer)  OBVIOUS
    <3>6. n \in Nat /\ k = 0  BY <2>4, <3>2, <3>4, <3>5
    <3>7. k <= n /\ n - k = n  BY <3>6
    <3> QED  BY <3>2, <3>3, <3>4, <3>5, <3>7
  <2>6. Part(buffer, seq' - Len(buffer), AllLogs)  BY <2>4 DEF Part
  <2>7. LogsFollow'  BY <1>2, <2>1, <2>3, <2>5, <2>6, Zenon DEF LogsFollow
  <2>8. PICK n : n = seq'  OBVIOUS
  <2>9. n \in Nat /\ Stored(n, logTopic)  BY <2>2, <2>5, <2>8
  <2>10. n <= Reader(logTopic).last
    <3>1. ~ Reader(logTopic).fatal  BY <1>3 DEF Good
    <3> QED  BY <1>1, <1>3, <2>9, <3>1, StoredRead
  <2>11. seq' - Len(buffer') <= Reader(logTopic').last  BY <2>1, <2>5, <2>8, <2>10
  <2>12. Good(Reader(logTopic'), AllLogs')  BY <1>3, <2>1, <2>3
  <2> QED  BY <2>7, <2>11, <2>12 DEF ReadsOn
<1>10. ASSUME UNCHANGED <<orderTopic, book, seq, logCh, outbox, buffer, started, logTopic>>
       PROVE  LogsFollow' /\ ReadsOn'
  BY <1>2, <1>3, <1>10, Zenon DEF LogsFollow, ReadsOn, AllLogs, Base
<1>11. ASSUME \/ Fetch \/ TakeSnapshot \/ SendTaken \/ ApproveSnapshot \/ SendApproved \/ RequestSnapshot
              \/ SendRequest \/ StoreSnapshot \/ StoreSnapshotFails \/ Expire \/ UNCHANGED vars
       PROVE  UNCHANGED <<orderTopic, book, seq, logCh, outbox, buffer, started, logTopic>>
  <2>1. CASE Fetch \/ TakeSnapshot \/ SendTaken
    BY <2>1 DEF Fetch, TakeSnapshot, SendTaken, topics, applier, committer
  <2>2. CASE ApproveSnapshot \/ SendApproved
    BY <2>2 DEF ApproveSnapshot, SendApproved, topics, applier
  <2>3. CASE RequestSnapshot \/ SendRequest \/ StoreSnapshot \/ StoreSnapshotFails
    BY <2>3 DEF RequestSnapshot, SendRequest, StoreSnapshot, StoreSnapshotFails, topics, applier, committer
  <2>4. CASE Expire \/ UNCHANGED vars  BY <2>4 DEF Expire, vars, topics, applier, committer
  <2> QED  BY <1>11, <2>1, <2>2, <2>3, <2>4
<1> QED
  BY <1>4, <1>5, <1>6, <1>7, <1>8, <1>9, <1>10, <1>11, <1>12 DEF Next

\* unsound is never taken back.
LEMMA UnsoundStays == ASSUME [Next]_vars, ~ unsound' PROVE ~ unsound
<1>1. ASSUME NEW m \in Traffic, SubmitOrder(m) PROVE unsound' = unsound
  BY <1>1 DEF SubmitOrder, faults
<1>2. CASE Fetch \/ ApplyMessage \/ SendLog \/ TakeSnapshot \/ SendTaken
  BY <1>2 DEF Fetch, ApplyMessage, SendLog, TakeSnapshot, SendTaken, faults
<1>3. CASE DiscardLog \/ BufferLog \/ StoreLogs \/ ApproveSnapshot \/ SendApproved
  BY <1>3 DEF DiscardLog, BufferLog, StoreLogs, ApproveSnapshot, SendApproved, faults
<1>4. CASE RequestSnapshot \/ SendRequest \/ StoreSnapshot \/ StoreSnapshotFails \/ Expire
  BY <1>4 DEF RequestSnapshot, SendRequest, StoreSnapshot, StoreSnapshotFails, Expire, faults
<1>5. CASE StartCommitter  BY <1>5, Zenon DEF StartCommitter
<1>6. CASE Crash \/ CrashInStore  BY <1>6, Zenon DEF Crash, CrashInStore, Restart
<1>7. CASE UNCHANGED vars  BY <1>7 DEF vars, faults
<1> QED  BY <1>1, <1>2, <1>3, <1>4, <1>5, <1>6, <1>7 DEF Next

LEMMA SoundStep == SoundInv /\ [Next]_vars => SoundInv'
<1> SUFFICES ASSUME SoundInv, [Next]_vars, ~ unsound'
             PROVE  BooksExact' /\ LogsFollow' /\ ReadsOn'
  BY OffsetStep DEF SoundInv
<1>1. OffsetInv /\ ~ unsound /\ BooksExact /\ LogsFollow /\ ReadsOn  BY UnsoundStays DEF SoundInv
<1>2. CASE Crash
  <2>1. Restart(logTopic) /\ logTopic' = logTopic  BY <1>2 DEF Crash
  <2>2. Good(Reader(logTopic), AllLogs) /\ logTopic \in Seq(Logs)  BY <1>1, LogTypes DEF ReadsOn
  <2> QED  BY <1>1, <2>1, <2>2, RestartBooks, RestartLogs
<1>3. CASE CrashInStore
  <2>1. PICK b : b = Append(buffer, Head(logCh))  OBVIOUS
  <2>2. PICK n \in 1 .. Len(b) : logTopic' = logTopic \o SubSeq(b, 1, n) /\ Restart(logTopic')
    BY <1>3, <2>1 DEF CrashInStore
  <2>3. PICK topic : topic = logTopic'  OBVIOUS
  <2>4. PICK a : a = seq - Len(buffer)  OBVIOUS
  <2>5. b \in Seq(Logs) /\ Part(b, a, AllLogs)
    BY <1>1, <1>3, <2>1, <2>4, NextFresh DEF CrashInStore, MustStore, LogWaits
  <2>6. SubSeq(b, 1, n) \in Seq(Logs) /\ Part(SubSeq(b, 1, n), a, AllLogs)
    <3>1. PICK c : c = SubSeq(b, 1, n)  OBVIOUS
    <3>2. c \in Seq(Logs) /\ Len(c) = n /\ \A k \in 1 .. n : c[k] = b[k] /\ k \in 1 .. Len(b)
      BY <2>5, <3>1
    <3> QED  BY <2>5, <3>1, <3>2 DEF Part
  <2>7. /\ AllLogs \in Seq(Logs) /\ logTopic \in Seq(Logs) /\ a \in Nat
        /\ \A k \in 1 .. Len(AllLogs) : AllLogs[k].seq = k
    BY <1>1, <2>4, LogTypes DEF LogsFollow
  <2>8. Good(Reader(logTopic), AllLogs) /\ a <= Reader(logTopic).last  BY <1>1, <2>4 DEF ReadsOn
  <2>9. Good(Reader(topic), AllLogs)  BY <2>2, <2>3, <2>6, <2>7, <2>8, ReadBatch
  <2>10. topic \in Seq(Logs)  BY <2>2, <2>3, <2>6, <2>7, Joined
  <2> QED  BY <1>1, <2>2, <2>3, <2>9, <2>10, RestartBooks, RestartLogs
<1>4. CASE ~ Crash /\ ~ CrashInStore  BY <1>1, <1>4, BooksStep, LogsStep
<1> QED  BY <1>2, <1>3, <1>4

LEMMA SoundInit == Init => SoundInv
<1> SUFFICES ASSUME Init PROVE SoundInv
  OBVIOUS
<1>1. OffsetInv  BY OffsetInit
<1>2. Len(<< >>) = 0 /\ << >> \in Seq(Messages) /\ << >> \in Seq(Logs)  OBVIOUS
<1>3. /\ Len(orderCh) = 0 /\ Len(logCh) = 0 /\ Len(outbox) = 0 /\ Len(buffer) = 0
      /\ Len(Approved) = 0 /\ Len(Asked) = 0 /\ fetchOffset = 0 /\ seq = 0
      /\ pending = NoSnapshot /\ redis = NoSnapshot /\ book = EmptyBook
      /\ orderTopic = << >> /\ logTopic = << >>
  BY <1>2 DEF Init, Asked, Approved, WithHeld
<1>4. Upto(orderTopic, 0) = NothingApplied /\ Replay(orderTopic) = NothingApplied
  BY <1>2, <1>3, UptoDef
<1>5. Taken = 0  BY <1>3 DEF Taken
<1>6. BooksExact  BY <1>3, <1>4, <1>5 DEF BooksExact, AllExact, NothingApplied
<1>7. LogsFollow  BY <1>3 DEF LogsFollow, Base, Part, EmptyBook
<1>8. Reader(logTopic) = NothingRead  BY <1>2, <1>3, ReadUptoDef
<1>9. AllLogs = << >>  BY <1>4 DEF AllLogs, NothingApplied
<1>10. Good(NothingRead, << >>)
  <2>1. SubSeq(<< >>, 1, 0) = << >>  OBVIOUS
  <2> QED  BY <1>2, <2>1 DEF Good, NothingRead
<1>11. ReadsOn
  <2>1. NothingRead.last = 0  BY DEF NothingRead
  <2>2. seq - Len(buffer) <= Reader(logTopic).last  BY <1>3, <1>8, <2>1
  <2> QED  BY <1>8, <1>9, <1>10, <2>2 DEF ReadsOn
<1> QED  BY <1>1, <1>6, <1>7, <1>11 DEF SoundInv

\* A stored snapshot pairs an offset with the orders and the seqs of just the
\* messages up to it, cancels and repeated orders included, and with their
\* de-duplication windows too unless ids were put into those before it was
\* stored, however snapshots were requested, approved, held up or restored
\* before.
THEOREM EngineSnapshotIsReplay == Spec => []SnapshotIsReplay
<1>1. SoundInv => SnapshotIsReplay
  <2> SUFFICES ASSUME SoundInv, ~ unsound, redis # NoSnapshot PROVE IsReplay(redis) /\ (raced \/ WindowsExact(redis))
    BY DEF SnapshotIsReplay
  <2>1. OffsetInv /\ Replays(orderTopic, redis) /\ (raced \/ SameWindows(orderTopic, redis))
    BY DEF SoundInv, BooksExact
  <2>2. Replay(Prefix(redis.offset)) = Upto(orderTopic, redis.offset + 1)  BY <2>1, PrefixIs
  <2> QED  BY <2>1, <2>2 DEF IsReplay, WindowsExact, Replays, SameWindows
<1> QED  BY <1>1, SoundInit, SoundStep, PTL DEF Spec

\* A log reader meets no discontinuity and passes on a prefix of the
\* crash-free log, the logs of cancels and of repeated orders included,
\* however often the engine crashed between or inside its stores, replayed
\* messages and stored their logs again.
THEOREM EngineReaderConsistent == Spec => []ReaderConsistent
<1>1. SoundInv => ReaderConsistent
  <2> SUFFICES ASSUME SoundInv, ~ unsound
               PROVE  ~ Reader(logTopic).fatal /\ IsPrefix(Reader(logTopic).view, Replay(orderTopic).logs)
    BY DEF ReaderConsistent
  <2>1. Good(Reader(logTopic), AllLogs) /\ AllLogs \in Seq(Logs)
    BY LogTypes DEF SoundInv, ReadsOn
  <2>2. PICK v : v = Reader(logTopic).view  OBVIOUS
  <2>3. PICK n : n = Reader(logTopic).last  OBVIOUS
  <2>4. ~ Reader(logTopic).fatal /\ n \in 0 .. Len(AllLogs) /\ v = SubSeq(AllLogs, 1, n)
    BY <2>1, <2>2, <2>3 DEF Good
  <2>5. Len(v) = n  BY <2>1, <2>4
  <2>6. IsPrefix(v, AllLogs)  BY <2>1, <2>4, <2>5 DEF IsPrefix
  <2> QED  BY <2>2, <2>4, <2>6 DEF AllLogs
<1> QED  BY <1>1, SoundInit, SoundStep, PTL DEF Spec
=============================================================================
