------------------------- MODULE BookReplicaProofs --------------------------
(***************************************************************************)
(* Theorems about module BookReplica, for all orders and any number of    *)
(* logs, repetitions and crashes.                                         *)
(***************************************************************************)
EXTENDS BookReplica, SumProofs
-----------------------------------------------------------------------------
(* The inductive invariant.                                                *)

\* Maps of ids to the sizes left.
Books == UNION {[S -> Positive] : S \in SUBSET Ids}

Entries == [type : {"open", "match", "done"}, id : Ids, size : Nat, seq : Nat]
Changes == [logSeq : Nat, levels : [Sides -> [Prices -> Nat]]]
Engines == [Ids -> [phase : {"new", "open", "done"}, size : Nat]]
Snapshots == [seq : Nat, logOffset : Nat, logSeq : Nat, orders : Books]

ReplicaTypes ==
    /\ topic \in Seq(Entries) /\ written \in Seq(Entries) /\ held \in Seq(Books)
    /\ engine \in Engines
    /\ past \in Seq(Changes) /\ snapshotCh \in Seq(Snapshots)
    /\ orders \in Books

\* A log e takes the engine's book from b to c, and says how.
Tells(b, e, c) ==
    \/ /\ e.type = "open" /\ e.id \notin DOMAIN b /\ e.size \in Positive
       /\ c = SetSize(b, e.id, e.size)
    \/ /\ e.type \in {"match", "done"} /\ e.id \in DOMAIN b /\ e.size \in Positive /\ e.size <= b[e.id]
       /\ c = SetSize(b, e.id, b[e.id] - e.size)
    \/ e.type = "done" /\ e.id \notin DOMAIN b /\ c = b

\* The book after the first n logs.
BookAt(h, n) == IF n = 0 THEN Empty ELSE h[n]

WrittenOK(w, h) ==
    /\ Len(h) = Len(w)
    /\ \A n \in 1 .. Len(w) : w[n].seq = n /\ Tells(BookAt(h, n - 1), w[n], h[n])

\* The topic holds written logs, from the first on, and never skips one.
TopicOK(t, w) ==
    /\ \A k \in 1 .. Len(t) : t[k].seq \in 1 .. Len(w) /\ t[k] = w[t[k].seq]
    /\ \A k \in 1 .. Len(t) : IF k = 1 THEN t[k].seq = 1 ELSE t[k].seq <= t[k - 1].seq + 1
    /\ IF Len(t) = 0 THEN Len(w) = 0 ELSE t[Len(t)].seq = Len(w)

Sized(e) == \A i \in Ids : e[i].phase = "open" <=> e[i].size > 0

EngineOK(e, h) ==
    /\ OnBook(e) = BookAt(h, Len(h))
    /\ Sized(e)

\* The logs after m, up to n, do not change the book.
Silent(h, m, n) == \A k \in m + 1 .. n : BookAt(h, k) = BookAt(h, k - 1)

Aggregate(b) == [s \in Sides |-> [p \in Prices |-> SumFunctionOnSet(b, RestingAt(b, s, p))]]

ChangedAt(l, k) == IF k = 0 THEN 0 ELSE l[k].logSeq

\* The changes that were numbered are those the log makes, one after the
\* other and none left out.
Change(l, h, k) ==
    /\ l[k].logSeq \in 1 .. Len(h) /\ ChangedAt(l, k - 1) < l[k].logSeq
    /\ l[k].levels = Aggregate(h[l[k].logSeq])
    /\ BookAt(h, l[k].logSeq) # BookAt(h, l[k].logSeq - 1)
    /\ Silent(h, ChangedAt(l, k - 1), l[k].logSeq - 1)

PastOK(l, h) == \A k \in 1 .. Len(l) : Change(l, h, k)

\* The n-th change is that of log s.
Numbered(l, n, s) == n \in 0 .. Len(l) /\ ChangedAt(l, n) = s

\* A full snapshot is of the book after the log at its offset.
Faithful(f, t, h, l) ==
    /\ f \in Snapshots /\ f.logOffset < Len(t) /\ t[f.logOffset + 1].seq = f.logSeq
    /\ f.logSeq \in 1 .. Len(h) /\ f.orders = h[f.logSeq]
    /\ Numbered(l, f.seq, f.logSeq)

SnapshotsOK ==
    /\ \A k \in 1 .. Len(snapshotCh) : Faithful(snapshotCh[k], topic, held, past)
    /\ redis # NoSnapshot => Faithful(redis, topic, held, past)

\* While the stream runs, the replica is the book after the last log passed
\* on, and its number that of the last change.
Running ==
    /\ lastSeq \in 0 .. Len(held) /\ readOffset \in 0 .. Len(topic)
    /\ readOffset > 0 => topic[readOffset].seq <= lastSeq
    /\ orders = BookAt(held, lastSeq)
    /\ logOffset \in Nat /\ logSeq \in 0 .. lastSeq
    /\ Numbered(past, seq, logSeq) /\ Silent(held, logSeq, lastSeq)

\* In Restore's loop it is a part of the snapshot.
Restoring ==
    /\ redis # NoSnapshot /\ snapshotCh = << >> /\ unsaved \subseteq DOMAIN redis.orders
    /\ DOMAIN orders = DOMAIN redis.orders \ unsaved /\ \A i \in DOMAIN orders : orders[i] = redis.orders[i]
    /\ seq \in Nat /\ logOffset = 0 /\ logSeq = 0 /\ readOffset = 0 /\ lastSeq = 0

LevelOK(sizes, levels, s, p) ==
    LET there == RestingAt(sizes, s, p)
    IN  IF there = {} THEN p \notin DOMAIN levels
        ELSE p \in DOMAIN levels /\ levels[p] =
             [size |-> SumFunctionOnSet(sizes, there), count |-> Cardinality(there)]

\* The price levels are those of the orders, and there are no others.
DepthsOK(sizes, d) ==
    /\ d = [s \in Sides |-> d[s]]
    /\ \A s \in Sides : DOMAIN d[s] \subseteq Prices /\ \A p \in Prices : LevelOK(sizes, d[s], s, p)

LogInv == WrittenOK(written, held) /\ TopicOK(topic, written) /\ EngineOK(engine, held)

PhaseInv ==
    /\ pc \in {"run", "restore"}
    /\ pc = "run" => unsaved = {} /\ Running
    /\ pc = "restore" => Restoring

ReplicaInv ==
    /\ ReplicaTypes /\ LogInv /\ PastOK(past, held) /\ SnapshotsOK
    /\ DepthsOK(orders, depths) /\ PhaseInv
-----------------------------------------------------------------------------
(* Maps of sizes and price levels.                                         *)

LEMMA Constants ==
    /\ IsFiniteSet(Ids)
    /\ \A i \in Ids : /\ Order[i].side \in Sides /\ Order[i].price \in Nat /\ Order[i].price \in Prices
                      /\ Order[i].size \in Nat /\ Order[i].size > 0
  BY BookReplicaAssumption DEF Prices

LEMMA BooksDef ==
    ASSUME NEW b
    PROVE  b \in Books <=> /\ DOMAIN b \subseteq Ids /\ b = [i \in DOMAIN b |-> b[i]]
                           /\ \A i \in DOMAIN b : b[i] \in Nat /\ b[i] > 0
<1>1. ASSUME b \in Books
      PROVE  /\ DOMAIN b \subseteq Ids /\ b = [i \in DOMAIN b |-> b[i]]
             /\ \A i \in DOMAIN b : b[i] \in Nat /\ b[i] > 0
  <2>1. PICK S \in SUBSET Ids : b \in [S -> Positive]  BY <1>1 DEF Books
  <2> QED  BY <2>1 DEF Positive
<1>2. ASSUME DOMAIN b \subseteq Ids, b = [i \in DOMAIN b |-> b[i]],
             \A i \in DOMAIN b : b[i] \in Nat /\ b[i] > 0
      PROVE  b \in Books
  <2>1. \A i \in DOMAIN b : b[i] \in Positive  BY <1>2 DEF Positive
  <2>2. b \in [DOMAIN b -> Positive]  BY <1>2, <2>1
  <2>3. DOMAIN b \in SUBSET Ids  BY <1>2
  <2> QED  BY <2>2, <2>3 DEF Books
<1> QED  BY <1>1, <1>2

LEMMA EmptyBook == Empty \in Books /\ DOMAIN Empty = {}
<1>1. DOMAIN Empty = {} /\ Empty = [i \in DOMAIN Empty |-> Empty[i]]  BY DEF Empty
<1> QED  BY <1>1, BooksDef

\* c is b with the size of i set to n, and zero removes the order.
IsSet(c, b, i, n) ==
    /\ c \in Books /\ DOMAIN c = IF n = 0 THEN DOMAIN b \ {i} ELSE DOMAIN b \cup {i}
    /\ n > 0 => c[i] = n
    /\ \A j \in DOMAIN b \ {i} : c[j] = b[j]

LEMMA SetSizeIs ==
    ASSUME NEW b \in Books, NEW i \in Ids, NEW n \in Nat
    PROVE  IsSet(SetSize(b, i, n), b, i, n)
<1>1. DOMAIN b \subseteq Ids /\ \A j \in DOMAIN b : b[j] \in Nat /\ b[j] > 0  BY BooksDef
<1>2. DOMAIN SetSize(b, i, n) = IF n = 0 THEN DOMAIN b \ {i} ELSE DOMAIN b \cup {i}
  BY DEF SetSize, With, Without
<1>3. n > 0 => SetSize(b, i, n)[i] = n  BY DEF SetSize, With
<1>4. \A j \in DOMAIN b \ {i} : SetSize(b, i, n)[j] = b[j]  BY DEF SetSize, With, Without
<1>5. SetSize(b, i, n) = [j \in DOMAIN SetSize(b, i, n) |-> SetSize(b, i, n)[j]]
  BY DEF SetSize, With, Without
<1>6. DOMAIN SetSize(b, i, n) \subseteq Ids  BY <1>1, <1>2
<1>7. \A j \in DOMAIN SetSize(b, i, n) : SetSize(b, i, n)[j] \in Nat /\ SetSize(b, i, n)[j] > 0
  BY <1>1, <1>2, <1>3, <1>4
<1>8. SetSize(b, i, n) \in Books  BY <1>5, <1>6, <1>7, BooksDef
<1> QED  BY <1>2, <1>3, <1>4, <1>8 DEF IsSet

\* Two maps of sizes are the same when they have the same orders and sizes.
LEMMA SameBook ==
    ASSUME NEW b \in Books, NEW c \in Books, DOMAIN b = DOMAIN c, \A i \in DOMAIN b : b[i] = c[i]
    PROVE  b = c
<1>1. b = [i \in DOMAIN b |-> b[i]] /\ c = [i \in DOMAIN c |-> c[i]]  BY BooksDef
<1> QED  BY <1>1

LEMMA RestingIs ==
    ASSUME NEW b \in Books, NEW s, NEW p
    PROVE  /\ RestingAt(b, s, p) \subseteq DOMAIN b /\ IsFiniteSet(RestingAt(b, s, p))
           /\ \A x \in RestingAt(b, s, p) : b[x] \in Nat /\ b[x] > 0
           /\ SumFunctionOnSet(b, RestingAt(b, s, p)) \in Nat
           /\ SumFunctionOnSet(b, RestingAt(b, s, p)) = 0 <=> RestingAt(b, s, p) = {}
<1>1. RestingAt(b, s, p) \subseteq DOMAIN b  BY DEF RestingAt
<1>2. DOMAIN b \subseteq Ids /\ \A j \in DOMAIN b : b[j] \in Nat /\ b[j] > 0  BY BooksDef
<1>3. IsFiniteSet(RestingAt(b, s, p))  BY <1>1, <1>2, Constants, FS_Subset
<1>4. \A x \in RestingAt(b, s, p) : b[x] \in Nat /\ b[x] > 0  BY <1>1, <1>2
<1>5. SumFunctionOnSet(b, RestingAt(b, s, p)) \in Nat  BY <1>3, <1>4, SumNat
<1>6. ASSUME NEW x \in RestingAt(b, s, p) PROVE SumFunctionOnSet(b, RestingAt(b, s, p)) # 0
  <2>1. b[x] <= SumFunctionOnSet(b, RestingAt(b, s, p))  BY <1>3, <1>4, SumTerm
  <2> QED  BY <2>1, <1>4, <1>5
<1>7. RestingAt(b, s, p) = {} => SumFunctionOnSet(b, RestingAt(b, s, p)) = 0  BY SumEmpty
<1> QED  BY <1>1, <1>3, <1>4, <1>5, <1>6, <1>7

\* What an order adds to its level.
LEMMA OneOrder ==
    ASSUME NEW b \in Books, NEW i \in Ids, NEW s, NEW p, s = Order[i].side, p = Order[i].price,
           NEW R, R = RestingAt(b, s, p) \ {i}
    PROVE  /\ IsFiniteSet(R) /\ SumFunctionOnSet(b, R) \in Nat /\ Cardinality(R) \in Nat
           /\ SumFunctionOnSet(b, RestingAt(b, s, p)) = SizeIn(b, i) + SumFunctionOnSet(b, R)
           /\ Cardinality(RestingAt(b, s, p)) = Cardinality(R) + (IF i \in DOMAIN b THEN 1 ELSE 0)
<1>1. PICK T : T = RestingAt(b, s, p)  OBVIOUS
<1>2. IsFiniteSet(T) /\ \A x \in T : b[x] \in Nat /\ b[x] \in Int  BY <1>1, RestingIs
<1>3. IsFiniteSet(R)  BY <1>1, <1>2, FS_Subset
<1>4. \A x \in R : b[x] \in Nat  BY <1>1, <1>2
<1>5. SumFunctionOnSet(b, R) \in Nat  BY <1>3, <1>4, SumNat
<1>6. Cardinality(R) \in Nat  BY <1>3, FS_CardinalityType
<1>7. CASE i \in DOMAIN b
  <2>1. i \in T  BY <1>1, <1>7 DEF RestingAt
  <2>2. R = T \ {i}  BY <1>1
  <2>3. SumFunctionOnSet(b, T) = b[i] + SumFunctionOnSet(b, R)  BY <1>2, <2>1, <2>2, SumRemove
  <2>4. Cardinality(R) = Cardinality(T) - 1  BY <1>2, <2>1, <2>2, FS_RemoveElement
  <2>5. Cardinality(T) \in Nat  BY <1>2, FS_CardinalityType
  <2>6. SizeIn(b, i) = b[i]  BY <1>7 DEF SizeIn
  <2> QED  BY <1>1, <1>3, <1>5, <1>6, <1>7, <2>3, <2>4, <2>5, <2>6
<1>8. CASE i \notin DOMAIN b
  <2>1. i \notin T  BY <1>1, <1>8 DEF RestingAt
  <2>2. R = T  BY <1>1, <2>1
  <2>3. SizeIn(b, i) = 0  BY <1>8 DEF SizeIn
  <2> QED  BY <1>1, <1>3, <1>5, <1>6, <1>8, <2>2, <2>3
<1> QED  BY <1>7, <1>8

\* A level as saveOrder finds it.
Level(b, s, p) ==
    [size |-> SumFunctionOnSet(b, RestingAt(b, s, p)), count |-> Cardinality(RestingAt(b, s, p))]

LEMMA LevelFound ==
    ASSUME NEW b, NEW levels, NEW s, NEW p, LevelOK(b, levels, s, p)
    PROVE  LevelAt(levels, p) = Level(b, s, p)
<1>1. CASE RestingAt(b, s, p) = {}
  <2>1. SumFunctionOnSet(b, RestingAt(b, s, p)) = 0  BY <1>1, SumEmpty
  <2>2. Cardinality(RestingAt(b, s, p)) = 0  BY <1>1, FS_EmptySet
  <2> QED  BY <1>1, <2>1, <2>2 DEF LevelOK, LevelAt, NoLevel, Level
<1>2. CASE RestingAt(b, s, p) # {}  BY <1>2 DEF LevelOK, LevelAt, Level
<1> QED  BY <1>1, <1>2

\* The order's level after saveOrder.
LEMMA LevelSaved ==
    ASSUME NEW b \in Books, NEW i \in Ids, NEW n \in Nat, i \in DOMAIN b \/ n > 0,
           NEW s, NEW p, s = Order[i].side, p = Order[i].price,
           NEW c, c = SetSize(b, i, n)
    PROVE  LevelAfter(Level(b, s, p), SizeIn(b, i), n) = Level(c, s, p)
<1>0. IsSet(c, b, i, n)  BY SetSizeIs
<1>1. /\ c \in Books /\ DOMAIN c = IF n = 0 THEN DOMAIN b \ {i} ELSE DOMAIN b \cup {i}
      /\ n > 0 => c[i] = n
      /\ \A j \in DOMAIN b \ {i} : c[j] = b[j]
  BY <1>0 DEF IsSet
<1>2. PICK R : R = RestingAt(b, s, p) \ {i}  OBVIOUS
<1>3. R = RestingAt(c, s, p) \ {i}  BY <1>1, <1>2 DEF RestingAt
<1>4. /\ IsFiniteSet(R) /\ SumFunctionOnSet(b, R) \in Nat /\ Cardinality(R) \in Nat
      /\ SumFunctionOnSet(b, RestingAt(b, s, p)) = SizeIn(b, i) + SumFunctionOnSet(b, R)
      /\ Cardinality(RestingAt(b, s, p)) = Cardinality(R) + (IF i \in DOMAIN b THEN 1 ELSE 0)
  BY <1>2, OneOrder
<1>5. /\ SumFunctionOnSet(c, RestingAt(c, s, p)) = SizeIn(c, i) + SumFunctionOnSet(c, R)
      /\ Cardinality(RestingAt(c, s, p)) = Cardinality(R) + (IF i \in DOMAIN c THEN 1 ELSE 0)
  BY <1>1, <1>3, OneOrder
<1>6. \A x \in R : c[x] = b[x]  BY <1>1, <1>2 DEF RestingAt
<1>7. SumFunctionOnSet(c, R) = SumFunctionOnSet(b, R)  BY <1>4, <1>6, SumAgree
<1>8. SizeIn(c, i) = n  BY <1>1 DEF SizeIn
<1>9. SizeIn(b, i) \in Nat /\ (SizeIn(b, i) = 0 <=> i \notin DOMAIN b)  BY BooksDef DEF SizeIn
<1>10. n = 0 <=> i \notin DOMAIN c  BY <1>1
<1>11. PICK A, B, C, D, G, K, O :
         /\ A = SumFunctionOnSet(b, RestingAt(b, s, p)) /\ B = SumFunctionOnSet(c, RestingAt(c, s, p))
         /\ C = Cardinality(RestingAt(b, s, p)) /\ D = Cardinality(RestingAt(c, s, p))
         /\ G = SumFunctionOnSet(b, R) /\ K = Cardinality(R) /\ O = SizeIn(b, i)
  OBVIOUS
<1>12. A = O + G /\ B = n + G /\ G \in Nat /\ O \in Nat
  BY <1>4, <1>5, <1>7, <1>8, <1>9, <1>11
<1>13. C = K + (IF O = 0 THEN 0 ELSE 1) /\ D = K + (IF n = 0 THEN 0 ELSE 1) /\ K \in Nat
  BY <1>4, <1>5, <1>9, <1>10, <1>11
<1>14. B = A + n - O  BY <1>12
<1>15. D = C + (IF O = 0 THEN 1 ELSE 0) - (IF n = 0 THEN 1 ELSE 0)  BY <1>13
<1>16. Level(b, s, p) = [size |-> A, count |-> C] /\ Level(c, s, p) = [size |-> B, count |-> D]
  BY <1>11 DEF Level
<1>17. LevelAfter([size |-> A, count |-> C], O, n) = [size |-> B, count |-> D]
  BY <1>14, <1>15 DEF LevelAfter
<1> QED  BY <1>11, <1>16, <1>17

\* Another level does not change.
LEMMA LevelKept ==
    ASSUME NEW b \in Books, NEW i \in Ids, NEW n \in Nat, NEW s, NEW p,
           ~ (s = Order[i].side /\ p = Order[i].price), NEW c, c = SetSize(b, i, n)
    PROVE  /\ RestingAt(c, s, p) = RestingAt(b, s, p)
           /\ SumFunctionOnSet(c, RestingAt(c, s, p)) = SumFunctionOnSet(b, RestingAt(b, s, p))
<1>0. IsSet(c, b, i, n)  BY SetSizeIs
<1>1. /\ DOMAIN c = IF n = 0 THEN DOMAIN b \ {i} ELSE DOMAIN b \cup {i}
      /\ \A j \in DOMAIN b \ {i} : c[j] = b[j]
  BY <1>0 DEF IsSet
<1>2. RestingAt(c, s, p) = RestingAt(b, s, p)  BY <1>1 DEF RestingAt
<1>3. \A x \in RestingAt(b, s, p) : b[x] = c[x]  BY <1>1 DEF RestingAt
<1>4. IsFiniteSet(RestingAt(b, s, p))  BY RestingIs
<1>5. SumFunctionOnSet(b, RestingAt(b, s, p)) = SumFunctionOnSet(c, RestingAt(b, s, p))
  BY <1>3, <1>4, SumAgree
<1> QED  BY <1>2, <1>5

\* saveOrder keeps the price levels those of the orders.
LEMMA SaveKeepsLevels ==
    ASSUME NEW b \in Books, NEW d, DepthsOK(b, d), NEW i \in Ids, NEW n \in Nat, i \in DOMAIN b \/ n > 0
    PROVE  DepthsOK(SetSize(b, i, n), SetLevel(d, i, SizeIn(b, i), n))
<1>1. PICK s, p, c : s = Order[i].side /\ p = Order[i].price /\ c = SetSize(b, i, n)  OBVIOUS
<1>2. s \in Sides /\ p \in Prices  BY <1>1, Constants
<1>3. c \in Books  BY <1>1, SetSizeIs DEF IsSet
<1>4. PICK new : new = PutLevel(d[s], p, LevelAfter(LevelAt(d[s], p), SizeIn(b, i), n))  OBVIOUS
<1>5. SetLevel(d, i, SizeIn(b, i), n) = [d EXCEPT ![s] = new]  BY <1>1, <1>4 DEF SetLevel
<1>6. PICK e : e = SetLevel(d, i, SizeIn(b, i), n)  OBVIOUS
<1>7. DOMAIN d = Sides  BY DEF DepthsOK
<1>8. /\ e = [t \in Sides |-> e[t]] /\ e[s] = new
      /\ \A t \in Sides : t # s => e[t] = d[t]
  BY <1>2, <1>5, <1>6, <1>7
<1>9. LevelAt(d[s], p) = Level(b, s, p)
  <2>1. LevelOK(b, d[s], s, p)  BY <1>2 DEF DepthsOK
  <2> QED  BY <2>1, LevelFound
<1>10. LevelAfter(Level(b, s, p), SizeIn(b, i), n) = Level(c, s, p)  BY <1>1, LevelSaved
<1>11. new = PutLevel(d[s], p, Level(c, s, p))  BY <1>4, <1>9, <1>10
<1>12. Level(c, s, p).size = 0 <=> RestingAt(c, s, p) = {}
  <2>1. SumFunctionOnSet(c, RestingAt(c, s, p)) = 0 <=> RestingAt(c, s, p) = {}  BY <1>3, RestingIs
  <2> QED  BY <2>1 DEF Level
<1>13. DOMAIN d[s] \subseteq Prices  BY <1>2 DEF DepthsOK
<1>14. DOMAIN new \subseteq Prices  BY <1>2, <1>11, <1>13 DEF PutLevel, With, Without
<1>15. IF RestingAt(c, s, p) = {} THEN p \notin DOMAIN new
       ELSE p \in DOMAIN new /\ new[p] = Level(c, s, p)
  BY <1>11, <1>12 DEF PutLevel, With, Without
<1>16. LevelOK(c, new, s, p)  BY <1>15 DEF LevelOK, Level
<1>17. \A q : q # p => (q \in DOMAIN new <=> q \in DOMAIN d[s]) /\ (q \in DOMAIN d[s] => new[q] = d[s][q])
  BY <1>11 DEF PutLevel, With, Without
<1>18. ASSUME NEW t \in Sides, NEW q \in Prices PROVE LevelOK(c, e[t], t, q)
  <2>1. CASE t = s /\ q = p  BY <2>1, <1>8, <1>16
  <2>2. CASE t # s \/ q # p
    <3>1. LevelOK(b, d[t], t, q)  BY DEF DepthsOK
    <3>2. /\ RestingAt(c, t, q) = RestingAt(b, t, q)
          /\ SumFunctionOnSet(c, RestingAt(c, t, q)) = SumFunctionOnSet(b, RestingAt(b, t, q))
      <4>1. ~ (t = Order[i].side /\ q = Order[i].price)  BY <1>1, <2>2
      <4> QED  BY <1>1, <4>1, LevelKept
    <3>3. (q \in DOMAIN e[t] <=> q \in DOMAIN d[t]) /\ (q \in DOMAIN d[t] => e[t][q] = d[t][q])
      BY <2>2, <1>8, <1>17
    <3> QED  BY <3>1, <3>2, <3>3 DEF LevelOK
  <2> QED  BY <2>1, <2>2
<1>19. \A t \in Sides : DOMAIN e[t] \subseteq Prices  BY <1>8, <1>14 DEF DepthsOK
<1>20. DepthsOK(c, e)  BY <1>8, <1>18, <1>19 DEF DepthsOK
<1> QED  BY <1>1, <1>6, <1>20

\* Clients see the sums of the orders' sizes.
LEMMA SeenLevels ==
    ASSUME NEW b \in Books, NEW d, DepthsOK(b, d)
    PROVE  LevelsOf(d) = Aggregate(b) /\ Aggregate(b) \in [Sides -> [Prices -> Nat]]
<1>1. ASSUME NEW s \in Sides, NEW p \in Prices
      PROVE  (IF p \in DOMAIN d[s] THEN d[s][p].size ELSE 0) = SumFunctionOnSet(b, RestingAt(b, s, p))
  <2>1. LevelOK(b, d[s], s, p)  BY DEF DepthsOK
  <2>2. RestingAt(b, s, p) = {} => SumFunctionOnSet(b, RestingAt(b, s, p)) = 0  BY SumEmpty
  <2> QED  BY <2>1, <2>2 DEF LevelOK
<1>2. LevelsOf(d) = Aggregate(b)  BY <1>1 DEF LevelsOf, Aggregate
<1>3. \A s \in Sides, p \in Prices : SumFunctionOnSet(b, RestingAt(b, s, p)) \in Nat  BY RestingIs
<1> QED  BY <1>2, <1>3 DEF Aggregate

LEMMA NoDepths == DepthsOK(Empty, NoLevels)
<1>1. DOMAIN Empty = {}  BY EmptyBook
<1>2. \A s, p : RestingAt(Empty, s, p) = {}  BY <1>1 DEF RestingAt
<1>3. NoLevels = [s \in Sides |-> NoLevels[s]] /\ \A s \in Sides : NoLevels[s] = Empty  BY DEF NoLevels
<1>4. \A s \in Sides : DOMAIN NoLevels[s] \subseteq Prices  BY <1>1, <1>3
<1>5. \A s \in Sides : \A p \in Prices : LevelOK(Empty, NoLevels[s], s, p)  BY <1>1, <1>2, <1>3 DEF LevelOK
<1> QED  BY <1>3, <1>4, <1>5 DEF DepthsOK
-----------------------------------------------------------------------------
(* Logs, books and changes are only added.                                 *)

Grows(a, b) == Len(a) \in Nat /\ Len(b) \in Nat /\ Len(a) <= Len(b) /\ \A k \in 1 .. Len(a) : b[k] = a[k]

LEMMA Joined ==
    ASSUME NEW S, NEW a \in Seq(S), NEW b \in Seq(S)
    PROVE  /\ a \o b \in Seq(S) /\ Len(a \o b) = Len(a) + Len(b) /\ Grows(a, a \o b)
           /\ \A k \in 1 .. Len(b) : (a \o b)[Len(a) + k] = b[k]
           /\ \A k \in 1 .. Len(a) + Len(b) : k > Len(a) => (a \o b)[k] = b[k - Len(a)]
<1>1. Len(a) \in Nat /\ Len(b) \in Nat  OBVIOUS
<1>2. a \o b \in Seq(S) /\ Len(a \o b) = Len(a) + Len(b)  OBVIOUS
<1>3. \A k \in 1 .. Len(a) : (a \o b)[k] = a[k]  BY <1>1
<1>4. \A k \in 1 .. Len(a) + Len(b) : k > Len(a) => (a \o b)[k] = b[k - Len(a)]  BY <1>1
<1>5. \A k \in 1 .. Len(b) : (a \o b)[Len(a) + k] = b[k]  BY <1>1, <1>4
<1> QED  BY <1>1, <1>2, <1>3, <1>4, <1>5 DEF Grows

LEMMA Appended ==
    ASSUME NEW S, NEW a \in Seq(S), NEW x \in S
    PROVE  /\ Append(a, x) \in Seq(S) /\ Len(Append(a, x)) = Len(a) + 1 /\ Grows(a, Append(a, x))
           /\ Append(a, x)[Len(a) + 1] = x
<1>1. Len(a) \in Nat  OBVIOUS
<1>2. Append(a, x) \in Seq(S) /\ Len(Append(a, x)) = Len(a) + 1  OBVIOUS
<1>3. \A k \in 1 .. Len(a) : Append(a, x)[k] = a[k]  BY <1>1
<1>4. Append(a, x)[Len(a) + 1] = x  BY <1>1
<1> QED  BY <1>1, <1>2, <1>3, <1>4 DEF Grows

LEMMA Unchanged == ASSUME NEW S, NEW a \in Seq(S) PROVE Grows(a, a)
<1>1. Len(a) \in Nat  OBVIOUS
<1> QED  BY <1>1 DEF Grows

LEMMA BookKept ==
    ASSUME NEW h, NEW g, Grows(h, g), NEW k \in 0 .. Len(h)
    PROVE  BookAt(g, k) = BookAt(h, k)
<1>1. Len(h) \in Nat  BY DEF Grows
<1>2. CASE k = 0  BY <1>2 DEF BookAt
<1>3. CASE k # 0
  <2>1. k \in 1 .. Len(h)  BY <1>1, <1>3
  <2> QED  BY <1>3, <2>1 DEF BookAt, Grows
<1> QED  BY <1>2, <1>3

LEMMA SilentKept ==
    ASSUME NEW h, NEW g, Grows(h, g), NEW m \in Nat, NEW n \in 0 .. Len(h), Silent(h, m, n)
    PROVE  Silent(g, m, n)
<1>1. Len(h) \in Nat  BY DEF Grows
<1>2. ASSUME NEW k \in m + 1 .. n PROVE BookAt(g, k) = BookAt(g, k - 1)
  <2>1. k \in 0 .. Len(h) /\ k - 1 \in 0 .. Len(h)  BY <1>1
  <2>2. BookAt(g, k) = BookAt(h, k) /\ BookAt(g, k - 1) = BookAt(h, k - 1)  BY <2>1, BookKept
  <2>3. BookAt(h, k) = BookAt(h, k - 1)  BY DEF Silent
  <2> QED  BY <2>2, <2>3
<1> QED  BY <1>2 DEF Silent

LEMMA ChangedNat ==
    ASSUME NEW l \in Seq(Changes), NEW k \in 0 .. Len(l)
    PROVE  ChangedAt(l, k) \in Nat
<1>1. k # 0 => k \in 1 .. Len(l)  OBVIOUS
<1>2. \A j \in 1 .. Len(l) : l[j] \in Changes  OBVIOUS
<1> QED  BY <1>1, <1>2 DEF ChangedAt, Changes

LEMMA PastKept ==
    ASSUME NEW l \in Seq(Changes), NEW h, NEW g, Grows(h, g), PastOK(l, h)
    PROVE  PastOK(l, g)
<1>1. ASSUME NEW k \in 1 .. Len(l) PROVE Change(l, g, k)
  <2>1. Change(l, h, k)  BY DEF PastOK
  <2>2. PICK n : n = l[k].logSeq  OBVIOUS
  <2>3. n \in 1 .. Len(h) /\ Len(h) \in Nat /\ Len(g) \in Nat /\ Len(h) <= Len(g)
    BY <2>1, <2>2 DEF Change, Grows
  <2>4. n \in 1 .. Len(g) /\ n \in 0 .. Len(h) /\ n - 1 \in 0 .. Len(h)  BY <2>3
  <2>5. g[n] = h[n]  BY <2>3 DEF Grows
  <2>6. BookAt(g, n) = BookAt(h, n) /\ BookAt(g, n - 1) = BookAt(h, n - 1)  BY <2>4, BookKept
  <2>7. Silent(g, ChangedAt(l, k - 1), n - 1)
    <3>1. ChangedAt(l, k - 1) \in Nat
      <4>1. k - 1 \in 0 .. Len(l)  OBVIOUS
      <4> QED  BY <4>1, ChangedNat
    <3>2. Silent(h, ChangedAt(l, k - 1), n - 1)  BY <2>1, <2>2 DEF Change
    <3> QED  BY <2>4, <3>1, <3>2, SilentKept
  <2> QED  BY <2>1, <2>2, <2>4, <2>5, <2>6, <2>7 DEF Change
<1> QED  BY <1>1 DEF PastOK

LEMMA NumberKept ==
    ASSUME NEW l, NEW m, Grows(l, m), NEW n, NEW s, Numbered(l, n, s)
    PROVE  Numbered(m, n, s)
<1>1. n \in 0 .. Len(m)  BY DEF Numbered, Grows
<1>2. CASE n = 0  BY <1>1, <1>2 DEF Numbered, ChangedAt
<1>3. CASE n # 0
  <2>1. n \in 1 .. Len(l)  BY <1>3 DEF Numbered, Grows
  <2>2. m[n] = l[n]  BY <2>1 DEF Grows
  <2> QED  BY <1>1, <1>3, <2>2 DEF Numbered, ChangedAt
<1> QED  BY <1>2, <1>3

LEMMA FaithfulKept ==
    ASSUME NEW f, NEW t, NEW h, NEW l, Faithful(f, t, h, l),
           NEW u, NEW g, NEW m, Grows(t, u), Grows(h, g), Grows(l, m)
    PROVE  Faithful(f, u, g, m)
<1>1. f.logOffset \in Nat /\ f.logOffset < Len(t)  BY DEF Faithful, Snapshots
<1>2. f.logOffset + 1 \in 1 .. Len(t) /\ f.logOffset < Len(u)  BY <1>1 DEF Grows
<1>3. u[f.logOffset + 1] = t[f.logOffset + 1]  BY <1>2 DEF Grows
<1>4. f.logSeq \in 1 .. Len(h)  BY DEF Faithful
<1>5. f.logSeq \in 1 .. Len(g) /\ g[f.logSeq] = h[f.logSeq]  BY <1>4 DEF Grows
<1>6. Numbered(m, f.seq, f.logSeq)  BY NumberKept DEF Faithful
<1> QED  BY <1>2, <1>3, <1>5, <1>6 DEF Faithful

\* What is there stays as it was when logs and changes are added.
LEMMA SnapshotsKept ==
    ASSUME SnapshotsOK, Grows(topic, topic'), Grows(held, held'), Grows(past, past'),
           UNCHANGED <<snapshotCh, redis>>
    PROVE  SnapshotsOK'
<1>1. \A k \in 1 .. Len(snapshotCh) : Faithful(snapshotCh[k], topic', held', past')
  BY FaithfulKept DEF SnapshotsOK
<1>2. redis # NoSnapshot => Faithful(redis, topic', held', past')  BY FaithfulKept DEF SnapshotsOK
<1> QED  BY <1>1, <1>2 DEF SnapshotsOK

LEMMA RunningKept ==
    ASSUME Running, Grows(topic, topic'), Grows(held, held'),
           UNCHANGED <<book, reader, past>>
    PROVE  Running'
<1>0. UNCHANGED <<orders, seq, logOffset, logSeq, readOffset, lastSeq, past>>  BY DEF book, reader
<1>1. lastSeq \in 0 .. Len(held) /\ Len(held) \in Nat /\ Len(held') \in Nat /\ Len(held) <= Len(held')
  BY DEF Running, Grows
<1>2. readOffset \in 0 .. Len(topic) /\ Len(topic) \in Nat /\ Len(topic') \in Nat /\ Len(topic) <= Len(topic')
  BY DEF Running, Grows
<1>3. lastSeq \in 0 .. Len(held') /\ readOffset \in 0 .. Len(topic')  BY <1>1, <1>2
<1>4. BookAt(held', lastSeq) = BookAt(held, lastSeq)  BY <1>1, BookKept
<1>5. logSeq \in Nat  BY <1>1 DEF Running
<1>6. Silent(held', logSeq, lastSeq)  BY <1>1, <1>5, SilentKept DEF Running
<1>7. readOffset > 0 => topic'[readOffset].seq <= lastSeq
  <2>1. readOffset > 0 => readOffset \in 1 .. Len(topic)  BY <1>2
  <2>2. readOffset > 0 => topic'[readOffset] = topic[readOffset]  BY <2>1 DEF Grows
  <2> QED  BY <2>2 DEF Running
<1> QED  BY <1>0, <1>3, <1>4, <1>6, <1>7 DEF Running
-----------------------------------------------------------------------------
(* The engine's steps.                                                     *)

\* The logs new take the engine from book b through the books hs.
Follow(b, new, hs, n) ==
    \A k \in 1 .. Len(new) :
        new[k].seq = n + k /\ Tells(IF k = 1 THEN b ELSE hs[k - 1], new[k], hs[k])

LEMMA WrittenGrows ==
    ASSUME NEW w \in Seq(Entries), NEW h \in Seq(Books), WrittenOK(w, h),
           NEW new \in Seq(Entries), NEW hs \in Seq(Books), Len(hs) = Len(new),
           Follow(BookAt(h, Len(h)), new, hs, Len(w))
    PROVE  WrittenOK(w \o new, h \o hs)
<1>1. PICK v : v = w \o new  OBVIOUS
<1>2. PICK g : g = h \o hs  OBVIOUS
<1>3. /\ Len(v) = Len(w) + Len(new) /\ Grows(w, v)
      /\ \A k \in 1 .. Len(w) + Len(new) : k > Len(w) => v[k] = new[k - Len(w)]
  BY <1>1, Joined
<1>4. /\ Len(g) = Len(h) + Len(hs) /\ Grows(h, g)
      /\ \A k \in 1 .. Len(h) + Len(hs) : k > Len(h) => g[k] = hs[k - Len(h)]
  BY <1>2, Joined
<1>5. Len(h) = Len(w) /\ Len(w) \in Nat /\ Len(new) \in Nat  BY DEF WrittenOK
<1>6. ASSUME NEW n \in 1 .. Len(v) PROVE v[n].seq = n /\ Tells(BookAt(g, n - 1), v[n], g[n])
  <2>1. CASE n <= Len(w)
    <3>1. n \in 1 .. Len(w) /\ n \in 1 .. Len(h) /\ n - 1 \in 0 .. Len(h)  BY <2>1, <1>5
    <3>2. v[n] = w[n] /\ g[n] = h[n]  BY <3>1, <1>3, <1>4 DEF Grows
    <3>3. BookAt(g, n - 1) = BookAt(h, n - 1)  BY <3>1, <1>4, BookKept
    <3> QED  BY <3>1, <3>2, <3>3 DEF WrittenOK
  <2>2. CASE n > Len(w)
    <3>1. PICK k : k = n - Len(w)  OBVIOUS
    <3>2. k \in 1 .. Len(new) /\ n = Len(w) + k  BY <3>1, <2>2, <1>3, <1>5
    <3>3. v[n] = new[k] /\ g[n] = hs[k]  BY <3>1, <3>2, <2>2, <1>3, <1>4, <1>5
    <3>4. new[k].seq = Len(w) + k /\ Tells(IF k = 1 THEN BookAt(h, Len(h)) ELSE hs[k - 1], new[k], hs[k])
      BY <3>2 DEF Follow
    <3>5. CASE k = 1
      <4>1. n - 1 = Len(h) /\ Len(h) \in 0 .. Len(h)  BY <3>2, <3>5, <1>5
      <4>2. BookAt(g, n - 1) = BookAt(h, Len(h))  BY <4>1, <1>4, BookKept
      <4> QED  BY <3>2, <3>3, <3>4, <3>5, <4>2
    <3>6. CASE k # 1
      <4>1. n - 1 \in 1 .. Len(h) + Len(hs) /\ n - 1 > Len(h) /\ n - 1 - Len(h) = k - 1  BY <3>2, <3>6, <1>5
      <4>2. g[n - 1] = hs[k - 1]  BY <4>1, <1>4
      <4>3. BookAt(g, n - 1) = hs[k - 1]  BY <4>1, <4>2, <1>5 DEF BookAt
      <4> QED  BY <3>2, <3>3, <3>4, <3>6, <4>3
    <3> QED  BY <3>5, <3>6
  <2> QED  BY <2>1, <2>2, <1>3, <1>5
<1>7. Len(g) = Len(v)  BY <1>3, <1>4, <1>5
<1> QED  BY <1>1, <1>2, <1>6, <1>7 DEF WrittenOK

\* New logs, or the last ones again, at the end of the topic.
LEMMA TopicGrows ==
    ASSUME NEW t \in Seq(Entries), NEW w \in Seq(Entries), TopicOK(t, w), NEW v \in Seq(Entries), Grows(w, v),
           NEW new \in Seq(Entries), Len(new) > 0,
           NEW first \in Nat, first > 0, first <= Len(w) + 1, Len(v) = first + Len(new) - 1,
           \A k \in 1 .. Len(new) : new[k].seq = first + k - 1 /\ new[k] = v[first + k - 1]
    PROVE  TopicOK(t \o new, v)
<1>1. PICK u : u = t \o new  OBVIOUS
<1>2. /\ Len(u) = Len(t) + Len(new) /\ Grows(t, u)
      /\ \A k \in 1 .. Len(t) + Len(new) : k > Len(t) => u[k] = new[k - Len(t)]
  BY <1>1, Joined
<1>3. Len(t) \in Nat /\ Len(new) \in Nat /\ Len(w) \in Nat /\ Len(v) \in Nat /\ Len(w) <= Len(v)
  BY DEF Grows
<1>4. ASSUME NEW k \in 1 .. Len(u), k <= Len(t) PROVE k \in 1 .. Len(t) /\ u[k] = t[k]
  BY <1>2, <1>4 DEF Grows
<1>5. ASSUME NEW k \in 1 .. Len(u), k > Len(t)
      PROVE  /\ k - Len(t) \in 1 .. Len(new) /\ u[k].seq = first + (k - Len(t)) - 1
             /\ u[k] = v[first + (k - Len(t)) - 1]
  <2>1. k - Len(t) \in 1 .. Len(new)  BY <1>2, <1>3, <1>5
  <2>2. u[k] = new[k - Len(t)]  BY <1>2, <1>5
  <2> QED  BY <2>1, <2>2
<1>6. ASSUME NEW k \in 1 .. Len(u) PROVE u[k].seq \in 1 .. Len(v) /\ u[k] = v[u[k].seq]
  <2>1. CASE k <= Len(t)
    <3>1. t[k].seq \in 1 .. Len(w) /\ t[k] = w[t[k].seq]  BY <1>4, <2>1 DEF TopicOK
    <3>2. w[t[k].seq] = v[t[k].seq]  BY <3>1 DEF Grows
    <3>3. u[k] = t[k]  BY <1>4, <2>1
    <3>4. t[k].seq \in 1 .. Len(v)  BY <1>3, <3>1
    <3> QED  BY <3>1, <3>2, <3>3, <3>4
  <2>2. CASE k > Len(t)
    <3>1. PICK q : q = first + (k - Len(t)) - 1  OBVIOUS
    <3>2. u[k].seq = q /\ u[k] = v[q] /\ q \in 1 .. Len(v)  BY <1>3, <1>5, <2>2, <3>1
    <3> QED  BY <3>2
  <2> QED  BY <2>1, <2>2, <1>2, <1>3
<1>7. ASSUME NEW k \in 1 .. Len(u) PROVE IF k = 1 THEN u[k].seq = 1 ELSE u[k].seq <= u[k - 1].seq + 1
  <2>1. CASE k <= Len(t)
    <3>1. k # 1 => k - 1 \in 1 .. Len(u) /\ k - 1 <= Len(t)  BY <2>1, <1>2, <1>3
    <3>2. u[k] = t[k] /\ (k # 1 => u[k - 1] = t[k - 1])  BY <1>4, <2>1, <3>1
    <3>3. IF k = 1 THEN t[k].seq = 1 ELSE t[k].seq <= t[k - 1].seq + 1  BY <1>4, <2>1 DEF TopicOK
    <3> QED  BY <3>2, <3>3
  <2>2. CASE k = Len(t) + 1
    <3>0. k > Len(t) /\ first + (k - Len(t)) - 1 = first  BY <1>3, <2>2
    <3>1. u[k].seq = first  BY <1>5, <3>0
    <3>2. CASE Len(t) = 0
      <4>1. Len(w) = 0  BY <3>2 DEF TopicOK
      <4> QED  BY <2>2, <3>1, <3>2, <4>1
    <3>3. CASE Len(t) # 0
      <4>1. t[Len(t)].seq = Len(w)  BY <3>3 DEF TopicOK
      <4>2. k - 1 \in 1 .. Len(u) /\ k - 1 <= Len(t) /\ k - 1 = Len(t)  BY <2>2, <3>3, <1>3
      <4>3. u[k - 1].seq = Len(w)  BY <4>1, <4>2, <1>4
      <4> QED  BY <3>1, <4>3, <2>2, <3>3, <1>3
    <3> QED  BY <3>2, <3>3
  <2>3. CASE k > Len(t) + 1
    <3>1. k - 1 \in 1 .. Len(u) /\ k - 1 > Len(t) /\ k > Len(t) /\ k # 1  BY <2>3, <1>2, <1>3
    <3>2. u[k].seq = first + (k - Len(t)) - 1  BY <1>5, <3>1
    <3>3. u[k - 1].seq = first + (k - 1 - Len(t)) - 1  BY <1>5, <3>1
    <3> QED  BY <3>1, <3>2, <3>3, <1>3
  <2>4. k <= Len(t) \/ k = Len(t) + 1 \/ k > Len(t) + 1  BY <1>3
  <2> QED  BY <2>1, <2>2, <2>3, <2>4
<1>8. Len(u) # 0 /\ u[Len(u)].seq = Len(v)
  <2>1. Len(u) \in 1 .. Len(u) /\ Len(u) > Len(t)  BY <1>2, <1>3
  <2>2. u[Len(u)].seq = first + (Len(u) - Len(t)) - 1  BY <2>1, <1>5
  <2> QED  BY <2>1, <2>2, <1>2, <1>3
<1> QED  BY <1>1, <1>6, <1>7, <1>8 DEF TopicOK

\* The engine's book changes by one order.
LEMMA OnBookIs ==
    ASSUME NEW e \in Engines, Sized(e)
    PROVE  /\ OnBook(e) \in Books
           /\ \A i \in Ids : i \in DOMAIN OnBook(e) <=> e[i].phase = "open"
           /\ \A i \in DOMAIN OnBook(e) : OnBook(e)[i] = e[i].size
           /\ DOMAIN OnBook(e) \subseteq Ids
<1>1. DOMAIN OnBook(e) = {j \in Ids : e[j].phase = "open"}  BY DEF OnBook
<1>2. \A i \in DOMAIN OnBook(e) : OnBook(e)[i] = e[i].size  BY DEF OnBook
<1>3. OnBook(e) = [i \in DOMAIN OnBook(e) |-> OnBook(e)[i]]  BY DEF OnBook
<1>4. \A i \in DOMAIN OnBook(e) : OnBook(e)[i] \in Nat /\ OnBook(e)[i] > 0  BY <1>1, <1>2 DEF Engines, Sized
<1>5. DOMAIN OnBook(e) \subseteq Ids  BY <1>1
<1>6. OnBook(e) \in Books  BY <1>3, <1>4, <1>5, BooksDef
<1> QED  BY <1>1, <1>2, <1>5, <1>6

PhaseSet(e, i, phase, n) == [e EXCEPT ![i] = [phase |-> phase, size |-> n]]

LEMMA OnBookSet ==
    ASSUME NEW e \in Engines, Sized(e),
           NEW i \in Ids, NEW phase \in {"open", "done"}, NEW n \in Nat, phase = "open" <=> n > 0,
           NEW f, f = PhaseSet(e, i, phase, n)
    PROVE  /\ f \in Engines /\ Sized(f)
           /\ OnBook(f) = SetSize(OnBook(e), i, n)
<1>1. f \in Engines  BY DEF Engines, PhaseSet
<1>2. f[i].phase = phase /\ f[i].size = n /\ \A j \in Ids : j # i => f[j] = e[j]
  BY DEF Engines, PhaseSet
<1>3. Sized(f)  BY <1>2 DEF Sized
<1>4. PICK b : b = OnBook(e)  OBVIOUS
<1>5. /\ b \in Books /\ \A j \in Ids : j \in DOMAIN b <=> e[j].phase = "open"
      /\ \A j \in DOMAIN b : b[j] = e[j].size
      /\ DOMAIN b \subseteq Ids
  BY <1>4, OnBookIs
<1>6. PICK c : c = OnBook(f)  OBVIOUS
<1>7. /\ c \in Books /\ \A j \in Ids : j \in DOMAIN c <=> f[j].phase = "open"
      /\ \A j \in DOMAIN c : c[j] = f[j].size
      /\ DOMAIN c \subseteq Ids
  BY <1>1, <1>3, <1>6, OnBookIs
<1>8. PICK a : a = SetSize(b, i, n)  OBVIOUS
<1>9a. IsSet(a, b, i, n)  BY <1>5, <1>8, SetSizeIs
<1>9. /\ a \in Books /\ DOMAIN a = IF n = 0 THEN DOMAIN b \ {i} ELSE DOMAIN b \cup {i}
      /\ n > 0 => a[i] = n
      /\ \A j \in DOMAIN b \ {i} : a[j] = b[j]
  BY <1>9a DEF IsSet
<1>10. DOMAIN c = DOMAIN a
  <2>1. \A j \in Ids : j # i => (j \in DOMAIN c <=> j \in DOMAIN b)  BY <1>2, <1>5, <1>7
  <2>2. i \in DOMAIN c <=> n # 0  BY <1>2, <1>7
  <2>3. \A j : j \in DOMAIN c <=> j \in DOMAIN a  BY <1>5, <1>7, <1>9, <2>1, <2>2
  <2> QED  BY <2>3
<1>11. ASSUME NEW j \in DOMAIN c PROVE c[j] = a[j]
  <2>1. CASE j = i  BY <2>1, <1>2, <1>7, <1>9, <1>10
  <2>2. CASE j # i  BY <2>2, <1>2, <1>5, <1>7, <1>9, <1>10
  <2> QED  BY <2>1, <2>2
<1>12. c = a  BY <1>7, <1>9, <1>10, <1>11, SameBook
<1> QED  BY <1>1, <1>3, <1>4, <1>6, <1>8, <1>12

\* The replica does not notice what the engine adds.
LEMMA ReplicaKept ==
    ASSUME ReplicaInv, Grows(topic, topic'), Grows(held, held'),
           UNCHANGED <<book, reader, snapshotCh, redis, restore, past>>
    PROVE  PastOK(past, held)' /\ SnapshotsOK' /\ DepthsOK(orders, depths)' /\ PhaseInv'
<1>0. /\ past \in Seq(Changes) /\ PastOK(past, held) /\ SnapshotsOK /\ DepthsOK(orders, depths)
  BY DEF ReplicaInv, ReplicaTypes
<1>1. past' = past /\ snapshotCh' = snapshotCh /\ redis' = redis /\ orders' = orders /\ depths' = depths
  BY DEF book
<1>2. PastOK(past, held')  BY <1>0, PastKept
<1>3. Grows(past, past')  BY <1>0, <1>1, Unchanged
<1>4. SnapshotsOK'  BY <1>0, <1>1, <1>3, SnapshotsKept
<1>5. pc' = pc /\ unsaved' = unsaved  BY DEF restore
<1>6. Running => Running'  BY RunningKept
<1>7. Restoring => Restoring'  BY <1>1, <1>5 DEF Restoring, book, reader
<1>8. PhaseInv  BY DEF ReplicaInv
<1>9. PhaseInv'  BY <1>5, <1>6, <1>7, <1>8 DEF PhaseInv
<1>10. DepthsOK(orders', depths')  BY <1>0, <1>1
<1> QED  BY <1>1, <1>2, <1>4, <1>9, <1>10

Copies(c, n) == [k \in 1 .. n |-> c]

LEMMA EngineStep ==
    ASSUME ReplicaInv, NEW i \in Ids, NEW phase \in {"open", "done"}, NEW left \in Nat,
           phase = "open" <=> left > 0, NEW new \in Seq(Entries), Len(new) > 0,
           EngineLogs(i, phase, left, new),
           NEW c, c = SetSize(OnBook(engine), i, left), NEW hs, hs = Copies(c, Len(new)),
           Follow(OnBook(engine), new, hs, Len(written))
    PROVE  ReplicaInv'
<1>0. /\ topic \in Seq(Entries) /\ written \in Seq(Entries) /\ held \in Seq(Books)
      /\ engine \in Engines
      /\ WrittenOK(written, held) /\ TopicOK(topic, written)
      /\ OnBook(engine) = BookAt(held, Len(held))
      /\ Sized(engine)
  BY DEF ReplicaInv, ReplicaTypes, LogInv, EngineOK
<1>1. /\ topic' = topic \o new /\ written' = written \o new
      /\ engine' = PhaseSet(engine, i, phase, left)
      /\ held' = held \o Copies(OnBook(engine'), Len(new))
      /\ UNCHANGED <<book, reader, lastFull, snapshotCh, redis, restore, past, crashes>>
  BY DEF EngineLogs, PhaseSet, Copies
<1>2. /\ engine' \in Engines /\ Sized(engine')
      /\ OnBook(engine') = c
  BY <1>0, <1>1, OnBookSet
<1>3. held' = held \o hs  BY <1>1, <1>2
<1>4. c \in Books
  <2>1. OnBook(engine) \in Books  BY <1>0, OnBookIs
  <2> QED  BY <2>1, SetSizeIs DEF IsSet
<1>5. hs \in Seq(Books) /\ Len(hs) = Len(new) /\ Len(new) \in Nat /\ \A n \in 1 .. Len(new) : hs[n] = c
  BY <1>4 DEF Copies
<1>6. WrittenOK(written', held')
  <2>1. Follow(BookAt(held, Len(held)), new, hs, Len(written))  BY <1>0
  <2>2. WrittenOK(written \o new, held \o hs)  BY <1>0, <1>5, <2>1, WrittenGrows
  <2> QED  BY <1>1, <1>3, <2>2
<1>7. /\ written' \in Seq(Entries) /\ Len(written') = Len(written) + Len(new) /\ Grows(written, written')
      /\ \A k \in 1 .. Len(new) : written'[Len(written) + k] = new[k]
  <2>1. /\ written \o new \in Seq(Entries) /\ Len(written \o new) = Len(written) + Len(new)
        /\ Grows(written, written \o new)
        /\ \A k \in 1 .. Len(new) : (written \o new)[Len(written) + k] = new[k]
    BY <1>0, Joined
  <2> QED  BY <1>1, <2>1
<1>8. topic' \in Seq(Entries) /\ Grows(topic, topic')  BY <1>0, <1>1, Joined
<1>9. held' \in Seq(Books) /\ Len(held') = Len(held) + Len(new) /\ Grows(held, held')
      /\ \A k \in 1 .. Len(new) : held'[Len(held) + k] = hs[k]
  <2>1. /\ held \o hs \in Seq(Books) /\ Len(held \o hs) = Len(held) + Len(hs)
        /\ Grows(held, held \o hs)
        /\ \A k \in 1 .. Len(hs) : (held \o hs)[Len(held) + k] = hs[k]
    BY <1>0, <1>5, Joined
  <2> QED  BY <1>3, <1>5, <2>1
<1>10. TopicOK(topic', written')
  <2>1. PICK first : first = Len(written) + 1  OBVIOUS
  <2>2. Len(written) \in Nat  BY <1>0
  <2>3. first \in Nat /\ first > 0 /\ first <= Len(written) + 1 /\ Len(written') = first + Len(new) - 1
    BY <1>5, <1>7, <2>1, <2>2
  <2>4. ASSUME NEW k \in 1 .. Len(new)
        PROVE  new[k].seq = first + k - 1 /\ new[k] = written'[first + k - 1]
    <3>1. first + k - 1 = Len(written) + k  BY <2>1, <2>2
    <3>2. new[k].seq = Len(written) + k  BY DEF Follow
    <3> QED  BY <1>7, <3>1, <3>2
  <2>5. TopicOK(topic \o new, written')  BY <1>0, <1>7, <2>3, <2>4, TopicGrows
  <2> QED  BY <1>1, <2>5
<1>11. EngineOK(engine', held')
  <2>1. PICK n : n = Len(new)  OBVIOUS
  <2>2. n \in 1 .. Len(new) /\ Len(held') = Len(held) + n /\ Len(held) \in Nat  BY <1>0, <1>5, <1>9, <2>1
  <2>3. held'[Len(held) + n] = c  BY <1>5, <1>9, <2>2
  <2>4. BookAt(held', Len(held')) = c  BY <2>2, <2>3 DEF BookAt
  <2> QED  BY <1>2, <2>4 DEF EngineOK
<1>12. LogInv'  BY <1>6, <1>10, <1>11 DEF LogInv
<1>13. PastOK(past, held)' /\ SnapshotsOK' /\ DepthsOK(orders, depths)' /\ PhaseInv'
  BY <1>1, <1>8, <1>9, ReplicaKept
<1>14. ReplicaTypes'
  <2>1. past \in Seq(Changes) /\ snapshotCh \in Seq(Snapshots) /\ orders \in Books
    BY DEF ReplicaInv, ReplicaTypes
  <2>2. past' = past /\ snapshotCh' = snapshotCh /\ orders' = orders  BY <1>1 DEF book
  <2> QED  BY <1>2, <1>7, <1>8, <1>9, <2>1, <2>2 DEF ReplicaTypes
<1> QED  BY <1>12, <1>13, <1>14 DEF ReplicaInv

\* What an engine step may use.
LEMMA EngineHas ==
    ASSUME ReplicaInv, NEW i \in Ids
    PROVE  /\ Len(written) \in Nat /\ engine[i].size \in Nat /\ engine[i].phase \in {"new", "open", "done"}
           /\ OnBook(engine) \in Books
           /\ i \in DOMAIN OnBook(engine) <=> engine[i].phase = "open"
           /\ i \in DOMAIN OnBook(engine) => OnBook(engine)[i] = engine[i].size /\ engine[i].size > 0
           /\ i \notin DOMAIN OnBook(engine) => engine[i].size = 0
<1>1. /\ written \in Seq(Entries) /\ engine \in Engines
      /\ Sized(engine)
  BY DEF ReplicaInv, ReplicaTypes, LogInv, EngineOK
<1>2. /\ OnBook(engine) \in Books
      /\ \A j \in Ids : j \in DOMAIN OnBook(engine) <=> engine[j].phase = "open"
      /\ \A j \in DOMAIN OnBook(engine) : OnBook(engine)[j] = engine[j].size
      /\ DOMAIN OnBook(engine) \subseteq Ids
  BY <1>1, OnBookIs
<1>3. engine[i].size \in Nat /\ engine[i].phase \in {"new", "open", "done"} /\ Len(written) \in Nat
  BY <1>1 DEF Engines
<1>4. i \in DOMAIN OnBook(engine) <=> engine[i].phase = "open"  BY <1>2
<1>5. engine[i].phase = "open" <=> engine[i].size > 0  BY <1>1 DEF Sized
<1>6. i \in DOMAIN OnBook(engine) => OnBook(engine)[i] = engine[i].size  BY <1>2
<1> QED  BY <1>2, <1>3, <1>4, <1>5, <1>6

\* One log, or a match and the Done after it.
LEMMA OneLog ==
    ASSUME ReplicaInv, NEW i \in Ids, NEW phase \in {"open", "done"}, NEW left \in Nat,
           phase = "open" <=> left > 0, NEW e \in Entries, EngineLogs(i, phase, left, <<e>>),
           e.seq = Len(written) + 1, Tells(OnBook(engine), e, SetSize(OnBook(engine), i, left))
    PROVE  ReplicaInv'
<1>1. PICK new : new = <<e>>  OBVIOUS
<1>2. new \in Seq(Entries) /\ Len(new) = 1 /\ new[1] = e  BY <1>1
<1>3. PICK c : c = SetSize(OnBook(engine), i, left)  OBVIOUS
<1>4. PICK hs : hs = Copies(c, Len(new))  OBVIOUS
<1>5. hs[1] = c  BY <1>2, <1>4 DEF Copies
<1>6. ASSUME NEW k \in 1 .. Len(new)
      PROVE  new[k].seq = Len(written) + k /\ Tells(IF k = 1 THEN OnBook(engine) ELSE hs[k - 1], new[k], hs[k])
  <2>1. k = 1  BY <1>2
  <2> QED  BY <2>1, <1>2, <1>3, <1>5
<1>7. Follow(OnBook(engine), new, hs, Len(written))  BY <1>6 DEF Follow
<1>8. EngineLogs(i, phase, left, new)  BY <1>1
<1>9. Len(new) > 0  BY <1>2
<1> QED  BY <1>2, <1>3, <1>4, <1>7, <1>8, <1>9, EngineStep

LEMMA TwoLogs ==
    ASSUME ReplicaInv, NEW i \in Ids, NEW e \in Entries, NEW f \in Entries, EngineLogs(i, "done", 0, <<e, f>>),
           e.seq = Len(written) + 1, Tells(OnBook(engine), e, SetSize(OnBook(engine), i, 0)),
           f.seq = Len(written) + 2, f.type = "done", f.id = i
    PROVE  ReplicaInv'
<1>1. PICK new : new = <<e, f>>  OBVIOUS
<1>2. new \in Seq(Entries) /\ Len(new) = 2 /\ new[1] = e /\ new[2] = f  BY <1>1
<1>3. PICK c : c = SetSize(OnBook(engine), i, 0)  OBVIOUS
<1>4. PICK hs : hs = Copies(c, Len(new))  OBVIOUS
<1>5. hs[1] = c /\ hs[2] = c  BY <1>2, <1>4 DEF Copies
<1>6. i \notin DOMAIN c
  <2>1. IsSet(c, OnBook(engine), i, 0)  BY <1>3, EngineHas, SetSizeIs
  <2> QED  BY <2>1 DEF IsSet
<1>7. Tells(c, f, c)  BY <1>6 DEF Tells
<1>8. ASSUME NEW k \in 1 .. Len(new)
      PROVE  new[k].seq = Len(written) + k /\ Tells(IF k = 1 THEN OnBook(engine) ELSE hs[k - 1], new[k], hs[k])
  <2>1. CASE k = 1  BY <2>1, <1>2, <1>3, <1>5
  <2>2. CASE k = 2
    <3>1. hs[k - 1] = c /\ hs[k] = c  BY <2>2, <1>5
    <3> QED  BY <2>2, <3>1, <1>2, <1>7
  <2> QED  BY <2>1, <2>2, <1>2
<1>9. Follow(OnBook(engine), new, hs, Len(written))  BY <1>8 DEF Follow
<1>10. EngineLogs(i, "done", 0, new)  BY <1>1
<1>11. Len(new) > 0 /\ "done" \in {"open", "done"} /\ 0 \in Nat /\ ("done" = "open" <=> 0 > 0)  BY <1>2
<1> QED  BY <1>2, <1>3, <1>4, <1>9, <1>10, <1>11, EngineStep

LEMMA OpensKeeps == ASSUME ReplicaInv, NEW i \in Ids, EngineOpens(i) PROVE ReplicaInv'
<1>1. PICK b : b = OnBook(engine)  OBVIOUS
<1>2. i \notin DOMAIN b /\ Len(written) \in Nat  BY <1>1, EngineHas DEF EngineOpens
<1>3. PICK z : z = Order[i].size  OBVIOUS
<1>4. z \in Nat /\ z > 0  BY <1>3, Constants
<1>5. PICK e : e = Log("open", i, z, 1)  OBVIOUS
<1>6. e \in Entries /\ e.seq = Len(written) + 1 /\ e.type = "open" /\ e.id = i /\ e.size = z
  BY <1>2, <1>4, <1>5 DEF Log, Entries
<1>7. Tells(b, e, SetSize(b, i, z))  BY <1>2, <1>4, <1>6 DEF Tells, Positive
<1>8. EngineLogs(i, "open", z, <<e>>)  BY <1>3, <1>5 DEF EngineOpens
<1>9. "open" \in {"open", "done"} /\ ("open" = "open" <=> z > 0)  BY <1>4
<1> QED  BY <1>1, <1>4, <1>6, <1>7, <1>8, <1>9, OneLog

LEMMA MatchesKeeps ==
    ASSUME ReplicaInv, NEW i \in Ids, NEW z \in 1 .. Order[i].size, EngineMatches(i, z)
    PROVE  ReplicaInv'
<1>1. PICK b : b = OnBook(engine)  OBVIOUS
<1>2. z \in Nat /\ z > 0  BY Constants
<1>3. PICK n : n = engine[i].size  OBVIOUS
<1>4. i \in DOMAIN b /\ b[i] = n /\ n \in Nat /\ z <= n /\ Len(written) \in Nat
  BY <1>1, <1>3, EngineHas DEF EngineMatches
<1>5. PICK e : e = Log("match", i, z, 1)  OBVIOUS
<1>6. e \in Entries /\ e.seq = Len(written) + 1 /\ e.type = "match" /\ e.id = i /\ e.size = z
  BY <1>2, <1>4, <1>5 DEF Log, Entries
<1>7. Tells(b, e, SetSize(b, i, n - z))
  <2>1. e.size \in Positive /\ e.size <= b[e.id] /\ e.id \in DOMAIN b /\ b[e.id] - e.size = n - z
    BY <1>2, <1>4, <1>6 DEF Positive
  <2> QED  BY <1>6, <2>1 DEF Tells
<1>8. CASE z < n
  <2>1. EngineLogs(i, "open", n - z, <<e>>)  BY <1>3, <1>5, <1>8 DEF EngineMatches
  <2>2. n - z \in Nat /\ "open" \in {"open", "done"} /\ ("open" = "open" <=> n - z > 0)  BY <1>2, <1>4, <1>8
  <2> QED  BY <1>1, <1>6, <1>7, <2>1, <2>2, OneLog
<1>9. CASE z = n
  <2>1. PICK f : f = Log("done", i, 0, 2)  OBVIOUS
  <2>2. f \in Entries /\ f.seq = Len(written) + 2 /\ f.type = "done" /\ f.id = i
    BY <1>4, <2>1 DEF Log, Entries
  <2>3. EngineLogs(i, "done", 0, <<e, f>>)  BY <1>3, <1>5, <1>9, <1>4, <2>1 DEF EngineMatches
  <2>4. n - z = 0  BY <1>4, <1>9
  <2> QED  BY <1>1, <1>6, <1>7, <2>2, <2>3, <2>4, TwoLogs
<1> QED  BY <1>2, <1>4, <1>8, <1>9

LEMMA EndsKeeps == ASSUME ReplicaInv, NEW i \in Ids, EngineEnds(i) PROVE ReplicaInv'
<1>1. PICK b : b = OnBook(engine)  OBVIOUS
<1>2. PICK n : n = engine[i].size  OBVIOUS
<1>3. /\ n \in Nat /\ Len(written) \in Nat /\ b \in Books
      /\ i \in DOMAIN b => b[i] = n /\ n > 0
      /\ i \notin DOMAIN b => n = 0
  BY <1>1, <1>2, EngineHas
<1>4. PICK e : e = Log("done", i, n, 1)  OBVIOUS
<1>5. e \in Entries /\ e.seq = Len(written) + 1 /\ e.type = "done" /\ e.id = i /\ e.size = n
  BY <1>3, <1>4 DEF Log, Entries
<1>6. Tells(b, e, SetSize(b, i, 0))
  <2>1. CASE i \in DOMAIN b
    <3>1. e.size \in Positive /\ e.size <= b[e.id] /\ e.id \in DOMAIN b /\ b[e.id] - e.size = 0
      BY <1>3, <1>5, <2>1 DEF Positive
    <3> QED  BY <1>5, <3>1 DEF Tells
  <2>2. CASE i \notin DOMAIN b
    <3>1. IsSet(SetSize(b, i, 0), b, i, 0)  BY <1>3, SetSizeIs
    <3>2. PICK c : c = SetSize(b, i, 0)  OBVIOUS
    <3>3. c \in Books /\ DOMAIN c = DOMAIN b /\ \A j \in DOMAIN c : c[j] = b[j]  BY <2>2, <3>1, <3>2 DEF IsSet
    <3>4. c = b  BY <1>3, <3>3, SameBook
    <3> QED  BY <1>5, <2>2, <3>2, <3>4 DEF Tells
  <2> QED  BY <2>1, <2>2
<1>7. EngineLogs(i, "done", 0, <<e>>)  BY <1>2, <1>4 DEF EngineEnds
<1>8. "done" \in {"open", "done"} /\ 0 \in Nat /\ ("done" = "open" <=> 0 > 0)  OBVIOUS
<1> QED  BY <1>1, <1>5, <1>6, <1>7, <1>8, OneLog

LEMMA RepeatsKeeps ==
    ASSUME ReplicaInv, NEW first \in 1 .. Len(written), EngineRepeats(first)
    PROVE  ReplicaInv'
<1>0. /\ topic \in Seq(Entries) /\ written \in Seq(Entries) /\ held \in Seq(Books)
      /\ WrittenOK(written, held) /\ TopicOK(topic, written) /\ EngineOK(engine, held)
  BY DEF ReplicaInv, ReplicaTypes, LogInv
<1>1. PICK new : new = SubSeq(written, first, Len(written))  OBVIOUS
<1>2. /\ topic' = topic \o new
      /\ UNCHANGED <<engine, written, held, book, reader, lastFull, snapshotCh, redis, restore, past, crashes>>
  BY <1>1 DEF EngineRepeats
<1>3. PICK n : n = Len(written)  OBVIOUS
<1>4. n \in Nat /\ first \in Nat /\ first > 0 /\ first <= n  BY <1>0, <1>3
<1>5. new \in Seq(Entries) /\ Len(new) = n - first + 1 /\ \A k \in 1 .. Len(new) : new[k] = written[first + k - 1]
  BY <1>0, <1>1, <1>3, <1>4
<1>6. \A k \in 1 .. Len(new) : new[k].seq = first + k - 1
  <2>1. \A k \in 1 .. Len(new) : first + k - 1 \in 1 .. Len(written)  BY <1>3, <1>4, <1>5
  <2> QED  BY <1>0, <1>5, <2>1 DEF WrittenOK
<1>7. Len(new) > 0 /\ first <= Len(written) + 1 /\ Len(written) = first + Len(new) - 1  BY <1>3, <1>4, <1>5
<1>8. Grows(written, written) /\ Grows(held, held)  BY <1>0, Unchanged
<1>9. TopicOK(topic \o new, written)  BY <1>0, <1>4, <1>5, <1>6, <1>7, <1>8, TopicGrows
<1>10. topic' \in Seq(Entries) /\ Grows(topic, topic')  BY <1>0, <1>2, <1>5, Joined
<1>11. LogInv'  BY <1>0, <1>2, <1>9 DEF LogInv
<1>12. PastOK(past, held)' /\ SnapshotsOK' /\ DepthsOK(orders, depths)' /\ PhaseInv'
  BY <1>2, <1>8, <1>10, ReplicaKept
<1>13. ReplicaTypes'
  <2>1. past' = past /\ snapshotCh' = snapshotCh /\ orders' = orders /\ engine' = engine /\ written' = written /\ held' = held
    BY <1>2 DEF book
  <2> QED  BY <1>10, <2>1 DEF ReplicaInv, ReplicaTypes
<1> QED  BY <1>11, <1>12, <1>13 DEF ReplicaInv
-----------------------------------------------------------------------------
(* The replica's steps.                                                    *)

\* The next log is an old one or the first that the replica lacks: the
\* reader meets no gap, and that one tells how the book changed.
LEMMA NextLog ==
    ASSUME ReplicaInv, CanRead, NEW e, e = Reading
    PROVE  /\ e \in Entries /\ e.seq \in 1 .. Len(held) /\ e.seq <= lastSeq + 1 /\ lastSeq \in Nat
           /\ readOffset \in Nat /\ readOffset + 1 <= Len(topic) /\ e = topic[readOffset + 1]
           /\ e.seq > lastSeq => e.seq = lastSeq + 1 /\ Tells(orders, e, held[e.seq])
<1>0. /\ topic \in Seq(Entries) /\ written \in Seq(Entries) /\ held \in Seq(Books)
      /\ WrittenOK(written, held) /\ TopicOK(topic, written) /\ Running
  BY DEF ReplicaInv, ReplicaTypes, LogInv, PhaseInv, CanRead
<1>1. PICK k : k = readOffset + 1  OBVIOUS
<1>2. /\ readOffset \in Nat /\ k \in 1 .. Len(topic) /\ Len(topic) \in Nat /\ e = topic[k]
  BY <1>0, <1>1 DEF Running, CanRead, Reading
<1>3. e \in Entries /\ e.seq \in 1 .. Len(written) /\ e = written[e.seq]  BY <1>0, <1>2 DEF TopicOK
<1>4. Len(written) = Len(held) /\ Len(held) \in Nat  BY <1>0 DEF WrittenOK
<1>5. lastSeq \in Nat  BY <1>0, <1>4 DEF Running
<1>6. e.seq <= lastSeq + 1
  <2>1. CASE readOffset = 0
    <3>1. e.seq = 1  BY <1>0, <1>1, <1>2, <2>1 DEF TopicOK
    <3> QED  BY <1>5, <3>1
  <2>2. CASE readOffset # 0
    <3>1. k # 1 /\ k - 1 = readOffset /\ readOffset \in 1 .. Len(topic)  BY <1>1, <1>2, <2>2
    <3>2. topic[k].seq <= topic[k - 1].seq + 1  BY <1>0, <1>2, <3>1 DEF TopicOK
    <3>3. topic[readOffset].seq <= lastSeq  BY <1>0, <1>2, <2>2 DEF Running
    <3>4. topic[readOffset].seq \in Nat
      <4>1. topic[readOffset] \in Entries  BY <1>0, <3>1
      <4> QED  BY <4>1 DEF Entries
    <3> QED  BY <1>2, <1>3, <1>5, <3>1, <3>2, <3>3, <3>4 DEF Entries
  <2> QED  BY <2>1, <2>2
<1>7. e.seq > lastSeq => e.seq = lastSeq + 1 /\ Tells(orders, e, held[e.seq])
  <2>1. ASSUME e.seq > lastSeq PROVE e.seq = lastSeq + 1 /\ Tells(orders, e, held[e.seq])
    <3>1. e.seq = lastSeq + 1  BY <1>3, <1>4, <1>5, <1>6, <2>1
    <3>2. e.seq - 1 = lastSeq  BY <1>5, <3>1
    <3>3. Tells(BookAt(held, e.seq - 1), written[e.seq], held[e.seq])  BY <1>0, <1>3 DEF WrittenOK
    <3>4. orders = BookAt(held, lastSeq)  BY <1>0 DEF Running
    <3> QED  BY <1>3, <3>1, <3>2, <3>3, <3>4
  <2> QED  BY <2>1
<1> QED  BY <1>1, <1>2, <1>3, <1>4, <1>5, <1>6, <1>7

\* A log that is passed over does not change the book.
LEMMA SkipKeeps == ASSUME ReplicaInv, SkipLog PROVE ReplicaInv'
<1>0. /\ UNCHANGED <<source, book, lastFull, snapshotCh, redis, restore, past, crashes>>
      /\ CanRead /\ IsSkipped(Reading)
      /\ readOffset' = readOffset + 1
      /\ lastSeq' = IF Reading.seq > lastSeq THEN Reading.seq ELSE lastSeq
  BY DEF SkipLog, CanApply
<1>1. PICK e : e = Reading  OBVIOUS
<1>2. /\ e \in Entries /\ e.seq \in 1 .. Len(held) /\ e.seq <= lastSeq + 1 /\ lastSeq \in Nat
      /\ readOffset \in Nat /\ readOffset + 1 <= Len(topic) /\ e = topic[readOffset + 1]
      /\ e.seq > lastSeq => e.seq = lastSeq + 1 /\ Tells(orders, e, held[e.seq])
  BY <1>0, <1>1, NextLog
<1>3. /\ topic' = topic /\ engine' = engine /\ written' = written /\ held' = held
      /\ orders' = orders /\ depths' = depths /\ seq' = seq /\ logOffset' = logOffset /\ logSeq' = logSeq
      /\ pc' = pc /\ unsaved' = unsaved /\ past' = past /\ snapshotCh' = snapshotCh /\ redis' = redis
  BY <1>0 DEF source, book, restore
<1>4. Running /\ pc = "run" /\ unsaved = {}  BY <1>0 DEF ReplicaInv, PhaseInv, CanRead
<1>5. held \in Seq(Books) /\ topic \in Seq(Entries)  BY DEF ReplicaInv, ReplicaTypes
<1>6. /\ lastSeq' \in 0 .. Len(held) /\ e.seq <= lastSeq' /\ logSeq \in 0 .. lastSeq'
      /\ orders = BookAt(held, lastSeq') /\ Silent(held, logSeq, lastSeq')
  <2>1. CASE e.seq <= lastSeq
    <3>1. lastSeq' = lastSeq  BY <1>0, <1>1, <1>2, <2>1
    <3> QED  BY <1>4, <2>1, <3>1 DEF Running
  <2>2. CASE e.seq > lastSeq
    <3>1. lastSeq' = e.seq /\ e.seq = lastSeq + 1 /\ Tells(orders, e, held[e.seq])  BY <1>0, <1>1, <1>2, <2>2
    <3>2. e.type = "done" /\ e.id \notin DOMAIN orders  BY <1>0, <1>1, <1>2, <2>2 DEF IsSkipped
    <3>3. held[e.seq] = orders  BY <3>1, <3>2 DEF Tells
    <3>4. BookAt(held, lastSeq') = orders  BY <1>2, <3>1, <3>3 DEF BookAt
    <3>5. orders = BookAt(held, lastSeq)  BY <1>4 DEF Running
    <3>6. logSeq \in 0 .. lastSeq /\ Silent(held, logSeq, lastSeq)  BY <1>4 DEF Running
    <3>7. Silent(held, logSeq, lastSeq')
      <4>1. ASSUME NEW k \in logSeq + 1 .. lastSeq' PROVE BookAt(held, k) = BookAt(held, k - 1)
        <5>1. CASE k <= lastSeq
          <6>1. k \in logSeq + 1 .. lastSeq  BY <1>2, <3>6, <5>1
          <6> QED  BY <3>6, <6>1 DEF Silent
        <5>2. CASE k > lastSeq
          <6>1. k = lastSeq' /\ k - 1 = lastSeq  BY <1>2, <3>1, <3>6, <5>2
          <6> QED  BY <3>4, <3>5, <6>1
        <5> QED  BY <5>1, <5>2, <1>2, <3>6
      <4> QED  BY <4>1 DEF Silent
    <3>8. lastSeq' \in 0 .. Len(held) /\ e.seq <= lastSeq' /\ logSeq \in 0 .. lastSeq'
      BY <1>2, <3>1, <3>6
    <3> QED  BY <3>4, <3>7, <3>8
  <2> QED  BY <2>1, <2>2, <1>2 DEF Entries
<1>7. Running'
  <2>1. readOffset' \in 0 .. Len(topic) /\ topic[readOffset'].seq <= lastSeq'  BY <1>0, <1>2, <1>5, <1>6
  <2>2. logOffset \in Nat /\ Numbered(past, seq, logSeq)  BY <1>4 DEF Running
  <2> QED  BY <1>3, <1>6, <2>1, <2>2 DEF Running
<1>8. PhaseInv'  BY <1>3, <1>4, <1>7 DEF PhaseInv
<1>9. ReplicaTypes' /\ LogInv' /\ PastOK(past, held)' /\ SnapshotsOK' /\ DepthsOK(orders, depths)'
  BY <1>3 DEF ReplicaInv, ReplicaTypes, LogInv, SnapshotsOK
<1> QED  BY <1>8, <1>9 DEF ReplicaInv

\* The first change after the n-th one is the next that the log makes.
LEMMA NextNumber ==
    ASSUME NEW l \in Seq(Changes), NEW h \in Seq(Books), PastOK(l, h),
           NEW n, NEW s \in Nat, Numbered(l, n, s), NEW q \in Nat, s <= q, NEW m, m = q + 1, m <= Len(h),
           Silent(h, s, q), BookAt(h, m) # BookAt(h, q), n # Len(l)
    PROVE  Numbered(l, n + 1, m) /\ l[n + 1].logSeq = m
<1>1. n \in Nat /\ n + 1 \in 1 .. Len(l) /\ ChangedAt(l, n) = s /\ n + 1 - 1 = n  BY DEF Numbered
<1>2. PICK r : r = l[n + 1].logSeq  OBVIOUS
<1>3. Change(l, h, n + 1)  BY <1>1 DEF PastOK
<1>4. r \in Nat /\ s < r /\ BookAt(h, r) # BookAt(h, r - 1) /\ Silent(h, s, r - 1)
  BY <1>1, <1>2, <1>3 DEF Change
<1>5. ASSUME r < m PROVE FALSE
  <2>1. r \in s + 1 .. q  BY <1>4, <1>5
  <2> QED  BY <1>4, <2>1 DEF Silent
<1>6. ASSUME r > m PROVE FALSE
  <2>1. m \in s + 1 .. r - 1 /\ m - 1 = q  BY <1>4, <1>6
  <2> QED  BY <2>1, <1>4 DEF Silent
<1>7. r = m  BY <1>4, <1>5, <1>6
<1> QED  BY <1>1, <1>2, <1>7 DEF Numbered, ChangedAt

Extended(k, l, h, m) ==
    k \in Seq(Changes) /\ Grows(l, k) /\ PastOK(k, h) /\ Numbered(k, Len(l) + 1, m)

\* A change that was not made before is numbered after the last one.
LEMMA NewNumber ==
    ASSUME NEW l \in Seq(Changes), NEW h \in Seq(Books), PastOK(l, h),
           NEW s \in Nat, Numbered(l, Len(l), s), NEW q \in Nat, s <= q, NEW m, m = q + 1, m <= Len(h),
           Silent(h, s, q), BookAt(h, m) # BookAt(h, q),
           NEW x \in Changes, x.logSeq = m, x.levels = Aggregate(h[m]), NEW k, k = Append(l, x)
    PROVE  Extended(k, l, h, m)
<1>1. /\ k \in Seq(Changes) /\ Len(k) = Len(l) + 1 /\ Grows(l, k) /\ k[Len(l) + 1] = x  BY Appended
<1>2. Len(l) \in Nat  OBVIOUS
<1>3. ASSUME NEW j \in 0 .. Len(l) PROVE ChangedAt(k, j) = ChangedAt(l, j)
  <2>1. j # 0 => j \in 1 .. Len(l)  BY <1>2
  <2> QED  BY <1>1, <2>1 DEF ChangedAt, Grows
<1>4. ASSUME NEW j \in 1 .. Len(k) PROVE Change(k, h, j)
  <2>1. CASE j <= Len(l)
    <3>1. j \in 1 .. Len(l) /\ j - 1 \in 0 .. Len(l)  BY <1>2, <2>1
    <3>2. k[j] = l[j] /\ ChangedAt(k, j - 1) = ChangedAt(l, j - 1)  BY <1>1, <1>3, <3>1 DEF Grows
    <3>3. Change(l, h, j)  BY <3>1 DEF PastOK
    <3> QED  BY <3>2, <3>3 DEF Change
  <2>2. CASE j = Len(l) + 1
    <3>1. k[j] = x /\ j - 1 = Len(l) /\ Len(l) \in 0 .. Len(l)  BY <1>1, <1>2, <2>2
    <3>2. ChangedAt(k, j - 1) = s  BY <1>3, <3>1 DEF Numbered
    <3>3. m \in 1 .. Len(h) /\ s < m /\ m - 1 = q  OBVIOUS
    <3> QED  BY <3>1, <3>2, <3>3 DEF Change
  <2> QED  BY <1>1, <1>2, <2>1, <2>2
<1>5. Numbered(k, Len(l) + 1, m)  BY <1>1, <1>2 DEF Numbered, ChangedAt
<1> QED  BY <1>1, <1>4, <1>5 DEF PastOK, Extended

\* What runApplier makes of a log that is not passed over: it does not
\* panic, and the book changes as the engine's did.
LEMMA Applies ==
    ASSUME NEW b \in Books, NEW e \in Entries, NEW c, Tells(b, e, c),
           ~ (e.type = "done" /\ e.id \notin DOMAIN b),
           NEW n, n = IF e.type = "open" THEN e.size ELSE b[e.id] - e.size
    PROVE  /\ n \in Nat /\ e.id \in Ids /\ c = SetSize(b, e.id, n) /\ c # b
           /\ e.id \in DOMAIN b \/ n > 0
           /\ e.type = "match" => e.id \in DOMAIN b
<1>1. e.id \in Ids /\ e.size \in Nat  BY DEF Entries
<1>2. \A i \in DOMAIN b : b[i] \in Nat /\ b[i] > 0  BY BooksDef
<1>3. CASE e.type = "open"
  <2>1. e.id \notin DOMAIN b /\ e.size \in Positive /\ c = SetSize(b, e.id, e.size)  BY <1>3 DEF Tells
  <2>2. n = e.size /\ n \in Nat /\ n > 0  BY <1>1, <1>3, <2>1 DEF Positive
  <2>3. IsSet(c, b, e.id, n)  BY <1>1, <2>1, <2>2, SetSizeIs
  <2>4. e.id \in DOMAIN c  BY <2>2, <2>3 DEF IsSet
  <2> QED  BY <1>1, <1>3, <2>1, <2>2, <2>4
<1>4. CASE e.type # "open"
  <2>1. e.id \in DOMAIN b /\ e.size \in Positive /\ e.size <= b[e.id] /\ c = SetSize(b, e.id, b[e.id] - e.size)
    BY <1>4 DEF Tells
  <2>2. n = b[e.id] - e.size /\ b[e.id] \in Nat /\ n \in Nat /\ n < b[e.id]
    BY <1>1, <1>2, <1>4, <2>1 DEF Positive
  <2>3. IsSet(c, b, e.id, n)  BY <1>1, <2>1, <2>2, SetSizeIs
  <2>4. n = 0 => e.id \notin DOMAIN c  BY <2>3 DEF IsSet
  <2>5. n > 0 => c[e.id] = n  BY <2>3 DEF IsSet
  <2>6. c # b  BY <2>1, <2>2, <2>4, <2>5
  <2> QED  BY <1>1, <2>1, <2>2, <2>6
<1> QED  BY <1>3, <1>4

\* Applying a log brings the replica to the next book of the engine, under
\* the number that change has.
LEMMA ApplyKeeps == ASSUME ReplicaInv, ApplyLog PROVE ReplicaInv'
<1>0. /\ topic \in Seq(Entries) /\ held \in Seq(Books) /\ past \in Seq(Changes) /\ snapshotCh \in Seq(Snapshots)
      /\ orders \in Books /\ LogInv /\ PastOK(past, held) /\ SnapshotsOK /\ DepthsOK(orders, depths)
  BY DEF ReplicaInv, ReplicaTypes
<1>1. PICK e : e = Reading  OBVIOUS
<1>2. CanRead /\ ~ IsSkipped(e)  BY <1>1 DEF ApplyLog, CanApply
<1>3. PICK z : z = NewSize(e)  OBVIOUS
<1>4. /\ orders' = SetSize(orders, e.id, z) /\ depths' = SetLevel(depths, e.id, SizeIn(orders, e.id), z)
      /\ logOffset' = readOffset /\ logSeq' = e.seq /\ seq' = seq + 1
      /\ past' = IF seq = Len(past)
                 THEN Append(past, [logSeq |-> logSeq', levels |-> LevelsOf(depths')]) ELSE past
      /\ readOffset' = readOffset + 1 /\ lastSeq' = e.seq
  BY <1>1, <1>3 DEF ApplyLog, SaveOrder
<1>5. /\ topic' = topic /\ engine' = engine /\ written' = written /\ held' = held
      /\ redis' = redis /\ pc' = pc /\ unsaved' = unsaved
  BY DEF ApplyLog, source, restore
<1>6. /\ e \in Entries /\ e.seq \in 1 .. Len(held) /\ e.seq <= lastSeq + 1 /\ lastSeq \in Nat
      /\ readOffset \in Nat /\ readOffset + 1 <= Len(topic) /\ e = topic[readOffset + 1]
      /\ e.seq > lastSeq => e.seq = lastSeq + 1 /\ Tells(orders, e, held[e.seq])
  BY <1>1, <1>2, NextLog
<1>7. PICK m : m = e.seq  OBVIOUS
<1>8. PICK c : c = held[m]  OBVIOUS
<1>9. m = lastSeq + 1 /\ m \in 1 .. Len(held) /\ Tells(orders, e, c)
  BY <1>2, <1>6, <1>7, <1>8 DEF IsSkipped, Entries
<1>10. /\ z \in Nat /\ e.id \in Ids /\ c = SetSize(orders, e.id, z) /\ c # orders
       /\ e.id \in DOMAIN orders \/ z > 0
  <2>1. ~ (e.type = "done" /\ e.id \notin DOMAIN orders)  BY <1>2 DEF IsSkipped
  <2>2. z = IF e.type = "open" THEN e.size ELSE orders[e.id] - e.size  BY <1>3 DEF NewSize
  <2> QED  BY <1>0, <1>6, <1>9, <2>1, <2>2, Applies
<1>11. orders' = c /\ c \in Books  BY <1>0, <1>4, <1>8, <1>9, <1>10
<1>12. DepthsOK(orders', depths')  BY <1>0, <1>4, <1>10, SaveKeepsLevels
<1>13. LevelsOf(depths') = Aggregate(c) /\ Aggregate(c) \in [Sides -> [Prices -> Nat]]
  BY <1>11, <1>12, SeenLevels
<1>14. Running /\ pc = "run" /\ unsaved = {}  BY <1>2 DEF ReplicaInv, PhaseInv, CanRead
<1>15. BookAt(held, m) = c /\ BookAt(held, lastSeq) = orders  BY <1>6, <1>8, <1>9, <1>14 DEF BookAt, Running
<1>16. logSeq \in Nat /\ logSeq <= lastSeq /\ Silent(held, logSeq, lastSeq) /\ Numbered(past, seq, logSeq)
  BY <1>6, <1>14 DEF Running
<1>17. m <= Len(held) /\ m \in Nat /\ BookAt(held, m) # BookAt(held, lastSeq)  BY <1>9, <1>10, <1>15
<1>18. past' \in Seq(Changes) /\ Grows(past, past') /\ PastOK(past', held) /\ Numbered(past', seq + 1, m)
  <2>1. CASE seq = Len(past)
    <3>1. PICK x : x = [logSeq |-> m, levels |-> Aggregate(c)]  OBVIOUS
    <3>2. x \in Changes /\ x.logSeq = m /\ x.levels = Aggregate(held[m])
      BY <1>8, <1>13, <1>17, <3>1 DEF Changes
    <3>3. past' = Append(past, x)  BY <1>4, <1>7, <1>13, <2>1, <3>1
    <3>4. Numbered(past, Len(past), logSeq)  BY <1>16, <2>1
    <3>5. PICK l, k, h, q, o : l = past /\ k = past' /\ h = held /\ q = lastSeq /\ o = logSeq  OBVIOUS
    <3>6. /\ l \in Seq(Changes) /\ h \in Seq(Books) /\ PastOK(l, h)
          /\ Numbered(l, Len(l), o) /\ k = Append(l, x) /\ Silent(h, o, q)
      BY <1>0, <1>16, <3>3, <3>4, <3>5
    <3>7. /\ o \in Nat /\ q \in Nat /\ o <= q /\ m = q + 1 /\ m <= Len(h)
          /\ BookAt(h, m) # BookAt(h, q) /\ x \in Changes /\ x.logSeq = m /\ x.levels = Aggregate(h[m])
      BY <1>6, <1>9, <1>16, <1>17, <3>2, <3>5
    <3>8. Extended(k, l, h, m)  BY <3>6, <3>7, NewNumber
    <3> QED  BY <2>1, <3>5, <3>8 DEF Extended
  <2>2. CASE seq # Len(past)
    <3>1. past' = past  BY <1>4, <2>2
    <3>2. Numbered(past, seq + 1, m)  BY <1>0, <1>6, <1>9, <1>16, <1>17, <2>2, NextNumber
    <3> QED  BY <1>0, <3>1, <3>2, Unchanged
  <2> QED  BY <2>1, <2>2
<1>19. PICK full : full = SnapshotFull(orders', seq', logOffset', logSeq')  OBVIOUS
<1>20. Faithful(full, topic, held, past')
  <2>1. full = [seq |-> seq + 1, logOffset |-> readOffset, logSeq |-> m, orders |-> c]
    BY <1>4, <1>7, <1>11, <1>19 DEF SnapshotFull
  <2>2. seq + 1 \in Nat  BY <1>18 DEF Numbered
  <2>3. full \in Snapshots  BY <1>6, <1>11, <1>17, <2>1, <2>2 DEF Snapshots
  <2>4. full.logOffset = readOffset /\ full.logSeq = m /\ full.orders = c /\ full.seq = seq + 1  BY <2>1
  <2>5. readOffset < Len(topic) /\ topic[readOffset + 1].seq = m  BY <1>0, <1>6, <1>7
  <2> QED  BY <1>8, <1>9, <1>18, <2>3, <2>4, <2>5 DEF Faithful
<1>21. snapshotCh' = snapshotCh \/ snapshotCh' = Append(snapshotCh, full)  BY <1>19 DEF ApplyLog
<1>22. snapshotCh' \in Seq(Snapshots)
  <2>1. full \in Snapshots  BY <1>20 DEF Faithful
  <2>2. Append(snapshotCh, full) \in Seq(Snapshots)  BY <1>0, <2>1
  <2> QED  BY <1>0, <1>21, <2>2
<1>23. SnapshotsOK'
  <2>1. Grows(topic, topic) /\ Grows(held, held)  BY <1>0, Unchanged
  <2>2. \A k \in 1 .. Len(snapshotCh) : Faithful(snapshotCh[k], topic, held, past')
    BY <1>0, <1>18, <2>1, FaithfulKept DEF SnapshotsOK
  <2>3. redis # NoSnapshot => Faithful(redis, topic, held, past')
    BY <1>0, <1>18, <2>1, FaithfulKept DEF SnapshotsOK
  <2>4. ASSUME NEW k \in 1 .. Len(snapshotCh') PROVE Faithful(snapshotCh'[k], topic, held, past')
    <3>1. CASE snapshotCh' = snapshotCh  BY <3>1, <2>2
    <3>2. CASE snapshotCh' = Append(snapshotCh, full)
      <4>1. k \in 1 .. Len(snapshotCh) \/ k = Len(snapshotCh) + 1  BY <1>0, <3>2
      <4>2. k \in 1 .. Len(snapshotCh) => snapshotCh'[k] = snapshotCh[k]  BY <1>0, <3>2
      <4>3. k = Len(snapshotCh) + 1 => snapshotCh'[k] = full  BY <1>0, <3>2
      <4> QED  BY <1>20, <2>2, <4>1, <4>2, <4>3
    <3> QED  BY <1>21, <3>1, <3>2
  <2> QED  BY <1>5, <2>3, <2>4 DEF SnapshotsOK
<1>24. Running'
  <2>1. lastSeq' = m /\ logSeq' = m /\ logOffset' = readOffset /\ seq' = seq + 1  BY <1>4, <1>7
  <2>2. lastSeq' \in 0 .. Len(held) /\ logSeq' \in 0 .. lastSeq'  BY <1>9, <1>17, <2>1
  <2>3. readOffset' \in 0 .. Len(topic)  BY <1>0, <1>4, <1>6
  <2>4. topic[readOffset'].seq <= lastSeq'  BY <1>4, <1>6, <1>7, <1>17, <2>1
  <2>5. Silent(held, m, m)  BY <1>17 DEF Silent
  <2>6. orders' = BookAt(held, lastSeq')  BY <1>11, <1>15, <2>1
  <2> QED  BY <1>5, <1>6, <1>18, <2>1, <2>2, <2>3, <2>4, <2>5, <2>6 DEF Running
<1>25. PhaseInv'  BY <1>5, <1>14, <1>24 DEF PhaseInv
<1>26. ReplicaTypes'  BY <1>5, <1>11, <1>18, <1>22 DEF ReplicaInv, ReplicaTypes
<1>27. LogInv'  BY <1>0, <1>5 DEF LogInv
<1>28. PastOK(past', held')  BY <1>5, <1>18
<1> QED  BY <1>12, <1>23, <1>25, <1>26, <1>27, <1>28 DEF ReplicaInv

LEMMA StoreKeeps == ASSUME ReplicaInv, StoreFull PROVE ReplicaInv'
<1>0. snapshotCh \in Seq(Snapshots) /\ SnapshotsOK  BY DEF ReplicaInv, ReplicaTypes
<1>1. /\ topic' = topic /\ engine' = engine /\ written' = written /\ held' = held
      /\ orders' = orders /\ depths' = depths /\ seq' = seq /\ logOffset' = logOffset /\ logSeq' = logSeq
      /\ readOffset' = readOffset /\ lastSeq' = lastSeq
      /\ pc' = pc /\ unsaved' = unsaved /\ past' = past
  BY DEF StoreFull, source, book, reader, restore
<1>2. snapshotCh # << >> /\ snapshotCh' = Tail(snapshotCh) /\ redis' \in {Head(snapshotCh), redis}
  BY DEF StoreFull
<1>3. /\ snapshotCh' \in Seq(Snapshots) /\ Head(snapshotCh) = snapshotCh[1] /\ 1 \in 1 .. Len(snapshotCh)
      /\ \A k \in 1 .. Len(snapshotCh') : k + 1 \in 1 .. Len(snapshotCh) /\ snapshotCh'[k] = snapshotCh[k + 1]
  BY <1>0, <1>2
<1>4. \A k \in 1 .. Len(snapshotCh) : Faithful(snapshotCh[k], topic, held, past)  BY <1>0 DEF SnapshotsOK
<1>5. redis' # NoSnapshot => Faithful(redis', topic, held, past)
  <2>1. CASE redis' = redis  BY <2>1, <1>0 DEF SnapshotsOK
  <2>2. CASE redis' = Head(snapshotCh)  BY <2>2, <1>3, <1>4
  <2> QED  BY <1>2, <2>1, <2>2
<1>6. SnapshotsOK'  BY <1>1, <1>3, <1>4, <1>5 DEF SnapshotsOK
<1>7. pc # "restore"  BY <1>2 DEF ReplicaInv, PhaseInv, Restoring
<1>8. Running => Running'  BY <1>1 DEF Running
<1>9. PhaseInv'  BY <1>1, <1>7, <1>8 DEF ReplicaInv, PhaseInv
<1>10. ReplicaTypes' /\ LogInv' /\ PastOK(past, held)' /\ DepthsOK(orders, depths)'
  BY <1>1, <1>3 DEF ReplicaInv, ReplicaTypes, LogInv
<1> QED  BY <1>6, <1>9, <1>10 DEF ReplicaInv

\* Silent logs leave the book as it is; else there were a first one that
\* does not.
LEMMA SilentSame ==
    ASSUME NEW h, NEW n \in Nat, NEW m \in 0 .. n, Silent(h, m, n)
    PROVE  BookAt(h, n) = BookAt(h, m)
<1> DEFINE S == {k \in m .. n : BookAt(h, k) # BookAt(h, m)}
<1>1. ASSUME S # {} PROVE FALSE
  <2>1. S \in SUBSET Nat  OBVIOUS
  <2>2. PICK k \in S : \A j \in S : k <= j  BY <1>1, <2>1, NatMin
  <2>3. k \in m .. n /\ BookAt(h, k) # BookAt(h, m)  BY <2>2
  <2>4. k # m  BY <2>3
  <2>5. k \in m + 1 .. n /\ k - 1 \in m .. n /\ k - 1 < k  BY <2>3, <2>4
  <2>6. BookAt(h, k) = BookAt(h, k - 1)  BY <2>5 DEF Silent
  <2>7. k - 1 \in S  BY <2>3, <2>5, <2>6
  <2> QED  BY <2>2, <2>5, <2>7
<1>2. n \notin S  BY <1>1
<1> QED  BY <1>2

LEMMA CrashKeeps == ASSUME ReplicaInv, Crash PROVE ReplicaInv'
<1>0. held \in Seq(Books) /\ topic \in Seq(Entries) /\ past \in Seq(Changes) /\ SnapshotsOK
  BY DEF ReplicaInv, ReplicaTypes
<1>1. /\ orders' = Empty /\ depths' = NoLevels /\ seq' = 0 /\ logOffset' = 0 /\ logSeq' = 0
      /\ readOffset' = 0 /\ lastSeq' = 0 /\ snapshotCh' = << >>
      /\ IF redis = NoSnapshot THEN pc' = "run" /\ unsaved' = {}
         ELSE pc' = "restore" /\ unsaved' = DOMAIN redis.orders
      /\ topic' = topic /\ engine' = engine /\ written' = written /\ held' = held
      /\ redis' = redis /\ past' = past
  BY DEF Crash, source
<1>2. Empty \in Books /\ DOMAIN Empty = {} /\ DepthsOK(orders', depths')  BY <1>1, EmptyBook, NoDepths
<1>3. snapshotCh' \in Seq(Snapshots) /\ Len(snapshotCh') = 0  BY <1>1
<1>4. SnapshotsOK'
  <2>1. \A k \in 1 .. Len(snapshotCh') : Faithful(snapshotCh'[k], topic', held', past')  BY <1>3
  <2>2. redis # NoSnapshot => Faithful(redis, topic, held, past)  BY <1>0 DEF SnapshotsOK
  <2> QED  BY <1>1, <2>1, <2>2 DEF SnapshotsOK
<1>5. CASE redis = NoSnapshot
  <2>1. Len(held) \in Nat /\ Len(topic) \in Nat /\ Len(past) \in Nat  BY <1>0
  <2>2. Numbered(past, 0, 0) /\ Silent(held, 0, 0) /\ BookAt(held, 0) = Empty
    BY <2>1 DEF Numbered, ChangedAt, Silent, BookAt
  <2>3. Running'  BY <1>1, <2>1, <2>2 DEF Running
  <2>4. PhaseInv'  BY <1>1, <1>5, <2>3 DEF PhaseInv
  <2> QED  BY <1>1, <1>2, <1>3, <1>4, <2>4 DEF ReplicaInv, ReplicaTypes, LogInv
<1>6. CASE redis # NoSnapshot
  <2>1. pc' = "restore" /\ unsaved' = DOMAIN redis.orders /\ redis' = redis /\ DOMAIN orders' = {}
    BY <1>1, <1>2, <1>6
  <2>2. Restoring'  BY <1>1, <1>6, <2>1 DEF Restoring
  <2>3. PhaseInv'  BY <2>1, <2>2 DEF PhaseInv
  <2> QED  BY <1>1, <1>2, <1>3, <1>4, <2>3 DEF ReplicaInv, ReplicaTypes, LogInv
<1> QED  BY <1>5, <1>6

\* In Restore's loop the stored snapshot is a book of the engine.
LEMMA Stored ==
    ASSUME ReplicaInv, pc = "restore"
    PROVE  Restoring /\ Faithful(redis, topic, held, past) /\ redis.orders \in Books
<1>1. Restoring  BY DEF ReplicaInv, PhaseInv
<1>2. Faithful(redis, topic, held, past)  BY <1>1 DEF ReplicaInv, SnapshotsOK, Restoring
<1>3. redis \in Snapshots  BY <1>2 DEF Faithful
<1>4. redis.orders \in Books  BY <1>3 DEF Snapshots
<1> QED  BY <1>1, <1>2, <1>4

LEMMA RestoreKeeps == ASSUME ReplicaInv, NEW i \in unsaved, RestoreOrder(i) PROVE ReplicaInv'
<1>0. /\ topic' = topic /\ engine' = engine /\ written' = written /\ held' = held
      /\ readOffset' = readOffset /\ lastSeq' = lastSeq /\ snapshotCh' = snapshotCh
      /\ redis' = redis /\ pc' = pc /\ past' = past
      /\ pc = "restore" /\ unsaved' = unsaved \ {i}
  BY DEF RestoreOrder, source, reader
<1>1. Restoring /\ redis.orders \in Books  BY <1>0, Stored
<1>2. PICK b : b = redis.orders  OBVIOUS
<1>3. PICK n : n = b[i]  OBVIOUS
<1>4. i \in DOMAIN b /\ i \in Ids /\ n \in Nat /\ n > 0
  <2>1. i \in DOMAIN b  BY <1>1, <1>2 DEF Restoring
  <2>2. DOMAIN b \subseteq Ids /\ \A j \in DOMAIN b : b[j] \in Nat /\ b[j] > 0  BY <1>1, <1>2, BooksDef
  <2> QED  BY <1>3, <2>1, <2>2
<1>5. /\ orders' = SetSize(orders, i, n) /\ depths' = SetLevel(depths, i, SizeIn(orders, i), n)
      /\ logOffset' = 0 /\ logSeq' = 0 /\ seq' = seq + 1
  BY <1>2, <1>3 DEF RestoreOrder, SaveOrder
<1>6. orders \in Books /\ DepthsOK(orders, depths)  BY DEF ReplicaInv, ReplicaTypes
<1>7. IsSet(orders', orders, i, n)  BY <1>4, <1>5, <1>6, SetSizeIs
<1>8. DepthsOK(orders', depths')  BY <1>4, <1>5, <1>6, SaveKeepsLevels
<1>9. orders' \in Books /\ DOMAIN orders' = DOMAIN orders \cup {i} /\ orders'[i] = n
      /\ \A j \in DOMAIN orders \ {i} : orders'[j] = orders[j]
  BY <1>4, <1>7 DEF IsSet
<1>10. DOMAIN orders = DOMAIN b \ unsaved /\ unsaved \subseteq DOMAIN b /\ \A j \in DOMAIN orders : orders[j] = b[j]
  BY <1>1, <1>2 DEF Restoring
<1>11. /\ DOMAIN orders' = DOMAIN b \ unsaved' /\ unsaved' \subseteq DOMAIN b
       /\ \A j \in DOMAIN orders' : orders'[j] = b[j]
  BY <1>0, <1>3, <1>4, <1>9, <1>10
<1>12. Restoring'  BY <1>0, <1>1, <1>2, <1>5, <1>11 DEF Restoring
<1>13. PhaseInv'  BY <1>0, <1>12 DEF PhaseInv
<1>14. ReplicaTypes' /\ LogInv' /\ PastOK(past, held)' /\ SnapshotsOK'
  BY <1>0, <1>9 DEF ReplicaInv, ReplicaTypes, LogInv, SnapshotsOK
<1> QED  BY <1>8, <1>13, <1>14 DEF ReplicaInv

LEMMA EndsRestoreKeeps == ASSUME ReplicaInv, RestoreEnds PROVE ReplicaInv'
<1>0. /\ topic' = topic /\ engine' = engine /\ written' = written /\ held' = held
      /\ orders' = orders /\ depths' = depths /\ snapshotCh' = snapshotCh
      /\ redis' = redis /\ past' = past /\ unsaved' = unsaved
      /\ pc = "restore" /\ unsaved = {} /\ pc' = "run"
  BY DEF RestoreEnds, source
<1>1. Restoring /\ Faithful(redis, topic, held, past) /\ redis.orders \in Books  BY <1>0, Stored
<1>2. PICK s, o, n : s = redis.logSeq /\ o = redis.logOffset /\ n = redis.seq  OBVIOUS
<1>3. /\ seq' = n /\ logOffset' = o /\ logSeq' = s /\ lastSeq' = s
      /\ readOffset' = IF o > 0 THEN o + 1 ELSE 0
  BY <1>2 DEF RestoreEnds, RestoredSeq, StartOffset
<1>4. /\ o \in Nat /\ o < Len(topic) /\ topic[o + 1].seq = s /\ s \in 1 .. Len(held)
      /\ redis.orders = held[s] /\ Numbered(past, n, s)
  BY <1>1, <1>2 DEF Faithful, Snapshots
<1>5. orders = held[s]
  <2>1. orders \in Books  BY DEF ReplicaInv, ReplicaTypes
  <2>2. DOMAIN orders = DOMAIN redis.orders /\ \A i \in DOMAIN orders : orders[i] = redis.orders[i]
    BY <1>0, <1>1 DEF Restoring
  <2>3. orders = redis.orders  BY <1>1, <2>1, <2>2, SameBook
  <2> QED  BY <1>4, <2>3
<1>6. held \in Seq(Books) /\ topic \in Seq(Entries)  BY DEF ReplicaInv, ReplicaTypes
<1>7. s \in Nat /\ s # 0 /\ Len(held) \in Nat /\ Len(topic) \in Nat  BY <1>4, <1>6
<1>8. Running'
  <2>1. orders' = BookAt(held, s) /\ Silent(held, s, s)  BY <1>0, <1>5, <1>7 DEF BookAt, Silent
  <2>2. s \in 0 .. Len(held) /\ s \in 0 .. s /\ readOffset' \in 0 .. Len(topic)  BY <1>3, <1>4, <1>7
  <2>3. readOffset' > 0 => topic[readOffset'].seq <= s  BY <1>3, <1>4, <1>7
  <2> QED  BY <1>0, <1>3, <1>4, <2>1, <2>2, <2>3 DEF Running
<1>9. PhaseInv'  BY <1>0, <1>8 DEF PhaseInv
<1>10. ReplicaTypes' /\ LogInv' /\ PastOK(past, held)' /\ SnapshotsOK' /\ DepthsOK(orders, depths)'
  BY <1>0 DEF ReplicaInv, ReplicaTypes, LogInv, SnapshotsOK
<1> QED  BY <1>9, <1>10 DEF ReplicaInv
-----------------------------------------------------------------------------
(* The theorems.                                                           *)

LEMMA ReplicaInit == Init => ReplicaInv
<1> SUFFICES ASSUME Init PROVE ReplicaInv  OBVIOUS
<1>1. /\ topic = << >> /\ written = << >> /\ held = << >> /\ past = << >> /\ snapshotCh = << >>
      /\ redis = NoSnapshot /\ pc = "run" /\ unsaved = {} /\ orders = Empty /\ depths = NoLevels
      /\ seq = 0 /\ logOffset = 0 /\ logSeq = 0 /\ readOffset = 0 /\ lastSeq = 0
      /\ engine = [i \in Ids |-> [phase |-> "new", size |-> 0]]
  BY DEF Init
<1>2. ReplicaTypes  BY <1>1, EmptyBook DEF ReplicaTypes, Engines
<1>3. Len(topic) = 0 /\ Len(written) = 0 /\ Len(held) = 0 /\ Len(past) = 0 /\ Len(snapshotCh) = 0  BY <1>1
<1>4. WrittenOK(written, held) /\ TopicOK(topic, written)  BY <1>3 DEF WrittenOK, TopicOK
<1>5. Sized(engine)  BY <1>1 DEF Sized
<1>6. OnBook(engine) = Empty
  <2>1. engine \in Engines  BY <1>2 DEF ReplicaTypes
  <2>2. /\ OnBook(engine) \in Books
        /\ \A i \in Ids : i \in DOMAIN OnBook(engine) <=> engine[i].phase = "open"
        /\ \A i \in DOMAIN OnBook(engine) : OnBook(engine)[i] = engine[i].size
        /\ DOMAIN OnBook(engine) \subseteq Ids
    BY <1>5, <2>1, OnBookIs
  <2>3. DOMAIN OnBook(engine) = {}  BY <1>1, <2>2
  <2> QED  BY <2>2, <2>3, EmptyBook, SameBook
<1>7. EngineOK(engine, held)  BY <1>3, <1>5, <1>6 DEF EngineOK, BookAt
<1>8. PastOK(past, held) /\ SnapshotsOK  BY <1>1, <1>3 DEF PastOK, SnapshotsOK
<1>9. Running  BY <1>1, <1>3 DEF Running, Numbered, ChangedAt, Silent, BookAt
<1>10. DepthsOK(orders, depths)  BY <1>1, NoDepths
<1> QED  BY <1>1, <1>2, <1>4, <1>7, <1>8, <1>9, <1>10 DEF ReplicaInv, LogInv, PhaseInv

LEMMA ReplicaNext == ReplicaInv /\ [Next]_vars => ReplicaInv'
<1> SUFFICES ASSUME ReplicaInv, [Next]_vars PROVE ReplicaInv'  OBVIOUS
<1>1. ASSUME NEW i \in Ids, EngineOpens(i) PROVE ReplicaInv'  BY <1>1, OpensKeeps
<1>2. ASSUME NEW i \in Ids, EngineEnds(i) PROVE ReplicaInv'  BY <1>2, EndsKeeps
<1>3. ASSUME NEW i \in Ids, NEW z \in 1 .. Order[i].size, EngineMatches(i, z) PROVE ReplicaInv'
  BY <1>3, MatchesKeeps
<1>4. ASSUME NEW first \in 1 .. Len(written), EngineRepeats(first) PROVE ReplicaInv'
  BY <1>4, RepeatsKeeps
<1>5. CASE SkipLog  BY <1>5, SkipKeeps
<1>6. CASE ApplyLog  BY <1>6, ApplyKeeps
<1>7. CASE StoreFull  BY <1>7, StoreKeeps
<1>8. CASE Crash  BY <1>8, CrashKeeps
<1>9. ASSUME NEW i \in unsaved, RestoreOrder(i) PROVE ReplicaInv'  BY <1>9, RestoreKeeps
<1>10. CASE RestoreEnds  BY <1>10, EndsRestoreKeeps
<1>11. CASE UNCHANGED vars
  <2>1. UNCHANGED <<topic, engine, written, held, orders, depths, seq, logOffset, logSeq, readOffset, lastSeq,
                    snapshotCh, redis, pc, unsaved, past>>
    BY <1>11 DEF vars, source, book, reader, restore
  <2>2. Running => Running'  BY <2>1 DEF Running
  <2>3. Restoring => Restoring'  BY <2>1 DEF Restoring
  <2>4. PhaseInv'  BY <2>1, <2>2, <2>3 DEF ReplicaInv, PhaseInv
  <2>5. ReplicaTypes' /\ LogInv' /\ PastOK(past, held)' /\ SnapshotsOK' /\ DepthsOK(orders, depths)'
    BY <2>1 DEF ReplicaInv, ReplicaTypes, LogInv, SnapshotsOK
  <2> QED  BY <2>4, <2>5 DEF ReplicaInv
<1> QED  BY <1>1, <1>2, <1>3, <1>4, <1>5, <1>6, <1>7, <1>8, <1>9, <1>10, <1>11 DEF Next

\* The inductive invariant: the topic repeats written logs without skipping
\* one, and each tells how the engine's book changed; the changes saveOrder
\* numbered are those of the log, in its order; a full snapshot is the book
\* after the log at its offset; the replica is that book, or, in Restore's
\* loop, the part of the stored snapshot that was saved.
THEOREM ReplicaInvHolds == Spec => []ReplicaInv
<1>1. Init => ReplicaInv  BY ReplicaInit
<1>2. ReplicaInv /\ [Next]_vars => ReplicaInv'  BY ReplicaNext
<1> QED  BY <1>1, <1>2, PTL DEF Spec

LEMMA InvTypeOK == ReplicaInv => TypeOK
<1> SUFFICES ASSUME ReplicaInv PROVE TypeOK  OBVIOUS
<1>1. orders \in Books /\ DepthsOK(orders, depths)  BY DEF ReplicaInv, ReplicaTypes
<1>2. DOMAIN orders \subseteq Ids /\ \A i \in DOMAIN orders : orders[i] \in Nat /\ orders[i] > 0  BY <1>1, BooksDef
<1>3. \A i \in DOMAIN orders : orders[i] \in Positive  BY <1>2 DEF Positive
<1>4. ASSUME NEW s \in Sides, NEW p \in DOMAIN depths[s]
      PROVE  p \in Prices /\ depths[s][p] \in [size : Positive, count : Positive]
  <2>1. p \in Prices /\ LevelOK(orders, depths[s], s, p)  BY <1>1 DEF DepthsOK
  <2>2. PICK T : T = RestingAt(orders, s, p)  OBVIOUS
  <2>3. T # {} /\ depths[s][p] = [size |-> SumFunctionOnSet(orders, T), count |-> Cardinality(T)]
    BY <2>1, <2>2 DEF LevelOK
  <2>4. SumFunctionOnSet(orders, T) \in Nat /\ SumFunctionOnSet(orders, T) # 0 /\ IsFiniteSet(T)
    BY <1>1, <2>2, <2>3, RestingIs
  <2>5. Cardinality(T) \in Nat /\ Cardinality(T) # 0  BY <2>3, <2>4, FS_CardinalityType, FS_EmptySet
  <2> QED  BY <2>1, <2>3, <2>4, <2>5 DEF Positive
<1>5. CASE pc = "run"
  <2>1. Running /\ unsaved = {}  BY <1>5 DEF ReplicaInv, PhaseInv
  <2>2. held \in Seq(Books) /\ topic \in Seq(Entries) /\ past \in Seq(Changes)  BY DEF ReplicaInv, ReplicaTypes
  <2>3. Len(held) \in Nat /\ Len(topic) \in Nat /\ Len(past) \in Nat  BY <2>2
  <2>4. {seq, logOffset, logSeq, readOffset, lastSeq} \subseteq Nat  BY <2>1, <2>3 DEF Running, Numbered
  <2>5. seq <= Len(past) /\ readOffset <= Len(topic) /\ logSeq <= lastSeq  BY <2>1, <2>3 DEF Running, Numbered
  <2> QED  BY <1>2, <1>3, <1>4, <1>5, <2>1, <2>4, <2>5 DEF TypeOK
<1>6. CASE pc = "restore"
  <2>1. Restoring /\ redis.orders \in Books  BY <1>6, Stored
  <2>2. unsaved \subseteq Ids  BY <2>1, BooksDef DEF Restoring
  <2>3. {seq, logOffset, logSeq, readOffset, lastSeq} \subseteq Nat  BY <2>1 DEF Restoring
  <2> QED  BY <1>2, <1>3, <1>4, <1>6, <2>2, <2>3 DEF TypeOK
<1> QED  BY <1>5, <1>6 DEF ReplicaInv, PhaseInv

LEMMA InvMatches == ReplicaInv => ReplicaMatchesEngine
<1> SUFFICES ASSUME ReplicaInv PROVE ReplicaMatchesEngine  OBVIOUS
<1>0. orders \in Books /\ DepthsOK(orders, depths)  BY DEF ReplicaInv, ReplicaTypes
<1>1. pc = "run" => orders = BookAfter(lastSeq)
  BY DEF ReplicaInv, PhaseInv, Running, BookAt, BookAfter
<1>2. LevelsMatchOrders  BY <1>0 DEF DepthsOK, LevelOK, LevelsMatchOrders
<1>3. ASSUME CanRead PROVE ~ IsGap(Reading) /\ (IsSkipped(Reading) \/ ~ Panics(Reading))
  <2>1. PICK e : e = Reading  OBVIOUS
  <2>2. /\ e \in Entries /\ e.seq \in 1 .. Len(held) /\ e.seq <= lastSeq + 1 /\ lastSeq \in Nat
        /\ readOffset \in Nat /\ readOffset + 1 <= Len(topic) /\ e = topic[readOffset + 1]
        /\ e.seq > lastSeq => e.seq = lastSeq + 1 /\ Tells(orders, e, held[e.seq])
    BY <1>3, <2>1, NextLog
  <2>3. e.seq \in Nat /\ ~ IsGap(e)  BY <2>2 DEF IsGap, Entries
  <2>4. ASSUME ~ IsSkipped(e) PROVE ~ Panics(e)
    <3>1. Tells(orders, e, held[e.seq]) /\ ~ (e.type = "done" /\ e.id \notin DOMAIN orders)
      BY <2>2, <2>3, <2>4 DEF IsSkipped
    <3>2. PICK n : n = NewSize(e)  OBVIOUS
    <3>3. n = IF e.type = "open" THEN e.size ELSE orders[e.id] - e.size  BY <3>2 DEF NewSize
    <3>4. n \in Nat /\ e.id \in Ids /\ (e.type = "match" => e.id \in DOMAIN orders)
      BY <1>0, <2>2, <3>1, <3>3, Applies
    <3>5. e.id \in DOMAIN orders => Order[e.id].price \in DOMAIN depths[Order[e.id].side]
      <4>1. PICK s, p : s = Order[e.id].side /\ p = Order[e.id].price  OBVIOUS
      <4>2. s \in Sides /\ p \in Prices  BY <3>4, <4>1, Constants
      <4>3. LevelOK(orders, depths[s], s, p)  BY <1>0, <4>2 DEF DepthsOK
      <4>4. e.id \in DOMAIN orders => RestingAt(orders, s, p) # {}  BY <4>1 DEF RestingAt
      <4> QED  BY <4>1, <4>3, <4>4 DEF LevelOK
    <3>6. ~ (NewSize(e) < 0)  BY <3>2, <3>4
    <3> QED  BY <3>4, <3>5, <3>6 DEF Panics
  <2> QED  BY <2>1, <2>3, <2>4
<1> QED  BY <1>1, <1>2, <1>3 DEF ReplicaMatchesEngine

LEMMA InvNames == ReplicaInv => SeqNamesState
<1> SUFFICES ASSUME ReplicaInv, pc = "run", seq > 0
             PROVE  past[seq] = [logSeq |-> logSeq, levels |-> LevelsOf(depths)]
  BY DEF SeqNamesState
<1>1. /\ orders \in Books /\ DepthsOK(orders, depths) /\ past \in Seq(Changes) /\ held \in Seq(Books)
      /\ PastOK(past, held) /\ Running
  BY DEF ReplicaInv, ReplicaTypes, PhaseInv
<1>2. seq \in 1 .. Len(past) /\ past[seq].logSeq = logSeq  BY <1>1 DEF Running, Numbered, ChangedAt
<1>3. Change(past, held, seq)  BY <1>1, <1>2 DEF PastOK
<1>4. logSeq \in 1 .. Len(held) /\ past[seq].levels = Aggregate(held[logSeq])  BY <1>2, <1>3 DEF Change
<1>5. held[logSeq] = orders
  <2>1. lastSeq \in Nat /\ logSeq \in 0 .. lastSeq /\ Silent(held, logSeq, lastSeq) /\ orders = BookAt(held, lastSeq)
    BY <1>1 DEF Running
  <2>2. BookAt(held, lastSeq) = BookAt(held, logSeq)  BY <2>1, SilentSame
  <2>3. BookAt(held, logSeq) = held[logSeq]  BY <1>4 DEF BookAt
  <2> QED  BY <2>1, <2>2, <2>3
<1>6. LevelsOf(depths) = Aggregate(orders)  BY <1>1, SeenLevels
<1>7. past[seq] \in Changes  BY <1>1, <1>2
<1> QED  BY <1>2, <1>4, <1>5, <1>6, <1>7 DEF Changes

\* For all orders and any number of logs, repetitions and crashes: orders
\* and price levels of saveOrder's maps have positive sizes, a level has
\* positive counts, and seq, offsets and log seqs stay within what was
\* logged and numbered.
THEOREM ReplicaTypeOK == Spec => []TypeOK
<1>1. ReplicaInv => TypeOK  BY InvTypeOK
<1> QED  BY <1>1, ReplicaInvHolds, PTL

\* The replica is the engine's book after the last log its reader passed on,
\* its levels are those of its orders, the reader meets no gap, and neither
\* runApplier nor saveOrder panics.
THEOREM ReplicaFollowsEngine == Spec => []ReplicaMatchesEngine
<1>1. ReplicaInv => ReplicaMatchesEngine  BY InvMatches
<1> QED  BY <1>1, ReplicaInvHolds, PTL

\* Whatever snapshot the stream restarted from, the change numbered seq is
\* of the log, and left the levels, that seq had the first time.
THEOREM ReplicaSeqNamesState == Spec => []SeqNamesState
<1>1. ReplicaInv => SeqNamesState  BY InvNames
<1> QED  BY <1>1, ReplicaInvHolds, PTL
=============================================================================
