-------------------------- MODULE SettlementProofs --------------------------
(***************************************************************************)
(* Theorems about module Settlement, for every set of users and orders,   *)
(* every fee below the amount, and every size of batches and channels: no *)
(* balance goes below zero, and accounts hold what unfinished orders hold. *)
(***************************************************************************)
EXTENDS Settlement, SumProofs

\* What is appended to a channel or a table, and taken from it.
LEMMA Sent ==
    ASSUME NEW S, NEW q \in Seq(S), NEW x \in S
    PROVE  /\ Append(q, x) \in Seq(S) /\ Len(Append(q, x)) = Len(q) + 1 /\ Len(q) \in Nat
           /\ \A n \in 1 .. Len(q) : Append(q, x)[n] = q[n]
           /\ Append(q, x)[Len(q) + 1] = x
  OBVIOUS

LEMMA Received ==
    ASSUME NEW S, NEW q \in Seq(S), q # << >>
    PROVE  /\ Head(q) \in S /\ Head(q) = q[1] /\ Tail(q) \in Seq(S) /\ Len(Tail(q)) = Len(q) - 1
           /\ Len(q) \in Nat \ {0}
           /\ \A n \in 1 .. Len(q) - 1 : Tail(q)[n] = q[n + 1]
  OBVIOUS

LEMMA Joined ==
    ASSUME NEW S, NEW q \in Seq(S), NEW r \in Seq(S)
    PROVE  /\ q \o r \in Seq(S) /\ Len(q \o r) = Len(q) + Len(r) /\ Len(q) \in Nat /\ Len(r) \in Nat
           /\ \A n \in 1 .. Len(q) : (q \o r)[n] = q[n]
           /\ \A n \in 1 .. Len(r) : (q \o r)[Len(q) + n] = r[n]
<1>1. q \o r \in Seq(S) /\ Len(q \o r) = Len(q) + Len(r) /\ Len(q) \in Nat /\ Len(r) \in Nat
  OBVIOUS
<1>2. \A n \in 1 .. Len(q) : (q \o r)[n] = q[n]  OBVIOUS
<1>3. \A n \in 1 .. Len(r) : (q \o r)[Len(q) + n] = r[n]  OBVIOUS
<1> QED  BY <1>1, <1>2, <1>3

(* FlattenSeq, piece by piece.                                             *)

IsFlat(f, p, m) == f = [n \in 1 .. m |-> IF n = 1 THEN p[n] ELSE f[n - 1] \o p[n]]

LEMMA FlatExists == ASSUME NEW p, NEW m \in Nat PROVE \E f : IsFlat(f, p, m)
<1> DEFINE N == {n \in Nat : ~ \E f : IsFlat(f, p, n)}
<1>1. \E f : IsFlat(f, p, 0)
  <2>1. IsFlat([n \in 1 .. 0 |-> << >>], p, 0)  BY DEF IsFlat
  <2> QED  BY <2>1
<1>2. ASSUME NEW k \in Nat, NEW f, IsFlat(f, p, k) PROVE \E h : IsFlat(h, p, k + 1)
  <2> DEFINE h == [n \in 1 .. k + 1 |-> IF n = 1 THEN p[n] ELSE f[n - 1] \o p[n]]
  <2>1. \A n \in 1 .. k : f[n] = IF n = 1 THEN p[n] ELSE f[n - 1] \o p[n]
    BY <1>2 DEF IsFlat
  <2>2. \A n \in 1 .. k : h[n] = f[n]  BY <2>1
  <2>3. \A n \in 1 .. k + 1 : n # 1 => n - 1 \in 1 .. k  OBVIOUS
  <2>4. h = [n \in 1 .. k + 1 |-> IF n = 1 THEN p[n] ELSE h[n - 1] \o p[n]]  BY <2>2, <2>3
  <2>5. IsFlat(h, p, k + 1)
    <3> HIDE DEF h
    <3> QED  BY <2>4 DEF IsFlat
  <2> QED  BY <2>5
<1>3. CASE N # {}
  <2>0. N \in SUBSET Nat  OBVIOUS
  <2>1. PICK k \in N : \A n \in N : k <= n
    <3> HIDE DEF N
    <3> QED  BY <1>3, <2>0, NatMin
  <2>2. k # 0  BY <1>1
  <2>3. k - 1 \in Nat /\ k - 1 \notin N /\ (k - 1) + 1 = k  BY <2>1, <2>2
  <2>4. PICK f : IsFlat(f, p, k - 1)  BY <2>3
  <2>5. \E h : IsFlat(h, p, (k - 1) + 1)  BY <1>2, <2>3, <2>4
  <2> QED  BY <2>3, <2>5
<1>4. CASE N = {}  BY <1>4
<1> QED  BY <1>3, <1>4

\* The pieces joined one after the other.
IsJoin(f, p) ==
    /\ f[0] = << >>
    /\ \A n \in 1 .. Len(p) : f[n] = f[n - 1] \o p[n]
    /\ FlattenSeq(p) = f[Len(p)]

\* FlattenSeq puts the pieces of p one after the other.
LEMMA FlatJoin == ASSUME NEW S, NEW p \in Seq(Seq(S)) PROVE \E f : IsJoin(f, p)
<1>0. Len(p) \in Nat  OBVIOUS
<1> DEFINE it == CHOOSE f : f = [n \in 1 .. Len(p) |-> IF n = 1 THEN p[n] ELSE f[n - 1] \o p[n]]
           g == [n \in 0 .. Len(p) |-> IF n = 0 THEN << >> ELSE it[n]]
<1>1. FlattenSeq(p) = IF Len(p) = 0 THEN p ELSE it[Len(p)]  BY DEF FlattenSeq
<1>2. IsFlat(it, p, Len(p))
  <2>1. PICK h : IsFlat(h, p, Len(p))  BY <1>0, FlatExists
  <2> QED  BY <2>1 DEF IsFlat
<1>3. \A n \in 1 .. Len(p) : it[n] = IF n = 1 THEN p[n] ELSE it[n - 1] \o p[n]
  <2> HIDE DEF it
  <2> QED  BY <1>2 DEF IsFlat
<1> HIDE DEF it
<1>4. g[0] = << >>  BY <1>0
<1>5. ASSUME NEW n \in 1 .. Len(p) PROVE g[n] = g[n - 1] \o p[n]
  <2>1. p[n] \in Seq(S)  OBVIOUS
  <2>2. CASE n = 1
    <3>1. g[n] = p[n] /\ g[n - 1] = << >>  BY <1>0, <1>3, <2>2
    <3> HIDE DEF g
    <3> QED  BY <2>1, <3>1
  <2>3. CASE n # 1
    <3>1. n - 1 \in 1 .. Len(p) /\ n - 1 # 0 /\ n # 0  BY <1>0, <2>3
    <3>2. g[n] = it[n] /\ g[n - 1] = it[n - 1]  BY <1>0, <3>1
    <3>3. it[n] = it[n - 1] \o p[n]  BY <1>3, <2>3
    <3> QED  BY <3>2, <3>3
  <2> QED  BY <2>2, <2>3
<1>6. FlattenSeq(p) = g[Len(p)]
  <2>1. CASE Len(p) = 0  BY <1>1, <2>1
  <2>2. CASE Len(p) # 0  BY <1>0, <1>1, <2>2
  <2> QED  BY <2>1, <2>2
<1>7. IsJoin(g, p)
  <2> HIDE DEF g
  <2> QED  BY <1>4, <1>5, <1>6 DEF IsJoin
<1> QED  BY <1>7

\* Every intermediate result is a sequence over S.
LEMMA JoinType ==
    ASSUME NEW S, NEW p \in Seq(Seq(S)), NEW f, IsJoin(f, p)
    PROVE  /\ \A n \in 0 .. Len(p) : f[n] \in Seq(S)
           /\ FlattenSeq(p) \in Seq(S)
<1>0. Len(p) \in Nat  OBVIOUS
<1> DEFINE N == {n \in 0 .. Len(p) : f[n] \notin Seq(S)}
<1>1. CASE N # {}
  <2>0. N \in SUBSET Nat  OBVIOUS
  <2>1. PICK k \in N : \A n \in N : k <= n
    <3> HIDE DEF N
    <3> QED  BY <1>1, <2>0, NatMin
  <2>2. k # 0
    <3>1. << >> \in Seq(S) /\ f[k] \notin Seq(S)  BY <2>1
    <3> QED  BY <3>1 DEF IsJoin
  <2>3. k \in 1 .. Len(p) /\ k - 1 \in 0 .. Len(p) /\ k - 1 \notin N  BY <1>0, <2>1, <2>2
  <2>4. f[k - 1] \in Seq(S) /\ p[k] \in Seq(S)  BY <2>3
  <2>5. f[k] = f[k - 1] \o p[k]  BY <2>3 DEF IsJoin
  <2>6. f[k] \in Seq(S)  BY <2>4, <2>5
  <2> QED  BY <2>1, <2>6
<1>2. CASE N = {}
  <2>1. Len(p) \in 0 .. Len(p)  BY <1>0
  <2> QED  BY <1>2, <2>1 DEF IsJoin
<1> QED  BY <1>1, <1>2

\* The sum of what W makes of each row of a table.
Total(table, W) == SumFunctionOnSet([n \in DOMAIN table |-> W[table[n]]], DOMAIN table)

\* The total of a table's rows by an integer weight is an integer.
LEMMA TotalInt ==
    ASSUME NEW S, NEW q \in Seq(S), NEW W, \A x \in S : W[x] \in Int
    PROVE  Total(q, W) \in Int
<1> DEFINE F == [n \in DOMAIN q |-> W[q[n]]]
<1>1. IsFiniteSet(DOMAIN q) /\ \A n \in DOMAIN q : F[n] \in Int
  <2>1. DOMAIN q = 1 .. Len(q) /\ Len(q) \in Nat  OBVIOUS
  <2>2. IsFiniteSet(1 .. Len(q))  BY <2>1, FS_Interval
  <2> QED  BY <2>1, <2>2
<1> HIDE DEF F
<1>2. SumFunctionOnSet(F, DOMAIN q) \in Int  BY <1>1, SumInt
<1> QED  BY <1>2 DEF Total, F

LEMMA TotalEmpty == \A W : Total(<< >>, W) = 0
<1> TAKE W
<1>1. DOMAIN << >> = {}  OBVIOUS
<1> QED  BY <1>1, SumEmpty DEF Total

\* A table and the rows after it.
LEMMA TotalJoin ==
    ASSUME NEW S, NEW q \in Seq(S), NEW r \in Seq(S), NEW W, \A x \in S : W[x] \in Int
    PROVE  Total(q \o r, W) = Total(q, W) + Total(r, W)
<1> DEFINE c == q \o r
           F == [n \in DOMAIN c |-> W[c[n]]]
           G == [n \in DOMAIN r |-> W[r[n]]]
           H == [n \in DOMAIN q |-> W[q[n]]]
           A == 1 .. Len(q)
           B == 1 .. Len(r)
           f == [n \in B |-> Len(q) + n]
           I == {f[n] : n \in B}
<1>1. /\ Len(q) \in Nat /\ Len(r) \in Nat /\ c \in Seq(S) /\ Len(c) = Len(q) + Len(r)
      /\ DOMAIN c = 1 .. Len(c) /\ DOMAIN q = A /\ DOMAIN r = B
  OBVIOUS
<1>2. (\A n \in A : c[n] = q[n]) /\ (\A n \in B : c[Len(q) + n] = r[n])  OBVIOUS
<1>3. IsFiniteSet(A) /\ IsFiniteSet(B)  BY <1>1, FS_Interval
<1>4. I = (Len(q) + 1) .. (Len(q) + Len(r))
  <2>1. ASSUME NEW k \in (Len(q) + 1) .. (Len(q) + Len(r)) PROVE k \in I
    <3>1. k - Len(q) \in B /\ f[k - Len(q)] = k  BY <1>1
    <3> QED  BY <3>1
  <2>2. I \subseteq (Len(q) + 1) .. (Len(q) + Len(r))  BY <1>1
  <2> QED  BY <2>1, <2>2
<1>5. IsFiniteSet(I) /\ A \cap I = {} /\ A \cup I = 1 .. Len(c)
  <2>1. IsFiniteSet((Len(q) + 1) .. (Len(q) + Len(r)))  BY <1>1, FS_Interval
  <2>2. A \cap I = {} /\ A \cup I = 1 .. Len(c)
    <3> HIDE DEF I, c
    <3> QED  BY <1>1, <1>4
  <2> QED  BY <1>4, <2>1, <2>2
<1>6. \A n \in 1 .. Len(c) : F[n] \in Int
  <2> TAKE n \in 1 .. Len(c)
  <2>1. c[n] \in S  BY <1>1
  <2> QED  BY <1>1, <2>1
<1>7. SumFunctionOnSet(F, A \cup I) = SumFunctionOnSet(F, A) + SumFunctionOnSet(F, I)
  <2> HIDE DEF F, I, A, c
  <2> QED  BY <1>3, <1>5, <1>6, SumDisjoint
<1>8. SumFunctionOnSet(F, A) = SumFunctionOnSet(H, A)
  <2>1. \A n \in A : F[n] = H[n]  BY <1>1, <1>2
  <2> HIDE DEF F, H, A
  <2> QED  BY <1>3, <2>1, SumAgree
<1>9. SumFunctionOnSet(G, B) = SumFunctionOnSet(F, I)
  <2>1. \A n \in B : G[n] \in Int /\ G[n] = F[f[n]]
    <3> TAKE n \in B
    <3>1. r[n] \in S /\ f[n] = Len(q) + n /\ f[n] \in 1 .. Len(c)  BY <1>1
    <3>2. F[f[n]] = W[c[Len(q) + n]]  BY <1>1, <3>1
    <3> QED  BY <1>1, <1>2, <3>1, <3>2
  <2>2. \A m, n \in B : f[m] = f[n] => m = n  BY <1>1
  <2>3. (\A n \in B : f[n] \in I) /\ (\A y \in I : \E n \in B : y = f[n])  OBVIOUS
  <2> HIDE DEF F, G, B, f, I, A, c, H
  <2> QED  BY <1>3, <2>1, <2>2, <2>3, SumImage
<1>10. Total(c, W) = SumFunctionOnSet(F, A \cup I)
  <2>1. DOMAIN c = A \cup I
    <3> HIDE DEF A, I, c
    <3> QED  BY <1>1, <1>5
  <2> HIDE DEF A, I, c
  <2> QED  BY <2>1 DEF Total
<1>11. Total(q, W) = SumFunctionOnSet(H, A) /\ Total(r, W) = SumFunctionOnSet(G, B)
  BY <1>1 DEF Total
<1> HIDE DEF F, G, H, A, B, I, c, f
<1>12. Total(c, W) = Total(q, W) + Total(r, W)  BY <1>7, <1>8, <1>9, <1>10, <1>11
<1> QED  BY <1>12 DEF c

\* A flattened table: piece by piece.
LEMMA FlatTotal ==
    ASSUME NEW S, NEW p \in Seq(Seq(S)), NEW W, \A x \in S : W[x] \in Int
    PROVE  Total(FlattenSeq(p), W) = SumFunctionOnSet([n \in DOMAIN p |-> Total(p[n], W)], DOMAIN p)
<1>0. Len(p) \in Nat /\ DOMAIN p = 1 .. Len(p)  OBVIOUS
<1>1. PICK f : IsJoin(f, p)  BY FlatJoin
<1>2. \A n \in 0 .. Len(p) : f[n] \in Seq(S)  BY <1>1, JoinType
<1> DEFINE V == [n \in DOMAIN p |-> Total(p[n], W)]
           N == {n \in 0 .. Len(p) : Total(f[n], W) # SumFunctionOnSet(V, 1 .. n)}
<1>3. \A n \in 1 .. Len(p) : V[n] = Total(p[n], W) /\ V[n] \in Int
  <2> TAKE n \in 1 .. Len(p)
  <2>1. p[n] \in Seq(S) /\ V[n] = Total(p[n], W)  BY <1>0
  <2> QED  BY <2>1, TotalInt
<1>4. CASE N # {}
  <2>0. N \in SUBSET Nat  OBVIOUS
  <2>1. PICK k \in N : \A n \in N : k <= n
    <3> HIDE DEF N
    <3> QED  BY <1>4, <2>0, NatMin
  <2>2. k # 0
    <3>1. f[0] = << >> /\ 1 .. 0 = {}  BY <1>1 DEF IsJoin
    <3>2. Total(f[0], W) = SumFunctionOnSet(V, 1 .. 0)  BY <3>1, TotalEmpty, SumEmpty
    <3> QED  BY <2>1, <3>2
  <2>3. k \in 1 .. Len(p) /\ k - 1 \in 0 .. Len(p) /\ k - 1 \notin N /\ k \in Nat
    BY <1>0, <2>1, <2>2
  <2>4. f[k - 1] \in Seq(S) /\ p[k] \in Seq(S) /\ f[k] = f[k - 1] \o p[k]
    <3>1. f[k - 1] \in Seq(S)  BY <1>2, <2>3
    <3>2. p[k] \in Seq(S)  BY <2>3
    <3>3. f[k] = f[k - 1] \o p[k]  BY <1>1, <2>3 DEF IsJoin
    <3> QED  BY <3>1, <3>2, <3>3
  <2>5. Total(f[k], W) = Total(f[k - 1], W) + Total(p[k], W)  BY <2>4, TotalJoin
  <2>6. Total(f[k - 1], W) = SumFunctionOnSet(V, 1 .. k - 1)  BY <2>3
  <2>7. PICK I : I = 1 .. k - 1  OBVIOUS
  <2>8. SumFunctionOnSet(V, 1 .. k) = V[k] + SumFunctionOnSet(V, I)
    <3>1. IsFiniteSet(I) /\ k \notin I  BY <2>3, <2>7, FS_Interval
    <3>2. \A n \in I \cup {k} : n \in 1 .. Len(p)  BY <1>0, <2>3, <2>7
    <3>3. \A n \in I \cup {k} : V[n] \in Int  BY <1>3, <3>2
    <3>4. I \cup {k} = 1 .. k  BY <2>3, <2>7
    <3> HIDE DEF V
    <3>5. SumFunctionOnSet(V, I \cup {k}) = V[k] + SumFunctionOnSet(V, I)
      BY <3>1, <3>3, SumAdd
    <3> QED  BY <3>4, <3>5
  <2>9. Total(f[k], W) # SumFunctionOnSet(V, 1 .. k)  BY <2>1
  <2>10. V[k] = Total(p[k], W) /\ V[k] \in Int  BY <1>3, <2>3
  <2>11. Total(f[k - 1], W) \in Int  BY <2>4, TotalInt
  <2>12. FALSE
    <3> HIDE DEF V, N
    <3> QED  BY <2>5, <2>6, <2>7, <2>8, <2>9, <2>10, <2>11
  <2> QED  BY <2>12
<1>5. CASE N = {}
  <2>1. Len(p) \in 0 .. Len(p)  BY <1>0
  <2>2. Total(f[Len(p)], W) = SumFunctionOnSet(V, 1 .. Len(p))  BY <1>5, <2>1
  <2> QED  BY <1>0, <1>1, <2>2 DEF IsJoin
<1> QED  BY <1>4, <1>5

LEMMA TotalOne == ASSUME NEW x, NEW W, W[x] \in Int PROVE Total(<<x>>, W) = W[x]
<1> DEFINE F == [n \in DOMAIN <<x>> |-> W[<<x>>[n]]]
<1>1. DOMAIN <<x>> = {1}  OBVIOUS
<1>2. F[1] = W[x]  BY <1>1
<1>3. {} \cup {1} = {1} /\ IsFiniteSet({}) /\ 1 \notin {}  BY FS_EmptySet
<1>4. SumFunctionOnSet(F, {} \cup {1}) = F[1] + SumFunctionOnSet(F, {})
  <2>1. \A n \in {} \cup {1} : F[n] \in Int  BY <1>2
  <2> HIDE DEF F
  <2> QED  BY <1>3, <2>1, SumAdd
<1>5. SumFunctionOnSet(F, {}) = 0  BY SumEmpty
<1>6. Total(<<x>>, W) = SumFunctionOnSet(F, {1})  BY <1>1 DEF Total
<1> HIDE DEF F
<1> QED  BY <1>2, <1>3, <1>4, <1>5, <1>6

\* The pieces Keep joins.
Kept(table, K) == [n \in DOMAIN table |-> IF n \in K THEN <<table[n]>> ELSE << >>]

LEMMA KeptType ==
    ASSUME NEW S, NEW table \in Seq(S), NEW K
    PROVE  /\ Kept(table, K) \in Seq(Seq(S)) /\ Len(Kept(table, K)) = Len(table)
           /\ DOMAIN Kept(table, K) = 1 .. Len(table) /\ Len(table) \in Nat
           /\ Keep(table, K) = FlattenSeq(Kept(table, K))
           /\ \A n \in 1 .. Len(table) :
                 Kept(table, K)[n] = IF n \in K THEN <<table[n]>> ELSE << >>
<1>1. DOMAIN table = 1 .. Len(table) /\ Len(table) \in Nat  OBVIOUS
<1>2. \A n \in 1 .. Len(table) : (IF n \in K THEN <<table[n]>> ELSE << >>) \in Seq(S)  OBVIOUS
<1> QED  BY <1>1, <1>2 DEF Kept, Keep

\* The total of the rows that are kept is the sum over their numbers.
LEMMA KeepTotal ==
    ASSUME NEW S, NEW table \in Seq(S), NEW K \in SUBSET (DOMAIN table),
           NEW W, \A x \in S : W[x] \in Int
    PROVE  Total(Keep(table, K), W) = SumFunctionOnSet([n \in K |-> W[table[n]]], K)
<1> DEFINE p == Kept(table, K)
           G == [n \in DOMAIN p |-> Total(p[n], W)]
           F == [n \in K |-> W[table[n]]]
           D == 1 .. Len(table)
<1>1. /\ p \in Seq(Seq(S)) /\ DOMAIN p = D /\ Len(table) \in Nat /\ Keep(table, K) = FlattenSeq(p)
      /\ K \subseteq D
      /\ \A n \in D : p[n] = IF n \in K THEN <<table[n]>> ELSE << >>
  BY KeptType
<1>2. Total(Keep(table, K), W) = SumFunctionOnSet(G, DOMAIN p)
  <2> HIDE DEF p
  <2> QED  BY <1>1, FlatTotal
<1>3. \A n \in K : F[n] \in Int /\ G[n] = F[n]
  <2> TAKE n \in K
  <2>1. table[n] \in S /\ n \in D  BY <1>1
  <2>2. p[n] = <<table[n]>>  BY <1>1, <2>1
  <2>3. Total(p[n], W) = W[table[n]]  BY <2>1, <2>2, TotalOne
  <2> HIDE DEF p
  <2> QED  BY <1>1, <2>1, <2>3
<1>4. \A n \in D \ K : G[n] = 0
  <2> TAKE n \in D \ K
  <2>1. p[n] = << >>  BY <1>1
  <2>2. Total(p[n], W) = 0  BY <2>1, TotalEmpty
  <2> HIDE DEF p
  <2> QED  BY <1>1, <2>2
<1>5. IsFiniteSet(D)  BY <1>1, FS_Interval
<1>6. SumFunctionOnSet(G, D) = SumFunctionOnSet(F, K)
  <2>1. K \in SUBSET D  BY <1>1
  <2> HIDE DEF G, F, D, p
  <2> QED  BY <2>1, <1>3, <1>4, <1>5, SumWhere
<1> HIDE DEF G, p, D
<1> QED  BY <1>1, <1>2, <1>6

\* Keep's rows are those of K, in their order.
Places(q, table, K, h) ==
    /\ h \in [1 .. Len(q) -> K]
    /\ \A a \in 1 .. Len(q) : q[a] = table[h[a]]
    /\ \A a, b \in 1 .. Len(q) : a < b => h[a] < h[b]
    /\ \A n \in K : \E a \in 1 .. Len(q) : h[a] = n

\* Keep keeps just the rows it is told to, each once and in order.
LEMMA KeepRows ==
    ASSUME NEW S, NEW table \in Seq(S), NEW K \in SUBSET (DOMAIN table)
    PROVE  /\ Keep(table, K) \in Seq(S)
           /\ \E h : Places(Keep(table, K), table, K, h)
<1> DEFINE p == Kept(table, K)
           D == 1 .. Len(table)
           Upto(n) == {m \in K : m <= n}
<1>1. /\ p \in Seq(Seq(S)) /\ Len(p) = Len(table) /\ Len(table) \in Nat
      /\ Keep(table, K) = FlattenSeq(p) /\ K \subseteq D
      /\ \A n \in D : p[n] = IF n \in K THEN <<table[n]>> ELSE << >>
  BY KeptType
<1> HIDE DEF p
<1>2. PICK f : IsJoin(f, p)  BY <1>1, FlatJoin
<1>3. (\A n \in 0 .. Len(p) : f[n] \in Seq(S)) /\ FlattenSeq(p) \in Seq(S)
  BY <1>1, <1>2, JoinType
<1> DEFINE N == {n \in 0 .. Len(p) : ~ \E h : Places(f[n], table, Upto(n), h)}
<1>4. CASE N # {}
  <2>0. N \in SUBSET Nat  OBVIOUS
  <2>1. PICK k \in N : \A n \in N : k <= n
    <3> HIDE DEF N
    <3> QED  BY <1>4, <2>0, NatMin
  <2>2. k # 0
    <3>1. f[0] = << >> /\ Upto(0) = {}  BY <1>1, <1>2 DEF IsJoin
    <3>2. Len(f[0]) = 0  BY <3>1
    <3>3. Places(f[0], table, Upto(0), << >>)  BY <3>1, <3>2 DEF Places
    <3> QED  BY <2>1, <3>3
  <2>3. k \in 1 .. Len(p) /\ k - 1 \in 0 .. Len(p) /\ k - 1 \notin N /\ k \in Nat /\ k \in D
    <3>1. k \in 0 .. Len(p) /\ Len(p) \in Nat  BY <1>1, <2>1
    <3>2. k \in 1 .. Len(p) /\ k - 1 \in 0 .. Len(p) /\ k \in Nat /\ k - 1 < k
      BY <2>2, <3>1
    <3>3. k - 1 \notin N
      <4> HIDE DEF N
      <4> QED  BY <2>1, <3>2
    <3> QED  BY <1>1, <3>2, <3>3
  <2>4. PICK h : Places(f[k - 1], table, Upto(k - 1), h)  BY <2>3
  <2>5. f[k - 1] \in Seq(S) /\ f[k] = f[k - 1] \o p[k]  BY <1>2, <1>3, <2>3 DEF IsJoin
  <2>6. CASE k \notin K
    <3>1. p[k] = << >>  BY <1>1, <2>3, <2>6
    <3>2. f[k] = f[k - 1]  BY <2>5, <3>1
    <3>3. Upto(k) = Upto(k - 1)  BY <1>1, <2>3, <2>6
    <3> QED  BY <2>1, <2>4, <3>2, <3>3
  <2>7. CASE k \in K
    <3>1. p[k] = <<table[k]>>  BY <1>1, <2>3, <2>7
    <3>2. PICK q : q = f[k - 1]  OBVIOUS
    <3>3. PICK l : l = Len(q)  OBVIOUS
    <3>4. /\ l \in Nat /\ q \in Seq(S) /\ Len(f[k]) = l + 1 /\ f[k][l + 1] = table[k]
          /\ \A a \in 1 .. l : f[k][a] = q[a]
      BY <2>5, <3>1, <3>2, <3>3
    <3>5. PICK A : A = Upto(k - 1)  OBVIOUS
    <3>6. PICK B : B = Upto(k)  OBVIOUS
    <3>7. B = A \cup {k} /\ \A n \in A : n \in Nat /\ n < k
      BY <1>1, <2>3, <2>7, <3>5, <3>6
    <3>8. /\ h \in [1 .. l -> A]
          /\ \A a \in 1 .. l : q[a] = table[h[a]]
          /\ \A a, b \in 1 .. l : a < b => h[a] < h[b]
          /\ \A n \in A : \E a \in 1 .. l : h[a] = n
      BY <2>4, <3>2, <3>3, <3>5 DEF Places
    <3> DEFINE g == [a \in 1 .. l + 1 |-> IF a <= l THEN h[a] ELSE k]
    <3>9. \A a \in 1 .. l + 1 : a \in 1 .. l \/ a = l + 1  BY <3>4
    <3>10. (\A a \in 1 .. l : g[a] = h[a] /\ g[a] \in A) /\ g[l + 1] = k
      BY <3>4, <3>8
    <3>11. g \in [1 .. l + 1 -> B]  BY <3>7, <3>9, <3>10
    <3>12. \A a \in 1 .. l + 1 : f[k][a] = table[g[a]]  BY <3>4, <3>8, <3>9, <3>10
    <3>13. \A a, b \in 1 .. l + 1 : a < b => g[a] < g[b]
      <4> TAKE a, b \in 1 .. l + 1
      <4> HAVE a < b
      <4>1. a \in 1 .. l  BY <3>4
      <4>2. CASE b \in 1 .. l  BY <3>8, <3>10, <4>1, <4>2
      <4>3. CASE b = l + 1  BY <3>7, <3>10, <4>1, <4>3
      <4> QED  BY <3>9, <4>2, <4>3
    <3>14. \A n \in B : \E a \in 1 .. l + 1 : g[a] = n
      <4> TAKE n \in B
      <4>1. CASE n = k
        <5>1. l + 1 \in 1 .. l + 1  BY <3>4
        <5> QED  BY <3>10, <4>1, <5>1
      <4>2. CASE n \in A
        <5>1. PICK a \in 1 .. l : h[a] = n  BY <3>8, <4>2
        <5>2. a \in 1 .. l + 1  BY <3>4
        <5> QED  BY <3>10, <5>1, <5>2
      <4> QED  BY <3>7, <4>1, <4>2
    <3>15. Places(f[k], table, Upto(k), g)
      <4> HIDE DEF g
      <4> QED  BY <3>4, <3>6, <3>11, <3>12, <3>13, <3>14 DEF Places
    <3> QED  BY <2>1, <3>15
  <2> QED  BY <2>6, <2>7
<1>5. CASE N = {}
  <2>1. Len(p) \in 0 .. Len(p)  BY <1>1
  <2>2. \E h : Places(f[Len(p)], table, Upto(Len(p)), h)  BY <1>5, <2>1
  <2>3. Upto(Len(p)) = K  BY <1>1
  <2>4. f[Len(p)] = Keep(table, K)  BY <1>1, <1>2 DEF IsJoin
  <2> QED  BY <1>1, <1>3, <2>2, <2>3, <2>4
<1> QED  BY <1>4, <1>5
-----------------------------------------------------------------------------
(* The log: seqs without a gap, and copies of an entry equal to it.        *)

LastSeq(t) == IF t = << >> THEN 0 ELSE Last(t).seq

\* Trades are with a maker at its price, of at most its size.
TradeOK(e) ==
    e.type = "match" => /\ e.taker # e.maker /\ Request[e.taker].side # Request[e.maker].side
                        /\ e.size <= Request[e.maker].size
                        /\ e.price = Request[e.maker].price

LogFine(t) ==
    /\ t \in Seq(LogEntry) /\ LastSeq(t) \in Nat
    /\ \A k \in 1 .. Len(t) : t[k].seq \in 1 .. LastSeq(t) /\ TradeOK(t[k])
    /\ \A s \in 1 .. LastSeq(t) : \E k \in 1 .. Len(t) : t[k].seq = s
    /\ \A k, l \in 1 .. Len(t) : t[k].seq = t[l].seq => t[k] = t[l]

\* The entry with a seq.
Entry(t, s) == t[CHOOSE k \in 1 .. Len(t) : t[k].seq = s]

\* What an entry says order i traded.
SizeIn(i, e) == IF e.type = "match" /\ i \in {e.taker, e.maker} THEN e.size ELSE 0
ValueIn(i, e) == IF e.type = "match" /\ i \in {e.taker, e.maker} THEN e.size * e.price ELSE 0

Traded(t, i) ==
    SumFunctionOnSet([s \in 1 .. LastSeq(t) |-> SizeIn(i, Entry(t, s))], 1 .. LastSeq(t))
Worth(t, i) ==
    SumFunctionOnSet([s \in 1 .. LastSeq(t) |-> ValueIn(i, Entry(t, s))], 1 .. LastSeq(t))

\* A log stored again is the entry it was, so a seq names one entry.
LEMMA EntryOf ==
    ASSUME NEW t, LogFine(t)
    PROVE  /\ \A k \in 1 .. Len(t) : Entry(t, t[k].seq) = t[k]
           /\ \A s \in 1 .. LastSeq(t) : Entry(t, s) \in LogEntry /\ Entry(t, s).seq = s
<1>1. \A k \in 1 .. Len(t) : t[k] \in LogEntry  BY DEF LogFine
<1>2. ASSUME NEW s \in 1 .. LastSeq(t)
      PROVE  \E k \in 1 .. Len(t) : t[k].seq = s /\ Entry(t, s) = t[k]
  <2>1. \E k \in 1 .. Len(t) : t[k].seq = s  BY DEF LogFine
  <2> QED  BY <2>1 DEF Entry
<1>3. ASSUME NEW k \in 1 .. Len(t) PROVE Entry(t, t[k].seq) = t[k]
  <2>1. t[k].seq \in 1 .. LastSeq(t)  BY DEF LogFine
  <2>2. PICK l \in 1 .. Len(t) : t[l].seq = t[k].seq /\ Entry(t, t[k].seq) = t[l]
    BY <1>2, <2>1
  <2> QED  BY <2>2 DEF LogFine
<1> QED  BY <1>1, <1>2, <1>3

LEMMA EntryNat ==
    ASSUME NEW e \in LogEntry, NEW i
    PROVE  SizeIn(i, e) \in Nat /\ ValueIn(i, e) \in Nat
<1>1. CASE e.type = "match"
  <2>1. e.size \in Nat /\ e.price \in Nat  BY <1>1 DEF LogEntry
  <2>2. e.size * e.price \in Nat  BY <2>1
  <2> QED  BY <2>1, <2>2 DEF SizeIn, ValueIn
<1>2. CASE e.type # "match"  BY <1>2 DEF SizeIn, ValueIn
<1> QED  BY <1>1, <1>2

\* What the log says was traded of an order is a natural.
LEMMA LogSums ==
    ASSUME NEW t, LogFine(t), NEW i
    PROVE  /\ IsFiniteSet(1 .. LastSeq(t)) /\ LastSeq(t) \in Nat
           /\ \A s \in 1 .. LastSeq(t) :
                 SizeIn(i, Entry(t, s)) \in Nat /\ ValueIn(i, Entry(t, s)) \in Nat
           /\ Traded(t, i) \in Nat /\ Worth(t, i) \in Nat
<1>1. IsFiniteSet(1 .. LastSeq(t)) /\ LastSeq(t) \in Nat  BY FS_Interval DEF LogFine
<1>2. \A s \in 1 .. LastSeq(t) :
         SizeIn(i, Entry(t, s)) \in Nat /\ ValueIn(i, Entry(t, s)) \in Nat
  BY EntryOf, EntryNat
<1> DEFINE F == [s \in 1 .. LastSeq(t) |-> SizeIn(i, Entry(t, s))]
           G == [s \in 1 .. LastSeq(t) |-> ValueIn(i, Entry(t, s))]
<1>3. \A s \in 1 .. LastSeq(t) : F[s] \in Nat /\ G[s] \in Nat  BY <1>2
<1>4. SumFunctionOnSet(F, 1 .. LastSeq(t)) \in Nat /\ SumFunctionOnSet(G, 1 .. LastSeq(t)) \in Nat
  <2> HIDE DEF F, G
  <2> QED  BY <1>1, <1>3, SumNat
<1> QED  BY <1>1, <1>2, <1>4 DEF Traded, Worth

\* The next log.
LEMMA LogNext ==
    ASSUME NEW t, LogFine(t), NEW e \in LogEntry, e.seq = LastSeq(t) + 1, TradeOK(e)
    PROVE  /\ LogFine(Append(t, e)) /\ LastSeq(Append(t, e)) = LastSeq(t) + 1
           /\ \A i : /\ Traded(Append(t, e), i) = Traded(t, i) + SizeIn(i, e)
                     /\ Worth(Append(t, e), i) = Worth(t, i) + ValueIn(i, e)
<1>1. PICK u : u = Append(t, e)  OBVIOUS
<1>2. PICK n : n = LastSeq(t)  OBVIOUS
<1>3. /\ t \in Seq(LogEntry) /\ n \in Nat /\ Len(t) \in Nat
      /\ u \in Seq(LogEntry) /\ Len(u) = Len(t) + 1 /\ u[Len(t) + 1] = e /\ u # << >>
      /\ \A k \in 1 .. Len(t) : u[k] = t[k]
  BY <1>1, <1>2 DEF LogFine
<1>4. LastSeq(u) = n + 1  BY <1>2, <1>3 DEF LastSeq, Last
<1>5. \A k \in 1 .. Len(u) : k \in 1 .. Len(t) \/ k = Len(t) + 1  BY <1>3
<1>6. \A k \in 1 .. Len(t) : t[k].seq \in 1 .. n /\ TradeOK(t[k])  BY <1>2 DEF LogFine
<1>7. \A k \in 1 .. Len(u) : u[k].seq \in 1 .. n + 1 /\ TradeOK(u[k])
  <2> TAKE k \in 1 .. Len(u)
  <2>1. CASE k \in 1 .. Len(t)  BY <1>3, <1>6, <2>1
  <2>2. CASE k = Len(t) + 1  BY <1>2, <1>3, <2>2
  <2> QED  BY <1>5, <2>1, <2>2
<1>8. \A s \in 1 .. n + 1 : \E k \in 1 .. Len(u) : u[k].seq = s
  <2> TAKE s \in 1 .. n + 1
  <2>1. CASE s = n + 1
    <3>1. Len(t) + 1 \in 1 .. Len(u)  BY <1>3
    <3> QED  BY <1>2, <1>3, <2>1, <3>1
  <2>2. CASE s \in 1 .. n
    <3>1. PICK k \in 1 .. Len(t) : t[k].seq = s  BY <1>2, <2>2 DEF LogFine
    <3>2. k \in 1 .. Len(u)  BY <1>3
    <3> QED  BY <1>3, <3>1, <3>2
  <2> QED  BY <1>3, <2>1, <2>2
<1>9. \A k, l \in 1 .. Len(u) : u[k].seq = u[l].seq => u[k] = u[l]
  <2> TAKE k, l \in 1 .. Len(u)
  <2> HAVE u[k].seq = u[l].seq
  <2>1. CASE k \in 1 .. Len(t) /\ l \in 1 .. Len(t)
    <3>1. u[k] = t[k] /\ u[l] = t[l]  BY <1>3, <2>1
    <3> QED  BY <2>1, <3>1 DEF LogFine
  <2>2. CASE k \in 1 .. Len(t) /\ l = Len(t) + 1
    <3>1. u[k].seq \in 1 .. n /\ u[l].seq = n + 1  BY <1>2, <1>3, <1>6, <2>2
    <3> QED  BY <1>3, <3>1
  <2>3. CASE l \in 1 .. Len(t) /\ k = Len(t) + 1
    <3>1. u[l].seq \in 1 .. n /\ u[k].seq = n + 1  BY <1>2, <1>3, <1>6, <2>3
    <3> QED  BY <1>3, <3>1
  <2>4. CASE k = Len(t) + 1 /\ l = Len(t) + 1  BY <2>4
  <2> QED  BY <1>5, <2>1, <2>2, <2>3, <2>4
<1>10. LogFine(u)  BY <1>3, <1>4, <1>7, <1>8, <1>9 DEF LogFine
<1>11. ASSUME NEW s \in 1 .. n PROVE Entry(u, s) = Entry(t, s)
  <2>1. PICK k \in 1 .. Len(t) : t[k].seq = s  BY <1>2 DEF LogFine
  <2>2. k \in 1 .. Len(u) /\ u[k] = t[k]  BY <1>3
  <2>3. Entry(t, t[k].seq) = t[k]  BY EntryOf
  <2>4. Entry(u, u[k].seq) = u[k]  BY <1>10, <2>2, EntryOf
  <2> QED  BY <2>1, <2>2, <2>3, <2>4
<1>12. Entry(u, n + 1) = e
  <2>1. Len(t) + 1 \in 1 .. Len(u) /\ u[Len(t) + 1].seq = n + 1  BY <1>2, <1>3
  <2>2. Entry(u, u[Len(t) + 1].seq) = u[Len(t) + 1]  BY <1>10, <2>1, EntryOf
  <2> QED  BY <1>3, <2>1, <2>2
<1>13. ASSUME NEW i
       PROVE  /\ Traded(u, i) = Traded(t, i) + SizeIn(i, e)
              /\ Worth(u, i) = Worth(t, i) + ValueIn(i, e)
  <2>1. PICK I : I = 1 .. n  OBVIOUS
  <2>2. /\ IsFiniteSet(I) /\ n + 1 \notin I /\ I \cup {n + 1} = 1 .. LastSeq(u)
        /\ \A s \in I \cup {n + 1} : s \in 1 .. LastSeq(u)
    <3>1. IsFiniteSet(I)  BY <1>3, <2>1, FS_Interval
    <3>2. n + 1 \notin I /\ I \cup {n + 1} = 1 .. n + 1  BY <1>3, <2>1
    <3> QED  BY <1>4, <3>1, <3>2
  <2>3. \A s \in 1 .. LastSeq(u) :
            SizeIn(i, Entry(u, s)) \in Nat /\ ValueIn(i, Entry(u, s)) \in Nat
    BY <1>10, LogSums
  <2>4. Traded(t, i) \in Nat /\ Worth(t, i) \in Nat  BY LogSums
  <2>5. Traded(u, i) = Traded(t, i) + SizeIn(i, e)
    <3> DEFINE F == [s \in 1 .. LastSeq(u) |-> SizeIn(i, Entry(u, s))]
               G == [s \in 1 .. LastSeq(t) |-> SizeIn(i, Entry(t, s))]
    <3>1. /\ \A s \in I \cup {n + 1} : F[s] \in Int
          /\ F[n + 1] = SizeIn(i, e)
      BY <1>12, <2>2, <2>3
    <3>2. \A s \in I : F[s] = G[s]  BY <1>2, <1>11, <2>1, <2>2
    <3>3. Traded(u, i) = SumFunctionOnSet(F, I \cup {n + 1})  BY <2>2 DEF Traded
    <3>4. Traded(t, i) = SumFunctionOnSet(G, I)  BY <1>2, <2>1 DEF Traded
    <3> HIDE DEF F, G
    <3>5. SumFunctionOnSet(F, I \cup {n + 1}) = F[n + 1] + SumFunctionOnSet(F, I)
      BY <2>2, <3>1, SumAdd
    <3>6. SumFunctionOnSet(F, I) = SumFunctionOnSet(G, I)  BY <2>2, <3>2, SumAgree
    <3>7. SizeIn(i, e) \in Nat  BY EntryNat
    <3> QED  BY <2>4, <3>1, <3>3, <3>4, <3>5, <3>6, <3>7
  <2>6. Worth(u, i) = Worth(t, i) + ValueIn(i, e)
    <3> DEFINE F == [s \in 1 .. LastSeq(u) |-> ValueIn(i, Entry(u, s))]
               G == [s \in 1 .. LastSeq(t) |-> ValueIn(i, Entry(t, s))]
    <3>1. /\ \A s \in I \cup {n + 1} : F[s] \in Int
          /\ F[n + 1] = ValueIn(i, e)
      BY <1>12, <2>2, <2>3
    <3>2. \A s \in I : F[s] = G[s]  BY <1>2, <1>11, <2>1, <2>2
    <3>3. Worth(u, i) = SumFunctionOnSet(F, I \cup {n + 1})  BY <2>2 DEF Worth
    <3>4. Worth(t, i) = SumFunctionOnSet(G, I)  BY <1>2, <2>1 DEF Worth
    <3> HIDE DEF F, G
    <3>5. SumFunctionOnSet(F, I \cup {n + 1}) = F[n + 1] + SumFunctionOnSet(F, I)
      BY <2>2, <3>1, SumAdd
    <3>6. SumFunctionOnSet(F, I) = SumFunctionOnSet(G, I)  BY <2>2, <3>2, SumAgree
    <3>7. ValueIn(i, e) \in Nat  BY EntryNat
    <3> QED  BY <2>4, <3>1, <3>3, <3>4, <3>5, <3>6, <3>7
  <2> QED  BY <2>5, <2>6
<1> QED  BY <1>1, <1>2, <1>4, <1>10, <1>13

\* Logs stored again.
LEMMA LogRepeat ==
    ASSUME NEW t, LogFine(t), NEW n \in 1 .. Len(t)
    PROVE  LET u == t \o SubSeq(t, n, Len(t))
           IN  /\ LogFine(u) /\ LastSeq(u) = LastSeq(t)
               /\ \A i : Traded(u, i) = Traded(t, i) /\ Worth(u, i) = Worth(t, i)
<1>1. PICK u : u = t \o SubSeq(t, n, Len(t))  OBVIOUS
<1>2. PICK c : c = Len(t)  OBVIOUS
<1>3. t \in Seq(LogEntry) /\ c \in Nat /\ n \in 1 .. c  BY <1>2 DEF LogFine
<1>4. PICK q : q = SubSeq(t, n, c)  OBVIOUS
<1>5. /\ q \in Seq(LogEntry) /\ Len(q) = c - n + 1
      /\ \A k \in 1 .. Len(q) : q[k] = t[n + k - 1]
  BY <1>2, <1>3, <1>4
<1>6. /\ u \in Seq(LogEntry) /\ Len(u) = c + Len(q)
      /\ \A k \in 1 .. c : u[k] = t[k]
      /\ \A k \in c + 1 .. Len(u) : u[k] = q[k - c]
  <2>1. u = t \o q  BY <1>1, <1>2, <1>4
  <2>2. u \in Seq(LogEntry) /\ Len(u) = c + Len(q)  BY <1>2, <1>3, <1>5, <2>1, Joined
  <2>3. \A k \in 1 .. c : u[k] = t[k]  BY <1>2, <1>3, <1>5, <2>1
  <2>4. \A k \in c + 1 .. Len(u) : u[k] = q[k - c]  BY <1>2, <1>3, <1>5, <2>1
  <2> QED  BY <2>2, <2>3, <2>4
<1>7. ASSUME NEW k \in 1 .. Len(u) PROVE \E l \in 1 .. c : u[k] = t[l]
  <2>0. Len(u) \in Nat /\ Len(q) \in Nat  BY <1>5, <1>6
  <2>1. CASE k \in 1 .. c  BY <1>6, <2>1
  <2>2. CASE k \in c + 1 .. Len(u)
    <3>1. k - c \in 1 .. Len(q)  BY <1>3, <1>6, <2>0, <2>2
    <3>2. u[k] = t[n + (k - c) - 1]  BY <1>5, <1>6, <2>2, <3>1
    <3>3. n + (k - c) - 1 \in 1 .. c  BY <1>3, <1>5, <2>0, <3>1
    <3> QED  BY <3>2, <3>3
  <2> QED  BY <1>3, <2>0, <2>1, <2>2
<1>8. Len(u) >= c + 1 /\ u[Len(u)] = t[c] /\ u # << >> /\ t # << >> /\ 1 .. c \subseteq 1 .. Len(u)
  <2>1. Len(q) \in 1 .. Len(q) /\ n + Len(q) - 1 = c /\ Len(q) >= 1  BY <1>3, <1>5
  <2>2. Len(u) \in c + 1 .. Len(u) /\ Len(u) - c = Len(q)  BY <1>3, <1>6, <2>1
  <2>3. u[Len(u)] = t[c]  BY <1>5, <1>6, <2>1, <2>2
  <2>4. u # << >> /\ t # << >>  BY <1>2, <1>3, <1>6, <2>1
  <2> QED  BY <1>3, <1>6, <2>1, <2>2, <2>3, <2>4
<1>9. LastSeq(u) = LastSeq(t)  BY <1>2, <1>8 DEF LastSeq, Last
<1>10. LogFine(u)
  <2>1. \A k \in 1 .. Len(u) : u[k].seq \in 1 .. LastSeq(u) /\ TradeOK(u[k])
    BY <1>2, <1>7, <1>9 DEF LogFine
  <2>2. \A s \in 1 .. LastSeq(u) : \E k \in 1 .. Len(u) : u[k].seq = s
    <3> TAKE s \in 1 .. LastSeq(u)
    <3>1. PICK k \in 1 .. c : t[k].seq = s  BY <1>2, <1>9 DEF LogFine
    <3> QED  BY <1>6, <1>8, <3>1
  <2>3. \A k, l \in 1 .. Len(u) : u[k].seq = u[l].seq => u[k] = u[l]
    <3> TAKE k, l \in 1 .. Len(u)
    <3>1. PICK a \in 1 .. c : u[k] = t[a]  BY <1>7
    <3>2. PICK b \in 1 .. c : u[l] = t[b]  BY <1>7
    <3> QED  BY <1>2, <3>1, <3>2 DEF LogFine
  <2>4. LastSeq(u) \in Nat  BY <1>9 DEF LogFine
  <2> QED  BY <1>6, <2>1, <2>2, <2>3, <2>4 DEF LogFine
<1>11. ASSUME NEW s \in 1 .. LastSeq(t) PROVE Entry(u, s) = Entry(t, s)
  <2>1. PICK k \in 1 .. c : t[k].seq = s  BY <1>2 DEF LogFine
  <2>2. k \in 1 .. Len(u) /\ u[k] = t[k]  BY <1>6, <1>8
  <2>3. Entry(t, t[k].seq) = t[k]  BY <1>2, EntryOf
  <2>4. Entry(u, u[k].seq) = u[k]  BY <1>10, <2>2, EntryOf
  <2> QED  BY <2>1, <2>2, <2>3, <2>4
<1>12. ASSUME NEW i PROVE Traded(u, i) = Traded(t, i) /\ Worth(u, i) = Worth(t, i)
  BY <1>9, <1>11 DEF Traded, Worth
<1> QED  BY <1>1, <1>9, <1>10, <1>12
-----------------------------------------------------------------------------
(* The invariant.                                                          *)

\* The engine's orders are what the log has left of the requests.
OrderOK(i, t, lv, status) ==
    LET r == Request[i]
        o == lv[i]
    IN  /\ o.phase = "none" <=> status = "none"
        /\ o.phase = "none" => Traded(t, i) = 0 /\ Worth(t, i) = 0
        /\ o.phase # "none" =>
              /\ r.size = 0 => o.size = 0
              /\ r.size > 0 => Traded(t, i) = r.size - o.size
              /\ r.side = "buy" => Worth(t, i) = r.funds - o.funds
              /\ r.side = "buy" /\ r.size > 0 => o.funds >= o.size * r.price
              /\ HoldSize(r) > 0
        /\ o.phase = "open" => r.price > 0 /\ r.size > 0

EngineOK == LogFine(logTopic) /\ \A i \in Ids : OrderOK(i, logTopic, live, order[i].status)

\* A fill is of a log entry.
FillOf(f, e) ==
    /\ e.seq = f.seq
    /\ \/ /\ e.type = "match" /\ ~ f.done
          /\ \/ f.id = e.taker /\ f.liquidity = "T"
             \/ f.id = e.maker /\ f.liquidity = "M"
          /\ f.size = e.size /\ f.price = e.price
       \/ /\ e.type = "done" /\ f.done
          /\ f.id = e.id /\ f.reason = e.reason /\ f.size = 0 /\ f.price = 0

Genuine(f, t) == \E k \in 1 .. Len(t) : FillOf(f, t[k])

AllGenuine(q, t) == \A n \in 1 .. Len(q) : Genuine(q[n], t)

AllFresh(q) == \A n \in 1 .. Len(q) : ~ q[n].settled

\* The fills on their way to the table.
PipeGenuine ==
    /\ AllGenuine(fillCh, logTopic) /\ AllGenuine(batch, logTopic)
    /\ makerFill # NoFill => Genuine(makerFill, logTopic) /\ ~ makerFill.settled
    /\ AllFresh(fillCh) /\ AllFresh(batch)

FillsGenuine == AllGenuine(fillRows, logTopic) /\ PipeGenuine

\* The flusher inserts a batch that has reached the limit.
BatchRoom == ~ flushing => Len(batch) < FlushMax

RowsUnique ==
    \A m, n \in 1 .. Len(fillRows) :
        fillRows[m].id = fillRows[n].id /\ fillRows[m].seq = fillRows[n].seq => m = n

\* The rows of an order that are settled.
Settled(i) == {n \in 1 .. Len(fillRows) : fillRows[n].id = i /\ fillRows[n].settled}

SettledSums ==
    \A i \in Ids : order[i].filled = Sizes(Settled(i)) /\ order[i].executed = Values(Settled(i))

\* Bills add to what is available, and take from what is held.
BillsSigned ==
    \A n \in 1 .. Len(bills) : /\ bills[n].available >= 0 /\ bills[n].hold <= 0
                               /\ bills[n].user = House => bills[n].hold = 0

AccountsSigned ==
    \A u \in Clients, c \in Currencies : /\ account[u][c].available >= 0
                                         /\ u = House => account[u][c].hold = 0

SettleInv ==
    TypeOK /\ EngineOK /\ FillsGenuine /\ BatchRoom /\ RowsUnique /\ SettledSums
           /\ BillsSigned /\ AccountsSigned /\ HoldsExact
-----------------------------------------------------------------------------
(* What is settled of an order is within what the log says it traded.      *)

\* What PlaceOrder lets through.
LEMMA Constants ==
    /\ \A i \in Ids : /\ Request[i] \in Requests /\ ValidRequest(Request[i])
                      /\ Request[i].user \in Users /\ Request[i].side \in {"buy", "sell"}
                      /\ Request[i].price \in Nat /\ Request[i].size \in Nat
                      /\ Request[i].funds \in Nat /\ HoldSize(Request[i]) \in Nat
                      /\ HoldCurrency(Request[i].side) \in Currencies
    /\ IsFiniteSet(Ids) /\ IsFiniteSet(Users)
<1>1. \A i \in Ids : Request[i] \in Requests /\ ValidRequest(Request[i])
  BY SettlementAssumption
<1> QED
  BY <1>1, SettlementAssumption DEF Requests, HoldSize, HoldCurrency, Currencies

LEMMA LastSeqDef == LastLogSeq = LastSeq(logTopic)
  BY DEF LastLogSeq, LastSeq

\* The fill rows of an order, each of its own log entry, add up to no more
\* than the log has traded of it.
LEMMA RowBound ==
    ASSUME TypeOK, EngineOK, FillsGenuine, RowsUnique, NEW i \in Ids,
           NEW A \in SUBSET {n \in 1 .. Len(fillRows) : fillRows[n].id = i}
    PROVE  /\ IsFiniteSet(A)
           /\ Sizes(A) \in Nat /\ Sizes(A) <= Traded(logTopic, i)
           /\ Values(A) \in Nat /\ Values(A) <= Worth(logTopic, i)
<1>0. /\ fillRows \in Seq(Fill) /\ Len(fillRows) \in Nat /\ LogFine(logTopic)
  BY DEF TypeOK, EngineOK
<1>1. IsFiniteSet(A)
  <2>1. IsFiniteSet(1 .. Len(fillRows)) /\ A \subseteq 1 .. Len(fillRows)
    BY <1>0, FS_Interval
  <2> QED  BY <2>1, FS_Subset
<1>2. PICK T : T = 1 .. LastSeq(logTopic)  OBVIOUS
<1>3. IsFiniteSet(T)  BY <1>0, <1>2, LogSums
<1>f. PICK f : f = [n \in A |-> fillRows[n].seq]  OBVIOUS
<1>F. PICK F : F = [n \in A |-> fillRows[n].size]  OBVIOUS
<1>G. PICK G : G = [s \in T |-> SizeIn(i, Entry(logTopic, s))]  OBVIOUS
<1>J. PICK J : J = [n \in A |-> fillRows[n].size * fillRows[n].price]  OBVIOUS
<1>H. PICK H : H = [s \in T |-> ValueIn(i, Entry(logTopic, s))]  OBVIOUS
<1>4. \A s \in T : G[s] \in Nat /\ H[s] \in Nat  BY <1>0, <1>2, <1>G, <1>H, LogSums
<1>5. ASSUME NEW n \in A
      PROVE  /\ f[n] \in T /\ F[n] \in Nat /\ J[n] \in Nat
             /\ F[n] = G[f[n]] /\ J[n] = H[f[n]]
  <2>1. n \in 1 .. Len(fillRows) /\ fillRows[n].id = i /\ fillRows[n] \in Fill  BY <1>0
  <2>2. PICK k \in 1 .. Len(logTopic) : FillOf(fillRows[n], logTopic[k])
    BY <2>1 DEF FillsGenuine, AllGenuine, Genuine
  <2>3. PICK e : e = logTopic[k]  OBVIOUS
  <2>4. /\ e.seq = fillRows[n].seq /\ e.seq \in 1 .. LastSeq(logTopic)
        /\ Entry(logTopic, e.seq) = e
    <3>1. e.seq = fillRows[n].seq  BY <2>2, <2>3 DEF FillOf
    <3>2. e.seq \in 1 .. LastSeq(logTopic)  BY <1>0, <2>3 DEF LogFine
    <3>3. Entry(logTopic, e.seq) = e  BY <1>0, <2>3, EntryOf
    <3> QED  BY <3>1, <3>2, <3>3
  <2>5. fillRows[n].size \in Nat /\ fillRows[n].price \in Nat  BY <2>1 DEF Fill
  <2>6. fillRows[n].size * fillRows[n].price \in Nat  BY <2>5
  <2>7. /\ SizeIn(i, e) = fillRows[n].size
        /\ ValueIn(i, e) = fillRows[n].size * fillRows[n].price
    BY <2>1, <2>2, <2>3, <2>5 DEF FillOf, SizeIn, ValueIn
  <2> QED  BY <1>2, <1>f, <1>F, <1>G, <1>J, <1>H, <2>4, <2>5, <2>6, <2>7
<1>6. \A m, n \in A : f[m] = f[n] => m = n
  <2> TAKE m, n \in A
  <2>1. /\ m \in 1 .. Len(fillRows) /\ n \in 1 .. Len(fillRows)
        /\ fillRows[m].id = i /\ fillRows[n].id = i
    OBVIOUS
  <2> QED  BY <1>f, <2>1 DEF RowsUnique
<1>7. /\ Sizes(A) = SumFunctionOnSet(F, A) /\ Values(A) = SumFunctionOnSet(J, A)
  BY <1>F, <1>J DEF Sizes, Values
<1>8. /\ Traded(logTopic, i) = SumFunctionOnSet(G, T) /\ Worth(logTopic, i) = SumFunctionOnSet(H, T)
  BY <1>2, <1>G, <1>H DEF Traded, Worth
<1>9. SumFunctionOnSet(F, A) \in Nat /\ SumFunctionOnSet(F, A) <= SumFunctionOnSet(G, T)
  <2>1. \A n \in A : f[n] \in T /\ F[n] = G[f[n]]  BY <1>5
  <2> QED  BY <1>1, <1>3, <1>4, <1>6, <2>1, SumInto
<1>10. SumFunctionOnSet(J, A) \in Nat /\ SumFunctionOnSet(J, A) <= SumFunctionOnSet(H, T)
  <2>1. \A n \in A : f[n] \in T /\ J[n] = H[f[n]]  BY <1>5
  <2> QED  BY <1>1, <1>3, <1>4, <1>6, <2>1, SumInto
<1> QED  BY <1>1, <1>7, <1>8, <1>9, <1>10

\* What an order has paid out of its hold.
Paid(i) == IF Request[i].side = "buy" THEN order[i].executed ELSE order[i].filled

\* An order's fill rows cost no more than its hold.
LEMMA PaidBound ==
    ASSUME TypeOK, EngineOK, FillsGenuine, RowsUnique, SettledSums, NEW i \in Ids
    PROVE  /\ order[i].executed \in Nat /\ order[i].filled \in Nat
           /\ order[i].status = "none" => order[i].executed = 0 /\ order[i].filled = 0
           /\ order[i].status # "none" =>
                 \A A \in SUBSET {n \in 1 .. Len(fillRows) : fillRows[n].id = i} :
                    (IF Request[i].side = "buy" THEN Values(A) ELSE Sizes(A)) <= HoldSize(Request[i])
<1>1. Settled(i) \in SUBSET {n \in 1 .. Len(fillRows) : fillRows[n].id = i}  BY DEF Settled
<1>2. order[i].filled = Sizes(Settled(i)) /\ order[i].executed = Values(Settled(i))
  BY DEF SettledSums
<1>3. /\ order[i].filled \in Nat /\ order[i].filled <= Traded(logTopic, i)
      /\ order[i].executed \in Nat /\ order[i].executed <= Worth(logTopic, i)
  BY <1>1, <1>2, RowBound
<1>4. LogFine(logTopic) /\ OrderOK(i, logTopic, live, order[i].status)  BY DEF EngineOK
<1>5. Traded(logTopic, i) \in Nat /\ Worth(logTopic, i) \in Nat  BY <1>4, LogSums
<1>6. order[i].status = "none" => order[i].executed = 0 /\ order[i].filled = 0
  BY <1>3, <1>4, <1>5 DEF OrderOK
<1>7. ASSUME order[i].status # "none",
             NEW A \in SUBSET {n \in 1 .. Len(fillRows) : fillRows[n].id = i}
      PROVE  (IF Request[i].side = "buy" THEN Values(A) ELSE Sizes(A)) <= HoldSize(Request[i])
  <2>1. /\ Sizes(A) \in Nat /\ Sizes(A) <= Traded(logTopic, i)
        /\ Values(A) \in Nat /\ Values(A) <= Worth(logTopic, i)
    BY RowBound
  <2>2. live[i].size \in Nat /\ live[i].funds \in Nat  BY DEF TypeOK
  <2>3. Request[i].size \in Nat /\ Request[i].funds \in Nat  BY Constants
  <2>4. live[i].phase # "none"  BY <1>4, <1>7 DEF OrderOK
  <2>5. CASE Request[i].side = "buy"
    <3>1. Worth(logTopic, i) = Request[i].funds - live[i].funds  BY <1>4, <2>4, <2>5 DEF OrderOK
    <3>2. Worth(logTopic, i) <= Request[i].funds  BY <1>5, <2>2, <2>3, <3>1
    <3> QED  BY <1>5, <2>1, <2>3, <2>5, <3>2 DEF HoldSize
  <2>6. CASE Request[i].side # "buy"
    <3>1. Request[i].size > 0  BY <1>4, <2>4, <2>6 DEF OrderOK, HoldSize
    <3>2. Traded(logTopic, i) = Request[i].size - live[i].size  BY <1>4, <2>4, <3>1 DEF OrderOK
    <3>3. Traded(logTopic, i) <= Request[i].size  BY <1>5, <2>2, <2>3, <3>2
    <3> QED  BY <1>5, <2>1, <2>3, <2>6, <3>3 DEF HoldSize
  <2> QED  BY <2>5, <2>6
<1> QED  BY <1>3, <1>6, <1>7

\* An order never owes more than was held for it, and never less than nothing.
LEMMA HeldNat ==
    ASSUME TypeOK, EngineOK, FillsGenuine, RowsUnique, SettledSums
    PROVE  \A i \in Ids : HeldBy(i) \in Nat /\ HeldBy(i) <= HoldSize(Request[i])
<1> TAKE i \in Ids
<1>1. HoldSize(Request[i]) \in Nat  BY Constants
<1>2. order[i].executed \in Nat /\ order[i].filled \in Nat  BY PaidBound
<1>3. CASE order[i].status \in {"none"} \cup Final
  <2>1. HeldBy(i) = 0  BY <1>3 DEF HeldBy
  <2> QED  BY <1>1, <2>1
<1>4. CASE order[i].status \notin {"none"} \cup Final
  <2>1. order[i].status # "none"  BY <1>4
  <2>2. Settled(i) \in SUBSET {n \in 1 .. Len(fillRows) : fillRows[n].id = i}  BY DEF Settled
  <2>3. (IF Request[i].side = "buy" THEN Values(Settled(i)) ELSE Sizes(Settled(i)))
            <= HoldSize(Request[i])
    BY <2>1, <2>2, PaidBound
  <2>4. order[i].filled = Sizes(Settled(i)) /\ order[i].executed = Values(Settled(i))
    BY DEF SettledSums
  <2>5. HeldBy(i) = HoldSize(Request[i]) - Paid(i)  BY <1>4 DEF HeldBy, Paid
  <2>6. Paid(i) \in Nat /\ Paid(i) <= HoldSize(Request[i])  BY <1>2, <2>3, <2>4 DEF Paid
  <2> QED  BY <1>1, <2>5, <2>6
<1> QED  BY <1>3, <1>4
-----------------------------------------------------------------------------
(* The engine's steps.                                                     *)

LEMMA MinTwo ==
    ASSUME NEW a \in Int, NEW b \in Int
    PROVE  Matching!Min({a, b}) \in {a, b} /\ Matching!Min({a, b}) <= a /\ Matching!Min({a, b}) <= b
<1>1. \E x \in {a, b} : \A y \in {a, b} : x <= y
  <2>1. CASE a <= b  BY <2>1
  <2>2. CASE b <= a  BY <2>2
  <2> QED  BY <2>1, <2>2
<1> QED  BY <1>1 DEF Matching!Min

LEMMA Product == ASSUME NEW a \in Nat, NEW b \in Nat PROVE a * b \in Nat
  BY Z3

LEMMA ProductGrows ==
    ASSUME NEW a \in Nat, NEW b \in Nat, NEW c \in Nat, NEW d \in Nat, a <= b, c <= d
    PROVE  a * c <= b * d
<1>1. a * c <= b * c /\ b * c <= b * d  BY Z3
<1>2. a * c \in Nat /\ b * c \in Nat /\ b * d \in Nat  BY Product
<1> QED  BY <1>1, <1>2

LEMMA Division ==
    ASSUME NEW f \in Nat, NEW p \in Nat, p > 0, NEW n \in Nat, n <= f \div p
    PROVE  n * p <= f
<1>1. (f \div p) \in Nat /\ (f \div p) * p <= f  BY Z3
<1>2. n * p <= (f \div p) * p  BY <1>1, ProductGrows
<1>3. n * p \in Nat /\ (f \div p) * p \in Nat  BY <1>1, Product
<1> QED  BY <1>1, <1>2, <1>3

Lives == [size : Nat, funds : Nat, phase : Matching!Phases]

\* What a trade leaves of an order.
LeftOver(i, o, z, p) ==
    [o EXCEPT !.size  = IF Request[i].size > 0 THEN @ - z ELSE 0,
              !.funds = IF Request[i].side = "buy" THEN @ - z * p ELSE @]

\* A trade that an order has room for, and what it leaves of it.
Fits(i, o, z, p) ==
    /\ i \in Ids /\ o \in Lives /\ z \in Nat /\ p \in Nat
    /\ Request[i].size > 0 => z <= o.size
    /\ Request[i].size = 0 => z * p <= o.funds
    /\ Request[i].side = "buy" /\ Request[i].size > 0 =>
           o.funds >= o.size * Request[i].price /\ p <= Request[i].price

Leaves(i, o, z, p, a) ==
    /\ a \in Lives /\ a.phase = o.phase
    /\ a.size = IF Request[i].size > 0 THEN o.size - z ELSE 0
    /\ a.funds = IF Request[i].side = "buy" THEN o.funds - z * p ELSE o.funds
    /\ Request[i].side = "buy" /\ Request[i].size > 0 => a.funds >= a.size * Request[i].price

\* A trade takes from an order's rest just what its log entry says.
LEMMA TradeFits ==
    ASSUME NEW i, NEW o, NEW z, NEW p, Fits(i, o, z, p)
    PROVE  Leaves(i, o, z, p, LeftOver(i, o, z, p))
<1>0. PICK a : a = LeftOver(i, o, z, p)  OBVIOUS
<1>b. SUFFICES Leaves(i, o, z, p, a)  BY <1>0
<1>a. /\ i \in Ids /\ o \in Lives /\ z \in Nat /\ p \in Nat
      /\ Request[i].size > 0 => z <= o.size
      /\ Request[i].size = 0 => z * p <= o.funds
      /\ Request[i].side = "buy" /\ Request[i].size > 0 =>
             o.funds >= o.size * Request[i].price /\ p <= Request[i].price
  BY DEF Fits
<1>1. /\ Request[i].size \in Nat /\ Request[i].price \in Nat
      /\ o.size \in Nat /\ o.funds \in Nat /\ o.phase \in Matching!Phases /\ z * p \in Nat
  BY <1>a, Constants, Product DEF Lives
<1>2. /\ a = [size |-> IF Request[i].size > 0 THEN o.size - z ELSE 0,
              funds |-> IF Request[i].side = "buy" THEN o.funds - z * p ELSE o.funds,
              phase |-> o.phase]
  BY <1>0, <1>a DEF Lives, LeftOver
<1>3. /\ a.phase = o.phase
      /\ a.size = IF Request[i].size > 0 THEN o.size - z ELSE 0
      /\ a.funds = IF Request[i].side = "buy" THEN o.funds - z * p ELSE o.funds
  BY <1>2
<1>4. a.size \in Nat  BY <1>1, <1>3, <1>a
<1>5. CASE Request[i].side = "buy" /\ Request[i].size > 0
  <2>1. PICK w : w = Request[i].price  OBVIOUS
  <2>2. PICK b : b = o.size - z  OBVIOUS
  <2>3. b \in Nat /\ o.size = b + z /\ w \in Nat /\ p <= w  BY <1>1, <1>5, <1>a, <2>1, <2>2
  <2>4. o.size * w = b * w + z * w  BY <1>a, <2>3, Z3
  <2>5. z * p <= z * w  BY <1>a, <2>3, ProductGrows
  <2>6. b * w \in Nat /\ z * w \in Nat  BY <1>a, <2>3, Product
  <2>7. o.funds - z * p \in Nat /\ o.funds - z * p >= b * w
    <3>1. o.funds >= b * w + z * w  BY <1>5, <1>a, <2>1, <2>4
    <3> QED  BY <1>1, <2>5, <2>6, <3>1
  <2>8. a.funds \in Nat /\ a.funds >= a.size * Request[i].price  BY <1>3, <1>5, <2>1, <2>2, <2>7
  <2>9. a \in Lives  BY <1>1, <1>2, <1>3, <1>4, <2>8 DEF Lives
  <2> QED  BY <1>3, <2>8, <2>9 DEF Leaves
<1>6. CASE Request[i].side = "buy" /\ Request[i].size = 0
  <2>1. a.funds \in Nat  BY <1>1, <1>3, <1>6, <1>a
  <2>2. a \in Lives  BY <1>1, <1>2, <1>3, <1>4, <2>1 DEF Lives
  <2> QED  BY <1>1, <1>3, <1>6, <2>2 DEF Leaves
<1>7. CASE Request[i].side # "buy"
  <2>1. a.funds \in Nat  BY <1>1, <1>3, <1>7, <1>a
  <2>2. a \in Lives  BY <1>1, <1>2, <1>3, <1>4, <2>1 DEF Lives
  <2> QED  BY <1>3, <1>7, <2>2 DEF Leaves
<1> QED  BY <1>1, <1>5, <1>6, <1>7

\* What two orders that can match can trade.
LEMMA TradeFacts ==
    ASSUME TypeOK, EngineOK, NEW t \in Ids, NEW m \in Ids, Matching!CanMatch(t, m)
    PROVE  LET z == Matching!TradeSize(t, m)
               p == Request[m].price
           IN  /\ t # m /\ Request[t].side # Request[m].side
               /\ z \in Nat /\ z > 0 /\ p \in Nat /\ p > 0
               /\ z <= live[m].size /\ Request[m].size > 0 /\ z <= Request[m].size
               /\ Request[t].size > 0 => z <= live[t].size
               /\ Request[t].size = 0 => z * p <= live[t].funds
               /\ Request[t].side = "buy" /\ Request[t].size > 0 => p <= Request[t].price
               /\ live[t].phase # "none" /\ live[m].phase = "open"
<1>1. /\ live[t] \in Lives /\ live[m] \in Lives  BY DEF TypeOK, Lives
<1>2. /\ live[t].size \in Nat /\ live[t].funds \in Nat /\ live[m].size \in Nat
  BY <1>1 DEF Lives
<1>3. /\ live[m].phase = "open" /\ Request[t].side # Request[m].side
      /\ Matching!Crosses(t, Request[m].price) /\ Matching!TradeSize(t, m) > 0
      /\ live[t].phase \in {"sent", "taking"}
  BY DEF Matching!CanMatch, Matching!IsTaken
<1>4. LogFine(logTopic) /\ OrderOK(m, logTopic, live, order[m].status)  BY DEF EngineOK
<1>5. Request[m].price > 0 /\ Request[m].size > 0  BY <1>3, <1>4 DEF OrderOK
<1>6. /\ Request[m].price \in Nat /\ Request[m].size \in Nat /\ Request[t].size \in Nat
      /\ Request[t].price \in Nat /\ ValidRequest(Request[t])
  BY Constants
<1>7. PICK p : p = Request[m].price  OBVIOUS
<1>8. PICK x : x = Matching!CanTrade(t, p)  OBVIOUS
<1>9. PICK y : y = Matching!CanTrade(m, p)  OBVIOUS
<1>10. y = live[m].size  BY <1>5, <1>9 DEF Matching!CanTrade
<1>11. x = IF Request[t].size > 0 THEN live[t].size ELSE live[t].funds \div p
  BY <1>8 DEF Matching!CanTrade
<1>12. x \in Nat
  <2>1. live[t].funds \div p \in Nat  BY <1>2, <1>5, <1>6, <1>7, Z3
  <2> QED  BY <1>2, <1>11, <2>1
<1>13. PICK z : z = Matching!TradeSize(t, m)  OBVIOUS
<1>14. z = Matching!Min({x, y})  BY <1>7, <1>8, <1>9, <1>13 DEF Matching!TradeSize
<1>15. z \in Nat /\ z <= x /\ z <= y
  <2>1. x \in Int /\ y \in Nat /\ y \in Int  BY <1>2, <1>10, <1>12
  <2>2. z \in {x, y} /\ z <= x /\ z <= y  BY <1>14, <2>1, MinTwo
  <2> QED  BY <1>12, <2>1, <2>2
<1>16. Traded(logTopic, m) \in Nat /\ Traded(logTopic, m) = Request[m].size - live[m].size
  BY <1>3, <1>4, <1>5, LogSums DEF OrderOK
<1>17. z <= Request[m].size  BY <1>2, <1>6, <1>10, <1>15, <1>16
<1>18. Request[t].size > 0 => z <= live[t].size  BY <1>11, <1>15
<1>19. Request[t].size = 0 => z * p <= live[t].funds
  BY <1>2, <1>5, <1>6, <1>7, <1>11, <1>15, Division
<1>20. Request[t].side = "buy" /\ Request[t].size > 0 => p <= Request[t].price
  BY <1>3, <1>6, <1>7 DEF Matching!Crosses, ValidRequest
<1>21. t # m  BY <1>3
<1> QED
  BY <1>3, <1>5, <1>6, <1>7, <1>10, <1>13, <1>15, <1>17, <1>18, <1>19, <1>20, <1>21

\* A log that grows keeps its fills.
Grows(t, u) ==
    u \in Seq(LogEntry) /\ Len(t) <= Len(u) /\ \A k \in 1 .. Len(t) : u[k] = t[k]

LEMMA GenuineGrows ==
    ASSUME NEW t \in Seq(LogEntry), NEW u, Grows(t, u)
    PROVE  /\ \A f : Genuine(f, t) => Genuine(f, u)
           /\ \A q : AllGenuine(q, t) => AllGenuine(q, u)
<1>1. \A k \in 1 .. Len(t) : k \in 1 .. Len(u) /\ u[k] = t[k]  BY DEF Grows
<1>2. \A f : Genuine(f, t) => Genuine(f, u)  BY <1>1 DEF Genuine
<1> QED  BY <1>2 DEF AllGenuine

\* An order's sums stay while the table and its own numbers do.
LEMMA SameTable ==
    ASSUME SettledSums, fillRows' = fillRows,
           \A i \in Ids : order'[i].executed = order[i].executed /\ order'[i].filled = order[i].filled
    PROVE  SettledSums'
<1>1. ASSUME NEW i \in Ids
      PROVE  Sizes(Settled(i))' = Sizes(Settled(i)) /\ Values(Settled(i))' = Values(Settled(i))
  <2>1. Settled(i)' = Settled(i)  BY DEF Settled
  <2> QED  BY <2>1 DEF Sizes, Values
<1> QED  BY <1>1 DEF SettledSums

\* The engine changes its orders and the log alone.
LEMMA EngineFrame ==
    ASSUME SettleInv, UNCHANGED <<tables, maker, crashes, halved>>, repeats' \in 0 .. MaxRepeats,
           Grows(logTopic, logTopic'), live' \in [Ids -> Lives],
           LogFine(logTopic'), \A i \in Ids : OrderOK(i, logTopic', live', order[i].status)
    PROVE  SettleInv'
<1>1. /\ account' = account /\ order' = order /\ fillRows' = fillRows /\ bills' = bills
      /\ readOffset' = readOffset /\ lastSeq' = lastSeq /\ makerFill' = makerFill
      /\ fillCh' = fillCh /\ batch' = batch /\ flushing' = flushing
      /\ crashes' = crashes /\ halved' = halved
  BY DEF tables, maker
<1>2. TypeOK'
  <2>1. logTopic' \in Seq(LogEntry)  BY DEF LogFine
  <2>2. TypeOK  BY DEF SettleInv
  <2> QED  BY <1>1, <2>1, <2>2 DEF TypeOK, Lives
<1>3. EngineOK'  BY <1>1 DEF EngineOK
<1>4. FillsGenuine'
  <2>1. logTopic \in Seq(LogEntry) /\ FillsGenuine  BY DEF SettleInv, TypeOK
  <2>2. /\ \A f : Genuine(f, logTopic) => Genuine(f, logTopic')
        /\ \A q : AllGenuine(q, logTopic) => AllGenuine(q, logTopic')
    BY <2>1, GenuineGrows
  <2> QED  BY <1>1, <2>1, <2>2, Zenon DEF FillsGenuine, PipeGenuine
<1>5. RowsUnique' /\ SettledSums' /\ BatchRoom'
  <2>1. RowsUnique /\ SettledSums /\ BatchRoom  BY DEF SettleInv
  <2>2. RowsUnique' /\ BatchRoom'  BY <1>1, <2>1, Zenon DEF RowsUnique, BatchRoom
  <2>3. SettledSums'  BY <1>1, <2>1, SameTable
  <2> QED  BY <2>2, <2>3
<1>6. BillsSigned' /\ AccountsSigned'
  <2>1. BillsSigned /\ AccountsSigned  BY DEF SettleInv
  <2> QED  BY <1>1, <2>1, Zenon DEF BillsSigned, AccountsSigned
<1>7. HoldsExact'
  <2>1. HoldsExact  BY DEF SettleInv
  <2> QED  BY <1>1, <2>1, Zenon DEF HoldsExact, Holds, HeldBy
<1> QED  BY <1>2, <1>3, <1>4, <1>5, <1>6, <1>7 DEF SettleInv

\* Entries of no trade change no sum.
LEMMA NoTrade ==
    ASSUME NEW e, e.type # "match" PROVE \A i : SizeIn(i, e) = 0 /\ ValueIn(i, e) = 0 /\ TradeOK(e)
  BY DEF SizeIn, ValueIn, TradeOK

LEMMA GrowsAppend ==
    ASSUME NEW t \in Seq(LogEntry), NEW e \in LogEntry
    PROVE  Grows(t, Append(t, e)) /\ Append(t, e) \in Seq(LogEntry)
  BY Sent DEF Grows

LEMMA GrowsTwice ==
    ASSUME NEW t, NEW u, NEW v, t \in Seq(LogEntry), u \in Seq(LogEntry), Grows(t, u), Grows(u, v)
    PROVE  Grows(t, v)
<1>1. Len(t) \in Nat /\ Len(u) \in Nat /\ Len(v) \in Nat  BY DEF Grows
<1>2. Len(t) <= Len(v)  BY <1>1 DEF Grows
<1>3. \A k \in 1 .. Len(t) : k \in 1 .. Len(u)  BY <1>1 DEF Grows
<1> QED  BY <1>2, <1>3 DEF Grows

\* An Open log trades nothing.
LEMMA OpenInv == ASSUME SettleInv, NEW i \in Ids, OpenOrder(i) PROVE SettleInv'
<1>0. TypeOK /\ EngineOK  BY DEF SettleInv
<1>1. LogFine(logTopic) /\ logTopic \in Seq(LogEntry) /\ live \in [Ids -> Lives]
  BY <1>0 DEF EngineOK, TypeOK, Lives
<1>2. PICK e : e = [type |-> "open", seq |-> NextSeq, id |-> i]  OBVIOUS
<1>3. logTopic' = Append(logTopic, e)  BY <1>2 DEF OpenOrder
<1>4. e \in LogEntry /\ e.seq = LastSeq(logTopic) + 1 /\ e.type = "open"
  <2>1. LastSeq(logTopic) \in Nat  BY <1>1 DEF LogFine
  <2> QED  BY <1>2, <2>1, LastSeqDef DEF NextSeq, LogEntry
<1>5. \A j : SizeIn(j, e) = 0 /\ ValueIn(j, e) = 0 /\ TradeOK(e)  BY <1>4, NoTrade
<1>6. /\ LogFine(logTopic')
      /\ \A j : /\ Traded(logTopic', j) = Traded(logTopic, j) + SizeIn(j, e)
                /\ Worth(logTopic', j) = Worth(logTopic, j) + ValueIn(j, e)
  BY <1>1, <1>3, <1>4, <1>5, LogNext
<1>7. \A j : /\ Traded(logTopic', j) = Traded(logTopic, j) /\ Worth(logTopic', j) = Worth(logTopic, j)
  BY <1>1, <1>5, <1>6, LogSums
<1>8. /\ live' = [live EXCEPT ![i].phase = "open"] /\ live[i].phase \in {"sent", "taking"}
      /\ Request[i].price > 0 /\ live[i].size > 0
  BY DEF OpenOrder, Matching!Open, Matching!IsTaken
<1>9. live[i] \in Lives /\ live'[i] = [live[i] EXCEPT !.phase = "open"]
      /\ \A j \in Ids : j # i => live'[j] = live[j]
  BY <1>1, <1>8
<1>10. live' \in [Ids -> Lives]
  <2>1. live'[i] \in Lives  BY <1>9 DEF Lives, Matching!Phases
  <2> QED  BY <1>1, <1>8, <1>9, <2>1
<1>11. /\ live'[i].size = live[i].size /\ live'[i].funds = live[i].funds /\ live'[i].phase = "open"
  BY <1>9 DEF Lives
<1>12. \A j \in Ids : OrderOK(j, logTopic, live, order[j].status)  BY <1>0 DEF EngineOK
<1>13. \A j \in Ids : OrderOK(j, logTopic', live', order[j].status)
  <2> TAKE j \in Ids
  <2>1. CASE j # i  BY <1>7, <1>9, <1>12, <2>1 DEF OrderOK
  <2>2. CASE j = i
    <3>1. live[i].phase # "none" /\ live'[i].phase # "none"  BY <1>8, <1>11
    <3>2. Request[i].size > 0
      BY <1>8, <1>12, <3>1, Constants DEF OrderOK
    <3> QED  BY <1>7, <1>8, <1>11, <1>12, <2>2, <3>1, <3>2 DEF OrderOK
  <2> QED  BY <2>1, <2>2
<1>14. Grows(logTopic, logTopic')  BY <1>1, <1>3, <1>4, GrowsAppend
<1>15. UNCHANGED <<tables, maker, crashes, halved>> /\ repeats' \in 0 .. MaxRepeats
  BY <1>0 DEF OpenOrder, TypeOK
<1> QED  BY <1>6, <1>10, <1>13, <1>14, <1>15, EngineFrame

\* A Done log trades nothing.
LEMMA FinishInv == ASSUME SettleInv, NEW i \in Ids, FinishOrder(i) PROVE SettleInv'
<1>0. TypeOK /\ EngineOK  BY DEF SettleInv
<1>1. LogFine(logTopic) /\ logTopic \in Seq(LogEntry) /\ live \in [Ids -> Lives]
  BY <1>0 DEF EngineOK, TypeOK, Lives
<1>2. PICK e : e = DoneEntry(i, NextSeq, Matching!UsedUp(live[i], i))  OBVIOUS
<1>3. logTopic' = Append(logTopic, e)  BY <1>2 DEF FinishOrder
<1>4. e \in LogEntry /\ e.seq = LastSeq(logTopic) + 1 /\ e.type = "done"
  <2>1. LastSeq(logTopic) \in Nat  BY <1>1 DEF LogFine
  <2> QED  BY <1>2, <2>1, LastSeqDef DEF NextSeq, LogEntry, DoneEntry
<1>5. \A j : SizeIn(j, e) = 0 /\ ValueIn(j, e) = 0 /\ TradeOK(e)  BY <1>4, NoTrade
<1>6. /\ LogFine(logTopic')
      /\ \A j : /\ Traded(logTopic', j) = Traded(logTopic, j) + SizeIn(j, e)
                /\ Worth(logTopic', j) = Worth(logTopic, j) + ValueIn(j, e)
  BY <1>1, <1>3, <1>4, <1>5, LogNext
<1>7. \A j : /\ Traded(logTopic', j) = Traded(logTopic, j) /\ Worth(logTopic', j) = Worth(logTopic, j)
  BY <1>1, <1>5, <1>6, LogSums
<1>8. /\ live' = [live EXCEPT ![i].phase = "done"] /\ live[i].phase # "none"
  BY DEF FinishOrder, Matching!Finish, Matching!IsTaken
<1>9. live[i] \in Lives /\ live'[i] = [live[i] EXCEPT !.phase = "done"]
      /\ \A j \in Ids : j # i => live'[j] = live[j]
  BY <1>1, <1>8
<1>10. live' \in [Ids -> Lives]
  <2>1. live'[i] \in Lives  BY <1>9 DEF Lives, Matching!Phases
  <2> QED  BY <1>1, <1>8, <1>9, <2>1
<1>11. /\ live'[i].size = live[i].size /\ live'[i].funds = live[i].funds /\ live'[i].phase = "done"
  BY <1>9 DEF Lives
<1>12. \A j \in Ids : OrderOK(j, logTopic, live, order[j].status)  BY <1>0 DEF EngineOK
<1>13. \A j \in Ids : OrderOK(j, logTopic', live', order[j].status)
  <2> TAKE j \in Ids
  <2>1. CASE j # i  BY <1>7, <1>9, <1>12, <2>1 DEF OrderOK
  <2>2. CASE j = i
    <3>1. live[i].phase # "none" /\ live'[i].phase # "none" /\ live'[i].phase # "open"  BY <1>8, <1>11
    <3> QED  BY <1>7, <1>8, <1>11, <1>12, <2>2, <3>1 DEF OrderOK
  <2> QED  BY <2>1, <2>2
<1>14. Grows(logTopic, logTopic')  BY <1>1, <1>3, <1>4, GrowsAppend
<1>15. UNCHANGED <<tables, maker, crashes, halved>> /\ repeats' \in 0 .. MaxRepeats
  BY <1>0 DEF FinishOrder, TypeOK
<1> QED  BY <1>6, <1>10, <1>13, <1>14, <1>15, EngineFrame

\* Logs stored again are the ones stored before.
LEMMA RepeatInv == ASSUME SettleInv, RepeatLogs PROVE SettleInv'
<1>0. TypeOK /\ EngineOK  BY DEF SettleInv
<1>1. LogFine(logTopic) /\ logTopic \in Seq(LogEntry) /\ live \in [Ids -> Lives]
  BY <1>0 DEF EngineOK, TypeOK, Lives
<1>2. PICK n \in DOMAIN logTopic : logTopic' = logTopic \o SubSeq(logTopic, n, Len(logTopic))
  BY DEF RepeatLogs
<1>3. n \in 1 .. Len(logTopic) /\ Len(logTopic) \in Nat  BY <1>1, <1>2
<1>4. /\ LogFine(logTopic')
      /\ \A j : Traded(logTopic', j) = Traded(logTopic, j) /\ Worth(logTopic', j) = Worth(logTopic, j)
  BY <1>1, <1>2, <1>3, LogRepeat
<1>5. Grows(logTopic, logTopic')
  <2>1. SubSeq(logTopic, n, Len(logTopic)) \in Seq(LogEntry)  BY <1>1, <1>3
  <2> QED  BY <1>1, <1>2, <2>1, Joined DEF Grows
<1>6. live' = live /\ \A j \in Ids : OrderOK(j, logTopic, live, order[j].status)
  BY <1>0 DEF RepeatLogs, EngineOK
<1>7. \A j \in Ids : OrderOK(j, logTopic', live', order[j].status)  BY <1>4, <1>6 DEF OrderOK
<1>8. UNCHANGED <<tables, maker, crashes, halved>> /\ repeats' \in 0 .. MaxRepeats
  <2>1. MaxRepeats \in Nat  BY SettlementAssumption
  <2> QED  BY <1>0, <2>1 DEF RepeatLogs, TypeOK
<1> QED  BY <1>1, <1>4, <1>5, <1>6, <1>7, <1>8, EngineFrame

\* A match takes from both orders what its log entry says.
LEMMA MatchInv == ASSUME SettleInv, NEW t \in Ids, NEW m \in Ids, MatchOrders(t, m) PROVE SettleInv'
<1>0. TypeOK /\ EngineOK  BY DEF SettleInv
<1>1. LogFine(logTopic) /\ logTopic \in Seq(LogEntry) /\ live \in [Ids -> Lives]
  BY <1>0 DEF EngineOK, TypeOK, Lives
<1>2. PICK z : z = Matching!TradeSize(t, m)  OBVIOUS
<1>3. PICK p : p = Request[m].price  OBVIOUS
<1>4. /\ t # m /\ Request[t].side # Request[m].side
      /\ z \in Nat /\ z > 0 /\ p \in Nat /\ p > 0
      /\ z <= live[m].size /\ Request[m].size > 0 /\ z <= Request[m].size
      /\ Request[t].size > 0 => z <= live[t].size
      /\ Request[t].size = 0 => z * p <= live[t].funds
      /\ Request[t].side = "buy" /\ Request[t].size > 0 => p <= Request[t].price
      /\ live[t].phase # "none" /\ live[m].phase = "open"
  <2>1. Matching!CanMatch(t, m)  BY DEF MatchOrders
  <2> QED  BY <1>0, <1>2, <1>3, <2>1, TradeFacts
<1>5. PICK e : e = [type |-> "match", seq |-> NextSeq, taker |-> t, maker |-> m, size |-> z, price |-> p]
  OBVIOUS
<1>6. PICK used : used = Matching!UsedUp(Matching!MakerAfter(t, m), m)  OBVIOUS
<1>7. PICK d : d = DoneEntry(m, NextSeq + 1, TRUE)  OBVIOUS
<1>8. logTopic' = logTopic \o <<e>> \o (IF used THEN <<d>> ELSE << >>)
  BY <1>2, <1>3, <1>5, <1>6, <1>7 DEF MatchOrders
<1>9. /\ e \in LogEntry /\ d \in LogEntry /\ TradeOK(e) /\ e.seq = LastSeq(logTopic) + 1
      /\ d.seq = LastSeq(logTopic) + 2 /\ d.type = "done"
  <2>1. LastSeq(logTopic) \in Nat /\ NextSeq = LastSeq(logTopic) + 1
    BY <1>1, LastSeqDef DEF LogFine, NextSeq
  <2>2. e \in LogEntry /\ e.seq = LastSeq(logTopic) + 1  BY <1>4, <1>5, <2>1 DEF LogEntry
  <2>3. d \in LogEntry /\ d.seq = LastSeq(logTopic) + 2 /\ d.type = "done"
    BY <1>7, <2>1 DEF LogEntry, DoneEntry
  <2>4. TradeOK(e)  BY <1>3, <1>4, <1>5 DEF TradeOK
  <2> QED  BY <2>2, <2>3, <2>4
<1>10. PICK l : l = Append(logTopic, e)  OBVIOUS
<1>11. /\ LogFine(l) /\ LastSeq(l) = LastSeq(logTopic) + 1
       /\ \A j : /\ Traded(l, j) = Traded(logTopic, j) + SizeIn(j, e)
                 /\ Worth(l, j) = Worth(logTopic, j) + ValueIn(j, e)
  BY <1>1, <1>9, <1>10, LogNext
<1>12. l \in Seq(LogEntry) /\ Grows(logTopic, l)  BY <1>1, <1>9, <1>10, GrowsAppend
<1>13. logTopic' = IF used THEN Append(l, d) ELSE l
  <2>1. logTopic \o <<e>> = l  BY <1>1, <1>9, <1>10
  <2>2. CASE used
    <3>1. l \o <<d>> = Append(l, d)  BY <1>9, <1>12
    <3> QED  BY <1>8, <2>1, <2>2, <3>1
  <2>3. CASE ~ used
    <3>1. l \o << >> = l  BY <1>12
    <3> QED  BY <1>8, <2>1, <2>3, <3>1
  <2> QED  BY <2>2, <2>3
<1>14. /\ LogFine(logTopic') /\ Grows(logTopic, logTopic')
       /\ \A j : /\ Traded(logTopic', j) = Traded(logTopic, j) + SizeIn(j, e)
                 /\ Worth(logTopic', j) = Worth(logTopic, j) + ValueIn(j, e)
  <2>1. CASE ~ used  BY <1>11, <1>12, <1>13, <2>1
  <2>2. CASE used
    <3>1. PICK u : u = Append(l, d)  OBVIOUS
    <3>2. \A j : SizeIn(j, d) = 0 /\ ValueIn(j, d) = 0 /\ TradeOK(d)  BY <1>9, NoTrade
    <3>3. LastSeq(logTopic) \in Nat  BY <1>1 DEF LogFine
    <3>4. d.seq = LastSeq(l) + 1  BY <1>9, <1>11, <3>3
    <3>5. /\ LogFine(u)
          /\ \A j : /\ Traded(u, j) = Traded(l, j) + SizeIn(j, d)
                    /\ Worth(u, j) = Worth(l, j) + ValueIn(j, d)
      BY <1>9, <1>11, <3>1, <3>2, <3>4, LogNext
    <3>6. \A j : Traded(l, j) \in Nat /\ Worth(l, j) \in Nat  BY <1>11, LogSums
    <3>7. Grows(l, u)  BY <1>9, <1>12, <3>1, GrowsAppend
    <3>8. u \in Seq(LogEntry) /\ Grows(logTopic, u)  BY <1>1, <1>12, <3>7, GrowsTwice DEF Grows
    <3>9. \A j : Traded(u, j) = Traded(l, j) /\ Worth(u, j) = Worth(l, j)  BY <3>2, <3>5, <3>6
    <3> QED  BY <1>11, <1>13, <2>2, <3>1, <3>5, <3>8, <3>9
  <2> QED  BY <2>1, <2>2
<1>15. \A j \in Ids : OrderOK(j, logTopic, live, order[j].status)  BY <1>0 DEF EngineOK
<1>16. PICK a : a = Matching!AfterTrade(t, z, p)  OBVIOUS
<1>17. PICK b : b = Matching!AfterTrade(m, z, p)  OBVIOUS
<1>18. live' = [live EXCEPT ![t] = [a EXCEPT !.phase = "taking"],
                            ![m] = [b EXCEPT !.phase = IF used THEN "done" ELSE @]]
  BY <1>2, <1>3, <1>6, <1>16, <1>17 DEF MatchOrders, Matching!Match, Matching!MakerAfter
<1>19. live[t] \in Lives /\ live[m] \in Lives  BY <1>1
<1>20. /\ Request[t].side = "buy" /\ Request[t].size > 0 => live[t].funds >= live[t].size * Request[t].price
       /\ Request[m].side = "buy" /\ Request[m].size > 0 => live[m].funds >= live[m].size * Request[m].price
       /\ Request[t].size = 0 => live[t].size = 0
  BY <1>4, <1>15 DEF OrderOK
<1>21. /\ a \in Lives /\ a.phase = live[t].phase
       /\ a.size = IF Request[t].size > 0 THEN live[t].size - z ELSE 0
       /\ a.funds = IF Request[t].side = "buy" THEN live[t].funds - z * p ELSE live[t].funds
       /\ Request[t].side = "buy" /\ Request[t].size > 0 => a.funds >= a.size * Request[t].price
  <2>1. a = LeftOver(t, live[t], z, p)  BY <1>16 DEF Matching!AfterTrade, LeftOver
  <2>3. PICK o : o = live[t]  OBVIOUS
  <2>4. Fits(t, o, z, p)  BY <1>4, <1>19, <1>20, <2>3 DEF Fits
  <2>5. Leaves(t, o, z, p, a)  BY <2>1, <2>3, <2>4, TradeFits
  <2> QED  BY <1>4, <2>3, <2>5 DEF Leaves
<1>22. /\ b \in Lives /\ b.phase = "open"
       /\ b.size = live[m].size - z
       /\ b.funds = IF Request[m].side = "buy" THEN live[m].funds - z * p ELSE live[m].funds
       /\ Request[m].side = "buy" /\ Request[m].size > 0 => b.funds >= b.size * Request[m].price
  <2>1. b = LeftOver(m, live[m], z, p)  BY <1>17 DEF Matching!AfterTrade, LeftOver
  <2>2. p <= Request[m].price /\ ~ (Request[m].size = 0)  BY <1>3, <1>4, Constants
  <2>3. PICK o : o = live[m]  OBVIOUS
  <2>4. Fits(m, o, z, p)  BY <1>4, <1>19, <1>20, <2>2, <2>3 DEF Fits
  <2>5. Leaves(m, o, z, p, b)  BY <2>1, <2>3, <2>4, TradeFits
  <2> QED  BY <1>4, <2>3, <2>5 DEF Leaves
<1>23. /\ live'[t] = [a EXCEPT !.phase = "taking"]
       /\ live'[m] = [b EXCEPT !.phase = IF used THEN "done" ELSE @]
       /\ \A j \in Ids : j # t /\ j # m => live'[j] = live[j]
       /\ DOMAIN live' = Ids /\ live' = [j \in Ids |-> live'[j]]
  BY <1>1, <1>4, <1>18
<1>24. /\ live'[t] \in Lives /\ live'[t].size = a.size /\ live'[t].funds = a.funds
       /\ live'[t].phase = "taking"
  BY <1>21, <1>23 DEF Lives, Matching!Phases
<1>25. /\ live'[m] \in Lives /\ live'[m].size = b.size /\ live'[m].funds = b.funds
       /\ live'[m].phase \in {"open", "done"}
  BY <1>22, <1>23 DEF Lives, Matching!Phases
<1>26. live' \in [Ids -> Lives]
  <2>1. \A j \in Ids : live'[j] \in Lives  BY <1>1, <1>23, <1>24, <1>25
  <2> QED  BY <1>23, <2>1
<1>27. \A j : /\ SizeIn(j, e) = IF j \in {t, m} THEN z ELSE 0
              /\ ValueIn(j, e) = IF j \in {t, m} THEN z * p ELSE 0
  BY <1>5 DEF SizeIn, ValueIn
<1>28. \A j : Traded(logTopic, j) \in Nat /\ Worth(logTopic, j) \in Nat  BY <1>1, LogSums
<1>29. z * p \in Nat  BY <1>4, Product
<1>30. \A j \in Ids : OrderOK(j, logTopic', live', order[j].status)
  <2> TAKE j \in Ids
  <2>0. OrderOK(j, logTopic, live, order[j].status)  BY <1>15
  <2>1. CASE j # t /\ j # m
    <3>1. /\ Traded(logTopic', j) = Traded(logTopic, j) /\ Worth(logTopic', j) = Worth(logTopic, j)
          /\ live'[j] = live[j]
      BY <1>14, <1>23, <1>27, <1>28, <2>1
    <3> QED  BY <2>0, <3>1 DEF OrderOK
  <2>2. CASE j = t
    <3>1. /\ Traded(logTopic', t) = Traded(logTopic, t) + z
          /\ Worth(logTopic', t) = Worth(logTopic, t) + z * p
      BY <1>14, <1>27
    <3>2. live[t].size \in Nat /\ live[t].funds \in Nat  BY <1>19 DEF Lives
    <3>3. Request[t].size \in Nat /\ Request[t].funds \in Nat  BY Constants
    <3>4. Request[t].size > 0 => Traded(logTopic', t) = Request[t].size - a.size
      BY <1>4, <1>21, <1>28, <2>0, <2>2, <3>1, <3>2, <3>3 DEF OrderOK
    <3>5. Request[t].side = "buy" => Worth(logTopic', t) = Request[t].funds - a.funds
      BY <1>4, <1>21, <1>28, <1>29, <2>0, <2>2, <3>1, <3>2, <3>3 DEF OrderOK
    <3>6. HoldSize(Request[t]) > 0 /\ order[t].status # "none"  BY <1>4, <2>0, <2>2 DEF OrderOK
    <3>7. Request[t].size = 0 => a.size = 0  BY <1>21, <3>3
    <3> QED  BY <1>21, <1>24, <2>2, <3>4, <3>5, <3>6, <3>7 DEF OrderOK
  <2>3. CASE j = m
    <3>1. /\ Traded(logTopic', m) = Traded(logTopic, m) + z
          /\ Worth(logTopic', m) = Worth(logTopic, m) + z * p
      BY <1>14, <1>27
    <3>2. live[m].size \in Nat /\ live[m].funds \in Nat  BY <1>19 DEF Lives
    <3>3. Request[m].size \in Nat /\ Request[m].funds \in Nat  BY Constants
    <3>4. Traded(logTopic', m) = Request[m].size - b.size
      BY <1>4, <1>22, <1>28, <2>0, <2>3, <3>1, <3>2, <3>3 DEF OrderOK
    <3>5. Request[m].side = "buy" => Worth(logTopic', m) = Request[m].funds - b.funds
      BY <1>4, <1>22, <1>28, <1>29, <2>0, <2>3, <3>1, <3>2, <3>3 DEF OrderOK
    <3>6. HoldSize(Request[m]) > 0 /\ order[m].status # "none" /\ Request[m].price > 0
      BY <1>4, <2>0, <2>3 DEF OrderOK
    <3>7. ~ (Request[m].size = 0)  BY <1>4, <3>3
    <3> QED  BY <1>4, <1>22, <1>25, <2>3, <3>4, <3>5, <3>6, <3>7 DEF OrderOK
  <2> QED  BY <2>1, <2>2, <2>3
<1>31. UNCHANGED <<tables, maker, crashes, halved>> /\ repeats' \in 0 .. MaxRepeats
  BY <1>0 DEF MatchOrders, TypeOK
<1> QED  BY <1>14, <1>26, <1>30, <1>31, EngineFrame
-----------------------------------------------------------------------------
(* The fill maker's steps.                                                 *)

MakerType ==
    /\ readOffset \in Nat /\ lastSeq \in Nat
    /\ makerFill \in Fill \cup {NoFill}
    /\ fillCh \in Seq(Fill) /\ Len(fillCh) <= ChCap
    /\ batch \in Seq(Fill) /\ Len(batch) <= FlushMax /\ flushing \in BOOLEAN

\* The fill maker changes its own state alone.
LEMMA MakerFrame ==
    ASSUME SettleInv, UNCHANGED <<tables, engine, repeats>>,
           crashes' \in 0 .. MaxCrashes, halved' \in BOOLEAN,
           MakerType', PipeGenuine', BatchRoom'
    PROVE  SettleInv'
<1>1. /\ account' = account /\ order' = order /\ fillRows' = fillRows /\ bills' = bills
      /\ logTopic' = logTopic /\ live' = live /\ repeats' = repeats
  BY DEF tables, engine
<1>2. TypeOK'
  <2>1. TypeOK  BY DEF SettleInv
  <2> QED  BY <1>1, <2>1 DEF TypeOK, MakerType
<1>3. EngineOK' /\ FillsGenuine'
  <2>1. EngineOK /\ FillsGenuine  BY DEF SettleInv
  <2> QED  BY <1>1, <2>1, Zenon DEF EngineOK, FillsGenuine
<1>5. RowsUnique' /\ SettledSums'
  <2>1. RowsUnique /\ SettledSums  BY DEF SettleInv
  <2> QED  BY <1>1, <2>1, Zenon DEF RowsUnique, SettledSums, Settled, Sizes, Values
<1>6. BillsSigned' /\ AccountsSigned'
  <2>1. BillsSigned /\ AccountsSigned  BY DEF SettleInv
  <2> QED  BY <1>1, <2>1, Zenon DEF BillsSigned, AccountsSigned
<1>7. HoldsExact'
  <2>1. HoldsExact  BY DEF SettleInv
  <2> QED  BY <1>1, <2>1, Zenon DEF HoldsExact, Holds, HeldBy
<1> QED  BY <1>2, <1>3, <1>5, <1>6, <1>7 DEF SettleInv

\* The log that is read.
LEMMA ReadFacts ==
    ASSUME TypeOK, CanRead
    PROVE  /\ readOffset + 1 \in 1 .. Len(logTopic) /\ readOffset + 1 \in Nat
           /\ Reading \in LogEntry /\ Reading = logTopic[readOffset + 1]
           /\ Reading.seq \in Nat
<1>1. readOffset + 1 \in 1 .. Len(logTopic) /\ readOffset + 1 \in Nat
  BY DEF TypeOK, CanRead
<1>2. Reading = logTopic[readOffset + 1]  BY DEF Reading
<1>3. Reading \in LogEntry  BY <1>1, <1>2 DEF TypeOK
<1>4. Reading.seq \in Nat  BY <1>3 DEF LogEntry
<1> QED  BY <1>1, <1>2, <1>3, <1>4

\* Both fills of a match are of its log entry, and not settled yet.
LEMMA MatchFillOK ==
    ASSUME NEW e \in LogEntry, e.type = "match", NEW n \in Nat
    PROVE  /\ MatchFill(e, n, e.taker, "T") \in Fill /\ FillOf(MatchFill(e, n, e.taker, "T"), e)
           /\ MatchFill(e, n, e.maker, "M") \in Fill /\ FillOf(MatchFill(e, n, e.maker, "M"), e)
           /\ ~ MatchFill(e, n, e.taker, "T").settled /\ ~ MatchFill(e, n, e.maker, "M").settled
<1>1. /\ e.seq \in Nat /\ e.taker \in Ids /\ e.maker \in Ids /\ e.size \in Nat /\ e.price \in Nat
  BY DEF LogEntry
<1>2. MatchFill(e, n, e.taker, "T") \in Fill /\ MatchFill(e, n, e.maker, "M") \in Fill
  BY <1>1 DEF MatchFill, Fill
<1>3. FillOf(MatchFill(e, n, e.taker, "T"), e) /\ ~ MatchFill(e, n, e.taker, "T").settled
  BY DEF FillOf, MatchFill
<1>4. FillOf(MatchFill(e, n, e.maker, "M"), e) /\ ~ MatchFill(e, n, e.maker, "M").settled
  BY DEF FillOf, MatchFill
<1> QED  BY <1>2, <1>3, <1>4

\* The fill of a Done log is of its entry, and not settled yet.
LEMMA DoneFillOK ==
    ASSUME NEW e \in LogEntry, e.type = "done", NEW n \in Nat
    PROVE  DoneFill(e, n) \in Fill /\ FillOf(DoneFill(e, n), e) /\ ~ DoneFill(e, n).settled
<1>1. e.seq \in Nat /\ e.id \in Ids /\ e.reason \in {"filled", "cancelled"}
  BY DEF LogEntry
<1>2. DoneFill(e, n) \in Fill  BY <1>1 DEF DoneFill, Fill
<1>3. FillOf(DoneFill(e, n), e) /\ ~ DoneFill(e, n).settled  BY DEF FillOf, DoneFill
<1> QED  BY <1>2, <1>3

\* A fill joins the channel or the batch.
LEMMA FillSent ==
    ASSUME NEW t, NEW q \in Seq(Fill), NEW f \in Fill,
           AllGenuine(q, t), Genuine(f, t), AllFresh(q), ~ f.settled
    PROVE  /\ AllGenuine(Append(q, f), t) /\ AllFresh(Append(q, f))
           /\ Append(q, f) \in Seq(Fill) /\ Len(Append(q, f)) = Len(q) + 1 /\ Len(q) \in Nat
<1>1. PICK r : r = Append(q, f)  OBVIOUS
<1>2. /\ r \in Seq(Fill) /\ Len(r) = Len(q) + 1 /\ Len(q) \in Nat
      /\ \A n \in 1 .. Len(q) : r[n] = q[n]
      /\ r[Len(q) + 1] = f
  BY <1>1, Sent
<1>3. \A n \in 1 .. Len(r) : n \in 1 .. Len(q) \/ n = Len(q) + 1  BY <1>2
<1>4. AllGenuine(r, t)  BY <1>2, <1>3 DEF AllGenuine
<1>5. AllFresh(r)  BY <1>2, <1>3 DEF AllFresh
<1> QED  BY <1>1, <1>2, <1>4, <1>5

\* OnMatchLog and OnDoneLog make fills of the log entries read.
LEMMA ReaderInv ==
    ASSUME SettleInv, ReadRepeated \/ ReadMatch \/ SendMakerFill \/ ReadDone
    PROVE  SettleInv'
<1>0. TypeOK /\ PipeGenuine /\ BatchRoom /\ MakerType
  BY DEF SettleInv, FillsGenuine, TypeOK, MakerType
<1>1. /\ UNCHANGED <<tables, engine, repeats>> /\ batch' = batch /\ flushing' = flushing
      /\ logTopic' = logTopic /\ crashes' = crashes /\ halved' = halved
  BY DEF ReadRepeated, ReadMatch, SendMakerFill, ReadDone, engine
<1>2. crashes' \in 0 .. MaxCrashes /\ halved' \in BOOLEAN /\ BatchRoom'
  BY <1>0, <1>1 DEF TypeOK, BatchRoom
<1>3. /\ readOffset \in Nat /\ lastSeq \in Nat /\ fillCh \in Seq(Fill) /\ Len(fillCh) \in Nat
      /\ ChCap \in Nat /\ batch \in Seq(Fill) /\ Len(batch) <= FlushMax /\ flushing \in BOOLEAN
      /\ Len(fillCh) <= ChCap /\ makerFill \in Fill \cup {NoFill}
  BY <1>0, SettlementAssumption DEF MakerType
<1>4. /\ AllGenuine(fillCh, logTopic) /\ AllGenuine(batch, logTopic)
      /\ makerFill # NoFill => Genuine(makerFill, logTopic) /\ ~ makerFill.settled
      /\ AllFresh(fillCh) /\ AllFresh(batch)
  BY <1>0 DEF PipeGenuine
<1>5. SUFFICES MakerType' /\ PipeGenuine'  BY <1>1, <1>2, MakerFrame
<1>6. CASE ReadRepeated
  <2>1. readOffset' = readOffset + 1 /\ lastSeq' = lastSeq /\ makerFill' = makerFill /\ fillCh' = fillCh
    BY <1>6 DEF ReadRepeated
  <2> QED  BY <1>1, <1>3, <1>4, <2>1 DEF MakerType, PipeGenuine
<1>7. CASE ReadMatch
  <2>1. CanRead /\ Reading.type = "match" /\ Len(fillCh) < ChCap  BY <1>7 DEF ReadMatch, CanPass
  <2>2. PICK e : e = Reading  OBVIOUS
  <2>3. /\ e \in LogEntry /\ e.seq \in Nat /\ readOffset + 1 \in Nat /\ e.type = "match"
        /\ readOffset + 1 \in 1 .. Len(logTopic) /\ e = logTopic[readOffset + 1]
    BY <1>0, <2>1, <2>2, ReadFacts
  <2>4. PICK f : f = MatchFill(e, readOffset, e.taker, "T")  OBVIOUS
  <2>5. PICK g : g = MatchFill(e, readOffset, e.maker, "M")  OBVIOUS
  <2>6. /\ f \in Fill /\ FillOf(f, e) /\ ~ f.settled /\ g \in Fill /\ FillOf(g, e) /\ ~ g.settled
    BY <1>3, <2>3, <2>4, <2>5, MatchFillOK
  <2>7. Genuine(f, logTopic) /\ Genuine(g, logTopic)  BY <2>3, <2>6 DEF Genuine
  <2>8. fillCh' = Append(fillCh, f) /\ makerFill' = g /\ readOffset' = readOffset + 1 /\ lastSeq' = e.seq
    BY <1>7, <2>2, <2>4, <2>5 DEF ReadMatch
  <2>9. /\ AllGenuine(fillCh', logTopic) /\ AllFresh(fillCh') /\ fillCh' \in Seq(Fill)
        /\ Len(fillCh') = Len(fillCh) + 1
    BY <1>3, <1>4, <2>6, <2>7, <2>8, FillSent
  <2>10. MakerType'  BY <1>1, <1>3, <2>1, <2>3, <2>6, <2>8, <2>9 DEF MakerType
  <2>11. PipeGenuine'  BY <1>1, <1>4, <2>6, <2>7, <2>8, <2>9, Zenon DEF PipeGenuine
  <2> QED  BY <2>10, <2>11
<1>8. CASE SendMakerFill
  <2>1. /\ makerFill # NoFill /\ Len(fillCh) < ChCap /\ fillCh' = Append(fillCh, makerFill)
        /\ makerFill' = NoFill /\ readOffset' = readOffset /\ lastSeq' = lastSeq
    BY <1>8 DEF SendMakerFill
  <2>2. makerFill \in Fill  BY <1>3, <2>1
  <2>3. /\ AllGenuine(fillCh', logTopic) /\ AllFresh(fillCh') /\ fillCh' \in Seq(Fill)
        /\ Len(fillCh') = Len(fillCh) + 1
    BY <1>3, <1>4, <2>1, <2>2, FillSent
  <2>4. MakerType'  BY <1>1, <1>3, <2>1, <2>3 DEF MakerType
  <2>5. PipeGenuine'  BY <1>1, <1>4, <2>1, <2>3, Zenon DEF PipeGenuine
  <2> QED  BY <2>4, <2>5
<1>9. CASE ReadDone
  <2>1. CanRead /\ Reading.type = "done" /\ Len(fillCh) < ChCap  BY <1>9 DEF ReadDone, CanPass
  <2>2. PICK e : e = Reading  OBVIOUS
  <2>3. /\ e \in LogEntry /\ e.seq \in Nat /\ readOffset + 1 \in Nat /\ e.type = "done"
        /\ readOffset + 1 \in 1 .. Len(logTopic) /\ e = logTopic[readOffset + 1]
    BY <1>0, <2>1, <2>2, ReadFacts
  <2>4. PICK f : f = DoneFill(e, readOffset)  OBVIOUS
  <2>6. f \in Fill /\ FillOf(f, e) /\ ~ f.settled  BY <1>3, <2>3, <2>4, DoneFillOK
  <2>7. Genuine(f, logTopic)  BY <2>3, <2>6 DEF Genuine
  <2>8. fillCh' = Append(fillCh, f) /\ makerFill' = makerFill /\ readOffset' = readOffset + 1 /\ lastSeq' = e.seq
    BY <1>9, <2>2, <2>4 DEF ReadDone
  <2>9. /\ AllGenuine(fillCh', logTopic) /\ AllFresh(fillCh') /\ fillCh' \in Seq(Fill)
        /\ Len(fillCh') = Len(fillCh) + 1
    BY <1>3, <1>4, <2>6, <2>7, <2>8, FillSent
  <2>10. MakerType'  BY <1>1, <1>3, <2>1, <2>3, <2>8, <2>9 DEF MakerType
  <2>11. PipeGenuine'  BY <1>1, <1>4, <2>8, <2>9, Zenon DEF PipeGenuine
  <2> QED  BY <2>10, <2>11
<1> QED  BY <1>6, <1>7, <1>8, <1>9

\* The flusher collects fills from fillCh.
LEMMA TakeInv == ASSUME SettleInv, TakeFill PROVE SettleInv'
<1>0. TypeOK /\ PipeGenuine /\ BatchRoom /\ MakerType
  BY DEF SettleInv, FillsGenuine, TypeOK, MakerType
<1>1. /\ UNCHANGED <<tables, engine, repeats>> /\ readOffset' = readOffset /\ lastSeq' = lastSeq
      /\ makerFill' = makerFill /\ logTopic' = logTopic /\ crashes' = crashes /\ halved' = halved
      /\ ~ flushing /\ fillCh # << >>
      /\ batch' = Append(batch, Head(fillCh)) /\ fillCh' = Tail(fillCh)
      /\ flushing' = ~ (Len(fillCh) > 1 /\ Len(batch) + 1 < FlushMax)
  BY DEF TakeFill, engine
<1>2. crashes' \in 0 .. MaxCrashes /\ halved' \in BOOLEAN  BY <1>0, <1>1 DEF TypeOK
<1>3. /\ readOffset \in Nat /\ lastSeq \in Nat /\ fillCh \in Seq(Fill) /\ Len(fillCh) <= ChCap
      /\ ChCap \in Nat /\ FlushMax \in Nat /\ batch \in Seq(Fill) /\ Len(batch) < FlushMax
      /\ makerFill \in Fill \cup {NoFill}
  BY <1>0, <1>1, SettlementAssumption DEF MakerType, BatchRoom
<1>4. /\ AllGenuine(fillCh, logTopic) /\ AllGenuine(batch, logTopic)
      /\ makerFill # NoFill => Genuine(makerFill, logTopic) /\ ~ makerFill.settled
      /\ AllFresh(fillCh) /\ AllFresh(batch)
  BY <1>0 DEF PipeGenuine
<1>5. PICK f : f = Head(fillCh)  OBVIOUS
<1>6. PICK q : q = Tail(fillCh)  OBVIOUS
<1>7. /\ f \in Fill /\ f = fillCh[1] /\ q \in Seq(Fill) /\ Len(q) = Len(fillCh) - 1
      /\ Len(fillCh) \in Nat \ {0}
      /\ \A n \in 1 .. Len(fillCh) - 1 : q[n] = fillCh[n + 1]
  BY <1>1, <1>3, <1>5, <1>6, Received
<1>8. Genuine(f, logTopic) /\ ~ f.settled
  <2>1. 1 \in 1 .. Len(fillCh)  BY <1>7
  <2> QED  BY <1>4, <1>7, <2>1 DEF AllGenuine, AllFresh
<1>9. AllGenuine(q, logTopic) /\ AllFresh(q)
  <2>1. \A n \in 1 .. Len(q) : n + 1 \in 1 .. Len(fillCh) /\ q[n] = fillCh[n + 1]  BY <1>7
  <2> QED  BY <1>4, <2>1 DEF AllGenuine, AllFresh
<1>10. /\ AllGenuine(batch', logTopic) /\ AllFresh(batch') /\ batch' \in Seq(Fill)
       /\ Len(batch') = Len(batch) + 1 /\ Len(batch) \in Nat
  BY <1>1, <1>3, <1>4, <1>5, <1>7, <1>8, FillSent
<1>11. fillCh' = q /\ Len(q) <= ChCap  BY <1>1, <1>3, <1>6, <1>7
<1>12. Len(batch') <= FlushMax /\ flushing' \in BOOLEAN /\ BatchRoom'
  <2>1. Len(batch') <= FlushMax /\ flushing' \in BOOLEAN  BY <1>1, <1>3, <1>10
  <2>2. ~ flushing' => Len(batch') < FlushMax  BY <1>1, <1>10
  <2> QED  BY <2>1, <2>2 DEF BatchRoom
<1>13. MakerType'  BY <1>1, <1>3, <1>7, <1>10, <1>11, <1>12 DEF MakerType
<1>14. PipeGenuine'  BY <1>1, <1>4, <1>9, <1>10, <1>11, Zenon DEF PipeGenuine
<1> QED  BY <1>1, <1>2, <1>12, <1>13, <1>14, MakerFrame

\* A crash empties the pipe; the reader goes on after the last row.
LEMMA CrashInv == ASSUME SettleInv, Crash PROVE SettleInv'
<1>0. TypeOK  BY DEF SettleInv
<1>1. /\ UNCHANGED <<tables, engine, repeats>> /\ makerFill' = NoFill /\ fillCh' = << >>
      /\ batch' = << >> /\ flushing' = FALSE /\ crashes < MaxCrashes /\ crashes' = crashes + 1
      /\ halved' = (halved \/ Halves) /\ logTopic' = logTopic
  BY DEF Crash, engine
<1>2. crashes' \in 0 .. MaxCrashes
  <2>1. MaxCrashes \in Nat /\ crashes \in 0 .. MaxCrashes  BY <1>0, SettlementAssumption DEF TypeOK
  <2> QED  BY <1>1, <2>1
<1>3. halved' \in BOOLEAN  BY <1>1
<1>4. readOffset' \in Nat /\ lastSeq' \in Nat
  <2>1. CASE fillRows = << >>  BY <2>1 DEF Crash
  <2>2. CASE fillRows # << >>
    <3>1. fillRows \in Seq(Fill) /\ Last(fillRows) = fillRows[Len(fillRows)]  BY <1>0 DEF TypeOK, Last
    <3>2. Last(fillRows) \in Fill  BY <2>2, <3>1
    <3>3. Last(fillRows).offset \in Nat /\ Last(fillRows).seq \in Nat  BY <3>2 DEF Fill
    <3>4. readOffset' = ResumeOffset(Last(fillRows).offset) /\ lastSeq' = Last(fillRows).seq
      BY <2>2 DEF Crash
    <3> QED  BY <3>3, <3>4 DEF ResumeOffset
  <2> QED  BY <2>1, <2>2
<1>5. ChCap \in Nat /\ FlushMax \in Nat \ {0}  BY SettlementAssumption
<1>6. MakerType'
  <2>1. fillCh' \in Seq(Fill) /\ Len(fillCh') = 0 /\ batch' \in Seq(Fill) /\ Len(batch') = 0
    BY <1>1
  <2>2. Len(fillCh') <= ChCap /\ Len(batch') <= FlushMax  BY <1>5, <2>1
  <2>3. makerFill' \in Fill \cup {NoFill} /\ flushing' \in BOOLEAN  BY <1>1
  <2> QED  BY <1>4, <2>1, <2>2, <2>3 DEF MakerType
<1>7. PipeGenuine' /\ BatchRoom'
  BY <1>1, <1>5 DEF PipeGenuine, AllGenuine, AllFresh, BatchRoom
<1> QED  BY <1>1, <1>2, <1>3, <1>6, <1>7, MakerFrame

\* An Open log changes a new order's status, which holds what it held.
LEMMA ReadOpenInv == ASSUME SettleInv, ReadOpen PROVE SettleInv'
<1>0. TypeOK /\ PipeGenuine /\ BatchRoom /\ EngineOK /\ AllGenuine(fillRows, logTopic)
  BY DEF SettleInv, FillsGenuine
<1>1. /\ account' = account /\ fillRows' = fillRows /\ bills' = bills /\ logTopic' = logTopic
      /\ live' = live /\ repeats' = repeats /\ makerFill' = makerFill /\ fillCh' = fillCh
      /\ batch' = batch /\ flushing' = flushing /\ crashes' = crashes /\ halved' = halved
      /\ readOffset' = readOffset + 1 /\ lastSeq' = Reading.seq
      /\ CanRead /\ Reading.type = "open"
  BY DEF ReadOpen, engine, CanPass
<1>2. Reading \in LogEntry /\ Reading.seq \in Nat /\ readOffset + 1 \in Nat  BY <1>0, <1>1, ReadFacts
<1>3. PICK k : k = Reading.id  OBVIOUS
<1>4. k \in Ids  BY <1>1, <1>2, <1>3 DEF LogEntry
<1>5. order \in [Ids -> OrderRow] /\ order[k] \in OrderRow  BY <1>0, <1>4 DEF TypeOK
<1>6. order' = [order EXCEPT ![k].status = IF @ = "new" THEN "open" ELSE @]
  BY <1>3 DEF ReadOpen
<1>7. /\ order'[k] = [order[k] EXCEPT !.status = IF @ = "new" THEN "open" ELSE @]
      /\ \A i \in Ids : i # k => order'[i] = order[i]
      /\ DOMAIN order' = Ids /\ order' = [i \in Ids |-> order'[i]]
  BY <1>4, <1>5, <1>6
<1>8. /\ order'[k] \in OrderRow
      /\ order'[k].executed = order[k].executed /\ order'[k].filled = order[k].filled
      /\ order'[k].status = IF order[k].status = "new" THEN "open" ELSE order[k].status
  BY <1>5, <1>7 DEF OrderRow, Final
<1>9. order' \in [Ids -> OrderRow]
  <2>1. \A i \in Ids : order'[i] \in OrderRow  BY <1>5, <1>7, <1>8
  <2> QED  BY <1>7, <2>1
<1>10. \A i \in Ids : /\ order'[i].executed = order[i].executed /\ order'[i].filled = order[i].filled
                      /\ order'[i].status = "none" <=> order[i].status = "none"
                      /\ order'[i].status \in {"none"} \cup Final <=> order[i].status \in {"none"} \cup Final
  BY <1>7, <1>8 DEF Final
<1>11. TypeOK'
  BY <1>0, <1>1, <1>2, <1>9 DEF TypeOK
<1>12. EngineOK'
  <2>1. LogFine(logTopic) /\ \A i \in Ids : OrderOK(i, logTopic, live, order[i].status)
    BY <1>0 DEF EngineOK
  <2>2. \A i \in Ids : OrderOK(i, logTopic, live, order'[i].status)  BY <1>10, <2>1 DEF OrderOK
  <2> QED  BY <1>1, <2>1, <2>2, Zenon DEF EngineOK
<1>13. FillsGenuine' /\ BatchRoom'
  BY <1>0, <1>1, Zenon DEF FillsGenuine, PipeGenuine, BatchRoom
<1>14. RowsUnique' /\ BillsSigned' /\ AccountsSigned'
  <2>1. RowsUnique /\ BillsSigned /\ AccountsSigned  BY DEF SettleInv
  <2> QED  BY <1>1, <2>1, Zenon DEF RowsUnique, BillsSigned, AccountsSigned
<1>15. SettledSums'
  <2>1. SettledSums  BY DEF SettleInv
  <2> QED  BY <1>1, <1>10, <2>1, Zenon DEF SettledSums, Settled, Sizes, Values
<1>16. HoldsExact'
  <2>1. HoldsExact  BY DEF SettleInv
  <2>2. \A i \in Ids : HeldBy(i)' = HeldBy(i)  BY <1>10, Zenon DEF HeldBy
  <2> QED  BY <1>1, <2>1, <2>2 DEF HoldsExact, Holds
<1> QED  BY <1>11, <1>12, <1>13, <1>14, <1>15, <1>16 DEF SettleInv

\* INSERT IGNORE adds fills that no row has the order and the seq of.
LEMMA AddFillsRows ==
    ASSUME TypeOK, FillsGenuine, RowsUnique, AddFills(batch)
    PROVE  /\ fillRows' \in Seq(Fill) /\ Len(fillRows') \in Nat /\ Len(fillRows) \in Nat
           /\ Len(fillRows) <= Len(fillRows')
           /\ \A n \in 1 .. Len(fillRows) : fillRows'[n] = fillRows[n]
           /\ \A n \in Len(fillRows) + 1 .. Len(fillRows') : ~ fillRows'[n].settled
           /\ AllGenuine(fillRows', logTopic) /\ RowsUnique'
<1>0. /\ fillRows \in Seq(Fill) /\ batch \in Seq(Fill) /\ AllGenuine(fillRows, logTopic)
      /\ AllGenuine(batch, logTopic) /\ AllFresh(batch)
  BY DEF TypeOK, FillsGenuine, PipeGenuine
<1>1. PICK K : K = {n \in DOMAIN batch :
          ~ \/ \E k \in DOMAIN fillRows : fillRows[k].id = batch[n].id /\ fillRows[k].seq = batch[n].seq
            \/ \E k \in 1 .. n - 1 : batch[k].id = batch[n].id /\ batch[k].seq = batch[n].seq}
  OBVIOUS
<1>2. PICK q : q = Keep(batch, K)  OBVIOUS
<1>3. fillRows' = fillRows \o q  BY <1>1, <1>2 DEF AddFills
<1>4. K \in SUBSET (DOMAIN batch) /\ DOMAIN batch = 1 .. Len(batch) /\ DOMAIN fillRows = 1 .. Len(fillRows)
      /\ Len(batch) \in Nat
  BY <1>0, <1>1
<1>5. q \in Seq(Fill) /\ \E h : Places(q, batch, K, h)  BY <1>0, <1>2, <1>4, KeepRows
<1>6. PICK h : Places(q, batch, K, h)  BY <1>5
<1>7. /\ h \in [1 .. Len(q) -> K] /\ \A a \in 1 .. Len(q) : q[a] = batch[h[a]]
      /\ \A a, b \in 1 .. Len(q) : a < b => h[a] < h[b]
  BY <1>6 DEF Places
<1>8. PICK r : r = fillRows'  OBVIOUS
<1>9. PICK l : l = Len(fillRows)  OBVIOUS
<1>10. /\ r \in Seq(Fill) /\ Len(r) = l + Len(q) /\ l \in Nat /\ Len(q) \in Nat
       /\ \A n \in 1 .. l : r[n] = fillRows[n]
       /\ \A n \in 1 .. Len(q) : r[l + n] = q[n]
  BY <1>0, <1>3, <1>5, <1>8, <1>9, Joined
<1>11. \A n \in l + 1 .. Len(r) : n - l \in 1 .. Len(q) /\ l + (n - l) = n  BY <1>10
<1>12. ASSUME NEW n \in l + 1 .. Len(r)
       PROVE  /\ h[n - l] \in K /\ h[n - l] \in 1 .. Len(batch) /\ r[n] = batch[h[n - l]]
              /\ n - l \in 1 .. Len(q)
  <2>1. n - l \in 1 .. Len(q) /\ l + (n - l) = n  BY <1>11
  <2>2. h[n - l] \in K  BY <1>7, <2>1
  <2>3. r[n] = q[n - l] /\ q[n - l] = batch[h[n - l]]  BY <1>7, <1>10, <2>1
  <2> QED  BY <1>4, <2>1, <2>2, <2>3
<1>13. \A n \in 1 .. Len(r) : n \in 1 .. l \/ n \in l + 1 .. Len(r)  BY <1>10
<1>14. \A n \in l + 1 .. Len(r) : ~ r[n].settled  BY <1>0, <1>12 DEF AllFresh
<1>15. AllGenuine(r, logTopic)
  <2> SUFFICES ASSUME NEW n \in 1 .. Len(r) PROVE Genuine(r[n], logTopic)  BY DEF AllGenuine
  <2>1. CASE n \in 1 .. l  BY <1>0, <1>9, <1>10, <2>1 DEF AllGenuine
  <2>2. CASE n \in l + 1 .. Len(r)  BY <1>0, <1>12, <2>2 DEF AllGenuine
  <2> QED  BY <1>13, <2>1, <2>2
<1>16. ASSUME NEW m \in 1 .. Len(r), NEW n \in 1 .. Len(r), m < n,
              r[m].id = r[n].id, r[m].seq = r[n].seq
       PROVE  FALSE
  <2>1. CASE n \in 1 .. l
    <3>1. m \in 1 .. l  BY <1>10, <1>16, <2>1
    <3>2. r[m] = fillRows[m] /\ r[n] = fillRows[n]  BY <1>10, <2>1, <3>1
    <3>3. m = n  BY <1>9, <1>16, <2>1, <3>1, <3>2 DEF RowsUnique
    <3> QED  BY <1>10, <1>16, <3>3
  <2>2. CASE m \in 1 .. l /\ n \in l + 1 .. Len(r)
    <3>1. r[m] = fillRows[m] /\ m \in DOMAIN fillRows  BY <1>4, <1>9, <1>10, <2>2
    <3>2. h[n - l] \in K /\ r[n] = batch[h[n - l]]  BY <1>12, <2>2
    <3> QED  BY <1>1, <1>16, <3>1, <3>2
  <2>3. CASE m \in l + 1 .. Len(r) /\ n \in l + 1 .. Len(r)
    <3>1. h[n - l] \in K /\ r[n] = batch[h[n - l]] /\ h[n - l] \in 1 .. Len(batch) /\ n - l \in 1 .. Len(q)
      BY <1>12, <2>3
    <3>2. r[m] = batch[h[m - l]] /\ h[m - l] \in 1 .. Len(batch) /\ m - l \in 1 .. Len(q)
      BY <1>12, <2>3
    <3>3. m - l < n - l  BY <1>10, <1>16
    <3>4. h[m - l] < h[n - l]  BY <1>7, <3>1, <3>2, <3>3
    <3>5. h[m - l] \in 1 .. h[n - l] - 1  BY <1>4, <3>1, <3>2, <3>4
    <3> QED  BY <1>1, <1>16, <3>1, <3>2, <3>5
  <2> QED  BY <1>10, <1>13, <1>16, <2>1, <2>2, <2>3
<1>17. \A m, n \in 1 .. Len(r) : r[m].id = r[n].id /\ r[m].seq = r[n].seq => m = n
  <2> SUFFICES ASSUME NEW m \in 1 .. Len(r), NEW n \in 1 .. Len(r),
                      r[m].id = r[n].id, r[m].seq = r[n].seq, m # n
               PROVE  FALSE
    OBVIOUS
  <2>1. m < n \/ n < m  BY <1>10
  <2> QED  BY <1>16, <2>1
<1>18. RowsUnique'  BY <1>8, <1>17 DEF RowsUnique
<1> QED  BY <1>8, <1>9, <1>10, <1>14, <1>15, <1>18

\* The rows that are settled are as they were.
LEMMA SameSettled ==
    ASSUME TypeOK, fillRows' \in Seq(Fill), Len(fillRows) <= Len(fillRows'),
           \A n \in 1 .. Len(fillRows) : fillRows'[n] = fillRows[n],
           \A n \in Len(fillRows) + 1 .. Len(fillRows') : ~ fillRows'[n].settled,
           SettledSums, order' = order
    PROVE  SettledSums'
<1>0. Len(fillRows) \in Nat /\ Len(fillRows') \in Nat  BY DEF TypeOK
<1>1. ASSUME NEW i \in Ids PROVE Settled(i)' = Settled(i)
  <2>1. \A n \in 1 .. Len(fillRows') : n \in 1 .. Len(fillRows) \/ n \in Len(fillRows) + 1 .. Len(fillRows')
    BY <1>0
  <2>2. \A n \in 1 .. Len(fillRows) : n \in 1 .. Len(fillRows')  BY <1>0
  <2> QED  BY <2>1, <2>2 DEF Settled
<1>2. ASSUME NEW i \in Ids
      PROVE  Sizes(Settled(i))' = Sizes(Settled(i)) /\ Values(Settled(i))' = Values(Settled(i))
  <2>1. \A n \in Settled(i) : fillRows'[n] = fillRows[n]  BY DEF Settled
  <2>2. Settled(i)' = Settled(i)  BY <1>1
  <2> QED  BY <2>1, <2>2 DEF Sizes, Values
<1> QED  BY <1>2 DEF SettledSums

\* AddFills, once or again, adds rows of log entries, one per order and seq.
LEMMA FlushInv == ASSUME SettleInv, Flush \/ FlushUnsure PROVE SettleInv'
<1>0. TypeOK /\ FillsGenuine /\ RowsUnique /\ SettledSums /\ BatchRoom  BY DEF SettleInv
<1>1. /\ AddFills(batch) /\ account' = account /\ order' = order /\ bills' = bills
      /\ logTopic' = logTopic /\ live' = live /\ readOffset' = readOffset /\ lastSeq' = lastSeq
      /\ makerFill' = makerFill /\ fillCh' = fillCh /\ repeats' = repeats /\ crashes' = crashes
      /\ halved' = halved
  BY DEF Flush, FlushUnsure, engine, maker
<1>2. /\ fillRows' \in Seq(Fill) /\ Len(fillRows) <= Len(fillRows')
      /\ \A n \in 1 .. Len(fillRows) : fillRows'[n] = fillRows[n]
      /\ \A n \in Len(fillRows) + 1 .. Len(fillRows') : ~ fillRows'[n].settled
      /\ AllGenuine(fillRows', logTopic) /\ RowsUnique'
  BY <1>0, <1>1, AddFillsRows
<1>3. SettledSums'  BY <1>0, <1>1, <1>2, SameSettled
<1>4. /\ batch' \in Seq(Fill) /\ Len(batch') <= FlushMax /\ flushing' \in BOOLEAN
      /\ AllGenuine(batch', logTopic) /\ AllFresh(batch') /\ BatchRoom'
  <2>1. CASE batch' = batch /\ flushing' = flushing
    BY <1>0, <2>1 DEF TypeOK, FillsGenuine, PipeGenuine, BatchRoom
  <2>2. CASE batch' = << >> /\ flushing' = FALSE
    <3>1. batch' \in Seq(Fill) /\ Len(batch') = 0  BY <2>2
    <3>2. FlushMax \in Nat \ {0}  BY SettlementAssumption
    <3>3. Len(batch') <= FlushMax /\ Len(batch') < FlushMax /\ 1 .. Len(batch') = {}  BY <3>1, <3>2
    <3>4. AllGenuine(batch', logTopic) /\ AllFresh(batch')  BY <3>3 DEF AllGenuine, AllFresh
    <3> QED  BY <2>2, <3>1, <3>3, <3>4 DEF BatchRoom
  <2> QED  BY <2>1, <2>2 DEF Flush, FlushUnsure, maker
<1>5. TypeOK'  BY <1>0, <1>1, <1>2, <1>4 DEF TypeOK
<1>6. FillsGenuine'  BY <1>0, <1>1, <1>2, <1>4, Zenon DEF FillsGenuine, PipeGenuine
<1>7. EngineOK' /\ BillsSigned' /\ AccountsSigned'
  <2>1. EngineOK /\ BillsSigned /\ AccountsSigned  BY DEF SettleInv
  <2> QED  BY <1>1, <2>1, Zenon DEF EngineOK, BillsSigned, AccountsSigned
<1>8. HoldsExact'
  <2>1. HoldsExact  BY DEF SettleInv
  <2> QED  BY <1>1, <2>1, Zenon DEF HoldsExact, Holds, HeldBy
<1> QED  BY <1>2, <1>3, <1>4, <1>5, <1>6, <1>7, <1>8 DEF SettleInv
-----------------------------------------------------------------------------
(* What orders hold and what bills are still to take, of tables o and b.   *)

Mine(u, c) == {i \in Ids : Request[i].user = u /\ HoldCurrency(Request[i].side) = c}

HeldIn(o, i) ==
    IF o[i].status \in {"none"} \cup Final THEN 0
    ELSE HoldSize(Request[i]) - (IF Request[i].side = "buy" THEN o[i].executed ELSE o[i].filled)

Owed(o, u, c) == SumFunctionOnSet([i \in Mine(u, c) |-> HeldIn(o, i)], Mine(u, c))

DueOf(b, u, c) == {n \in DOMAIN b : b[n].user = u /\ b[n].currency = c}

DueHold(b, u, c) == SumFunctionOnSet([n \in DueOf(b, u, c) |-> b[n].hold], DueOf(b, u, c))

\* HoldsExact in terms of what is due and what is owed.
LEMMA HoldsAre ==
    /\ HoldsExact <=> \A u \in Users, c \in Currencies :
                          account[u][c].hold + DueHold(bills, u, c) = Owed(order, u, c)
    /\ HoldsExact' <=> \A u \in Users, c \in Currencies :
                          account'[u][c].hold + DueHold(bills', u, c) = Owed(order', u, c)
    /\ \A i \in Ids : HeldBy(i) = HeldIn(order, i)
<1>1. \A i \in Ids : HeldBy(i) = HeldIn(order, i) /\ HeldBy(i)' = HeldIn(order', i)
  BY Zenon DEF HeldBy, HeldIn
<1>2. \A u, c : /\ Owed(order, u, c) = SumFunctionOnSet([i \in Mine(u, c) |-> HeldBy(i)], Mine(u, c))
                /\ Owed(order', u, c) = SumFunctionOnSet([i \in Mine(u, c) |-> HeldBy(i)'], Mine(u, c))
  <2> TAKE u, c
  <2>1. \A i \in Mine(u, c) : i \in Ids  BY DEF Mine
  <2>2. [i \in Mine(u, c) |-> HeldBy(i)] = [i \in Mine(u, c) |-> HeldIn(order, i)]  BY <1>1, <2>1
  <2>3. [i \in Mine(u, c) |-> HeldBy(i)'] = [i \in Mine(u, c) |-> HeldIn(order', i)]  BY <1>1, <2>1
  <2> QED  BY <2>2, <2>3 DEF Owed
<1>3. \A u, c : /\ Holds(DueOf(bills, u, c)) = DueHold(bills, u, c)
                /\ Holds(DueOf(bills, u, c))' = DueHold(bills', u, c)
  BY Zenon DEF Holds, DueHold
<1>4. HoldsExact <=> \A u \in Users, c \in Currencies :
          account[u][c].hold + Holds(DueOf(bills, u, c))
             = SumFunctionOnSet([i \in Mine(u, c) |-> HeldBy(i)], Mine(u, c))
  BY Zenon DEF HoldsExact, DueOf, Mine
<1>5. HoldsExact' <=> \A u \in Users, c \in Currencies :
          account'[u][c].hold + Holds(DueOf(bills, u, c))'
             = SumFunctionOnSet([i \in Mine(u, c) |-> HeldBy(i)'], Mine(u, c))
  BY Zenon DEF HoldsExact, DueOf, Mine
<1>6. HoldsExact <=> \A u \in Users, c \in Currencies :
          account[u][c].hold + DueHold(bills, u, c) = Owed(order, u, c)
  <2>1. ASSUME NEW u, NEW c
        PROVE  (account[u][c].hold + Holds(DueOf(bills, u, c))
                    = SumFunctionOnSet([i \in Mine(u, c) |-> HeldBy(i)], Mine(u, c)))
               <=> account[u][c].hold + DueHold(bills, u, c) = Owed(order, u, c)
    BY <1>2, <1>3, Zenon
  <2> QED  BY <1>4, <2>1, Zenon
<1>7. HoldsExact' <=> \A u \in Users, c \in Currencies :
          account'[u][c].hold + DueHold(bills', u, c) = Owed(order', u, c)
  <2>1. ASSUME NEW u, NEW c
        PROVE  (account'[u][c].hold + Holds(DueOf(bills, u, c))'
                    = SumFunctionOnSet([i \in Mine(u, c) |-> HeldBy(i)'], Mine(u, c)))
               <=> account'[u][c].hold + DueHold(bills', u, c) = Owed(order', u, c)
    BY <1>2, <1>3, Zenon
  <2> QED  BY <1>5, <2>1, Zenon
<1> QED  BY <1>1, <1>6, <1>7, Zenon

\* A change of one order changes what its owner's orders hold by as much.
LEMMA OwedChange ==
    ASSUME NEW o, NEW p, NEW k \in Ids, \A i \in Ids : HeldIn(o, i) \in Int /\ HeldIn(p, i) \in Int,
           \A i \in Ids \ {k} : HeldIn(p, i) = HeldIn(o, i), NEW u, NEW c
    PROVE  /\ Owed(o, u, c) \in Int
           /\ Owed(p, u, c) = Owed(o, u, c)
                 + (IF k \in Mine(u, c) THEN HeldIn(p, k) - HeldIn(o, k) ELSE 0)
<1>1. PICK S : S = Mine(u, c)  OBVIOUS
<1>2. S \subseteq Ids /\ IsFiniteSet(S)
  <2>1. S \subseteq Ids  BY <1>1 DEF Mine
  <2> QED  BY <2>1, Constants, FS_Subset
<1>3. PICK F : F = [i \in S |-> HeldIn(o, i)]  OBVIOUS
<1>4. PICK G : G = [i \in S |-> HeldIn(p, i)]  OBVIOUS
<1>5. Owed(o, u, c) = SumFunctionOnSet(F, S) /\ Owed(p, u, c) = SumFunctionOnSet(G, S)
  BY <1>1, <1>3, <1>4 DEF Owed
<1>6. \A i \in S : F[i] \in Int /\ G[i] \in Int  BY <1>2, <1>3, <1>4
<1>7. SumFunctionOnSet(F, S) \in Int  BY <1>2, <1>6, SumInt
<1>8. CASE k \in S
  <2>1. \A i \in S \ {k} : F[i] = G[i]  BY <1>2, <1>3, <1>4
  <2>2. SumFunctionOnSet(G, S) = SumFunctionOnSet(F, S) - F[k] + G[k]
    BY <1>2, <1>6, <1>8, <2>1, SumChange
  <2>3. F[k] = HeldIn(o, k) /\ G[k] = HeldIn(p, k)  BY <1>3, <1>4, <1>8
  <2>4. F[k] \in Int /\ G[k] \in Int  BY <1>6, <1>8
  <2> QED  BY <1>1, <1>5, <1>7, <1>8, <2>2, <2>3, <2>4
<1>9. CASE k \notin S
  <2>1. \A i \in S : F[i] = G[i]  BY <1>2, <1>3, <1>4, <1>9
  <2>2. SumFunctionOnSet(F, S) = SumFunctionOnSet(G, S)  BY <1>2, <2>1, SumAgree
  <2> QED  BY <1>1, <1>5, <1>7, <1>9, <2>2
<1> QED  BY <1>8, <1>9

\* What one account is owed less, bill by bill.
HoldWeight(u, c) == [b \in Bill |-> IF b.user = u /\ b.currency = c THEN b.hold ELSE 0]

LEMMA HoldWeightInt == ASSUME NEW u, NEW c PROVE \A b \in Bill : HoldWeight(u, c)[b] \in Int
<1>1. \A b \in Bill : b.hold \in Int  BY DEF Bill
<1> QED  BY <1>1 DEF HoldWeight

\* The holds due to an account are a total over all bills.
LEMMA DueIsTotal ==
    ASSUME NEW b \in Seq(Bill), NEW u, NEW c
    PROVE  DueHold(b, u, c) = Total(b, HoldWeight(u, c)) /\ DueHold(b, u, c) \in Int
<1>1. PICK W : W = HoldWeight(u, c)  OBVIOUS
<1>2. \A x \in Bill : W[x] = (IF x.user = u /\ x.currency = c THEN x.hold ELSE 0) /\ W[x] \in Int
  BY <1>1, HoldWeightInt DEF HoldWeight
<1>3. PICK D : D = DOMAIN b  OBVIOUS
<1>4. D = 1 .. Len(b) /\ Len(b) \in Nat  BY <1>3
<1>5. IsFiniteSet(D)  BY <1>4, FS_Interval
<1>6. PICK K : K = DueOf(b, u, c)  OBVIOUS
<1>7. K \in SUBSET D  BY <1>3, <1>6 DEF DueOf
<1>8. PICK F : F = [n \in K |-> b[n].hold]  OBVIOUS
<1>9. PICK G : G = [n \in D |-> W[b[n]]]  OBVIOUS
<1>10. \A n \in D : b[n] \in Bill  BY <1>4
<1>11. \A n \in K : F[n] \in Int /\ G[n] = F[n]
  <2> TAKE n \in K
  <2>1. n \in D /\ b[n].user = u /\ b[n].currency = c  BY <1>3, <1>6 DEF DueOf
  <2>2. G[n] = W[b[n]] /\ F[n] = b[n].hold /\ b[n] \in Bill  BY <1>8, <1>9, <1>10, <2>1
  <2> QED  BY <1>2, <2>1, <2>2
<1>12. \A n \in D \ K : G[n] = 0
  <2> TAKE n \in D \ K
  <2>1. ~ (b[n].user = u /\ b[n].currency = c)  BY <1>3, <1>6 DEF DueOf
  <2>2. G[n] = W[b[n]] /\ b[n] \in Bill  BY <1>9, <1>10
  <2> QED  BY <1>2, <2>1, <2>2
<1>13. SumFunctionOnSet(G, D) = SumFunctionOnSet(F, K)  BY <1>5, <1>7, <1>11, <1>12, SumWhere
<1>14. Total(b, W) = SumFunctionOnSet(G, D)  BY <1>3, <1>9 DEF Total
<1>15. DueHold(b, u, c) = SumFunctionOnSet(F, K)  BY <1>6, <1>8 DEF DueHold
<1>16. Total(b, W) \in Int  BY <1>2, TotalInt
<1> QED  BY <1>1, <1>13, <1>14, <1>15, <1>16
-----------------------------------------------------------------------------
(* Placing an order.                                                       *)

Balances == [available : Int, hold : Int]

\* PlaceOrder holds what its new order owes, and only if it is available.
LEMMA PlaceInv == ASSUME SettleInv, NEW i \in Ids, PlaceOrder(i) PROVE SettleInv'
<1>0. /\ TypeOK /\ EngineOK /\ FillsGenuine /\ RowsUnique /\ SettledSums /\ BillsSigned
      /\ AccountsSigned /\ HoldsExact /\ BatchRoom
  BY DEF SettleInv
<1>1. PICK r : r = Request[i]  OBVIOUS
<1>2. PICK u : u = r.user  OBVIOUS
<1>3. PICK c : c = HoldCurrency(r.side)  OBVIOUS
<1>4. PICK h : h = HoldSize(r)  OBVIOUS
<1>5. /\ u \in Users /\ u \in Clients /\ u # House /\ c \in Currencies /\ h \in Nat
      /\ r.size \in Nat /\ r.funds \in Nat /\ r.price \in Nat /\ ValidRequest(r) /\ r.side \in {"buy", "sell"}
  BY <1>1, <1>2, <1>3, <1>4, Constants, SettlementAssumption DEF Clients
<1>6. /\ order[i].status = "none" /\ h > 0 /\ account[u][c].available >= h
      /\ account' = [account EXCEPT ![u][c] = [available |-> @.available - h, hold |-> @.hold + h]]
      /\ order' = [order EXCEPT ![i].status = "new"]
      /\ fillRows' = fillRows /\ bills' = bills /\ logTopic' = logTopic
      /\ repeats' = repeats /\ crashes' = crashes /\ halved' = halved
      /\ live' = [live EXCEPT ![i] = [size |-> r.size, funds |-> r.funds, phase |-> "sent"]]
  BY <1>1, <1>2, <1>3, <1>4 DEF PlaceOrder, HoldBalance, Matching!Submit
<1>m. /\ readOffset' = readOffset /\ lastSeq' = lastSeq /\ makerFill' = makerFill
      /\ fillCh' = fillCh /\ batch' = batch /\ flushing' = flushing
  BY DEF PlaceOrder, maker
<1>7. /\ account \in [Clients -> [Currencies -> Balances]] /\ order \in [Ids -> OrderRow]
      /\ live \in [Ids -> Lives]
  BY <1>0 DEF TypeOK, Lives, Balances
<1>8. PICK x : x = account[u][c]  OBVIOUS
<1>9. PICK y : y = [available |-> x.available - h, hold |-> x.hold + h]  OBVIOUS
<1>10. /\ x \in Balances /\ x.available \in Int /\ x.hold \in Int /\ x.available >= h
  BY <1>5, <1>6, <1>7, <1>8 DEF Balances
<1>11. y \in Balances /\ y.available >= 0 /\ y.hold = x.hold + h
  BY <1>5, <1>9, <1>10 DEF Balances
<1>12. /\ account' \in [Clients -> [Currencies -> Balances]]
       /\ account'[u][c] = y
       /\ \A v \in Clients, d \in Currencies : v # u \/ d # c => account'[v][d] = account[v][d]
  <2>1. account' = [account EXCEPT ![u] = [account[u] EXCEPT ![c] = y]]
    BY <1>5, <1>6, <1>7, <1>8, <1>9
  <2>2. [account[u] EXCEPT ![c] = y] \in [Currencies -> Balances]  BY <1>5, <1>7, <1>11
  <2> QED  BY <1>5, <1>7, <2>1, <2>2
<1>13. /\ order'[i] = [order[i] EXCEPT !.status = "new"] /\ order[i] \in OrderRow
       /\ \A j \in Ids : j # i => order'[j] = order[j]
       /\ DOMAIN order' = Ids /\ order' = [j \in Ids |-> order'[j]]
  BY <1>6, <1>7
<1>14. /\ order'[i] \in OrderRow /\ order'[i].status = "new"
       /\ order'[i].executed = order[i].executed /\ order'[i].filled = order[i].filled
  BY <1>13 DEF OrderRow
<1>15. order' \in [Ids -> OrderRow]
  <2>1. \A j \in Ids : order'[j] \in OrderRow  BY <1>7, <1>13, <1>14
  <2> QED  BY <1>13, <2>1
<1>16. /\ live' \in [Ids -> Lives] /\ \A j \in Ids : j # i => live'[j] = live[j]
       /\ live'[i] = [size |-> r.size, funds |-> r.funds, phase |-> "sent"]
  <2>1. [size |-> r.size, funds |-> r.funds, phase |-> "sent"] \in Lives
    BY <1>5 DEF Lives, Matching!Phases
  <2> QED  BY <1>6, <1>7, <2>1
<1>17. TypeOK'
  <2>1. /\ account' \in [Clients -> [Currencies -> [available : Int, hold : Int]]]
        /\ live' \in [Ids -> [size : Nat, funds : Nat, phase : Matching!Phases]]
    BY <1>12, <1>16 DEF Balances, Lives
  <2> QED  BY <1>0, <1>6, <1>m, <1>15, <2>1 DEF TypeOK
<1>18. EngineOK'
  <2>1. LogFine(logTopic) /\ \A j \in Ids : OrderOK(j, logTopic, live, order[j].status)
    BY <1>0 DEF EngineOK
  <2>2. \A j \in Ids : OrderOK(j, logTopic, live', order'[j].status)
    <3> TAKE j \in Ids
    <3>1. CASE j # i  BY <1>13, <1>16, <2>1, <3>1 DEF OrderOK
    <3>2. CASE j = i
      <4>1. Traded(logTopic, i) = 0 /\ Worth(logTopic, i) = 0
        BY <1>6, <2>1 DEF OrderOK
      <4>2. /\ live'[i].size = r.size /\ live'[i].funds = r.funds /\ live'[i].phase = "sent"
        BY <1>16
      <4>3. r.side = "buy" /\ r.size > 0 => r.funds >= r.size * r.price
        BY <1>5, Product DEF ValidRequest
      <4>4. r.size - r.size = 0 /\ r.funds - r.funds = 0  BY <1>5
      <4> QED  BY <1>1, <1>4, <1>6, <1>14, <3>2, <4>1, <4>2, <4>3, <4>4 DEF OrderOK
    <3> QED  BY <3>1, <3>2
  <2> QED  BY <1>6, <2>1, <2>2, Zenon DEF EngineOK
<1>19. FillsGenuine' /\ BatchRoom' /\ RowsUnique' /\ BillsSigned'
  BY <1>0, <1>6, <1>m, Zenon DEF FillsGenuine, PipeGenuine, BatchRoom, RowsUnique, BillsSigned
<1>20. \A j \in Ids : order'[j].executed = order[j].executed /\ order'[j].filled = order[j].filled
  BY <1>13, <1>14
<1>21. SettledSums'
  <2>1. SettledSums /\ fillRows' = fillRows  BY <1>0, <1>6
  <2> QED  BY <1>20, <2>1, SameTable
<1>22. AccountsSigned'
  <2>1. ASSUME NEW v \in Clients, NEW d \in Currencies
        PROVE  account'[v][d].available >= 0 /\ (v = House => account'[v][d].hold = 0)
    <3>1. CASE v = u /\ d = c  BY <1>5, <1>11, <1>12, <3>1
    <3>2. CASE v # u \/ d # c  BY <1>0, <1>12, <3>2 DEF AccountsSigned
    <3> QED  BY <3>1, <3>2
  <2> QED  BY <2>1 DEF AccountsSigned
<1>23. \A j \in Ids : HeldIn(order, j) \in Nat  BY <1>0, HeldNat, HoldsAre
<1>24. order[i].executed = 0 /\ order[i].filled = 0  BY <1>0, <1>6, PaidBound
<1>25. HeldIn(order, i) = 0 /\ HeldIn(order', i) = h
  BY <1>1, <1>4, <1>5, <1>6, <1>14, <1>24 DEF HeldIn, Final
<1>26. \A j \in Ids \ {i} : HeldIn(order', j) = HeldIn(order, j)  BY <1>13 DEF HeldIn
<1>27. \A j \in Ids : HeldIn(order, j) \in Int /\ HeldIn(order', j) \in Int
  BY <1>5, <1>23, <1>25, <1>26
<1>28. \A v, d : /\ Owed(order, v, d) \in Int
                 /\ Owed(order', v, d) = Owed(order, v, d)
                      + (IF i \in Mine(v, d) THEN HeldIn(order', i) - HeldIn(order, i) ELSE 0)
  <2> TAKE v, d
  <2>1. PICK o : o = order  OBVIOUS
  <2>2. PICK p : p = order'  OBVIOUS
  <2>3. \A j \in Ids : HeldIn(o, j) \in Int /\ HeldIn(p, j) \in Int  BY <1>27, <2>1, <2>2
  <2>4. \A j \in Ids \ {i} : HeldIn(p, j) = HeldIn(o, j)  BY <1>26, <2>1, <2>2
  <2>5. /\ Owed(o, v, d) \in Int
        /\ Owed(p, v, d) = Owed(o, v, d)
             + (IF i \in Mine(v, d) THEN HeldIn(p, i) - HeldIn(o, i) ELSE 0)
    BY <2>3, <2>4, OwedChange
  <2> QED  BY <2>1, <2>2, <2>5
<1>29. \A v \in Users, d \in Currencies :
          account'[v][d].hold + DueHold(bills', v, d) = Owed(order', v, d)
  <2> TAKE v \in Users, d \in Currencies
  <2>1. v \in Clients /\ account[v][d] \in Balances  BY <1>7 DEF Clients
  <2>2. account[v][d].hold + DueHold(bills, v, d) = Owed(order, v, d)  BY <1>0, HoldsAre
  <2>3. DueHold(bills', v, d) = DueHold(bills, v, d) /\ DueHold(bills, v, d) \in Int
    <3>1. bills \in Seq(Bill)  BY <1>0 DEF TypeOK
    <3> QED  BY <1>6, <3>1, DueIsTotal
  <2>4. account[v][d].hold \in Int  BY <2>1 DEF Balances
  <2>5. i \in Mine(v, d) <=> v = u /\ d = c  BY <1>1, <1>2, <1>3 DEF Mine
  <2>6. /\ Owed(order, v, d) \in Int
        /\ Owed(order', v, d) = Owed(order, v, d)
              + (IF i \in Mine(v, d) THEN HeldIn(order', i) - HeldIn(order, i) ELSE 0)
    BY <1>28
  <2>7. CASE v = u /\ d = c
    <3>1. Owed(order', v, d) = Owed(order, v, d) + h  BY <1>5, <1>25, <2>5, <2>6, <2>7
    <3>2. account'[v][d].hold = account[v][d].hold + h  BY <1>8, <1>11, <1>12, <2>7
    <3> QED  BY <1>5, <2>2, <2>3, <2>4, <2>6, <3>1, <3>2
  <2>8. CASE v # u \/ d # c
    <3>1. Owed(order', v, d) = Owed(order, v, d)  BY <2>5, <2>6, <2>8
    <3>2. account'[v][d].hold = account[v][d].hold  BY <1>12, <2>1, <2>8
    <3> QED  BY <2>2, <2>3, <3>1, <3>2
  <2> QED  BY <2>7, <2>8
<1>30. HoldsExact'  BY <1>29, HoldsAre
<1> QED  BY <1>17, <1>18, <1>19, <1>21, <1>22, <1>30 DEF SettleInv
-----------------------------------------------------------------------------
(* Paying bills.                                                           *)

PaidHold(b, R) == SumFunctionOnSet([n \in R |-> b[n].hold], R)

Paying(b, R, u, c) == b \in Seq(Bill) /\ R \in SUBSET DueOf(b, u, c)

\* What is due is what is paid and what stays due.
StaysDue(b, R, u, c, v, d) ==
    LET q == Keep(b, DOMAIN b \ R)
    IN  /\ DueHold(b, v, d) = DueHold(q, v, d) + (IF v = u /\ d = c THEN PaidHold(b, R) ELSE 0)
        /\ q \in Seq(Bill) /\ DueHold(q, v, d) \in Int /\ PaidHold(b, R) \in Int

\* Paying bills of one account leaves the others due.
LEMMA DuePaid ==
    ASSUME NEW b, NEW R, NEW u, NEW c, Paying(b, R, u, c), NEW v, NEW d
    PROVE  StaysDue(b, R, u, c, v, d)
<1>0. b \in Seq(Bill) /\ R \in SUBSET DueOf(b, u, c)  BY DEF Paying
<1>1. PICK W : W = HoldWeight(v, d)  OBVIOUS
<1>2. \A x \in Bill : W[x] = (IF x.user = v /\ x.currency = d THEN x.hold ELSE 0) /\ W[x] \in Int
                      /\ x.hold \in Int
  <2>1. \A x \in Bill : x.hold \in Int  BY DEF Bill
  <2> QED  BY <1>1, <2>1, HoldWeightInt DEF HoldWeight
<1>3. PICK D : D = DOMAIN b  OBVIOUS
<1>4. D = 1 .. Len(b) /\ Len(b) \in Nat /\ R \in SUBSET D  BY <1>0, <1>3 DEF DueOf
<1>5. IsFiniteSet(D)  BY <1>4, FS_Interval
<1>6. PICK K : K = D \ R  OBVIOUS
<1>7. IsFiniteSet(K) /\ IsFiniteSet(R) /\ K \cap R = {} /\ K \cup R = D /\ K \in SUBSET (DOMAIN b)
  BY <1>3, <1>4, <1>5, <1>6, FS_Subset
<1>8. PICK q : q = Keep(b, K)  OBVIOUS
<1>9. q \in Seq(Bill)  BY <1>0, <1>7, <1>8, KeepRows
<1>10. Total(q, W) = SumFunctionOnSet([n \in K |-> W[b[n]]], K)  BY <1>0, <1>2, <1>7, <1>8, KeepTotal
<1>11. PICK F : F = [n \in D |-> W[b[n]]]  OBVIOUS
<1>12. \A n \in D : F[n] = W[b[n]] /\ b[n] \in Bill /\ F[n] \in Int  BY <1>0, <1>2, <1>4, <1>11
<1>13. Total(b, W) = SumFunctionOnSet(F, D)  BY <1>3, <1>11 DEF Total
<1>14. SumFunctionOnSet(F, K \cup R) = SumFunctionOnSet(F, K) + SumFunctionOnSet(F, R)
  <2>1. \A n \in K \cup R : F[n] \in Int  BY <1>7, <1>12
  <2> QED  BY <1>7, <2>1, SumDisjoint
<1>15. SumFunctionOnSet(F, K) = Total(q, W)
  <2>1. PICK G : G = [n \in K |-> W[b[n]]]  OBVIOUS
  <2>2. \A n \in K : F[n] = G[n]  BY <1>7, <1>12, <2>1
  <2>3. SumFunctionOnSet(F, K) = SumFunctionOnSet(G, K)  BY <1>7, <2>2, SumAgree
  <2> QED  BY <1>10, <2>1, <2>3
<1>16. PICK H : H = [n \in R |-> b[n].hold]  OBVIOUS
<1>17. \A n \in R : /\ n \in D /\ b[n] \in Bill /\ b[n].user = u /\ b[n].currency = c
                    /\ H[n] = b[n].hold /\ H[n] \in Int
  BY <1>0, <1>2, <1>4, <1>12, <1>16 DEF DueOf
<1>18. SumFunctionOnSet(H, R) \in Int  BY <1>7, <1>17, SumInt
<1>19. SumFunctionOnSet(F, R) = IF v = u /\ d = c THEN SumFunctionOnSet(H, R) ELSE 0
  <2>1. CASE v = u /\ d = c
    <3>1. \A n \in R : F[n] = H[n]  BY <1>2, <1>12, <1>17, <2>1
    <3>2. SumFunctionOnSet(F, R) = SumFunctionOnSet(H, R)  BY <1>7, <3>1, SumAgree
    <3> QED  BY <2>1, <3>2
  <2>2. CASE ~ (v = u /\ d = c)
    <3>1. \A n \in R : F[n] = 0  BY <1>2, <1>12, <1>17, <2>2
    <3>2. SumFunctionOnSet(F, R) = 0  BY <1>7, <3>1, SumZero
    <3> QED  BY <2>2, <3>2
  <2> QED  BY <2>1, <2>2
<1>20. DueHold(b, v, d) = Total(b, W)  BY <1>0, <1>1, DueIsTotal
<1>21. DueHold(q, v, d) = Total(q, W) /\ DueHold(q, v, d) \in Int  BY <1>1, <1>9, DueIsTotal
<1>22. DueHold(b, v, d) = DueHold(q, v, d) + SumFunctionOnSet(F, R)
  BY <1>7, <1>13, <1>14, <1>15, <1>20, <1>21
<1>23. q = Keep(b, DOMAIN b \ R)  BY <1>3, <1>6, <1>8
<1>24. PaidHold(b, R) = SumFunctionOnSet(H, R)  BY <1>16 DEF PaidHold
<1> QED  BY <1>9, <1>18, <1>19, <1>21, <1>22, <1>23, <1>24 DEF StaysDue

\* ExecuteBill moves what was due into the account.
LEMMA PayInv ==
    ASSUME SettleInv, NEW u \in Clients, NEW c \in Currencies, ExecuteBill(u, c) PROVE SettleInv'
<1>0. /\ TypeOK /\ EngineOK /\ FillsGenuine /\ RowsUnique /\ SettledSums /\ BillsSigned
      /\ AccountsSigned /\ HoldsExact /\ BatchRoom
  BY DEF SettleInv
<1>1. PICK R : R = ToPay(u, c)  OBVIOUS
<1>2. bills \in Seq(Bill) /\ Len(bills) \in Nat /\ DOMAIN bills = 1 .. Len(bills)  BY <1>0 DEF TypeOK
<1>3. R \in SUBSET DueOf(bills, u, c)  BY <1>1 DEF ToPay, FirstOf, DueOf
<1>4. PICK a : a = Availables(R)  OBVIOUS
<1>5. PICK h : h = Holds(R)  OBVIOUS
<1>6. /\ account' = [account EXCEPT ![u][c] = [available |-> @.available + a, hold |-> @.hold + h]]
      /\ bills' = Keep(bills, DOMAIN bills \ R)
      /\ order' = order /\ fillRows' = fillRows /\ logTopic' = logTopic /\ live' = live
      /\ repeats' = repeats /\ crashes' = crashes /\ halved' = halved
  BY <1>1, <1>4, <1>5 DEF ExecuteBill, engine
<1>m. /\ readOffset' = readOffset /\ lastSeq' = lastSeq /\ makerFill' = makerFill
      /\ fillCh' = fillCh /\ batch' = batch /\ flushing' = flushing
  BY DEF ExecuteBill, maker
<1>7. \A n \in R : /\ n \in 1 .. Len(bills) /\ bills[n] \in Bill /\ bills[n].user = u
                   /\ bills[n].available \in Nat /\ bills[n].hold \in Int
                   /\ u = House => bills[n].hold = 0
  <2> TAKE n \in R
  <2>1. n \in 1 .. Len(bills) /\ bills[n].user = u  BY <1>2, <1>3 DEF DueOf
  <2>2. bills[n] \in Bill  BY <1>2, <2>1
  <2>3. bills[n].available \in Int /\ bills[n].hold \in Int  BY <2>2 DEF Bill
  <2>4. bills[n].available >= 0 /\ (bills[n].user = House => bills[n].hold = 0)
    BY <1>0, <2>1 DEF BillsSigned
  <2> QED  BY <2>1, <2>2, <2>3, <2>4
<1>8. IsFiniteSet(R)
  <2>1. IsFiniteSet(1 .. Len(bills)) /\ R \subseteq 1 .. Len(bills)  BY <1>2, <1>7, FS_Interval
  <2> QED  BY <2>1, FS_Subset
<1>9. a \in Nat
  <2>1. PICK F : F = [n \in R |-> bills[n].available]  OBVIOUS
  <2>2. \A n \in R : F[n] \in Nat  BY <1>7, <2>1
  <2>3. SumFunctionOnSet(F, R) \in Nat  BY <1>8, <2>2, SumNat
  <2> QED  BY <1>4, <2>1, <2>3 DEF Availables
<1>10. h \in Int /\ (u = House => h = 0)
  <2>1. PICK F : F = [n \in R |-> bills[n].hold]  OBVIOUS
  <2>2. \A n \in R : F[n] \in Int  BY <1>7, <2>1
  <2>3. SumFunctionOnSet(F, R) \in Int  BY <1>8, <2>2, SumInt
  <2>4. ASSUME u = House PROVE SumFunctionOnSet(F, R) = 0
    <3>1. \A n \in R : F[n] = 0  BY <1>7, <2>1, <2>4
    <3> QED  BY <1>8, <3>1, SumZero
  <2> QED  BY <1>5, <2>1, <2>3, <2>4 DEF Holds
<1>11. account \in [Clients -> [Currencies -> Balances]]  BY <1>0 DEF TypeOK, Balances
<1>12. PICK x : x = account[u][c]  OBVIOUS
<1>13. PICK y : y = [available |-> x.available + a, hold |-> x.hold + h]  OBVIOUS
<1>14. x \in Balances /\ x.available \in Int /\ x.hold \in Int /\ x.available >= 0
       /\ (u = House => x.hold = 0)
  <2>1. x \in Balances  BY <1>11, <1>12
  <2> QED  BY <1>0, <1>12, <2>1 DEF Balances, AccountsSigned
<1>15. y \in Balances /\ y.available >= 0 /\ y.hold = x.hold + h /\ (u = House => y.hold = 0)
  BY <1>9, <1>10, <1>13, <1>14 DEF Balances
<1>16. /\ account' \in [Clients -> [Currencies -> Balances]]
       /\ account'[u][c] = y
       /\ \A v \in Clients, d \in Currencies : v # u \/ d # c => account'[v][d] = account[v][d]
  <2>1. account' = [account EXCEPT ![u] = [account[u] EXCEPT ![c] = y]]
    BY <1>6, <1>11, <1>12, <1>13
  <2>2. [account[u] EXCEPT ![c] = y] \in [Currencies -> Balances]  BY <1>11, <1>15
  <2> QED  BY <1>11, <2>1, <2>2
<1>17. PICK K : K = DOMAIN bills \ R  OBVIOUS
<1>18. K \in SUBSET (DOMAIN bills)  BY <1>17
<1>19. bills' \in Seq(Bill) /\ \E g : Places(bills', bills, K, g)
  BY <1>2, <1>6, <1>17, <1>18, KeepRows
<1>20. BillsSigned'
  <2>1. PICK g : Places(bills', bills, K, g)  BY <1>19
  <2>2. \A n \in 1 .. Len(bills') : g[n] \in 1 .. Len(bills) /\ bills'[n] = bills[g[n]]
    BY <1>2, <1>18, <2>1 DEF Places
  <2>3. \A n \in 1 .. Len(bills') : /\ bills'[n].available >= 0 /\ bills'[n].hold <= 0
                                    /\ bills'[n].user = House => bills'[n].hold = 0
    BY <1>0, <2>2 DEF BillsSigned
  <2> QED  BY <2>3 DEF BillsSigned
<1>21. TypeOK'
  <2>1. account' \in [Clients -> [Currencies -> [available : Int, hold : Int]]]
    BY <1>16 DEF Balances
  <2> QED  BY <1>0, <1>6, <1>m, <1>19, <2>1 DEF TypeOK
<1>22. EngineOK' /\ FillsGenuine' /\ BatchRoom' /\ RowsUnique'
  BY <1>0, <1>6, <1>m, Zenon DEF EngineOK, FillsGenuine, PipeGenuine, BatchRoom, RowsUnique
<1>23. SettledSums'  BY <1>0, <1>6, Zenon DEF SettledSums, Settled, Sizes, Values
<1>24. AccountsSigned'
  <2>1. ASSUME NEW v \in Clients, NEW d \in Currencies
        PROVE  account'[v][d].available >= 0 /\ (v = House => account'[v][d].hold = 0)
    <3>1. CASE v = u /\ d = c  BY <1>15, <1>16, <3>1
    <3>2. CASE v # u \/ d # c  BY <1>0, <1>16, <3>2 DEF AccountsSigned
    <3> QED  BY <3>1, <3>2
  <2> QED  BY <2>1 DEF AccountsSigned
<1>25. \A v \in Users, d \in Currencies :
          account'[v][d].hold + DueHold(bills', v, d) = Owed(order', v, d)
  <2> TAKE v \in Users, d \in Currencies
  <2>1. v \in Clients /\ account[v][d] \in Balances  BY <1>11 DEF Clients
  <2>2. account[v][d].hold + DueHold(bills, v, d) = Owed(order, v, d)  BY <1>0, HoldsAre
  <2>3. account[v][d].hold \in Int  BY <2>1 DEF Balances
  <2>4. PICK b : b = bills  OBVIOUS
  <2>5. StaysDue(b, R, u, c, v, d)
    <3>1. Paying(b, R, u, c)  BY <1>2, <1>3, <2>4 DEF Paying
    <3> QED  BY <3>1, DuePaid
  <2>6. h = PaidHold(b, R)  BY <1>5, <2>4 DEF Holds, PaidHold
  <2>7. Keep(b, DOMAIN b \ R) = bills'  BY <1>6, <2>4
  <2>8. DueHold(bills, v, d) = DueHold(bills', v, d) + (IF v = u /\ d = c THEN h ELSE 0)
        /\ DueHold(bills', v, d) \in Int
    BY <2>4, <2>5, <2>6, <2>7 DEF StaysDue
  <2>9. CASE v = u /\ d = c
    <3>1. account'[v][d].hold = account[v][d].hold + h  BY <1>12, <1>15, <1>16, <2>9
    <3> QED  BY <1>6, <1>10, <2>2, <2>3, <2>8, <2>9, <3>1
  <2>10. CASE v # u \/ d # c
    <3>1. account'[v][d].hold = account[v][d].hold  BY <1>16, <2>1, <2>10
    <3> QED  BY <1>6, <2>2, <2>3, <2>8, <2>10, <3>1
  <2> QED  BY <2>9, <2>10
<1>26. HoldsExact'  BY <1>25, HoldsAre
<1> QED  BY <1>20, <1>21, <1>22, <1>23, <1>24, <1>26 DEF SettleInv
-----------------------------------------------------------------------------
(* The bills of an order's fills.                                          *)

SignedBill == {b \in Bill : b.available >= 0 /\ b.hold <= 0 /\ (b.user = House => b.hold = 0)}

\* Bills add to balances and take from holds, the house's holds apart.
LEMMA SignedSeq ==
    ASSUME NEW q \in Seq(Bill)
    PROVE  q \in Seq(SignedBill) <=>
              \A n \in 1 .. Len(q) : /\ q[n].available >= 0 /\ q[n].hold <= 0
                                     /\ q[n].user = House => q[n].hold = 0
<1>1. \A n \in 1 .. Len(q) : q[n] \in Bill  OBVIOUS
<1>2. ASSUME q \in Seq(SignedBill), NEW n \in 1 .. Len(q) PROVE q[n] \in SignedBill
  BY <1>2
<1>3. ASSUME \A n \in 1 .. Len(q) : q[n] \in SignedBill PROVE q \in Seq(SignedBill)
  BY <1>3
<1>4. \A n \in 1 .. Len(q) : q[n] \in SignedBill <=>
          /\ q[n].available >= 0 /\ q[n].hold <= 0
          /\ q[n].user = House => q[n].hold = 0
  BY <1>1 DEF SignedBill
<1> QED  BY <1>2, <1>3, <1>4

LEMMA SignedWeight ==
    ASSUME NEW u, NEW c
    PROVE  \A b \in SignedBill : /\ b \in Bill /\ HoldWeight(u, c)[b] \in Int
                                 /\ HoldWeight(u, c)[b] = IF b.user = u /\ b.currency = c THEN b.hold ELSE 0
  BY HoldWeightInt DEF SignedBill, HoldWeight

LEMMA SignedIsBills == ASSUME NEW q \in Seq(SignedBill) PROVE q \in Seq(Bill)
<1>1. \A n \in 1 .. Len(q) : q[n] \in Bill  BY DEF SignedBill
<1> QED  BY <1>1

\* The fee's bill is written only when there is a fee.
LEMMA PositiveOnlyOK ==
    ASSUME NEW b \in SignedBill, NEW W, \A x \in SignedBill : W[x] \in Int
    PROVE  /\ PositiveOnly(b) \in Seq(SignedBill)
           /\ Total(PositiveOnly(b), W) = IF b.available > 0 THEN W[b] ELSE 0
<1>1. CASE b.available > 0
  <2>1. PositiveOnly(b) = <<b>>  BY <1>1 DEF PositiveOnly
  <2>2. Total(<<b>>, W) = W[b]  BY TotalOne
  <2> QED  BY <1>1, <2>1, <2>2
<1>2. CASE ~ (b.available > 0)
  <2>1. PositiveOnly(b) = << >>  BY <1>2 DEF PositiveOnly
  <2> QED  BY <1>2, <2>1, TotalEmpty
<1> QED  BY <1>1, <1>2

\* What a fill takes from its order's hold.
PaidOf(i, f) == IF Request[i].side = "buy" THEN f.size * f.price ELSE f.size

\* A fill of a trade of order i that e logs.
TradeOf(i, f, e) ==
    i \in Ids /\ f \in Fill /\ e \in LogEntry /\ FillOf(f, e) /\ TradeOK(e) /\ ~ f.done /\ f.id = i

\* The fee of a trade is within what is received.
LEMMA FeeBound ==
    ASSUME NEW i, NEW f, NEW e, TradeOf(i, f, e)
    PROVE  /\ f.size \in Nat /\ f.price \in Nat /\ f.size * f.price \in Nat
           /\ Fee(f.liquidity, f.size) \in 0 .. f.size
           /\ Fee(f.liquidity, f.size * f.price) \in 0 .. f.size * f.price
<1>1. /\ f.size \in Nat /\ f.price \in Nat /\ e.type = "match" /\ f.size = e.size /\ f.price = e.price
      /\ f.liquidity \in {"T", "M"}
  BY DEF TradeOf, FillOf, Fill
<1>2. PICK m : m = e.maker  OBVIOUS
<1>3. m \in Ids  BY <1>1, <1>2 DEF TradeOf, LogEntry
<1>4. PICK s : s = Request[m].size  OBVIOUS
<1>5. PICK p : p = Request[m].price  OBVIOUS
<1>6. s \in Nat /\ p \in Nat /\ f.size <= s /\ f.price = p
  BY <1>1, <1>2, <1>3, <1>4, <1>5, Constants DEF TradeOf, TradeOK
<1>7. s * (p + 1) = s * p + s  BY <1>6, Z3
<1>8. s * p \in Nat /\ f.size * p \in Nat /\ f.size * p <= s * p  BY <1>1, <1>6, Product, ProductGrows
<1>9. f.size \in 0 .. s * (p + 1) /\ f.size * f.price \in 0 .. s * (p + 1)
  BY <1>1, <1>6, <1>7, <1>8
<1>10. \A amount \in 0 .. s * (p + 1) : Fee(f.liquidity, amount) \in 0 .. amount
  BY <1>1, <1>3, <1>4, <1>5, FeeAssumption
<1> QED  BY <1>1, <1>6, <1>8, <1>9, <1>10

\* The bills of a fill take from the hold just what the fill is worth.
LEMMA TradeBillsOK ==
    ASSUME NEW i, NEW f, NEW e, TradeOf(i, f, e)
    PROVE  /\ TradeBills(Request[i], f) \in Seq(SignedBill)
           /\ PaidOf(i, f) \in Nat
           /\ \A u, c : Total(TradeBills(Request[i], f), HoldWeight(u, c))
                           = IF i \in Mine(u, c) THEN 0 - PaidOf(i, f) ELSE 0
<1>1. /\ f.size \in Nat /\ f.price \in Nat /\ f.size * f.price \in Nat
      /\ Fee(f.liquidity, f.size) \in 0 .. f.size
      /\ Fee(f.liquidity, f.size * f.price) \in 0 .. f.size * f.price
  BY FeeBound
<1>2. PICK r : r = Request[i]  OBVIOUS
<1>3. /\ i \in Ids /\ r.user \in Users /\ r.user # House /\ r.side \in {"buy", "sell"}
      /\ HoldCurrency(r.side) \in Currencies /\ r.user \in Clients /\ House \in Clients
  BY <1>2, Constants, SettlementAssumption DEF TradeOf, Clients
<1>4. PICK got : got = IF r.side = "buy" THEN f.size ELSE f.size * f.price  OBVIOUS
<1>5. PICK cur : cur = IF r.side = "buy" THEN "base" ELSE "quote"  OBVIOUS
<1>6. PICK paid : paid = IF r.side = "buy" THEN f.size * f.price ELSE f.size  OBVIOUS
<1>7. PICK fee : fee = Fee(f.liquidity, got)  OBVIOUS
<1>8. got \in Nat /\ paid \in Nat /\ fee \in 0 .. got /\ cur \in Currencies
  BY <1>1, <1>4, <1>5, <1>6, <1>7 DEF Currencies
<1>9. PICK x : x = NewBill(r.user, cur, got - fee, 0)  OBVIOUS
<1>10. PICK y : y = NewBill(r.user, HoldCurrency(r.side), 0, -paid)  OBVIOUS
<1>11. PICK z : z = NewBill(House, cur, fee, 0)  OBVIOUS
<1>12. TradeBills(r, f) = <<x, y>> \o PositiveOnly(z)
  BY <1>4, <1>5, <1>6, <1>7, <1>9, <1>10, <1>11, Zenon DEF TradeBills
<1>13. x \in SignedBill /\ x.hold = 0
  BY <1>3, <1>8, <1>9 DEF SignedBill, Bill, NewBill
<1>14. y \in SignedBill /\ y.hold = 0 - paid /\ y.user = r.user /\ y.currency = HoldCurrency(r.side)
  BY <1>3, <1>8, <1>10 DEF SignedBill, Bill, NewBill
<1>15. z \in SignedBill /\ z.hold = 0
  BY <1>3, <1>8, <1>11 DEF SignedBill, Bill, NewBill
<1>16. <<x, y>> = <<x>> \o <<y>> /\ <<x>> \in Seq(SignedBill) /\ <<y>> \in Seq(SignedBill)
       /\ <<x, y>> \in Seq(SignedBill)
  BY <1>13, <1>14
<1>17. PositiveOnly(z) \in Seq(SignedBill)  BY <1>15, SignedWeight, PositiveOnlyOK
<1>18. TradeBills(r, f) \in Seq(SignedBill)
  <2>1. <<x, y>> \o PositiveOnly(z) \in Seq(SignedBill)  BY <1>16, <1>17, Joined
  <2> QED  BY <1>12, <2>1
<1>19. PaidOf(i, f) = paid  BY <1>2, <1>6 DEF PaidOf
<1>20. ASSUME NEW u, NEW c
       PROVE  Total(TradeBills(r, f), HoldWeight(u, c)) = IF i \in Mine(u, c) THEN 0 - paid ELSE 0
  <2>1. PICK W : W = HoldWeight(u, c)  OBVIOUS
  <2>2. \A b \in SignedBill : W[b] \in Int /\ W[b] = IF b.user = u /\ b.currency = c THEN b.hold ELSE 0
    BY <2>1, SignedWeight
  <2>3. W[x] = 0 /\ W[z] = 0 /\ W[x] \in Int /\ W[y] \in Int /\ W[z] \in Int
    BY <1>13, <1>14, <1>15, <2>2
  <2>4. i \in Mine(u, c) <=> r.user = u /\ HoldCurrency(r.side) = c  BY <1>2, <1>3 DEF Mine
  <2>5. W[y] = IF i \in Mine(u, c) THEN 0 - paid ELSE 0  BY <1>8, <1>14, <2>2, <2>4
  <2>6. Total(<<x>>, W) = W[x] /\ Total(<<y>>, W) = W[y]  BY <2>3, TotalOne
  <2>7. Total(PositiveOnly(z), W) = 0  BY <1>15, <2>2, <2>3, PositiveOnlyOK
  <2>8. Total(<<x>> \o <<y>>, W) = Total(<<x>>, W) + Total(<<y>>, W)
    <3>1. PICK a : a = <<x>>  OBVIOUS
    <3>2. PICK b : b = <<y>>  OBVIOUS
    <3>3. a \in Seq(SignedBill) /\ b \in Seq(SignedBill)  BY <1>16, <3>1, <3>2
    <3>4. Total(a \o b, W) = Total(a, W) + Total(b, W)  BY <2>2, <3>3, TotalJoin
    <3> QED  BY <3>1, <3>2, <3>4
  <2>9. Total(TradeBills(r, f), W) = Total(<<x, y>>, W) + Total(PositiveOnly(z), W)
    <3>1. PICK a : a = <<x, y>>  OBVIOUS
    <3>2. PICK b : b = PositiveOnly(z)  OBVIOUS
    <3>3. a \in Seq(SignedBill) /\ b \in Seq(SignedBill)  BY <1>16, <1>17, <3>1, <3>2
    <3>4. Total(a \o b, W) = Total(a, W) + Total(b, W)  BY <2>2, <3>3, TotalJoin
    <3> QED  BY <1>12, <3>1, <3>2, <3>4
  <2>10. Total(<<x, y>>, W) = W[y]
    <3>1. PICK a : a = Total(<<x>>, W)  OBVIOUS
    <3>2. PICK b : b = Total(<<y>>, W)  OBVIOUS
    <3>3. a = 0 /\ b = W[y] /\ b \in Int  BY <2>3, <2>6, <3>1, <3>2
    <3>4. a + b = W[y]  BY <3>3
    <3>5. Total(<<x>> \o <<y>>, W) = W[y]  BY <2>8, <3>1, <3>2, <3>4, Zenon
    <3>6. <<x, y>> = <<x>> \o <<y>>  BY <1>16
    <3> QED  BY <3>5, <3>6, Zenon
  <2> QED  BY <2>1, <2>3, <2>5, <2>7, <2>9, <2>10
<1> QED  BY <1>2, <1>8, <1>18, <1>19, <1>20

\* A fill row of a match is of a trade in the log; that of a Done has no size.
LEMMA RowTrade ==
    ASSUME TypeOK, EngineOK, FillsGenuine, NEW n \in 1 .. Len(fillRows)
    PROVE  /\ fillRows[n] \in Fill
           /\ ~ fillRows[n].done => \E e : TradeOf(fillRows[n].id, fillRows[n], e)
           /\ fillRows[n].done => fillRows[n].size = 0 /\ fillRows[n].price = 0
<1>1. PICK f : f = fillRows[n]  OBVIOUS
<1>2. f \in Fill /\ f.id \in Ids
  <2>1. f \in Fill  BY <1>1 DEF TypeOK
  <2> QED  BY <2>1 DEF Fill
<1>3. PICK k \in 1 .. Len(logTopic) : FillOf(f, logTopic[k])
  BY <1>1 DEF FillsGenuine, AllGenuine, Genuine
<1>4. logTopic[k] \in LogEntry /\ TradeOK(logTopic[k])  BY DEF EngineOK, LogFine
<1>5. ASSUME ~ f.done PROVE TradeOf(f.id, f, logTopic[k])
  BY <1>2, <1>3, <1>4, <1>5 DEF TradeOf
<1>6. f.done => f.size = 0 /\ f.price = 0  BY <1>3 DEF FillOf
<1> QED  BY <1>1, <1>2, <1>5, <1>6

\* What the fills of rows T take from their order's hold.
PaidFor(i, T) == IF Request[i].side = "buy" THEN Values(T) ELSE Sizes(T)

\* What fills are worth in the currency of the hold, summed.
LEMMA PaidForSum ==
    ASSUME NEW i, NEW T
    PROVE  PaidFor(i, T) = SumFunctionOnSet([n \in T |-> PaidOf(i, fillRows[n])], T)
<1>1. CASE Request[i].side = "buy"
  <2>1. [n \in T |-> PaidOf(i, fillRows[n])] = [n \in T |-> fillRows[n].size * fillRows[n].price]
    BY <1>1 DEF PaidOf
  <2> QED  BY <1>1, <2>1, Zenon DEF PaidFor, Values
<1>2. CASE Request[i].side # "buy"
  <2>1. [n \in T |-> PaidOf(i, fillRows[n])] = [n \in T |-> fillRows[n].size]
    BY <1>2 DEF PaidOf
  <2> QED  BY <1>2, <2>1, Zenon DEF PaidFor, Sizes
<1> QED  BY <1>1, <1>2

\* The bills of several fills take from the hold what they are worth together.
LEMMA BillsOfOK ==
    ASSUME TypeOK, EngineOK, FillsGenuine, NEW i \in Ids,
           NEW T \in SUBSET {n \in 1 .. Len(fillRows) : fillRows[n].id = i /\ ~ fillRows[n].done}
    PROVE  /\ BillsOf(Request[i], T) \in Seq(SignedBill)
           /\ PaidFor(i, T) \in Nat
           /\ \A u, c : Total(BillsOf(Request[i], T), HoldWeight(u, c))
                           = IF i \in Mine(u, c) THEN 0 - PaidFor(i, T) ELSE 0
<1>0. Len(fillRows) \in Nat /\ DOMAIN fillRows = 1 .. Len(fillRows)  BY DEF TypeOK
<1>1. PICK D : D = 1 .. Len(fillRows)  OBVIOUS
<1>2. IsFiniteSet(D) /\ T \in SUBSET D /\ IsFiniteSet(T)
  <2>1. IsFiniteSet(D) /\ T \in SUBSET D  BY <1>0, <1>1, FS_Interval
  <2> QED  BY <2>1, FS_Subset
<1>3. PICK p : p = [n \in D |-> IF n \in T THEN TradeBills(Request[i], fillRows[n]) ELSE << >>]
  OBVIOUS
<1>4. BillsOf(Request[i], T) = FlattenSeq(p)  BY <1>0, <1>1, <1>3 DEF BillsOf
<1>5. ASSUME NEW n \in T
      PROVE  /\ TradeBills(Request[i], fillRows[n]) \in Seq(SignedBill)
             /\ PaidOf(i, fillRows[n]) \in Nat
             /\ \A u, c : Total(TradeBills(Request[i], fillRows[n]), HoldWeight(u, c))
                             = IF i \in Mine(u, c) THEN 0 - PaidOf(i, fillRows[n]) ELSE 0
  <2>1. n \in 1 .. Len(fillRows) /\ fillRows[n].id = i /\ ~ fillRows[n].done  OBVIOUS
  <2>2. PICK e : TradeOf(i, fillRows[n], e)  BY <2>1, RowTrade
  <2>3. PICK f : f = fillRows[n]  OBVIOUS
  <2>4. TradeOf(i, f, e)  BY <2>2, <2>3
  <2>5. /\ TradeBills(Request[i], f) \in Seq(SignedBill)
        /\ PaidOf(i, f) \in Nat
        /\ \A u, c : Total(TradeBills(Request[i], f), HoldWeight(u, c))
                        = IF i \in Mine(u, c) THEN 0 - PaidOf(i, f) ELSE 0
    BY <2>4, TradeBillsOK
  <2> QED  BY <2>3, <2>5
<1>6. /\ p \in Seq(Seq(SignedBill)) /\ DOMAIN p = D
      /\ \A n \in T : p[n] = TradeBills(Request[i], fillRows[n])
      /\ \A n \in D \ T : p[n] = << >>
  <2>1. << >> \in Seq(SignedBill)  OBVIOUS
  <2>2. \A n \in D : p[n] \in Seq(SignedBill)  BY <1>3, <1>5, <2>1
  <2>3. p \in [1 .. Len(fillRows) -> Seq(SignedBill)]  BY <1>1, <1>3, <2>2
  <2>4. p \in Seq(Seq(SignedBill))  BY <1>0, <2>3
  <2>5. \A n \in T : n \in D  BY <1>2
  <2>6. \A n \in T : p[n] = TradeBills(Request[i], fillRows[n])  BY <1>3, <2>5
  <2>7. \A n \in D \ T : p[n] = << >>  BY <1>3
  <2> QED  BY <1>3, <2>4, <2>6, <2>7
<1>7. FlattenSeq(p) \in Seq(SignedBill)
  <2>1. PICK g : IsJoin(g, p)  BY <1>6, FlatJoin
  <2> QED  BY <1>6, <2>1, JoinType
<1>8. PICK F : F = [n \in T |-> PaidOf(i, fillRows[n])]  OBVIOUS
<1>9. \A n \in T : F[n] = PaidOf(i, fillRows[n]) /\ F[n] \in Nat  BY <1>5, <1>8
<1>10. PaidFor(i, T) = SumFunctionOnSet(F, T)  BY <1>8, PaidForSum
<1>11. SumFunctionOnSet(F, T) \in Nat  BY <1>2, <1>9, SumNat
<1>12. ASSUME NEW u, NEW c
       PROVE  Total(FlattenSeq(p), HoldWeight(u, c)) = IF i \in Mine(u, c) THEN 0 - PaidFor(i, T) ELSE 0
  <2>1. PICK W : W = HoldWeight(u, c)  OBVIOUS
  <2>2. \A b \in SignedBill : W[b] \in Int  BY <2>1, SignedWeight
  <2>3. PICK G : G = [n \in DOMAIN p |-> Total(p[n], W)]  OBVIOUS
  <2>4. Total(FlattenSeq(p), W) = SumFunctionOnSet(G, DOMAIN p)  BY <1>6, <2>2, <2>3, FlatTotal
  <2>5. \A n \in D \ T : G[n] = 0
    <3> TAKE n \in D \ T
    <3>1. G[n] = Total(p[n], W) /\ p[n] = << >>  BY <1>6, <2>3
    <3> QED  BY <3>1, TotalEmpty
  <2>6. \A n \in T : G[n] = IF i \in Mine(u, c) THEN 0 - F[n] ELSE 0
    <3> TAKE n \in T
    <3>1. n \in D  BY <1>2
    <3>2. G[n] = Total(p[n], W) /\ p[n] = TradeBills(Request[i], fillRows[n])  BY <1>6, <2>3, <3>1
    <3>3. Total(TradeBills(Request[i], fillRows[n]), W)
            = IF i \in Mine(u, c) THEN 0 - PaidOf(i, fillRows[n]) ELSE 0
      BY <1>5, <2>1
    <3>4. F[n] = PaidOf(i, fillRows[n])  BY <1>9
    <3> QED  BY <3>2, <3>3, <3>4
  <2>7. \A n \in T : G[n] \in Int /\ G[n] = G[n]  BY <1>9, <2>6
  <2>8. SumFunctionOnSet(G, D) = SumFunctionOnSet(G, T)  BY <1>2, <2>5, <2>7, SumWhere
  <2>9. CASE i \in Mine(u, c)
    <3>1. \A n \in T : F[n] \in Int /\ G[n] = 0 - F[n]  BY <1>9, <2>6, <2>9
    <3>2. SumFunctionOnSet(G, T) = 0 - SumFunctionOnSet(F, T)  BY <1>2, <3>1, SumNeg
    <3> QED  BY <1>6, <1>10, <2>1, <2>4, <2>8, <2>9, <3>2
  <2>10. CASE i \notin Mine(u, c)
    <3>1. \A n \in T : G[n] = 0  BY <2>6, <2>10
    <3>2. SumFunctionOnSet(G, T) = 0  BY <1>2, <3>1, SumZero
    <3> QED  BY <1>6, <2>1, <2>4, <2>8, <2>10, <3>2
  <2> QED  BY <2>9, <2>10
<1> QED  BY <1>4, <1>7, <1>10, <1>11, <1>12

\* The bill that releases what an order held and did not use.
LEMMA ReleaseOK ==
    ASSUME NEW i \in Ids, NEW executed, NEW filled, NEW rest \in Nat,
           rest = HoldSize(Request[i]) - (IF Request[i].side = "buy" THEN executed ELSE filled)
    PROVE  /\ ReleaseBill(Request[i], executed, filled) \in Seq(SignedBill)
           /\ \A u, c : Total(ReleaseBill(Request[i], executed, filled), HoldWeight(u, c))
                           = IF i \in Mine(u, c) THEN 0 - rest ELSE 0
<1>1. PICK r : r = Request[i]  OBVIOUS
<1>2. /\ r.user \in Users /\ r.user # House /\ r.side \in {"buy", "sell"}
      /\ HoldCurrency(r.side) \in Currencies /\ r.user \in Clients
  BY <1>1, Constants, SettlementAssumption DEF Clients
<1>3. PICK x : x = NewBill(r.user, HoldCurrency(r.side), rest, -rest)  OBVIOUS
<1>4. ReleaseBill(r, executed, filled) = PositiveOnly(x)
  <2>1. rest = IF r.side = "buy" THEN r.funds - executed ELSE r.size - filled
    BY <1>1 DEF HoldSize
  <2> QED  BY <1>3, <2>1, Zenon DEF ReleaseBill
<1>5. /\ x \in SignedBill /\ x.hold = 0 - rest /\ x.user = r.user /\ x.currency = HoldCurrency(r.side)
      /\ x.available = rest
  BY <1>2, <1>3 DEF SignedBill, Bill, NewBill
<1>6. PositiveOnly(x) \in Seq(SignedBill)  BY <1>5, SignedWeight, PositiveOnlyOK
<1>7. ASSUME NEW u, NEW c
      PROVE  Total(PositiveOnly(x), HoldWeight(u, c)) = IF i \in Mine(u, c) THEN 0 - rest ELSE 0
  <2>1. PICK W : W = HoldWeight(u, c)  OBVIOUS
  <2>2. \A b \in SignedBill : W[b] \in Int /\ W[b] = IF b.user = u /\ b.currency = c THEN b.hold ELSE 0
    BY <2>1, SignedWeight
  <2>3. Total(PositiveOnly(x), W) = IF x.available > 0 THEN W[x] ELSE 0  BY <1>5, <2>2, PositiveOnlyOK
  <2>4. i \in Mine(u, c) <=> r.user = u /\ HoldCurrency(r.side) = c  BY <1>1 DEF Mine
  <2>5. W[x] = IF i \in Mine(u, c) THEN 0 - rest ELSE 0  BY <1>5, <2>2, <2>4
  <2> QED  BY <1>5, <2>1, <2>3, <2>5
<1> QED  BY <1>1, <1>4, <1>6, <1>7
-----------------------------------------------------------------------------
(* Settling fills.                                                         *)

\* G is F on T, and zero elsewhere in S.
OnlyOn(F, T, G, S) ==
    /\ IsFiniteSet(S) /\ T \in SUBSET S
    /\ \A x \in T : F[x] \in Int /\ G[x] = F[x]
    /\ \A x \in S \ T : G[x] = 0

LEMMA SumOnly ==
    ASSUME NEW F, NEW T, NEW G, NEW S, OnlyOn(F, T, G, S)
    PROVE  SumFunctionOnSet(G, S) = SumFunctionOnSet(F, T)
  BY SumWhere DEF OnlyOn

\* Done fills add nothing.
LEMMA TradesOnly ==
    ASSUME TypeOK, EngineOK, FillsGenuine, NEW R \in SUBSET (1 .. Len(fillRows))
    PROVE  LET T == {n \in R : ~ fillRows[n].done}
           IN  Sizes(R) = Sizes(T) /\ Values(R) = Values(T)
<1>0. Len(fillRows) \in Nat  BY DEF TypeOK
<1>1. PICK T : T = {n \in R : ~ fillRows[n].done}  OBVIOUS
<1>2. T \in SUBSET R /\ IsFiniteSet(R)
  <2>1. IsFiniteSet(1 .. Len(fillRows)) /\ R \subseteq 1 .. Len(fillRows)  BY <1>0, FS_Interval
  <2>2. IsFiniteSet(R)  BY <2>1, FS_Subset
  <2> QED  BY <1>1, <2>2
<1>3. \A n \in R : /\ fillRows[n].size \in Nat /\ fillRows[n].price \in Nat
                   /\ fillRows[n].size * fillRows[n].price \in Nat
                   /\ fillRows[n].done => fillRows[n].size = 0 /\ fillRows[n].price = 0
  <2> TAKE n \in R
  <2>1. n \in 1 .. Len(fillRows)  OBVIOUS
  <2>2. fillRows[n] \in Fill /\ (fillRows[n].done => fillRows[n].size = 0 /\ fillRows[n].price = 0)
    BY <2>1, RowTrade
  <2>3. fillRows[n].size \in Nat /\ fillRows[n].price \in Nat  BY <2>2 DEF Fill
  <2> QED  BY <2>2, <2>3, Product
<1>4. Sizes(R) = Sizes(T)
  <2>1. PICK G : G = [n \in R |-> fillRows[n].size]  OBVIOUS
  <2>2. PICK F : F = [n \in T |-> fillRows[n].size]  OBVIOUS
  <2>3. \A n \in T : F[n] \in Int /\ G[n] = F[n]  BY <1>2, <1>3, <2>1, <2>2
  <2>4. \A n \in R \ T : G[n] = 0  BY <1>1, <1>3, <2>1
  <2>5. SumFunctionOnSet(G, R) = SumFunctionOnSet(F, T)
    <3>1. PICK S : S = R  OBVIOUS
    <3>2. IsFiniteSet(S) /\ T \in SUBSET S  BY <1>2, <3>1
    <3>3. \A n \in S \ T : G[n] = 0  BY <2>4, <3>1
    <3>4. OnlyOn(F, T, G, S)  BY <2>3, <3>2, <3>3 DEF OnlyOn
    <3>5. SumFunctionOnSet(G, S) = SumFunctionOnSet(F, T)  BY <3>4, SumOnly
    <3> QED  BY <3>1, <3>5
  <2> QED  BY <2>1, <2>2, <2>5 DEF Sizes
<1>5. Values(R) = Values(T)
  <2>1. PICK G : G = [n \in R |-> fillRows[n].size * fillRows[n].price]  OBVIOUS
  <2>2. PICK F : F = [n \in T |-> fillRows[n].size * fillRows[n].price]  OBVIOUS
  <2>3. \A n \in T : F[n] \in Int /\ G[n] = F[n]  BY <1>2, <1>3, <2>1, <2>2
  <2>4. \A n \in R \ T : G[n] = 0
    <3> TAKE n \in R \ T
    <3>1. fillRows[n].size = 0 /\ fillRows[n].price = 0  BY <1>1, <1>3
    <3>2. G[n] = fillRows[n].size * fillRows[n].price  BY <2>1
    <3> QED  BY <3>1, <3>2
  <2>5. SumFunctionOnSet(G, R) = SumFunctionOnSet(F, T)
    <3>1. PICK S : S = R  OBVIOUS
    <3>2. IsFiniteSet(S) /\ T \in SUBSET S  BY <1>2, <3>1
    <3>3. \A n \in S \ T : G[n] = 0  BY <2>4, <3>1
    <3>4. OnlyOn(F, T, G, S)  BY <2>3, <3>2, <3>3 DEF OnlyOn
    <3>5. SumFunctionOnSet(G, S) = SumFunctionOnSet(F, T)  BY <3>4, SumOnly
    <3> QED  BY <3>1, <3>5
  <2> QED  BY <2>1, <2>2, <2>5 DEF Values
<1> QED  BY <1>1, <1>4, <1>5

\* The sums over rows that are settled and rows to settle.
LEMMA SumsTogether ==
    ASSUME TypeOK, NEW A \in SUBSET (1 .. Len(fillRows)), NEW B \in SUBSET (1 .. Len(fillRows)),
           A \cap B = {}
    PROVE  Sizes(A \cup B) = Sizes(A) + Sizes(B) /\ Values(A \cup B) = Values(A) + Values(B)
<1>0. Len(fillRows) \in Nat /\ fillRows \in Seq(Fill)  BY DEF TypeOK
<1>1. IsFiniteSet(A) /\ IsFiniteSet(B)
  <2>1. IsFiniteSet(1 .. Len(fillRows)) /\ A \subseteq 1 .. Len(fillRows) /\ B \subseteq 1 .. Len(fillRows)
    BY <1>0, FS_Interval
  <2> QED  BY <2>1, FS_Subset
<1>2. PICK C : C = A \cup B  OBVIOUS
<1>3. \A n \in C : fillRows[n].size \in Nat /\ fillRows[n].size * fillRows[n].price \in Nat
  <2> TAKE n \in C
  <2>1. n \in 1 .. Len(fillRows)  BY <1>2
  <2>2. fillRows[n] \in Fill  BY <1>0, <2>1
  <2>3. fillRows[n].size \in Nat /\ fillRows[n].price \in Nat  BY <2>2 DEF Fill
  <2> QED  BY <2>3, Product
<1>4. Sizes(C) = Sizes(A) + Sizes(B)
  <2>1. PICK F : F = [n \in C |-> fillRows[n].size]  OBVIOUS
  <2>2. PICK G : G = [n \in A |-> fillRows[n].size]  OBVIOUS
  <2>3. PICK H : H = [n \in B |-> fillRows[n].size]  OBVIOUS
  <2>4. \A n \in A \cup B : F[n] \in Int  BY <1>2, <1>3, <2>1
  <2>5. (\A n \in A : F[n] = G[n]) /\ (\A n \in B : F[n] = H[n])  BY <1>2, <2>1, <2>2, <2>3
  <2>6. SumFunctionOnSet(F, A \cup B) = SumFunctionOnSet(F, A) + SumFunctionOnSet(F, B)
    BY <1>1, <2>4, SumDisjoint
  <2>7. SumFunctionOnSet(F, A) = SumFunctionOnSet(G, A)  BY <1>1, <2>5, SumAgree
  <2>8. SumFunctionOnSet(F, B) = SumFunctionOnSet(H, B)  BY <1>1, <2>5, SumAgree
  <2> QED  BY <1>2, <2>1, <2>2, <2>3, <2>6, <2>7, <2>8 DEF Sizes
<1>5. Values(C) = Values(A) + Values(B)
  <2>1. PICK F : F = [n \in C |-> fillRows[n].size * fillRows[n].price]  OBVIOUS
  <2>2. PICK G : G = [n \in A |-> fillRows[n].size * fillRows[n].price]  OBVIOUS
  <2>3. PICK H : H = [n \in B |-> fillRows[n].size * fillRows[n].price]  OBVIOUS
  <2>4. \A n \in A \cup B : F[n] \in Int  BY <1>2, <1>3, <2>1
  <2>5. (\A n \in A : F[n] = G[n]) /\ (\A n \in B : F[n] = H[n])  BY <1>2, <2>1, <2>2, <2>3
  <2>6. SumFunctionOnSet(F, A \cup B) = SumFunctionOnSet(F, A) + SumFunctionOnSet(F, B)
    BY <1>1, <2>4, SumDisjoint
  <2>7. SumFunctionOnSet(F, A) = SumFunctionOnSet(G, A)  BY <1>1, <2>5, SumAgree
  <2>8. SumFunctionOnSet(F, B) = SumFunctionOnSet(H, B)  BY <1>1, <2>5, SumAgree
  <2> QED  BY <1>2, <2>1, <2>2, <2>3, <2>6, <2>7, <2>8 DEF Values
<1> QED  BY <1>2, <1>4, <1>5

\* Rows R are marked as settled.
Marked(R) ==
    [n \in DOMAIN fillRows |-> IF n \in R THEN [fillRows[n] EXCEPT !.settled = TRUE] ELSE fillRows[n]]

\* Marking rows as settled adds them, and no others, to the order's sums.
LEMMA SettleRows ==
    ASSUME TypeOK, FillsGenuine, RowsUnique, NEW i \in Ids, NEW R \in SUBSET Unsettled(i),
           fillRows' = Marked(R)
    PROVE  /\ fillRows' \in Seq(Fill) /\ AllGenuine(fillRows', logTopic) /\ RowsUnique'
           /\ R \in SUBSET (1 .. Len(fillRows)) /\ Settled(i) \in SUBSET (1 .. Len(fillRows))
           /\ Settled(i) \cap R = {} /\ Settled(i) \cup R \in SUBSET {n \in 1 .. Len(fillRows) : fillRows[n].id = i}
           /\ Sizes(Settled(i))' = Sizes(Settled(i) \cup R)
           /\ Values(Settled(i))' = Values(Settled(i) \cup R)
           /\ \A j \in Ids \ {i} : /\ Sizes(Settled(j))' = Sizes(Settled(j))
                                   /\ Values(Settled(j))' = Values(Settled(j))
<1>0. /\ fillRows \in Seq(Fill) /\ Len(fillRows) \in Nat /\ DOMAIN fillRows = 1 .. Len(fillRows)
      /\ AllGenuine(fillRows, logTopic)
  BY DEF TypeOK, FillsGenuine
<1>1. \A n \in R : n \in 1 .. Len(fillRows) /\ fillRows[n].id = i /\ ~ fillRows[n].settled
  BY <1>0 DEF Unsettled
<1>2. ASSUME NEW n \in 1 .. Len(fillRows)
      PROVE  /\ fillRows'[n] \in Fill
             /\ fillRows'[n].id = fillRows[n].id /\ fillRows'[n].seq = fillRows[n].seq
             /\ fillRows'[n].done = fillRows[n].done /\ fillRows'[n].size = fillRows[n].size
             /\ fillRows'[n].price = fillRows[n].price /\ fillRows'[n].liquidity = fillRows[n].liquidity
             /\ fillRows'[n].reason = fillRows[n].reason
             /\ fillRows'[n].settled = (fillRows[n].settled \/ n \in R)
  <2>1. PICK f : f = fillRows[n]  OBVIOUS
  <2>2. f \in Fill /\ f.settled \in BOOLEAN
    <3>1. f \in Fill  BY <1>0, <2>1
    <3> QED  BY <3>1 DEF Fill
  <2>3. CASE n \in R
    <3>1. PICK g : g = [f EXCEPT !.settled = TRUE]  OBVIOUS
    <3>2. fillRows'[n] = g  BY <1>0, <2>1, <2>3, <3>1 DEF Marked
    <3>3. /\ g \in Fill /\ g.id = f.id /\ g.seq = f.seq /\ g.done = f.done /\ g.size = f.size
          /\ g.price = f.price /\ g.liquidity = f.liquidity /\ g.reason = f.reason /\ g.settled = TRUE
      BY <2>2, <3>1 DEF Fill
    <3> QED  BY <2>1, <2>2, <2>3, <3>2, <3>3
  <2>4. CASE n \notin R
    <3>1. fillRows'[n] = f  BY <1>0, <2>1, <2>4 DEF Marked
    <3> QED  BY <2>1, <2>2, <2>4, <3>1
  <2> QED  BY <2>3, <2>4
<1>3. fillRows' \in Seq(Fill) /\ Len(fillRows') = Len(fillRows)
  <2>1. PICK q : q = fillRows'  OBVIOUS
  <2>2. DOMAIN q = 1 .. Len(fillRows) /\ q = [n \in 1 .. Len(fillRows) |-> q[n]]
    BY <1>0, <2>1 DEF Marked
  <2>3. \A n \in 1 .. Len(fillRows) : q[n] \in Fill  BY <1>2, <2>1
  <2>4. q \in [1 .. Len(fillRows) -> Fill]  BY <2>2, <2>3
  <2>5. q \in Seq(Fill)  BY <1>0, <2>4
  <2>6. Len(q) = Len(fillRows)  BY <1>0, <2>2, <2>5
  <2> QED  BY <2>1, <2>5, <2>6
<1>4. AllGenuine(fillRows', logTopic)
  <2> SUFFICES ASSUME NEW n \in 1 .. Len(fillRows') PROVE Genuine(fillRows'[n], logTopic)
    BY DEF AllGenuine
  <2>1. n \in 1 .. Len(fillRows)  BY <1>3
  <2>2. PICK k \in 1 .. Len(logTopic) : FillOf(fillRows[n], logTopic[k])
    BY <1>0, <2>1 DEF AllGenuine, Genuine
  <2>3. FillOf(fillRows'[n], logTopic[k])  BY <1>2, <2>1, <2>2 DEF FillOf
  <2> QED  BY <2>3 DEF Genuine
<1>5. RowsUnique'
  <2>1. \A m, n \in 1 .. Len(fillRows') :
           fillRows'[m].id = fillRows'[n].id /\ fillRows'[m].seq = fillRows'[n].seq => m = n
    <3> TAKE m, n \in 1 .. Len(fillRows')
    <3>1. m \in 1 .. Len(fillRows) /\ n \in 1 .. Len(fillRows)  BY <1>3
    <3> QED  BY <1>2, <3>1 DEF RowsUnique
  <2> QED  BY <2>1 DEF RowsUnique
<1>6. /\ R \in SUBSET (1 .. Len(fillRows)) /\ Settled(i) \in SUBSET (1 .. Len(fillRows))
      /\ Settled(i) \cap R = {}
      /\ Settled(i) \cup R \in SUBSET {n \in 1 .. Len(fillRows) : fillRows[n].id = i}
  BY <1>1 DEF Settled
<1>7. ASSUME NEW j \in Ids
      PROVE  Settled(j)' = IF j = i THEN Settled(j) \cup R ELSE Settled(j)
  <2>1. \A n : n \in Settled(j)' <=> n \in 1 .. Len(fillRows) /\ fillRows[n].id = j
                                      /\ (fillRows[n].settled \/ n \in R)
    BY <1>2, <1>3 DEF Settled
  <2> QED  BY <1>1, <2>1 DEF Settled
<1>8. ASSUME NEW j \in Ids, NEW A, A = Settled(j)'
      PROVE  Sizes(Settled(j))' = Sizes(A) /\ Values(Settled(j))' = Values(A)
  <2>1. \A n \in A : n \in 1 .. Len(fillRows)  BY <1>3, <1>8 DEF Settled
  <2>2. \A n \in A : /\ fillRows'[n].size = fillRows[n].size
                     /\ fillRows'[n].price = fillRows[n].price
    BY <1>2, <2>1
  <2>3. /\ [n \in A |-> fillRows'[n].size] = [n \in A |-> fillRows[n].size]
        /\ [n \in A |-> fillRows'[n].size * fillRows'[n].price]
              = [n \in A |-> fillRows[n].size * fillRows[n].price]
    BY <2>2
  <2>4. /\ Sizes(Settled(j))' = SumFunctionOnSet([n \in A |-> fillRows'[n].size], A)
        /\ Values(Settled(j))' = SumFunctionOnSet([n \in A |-> fillRows'[n].size * fillRows'[n].price], A)
    BY <1>8, Zenon DEF Sizes, Values
  <2> QED  BY <2>3, <2>4, Zenon DEF Sizes, Values
<1>9. /\ Sizes(Settled(i))' = Sizes(Settled(i) \cup R)
      /\ Values(Settled(i))' = Values(Settled(i) \cup R)
  <2>1. PICK A : A = Settled(i)'  OBVIOUS
  <2>2. Sizes(Settled(i))' = Sizes(A) /\ Values(Settled(i))' = Values(A)  BY <1>8, <2>1
  <2>3. A = Settled(i) \cup R  BY <1>7, <2>1
  <2> QED  BY <2>2, <2>3
<1>10. \A j \in Ids \ {i} : Sizes(Settled(j))' = Sizes(Settled(j)) /\ Values(Settled(j))' = Values(Settled(j))
  <2> TAKE j \in Ids \ {i}
  <2>1. PICK A : A = Settled(j)'  OBVIOUS
  <2>2. Sizes(Settled(j))' = Sizes(A) /\ Values(Settled(j))' = Values(A)  BY <1>8, <2>1
  <2>3. A = Settled(j)  BY <1>7, <2>1
  <2> QED  BY <2>2, <2>3
<1> QED  BY <1>3, <1>4, <1>5, <1>6, <1>9, <1>10

\* ExecuteFill writes bills for what leaves the order's hold: its trades, and
\* the rest when it meets the Done fill.
LEMMA SettleFillsInv == ASSUME SettleInv, NEW i \in Ids, ExecuteFill(i) PROVE SettleInv'
<1>0. /\ TypeOK /\ EngineOK /\ FillsGenuine /\ RowsUnique /\ SettledSums /\ BillsSigned
      /\ AccountsSigned /\ HoldsExact /\ BatchRoom
  BY DEF SettleInv
<1>1. PICK R : R = ToSettle(i)  OBVIOUS
<1>2. PICK T : T = {n \in R : ~ fillRows[n].done}  OBVIOUS
<1>3. PICK ends : ends = (R \ T # {})  OBVIOUS
<1>4. PICK e : e = order[i].executed + Values(T)  OBVIOUS
<1>5. PICK f : f = order[i].filled + Sizes(T)  OBVIOUS
<1>6. PICK q : q = BillsOf(Request[i], T)  OBVIOUS
<1>7. PICK rel : rel = IF ends THEN ReleaseBill(Request[i], e, f) ELSE << >>  OBVIOUS
<1>8. \E s : /\ order' = [order EXCEPT ![i] = [status |-> s, executed |-> e, filled |-> f]]
             /\ IF ends THEN s \in Final ELSE s = order[i].status
  <2>1. PICK d : d = fillRows[CHOOSE n \in R \ T : TRUE]  OBVIOUS
  <2>2. PICK s : s = IF R \ T = {} THEN order[i].status
                     ELSE IF d.reason = "filled" THEN "filled" ELSE IF f = 0 THEN "cancelled" ELSE "partial"
    OBVIOUS
  <2>3. order' = [order EXCEPT ![i] = [status |-> s, executed |-> e, filled |-> f]]
    BY <1>1, <1>2, <1>4, <1>5, <2>1, <2>2, Zenon DEF ExecuteFill
  <2>4. IF ends THEN s \in Final ELSE s = order[i].status  BY <1>3, <2>2 DEF Final
  <2> QED  BY <2>3, <2>4
<1>9. PICK s : /\ order' = [order EXCEPT ![i] = [status |-> s, executed |-> e, filled |-> f]]
               /\ IF ends THEN s \in Final ELSE s = order[i].status
  BY <1>8
<1>10. /\ order[i].status \notin {"none"} \cup Final
       /\ account' = account /\ logTopic' = logTopic /\ live' = live
       /\ repeats' = repeats /\ crashes' = crashes /\ halved' = halved
  BY DEF ExecuteFill, engine
<1>m. /\ readOffset' = readOffset /\ lastSeq' = lastSeq /\ makerFill' = makerFill
      /\ fillCh' = fillCh /\ batch' = batch /\ flushing' = flushing
  BY DEF ExecuteFill, maker
<1>11. fillRows' = Marked(R)  BY <1>1, Zenon DEF ExecuteFill, Marked
<1>12. bills' = bills \o q \o rel
  <2>1. bills' = bills \o q \o (IF R \ T = {} THEN << >> ELSE ReleaseBill(Request[i], e, f))
    BY <1>1, <1>2, <1>4, <1>5, <1>6, Zenon DEF ExecuteFill
  <2>2. rel = IF R \ T = {} THEN << >> ELSE ReleaseBill(Request[i], e, f)  BY <1>3, <1>7
  <2> QED  BY <2>1, <2>2, Zenon
<1>13. R \in SUBSET Unsettled(i)  BY <1>1 DEF ToSettle, FirstOf
<1>14. /\ fillRows' \in Seq(Fill) /\ AllGenuine(fillRows', logTopic) /\ RowsUnique'
       /\ R \in SUBSET (1 .. Len(fillRows)) /\ Settled(i) \in SUBSET (1 .. Len(fillRows))
       /\ Settled(i) \cap R = {}
       /\ Settled(i) \cup R \in SUBSET {n \in 1 .. Len(fillRows) : fillRows[n].id = i}
       /\ Sizes(Settled(i))' = Sizes(Settled(i) \cup R)
       /\ Values(Settled(i))' = Values(Settled(i) \cup R)
       /\ \A j \in Ids \ {i} : /\ Sizes(Settled(j))' = Sizes(Settled(j))
                               /\ Values(Settled(j))' = Values(Settled(j))
  BY <1>0, <1>11, <1>13, SettleRows
<1>15. Sizes(R) = Sizes(T) /\ Values(R) = Values(T)  BY <1>0, <1>2, <1>14, TradesOnly
<1>16. /\ Sizes(Settled(i) \cup R) = Sizes(Settled(i)) + Sizes(R)
       /\ Values(Settled(i) \cup R) = Values(Settled(i)) + Values(R)
  <2>1. PICK A : A = Settled(i)  OBVIOUS
  <2>2. A \in SUBSET (1 .. Len(fillRows)) /\ R \in SUBSET (1 .. Len(fillRows)) /\ A \cap R = {}
    BY <1>14, <2>1
  <2>3. Sizes(A \cup R) = Sizes(A) + Sizes(R) /\ Values(A \cup R) = Values(A) + Values(R)
    BY <1>0, <2>2, SumsTogether
  <2> QED  BY <2>1, <2>3
<1>17. order[i].filled = Sizes(Settled(i)) /\ order[i].executed = Values(Settled(i))
  BY <1>0 DEF SettledSums
<1>18. f = Sizes(Settled(i) \cup R) /\ e = Values(Settled(i) \cup R)
  BY <1>4, <1>5, <1>15, <1>16, <1>17
<1>19. f \in Nat /\ e \in Nat
  <2>1. PICK A : A = Settled(i) \cup R  OBVIOUS
  <2>2. A \in SUBSET {n \in 1 .. Len(fillRows) : fillRows[n].id = i}  BY <1>14, <2>1
  <2>3. Sizes(A) \in Nat /\ Values(A) \in Nat  BY <1>0, <2>2, RowBound
  <2> QED  BY <1>18, <2>1, <2>3
<1>20. PICK paid : paid = IF Request[i].side = "buy" THEN e ELSE f  OBVIOUS
<1>21. PICK rest : rest = HoldSize(Request[i]) - paid  OBVIOUS
<1>22. paid \in Nat /\ rest \in Nat /\ HoldSize(Request[i]) \in Nat
  <2>1. PICK A : A = Settled(i) \cup R  OBVIOUS
  <2>2. A \in SUBSET {n \in 1 .. Len(fillRows) : fillRows[n].id = i}  BY <1>14, <2>1
  <2>3. order[i].status # "none"  BY <1>10
  <2>4. (IF Request[i].side = "buy" THEN Values(A) ELSE Sizes(A)) <= HoldSize(Request[i])
    BY <1>0, <2>2, <2>3, PaidBound
  <2>5. paid <= HoldSize(Request[i])  BY <1>18, <1>20, <2>1, <2>4
  <2>6. HoldSize(Request[i]) \in Nat  BY Constants
  <2> QED  BY <1>19, <1>20, <1>21, <2>5, <2>6
<1>23. T \in SUBSET {n \in 1 .. Len(fillRows) : fillRows[n].id = i /\ ~ fillRows[n].done}
  BY <1>2, <1>14
<1>24. /\ q \in Seq(SignedBill) /\ PaidFor(i, T) \in Nat
       /\ \A u, c : Total(q, HoldWeight(u, c)) = IF i \in Mine(u, c) THEN 0 - PaidFor(i, T) ELSE 0
  BY <1>0, <1>6, <1>23, BillsOfOK
<1>25. paid = Paid(i) + PaidFor(i, T) /\ Paid(i) \in Nat
  <2>1. order[i].executed \in Nat /\ order[i].filled \in Nat  BY <1>0, PaidBound
  <2> QED  BY <1>4, <1>5, <1>20, <2>1 DEF Paid, PaidFor
<1>26. /\ rel \in Seq(SignedBill)
       /\ \A u, c : Total(rel, HoldWeight(u, c)) = IF ends /\ i \in Mine(u, c) THEN 0 - rest ELSE 0
  <2>1. CASE ends
    <3>1. rest = HoldSize(Request[i]) - (IF Request[i].side = "buy" THEN e ELSE f)  BY <1>20, <1>21
    <3>2. /\ ReleaseBill(Request[i], e, f) \in Seq(SignedBill)
          /\ \A u, c : Total(ReleaseBill(Request[i], e, f), HoldWeight(u, c))
                          = IF i \in Mine(u, c) THEN 0 - rest ELSE 0
      BY <1>22, <3>1, ReleaseOK
    <3> QED  BY <1>7, <2>1, <3>2
  <2>2. CASE ~ ends
    <3>1. rel = << >>  BY <1>7, <2>2
    <3>2. \A u, c : Total(rel, HoldWeight(u, c)) = 0  BY <3>1, TotalEmpty
    <3>3. rel \in Seq(SignedBill)  BY <3>1
    <3> QED  BY <2>2, <3>2, <3>3
  <2> QED  BY <2>1, <2>2
<1>27. bills \in Seq(Bill) /\ bills \in Seq(SignedBill)
  <2>1. bills \in Seq(Bill)  BY <1>0 DEF TypeOK
  <2> QED  BY <1>0, <2>1, SignedSeq DEF BillsSigned
<1>28. PICK b : b = bills \o q  OBVIOUS
<1>29. b \in Seq(SignedBill) /\ bills' = b \o rel /\ bills' \in Seq(SignedBill) /\ bills' \in Seq(Bill)
  <2>1. b \in Seq(SignedBill)  BY <1>24, <1>27, <1>28, Joined
  <2>2. bills' = b \o rel  BY <1>12, <1>28
  <2>3. bills' \in Seq(SignedBill)  BY <1>26, <2>1, <2>2, Joined
  <2> QED  BY <2>1, <2>2, <2>3, SignedIsBills
<1>30. BillsSigned'
  <2>1. PICK x : x = bills'  OBVIOUS
  <2>2. x \in Seq(Bill) /\ x \in Seq(SignedBill)  BY <1>29, <2>1
  <2>3. \A n \in 1 .. Len(x) : /\ x[n].available >= 0 /\ x[n].hold <= 0
                               /\ x[n].user = House => x[n].hold = 0
    BY <2>2, SignedSeq
  <2> QED  BY <2>1, <2>3 DEF BillsSigned
<1>31. \A u, c : Total(bills', HoldWeight(u, c))
                    = Total(bills, HoldWeight(u, c)) + Total(q, HoldWeight(u, c)) + Total(rel, HoldWeight(u, c))
  <2> TAKE u, c
  <2>1. PICK W : W = HoldWeight(u, c)  OBVIOUS
  <2>2. \A x \in SignedBill : W[x] \in Int  BY <2>1, SignedWeight
  <2>3. Total(b, W) = Total(bills, W) + Total(q, W)  BY <1>24, <1>27, <1>28, <2>2, TotalJoin
  <2>4. Total(bills', W) = Total(b, W) + Total(rel, W)  BY <1>26, <1>29, <2>2, TotalJoin
  <2> QED  BY <2>1, <2>3, <2>4
<1>32. order \in [Ids -> OrderRow] /\ order[i] \in OrderRow  BY <1>0 DEF TypeOK
<1>33. /\ order'[i] = [status |-> s, executed |-> e, filled |-> f]
       /\ \A j \in Ids \ {i} : order'[j] = order[j]
       /\ DOMAIN order' = Ids /\ order' = [j \in Ids |-> order'[j]]
  BY <1>9, <1>32
<1>34. order' \in [Ids -> OrderRow]
  <2>1. s \in {"none", "new", "open"} \cup Final  BY <1>9, <1>32 DEF OrderRow
  <2>2. order'[i] \in OrderRow  BY <1>19, <1>33, <2>1 DEF OrderRow
  <2>3. \A j \in Ids : order'[j] \in OrderRow  BY <1>32, <1>33, <2>2
  <2> QED  BY <1>33, <2>3
<1>35. TypeOK'  BY <1>0, <1>10, <1>m, <1>14, <1>29, <1>34 DEF TypeOK
<1>36. EngineOK'
  <2>1. LogFine(logTopic) /\ \A j \in Ids : OrderOK(j, logTopic, live, order[j].status)
    BY <1>0 DEF EngineOK
  <2>2. \A j \in Ids : order'[j].status = "none" <=> order[j].status = "none"
    <3>1. s # "none"  BY <1>9, <1>10 DEF Final
    <3> QED  BY <1>10, <1>33, <3>1
  <2>3. \A j \in Ids : OrderOK(j, logTopic, live, order'[j].status)  BY <2>1, <2>2 DEF OrderOK
  <2> QED  BY <1>10, <2>1, <2>3, Zenon DEF EngineOK
<1>37. FillsGenuine' /\ BatchRoom'
  BY <1>0, <1>10, <1>m, <1>14, Zenon DEF FillsGenuine, PipeGenuine, BatchRoom
<1>38. AccountsSigned'  BY <1>0, <1>10, Zenon DEF AccountsSigned
<1>39. SettledSums'
  <2>1. order'[i].filled = Sizes(Settled(i))' /\ order'[i].executed = Values(Settled(i))'
    BY <1>14, <1>18, <1>33
  <2>2. \A j \in Ids : order[j].filled = Sizes(Settled(j)) /\ order[j].executed = Values(Settled(j))
    BY <1>0 DEF SettledSums
  <2>3. \A j \in Ids : order'[j].filled = Sizes(Settled(j))' /\ order'[j].executed = Values(Settled(j))'
    <3> TAKE j \in Ids
    <3>1. CASE j = i  BY <2>1, <3>1, Zenon
    <3>2. CASE j # i  BY <1>14, <1>33, <2>2, <3>2
    <3> QED  BY <3>1, <3>2
  <2> QED  BY <2>3, Zenon DEF SettledSums
<1>40. \A j \in Ids : HeldIn(order, j) \in Nat  BY <1>0, HeldNat, HoldsAre
<1>41. HeldIn(order, i) = HoldSize(Request[i]) - Paid(i)  BY <1>10 DEF HeldIn, Paid
<1>42. HeldIn(order', i) = IF ends THEN 0 ELSE rest
  <2>1. CASE ends
    <3>1. order'[i].status \in Final  BY <1>9, <1>33, <2>1
    <3> QED  BY <2>1, <3>1 DEF HeldIn
  <2>2. CASE ~ ends
    <3>1. order'[i].status \notin {"none"} \cup Final  BY <1>9, <1>10, <1>33, <2>2
    <3>2. order'[i].executed = e /\ order'[i].filled = f  BY <1>33
    <3> QED  BY <1>20, <1>21, <2>2, <3>1, <3>2 DEF HeldIn
  <2> QED  BY <2>1, <2>2
<1>43. \A j \in Ids \ {i} : HeldIn(order', j) = HeldIn(order, j)  BY <1>33 DEF HeldIn
<1>44. \A j \in Ids : HeldIn(order, j) \in Int /\ HeldIn(order', j) \in Int
  BY <1>22, <1>40, <1>42, <1>43
<1>45. \A u, c : /\ Owed(order, u, c) \in Int
                 /\ Owed(order', u, c) = Owed(order, u, c)
                      + (IF i \in Mine(u, c) THEN HeldIn(order', i) - HeldIn(order, i) ELSE 0)
  <2> TAKE u, c
  <2>1. PICK o : o = order  OBVIOUS
  <2>2. PICK p : p = order'  OBVIOUS
  <2>3. \A j \in Ids : HeldIn(o, j) \in Int /\ HeldIn(p, j) \in Int  BY <1>44, <2>1, <2>2
  <2>4. \A j \in Ids \ {i} : HeldIn(p, j) = HeldIn(o, j)  BY <1>43, <2>1, <2>2
  <2>5. /\ Owed(o, u, c) \in Int
        /\ Owed(p, u, c) = Owed(o, u, c)
             + (IF i \in Mine(u, c) THEN HeldIn(p, i) - HeldIn(o, i) ELSE 0)
    BY <2>3, <2>4, OwedChange
  <2> QED  BY <2>1, <2>2, <2>5
<1>46. \A u \in Users, c \in Currencies :
          account'[u][c].hold + DueHold(bills', u, c) = Owed(order', u, c)
  <2> TAKE u \in Users, c \in Currencies
  <2>1. account[u][c].hold + DueHold(bills, u, c) = Owed(order, u, c)  BY <1>0, HoldsAre
  <2>2. DueHold(bills, u, c) = Total(bills, HoldWeight(u, c)) /\ DueHold(bills, u, c) \in Int
    BY <1>27, DueIsTotal
  <2>3. DueHold(bills', u, c) = Total(bills', HoldWeight(u, c))
    <3>1. PICK x : x = bills'  OBVIOUS
    <3>2. x \in Seq(Bill)  BY <1>29, <3>1
    <3>3. DueHold(x, u, c) = Total(x, HoldWeight(u, c))  BY <3>2, DueIsTotal
    <3> QED  BY <3>1, <3>3
  <2>4. PICK a : a = account[u][c].hold  OBVIOUS
  <2>5. a \in Int
    <3>1. u \in Clients /\ account[u][c] \in Balances  BY <1>0 DEF TypeOK, Clients, Balances
    <3> QED  BY <2>4, <3>1 DEF Balances
  <2>6. PICK tq : tq = Total(q, HoldWeight(u, c))  OBVIOUS
  <2>7. PICK tr : tr = Total(rel, HoldWeight(u, c))  OBVIOUS
  <2>8. tq = IF i \in Mine(u, c) THEN 0 - PaidFor(i, T) ELSE 0  BY <1>24, <2>6
  <2>9. tr = IF ends /\ i \in Mine(u, c) THEN 0 - rest ELSE 0  BY <1>26, <2>7
  <2>10. DueHold(bills', u, c) = DueHold(bills, u, c) + tq + tr  BY <1>31, <2>2, <2>3, <2>6, <2>7
  <2>11. /\ Owed(order, u, c) \in Int
         /\ Owed(order', u, c) = Owed(order, u, c)
              + (IF i \in Mine(u, c) THEN HeldIn(order', i) - HeldIn(order, i) ELSE 0)
    BY <1>45
  <2>12. tq + tr = IF i \in Mine(u, c) THEN HeldIn(order', i) - HeldIn(order, i) ELSE 0
    <3>1. PICK due : due = PaidFor(i, T)  OBVIOUS
    <3>2. PICK before : before = HeldIn(order, i)  OBVIOUS
    <3>3. PICK now : now = HeldIn(order', i)  OBVIOUS
    <3>4. due \in Nat /\ rest \in Nat  BY <1>22, <1>24, <3>1
    <3>5. before = due + rest  BY <1>21, <1>22, <1>25, <1>41, <3>1, <3>2, <3>4
    <3>6. now = IF ends THEN 0 ELSE rest  BY <1>42, <3>3
    <3>7. CASE i \in Mine(u, c)
      <4>1. tq = 0 - due /\ tr = IF ends THEN 0 - rest ELSE 0  BY <2>8, <2>9, <3>1, <3>7
      <4>2. tq + tr = now - before  BY <3>4, <3>5, <3>6, <4>1
      <4> QED  BY <3>2, <3>3, <3>7, <4>2
    <3>8. CASE i \notin Mine(u, c)
      <4>1. tq = 0 /\ tr = 0  BY <2>8, <2>9, <3>8
      <4> QED  BY <3>8, <4>1
    <3> QED  BY <3>7, <3>8
  <2>13. tq \in Int /\ tr \in Int  BY <1>22, <1>24, <2>8, <2>9
  <2>14. a + DueHold(bills', u, c) = Owed(order', u, c)
    BY <2>1, <2>2, <2>4, <2>5, <2>10, <2>11, <2>12, <2>13
  <2> QED  BY <1>10, <2>4, <2>14
<1>47. HoldsExact'  BY <1>46, HoldsAre
<1> QED  BY <1>14, <1>30, <1>35, <1>36, <1>37, <1>38, <1>39, <1>47 DEF SettleInv
-----------------------------------------------------------------------------
(* The theorems.                                                           *)

LEMMA InitInv == ASSUME Init PROVE SettleInv
<1>1. /\ account = [u \in Clients |-> [c \in Currencies |->
                    IF u = House THEN Zero ELSE [available |-> Funding[u][c], hold |-> 0]]]
      /\ order = [i \in Ids |-> [status |-> "none", executed |-> 0, filled |-> 0]]
      /\ fillRows = << >> /\ bills = << >> /\ logTopic = << >>
      /\ live = [i \in Ids |-> [size |-> 0, funds |-> 0, phase |-> "none"]]
      /\ readOffset = 0 /\ lastSeq = 0 /\ makerFill = NoFill
      /\ fillCh = << >> /\ batch = << >> /\ flushing = FALSE
      /\ repeats = 0 /\ crashes = 0 /\ halved = FALSE
  BY DEF Init
<1>2. /\ ChCap \in Nat /\ FlushMax \in Nat \ {0} /\ MaxRepeats \in Nat /\ MaxCrashes \in Nat
      /\ Funding \in [Users -> [Currencies -> Nat]]
  BY SettlementAssumption
<1>3. \A S : << >> \in Seq(S) /\ Len(<< >>) = 0  OBVIOUS
<1>4. ASSUME NEW u \in Clients, NEW c \in Currencies
      PROVE  /\ account[u][c] \in Balances /\ account[u][c].available >= 0 /\ account[u][c].hold = 0
  <2>1. account[u][c] = IF u = House THEN Zero ELSE [available |-> Funding[u][c], hold |-> 0]
    BY <1>1
  <2>2. CASE u = House  BY <2>1, <2>2 DEF Zero, Balances
  <2>3. CASE u # House
    <3>1. u \in Users  BY <2>3 DEF Clients
    <3>2. Funding[u][c] \in Nat  BY <1>2, <3>1
    <3> QED  BY <2>1, <2>3, <3>2 DEF Balances
  <2> QED  BY <2>2, <2>3
<1>5. account \in [Clients -> [Currencies -> Balances]]
  <2>1. account = [u \in Clients |-> [c \in Currencies |-> account[u][c]]]  BY <1>1
  <2> QED  BY <1>4, <2>1
<1>6. TypeOK
  <2>1. order \in [Ids -> OrderRow]  BY <1>1 DEF OrderRow
  <2>2. live \in [Ids -> [size : Nat, funds : Nat, phase : Matching!Phases]]
    BY <1>1 DEF Matching!Phases
  <2>3. /\ fillRows \in Seq(Fill) /\ bills \in Seq(Bill) /\ logTopic \in Seq(LogEntry)
        /\ fillCh \in Seq(Fill) /\ batch \in Seq(Fill) /\ Len(fillCh) = 0 /\ Len(batch) = 0
    BY <1>1, <1>3
  <2>4. readOffset = 0 /\ lastSeq = 0 /\ repeats = 0 /\ crashes = 0  BY <1>1
  <2>5. /\ readOffset \in Nat /\ lastSeq \in Nat
        /\ repeats \in 0 .. MaxRepeats /\ crashes \in 0 .. MaxCrashes
    BY <1>2, <2>4
  <2>6. Len(fillCh) <= ChCap /\ Len(batch) <= FlushMax  BY <1>2, <2>3
  <2>7. makerFill \in Fill \cup {NoFill} /\ flushing \in BOOLEAN /\ halved \in BOOLEAN
    BY <1>1
  <2> QED  BY <1>5, <2>1, <2>2, <2>3, <2>5, <2>6, <2>7 DEF TypeOK, Balances
<1>7. LastSeq(logTopic) = 0 /\ Len(logTopic) = 0 /\ 1 .. 0 = {}  BY <1>1, <1>3 DEF LastSeq
<1>8. LogFine(logTopic)  BY <1>6, <1>7 DEF LogFine, TypeOK
<1>9. \A i : Traded(logTopic, i) = 0 /\ Worth(logTopic, i) = 0
  BY <1>7, SumEmpty DEF Traded, Worth
<1>10. EngineOK
  <2>1. \A i \in Ids : order[i].status = "none" /\ live[i].phase = "none"  BY <1>1
  <2>2. \A i \in Ids : OrderOK(i, logTopic, live, order[i].status)  BY <1>9, <2>1 DEF OrderOK
  <2> QED  BY <1>8, <2>2 DEF EngineOK
<1>11. FillsGenuine /\ BatchRoom /\ RowsUnique /\ BillsSigned
  <2>1. Len(fillRows) = 0 /\ Len(fillCh) = 0 /\ Len(batch) = 0 /\ Len(bills) = 0  BY <1>1, <1>3
  <2>2. AllGenuine(fillRows, logTopic) /\ AllGenuine(fillCh, logTopic) /\ AllGenuine(batch, logTopic)
    BY <2>1 DEF AllGenuine
  <2>3. AllFresh(fillCh) /\ AllFresh(batch)  BY <2>1 DEF AllFresh
  <2>4. BatchRoom  BY <1>2, <2>1 DEF BatchRoom
  <2>5. RowsUnique /\ BillsSigned  BY <2>1 DEF RowsUnique, BillsSigned
  <2> QED  BY <1>1, <2>2, <2>3, <2>4, <2>5 DEF FillsGenuine, PipeGenuine
<1>12. AccountsSigned  BY <1>4 DEF AccountsSigned
<1>13. SettledSums
  <2>1. Len(fillRows) = 0  BY <1>1, <1>3
  <2>2. \A i \in Ids : Settled(i) = {}  BY <2>1 DEF Settled
  <2>3. Sizes({}) = 0 /\ Values({}) = 0  BY SumEmpty DEF Sizes, Values
  <2>4. \A i \in Ids : order[i].filled = 0 /\ order[i].executed = 0  BY <1>1
  <2> QED  BY <2>2, <2>3, <2>4 DEF SettledSums
<1>14. HoldsExact
  <2>1. ASSUME NEW u \in Users, NEW c \in Currencies
        PROVE  account[u][c].hold + DueHold(bills, u, c) = Owed(order, u, c)
    <3>1. account[u][c].hold = 0  BY <1>4 DEF Clients
    <3>2. DueOf(bills, u, c) = {}  BY <1>1 DEF DueOf
    <3>3. DueHold(bills, u, c) = 0  BY <3>2, SumEmpty DEF DueHold
    <3>4. PICK S : S = Mine(u, c)  OBVIOUS
    <3>5. S \subseteq Ids /\ IsFiniteSet(S)
      <4>1. S \subseteq Ids  BY <3>4 DEF Mine
      <4> QED  BY <4>1, Constants, FS_Subset
    <3>6. PICK F : F = [i \in S |-> HeldIn(order, i)]  OBVIOUS
    <3>7. \A i \in S : F[i] = 0
      <4>1. \A i \in S : order[i].status = "none"  BY <1>1, <3>5
      <4> QED  BY <3>6, <4>1 DEF HeldIn
    <3>8. SumFunctionOnSet(F, S) = 0  BY <3>5, <3>7, SumZero
    <3>9. Owed(order, u, c) = 0  BY <3>4, <3>6, <3>8 DEF Owed
    <3> QED  BY <3>1, <3>3, <3>9
  <2> QED  BY <2>1, HoldsAre
<1> QED  BY <1>6, <1>10, <1>11, <1>12, <1>13, <1>14 DEF SettleInv

LEMMA SameVars == ASSUME SettleInv, UNCHANGED vars PROVE SettleInv'
<1>1. UNCHANGED <<tables, engine, repeats>> /\ crashes' = crashes /\ halved' = halved
      /\ readOffset' = readOffset /\ lastSeq' = lastSeq /\ makerFill' = makerFill
      /\ fillCh' = fillCh /\ batch' = batch /\ flushing' = flushing /\ logTopic' = logTopic
  BY DEF vars, maker, engine
<1>2. TypeOK /\ PipeGenuine /\ BatchRoom  BY DEF SettleInv, FillsGenuine
<1>3. crashes' \in 0 .. MaxCrashes /\ halved' \in BOOLEAN /\ MakerType'
  BY <1>1, <1>2 DEF TypeOK, MakerType
<1>4. PipeGenuine' /\ BatchRoom'  BY <1>1, <1>2, Zenon DEF PipeGenuine, BatchRoom
<1> QED  BY <1>1, <1>3, <1>4, MakerFrame

\* Every action preserves the invariant.
LEMMA NextInv == ASSUME SettleInv, [Next]_vars PROVE SettleInv'
<1>1. CASE UNCHANGED vars  BY <1>1, SameVars
<1>2. CASE Next
  <2>1. ASSUME NEW i \in Ids, PlaceOrder(i) \/ OpenOrder(i) \/ FinishOrder(i) \/ ExecuteFill(i)
        PROVE  SettleInv'
    BY <2>1, PlaceInv, OpenInv, FinishInv, SettleFillsInv
  <2>2. ASSUME NEW t \in Ids, NEW m \in Ids, MatchOrders(t, m) PROVE SettleInv'
    BY <2>2, MatchInv
  <2>3. CASE RepeatLogs  BY <2>3, RepeatInv
  <2>4. CASE ReadRepeated \/ ReadMatch \/ SendMakerFill \/ ReadDone  BY <2>4, ReaderInv
  <2>5. CASE ReadOpen  BY <2>5, ReadOpenInv
  <2>6. CASE TakeFill  BY <2>6, TakeInv
  <2>7. CASE Flush \/ FlushUnsure  BY <2>7, FlushInv
  <2>8. CASE Crash  BY <2>8, CrashInv
  <2>9. ASSUME NEW u \in Clients, NEW c \in Currencies, ExecuteBill(u, c) PROVE SettleInv'
    BY <2>9, PayInv
  <2> QED  BY <1>2, <2>1, <2>2, <2>3, <2>4, <2>5, <2>6, <2>7, <2>8, <2>9 DEF Next
<1> QED  BY <1>1, <1>2

\* Whatever is due takes from a hold.
LEMMA DueNegative ==
    ASSUME TypeOK, BillsSigned, NEW u, NEW c PROVE DueHold(bills, u, c) \in Int /\ DueHold(bills, u, c) <= 0
<1>1. bills \in Seq(Bill) /\ Len(bills) \in Nat /\ DOMAIN bills = 1 .. Len(bills)  BY DEF TypeOK
<1>2. PICK S : S = DueOf(bills, u, c)  OBVIOUS
<1>3. S \subseteq 1 .. Len(bills) /\ IsFiniteSet(S)
  <2>1. S \subseteq 1 .. Len(bills)  BY <1>1, <1>2 DEF DueOf
  <2>2. IsFiniteSet(1 .. Len(bills))  BY <1>1, FS_Interval
  <2> QED  BY <2>1, <2>2, FS_Subset
<1>4. PICK G : G = [n \in S |-> bills[n].hold]  OBVIOUS
<1>5. PICK F : F = [n \in S |-> 0 - bills[n].hold]  OBVIOUS
<1>6. \A n \in S : bills[n].hold \in Int /\ bills[n].hold <= 0
  <2> TAKE n \in S
  <2>1. n \in 1 .. Len(bills)  BY <1>3
  <2>2. bills[n] \in Bill  BY <1>1, <2>1
  <2> QED  BY <2>1, <2>2 DEF BillsSigned, Bill
<1>7. \A n \in S : F[n] \in Nat /\ F[n] \in Int /\ G[n] = 0 - F[n]  BY <1>4, <1>5, <1>6
<1>8. SumFunctionOnSet(F, S) \in Nat  BY <1>3, <1>7, SumNat
<1>9. SumFunctionOnSet(G, S) = 0 - SumFunctionOnSet(F, S)
  <2>1. \A n \in S : F[n] \in Int /\ G[n] = 0 - F[n]  BY <1>7
  <2> QED  BY <1>3, <2>1, SumNeg
<1>10. DueHold(bills, u, c) = SumFunctionOnSet(G, S)  BY <1>2, <1>4 DEF DueHold
<1> QED  BY <1>8, <1>9, <1>10

\* A hold is what orders hold less what is due, and that is never positive.
LEMMA InvBalances == ASSUME SettleInv PROVE BalancesNonNegative
<1>0. /\ TypeOK /\ EngineOK /\ FillsGenuine /\ RowsUnique /\ SettledSums /\ BillsSigned
      /\ AccountsSigned /\ HoldsExact
  BY DEF SettleInv
<1>1. ASSUME NEW u \in Clients, NEW c \in Currencies
      PROVE  account[u][c].available >= 0 /\ account[u][c].hold >= 0
  <2>1. account[u][c].available >= 0 /\ (u = House => account[u][c].hold = 0)
    BY <1>0 DEF AccountsSigned
  <2>2. account[u][c].hold \in Int  BY <1>0 DEF TypeOK
  <2>3. CASE u = House  BY <2>1, <2>3
  <2>4. CASE u # House
    <3>1. u \in Users  BY <2>4 DEF Clients
    <3>2. account[u][c].hold + DueHold(bills, u, c) = Owed(order, u, c)  BY <1>0, <3>1, HoldsAre
    <3>3. DueHold(bills, u, c) \in Int /\ DueHold(bills, u, c) <= 0  BY <1>0, DueNegative
    <3>4. Owed(order, u, c) \in Nat
      <4>1. PICK S : S = Mine(u, c)  OBVIOUS
      <4>2. S \subseteq Ids /\ IsFiniteSet(S)
        <5>1. S \subseteq Ids  BY <4>1 DEF Mine
        <5> QED  BY <5>1, Constants, FS_Subset
      <4>3. PICK F : F = [i \in S |-> HeldIn(order, i)]  OBVIOUS
      <4>4. \A i \in Ids : HeldIn(order, i) \in Nat  BY <1>0, HeldNat, HoldsAre
      <4>5. \A i \in S : F[i] \in Nat  BY <4>2, <4>3, <4>4
      <4>6. SumFunctionOnSet(F, S) \in Nat  BY <4>2, <4>5, SumNat
      <4> QED  BY <4>1, <4>3, <4>6 DEF Owed
    <3> QED  BY <2>1, <2>2, <3>2, <3>3, <3>4
  <2> QED  BY <2>3, <2>4
<1> QED  BY <1>1 DEF BalancesNonNegative

\* Settled rows are bounded by the log, and the log by the engine's orders.
LEMMA InvNeverOver == ASSUME SettleInv PROVE NeverOverSettled
<1>0. TypeOK /\ EngineOK /\ FillsGenuine /\ RowsUnique /\ SettledSums  BY DEF SettleInv
<1>1. ASSUME NEW i \in Ids, order[i].status # "none"
      PROVE  /\ Request[i].size > 0 => order[i].filled <= Request[i].size - live[i].size
             /\ Request[i].side = "buy" => order[i].executed <= Request[i].funds - live[i].funds
  <2>1. Settled(i) \in SUBSET {n \in 1 .. Len(fillRows) : fillRows[n].id = i}  BY DEF Settled
  <2>2. order[i].filled = Sizes(Settled(i)) /\ order[i].executed = Values(Settled(i))
    BY <1>0 DEF SettledSums
  <2>3. order[i].filled <= Traded(logTopic, i) /\ order[i].executed <= Worth(logTopic, i)
    BY <1>0, <2>1, <2>2, RowBound
  <2>4. OrderOK(i, logTopic, live, order[i].status)  BY <1>0 DEF EngineOK
  <2> QED  BY <1>1, <2>3, <2>4 DEF OrderOK
<1> QED  BY <1>1 DEF NeverOverSettled

\* The inductive invariant holds throughout: the engine's orders are what the
\* log has left of their requests, every fill row comes from a log entry and
\* once per order, and accounts and unpaid bills add up to what orders hold.
THEOREM SettleInvHolds == Spec => []SettleInv
<1>1. Init => SettleInv  BY InitInv
<1>2. SettleInv /\ [Next]_vars => SettleInv'  BY NextInv
<1> QED  BY <1>1, <1>2, PTL DEF Spec

\* Accounts, orders, fills, bills, the log and the fill maker's channel and
\* batches keep their types and limits.
THEOREM SettlementTypeOK == Spec => []TypeOK
<1>1. SettleInv => TypeOK  BY DEF SettleInv
<1> QED  BY <1>1, SettleInvHolds, PTL

\* However fills and bills are settled, and through crashes and repeats,
\* accounts hold just what unfinished orders hold, once their bills are paid.
THEOREM SettlementHoldsExact == Spec => []HoldsExact
<1>1. SettleInv => HoldsExact  BY DEF SettleInv
<1> QED  BY <1>1, SettleInvHolds, PTL

\* No balance, available or held, of a client or the house goes below zero.
THEOREM SettlementBalancesNonNegative == Spec => []BalancesNonNegative
<1>1. SettleInv => BalancesNonNegative  BY InvBalances
<1> QED  BY <1>1, SettleInvHolds, PTL

\* The order rows never say more than the engine has traded: no fill is
\* settled twice.
THEOREM SettlementNeverOverSettled == Spec => []NeverOverSettled
<1>1. SettleInv => NeverOverSettled  BY InvNeverOver
<1> QED  BY <1>1, SettleInvHolds, PTL

-----------------------------------------------------------------------------
(* Nothing is lost: what the log tells of becomes a row, through crashes.  *)

\* The order in which the fill maker makes fills.
Key(f) == 2 * f.seq + (IF ~ f.done /\ f.liquidity = "M" THEN 1 ELSE 0)

Increasing(q) == \A a, b \in 1 .. Len(q) : a < b => Key(q[a]) < Key(q[b])

In(q) == {q[n] : n \in 1 .. Len(q)}

Before(P, Q) == \A x \in P, y \in Q : Key(x) < Key(y)

\* The fills that are not rows yet, or may not be.
Sending == {makerFill} \ {NoFill}
Waiting == In(batch) \cup In(fillCh) \cup Sending

PipeOrdered ==
    /\ Increasing(batch) /\ Increasing(fillCh)
    /\ Before(In(batch), In(fillCh) \cup Sending) /\ Before(In(fillCh), Sending)

HasRow(rows, i, s) == \E n \in 1 .. Len(rows) : rows[n].id = i /\ rows[n].seq = s

AfterRows(rows, x) ==
    \/ HasRow(rows, x.id, x.seq)
    \/ \A n \in 1 .. Len(rows) : Key(rows[n]) < Key(x)

\* A fill's offset is where a reader that goes on after it has seen no more
\* than the logs up to it.
Placed(f, t, last) ==
    /\ f.seq <= last
    /\ f.offset + 1 <= Len(t) /\ \A k \in 1 .. f.offset + 1 : t[k].seq <= f.seq

ReaderPlace ==
    /\ readOffset <= Len(logTopic) /\ lastSeq <= LastSeq(logTopic)
    /\ \A k \in 1 .. readOffset : logTopic[k].seq <= lastSeq

RowsInOrder ==
    /\ Increasing(fillRows)
    /\ \A x \in Waiting : AfterRows(fillRows, x)
    /\ \A n \in 1 .. Len(fillRows) : Placed(fillRows[n], logTopic, lastSeq)
    /\ \A x \in Waiting : Placed(x, logTopic, lastSeq)

\* The orders an entry makes a fill for.
Wants(e, i) ==
    \/ e.type = "match" /\ i \in {e.taker, e.maker}
    \/ e.type = "done" /\ i = e.id

Made(i, s) == HasRow(fillRows, i, s) \/ \E x \in Waiting : x.id = i /\ x.seq = s

NothingLost ==
    ~ halved => \A k \in 1 .. Len(logTopic) : logTopic[k].seq <= lastSeq =>
                   \A i \in Ids : Wants(logTopic[k], i) => Made(i, logTopic[k].seq)

PipeInv == PipeOrdered /\ ReaderPlace /\ RowsInOrder /\ NothingLost

\* The log starts at 1, and says of an order that it is done when it is.
DoneLogged(t, lv) ==
    \A i \in Ids :
        /\ lv[i].phase = "done" <=> \E k \in 1 .. Len(t) : t[k].type = "done" /\ t[k].id = i
        /\ \A k \in 1 .. Len(t) : t[k].type = "done" /\ t[k].id = i =>
              (t[k].reason = "filled" <=> Matching!UsedUp(lv[i], i))

Signed(i, z) == IF Request[i].side = "buy" THEN z ELSE -z

\* What is bought is sold.
TradesBalance(t) ==
    /\ SumFunctionOnSet([i \in Ids |-> Signed(i, Traded(t, i))], Ids) = 0
    /\ SumFunctionOnSet([i \in Ids |-> Signed(i, Worth(t, i))], Ids) = 0

LogTells ==
    /\ logTopic # << >> => logTopic[1].seq = 1
    /\ DoneLogged(logTopic, live) /\ TradesBalance(logTopic)

\* An order's status is final once its Done row is settled.
DoneRow(rows, i, n) == n \in 1 .. Len(rows) /\ rows[n].id = i /\ rows[n].done /\ rows[n].settled

StatusTells(rows, o, i) ==
    /\ o[i].status \in Final <=> \E n \in 1 .. Len(rows) : DoneRow(rows, i, n)
    /\ o[i].status = "filled" =>
          \E n \in 1 .. Len(rows) : DoneRow(rows, i, n) /\ rows[n].reason = "filled"
    /\ o[i].status \in {"cancelled", "partial"} =>
          \E n \in 1 .. Len(rows) : DoneRow(rows, i, n) /\ rows[n].reason = "cancelled"
    /\ o[i].status = "cancelled" => o[i].filled = 0
    /\ o[i].status = "partial" => o[i].filled # 0

\* What orders o have moved of a currency into the accounts.
Moved(o, c) ==
    SumFunctionOnSet([i \in Ids |-> IF c = "base" THEN Signed(i, o[i].filled)
                                                  ELSE -Signed(i, o[i].executed)], Ids)
MoneyIn(a, c) == SumFunctionOnSet([u \in Clients |-> a[u][c].available + a[u][c].hold], Clients)
MoneyWeight(c) == [b \in Bill |-> IF b.currency = c THEN b.available + b.hold ELSE 0]
MoneyMoves == \A c \in Currencies :
    MoneyIn(account, c) + Total(bills, MoneyWeight(c)) = Supply(c) + Moved(order, c)

StatusInv == \A i \in Ids : StatusTells(fillRows, order, i)

LEMMA KeyOrder ==
    ASSUME NEW f \in Fill, NEW g \in Fill
    PROVE  /\ Key(f) \in Nat
           /\ f.seq < g.seq => Key(f) < Key(g)
           /\ Key(f) < Key(g) => /\ f.seq <= g.seq
                                 /\ f.seq = g.seq => /\ ~ g.done /\ g.liquidity = "M"
                                                     /\ f.done \/ f.liquidity # "M"
<1>1. f.seq \in Nat /\ g.seq \in Nat  BY DEF Fill
<1> QED  BY <1>1 DEF Key

\* A log entry and an order have one fill: the same, wherever it is.
LEMMA KeySame ==
    ASSUME NEW t, LogFine(t), NEW f, NEW g, Genuine(f, t), Genuine(g, t), f.id = g.id, f.seq = g.seq
    PROVE  Key(f) = Key(g)
<1>1. PICK k \in 1 .. Len(t) : FillOf(f, t[k])  BY DEF Genuine
<1>2. PICK l \in 1 .. Len(t) : FillOf(g, t[l])  BY DEF Genuine
<1>3. t[k].seq = t[l].seq  BY <1>1, <1>2 DEF FillOf
<1>4. t[k] = t[l]  BY <1>3 DEF LogFine
<1>5. PICK e : e = t[k]  OBVIOUS
<1>6. FillOf(f, e) /\ FillOf(g, e) /\ TradeOK(e)  BY <1>1, <1>2, <1>4, <1>5 DEF LogFine
<1>7. (~ f.done /\ f.liquidity = "M") <=> (~ g.done /\ g.liquidity = "M")
  BY <1>6 DEF FillOf, TradeOK
<1> QED  BY <1>7 DEF Key

LEMMA WaitingFills ==
    ASSUME TypeOK, FillsGenuine
    PROVE  \A x \in Waiting : x \in Fill /\ Genuine(x, logTopic)
<1>1. \A x \in In(batch) \cup In(fillCh) : x \in Fill  BY DEF TypeOK, In
<1>2. \A x \in Sending : x \in Fill /\ x = makerFill /\ makerFill # NoFill  BY DEF TypeOK, Sending
<1>3. \A x \in In(batch) \cup In(fillCh) : Genuine(x, logTopic)
  BY DEF FillsGenuine, PipeGenuine, AllGenuine, In
<1>4. \A x \in Sending : Genuine(x, logTopic)  BY <1>2 DEF FillsGenuine, PipeGenuine
<1> QED  BY <1>1, <1>2, <1>3, <1>4 DEF Waiting

\* New entries of the log are past what its readers have seen.
Longer(t, u) ==
    /\ Grows(t, u) /\ LastSeq(t) <= LastSeq(u)
    /\ \A k \in Len(t) + 1 .. Len(u) : u[k].seq > LastSeq(t) \/ \E l \in 1 .. Len(t) : u[k] = t[l]

LEMMA PlacedLonger ==
    ASSUME NEW t \in Seq(LogEntry), NEW u, Grows(t, u), NEW f \in Fill, NEW last, Placed(f, t, last)
    PROVE  Placed(f, u, last)
<1>1. Len(t) \in Nat /\ Len(u) \in Nat /\ Len(t) <= Len(u) /\ f.offset \in Nat
  <2>1. u \in Seq(LogEntry) /\ Len(t) <= Len(u)  BY DEF Grows
  <2>2. f.offset \in Nat  BY DEF Fill
  <2> QED  BY <2>1, <2>2
<1>2. f.seq <= last /\ f.offset + 1 <= Len(t) /\ \A k \in 1 .. f.offset + 1 : t[k].seq <= f.seq
  BY DEF Placed
<1>3. \A k \in 1 .. f.offset + 1 : k \in 1 .. Len(t) /\ u[k] = t[k]  BY <1>1, <1>2 DEF Grows
<1> QED  BY <1>1, <1>2, <1>3 DEF Placed

LEMMA LongerPipe ==
    ASSUME SettleInv, PipeInv, fillRows' = fillRows, UNCHANGED maker, halved' = halved,
           Longer(logTopic, logTopic'), LogFine(logTopic')
    PROVE  PipeInv'
<1>0. TypeOK /\ FillsGenuine /\ LogFine(logTopic)  BY DEF SettleInv, EngineOK
<1>1. /\ readOffset' = readOffset /\ lastSeq' = lastSeq /\ makerFill' = makerFill
      /\ fillCh' = fillCh /\ batch' = batch
  BY DEF maker
<1>2. PICK t : t = logTopic  OBVIOUS
<1>3. PICK u : u = logTopic'  OBVIOUS
<1>4. /\ t \in Seq(LogEntry) /\ Len(t) \in Nat /\ u \in Seq(LogEntry) /\ Len(u) \in Nat
      /\ Len(t) <= Len(u) /\ Grows(t, u) /\ LastSeq(t) <= LastSeq(u)
      /\ LastSeq(t) \in Nat /\ LastSeq(u) \in Nat
      /\ \A k \in 1 .. Len(t) : u[k] = t[k]
      /\ \A k \in Len(t) + 1 .. Len(u) : u[k].seq > LastSeq(t) \/ \E l \in 1 .. Len(t) : u[k] = t[l]
  BY <1>0, <1>2, <1>3 DEF TypeOK, Longer, Grows, LogFine
<1>5. readOffset \in Nat /\ lastSeq \in Nat /\ fillRows \in Seq(Fill)  BY <1>0 DEF TypeOK
<1>6. Waiting' = Waiting  BY <1>1 DEF Waiting, In, Sending
<1>7. PipeOrdered'
  <2>1. PipeOrdered  BY DEF PipeInv
  <2> QED  BY <1>1, <2>1, Zenon DEF PipeOrdered, Sending
<1>8. ReaderPlace'
  <2>1. /\ readOffset <= Len(t) /\ lastSeq <= LastSeq(t)
        /\ \A k \in 1 .. readOffset : t[k].seq <= lastSeq
    BY <1>2 DEF PipeInv, ReaderPlace
  <2>2. readOffset <= Len(u) /\ lastSeq <= LastSeq(u)  BY <1>4, <1>5, <2>1
  <2>3. \A k \in 1 .. readOffset : u[k] = t[k]  BY <1>4, <1>5, <2>1
  <2> QED  BY <1>1, <1>3, <2>1, <2>2, <2>3 DEF ReaderPlace
<1>9. RowsInOrder'
  <2>1. RowsInOrder  BY DEF PipeInv
  <2>2. \A n \in 1 .. Len(fillRows) : fillRows[n] \in Fill  BY <1>5
  <2>3. \A n \in 1 .. Len(fillRows) : Placed(fillRows[n], u, lastSeq)
    BY <1>2, <1>4, <2>1, <2>2, PlacedLonger DEF RowsInOrder
  <2>4. \A x \in Waiting : Placed(x, u, lastSeq)
    BY <1>0, <1>2, <1>4, <2>1, PlacedLonger, WaitingFills DEF RowsInOrder
  <2> QED  BY <1>1, <1>3, <1>6, <2>1, <2>3, <2>4, Zenon DEF RowsInOrder
<1>10. NothingLost'
  <2> SUFFICES ASSUME ~ halved, NEW k \in 1 .. Len(u), u[k].seq <= lastSeq,
                      NEW i \in Ids, Wants(u[k], i)
               PROVE  Made(i, u[k].seq)'
    BY <1>1, <1>3 DEF NothingLost
  <2>1. PICK l \in 1 .. Len(t) : u[k] = t[l]
    <3>1. k \in 1 .. Len(t) \/ k \in Len(t) + 1 .. Len(u)  BY <1>4
    <3>2. u[k] \in LogEntry  BY <1>4
    <3>3. u[k].seq \in Nat  BY <3>2 DEF LogEntry
    <3>4. lastSeq <= LastSeq(t)  BY <1>2 DEF PipeInv, ReaderPlace
    <3> QED  BY <1>4, <1>5, <3>1, <3>3, <3>4
  <2>2. Made(i, t[l].seq)  BY <1>2, <2>1 DEF PipeInv, NothingLost
  <2> QED  BY <1>3, <1>6, <2>1, <2>2 DEF Made
<1> QED  BY <1>7, <1>8, <1>9, <1>10 DEF PipeInv

\* The reader passes the logs on one after the other.
LEMMA NextLog ==
    ASSUME SettleInv, PipeInv, LogTells, NEW type, CanPass(type)
    PROVE  /\ Reading \in LogEntry /\ Reading.type = type /\ Reading = logTopic[readOffset + 1]
           /\ Reading.seq = lastSeq + 1 /\ Reading.seq <= LastSeq(logTopic)
           /\ readOffset + 1 \in 1 .. Len(logTopic) /\ readOffset \in Nat /\ lastSeq \in Nat
<1>0. TypeOK /\ LogFine(logTopic)  BY DEF SettleInv, EngineOK
<1>1. CanRead /\ Reading.type = type /\ Reading.seq > lastSeq
      /\ (lastSeq > 0 => Reading.seq = lastSeq + 1)
  BY DEF CanPass
<1>2. /\ readOffset + 1 \in 1 .. Len(logTopic) /\ Reading \in LogEntry
      /\ Reading = logTopic[readOffset + 1] /\ Reading.seq \in Nat
  BY <1>0, <1>1, ReadFacts
<1>3. readOffset \in Nat /\ lastSeq \in Nat /\ logTopic \in Seq(LogEntry)  BY <1>0 DEF TypeOK
<1>4. Reading.seq \in 1 .. LastSeq(logTopic) /\ LastSeq(logTopic) \in Nat
  BY <1>0, <1>2 DEF LogFine
<1>5. CASE lastSeq = 0
  <2>1. 1 \in 1 .. Len(logTopic) /\ logTopic # << >>  BY <1>2, <1>3
  <2>2. logTopic[1].seq = 1  BY <2>1 DEF LogTells
  <2>3. readOffset = 0
    <3>1. ASSUME readOffset > 0 PROVE FALSE
      <4>1. 1 \in 1 .. readOffset  BY <1>3, <3>1
      <4>2. logTopic[1].seq <= lastSeq  BY <4>1 DEF PipeInv, ReaderPlace
      <4> QED  BY <1>5, <2>2, <4>2
    <3> QED  BY <1>3, <3>1
  <2> QED  BY <1>1, <1>2, <1>3, <1>4, <1>5, <2>2, <2>3
<1>6. CASE lastSeq > 0  BY <1>1, <1>2, <1>3, <1>4, <1>6
<1> QED  BY <1>3, <1>5, <1>6

\* The fills N that the next log is made into.
NewFills(N, e, o) ==
    /\ \A x \in N : x \in Fill /\ x.seq = e.seq /\ x.offset = o
    /\ \A i \in Ids : Wants(e, i) => \E x \in N : x.id = i

LEMMA PassedOn ==
    ASSUME SettleInv, PipeInv, LogTells, NEW type, CanPass(type),
           fillRows' = fillRows, logTopic' = logTopic, halved' = halved,
           readOffset' = readOffset + 1, lastSeq' = Reading.seq,
           NEW N, Waiting' = Waiting \cup N, NewFills(N, Reading, readOffset)
    PROVE  /\ ReaderPlace' /\ RowsInOrder' /\ NothingLost'
           /\ \A x \in Waiting, y \in N : Key(x) < Key(y)
<1>0. TypeOK /\ FillsGenuine /\ LogFine(logTopic)  BY DEF SettleInv, EngineOK
<1>1. PICK e : e = Reading  OBVIOUS
<1>2. PICK o : o = readOffset  OBVIOUS
<1>3. PICK l : l = lastSeq  OBVIOUS
<1>4. PICK t : t = logTopic  OBVIOUS
<1>5. /\ e \in LogEntry /\ e = t[o + 1] /\ e.seq = l + 1 /\ e.seq <= LastSeq(t)
      /\ o + 1 \in 1 .. Len(t) /\ o \in Nat /\ l \in Nat
  BY <1>1, <1>2, <1>3, <1>4, NextLog
<1>6. t \in Seq(LogEntry) /\ Len(t) \in Nat /\ LastSeq(t) \in Nat /\ fillRows \in Seq(Fill)
  BY <1>0, <1>4 DEF TypeOK, LogFine
<1>7. /\ readOffset' = o + 1 /\ lastSeq' = l + 1 /\ logTopic' = t
  BY <1>1, <1>2, <1>4, <1>5
<1>8. /\ \A x \in N : x \in Fill /\ x.seq = l + 1 /\ x.offset = o
      /\ \A i \in Ids : Wants(e, i) => \E x \in N : x.id = i
  BY <1>1, <1>2, <1>5 DEF NewFills
<1>9. /\ o <= Len(t) /\ l <= LastSeq(t) /\ \A k \in 1 .. o : t[k].seq <= l
  BY <1>2, <1>3, <1>4 DEF PipeInv, ReaderPlace
<1>10. \A k \in 1 .. o + 1 : t[k].seq <= l + 1
  <2> TAKE k \in 1 .. o + 1
  <2>1. k \in 1 .. o \/ k = o + 1  BY <1>5
  <2>2. CASE k \in 1 .. o
    <3>1. k \in 1 .. Len(t)  BY <1>5, <1>6, <2>2
    <3>2. t[k] \in LogEntry  BY <1>6, <3>1
    <3>3. t[k].seq \in Nat  BY <3>2 DEF LogEntry
    <3> QED  BY <1>5, <1>9, <2>2, <3>3
  <2>3. CASE k = o + 1  BY <1>5, <2>3
  <2> QED  BY <2>1, <2>2, <2>3
<1>11. ReaderPlace'
  <2>1. o + 1 <= Len(t) /\ l + 1 <= LastSeq(t)  BY <1>5, <1>6
  <2> QED  BY <1>7, <1>10, <2>1 DEF ReaderPlace
<1>12. /\ Increasing(fillRows) /\ \A x \in Waiting : AfterRows(fillRows, x)
       /\ \A n \in 1 .. Len(fillRows) : Placed(fillRows[n], t, l)
       /\ \A x \in Waiting : Placed(x, t, l)
  BY <1>3, <1>4 DEF PipeInv, RowsInOrder
<1>13. ASSUME NEW f \in Fill, Placed(f, t, l) PROVE Placed(f, t, l + 1) /\ f.seq < l + 1
  <2>1. f.seq \in Nat  BY DEF Fill
  <2> QED  BY <1>5, <1>13, <2>1 DEF Placed
<1>14. \A x \in N : Placed(x, t, l + 1)
  <2>1. o + 1 <= Len(t) /\ l + 1 <= l + 1  BY <1>5, <1>6
  <2> QED  BY <1>8, <1>10, <2>1 DEF Placed
<1>15. \A n \in 1 .. Len(fillRows) : fillRows[n] \in Fill  BY <1>6
<1>16. ASSUME NEW f \in Fill, Placed(f, t, l), NEW y \in N PROVE Key(f) < Key(y)
  <2>1. f.seq < y.seq /\ y \in Fill  BY <1>8, <1>13, <1>16
  <2> QED  BY <2>1, KeyOrder
<1>17. \A x \in Waiting, y \in N : Key(x) < Key(y)  BY <1>0, <1>12, <1>16, WaitingFills
<1>18. \A y \in N : AfterRows(fillRows, y)  BY <1>12, <1>15, <1>16 DEF AfterRows
<1>19. RowsInOrder'
  <2>1. \A n \in 1 .. Len(fillRows) : Placed(fillRows[n], t, l + 1)  BY <1>12, <1>13, <1>15
  <2>2. \A x \in Waiting : Placed(x, t, l + 1)  BY <1>0, <1>12, <1>13, WaitingFills
  <2>3. \A x \in Waiting' : Placed(x, t, l + 1) /\ AfterRows(fillRows, x)
    BY <1>12, <1>14, <1>18, <2>2
  <2> QED  BY <1>7, <1>12, <2>1, <2>3, Zenon DEF RowsInOrder
<1>20. NothingLost'
  <2> SUFFICES ASSUME ~ halved, NEW k \in 1 .. Len(t), t[k].seq <= l + 1,
                      NEW i \in Ids, Wants(t[k], i)
               PROVE  Made(i, t[k].seq)'
    BY <1>4, <1>7 DEF NothingLost
  <2>1. t[k] \in LogEntry  BY <1>6
  <2>2. t[k].seq \in Nat  BY <2>1 DEF LogEntry
  <2>3. CASE t[k].seq <= l
    <3>1. Made(i, t[k].seq)  BY <1>3, <1>4, <2>3 DEF PipeInv, NothingLost
    <3> QED  BY <1>4, <1>7, <3>1 DEF Made
  <2>4. CASE t[k].seq = l + 1
    <3>1. t[k] = e  BY <1>0, <1>4, <1>5, <2>4 DEF LogFine
    <3>2. PICK x \in N : x.id = i  BY <1>8, <3>1
    <3>3. x \in Waiting' /\ x.seq = t[k].seq  BY <1>8, <2>4, <3>2
    <3> QED  BY <1>4, <1>7, <3>2, <3>3 DEF Made
  <2> QED  BY <1>5, <2>2, <2>3, <2>4
<1> QED  BY <1>11, <1>17, <1>19, <1>20

\* A fill at the end of a channel.
LEMMA InSent ==
    ASSUME NEW q \in Seq(Fill), NEW x \in Fill
    PROVE  /\ In(Append(q, x)) = In(q) \cup {x}
           /\ Increasing(q) /\ (\A y \in In(q) : Key(y) < Key(x)) => Increasing(Append(q, x))
<1>1. PICK r : r = Append(q, x)  OBVIOUS
<1>2. /\ Len(r) = Len(q) + 1 /\ Len(q) \in Nat /\ \A n \in 1 .. Len(q) : r[n] = q[n]
      /\ r[Len(q) + 1] = x
  BY <1>1, Sent
<1>3. \A n \in 1 .. Len(r) : n \in 1 .. Len(q) \/ n = Len(q) + 1  BY <1>2
<1>4. In(r) = In(q) \cup {x}
  <2>1. \A n \in 1 .. Len(q) : n \in 1 .. Len(r)  BY <1>2
  <2>2. Len(q) + 1 \in 1 .. Len(r)  BY <1>2
  <2>3. In(r) \subseteq In(q) \cup {x}  BY <1>2, <1>3 DEF In
  <2>4. In(q) \subseteq In(r)  BY <1>2, <2>1 DEF In
  <2>5. x \in In(r)  BY <1>2, <2>2 DEF In
  <2> QED  BY <2>3, <2>4, <2>5
<1>5. ASSUME Increasing(q), \A y \in In(q) : Key(y) < Key(x) PROVE Increasing(r)
  <2> SUFFICES ASSUME NEW a \in 1 .. Len(r), NEW b \in 1 .. Len(r), a < b
               PROVE  Key(r[a]) < Key(r[b])
    BY DEF Increasing
  <2>1. a \in 1 .. Len(q)  BY <1>2
  <2>2. CASE b \in 1 .. Len(q)  BY <1>2, <1>5, <2>1, <2>2 DEF Increasing
  <2>3. CASE b = Len(q) + 1
    <3>1. q[a] \in In(q)  BY <2>1 DEF In
    <3> QED  BY <1>2, <1>5, <2>1, <2>3, <3>1
  <2> QED  BY <1>3, <2>2, <2>3
<1> QED  BY <1>1, <1>4, <1>5

LEMMA PassMatch == ASSUME SettleInv, PipeInv, LogTells, ReadMatch PROVE PipeInv'
<1>0. TypeOK /\ FillsGenuine  BY DEF SettleInv
<1>1. PICK e : e = Reading  OBVIOUS
<1>2. PICK f : f = MatchFill(e, readOffset, e.taker, "T")  OBVIOUS
<1>3. PICK g : g = MatchFill(e, readOffset, e.maker, "M")  OBVIOUS
<1>4. /\ CanPass("match") /\ fillCh' = Append(fillCh, f) /\ makerFill' = g
      /\ readOffset' = readOffset + 1 /\ lastSeq' = Reading.seq /\ batch' = batch
      /\ fillRows' = fillRows /\ logTopic' = logTopic /\ halved' = halved /\ makerFill = NoFill
  BY <1>1, <1>2, <1>3 DEF ReadMatch, tables, engine, CanPass, CanRead
<1>5. e \in LogEntry /\ e.type = "match" /\ readOffset \in Nat  BY <1>1, <1>4, NextLog
<1>6. f \in Fill /\ g \in Fill  BY <1>2, <1>3, <1>5, MatchFillOK
<1>7. /\ f.id = e.taker /\ f.seq = e.seq /\ f.offset = readOffset /\ ~ f.done /\ f.liquidity = "T"
      /\ g.id = e.maker /\ g.seq = e.seq /\ g.offset = readOffset /\ ~ g.done /\ g.liquidity = "M"
  BY <1>2, <1>3 DEF MatchFill
<1>8. Key(f) < Key(g)
  <2>1. e.seq \in Nat  BY <1>5 DEF LogEntry
  <2> QED  BY <1>7, <2>1 DEF Key
<1>9. PICK N : N = {f, g}  OBVIOUS
<1>10. NewFills(N, Reading, readOffset)
  <2>1. \A i \in Ids : Wants(e, i) => i = f.id \/ i = g.id  BY <1>5, <1>7 DEF Wants
  <2> QED  BY <1>1, <1>6, <1>7, <1>9, <2>1 DEF NewFills
<1>11. fillCh \in Seq(Fill) /\ NoFill \notin Fill  BY <1>0, NoFillAssumption DEF TypeOK
<1>12. In(fillCh') = In(fillCh) \cup {f}  BY <1>4, <1>6, <1>11, InSent
<1>13. Sending = {} /\ Sending' = {g}  BY <1>4, <1>6, <1>11 DEF Sending
<1>14. Waiting = In(batch) \cup In(fillCh)  BY <1>13 DEF Waiting
<1>15. Waiting' = In(batch) \cup In(fillCh') \cup {g}  BY <1>4, <1>13 DEF Waiting
<1>16. Waiting' = Waiting \cup N  BY <1>9, <1>12, <1>14, <1>15
<1>17. ReaderPlace' /\ RowsInOrder' /\ NothingLost' /\ \A x \in Waiting, y \in N : Key(x) < Key(y)
  BY <1>4, <1>10, <1>16, PassedOn
<1>18. PipeOrdered'
  <2>1. Increasing(batch) /\ Increasing(fillCh) /\ Before(In(batch), In(fillCh) \cup Sending)
    BY DEF PipeInv, PipeOrdered
  <2>2. \A x \in In(batch) \cup In(fillCh) : Key(x) < Key(f) /\ Key(x) < Key(g)
    BY <1>9, <1>14, <1>17
  <2>3. Increasing(fillCh')  BY <1>4, <1>6, <1>11, <2>1, <2>2, InSent
  <2>4. Before(In(batch), In(fillCh') \cup {g})  BY <1>12, <2>1, <2>2 DEF Before
  <2>5. Before(In(fillCh'), {g})  BY <1>8, <1>12, <2>2 DEF Before
  <2> QED  BY <1>4, <1>13, <2>1, <2>3, <2>4, <2>5, Zenon DEF PipeOrdered
<1> QED  BY <1>17, <1>18 DEF PipeInv

LEMMA PassDone == ASSUME SettleInv, PipeInv, LogTells, ReadDone PROVE PipeInv'
<1>0. TypeOK /\ FillsGenuine  BY DEF SettleInv
<1>1. PICK e : e = Reading  OBVIOUS
<1>2. PICK f : f = DoneFill(e, readOffset)  OBVIOUS
<1>4. /\ CanPass("done") /\ fillCh' = Append(fillCh, f) /\ makerFill' = makerFill
      /\ readOffset' = readOffset + 1 /\ lastSeq' = Reading.seq /\ batch' = batch
      /\ fillRows' = fillRows /\ logTopic' = logTopic /\ halved' = halved /\ makerFill = NoFill
  BY <1>1, <1>2 DEF ReadDone, tables, engine, CanPass, CanRead
<1>5. e \in LogEntry /\ e.type = "done" /\ readOffset \in Nat  BY <1>1, <1>4, NextLog
<1>6. f \in Fill  BY <1>2, <1>5, DoneFillOK
<1>7. f.id = e.id /\ f.seq = e.seq /\ f.offset = readOffset  BY <1>2 DEF DoneFill
<1>9. PICK N : N = {f}  OBVIOUS
<1>10. NewFills(N, Reading, readOffset)
  <2>1. \A i \in Ids : Wants(e, i) => i = f.id  BY <1>5, <1>7 DEF Wants
  <2> QED  BY <1>1, <1>6, <1>7, <1>9, <2>1 DEF NewFills
<1>11. fillCh \in Seq(Fill)  BY <1>0 DEF TypeOK
<1>12. In(fillCh') = In(fillCh) \cup {f}  BY <1>4, <1>6, <1>11, InSent
<1>13. Sending = {} /\ Sending' = {}  BY <1>4 DEF Sending
<1>14. Waiting = In(batch) \cup In(fillCh)  BY <1>13 DEF Waiting
<1>15. Waiting' = In(batch) \cup In(fillCh')  BY <1>4, <1>13 DEF Waiting
<1>16. Waiting' = Waiting \cup N  BY <1>9, <1>12, <1>14, <1>15
<1>17. ReaderPlace' /\ RowsInOrder' /\ NothingLost' /\ \A x \in Waiting, y \in N : Key(x) < Key(y)
  BY <1>4, <1>10, <1>16, PassedOn
<1>18. PipeOrdered'
  <2>1. Increasing(batch) /\ Increasing(fillCh) /\ Before(In(batch), In(fillCh) \cup Sending)
    BY DEF PipeInv, PipeOrdered
  <2>2. \A x \in In(batch) \cup In(fillCh) : Key(x) < Key(f)  BY <1>9, <1>14, <1>17
  <2>3. Increasing(fillCh')  BY <1>4, <1>6, <1>11, <2>1, <2>2, InSent
  <2>4. Before(In(batch), In(fillCh') \cup {})  BY <1>12, <2>1, <2>2 DEF Before
  <2>5. Before(In(fillCh'), {})  BY DEF Before
  <2> QED  BY <1>4, <1>13, <2>1, <2>3, <2>4, <2>5, Zenon DEF PipeOrdered
<1> QED  BY <1>17, <1>18 DEF PipeInv

LEMMA PassOpen == ASSUME SettleInv, PipeInv, LogTells, ReadOpen PROVE PipeInv'
<1>1. /\ CanPass("open") /\ fillCh' = fillCh /\ makerFill' = makerFill
      /\ readOffset' = readOffset + 1 /\ lastSeq' = Reading.seq /\ batch' = batch
      /\ fillRows' = fillRows /\ logTopic' = logTopic /\ halved' = halved
  BY DEF ReadOpen, engine
<1>2. Reading.type = "open"  BY <1>1 DEF CanPass
<1>3. NewFills({}, Reading, readOffset)  BY <1>2 DEF NewFills, Wants
<1>4. Waiting' = Waiting  BY <1>1, Zenon DEF Waiting, Sending
<1>5. PICK N : N = {}  OBVIOUS
<1>6. Waiting' = Waiting \cup N /\ NewFills(N, Reading, readOffset)  BY <1>3, <1>4, <1>5
<1>7. ReaderPlace' /\ RowsInOrder' /\ NothingLost'  BY <1>1, <1>6, PassedOn
<1>8. PipeOrdered'
  <2>1. PipeOrdered  BY DEF PipeInv
  <2> QED  BY <1>1, <2>1, Zenon DEF PipeOrdered, Sending
<1> QED  BY <1>7, <1>8 DEF PipeInv

LEMMA PassNothing == ASSUME SettleInv, PipeInv, ReadRepeated PROVE PipeInv'
<1>0. TypeOK /\ LogFine(logTopic)  BY DEF SettleInv, EngineOK
<1>1. /\ CanRead /\ Reading.seq <= lastSeq /\ readOffset' = readOffset + 1
      /\ lastSeq' = lastSeq /\ makerFill' = makerFill /\ fillCh' = fillCh /\ batch' = batch
      /\ fillRows' = fillRows /\ logTopic' = logTopic /\ halved' = halved
  BY DEF ReadRepeated, tables, engine
<1>2. /\ readOffset + 1 \in 1 .. Len(logTopic) /\ Reading = logTopic[readOffset + 1]
  BY <1>0, <1>1, ReadFacts
<1>3. readOffset \in Nat /\ Len(logTopic) \in Nat  BY <1>0 DEF TypeOK
<1>4. Waiting' = Waiting  BY <1>1, Zenon DEF Waiting, Sending
<1>5. ReaderPlace'
  <2>1. lastSeq <= LastSeq(logTopic) /\ \A k \in 1 .. readOffset : logTopic[k].seq <= lastSeq
    BY DEF PipeInv, ReaderPlace
  <2>2. \A k \in 1 .. readOffset + 1 : k \in 1 .. readOffset \/ k = readOffset + 1  BY <1>3
  <2>3. \A k \in 1 .. readOffset + 1 : logTopic[k].seq <= lastSeq  BY <1>1, <1>2, <2>1, <2>2
  <2>4. readOffset + 1 <= Len(logTopic)  BY <1>2, <1>3
  <2> QED  BY <1>1, <2>1, <2>3, <2>4 DEF ReaderPlace
<1>6. PipeOrdered' /\ RowsInOrder' /\ NothingLost'
  <2>1. PipeOrdered /\ RowsInOrder /\ NothingLost  BY DEF PipeInv
  <2>2. \A i, s : Made(i, s)' = Made(i, s)  BY <1>1, <1>4, Zenon DEF Made
  <2>3. PipeOrdered'  BY <1>1, <2>1, Zenon DEF PipeOrdered, Sending
  <2>4. RowsInOrder'  BY <1>1, <1>4, <2>1, Zenon DEF RowsInOrder
  <2>5. NothingLost'  BY <1>1, <2>1, <2>2 DEF NothingLost
  <2> QED  BY <2>3, <2>4, <2>5
<1> QED  BY <1>5, <1>6 DEF PipeInv

\* Fills move on, and no other is there.
LEMMA SameWaiting ==
    ASSUME PipeInv, Waiting' = Waiting, fillRows' = fillRows, logTopic' = logTopic,
           halved' = halved, readOffset' = readOffset, lastSeq' = lastSeq, PipeOrdered'
    PROVE  PipeInv'
<1>1. ReaderPlace /\ RowsInOrder /\ NothingLost  BY DEF PipeInv
<1>2. \A i, s : Made(i, s)' = Made(i, s)  BY Zenon DEF Made
<1>3. ReaderPlace'  BY <1>1 DEF ReaderPlace
<1>4. RowsInOrder'  BY <1>1, Zenon DEF RowsInOrder
<1>5. NothingLost'  BY <1>1, <1>2 DEF NothingLost
<1> QED  BY <1>3, <1>4, <1>5 DEF PipeInv

LEMMA PassMaker == ASSUME SettleInv, PipeInv, SendMakerFill PROVE PipeInv'
<1>0. TypeOK  BY DEF SettleInv
<1>1. /\ makerFill # NoFill /\ fillCh' = Append(fillCh, makerFill) /\ makerFill' = NoFill
      /\ readOffset' = readOffset /\ lastSeq' = lastSeq /\ batch' = batch
      /\ fillRows' = fillRows /\ logTopic' = logTopic /\ halved' = halved
  BY DEF SendMakerFill, tables, engine
<1>2. PICK g : g = makerFill  OBVIOUS
<1>3. g \in Fill /\ fillCh \in Seq(Fill) /\ fillCh' = Append(fillCh, g)  BY <1>0, <1>1, <1>2 DEF TypeOK
<1>4. In(fillCh') = In(fillCh) \cup {g}  BY <1>3, InSent
<1>5. Sending = {g} /\ Sending' = {}  BY <1>1, <1>2 DEF Sending
<1>6. Waiting' = Waiting
  <2>1. Waiting = In(batch) \cup In(fillCh) \cup {g}  BY <1>5 DEF Waiting
  <2>2. Waiting' = In(batch) \cup In(fillCh')  BY <1>1, <1>5 DEF Waiting
  <2> QED  BY <1>4, <2>1, <2>2
<1>7. PipeOrdered'
  <2>1. /\ Increasing(batch) /\ Increasing(fillCh) /\ Before(In(batch), In(fillCh) \cup Sending)
        /\ Before(In(fillCh), Sending)
    BY DEF PipeInv, PipeOrdered
  <2>2. Increasing(fillCh')
    <3>1. \A y \in In(fillCh) : Key(y) < Key(g)  BY <1>5, <2>1 DEF Before
    <3> QED  BY <1>3, <2>1, <3>1, InSent
  <2>3. Before(In(batch), In(fillCh') \cup {})  BY <1>4, <1>5, <2>1 DEF Before
  <2>4. Before(In(fillCh'), {})  BY DEF Before
  <2> QED  BY <1>1, <1>5, <2>1, <2>2, <2>3, <2>4, Zenon DEF PipeOrdered
<1> QED  BY <1>1, <1>6, <1>7, SameWaiting

LEMMA PassBatch == ASSUME SettleInv, PipeInv, TakeFill PROVE PipeInv'
<1>0. TypeOK  BY DEF SettleInv
<1>1. /\ fillCh # << >> /\ batch' = Append(batch, Head(fillCh)) /\ fillCh' = Tail(fillCh)
      /\ makerFill' = makerFill /\ readOffset' = readOffset /\ lastSeq' = lastSeq
      /\ fillRows' = fillRows /\ logTopic' = logTopic /\ halved' = halved
  BY DEF TakeFill, tables, engine
<1>2. PICK f : f = Head(fillCh)  OBVIOUS
<1>3. PICK q : q = Tail(fillCh)  OBVIOUS
<1>4. /\ f \in Fill /\ f = fillCh[1] /\ q \in Seq(Fill) /\ Len(q) = Len(fillCh) - 1
      /\ Len(fillCh) \in Nat \ {0} /\ batch \in Seq(Fill)
      /\ \A n \in 1 .. Len(fillCh) - 1 : q[n] = fillCh[n + 1]
  <2>1. fillCh \in Seq(Fill) /\ batch \in Seq(Fill)  BY <1>0 DEF TypeOK
  <2> QED  BY <1>1, <1>2, <1>3, <2>1, Received
<1>5. /\ Increasing(batch) /\ Increasing(fillCh) /\ Before(In(batch), In(fillCh) \cup Sending)
      /\ Before(In(fillCh), Sending)
  BY DEF PipeInv, PipeOrdered
<1>6. In(fillCh) = {f} \cup In(q)
  <2>1. \A n \in 1 .. Len(fillCh) : n = 1 \/ (n - 1 \in 1 .. Len(q) /\ fillCh[n] = q[n - 1])  BY <1>4
  <2>2. \A n \in 1 .. Len(q) : n + 1 \in 1 .. Len(fillCh) /\ q[n] = fillCh[n + 1]  BY <1>4
  <2>3. 1 \in 1 .. Len(fillCh)  BY <1>4
  <2>4. ASSUME NEW x \in In(fillCh) PROVE x \in {f} \cup In(q)
    <3>1. PICK n \in 1 .. Len(fillCh) : x = fillCh[n]  BY DEF In
    <3>2. CASE n = 1  BY <1>4, <3>1, <3>2
    <3>3. CASE n - 1 \in 1 .. Len(q) /\ fillCh[n] = q[n - 1]  BY <3>1, <3>3 DEF In
    <3> QED  BY <2>1, <3>2, <3>3
  <2>5. In(q) \subseteq In(fillCh)  BY <2>2 DEF In
  <2>6. f \in In(fillCh)  BY <1>4, <2>3 DEF In
  <2> QED  BY <2>4, <2>5, <2>6
<1>7. Increasing(q)
  <2>1. \A a, b \in 1 .. Len(q) : a < b =>
            a + 1 \in 1 .. Len(fillCh) /\ b + 1 \in 1 .. Len(fillCh) /\ a + 1 < b + 1
    BY <1>4
  <2> QED  BY <1>4, <1>5, <2>1 DEF Increasing
<1>8. Before({f}, In(q))
  <2>1. \A n \in 1 .. Len(q) : 1 \in 1 .. Len(fillCh) /\ n + 1 \in 1 .. Len(fillCh) /\ 1 < n + 1
    BY <1>4
  <2>2. \A n \in 1 .. Len(q) : Key(f) < Key(q[n])  BY <1>4, <1>5, <2>1 DEF Increasing
  <2> QED  BY <2>2 DEF Before, In
<1>9. In(batch') = In(batch) \cup {f}  BY <1>1, <1>2, <1>4, InSent
<1>10. Increasing(batch')
  <2>1. \A y \in In(batch) : Key(y) < Key(f)  BY <1>5, <1>6 DEF Before
  <2> QED  BY <1>1, <1>2, <1>4, <1>5, <2>1, InSent
<1>11. Sending' = Sending /\ fillCh' = q  BY <1>1, <1>3 DEF Sending
<1>12. Waiting' = Waiting
  <2>1. Waiting' = In(batch') \cup In(q) \cup Sending  BY <1>11 DEF Waiting
  <2> QED  BY <1>6, <1>9, <2>1 DEF Waiting
<1>13. PipeOrdered'
  <2>1. Before(In(batch'), In(q) \cup Sending)  BY <1>5, <1>6, <1>8, <1>9 DEF Before
  <2>2. Before(In(q), Sending)  BY <1>5, <1>6 DEF Before
  <2> QED  BY <1>7, <1>10, <1>11, <2>1, <2>2, Zenon DEF PipeOrdered
<1> QED  BY <1>1, <1>12, <1>13, SameWaiting

\* INSERT IGNORE: every fill of the batch is a row then, the new rows in
\* the order of the batch.
LEMMA AddFillsOrder ==
    ASSUME SettleInv, PipeInv, AddFills(batch)
    PROVE  /\ \A x \in In(batch) : HasRow(fillRows', x.id, x.seq)
           /\ Increasing(fillRows')
           /\ \A n \in Len(fillRows) + 1 .. Len(fillRows') : fillRows'[n] \in In(batch)
           /\ \A n \in 1 .. Len(fillRows) : fillRows'[n] = fillRows[n]
           /\ Len(fillRows) <= Len(fillRows') /\ Len(fillRows) \in Nat /\ fillRows' \in Seq(Fill)
<1>0. /\ TypeOK /\ FillsGenuine /\ RowsUnique /\ LogFine(logTopic)
      /\ fillRows \in Seq(Fill) /\ batch \in Seq(Fill) /\ AllGenuine(batch, logTopic)
  BY DEF SettleInv, TypeOK, FillsGenuine, PipeGenuine, EngineOK
<1>1. PICK K : K = {n \in DOMAIN batch :
          ~ \/ \E k \in DOMAIN fillRows : fillRows[k].id = batch[n].id /\ fillRows[k].seq = batch[n].seq
            \/ \E k \in 1 .. n - 1 : batch[k].id = batch[n].id /\ batch[k].seq = batch[n].seq}
  OBVIOUS
<1>2. PICK q : q = Keep(batch, K)  OBVIOUS
<1>3. fillRows' = fillRows \o q  BY <1>1, <1>2 DEF AddFills
<1>4. K \in SUBSET (DOMAIN batch) /\ DOMAIN batch = 1 .. Len(batch) /\ DOMAIN fillRows = 1 .. Len(fillRows)
      /\ Len(batch) \in Nat
  BY <1>0, <1>1
<1>5. q \in Seq(Fill) /\ \E h : Places(q, batch, K, h)  BY <1>0, <1>2, <1>4, KeepRows
<1>6. PICK h : Places(q, batch, K, h)  BY <1>5
<1>7. /\ h \in [1 .. Len(q) -> K] /\ \A a \in 1 .. Len(q) : q[a] = batch[h[a]]
      /\ \A a, b \in 1 .. Len(q) : a < b => h[a] < h[b]
      /\ \A n \in K : \E a \in 1 .. Len(q) : h[a] = n
  BY <1>6 DEF Places
<1>8. PICK r : r = fillRows'  OBVIOUS
<1>9. PICK l : l = Len(fillRows)  OBVIOUS
<1>10. /\ r \in Seq(Fill) /\ Len(r) = l + Len(q) /\ l \in Nat /\ Len(q) \in Nat
       /\ \A n \in 1 .. l : r[n] = fillRows[n]
       /\ \A n \in 1 .. Len(q) : r[l + n] = q[n]
  BY <1>0, <1>3, <1>5, <1>8, <1>9, Joined
<1>11. ASSUME NEW n \in l + 1 .. Len(r)
       PROVE  n - l \in 1 .. Len(q) /\ h[n - l] \in K /\ h[n - l] \in 1 .. Len(batch)
              /\ r[n] = batch[h[n - l]]
  <2>1. n - l \in 1 .. Len(q) /\ l + (n - l) = n  BY <1>10
  <2>2. h[n - l] \in K  BY <1>7, <2>1
  <2>3. r[n] = q[n - l] /\ q[n - l] = batch[h[n - l]]  BY <1>7, <1>10, <2>1
  <2> QED  BY <1>4, <2>1, <2>2, <2>3
<1>12. \A n \in 1 .. Len(r) : n \in 1 .. l \/ n \in l + 1 .. Len(r)  BY <1>10
<1>13. Increasing(batch) /\ Increasing(fillRows)  BY DEF PipeInv, PipeOrdered, RowsInOrder
<1>14. ASSUME NEW n \in 1 .. Len(batch) PROVE n \in K \/ HasRow(fillRows, batch[n].id, batch[n].seq)
  <2>1. ASSUME NEW k \in 1 .. n - 1, batch[k].id = batch[n].id, batch[k].seq = batch[n].seq
        PROVE  FALSE
    <3>1. k \in 1 .. Len(batch) /\ k < n  BY <1>4
    <3>2. Key(batch[k]) < Key(batch[n])  BY <1>13, <3>1 DEF Increasing
    <3>3. Genuine(batch[k], logTopic) /\ Genuine(batch[n], logTopic)  BY <1>0, <3>1 DEF AllGenuine
    <3>4. Key(batch[k]) = Key(batch[n])  BY <1>0, <2>1, <3>3, KeySame
    <3>5. batch[k] \in Fill /\ batch[n] \in Fill  BY <1>0, <3>1
    <3>6. Key(batch[n]) \in Nat  BY <3>5, KeyOrder
    <3> QED  BY <3>2, <3>4, <3>6
  <2> QED  BY <1>1, <1>4, <2>1 DEF HasRow
<1>15. ASSUME NEW x \in In(batch) PROVE HasRow(r, x.id, x.seq)
  <2>1. PICK n \in 1 .. Len(batch) : x = batch[n]  BY DEF In
  <2>2. CASE n \in K
    <3>1. PICK a \in 1 .. Len(q) : h[a] = n  BY <1>7, <2>2
    <3>2. l + a \in 1 .. Len(r) /\ r[l + a] = q[a] /\ q[a] = batch[n]  BY <1>7, <1>10, <3>1
    <3> QED  BY <2>1, <3>2 DEF HasRow
  <2>3. CASE HasRow(fillRows, batch[n].id, batch[n].seq)
    <3>1. PICK m \in 1 .. l : fillRows[m].id = x.id /\ fillRows[m].seq = x.seq
      BY <1>9, <2>1, <2>3 DEF HasRow
    <3>2. m \in 1 .. Len(r) /\ r[m] = fillRows[m]  BY <1>10
    <3> QED  BY <3>1, <3>2 DEF HasRow
  <2> QED  BY <1>14, <2>2, <2>3
<1>16. \A n \in l + 1 .. Len(r) : r[n] \in In(batch)  BY <1>11 DEF In
<1>17. ASSUME NEW m \in 1 .. Len(r), NEW n \in 1 .. Len(r), m < n PROVE Key(r[m]) < Key(r[n])
  <2>1. CASE n \in 1 .. l
    <3>1. m \in 1 .. l  BY <1>10, <1>17, <2>1
    <3>2. r[m] = fillRows[m] /\ r[n] = fillRows[n]  BY <1>10, <2>1, <3>1
    <3> QED  BY <1>9, <1>13, <1>17, <2>1, <3>1, <3>2 DEF Increasing
  <2>2. CASE m \in 1 .. l /\ n \in l + 1 .. Len(r)
    <3>1. r[m] = fillRows[m]  BY <1>10, <2>2
    <3>2. h[n - l] \in K /\ r[n] = batch[h[n - l]] /\ r[n] \in In(batch)  BY <1>11, <1>16, <2>2
    <3>3. ~ HasRow(fillRows, r[n].id, r[n].seq)  BY <1>1, <1>4, <3>2 DEF HasRow
    <3>4. AfterRows(fillRows, r[n])  BY <3>2 DEF PipeInv, RowsInOrder, Waiting
    <3> QED  BY <1>9, <2>2, <3>1, <3>3, <3>4 DEF AfterRows
  <2>3. CASE m \in l + 1 .. Len(r) /\ n \in l + 1 .. Len(r)
    <3>1. r[n] = batch[h[n - l]] /\ h[n - l] \in 1 .. Len(batch) /\ n - l \in 1 .. Len(q)
      BY <1>11, <2>3
    <3>2. r[m] = batch[h[m - l]] /\ h[m - l] \in 1 .. Len(batch) /\ m - l \in 1 .. Len(q)
      BY <1>11, <2>3
    <3>3. m - l < n - l  BY <1>10, <1>17
    <3>4. h[m - l] < h[n - l]  BY <1>7, <3>1, <3>2, <3>3
    <3> QED  BY <1>13, <3>1, <3>2, <3>4 DEF Increasing
  <2> QED  BY <1>10, <1>12, <1>17, <2>1, <2>2, <2>3
<1>18. Increasing(r)  BY <1>17 DEF Increasing
<1>19. Len(fillRows) <= Len(r)  BY <1>9, <1>10
<1> QED  BY <1>8, <1>9, <1>10, <1>15, <1>16, <1>18, <1>19

LEMMA PassRows == ASSUME SettleInv, PipeInv, Flush \/ FlushUnsure PROVE PipeInv'
<1>0. TypeOK /\ FillsGenuine /\ \A x \in Waiting : x \in Fill  BY WaitingFills DEF SettleInv
<1>1. /\ AddFills(batch) /\ logTopic' = logTopic /\ readOffset' = readOffset /\ lastSeq' = lastSeq
      /\ makerFill' = makerFill /\ fillCh' = fillCh /\ halved' = halved
      /\ batch' = batch \/ batch' = << >>
  BY DEF Flush, FlushUnsure, engine, maker
<1>2. PICK r : r = fillRows'  OBVIOUS
<1>3. PICK l : l = Len(fillRows)  OBVIOUS
<1>4. /\ \A x \in In(batch) : HasRow(r, x.id, x.seq)
      /\ Increasing(r)
      /\ \A n \in l + 1 .. Len(r) : r[n] \in In(batch)
      /\ \A n \in 1 .. l : r[n] = fillRows[n]
      /\ l <= Len(r) /\ l \in Nat /\ r \in Seq(Fill)
  BY <1>1, <1>2, <1>3, AddFillsOrder
<1>5. /\ Increasing(batch) /\ Increasing(fillCh) /\ Before(In(batch), In(fillCh) \cup Sending)
      /\ Before(In(fillCh), Sending)
  BY DEF PipeInv, PipeOrdered
<1>6. Sending' = Sending  BY <1>1 DEF Sending
<1>7. In(batch') \in {In(batch), {}} /\ Increasing(batch')
  <2>1. CASE batch' = batch  BY <1>5, <2>1
  <2>2. CASE batch' = << >>
    <3>1. Len(batch') = 0  BY <2>2
    <3>2. 1 .. Len(batch') = {}  BY <3>1
    <3> QED  BY <3>2 DEF In, Increasing
  <2> QED  BY <1>1, <2>1, <2>2
<1>8. PipeOrdered'
  <2>1. Before(In(batch'), In(fillCh) \cup Sending)  BY <1>5, <1>7 DEF Before
  <2> QED  BY <1>1, <1>5, <1>6, <1>7, <2>1, Zenon DEF PipeOrdered
<1>9. Waiting' = In(batch') \cup In(fillCh) \cup Sending  BY <1>1, <1>6 DEF Waiting
<1>10. Waiting' \subseteq Waiting /\ Waiting \subseteq Waiting' \cup In(batch)
  BY <1>7, <1>9 DEF Waiting
<1>11. ReaderPlace'  BY <1>1 DEF PipeInv, ReaderPlace
<1>12. \A i, s : HasRow(fillRows, i, s) => HasRow(r, i, s)
  <2>1. \A n \in 1 .. l : n \in 1 .. Len(r)  BY <1>4
  <2> QED  BY <1>3, <1>4, <2>1 DEF HasRow
<1>13. ASSUME NEW x \in Waiting PROVE AfterRows(r, x)
  <2>1. CASE x \in In(batch)  BY <1>4, <2>1 DEF AfterRows
  <2>2. CASE HasRow(fillRows, x.id, x.seq)  BY <1>12, <2>2 DEF AfterRows
  <2>3. CASE x \in In(fillCh) \cup Sending /\ \A n \in 1 .. l : Key(fillRows[n]) < Key(x)
    <3>1. \A y \in In(batch) : Key(y) < Key(x)  BY <1>5, <2>3 DEF Before
    <3>2. \A n \in 1 .. Len(r) : n \in 1 .. l \/ n \in l + 1 .. Len(r)  BY <1>4
    <3>3. \A n \in 1 .. Len(r) : Key(r[n]) < Key(x)  BY <1>4, <2>3, <3>1, <3>2
    <3> QED  BY <3>3 DEF AfterRows
  <2>4. AfterRows(fillRows, x)  BY DEF PipeInv, RowsInOrder
  <2> QED  BY <1>3, <2>1, <2>2, <2>3, <2>4 DEF AfterRows, Waiting
<1>14. RowsInOrder'
  <2>1. /\ \A n \in 1 .. l : Placed(fillRows[n], logTopic, lastSeq)
        /\ \A x \in Waiting : Placed(x, logTopic, lastSeq)
    BY <1>3 DEF PipeInv, RowsInOrder
  <2>2. \A n \in 1 .. Len(r) : n \in 1 .. l \/ n \in l + 1 .. Len(r)  BY <1>4
  <2>3. \A n \in 1 .. Len(r) : Placed(r[n], logTopic, lastSeq)
    <3> TAKE n \in 1 .. Len(r)
    <3>1. CASE n \in 1 .. l  BY <1>4, <2>1, <3>1
    <3>2. CASE n \in l + 1 .. Len(r)
      <4>1. r[n] \in Waiting  BY <1>4, <3>2 DEF Waiting
      <4> QED  BY <2>1, <4>1
    <3> QED  BY <2>2, <3>1, <3>2
  <2>4. \A x \in Waiting' : Placed(x, logTopic, lastSeq) /\ AfterRows(r, x)
    BY <1>10, <1>13, <2>1
  <2> QED  BY <1>1, <1>2, <1>4, <2>3, <2>4, Zenon DEF RowsInOrder
<1>15. NothingLost'
  <2>1. ASSUME NEW i, NEW s, Made(i, s) PROVE Made(i, s)'
    <3>1. CASE HasRow(fillRows, i, s)  BY <1>2, <1>12, <3>1 DEF Made
    <3>2. ASSUME NEW x \in Waiting, x.id = i, x.seq = s PROVE Made(i, s)'
      <4>1. CASE x \in In(batch)  BY <1>2, <1>4, <3>2, <4>1 DEF Made
      <4>2. CASE x \in Waiting'  BY <3>2, <4>2 DEF Made
      <4> QED  BY <1>10, <4>1, <4>2
    <3> QED  BY <2>1, <3>1, <3>2 DEF Made
  <2>2. NothingLost  BY DEF PipeInv
  <2> QED  BY <1>1, <2>1, <2>2 DEF NothingLost
<1> QED  BY <1>8, <1>11, <1>14, <1>15 DEF PipeInv

\* A crash loses fills that are not rows, and the reader makes them again:
\* all but the second fill of a match whose first is the last row.
LEMMA PassCrash == ASSUME SettleInv, PipeInv, Crash PROVE PipeInv'
<1>0. /\ TypeOK /\ FillsGenuine /\ LogFine(logTopic) /\ AllGenuine(fillRows, logTopic)
      /\ fillRows \in Seq(Fill) /\ Len(fillRows) \in Nat /\ lastSeq \in Nat
      /\ LastSeq(logTopic) \in Nat /\ logTopic \in Seq(LogEntry) /\ Len(logTopic) \in Nat
  BY DEF SettleInv, EngineOK, FillsGenuine, TypeOK, LogFine
<1>1. /\ makerFill' = NoFill /\ fillCh' = << >> /\ batch' = << >> /\ fillRows' = fillRows
      /\ logTopic' = logTopic /\ halved' = (halved \/ Halves)
  BY DEF Crash, tables, engine
<1>2. Len(fillCh') = 0 /\ Len(batch') = 0  BY <1>1
<1>3. 1 .. 0 = {}  OBVIOUS
<1>4. In(fillCh') = {} /\ In(batch') = {} /\ Increasing(fillCh') /\ Increasing(batch')
  BY <1>2, <1>3 DEF In, Increasing
<1>5. Sending' = {} /\ Waiting' = {}
  <2>1. Sending' = {}  BY <1>1 DEF Sending
  <2> QED  BY <1>4, <2>1 DEF Waiting
<1>6. PipeOrdered'
  <2>1. Before({}, {} \cup {}) /\ Before({}, {})  BY DEF Before
  <2> QED  BY <1>4, <1>5, <2>1, Zenon DEF PipeOrdered
<1>7. CASE fillRows = << >>
  <2>1. readOffset' = 0 /\ lastSeq' = 0  BY <1>7 DEF Crash
  <2>2. ReaderPlace'  BY <1>0, <1>1, <1>3, <2>1 DEF ReaderPlace
  <2>3. Len(fillRows) = 0  BY <1>7
  <2>4. RowsInOrder'
    <3>1. Increasing(fillRows) /\ \A n \in 1 .. Len(fillRows) : FALSE  BY <1>3, <2>3 DEF Increasing
    <3> QED  BY <1>1, <1>5, <3>1 DEF RowsInOrder
  <2>5. NothingLost'
    <3>1. \A k \in 1 .. Len(logTopic) : ~ (logTopic[k].seq <= 0)
      <4> TAKE k \in 1 .. Len(logTopic)
      <4>1. logTopic[k].seq \in 1 .. LastSeq(logTopic)  BY <1>0 DEF LogFine
      <4> QED  BY <1>0, <4>1
    <3> QED  BY <1>1, <2>1, <3>1 DEF NothingLost
  <2> QED  BY <1>6, <2>2, <2>4, <2>5 DEF PipeInv
<1>8. CASE fillRows # << >>
  <2>1. PICK l : l = Len(fillRows)  OBVIOUS
  <2>2. PICK f : f = fillRows[l]  OBVIOUS
  <2>3. l \in 1 .. Len(fillRows) /\ l \in Nat /\ f \in Fill /\ Last(fillRows) = f
    BY <1>0, <1>8, <2>1, <2>2 DEF Last
  <2>4. f.offset \in Nat /\ f.seq \in Nat  BY <2>3 DEF Fill
  <2>5. readOffset' = ResumeOffset(f.offset) /\ lastSeq' = f.seq  BY <1>8, <2>3 DEF Crash
  <2>6. PICK o : o = ResumeOffset(f.offset)  OBVIOUS
  <2>7. o \in Nat /\ o <= f.offset + 1  BY <2>4, <2>6 DEF ResumeOffset
  <2>8. /\ Increasing(fillRows) /\ \A x \in Waiting : AfterRows(fillRows, x)
        /\ \A n \in 1 .. l : Placed(fillRows[n], logTopic, lastSeq)
    BY <2>1 DEF PipeInv, RowsInOrder
  <2>9. /\ f.seq <= lastSeq /\ f.offset + 1 <= Len(logTopic)
        /\ \A k \in 1 .. f.offset + 1 : logTopic[k].seq <= f.seq
    BY <2>1, <2>2, <2>3, <2>8 DEF Placed
  <2>10. ReaderPlace'
    <3>1. lastSeq <= LastSeq(logTopic)  BY DEF PipeInv, ReaderPlace
    <3>2. o <= Len(logTopic) /\ f.seq <= LastSeq(logTopic)  BY <1>0, <2>4, <2>7, <2>9, <3>1
    <3>3. \A k \in 1 .. o : k \in 1 .. f.offset + 1  BY <2>4, <2>7
    <3> QED  BY <1>1, <2>5, <2>6, <2>9, <3>2, <3>3 DEF ReaderPlace
  <2>11. ASSUME NEW n \in 1 .. l PROVE fillRows[n] \in Fill /\ fillRows[n].seq <= f.seq
    <3>1. fillRows[n] \in Fill /\ n \in 1 .. Len(fillRows)  BY <1>0, <2>1
    <3>2. CASE n = l  BY <2>2, <2>4, <3>1, <3>2
    <3>3. CASE n # l
      <4>1. n < l  BY <2>3, <3>3
      <4>2. Key(fillRows[n]) < Key(f)  BY <2>2, <2>3, <2>8, <3>1, <4>1 DEF Increasing
      <4> QED  BY <2>3, <3>1, <4>2, KeyOrder
    <3> QED  BY <3>2, <3>3
  <2>12. RowsInOrder'
    <3>1. \A n \in 1 .. l : Placed(fillRows[n], logTopic, f.seq)  BY <2>8, <2>11 DEF Placed
    <3> QED  BY <1>1, <1>5, <2>1, <2>5, <2>8, <3>1 DEF RowsInOrder
  <2>13. ASSUME ~ halved', NEW x \in Waiting, x.seq <= f.seq PROVE HasRow(fillRows, x.id, x.seq)
    <3>1. x \in Fill /\ Genuine(x, logTopic)  BY <1>0, WaitingFills
    <3>2. AfterRows(fillRows, x)  BY <2>8
    <3>3. ASSUME Key(f) < Key(x) PROVE FALSE
      <4>1. f.seq <= x.seq /\ (f.seq = x.seq => ~ x.done /\ x.liquidity = "M" /\ (f.done \/ f.liquidity # "M"))
        BY <2>3, <3>1, <3>3, KeyOrder
      <4>2. x.seq \in Nat  BY <3>1 DEF Fill
      <4>3. f.seq = x.seq  BY <2>4, <2>13, <4>1, <4>2
      <4>4. PICK k \in 1 .. Len(logTopic) : FillOf(x, logTopic[k])  BY <3>1 DEF Genuine
      <4>5. Genuine(f, logTopic)  BY <1>0, <2>1, <2>2, <2>3 DEF AllGenuine
      <4>6. PICK j \in 1 .. Len(logTopic) : FillOf(f, logTopic[j])  BY <4>5 DEF Genuine
      <4>7. logTopic[k].seq = logTopic[j].seq  BY <4>3, <4>4, <4>6 DEF FillOf
      <4>8. logTopic[k] = logTopic[j]  BY <1>0, <4>7 DEF LogFine
      <4>9. logTopic[j].type = "match"  BY <4>1, <4>3, <4>4, <4>8 DEF FillOf
      <4>10. f.liquidity = "T"  BY <4>1, <4>3, <4>6, <4>9 DEF FillOf
      <4>11. Halves  BY <1>8, <2>3, <4>10 DEF Halves
      <4> QED  BY <1>1, <2>13, <4>11
    <3> QED  BY <2>1, <2>2, <2>3, <3>2, <3>3 DEF AfterRows
  <2>14. NothingLost'
    <3> SUFFICES ASSUME ~ halved', NEW k \in 1 .. Len(logTopic), logTopic[k].seq <= f.seq,
                        NEW i \in Ids, Wants(logTopic[k], i)
                 PROVE  Made(i, logTopic[k].seq)'
      BY <1>1, <2>5 DEF NothingLost
    <3>1. logTopic[k] \in LogEntry  BY <1>0
    <3>2. logTopic[k].seq \in Nat  BY <3>1 DEF LogEntry
    <3>a. logTopic[k].seq <= lastSeq  BY <1>0, <2>4, <2>9, <3>2
    <3>b. ~ halved  BY <1>1
    <3>3. logTopic[k].seq <= lastSeq /\ ~ halved  BY <3>a, <3>b
    <3>4. Made(i, logTopic[k].seq)  BY <3>3 DEF PipeInv, NothingLost
    <3>5. HasRow(fillRows, i, logTopic[k].seq)  BY <2>13, <3>4 DEF Made
    <3> QED  BY <1>1, <3>5 DEF Made
  <2> QED  BY <1>6, <2>10, <2>12, <2>14 DEF PipeInv
<1> QED  BY <1>7, <1>8

\* Rows that are settled are the fills they were.
LEMMA PassSettled ==
    ASSUME PipeInv, UNCHANGED maker, logTopic' = logTopic, halved' = halved,
           Len(fillRows') = Len(fillRows),
           \A n \in 1 .. Len(fillRows) :
              /\ fillRows'[n].id = fillRows[n].id /\ fillRows'[n].seq = fillRows[n].seq
              /\ fillRows'[n].offset = fillRows[n].offset /\ fillRows'[n].done = fillRows[n].done
              /\ fillRows'[n].liquidity = fillRows[n].liquidity
    PROVE  PipeInv'
<1>1. /\ readOffset' = readOffset /\ lastSeq' = lastSeq /\ makerFill' = makerFill
      /\ fillCh' = fillCh /\ batch' = batch
  BY DEF maker
<1>2. Waiting' = Waiting  BY <1>1, Zenon DEF Waiting, Sending
<1>3. PipeOrdered'
  <2>1. PipeOrdered  BY DEF PipeInv
  <2> QED  BY <1>1, <2>1, Zenon DEF PipeOrdered, Sending
<1>4. ReaderPlace'  BY <1>1 DEF PipeInv, ReaderPlace
<1>5. \A n \in 1 .. Len(fillRows) : Key(fillRows'[n]) = Key(fillRows[n])  BY DEF Key
<1>6. \A i, s : HasRow(fillRows', i, s) <=> HasRow(fillRows, i, s)  BY DEF HasRow
<1>7. RowsInOrder'
  <2>1. RowsInOrder  BY DEF PipeInv
  <2>2. Increasing(fillRows')  BY <1>5, <2>1 DEF Increasing, RowsInOrder
  <2>3. \A x \in Waiting : AfterRows(fillRows', x)  BY <1>5, <1>6, <2>1 DEF AfterRows, RowsInOrder
  <2>4. \A n \in 1 .. Len(fillRows') : Placed(fillRows'[n], logTopic, lastSeq)
    BY <2>1 DEF RowsInOrder, Placed
  <2> QED  BY <1>1, <1>2, <2>1, <2>2, <2>3, <2>4, Zenon DEF RowsInOrder
<1>8. NothingLost'
  <2>1. \A i, s : Made(i, s)' <=> Made(i, s)  BY <1>2, <1>6 DEF Made
  <2>2. NothingLost  BY DEF PipeInv
  <2> QED  BY <1>1, <2>1, <2>2 DEF NothingLost
<1> QED  BY <1>3, <1>4, <1>7, <1>8 DEF PipeInv

-----------------------------------------------------------------------------
(* What the log says, and the engine's steps.                              *)

SignedSum(T) == SumFunctionOnSet([i \in Ids |-> Signed(i, T[i])], Ids)

LEMMA SignedInt == ASSUME NEW i \in Ids, NEW z \in Int PROVE Signed(i, z) \in Int
  BY DEF Signed

\* U has z more than T for two orders of opposite sides.
AddsBoth(T, U, a, b, z) ==
    /\ T \in [Ids -> Nat] /\ U \in [Ids -> Nat] /\ a \in Ids /\ b \in Ids /\ a # b
    /\ Request[a].side # Request[b].side /\ z \in Nat
    /\ \A i \in Ids : U[i] = T[i] + (IF i \in {a, b} THEN z ELSE 0)

\* What one side buys the other sells.
LEMMA SignedStep ==
    ASSUME NEW T, NEW U, NEW a, NEW b, NEW z, AddsBoth(T, U, a, b, z)
    PROVE  SignedSum(U) = SignedSum(T)
<1>0. /\ T \in [Ids -> Nat] /\ U \in [Ids -> Nat] /\ a \in Ids /\ b \in Ids /\ a # b
      /\ Request[a].side # Request[b].side /\ z \in Nat
      /\ \A i \in Ids : U[i] = T[i] + (IF i \in {a, b} THEN z ELSE 0)
  BY DEF AddsBoth
<1>1. PICK F : F = [i \in Ids |-> Signed(i, T[i])]  OBVIOUS
<1>2. PICK G : G = [i \in Ids |-> Signed(i, U[i])]  OBVIOUS
<1>3. PICK H : H = [i \in Ids |-> IF i = a THEN G[i] ELSE F[i]]  OBVIOUS
<1>4. \A i \in Ids : F[i] \in Int /\ G[i] \in Int /\ H[i] \in Int
  BY <1>0, <1>1, <1>2, <1>3, SignedInt
<1>5. IsFiniteSet(Ids)  BY Constants
<1>6. \A x \in Ids \ {a} : F[x] = H[x]  BY <1>3
<1>7. \A x \in Ids \ {b} : H[x] = G[x]
  <2> TAKE x \in Ids \ {b}
  <2>1. CASE x = a  BY <1>3, <2>1
  <2>2. CASE x # a
    <3>1. U[x] = T[x]  BY <1>0, <2>2
    <3> QED  BY <1>1, <1>2, <1>3, <2>2, <3>1
  <2> QED  BY <2>1, <2>2
<1>8. SumFunctionOnSet(H, Ids) = SumFunctionOnSet(F, Ids) - F[a] + H[a]
  BY <1>0, <1>4, <1>5, <1>6, SumChange
<1>9. SumFunctionOnSet(G, Ids) = SumFunctionOnSet(H, Ids) - H[b] + G[b]
  BY <1>0, <1>4, <1>5, <1>7, SumChange
<1>10. /\ H[a] = G[a] /\ H[b] = F[b]
  BY <1>0, <1>3
<1>11. G[a] - F[a] = Signed(a, z) /\ G[b] - F[b] = Signed(b, z)
  <2>1. U[a] = T[a] + z /\ U[b] = T[b] + z  BY <1>0
  <2> QED  BY <1>0, <1>1, <1>2, <2>1 DEF Signed
<1>12. Signed(a, z) + Signed(b, z) = 0
  <2>1. Request[a].side \in {"buy", "sell"} /\ Request[b].side \in {"buy", "sell"}  BY <1>0, Constants
  <2> QED  BY <1>0, <2>1 DEF Signed
<1>13. SumFunctionOnSet(F, Ids) \in Int  BY <1>4, <1>5, SumInt
<1>14. SumFunctionOnSet(G, Ids) = SumFunctionOnSet(F, Ids)
  <2>1. Signed(a, z) \in Int /\ Signed(b, z) \in Int  BY <1>0, SignedInt
  <2>2. F[a] \in Int /\ F[b] \in Int /\ G[a] \in Int /\ G[b] \in Int  BY <1>0, <1>4
  <2>3. PICK x : x = SumFunctionOnSet(F, Ids)  OBVIOUS
  <2>4. PICK y : y = SumFunctionOnSet(G, Ids)  OBVIOUS
  <2>h. PICK h : h = SumFunctionOnSet(H, Ids)  OBVIOUS
  <2>p. PICK p : p = Signed(a, z)  OBVIOUS
  <2>q. PICK q : q = Signed(b, z)  OBVIOUS
  <2>5. x \in Int /\ h = x - F[a] + G[a]  BY <1>8, <1>10, <1>13, <2>3, <2>h
  <2>6. y = h - F[b] + G[b]  BY <1>9, <1>10, <2>4, <2>h
  <2>7. G[a] - F[a] = p /\ G[b] - F[b] = q /\ p + q = 0 /\ p \in Int /\ q \in Int
    BY <1>11, <1>12, <2>1, <2>p, <2>q
  <2>8. h = x + p  BY <2>2, <2>5, <2>7
  <2>9. y = h + q  BY <2>2, <2>5, <2>6, <2>7
  <2>10. y = x  BY <2>5, <2>7, <2>8, <2>9
  <2> QED  BY <2>3, <2>4, <2>10
<1> QED  BY <1>1, <1>2, <1>14 DEF SignedSum

TradedBy(t) == [i \in Ids |-> Traded(t, i)]
WorthBy(t) == [i \in Ids |-> Worth(t, i)]

LEMMA BalanceIs ==
    ASSUME NEW t
    PROVE  TradesBalance(t) <=> SignedSum(TradedBy(t)) = 0 /\ SignedSum(WorthBy(t)) = 0
<1>1. [i \in Ids |-> Signed(i, TradedBy(t)[i])] = [i \in Ids |-> Signed(i, Traded(t, i))]
  BY DEF TradedBy
<1>2. [i \in Ids |-> Signed(i, WorthBy(t)[i])] = [i \in Ids |-> Signed(i, Worth(t, i))]
  BY DEF WorthBy
<1> QED  BY <1>1, <1>2, Zenon DEF TradesBalance, SignedSum

\* A trade adds the same to its two sides.
LEMMA BalanceNext ==
    ASSUME NEW t, LogFine(t), NEW e \in LogEntry, e.seq = LastSeq(t) + 1, TradeOK(e), TradesBalance(t)
    PROVE  TradesBalance(Append(t, e))
<1>1. PICK u : u = Append(t, e)  OBVIOUS
<1>2. /\ LogFine(u)
      /\ \A i : Traded(u, i) = Traded(t, i) + SizeIn(i, e) /\ Worth(u, i) = Worth(t, i) + ValueIn(i, e)
  BY <1>1, LogNext
<1>3. \A i : /\ Traded(t, i) \in Nat /\ Worth(t, i) \in Nat /\ Traded(u, i) \in Nat /\ Worth(u, i) \in Nat
  BY <1>2, LogSums
<1>4. CASE e.type # "match"
  <2>1. \A i : SizeIn(i, e) = 0 /\ ValueIn(i, e) = 0  BY <1>4, NoTrade
  <2>2. \A i : Traded(u, i) = Traded(t, i) /\ Worth(u, i) = Worth(t, i)  BY <1>2, <1>3, <2>1
  <2> QED  BY <1>1, <2>2 DEF TradesBalance
<1>5. CASE e.type = "match"
  <2>1. e.taker \in Ids /\ e.maker \in Ids /\ e.size \in Nat /\ e.price \in Nat
    BY <1>5 DEF LogEntry
  <2>2. e.taker # e.maker /\ Request[e.taker].side # Request[e.maker].side  BY <1>5 DEF TradeOK
  <2>3. e.size * e.price \in Nat  BY <2>1, Product
  <2>4. \A i : /\ SizeIn(i, e) = IF i \in {e.taker, e.maker} THEN e.size ELSE 0
               /\ ValueIn(i, e) = IF i \in {e.taker, e.maker} THEN e.size * e.price ELSE 0
    BY <1>5 DEF SizeIn, ValueIn
  <2>5. /\ TradedBy(t) \in [Ids -> Nat] /\ TradedBy(u) \in [Ids -> Nat]
        /\ WorthBy(t) \in [Ids -> Nat] /\ WorthBy(u) \in [Ids -> Nat]
    BY <1>3 DEF TradedBy, WorthBy
  <2>6. \A i \in Ids : TradedBy(u)[i] = TradedBy(t)[i] + (IF i \in {e.taker, e.maker} THEN e.size ELSE 0)
    BY <1>2, <2>4 DEF TradedBy
  <2>7. \A i \in Ids : WorthBy(u)[i] = WorthBy(t)[i]
                          + (IF i \in {e.taker, e.maker} THEN e.size * e.price ELSE 0)
    BY <1>2, <2>4 DEF WorthBy
  <2>8. SignedSum(TradedBy(u)) = SignedSum(TradedBy(t))
    <3>1. AddsBoth(TradedBy(t), TradedBy(u), e.taker, e.maker, e.size)
      BY <2>1, <2>2, <2>5, <2>6 DEF AddsBoth
    <3> QED  BY <3>1, SignedStep
  <2>9. SignedSum(WorthBy(u)) = SignedSum(WorthBy(t))
    <3>1. AddsBoth(WorthBy(t), WorthBy(u), e.taker, e.maker, e.size * e.price)
      BY <2>1, <2>2, <2>3, <2>5, <2>7 DEF AddsBoth
    <3> QED  BY <3>1, SignedStep
  <2> QED  BY <1>1, <2>8, <2>9, BalanceIs
<1> QED  BY <1>4, <1>5

\* An entry tells what the engine's orders become.
Telling(e, lv, lw) ==
    \A i \in Ids :
        IF e.type = "done" /\ e.id = i
        THEN /\ lv[i].phase # "done" /\ lw[i].phase = "done"
             /\ e.reason = "filled" <=> Matching!UsedUp(lw[i], i)
        ELSE /\ lw[i].phase = "done" <=> lv[i].phase = "done"
             /\ lv[i].phase = "done" => lw[i] = lv[i]

Tells(t, lv) ==
    /\ t # << >> => t[1].seq = 1
    /\ DoneLogged(t, lv) /\ TradesBalance(t)

LEMMA TellsNext ==
    ASSUME NEW t, LogFine(t), NEW e \in LogEntry, e.seq = LastSeq(t) + 1, TradeOK(e),
           NEW lv, NEW lw, Tells(t, lv), Telling(e, lv, lw)
    PROVE  /\ LogFine(Append(t, e)) /\ Longer(t, Append(t, e)) /\ Tells(Append(t, e), lw)
           /\ LastSeq(Append(t, e)) = LastSeq(t) + 1
<1>1. PICK u : u = Append(t, e)  OBVIOUS
<1>2. LogFine(u) /\ LastSeq(u) = LastSeq(t) + 1  BY <1>1, LogNext
<1>3. /\ t \in Seq(LogEntry) /\ LastSeq(t) \in Nat /\ Len(t) \in Nat
      /\ u \in Seq(LogEntry) /\ Len(u) = Len(t) + 1 /\ u[Len(t) + 1] = e
      /\ \A k \in 1 .. Len(t) : u[k] = t[k]
  BY <1>1 DEF LogFine
<1>4. Grows(t, u)  BY <1>3 DEF Grows
<1>5. Longer(t, u)
  <2>1. \A k \in Len(t) + 1 .. Len(u) : u[k].seq > LastSeq(t)  BY <1>3
  <2>2. LastSeq(t) <= LastSeq(u)  BY <1>2, <1>3
  <2> QED  BY <1>4, <2>1, <2>2 DEF Longer
<1>6. u[1].seq = 1
  <2>1. CASE t = << >>
    <3>1. LastSeq(t) = 0 /\ Len(t) = 0  BY <2>1 DEF LastSeq
    <3> QED  BY <1>3, <3>1
  <2>2. CASE t # << >>
    <3>1. 1 \in 1 .. Len(t)  BY <1>3, <2>2
    <3> QED  BY <1>3, <2>2, <3>1 DEF Tells
  <2> QED  BY <2>1, <2>2
<1>7. \A k \in 1 .. Len(u) : k \in 1 .. Len(t) \/ k = Len(t) + 1  BY <1>3
<1>8. Len(t) + 1 \in 1 .. Len(u) /\ \A k \in 1 .. Len(t) : k \in 1 .. Len(u)  BY <1>3
<1>9. DoneLogged(u, lw)
  <2> SUFFICES ASSUME NEW i \in Ids
               PROVE  /\ lw[i].phase = "done" <=> \E k \in 1 .. Len(u) : u[k].type = "done" /\ u[k].id = i
                      /\ \A k \in 1 .. Len(u) : u[k].type = "done" /\ u[k].id = i =>
                            (u[k].reason = "filled" <=> Matching!UsedUp(lw[i], i))
    BY DEF DoneLogged
  <2>1. /\ lv[i].phase = "done" <=> \E k \in 1 .. Len(t) : t[k].type = "done" /\ t[k].id = i
        /\ \A k \in 1 .. Len(t) : t[k].type = "done" /\ t[k].id = i =>
              (t[k].reason = "filled" <=> Matching!UsedUp(lv[i], i))
    BY DEF Tells, DoneLogged
  <2>2. CASE e.type = "done" /\ e.id = i
    <3>1. /\ lv[i].phase # "done" /\ lw[i].phase = "done"
          /\ e.reason = "filled" <=> Matching!UsedUp(lw[i], i)
      BY <2>2 DEF Telling
    <3>2. \A k \in 1 .. Len(t) : ~ (t[k].type = "done" /\ t[k].id = i)  BY <2>1, <3>1
    <3> QED  BY <1>3, <1>7, <1>8, <2>2, <3>1, <3>2, Zenon
  <2>3. CASE ~ (e.type = "done" /\ e.id = i)
    <3>1. /\ lw[i].phase = "done" <=> lv[i].phase = "done"
          /\ lv[i].phase = "done" => lw[i] = lv[i]
      BY <2>3 DEF Telling
    <3> QED  BY <1>3, <1>7, <1>8, <2>1, <2>3, <3>1, Zenon
  <2> QED  BY <2>2, <2>3
<1>10. TradesBalance(u)  BY <1>1, BalanceNext DEF Tells
<1> QED  BY <1>1, <1>2, <1>5, <1>6, <1>9, <1>10 DEF Tells

LEMMA TellsIs == LogTells <=> Tells(logTopic, live)
  BY DEF LogTells, Tells

\* The steps of the engine make the log longer by what it tells.
LEMMA OpenTells ==
    ASSUME SettleInv, LogTells, NEW i \in Ids, OpenOrder(i)
    PROVE  LogFine(logTopic') /\ Longer(logTopic, logTopic') /\ Tells(logTopic', live')
<1>0. TypeOK /\ EngineOK  BY DEF SettleInv
<1>1. LogFine(logTopic) /\ live \in [Ids -> Lives]  BY <1>0 DEF EngineOK, TypeOK, Lives
<1>2. PICK e : e = [type |-> "open", seq |-> NextSeq, id |-> i]  OBVIOUS
<1>3. logTopic' = Append(logTopic, e)  BY <1>2 DEF OpenOrder
<1>4. e \in LogEntry /\ e.seq = LastSeq(logTopic) + 1 /\ e.type = "open"
  <2>1. LastSeq(logTopic) \in Nat  BY <1>1 DEF LogFine
  <2> QED  BY <1>2, <2>1, LastSeqDef DEF NextSeq, LogEntry
<1>5. /\ live' = [live EXCEPT ![i].phase = "open"] /\ live[i].phase \in {"sent", "taking"}
  BY DEF OpenOrder, Matching!Open, Matching!IsTaken
<1>6. live'[i].phase = "open" /\ \A j \in Ids : j # i => live'[j] = live[j]
  BY <1>1, <1>5 DEF Lives
<1>7. Telling(e, live, live')  BY <1>4, <1>5, <1>6 DEF Telling
<1>8. TradeOK(e)  BY <1>4, NoTrade
<1>9. Tells(logTopic, live)  BY TellsIs
<1> QED  BY <1>1, <1>3, <1>4, <1>7, <1>8, <1>9, TellsNext

LEMMA FinishTells ==
    ASSUME SettleInv, LogTells, NEW i \in Ids, FinishOrder(i)
    PROVE  LogFine(logTopic') /\ Longer(logTopic, logTopic') /\ Tells(logTopic', live')
<1>0. TypeOK /\ EngineOK  BY DEF SettleInv
<1>1. LogFine(logTopic) /\ live \in [Ids -> Lives]  BY <1>0 DEF EngineOK, TypeOK, Lives
<1>2. PICK e : e = DoneEntry(i, NextSeq, Matching!UsedUp(live[i], i))  OBVIOUS
<1>3. logTopic' = Append(logTopic, e)  BY <1>2 DEF FinishOrder
<1>4. e \in LogEntry /\ e.seq = LastSeq(logTopic) + 1 /\ e.type = "done" /\ e.id = i
  <2>1. LastSeq(logTopic) \in Nat  BY <1>1 DEF LogFine
  <2> QED  BY <1>2, <2>1, LastSeqDef DEF NextSeq, LogEntry, DoneEntry
<1>5. e.reason = "filled" <=> Matching!UsedUp(live[i], i)  BY <1>2 DEF DoneEntry
<1>6. live' = [live EXCEPT ![i].phase = "done"] /\ live[i].phase \in {"sent", "taking", "open"}
  BY DEF FinishOrder, Matching!Finish, Matching!IsTaken
<1>7. /\ live'[i].phase = "done" /\ live'[i].size = live[i].size /\ live'[i].funds = live[i].funds
      /\ \A j \in Ids : j # i => live'[j] = live[j]
  BY <1>1, <1>6 DEF Lives
<1>8. Matching!UsedUp(live'[i], i) <=> Matching!UsedUp(live[i], i)  BY <1>7 DEF Matching!UsedUp
<1>9. Telling(e, live, live')  BY <1>4, <1>5, <1>6, <1>7, <1>8 DEF Telling
<1>10. TradeOK(e)  BY <1>4, NoTrade
<1>11. Tells(logTopic, live)  BY TellsIs
<1> QED  BY <1>1, <1>3, <1>4, <1>9, <1>10, <1>11, TellsNext

LEMMA LongerTwice ==
    ASSUME NEW t \in Seq(LogEntry), NEW u \in Seq(LogEntry), NEW v, LogFine(t), LogFine(u), LogFine(v),
           Longer(t, u), Longer(u, v)
    PROVE  Longer(t, v)
<1>1. /\ Len(t) \in Nat /\ Len(u) \in Nat /\ Len(v) \in Nat /\ v \in Seq(LogEntry)
      /\ Len(t) <= Len(u) /\ Len(u) <= Len(v)
      /\ \A k \in 1 .. Len(t) : u[k] = t[k]
      /\ \A k \in 1 .. Len(u) : v[k] = u[k]
  BY DEF Longer, Grows
<1>2. Grows(t, v)  BY GrowsTwice DEF Longer
<1>3. LastSeq(t) \in Nat /\ LastSeq(u) \in Nat /\ LastSeq(v) \in Nat
      /\ LastSeq(t) <= LastSeq(u) /\ LastSeq(u) <= LastSeq(v)
  BY DEF Longer, LogFine
<1>4. ASSUME NEW k \in Len(t) + 1 .. Len(u)
      PROVE  u[k].seq > LastSeq(t) \/ \E l \in 1 .. Len(t) : u[k] = t[l]
  BY DEF Longer
<1>5. ASSUME NEW k \in Len(t) + 1 .. Len(v)
      PROVE  v[k].seq > LastSeq(t) \/ \E l \in 1 .. Len(t) : v[k] = t[l]
  <2>1. CASE k \in 1 .. Len(u)
    <3>1. k \in Len(t) + 1 .. Len(u) /\ v[k] = u[k]  BY <1>1, <2>1
    <3> QED  BY <1>4, <3>1
  <2>2. CASE k \in Len(u) + 1 .. Len(v)
    <3>1. v[k].seq > LastSeq(u) \/ \E l \in 1 .. Len(u) : v[k] = u[l]  BY <2>2 DEF Longer
    <3>2. CASE v[k].seq > LastSeq(u)
      <4>1. v[k] \in LogEntry  BY <1>1
      <4>2. v[k].seq \in Nat  BY <4>1 DEF LogEntry
      <4> QED  BY <1>3, <3>2, <4>2
    <3>3. ASSUME NEW l \in 1 .. Len(u), v[k] = u[l]
          PROVE  v[k].seq > LastSeq(t) \/ \E j \in 1 .. Len(t) : v[k] = t[j]
      <4>1. CASE l \in 1 .. Len(t)  BY <1>1, <3>3, <4>1
      <4>2. CASE l \in Len(t) + 1 .. Len(u)  BY <1>4, <3>3, <4>2
      <4> QED  BY <1>1, <4>1, <4>2
    <3> QED  BY <3>1, <3>2, <3>3
  <2> QED  BY <1>1, <2>1, <2>2
<1> QED  BY <1>2, <1>3, <1>5 DEF Longer

LEMMA RepeatTells ==
    ASSUME SettleInv, LogTells, RepeatLogs
    PROVE  LogFine(logTopic') /\ Longer(logTopic, logTopic') /\ Tells(logTopic', live')
<1>0. TypeOK /\ EngineOK  BY DEF SettleInv
<1>1. PICK t : t = logTopic  OBVIOUS
<1>2. PICK n \in DOMAIN t : logTopic' = t \o SubSeq(t, n, Len(t))
  BY <1>1 DEF RepeatLogs
<1>3. PICK u : u = logTopic'  OBVIOUS
<1>4. LogFine(t) /\ t \in Seq(LogEntry) /\ Len(t) \in Nat /\ n \in 1 .. Len(t) /\ t # << >>
  BY <1>0, <1>1, <1>2 DEF EngineOK, TypeOK
<1>5. /\ LogFine(u) /\ LastSeq(u) = LastSeq(t)
      /\ \A j : Traded(u, j) = Traded(t, j) /\ Worth(u, j) = Worth(t, j)
  BY <1>2, <1>3, <1>4, LogRepeat
<1>6. PICK q : q = SubSeq(t, n, Len(t))  OBVIOUS
<1>7. /\ q \in Seq(LogEntry) /\ Len(q) = Len(t) - n + 1 /\ Len(q) \in Nat
      /\ \A k \in 1 .. Len(q) : q[k] = t[n + k - 1]
  BY <1>4, <1>6
<1>8. u = t \o q  BY <1>2, <1>3, <1>6
<1>9. /\ u \in Seq(LogEntry) /\ Len(u) = Len(t) + Len(q)
      /\ \A k \in 1 .. Len(t) : u[k] = t[k]
      /\ \A k \in 1 .. Len(q) : u[Len(t) + k] = q[k]
  <2>1. t \in Seq(LogEntry) /\ q \in Seq(LogEntry)  BY <1>4, <1>7
  <2>2. u \in Seq(LogEntry) /\ Len(u) = Len(t) + Len(q)  BY <1>8, <2>1
  <2>3. \A k \in 1 .. Len(t) : u[k] = t[k]  BY <1>8, <2>1
  <2>4. \A k \in 1 .. Len(q) : u[Len(t) + k] = q[k]  BY <1>8, <2>1
  <2> QED  BY <2>2, <2>3, <2>4
<1>10. ASSUME NEW k \in Len(t) + 1 .. Len(u) PROVE \E l \in 1 .. Len(t) : u[k] = t[l]
  <2>1. k - Len(t) \in 1 .. Len(q) /\ Len(t) + (k - Len(t)) = k  BY <1>4, <1>7, <1>9
  <2>2. u[k] = q[k - Len(t)]  BY <1>9, <2>1
  <2>3. q[k - Len(t)] = t[n + (k - Len(t)) - 1]  BY <1>7, <2>1
  <2>4. n + (k - Len(t)) - 1 \in 1 .. Len(t)  BY <1>4, <1>7, <2>1
  <2> QED  BY <2>2, <2>3, <2>4
<1>11. Longer(t, u)
  <2>1. Grows(t, u)  BY <1>4, <1>7, <1>9 DEF Grows
  <2>2. LastSeq(t) <= LastSeq(u)  BY <1>4, <1>5 DEF LogFine
  <2> QED  BY <1>10, <2>1, <2>2 DEF Longer
<1>12. Tells(t, live) /\ live' = live  BY <1>1, TellsIs DEF RepeatLogs
<1>13. \A k \in 1 .. Len(t) : k \in 1 .. Len(u) /\ u[k] = t[k]  BY <1>4, <1>7, <1>9
<1>14. \A k \in 1 .. Len(u) : \E l \in 1 .. Len(t) : u[k] = t[l]
  <2> TAKE k \in 1 .. Len(u)
  <2>1. k \in 1 .. Len(t) \/ k \in Len(t) + 1 .. Len(u)  BY <1>4, <1>7, <1>9
  <2> QED  BY <1>10, <1>13, <2>1
<1>15. DoneLogged(u, live)
  <2>1. DoneLogged(t, live)  BY <1>12 DEF Tells
  <2>2. \A i : (\E k \in 1 .. Len(u) : u[k].type = "done" /\ u[k].id = i)
                 <=> (\E k \in 1 .. Len(t) : t[k].type = "done" /\ t[k].id = i)
    BY <1>13, <1>14, Zenon
  <2>3. \A i \in Ids : \A k \in 1 .. Len(u) : u[k].type = "done" /\ u[k].id = i =>
              (u[k].reason = "filled" <=> Matching!UsedUp(live[i], i))
    <3> TAKE i \in Ids
    <3> TAKE k \in 1 .. Len(u)
    <3>1. PICK l \in 1 .. Len(t) : u[k] = t[l]  BY <1>14
    <3>2. t[l].type = "done" /\ t[l].id = i => (t[l].reason = "filled" <=> Matching!UsedUp(live[i], i))
      BY <2>1, Zenon DEF DoneLogged
    <3> QED  BY <3>1, <3>2, Zenon
  <2> QED  BY <2>1, <2>2, <2>3, Zenon DEF DoneLogged
<1>16. TradesBalance(u)  BY <1>5, <1>12 DEF Tells, TradesBalance
<1>17. u[1].seq = 1
  <2>1. 1 \in 1 .. Len(t)  BY <1>4
  <2> QED  BY <1>4, <1>12, <1>13, <2>1 DEF Tells
<1> QED  BY <1>1, <1>3, <1>5, <1>11, <1>12, <1>15, <1>16, <1>17 DEF Tells

LEMMA MatchTells ==
    ASSUME SettleInv, LogTells, NEW t \in Ids, NEW m \in Ids, MatchOrders(t, m)
    PROVE  LogFine(logTopic') /\ Longer(logTopic, logTopic') /\ Tells(logTopic', live')
<1>0. TypeOK /\ EngineOK  BY DEF SettleInv
<1>1. LogFine(logTopic) /\ logTopic \in Seq(LogEntry) /\ live \in [Ids -> Lives]
  BY <1>0 DEF EngineOK, TypeOK, Lives
<1>2. PICK z : z = Matching!TradeSize(t, m)  OBVIOUS
<1>3. PICK p : p = Request[m].price  OBVIOUS
<1>4. /\ t # m /\ Request[t].side # Request[m].side
      /\ z \in Nat /\ p \in Nat /\ z <= Request[m].size
      /\ live[m].phase = "open"
  <2>1. Matching!CanMatch(t, m)  BY DEF MatchOrders
  <2> QED  BY <1>0, <1>2, <1>3, <2>1, TradeFacts
<1>5. live[t].phase \in {"sent", "taking"}
  BY DEF MatchOrders, Matching!CanMatch, Matching!IsTaken
<1>6. PICK e : e = [type |-> "match", seq |-> NextSeq, taker |-> t, maker |-> m, size |-> z, price |-> p]
  OBVIOUS
<1>7. PICK b : b = Matching!MakerAfter(t, m)  OBVIOUS
<1>8. PICK used \in BOOLEAN : used <=> Matching!UsedUp(b, m)  OBVIOUS
<1>9. PICK d : d = DoneEntry(m, NextSeq + 1, TRUE)  OBVIOUS
<1>10. logTopic' = logTopic \o <<e>> \o (IF used THEN <<d>> ELSE << >>)
  BY <1>2, <1>3, <1>6, <1>7, <1>8, <1>9 DEF MatchOrders
<1>11. /\ e \in LogEntry /\ d \in LogEntry /\ TradeOK(e) /\ e.seq = LastSeq(logTopic) + 1
       /\ d.seq = LastSeq(logTopic) + 2 /\ d.type = "done" /\ d.id = m /\ d.reason = "filled"
       /\ LastSeq(logTopic) \in Nat
  <2>1. LastSeq(logTopic) \in Nat /\ NextSeq = LastSeq(logTopic) + 1
    BY <1>1, LastSeqDef DEF LogFine, NextSeq
  <2>2. e \in LogEntry /\ e.seq = LastSeq(logTopic) + 1  BY <1>4, <1>6, <2>1 DEF LogEntry
  <2>3. /\ d \in LogEntry /\ d.seq = LastSeq(logTopic) + 2 /\ d.type = "done"
        /\ d.id = m /\ d.reason = "filled"
    BY <1>9, <2>1 DEF LogEntry, DoneEntry
  <2>4. TradeOK(e)  BY <1>3, <1>4, <1>6 DEF TradeOK
  <2> QED  BY <2>1, <2>2, <2>3, <2>4
<1>12. PICK l : l = Append(logTopic, e)  OBVIOUS
<1>13. l \in Seq(LogEntry)  BY <1>1, <1>11, <1>12, GrowsAppend
<1>14. logTopic' = IF used THEN Append(l, d) ELSE l
  <2>1. logTopic \o <<e>> = l  BY <1>1, <1>11, <1>12
  <2>2. CASE used
    <3>1. l \o <<d>> = Append(l, d)  BY <1>11, <1>13
    <3> QED  BY <1>10, <2>1, <2>2, <3>1
  <2>3. CASE ~ used
    <3>1. l \o << >> = l  BY <1>13
    <3> QED  BY <1>10, <2>1, <2>3, <3>1
  <2> QED  BY <2>2, <2>3
<1>15. live' = [live EXCEPT ![t] = [Matching!AfterTrade(t, z, p) EXCEPT !.phase = "taking"],
                            ![m] = [b EXCEPT !.phase = IF used THEN "done" ELSE @]]
  BY <1>2, <1>3, <1>7, <1>8 DEF MatchOrders, Matching!Match
<1>16. PICK a : a = Matching!AfterTrade(t, z, p)  OBVIOUS
<1>17. a = LeftOver(t, live[t], z, p) /\ b = LeftOver(m, live[m], z, p)
  BY <1>2, <1>3, <1>7, <1>16 DEF Matching!AfterTrade, Matching!MakerAfter, LeftOver
<1>18. /\ DOMAIN a = {"size", "funds", "phase"} /\ DOMAIN b = {"size", "funds", "phase"}
       /\ b.phase = "open"
  <2>1. live[t] \in Lives /\ live[m] \in Lives  BY <1>1
  <2> QED  BY <1>4, <1>17, <2>1 DEF LeftOver, Lives
<1>19. /\ live'[t] = [a EXCEPT !.phase = "taking"]
       /\ live'[m] = [b EXCEPT !.phase = IF used THEN "done" ELSE @]
       /\ \A j \in Ids : j # t /\ j # m => live'[j] = live[j]
  BY <1>1, <1>4, <1>15, <1>16
<1>20. /\ live'[t].phase = "taking" /\ live'[m].phase = IF used THEN "done" ELSE "open"
       /\ live'[m].size = b.size /\ live'[m].funds = b.funds
  BY <1>18, <1>19
<1>21. Matching!UsedUp(live'[m], m) <=> used  BY <1>8, <1>20 DEF Matching!UsedUp
<1>22. Tells(logTopic, live)  BY TellsIs
<1>23. e.type = "match"  BY <1>6
<1>24. CASE ~ used
  <2>1. Telling(e, live, live')  BY <1>4, <1>5, <1>19, <1>20, <1>23, <1>24 DEF Telling
  <2> QED  BY <1>1, <1>11, <1>12, <1>14, <1>22, <1>24, <2>1, TellsNext
<1>25. CASE used
  <2>1. PICK lm : lm = [j \in Ids |-> IF j = m THEN b ELSE live'[j]]  OBVIOUS
  <2>2. Telling(e, live, lm)  BY <1>4, <1>5, <1>18, <1>19, <1>20, <1>23, <2>1 DEF Telling
  <2>3. Telling(d, lm, live')  BY <1>11, <1>18, <1>20, <1>21, <1>25, <2>1 DEF Telling
  <2>4. LogFine(l) /\ Longer(logTopic, l) /\ Tells(l, lm) /\ LastSeq(l) = LastSeq(logTopic) + 1
    BY <1>1, <1>11, <1>12, <1>22, <2>2, TellsNext
  <2>5. PICK u : u = Append(l, d)  OBVIOUS
  <2>6. d.seq = LastSeq(l) + 1  BY <1>11, <2>4
  <2>7. TradeOK(d)  BY <1>11, NoTrade
  <2>8. LogFine(u) /\ Longer(l, u) /\ Tells(u, live')
    BY <1>11, <2>3, <2>4, <2>5, <2>6, <2>7, TellsNext
  <2>9. Longer(logTopic, u)  BY <1>1, <1>13, <2>4, <2>8, LongerTwice
  <2> QED  BY <1>14, <1>25, <2>5, <2>8, <2>9
<1> QED  BY <1>24, <1>25

-----------------------------------------------------------------------------
(* An order's status.                                                      *)

\* The settled Done rows of an order are the same.
SameDone(r, q, i) ==
    /\ \A n : DoneRow(q, i, n) <=> DoneRow(r, i, n)
    /\ \A n : DoneRow(r, i, n) => q[n].reason = r[n].reason

LEMMA RowNumber == ASSUME NEW r, NEW i, NEW n, DoneRow(r, i, n) PROVE n \in 1 .. Len(r)
  BY DEF DoneRow

LEMMA StatusKept ==
    ASSUME NEW r, NEW q, NEW o, NEW p, NEW i, StatusTells(r, o, i), SameDone(r, q, i),
           p[i] = o[i] \/ (p[i].status \notin Final /\ o[i].status \notin Final)
    PROVE  StatusTells(q, p, i)
<1>1. (\E n \in 1 .. Len(q) : DoneRow(q, i, n)) <=> (\E n \in 1 .. Len(r) : DoneRow(r, i, n))
  BY RowNumber, Zenon DEF SameDone
<1>2. \A x : (\E n \in 1 .. Len(q) : DoneRow(q, i, n) /\ q[n].reason = x)
                <=> (\E n \in 1 .. Len(r) : DoneRow(r, i, n) /\ r[n].reason = x)
  <2> TAKE x
  <2>1. ASSUME NEW n \in 1 .. Len(q), DoneRow(q, i, n), q[n].reason = x
        PROVE  \E m \in 1 .. Len(r) : DoneRow(r, i, m) /\ r[m].reason = x
    <3>1. DoneRow(r, i, n) /\ r[n].reason = x  BY <2>1, Zenon DEF SameDone
    <3> QED  BY <3>1, RowNumber, Zenon
  <2>2. ASSUME NEW n \in 1 .. Len(r), DoneRow(r, i, n), r[n].reason = x
        PROVE  \E m \in 1 .. Len(q) : DoneRow(q, i, m) /\ q[m].reason = x
    <3>1. DoneRow(q, i, n) /\ q[n].reason = x  BY <2>2, Zenon DEF SameDone
    <3> QED  BY <3>1, RowNumber, Zenon
  <2> QED  BY <2>1, <2>2, Zenon
<1>3. CASE p[i] = o[i]
  <2>1. /\ p[i].status \in Final <=> \E n \in 1 .. Len(q) : DoneRow(q, i, n)
    BY <1>1, <1>3, Zenon DEF StatusTells
  <2>2. /\ p[i].status = "filled" =>
             \E n \in 1 .. Len(q) : DoneRow(q, i, n) /\ q[n].reason = "filled"
        /\ p[i].status \in {"cancelled", "partial"} =>
             \E n \in 1 .. Len(q) : DoneRow(q, i, n) /\ q[n].reason = "cancelled"
    BY <1>2, <1>3, Zenon DEF StatusTells
  <2> QED  BY <1>3, <2>1, <2>2, Zenon DEF StatusTells
<1>4. CASE p[i].status \notin Final /\ o[i].status \notin Final
  <2>1. ~ \E n \in 1 .. Len(q) : DoneRow(q, i, n)  BY <1>1, <1>4, Zenon DEF StatusTells
  <2>2. p[i].status # "filled" /\ p[i].status # "cancelled" /\ p[i].status # "partial"
    BY <1>4 DEF Final
  <2> QED  BY <1>4, <2>1, <2>2, Zenon DEF StatusTells
<1> QED  BY <1>3, <1>4

\* Steps that settle nothing and end no order.
LEMMA StatusFrame ==
    ASSUME StatusInv, \A i \in Ids : SameDone(fillRows, fillRows', i),
           \A i \in Ids : order'[i] = order[i]
                          \/ (order'[i].status \notin Final /\ order[i].status \notin Final)
    PROVE  StatusInv'
<1>1. PICK r : r = fillRows  OBVIOUS
<1>2. PICK q : q = fillRows'  OBVIOUS
<1>3. PICK o : o = order  OBVIOUS
<1>4. PICK p : p = order'  OBVIOUS
<1>5. \A i \in Ids : StatusTells(q, p, i)
  <2> TAKE i \in Ids
  <2>1. StatusTells(r, o, i)  BY <1>1, <1>3 DEF StatusInv
  <2>2. SameDone(r, q, i)  BY <1>1, <1>2
  <2>3. p[i] = o[i] \/ (p[i].status \notin Final /\ o[i].status \notin Final)  BY <1>3, <1>4
  <2> QED  BY <2>1, <2>2, <2>3, StatusKept
<1> QED  BY <1>2, <1>4, <1>5 DEF StatusInv

LEMMA SameRows == ASSUME fillRows' = fillRows PROVE \A i \in Ids : SameDone(fillRows, fillRows', i)
  BY DEF SameDone

LEMMA StatusFlush ==
    ASSUME SettleInv, StatusInv, Flush \/ FlushUnsure PROVE StatusInv'
<1>1. TypeOK /\ FillsGenuine /\ RowsUnique /\ AddFills(batch) /\ order' = order
  BY DEF SettleInv, Flush, FlushUnsure
<1>2. PICK r : r = fillRows  OBVIOUS
<1>3. PICK q : q = fillRows'  OBVIOUS
<1>4. /\ Len(q) \in Nat /\ Len(r) \in Nat /\ Len(r) <= Len(q)
      /\ \A n \in 1 .. Len(r) : q[n] = r[n]
      /\ \A n \in Len(r) + 1 .. Len(q) : ~ q[n].settled
  BY <1>1, <1>2, <1>3, AddFillsRows
<1>5. ASSUME NEW i \in Ids PROVE SameDone(r, q, i)
  <2>1. ASSUME NEW n, DoneRow(q, i, n) PROVE DoneRow(r, i, n)
    <3>1. n \in 1 .. Len(q) /\ q[n].settled  BY <2>1 DEF DoneRow
    <3>2. n \in 1 .. Len(r)
      <4>1. n \in 1 .. Len(r) \/ n \in Len(r) + 1 .. Len(q)  BY <1>4, <3>1
      <4> QED  BY <1>4, <3>1, <4>1
    <3> QED  BY <1>4, <2>1, <3>2 DEF DoneRow
  <2>2. ASSUME NEW n, DoneRow(r, i, n) PROVE DoneRow(q, i, n) /\ q[n].reason = r[n].reason
    <3>1. n \in 1 .. Len(r) /\ n \in 1 .. Len(q)  BY <1>4, <2>2 DEF DoneRow
    <3> QED  BY <1>4, <2>2, <3>1 DEF DoneRow
  <2> QED  BY <2>1, <2>2 DEF SameDone
<1>6. \A i \in Ids : SameDone(fillRows, fillRows', i)  BY <1>2, <1>3, <1>5
<1> QED  BY <1>1, <1>6, StatusFrame

LEMMA StatusPlace ==
    ASSUME SettleInv, StatusInv, NEW i \in Ids, PlaceOrder(i) PROVE StatusInv'
<1>1. /\ order[i].status = "none" /\ order' = [order EXCEPT ![i].status = "new"] /\ fillRows' = fillRows
  BY DEF PlaceOrder
<1>2. order \in [Ids -> OrderRow] /\ order[i] \in OrderRow  BY DEF SettleInv, TypeOK
<1>3. order'[i].status = "new" /\ \A j \in Ids : j # i => order'[j] = order[j]
  BY <1>1, <1>2 DEF OrderRow
<1>4. \A j \in Ids : order'[j] = order[j]
                     \/ (order'[j].status \notin Final /\ order[j].status \notin Final)
  BY <1>1, <1>3 DEF Final
<1> QED  BY <1>1, <1>4, SameRows, StatusFrame

LEMMA StatusOpen ==
    ASSUME SettleInv, StatusInv, ReadOpen PROVE StatusInv'
<1>0. TypeOK  BY DEF SettleInv
<1>1. PICK k : k = Reading.id  OBVIOUS
<1>2. /\ order' = [order EXCEPT ![k].status = IF @ = "new" THEN "open" ELSE @] /\ fillRows' = fillRows
  BY <1>1 DEF ReadOpen
<1>3. order \in [Ids -> OrderRow]  BY <1>0 DEF TypeOK
<1>4. \A j \in Ids : order'[j] = order[j]
                     \/ (order'[j].status \notin Final /\ order[j].status \notin Final)
  <2> TAKE j \in Ids
  <2>1. order[j] \in OrderRow  BY <1>3
  <2>2. CASE j # k  BY <1>2, <1>3, <2>2
  <2>3. CASE j = k
    <3>1. order'[j] = [order[j] EXCEPT !.status = IF order[j].status = "new" THEN "open" ELSE order[j].status]
      BY <1>2, <1>3, <2>3
    <3>2. CASE order[j].status = "new"
      <4>1. order'[j].status = "open"  BY <2>1, <3>1, <3>2 DEF OrderRow
      <4> QED  BY <3>2, <4>1 DEF Final
    <3>3. CASE order[j].status # "new"
      <4>1. order'[j] = order[j]  BY <2>1, <3>1, <3>3 DEF OrderRow
      <4> QED  BY <4>1
    <3> QED  BY <3>2, <3>3
  <2> QED  BY <2>2, <2>3
<1> QED  BY <1>2, <1>4, SameRows, StatusFrame

LEMMA DoneReason ==
    ASSUME SettleInv, NEW n \in 1 .. Len(fillRows), fillRows[n].done
    PROVE  fillRows[n].reason \in {"filled", "cancelled"}
<1>1. TypeOK /\ FillsGenuine /\ LogFine(logTopic)  BY DEF SettleInv, EngineOK
<1>2. PICK k \in 1 .. Len(logTopic) : FillOf(fillRows[n], logTopic[k])
  BY <1>1 DEF FillsGenuine, AllGenuine, Genuine
<1>3. PICK e : e = logTopic[k]  OBVIOUS
<1>4. e \in LogEntry  BY <1>1, <1>3 DEF LogFine
<1>5. e.type = "done" /\ fillRows[n].reason = e.reason  BY <1>2, <1>3 DEF FillOf
<1> QED  BY <1>4, <1>5 DEF LogEntry

\* What ExecuteFill makes of an order and its rows R, its trades T among them.
Settles(i, R, T, s, e, f) ==
    /\ R = ToSettle(i) /\ T = {n \in R : ~ fillRows[n].done}
    /\ e = order[i].executed + Values(T) /\ f = order[i].filled + Sizes(T)
    /\ order[i].status \notin {"none"} \cup Final
    /\ order' = [order EXCEPT ![i] = [status |-> s, executed |-> e, filled |-> f]]
    /\ R \ T = {} => s = order[i].status
    /\ R \ T # {} => \E n \in R \ T : IF fillRows[n].reason = "filled" THEN s = "filled"
                                      ELSE IF f = 0 THEN s = "cancelled" ELSE s = "partial"
    /\ fillRows' = Marked(R)
    /\ bills' = bills \o BillsOf(Request[i], T)
                  \o (IF R \ T = {} THEN << >> ELSE ReleaseBill(Request[i], e, f))

LEMMA SettleStep ==
    ASSUME NEW i \in Ids, ExecuteFill(i)
    PROVE  \E R, T, s, e, f : Settles(i, R, T, s, e, f)
<1>1. PICK R : R = ToSettle(i)  OBVIOUS
<1>2. PICK T : T = {n \in R : ~ fillRows[n].done}  OBVIOUS
<1>4. PICK e : e = order[i].executed + Values(T)  OBVIOUS
<1>5. PICK f : f = order[i].filled + Sizes(T)  OBVIOUS
<1>6. PICK n : n = CHOOSE m \in R \ T : TRUE  OBVIOUS
<1>7. PICK s : s = IF R \ T = {} THEN order[i].status
                   ELSE IF fillRows[n].reason = "filled" THEN "filled" ELSE IF f = 0 THEN "cancelled" ELSE "partial"
  OBVIOUS
<1>8. order' = [order EXCEPT ![i] = [status |-> s, executed |-> e, filled |-> f]]
  BY <1>1, <1>2, <1>4, <1>5, <1>6, <1>7, Zenon DEF ExecuteFill
<1>9. R \ T # {} => n \in R \ T  BY <1>6
<1>10. order[i].status \notin {"none"} \cup Final  BY DEF ExecuteFill
<1>11. fillRows' = Marked(R)  BY <1>1, Zenon DEF ExecuteFill, Marked
<1>12. bills' = bills \o BillsOf(Request[i], T)
                  \o (IF R \ T = {} THEN << >> ELSE ReleaseBill(Request[i], e, f))
  BY <1>1, <1>2, <1>4, <1>5, Zenon DEF ExecuteFill
<1>13. R \ T = {} => s = order[i].status  BY <1>7, Zenon
<1>14. R \ T # {} => \E m \in R \ T : IF fillRows[m].reason = "filled" THEN s = "filled"
                                      ELSE IF f = 0 THEN s = "cancelled" ELSE s = "partial"
  BY <1>7, <1>9, Zenon
<1>15. Settles(i, R, T, s, e, f)
  BY <1>1, <1>2, <1>4, <1>5, <1>8, <1>10, <1>11, <1>12, <1>13, <1>14, Zenon DEF Settles
<1> QED  BY <1>15

LEMMA MarkedRows ==
    ASSUME TypeOK, NEW i, NEW R \in SUBSET Unsettled(i), fillRows' = Marked(R)
    PROVE  /\ Len(fillRows') = Len(fillRows) /\ Len(fillRows) \in Nat
           /\ \A n \in R : n \in 1 .. Len(fillRows) /\ fillRows[n].id = i /\ ~ fillRows[n].settled
           /\ \A n \in 1 .. Len(fillRows) :
                 /\ fillRows'[n].id = fillRows[n].id /\ fillRows'[n].seq = fillRows[n].seq
                 /\ fillRows'[n].offset = fillRows[n].offset /\ fillRows'[n].done = fillRows[n].done
                 /\ fillRows'[n].liquidity = fillRows[n].liquidity
                 /\ fillRows'[n].reason = fillRows[n].reason
                 /\ fillRows'[n].settled <=> (fillRows[n].settled \/ n \in R)
<1>0. /\ fillRows \in Seq(Fill) /\ Len(fillRows) \in Nat /\ DOMAIN fillRows = 1 .. Len(fillRows)
  BY DEF TypeOK
<1>1. \A n \in R : n \in 1 .. Len(fillRows) /\ fillRows[n].id = i /\ ~ fillRows[n].settled
  BY <1>0 DEF Unsettled
<1>2. ASSUME NEW n \in 1 .. Len(fillRows)
      PROVE  /\ fillRows'[n] \in Fill
             /\ fillRows'[n].id = fillRows[n].id /\ fillRows'[n].seq = fillRows[n].seq
             /\ fillRows'[n].offset = fillRows[n].offset /\ fillRows'[n].done = fillRows[n].done
             /\ fillRows'[n].liquidity = fillRows[n].liquidity
             /\ fillRows'[n].reason = fillRows[n].reason
             /\ fillRows'[n].settled <=> (fillRows[n].settled \/ n \in R)
  <2>1. PICK f : f = fillRows[n]  OBVIOUS
  <2>2. f \in Fill  BY <1>0, <2>1
  <2>3. CASE n \in R
    <3>1. PICK g : g = [f EXCEPT !.settled = TRUE]  OBVIOUS
    <3>2. fillRows'[n] = g  BY <1>0, <2>1, <2>3, <3>1 DEF Marked
    <3>3. /\ g \in Fill /\ g.id = f.id /\ g.seq = f.seq /\ g.done = f.done /\ g.offset = f.offset
          /\ g.liquidity = f.liquidity /\ g.reason = f.reason /\ g.settled = TRUE
      BY <2>2, <3>1 DEF Fill
    <3> QED  BY <2>1, <2>2, <2>3, <3>2, <3>3
  <2>4. CASE n \notin R
    <3>1. fillRows'[n] = f  BY <1>0, <2>1, <2>4 DEF Marked
    <3> QED  BY <2>1, <2>2, <2>4, <3>1
  <2> QED  BY <2>3, <2>4
<1>3. Len(fillRows') = Len(fillRows)
  <2>1. PICK q : q = fillRows'  OBVIOUS
  <2>2. DOMAIN q = 1 .. Len(fillRows) /\ q = [n \in 1 .. Len(fillRows) |-> q[n]]
    BY <1>0, <2>1 DEF Marked
  <2>3. \A n \in 1 .. Len(fillRows) : q[n] \in Fill  BY <1>2, <2>1
  <2>4. q \in [1 .. Len(fillRows) -> Fill]  BY <2>2, <2>3
  <2>5. q \in Seq(Fill)  BY <1>0, <2>4
  <2>6. Len(q) = Len(fillRows)  BY <1>0, <2>2, <2>5
  <2> QED  BY <2>1, <2>6
<1> QED  BY <1>0, <1>1, <1>2, <1>3

LEMMA StatusSettle ==
    ASSUME SettleInv, StatusInv, NEW i \in Ids, NEW R, NEW T, NEW s, NEW e, NEW f,
           Settles(i, R, T, s, e, f)
    PROVE  StatusInv'
<1>0. TypeOK  BY DEF SettleInv
<1>1. R \in SUBSET Unsettled(i) /\ fillRows' = Marked(R)  BY DEF Settles, ToSettle, FirstOf
<1>2. PICK r : r = fillRows  OBVIOUS
<1>3. PICK q : q = fillRows'  OBVIOUS
<1>4. /\ Len(q) = Len(r) /\ Len(r) \in Nat
      /\ \A n \in R : n \in 1 .. Len(r) /\ r[n].id = i /\ ~ r[n].settled
      /\ \A n \in 1 .. Len(r) :
            /\ q[n].id = r[n].id /\ q[n].done = r[n].done /\ q[n].reason = r[n].reason
            /\ q[n].settled <=> (r[n].settled \/ n \in R)
  <2>1. Len(fillRows') = Len(fillRows) /\ Len(fillRows) \in Nat  BY <1>0, <1>1, MarkedRows
  <2>2. \A n \in R : n \in 1 .. Len(fillRows) /\ fillRows[n].id = i /\ ~ fillRows[n].settled
    BY <1>0, <1>1, MarkedRows
  <2>3. ASSUME NEW n \in 1 .. Len(fillRows)
        PROVE  /\ fillRows'[n].id = fillRows[n].id /\ fillRows'[n].done = fillRows[n].done
               /\ fillRows'[n].reason = fillRows[n].reason
               /\ fillRows'[n].settled <=> (fillRows[n].settled \/ n \in R)
    BY <1>0, <1>1, MarkedRows, Zenon
  <2> QED  BY <1>2, <1>3, <2>1, <2>2, <2>3, Zenon
<1>5. PICK o : o = order  OBVIOUS
<1>6. PICK p : p = order'  OBVIOUS
<1>7. o \in [Ids -> OrderRow] /\ p = [o EXCEPT ![i] = [status |-> s, executed |-> e, filled |-> f]]
      /\ o[i].status \notin {"none"} \cup Final
  BY <1>0, <1>5, <1>6 DEF TypeOK, Settles
<1>8. p[i].status = s /\ p[i].filled = f /\ \A j \in Ids : j # i => p[j] = o[j]  BY <1>7
<1>9. \A j \in Ids : StatusTells(r, o, j)  BY <1>2, <1>5 DEF StatusInv
<1>10. \A n : n \in T <=> n \in R /\ ~ r[n].done  BY <1>2 DEF Settles
<1>11. ASSUME NEW j \in Ids, j # i PROVE StatusTells(q, p, j)
  <2>1. \A n : DoneRow(q, j, n) <=> DoneRow(r, j, n)  BY <1>4, <1>11 DEF DoneRow
  <2>2. \A n : DoneRow(r, j, n) => q[n].reason = r[n].reason  BY <1>4 DEF DoneRow
  <2>3. SameDone(r, q, j)  BY <2>1, <2>2 DEF SameDone
  <2> QED  BY <1>8, <1>9, <1>11, <2>3, StatusKept
<1>12. ASSUME R \ T = {} PROVE StatusTells(q, p, i)
  <2>1. \A n \in R : ~ r[n].done  BY <1>10, <1>12
  <2>2. \A n : DoneRow(q, i, n) <=> DoneRow(r, i, n)  BY <1>4, <2>1 DEF DoneRow
  <2>3. \A n : DoneRow(r, i, n) => q[n].reason = r[n].reason  BY <1>4 DEF DoneRow
  <2>4. SameDone(r, q, i)  BY <2>2, <2>3 DEF SameDone
  <2>5. s = o[i].status  BY <1>5, <1>12 DEF Settles
  <2>6. p[i].status \notin Final /\ o[i].status \notin Final  BY <1>7, <1>8, <2>5
  <2> QED  BY <1>9, <2>4, <2>6, StatusKept
<1>13. ASSUME R \ T # {} PROVE StatusTells(q, p, i)
  <2>1. PICK n \in R \ T : IF r[n].reason = "filled" THEN s = "filled"
                           ELSE IF f = 0 THEN s = "cancelled" ELSE s = "partial"
    BY <1>2, <1>13 DEF Settles
  <2>2. n \in 1 .. Len(r) /\ r[n].done /\ n \in R  BY <1>4, <1>10
  <2>3. r[n].reason \in {"filled", "cancelled"}  BY <1>2, <2>2, DoneReason
  <2>4. DoneRow(q, i, n) /\ n \in 1 .. Len(q) /\ q[n].reason = r[n].reason
    BY <1>4, <2>2 DEF DoneRow
  <2>5. CASE r[n].reason = "filled"
    <3>1. s = "filled"  BY <2>1, <2>5
    <3> QED  BY <1>8, <2>4, <2>5, <3>1 DEF StatusTells, Final
  <2>6. CASE r[n].reason = "cancelled"
    <3>1. (f = 0 /\ s = "cancelled") \/ (f # 0 /\ s = "partial")  BY <2>1, <2>6
    <3> QED  BY <1>8, <2>4, <2>6, <3>1 DEF StatusTells, Final
  <2> QED  BY <2>3, <2>5, <2>6
<1>14. \A j \in Ids : StatusTells(q, p, j)  BY <1>11, <1>12, <1>13
<1> QED  BY <1>3, <1>6, <1>14 DEF StatusInv

-----------------------------------------------------------------------------
(* Bills and trades move money between accounts, and make none.            *)

LEMMA MoneyWeightIs ==
    ASSUME NEW c
    PROVE  /\ \A b \in Bill : /\ MoneyWeight(c)[b] \in Int
                              /\ MoneyWeight(c)[b] = IF b.currency = c THEN b.available + b.hold ELSE 0
           /\ \A b \in SignedBill : b \in Bill
<1>1. \A b \in Bill : b.available \in Int /\ b.hold \in Int  BY DEF Bill
<1>2. \A b \in Bill : MoneyWeight(c)[b] = IF b.currency = c THEN b.available + b.hold ELSE 0
  BY DEF MoneyWeight
<1>3. \A b \in SignedBill : b \in Bill  BY DEF SignedBill
<1> QED  BY <1>1, <1>2, <1>3

LEMMA MovedSame ==
    ASSUME NEW o, NEW p, \A j \in Ids : p[j].filled = o[j].filled /\ p[j].executed = o[j].executed
    PROVE  \A c : Moved(p, c) = Moved(o, c)
<1> TAKE c
<1>1. [i \in Ids |-> IF c = "base" THEN Signed(i, o[i].filled) ELSE -Signed(i, o[i].executed)]
        = [i \in Ids |-> IF c = "base" THEN Signed(i, p[i].filled) ELSE -Signed(i, p[i].executed)]
  OBVIOUS
<1> QED  BY <1>1, Zenon DEF Moved

\* From a to b, the balance of u in c grows by z and nothing else changes.
OneGains(a, b, u, c, z) ==
    /\ a \in [Clients -> [Currencies -> Balances]] /\ b \in [Clients -> [Currencies -> Balances]]
    /\ u \in Clients /\ c \in Currencies /\ z \in Int
    /\ b[u][c].available + b[u][c].hold = a[u][c].available + a[u][c].hold + z
    /\ \A v \in Clients, d \in Currencies : v # u \/ d # c => b[v][d] = a[v][d]

LEMMA MoneyChange ==
    ASSUME NEW a, NEW b, NEW u, NEW c, NEW z, OneGains(a, b, u, c, z)
    PROVE  \A d \in Currencies : /\ MoneyIn(a, d) \in Int
                                 /\ MoneyIn(b, d) = MoneyIn(a, d) + (IF d = c THEN z ELSE 0)
<1>g. /\ a \in [Clients -> [Currencies -> Balances]] /\ b \in [Clients -> [Currencies -> Balances]]
      /\ u \in Clients /\ c \in Currencies /\ z \in Int
      /\ b[u][c].available + b[u][c].hold = a[u][c].available + a[u][c].hold + z
      /\ \A v \in Clients, d \in Currencies : v # u \/ d # c => b[v][d] = a[v][d]
  BY DEF OneGains
<1> TAKE d \in Currencies
<1>0. IsFiniteSet(Clients)  BY SettlementAssumption, FS_AddElement DEF Clients
<1>1. PICK F : F = [v \in Clients |-> a[v][d].available + a[v][d].hold]  OBVIOUS
<1>2. PICK G : G = [v \in Clients |-> b[v][d].available + b[v][d].hold]  OBVIOUS
<1>3. \A v \in Clients : F[v] \in Int /\ G[v] \in Int
  <2> TAKE v \in Clients
  <2>1. a[v][d] \in Balances /\ b[v][d] \in Balances  BY <1>g
  <2> QED  BY <1>1, <1>2, <2>1 DEF Balances
<1>4. \A v \in Clients \ {u} : F[v] = G[v]  BY <1>g, <1>1, <1>2
<1>5. G[u] = F[u] + (IF d = c THEN z ELSE 0)
  <2>1. CASE d = c  BY <1>g, <1>1, <1>2, <2>1
  <2>2. CASE d # c
    <3>1. b[u][d] = a[u][d]  BY <1>g, <2>2
    <3>2. G[u] = F[u]  BY <1>g, <1>1, <1>2, <3>1
    <3> QED  BY <1>g, <1>3, <2>2, <3>2
  <2> QED  BY <2>1, <2>2
<1>6. SumFunctionOnSet(G, Clients) = SumFunctionOnSet(F, Clients) - F[u] + G[u]
  BY <1>g, <1>0, <1>3, <1>4, SumChange
<1>7. SumFunctionOnSet(F, Clients) \in Int  BY <1>0, <1>3, SumInt
<1>8. MoneyIn(a, d) = SumFunctionOnSet(F, Clients) /\ MoneyIn(b, d) = SumFunctionOnSet(G, Clients)
  BY <1>1, <1>2 DEF MoneyIn
<1>9. PICK x : x = SumFunctionOnSet(F, Clients)  OBVIOUS
<1>10. x - F[u] + (F[u] + (IF d = c THEN z ELSE 0)) = x + (IF d = c THEN z ELSE 0)
  BY <1>g, <1>3, <1>7, <1>9
<1> QED  BY <1>5, <1>6, <1>7, <1>8, <1>9, <1>10

LEMMA MoneyFrame ==
    ASSUME MoneyMoves, account' = account, bills' = bills,
           \A j \in Ids : order'[j].filled = order[j].filled /\ order'[j].executed = order[j].executed
    PROVE  MoneyMoves'
<1>1. PICK o : o = order  OBVIOUS
<1>2. PICK p : p = order'  OBVIOUS
<1>3. \A c : Moved(p, c) = Moved(o, c)  BY <1>1, <1>2, MovedSame
<1>4. \A c \in Currencies : MoneyIn(account, c) + Total(bills, MoneyWeight(c)) = Supply(c) + Moved(o, c)
  BY <1>1, Zenon DEF MoneyMoves
<1>5. \A c \in Currencies : MoneyIn(account', c) + Total(bills', MoneyWeight(c)) = Supply(c) + Moved(p, c)
  BY <1>3, <1>4, Zenon
<1> QED  BY <1>2, <1>5, Zenon DEF MoneyMoves

LEMMA MoneyPlace ==
    ASSUME SettleInv, MoneyMoves, NEW i \in Ids, PlaceOrder(i) PROVE MoneyMoves'
<1>0. TypeOK  BY DEF SettleInv
<1>1. PICK r : r = Request[i]  OBVIOUS
<1>2. PICK u : u = r.user  OBVIOUS
<1>3. PICK c : c = HoldCurrency(r.side)  OBVIOUS
<1>4. PICK h : h = HoldSize(r)  OBVIOUS
<1>5. u \in Clients /\ c \in Currencies /\ h \in Nat
  BY <1>1, <1>2, <1>3, <1>4, Constants, SettlementAssumption DEF Clients
<1>6. /\ account' = [account EXCEPT ![u][c] = [available |-> @.available - h, hold |-> @.hold + h]]
      /\ order' = [order EXCEPT ![i].status = "new"] /\ bills' = bills
  BY <1>1, <1>2, <1>3, <1>4 DEF PlaceOrder, HoldBalance
<1>7. PICK a : a = account  OBVIOUS
<1>8. PICK b : b = account'  OBVIOUS
<1>9. PICK x : x = a[u][c]  OBVIOUS
<1>10. PICK y : y = [available |-> x.available - h, hold |-> x.hold + h]  OBVIOUS
<1>11. a \in [Clients -> [Currencies -> Balances]]  BY <1>0, <1>7 DEF TypeOK, Balances
<1>12. x \in Balances /\ x.available \in Int /\ x.hold \in Int  BY <1>5, <1>9, <1>11 DEF Balances
<1>13. y \in Balances /\ y.available + y.hold = x.available + x.hold + 0
  BY <1>5, <1>10, <1>12 DEF Balances
<1>14. b = [a EXCEPT ![u] = [a[u] EXCEPT ![c] = y]]
  BY <1>5, <1>6, <1>7, <1>8, <1>9, <1>10, <1>11
<1>15. /\ b \in [Clients -> [Currencies -> Balances]] /\ b[u][c] = y
       /\ \A v \in Clients, d \in Currencies : v # u \/ d # c => b[v][d] = a[v][d]
  <2>1. [a[u] EXCEPT ![c] = y] \in [Currencies -> Balances]  BY <1>5, <1>11, <1>13
  <2> QED  BY <1>5, <1>11, <1>14, <2>1
<1>16. \A d \in Currencies : MoneyIn(b, d) = MoneyIn(a, d)
  <2>1. PICK z : z = 0  OBVIOUS
  <2>2. z \in Int /\ b[u][c].available + b[u][c].hold = a[u][c].available + a[u][c].hold + z
    BY <1>9, <1>13, <1>15, <2>1
  <2>3. \A d \in Currencies : /\ MoneyIn(a, d) \in Int
                              /\ MoneyIn(b, d) = MoneyIn(a, d) + (IF d = c THEN z ELSE 0)
    <3>1. OneGains(a, b, u, c, z)  BY <1>5, <1>11, <1>15, <2>2 DEF OneGains
    <3> QED  BY <3>1, MoneyChange
  <2> QED  BY <2>1, <2>3
<1>17. \A j \in Ids : order'[j].filled = order[j].filled /\ order'[j].executed = order[j].executed
  <2>1. order \in [Ids -> OrderRow]  BY <1>0 DEF TypeOK
  <2> TAKE j \in Ids
  <2>2. order[j] \in OrderRow  BY <2>1
  <2>3. CASE j = i
    <3>1. order'[j] = [order[j] EXCEPT !.status = "new"]  BY <1>6, <2>1, <2>3
    <3> QED  BY <2>2, <3>1 DEF OrderRow
  <2>4. CASE j # i  BY <1>6, <2>1, <2>4
  <2> QED  BY <2>3, <2>4
<1>18. PICK o : o = order  OBVIOUS
<1>19. PICK p : p = order'  OBVIOUS
<1>20. \A d : Moved(p, d) = Moved(o, d)  BY <1>17, <1>18, <1>19, MovedSame
<1>21. \A d \in Currencies : MoneyIn(a, d) + Total(bills, MoneyWeight(d)) = Supply(d) + Moved(o, d)
  BY <1>7, <1>18, Zenon DEF MoneyMoves
<1>22. \A d \in Currencies : MoneyIn(b, d) + Total(bills', MoneyWeight(d)) = Supply(d) + Moved(p, d)
  BY <1>6, <1>16, <1>20, <1>21, Zenon
<1> QED  BY <1>8, <1>19, <1>22, Zenon DEF MoneyMoves

\* Paying rows R of a table of bills, all of one account and currency.
PaidMoney(b, R) == SumFunctionOnSet([n \in R |-> b[n].available], R)
                     + SumFunctionOnSet([n \in R |-> b[n].hold], R)

PaysOff(b, R, c, d) ==
    LET q == Keep(b, DOMAIN b \ R)
    IN  /\ SumFunctionOnSet([n \in R |-> b[n].available], R) \in Int
        /\ SumFunctionOnSet([n \in R |-> b[n].hold], R) \in Int
        /\ Total(q, MoneyWeight(d)) \in Int
        /\ Total(b, MoneyWeight(d)) = Total(q, MoneyWeight(d)) + (IF d = c THEN PaidMoney(b, R) ELSE 0)

LEMMA MoneyPaid ==
    ASSUME NEW b, NEW R, NEW u, NEW c, Paying(b, R, u, c), NEW d PROVE PaysOff(b, R, c, d)
<1>0. b \in Seq(Bill) /\ R \in SUBSET DueOf(b, u, c)  BY DEF Paying
<1>1. PICK W : W = MoneyWeight(d)  OBVIOUS
<1>2. \A x \in Bill : W[x] = (IF x.currency = d THEN x.available + x.hold ELSE 0) /\ W[x] \in Int
                      /\ x.hold \in Int /\ x.available \in Int
  <2>1. \A x \in Bill : x.hold \in Int /\ x.available \in Int  BY DEF Bill
  <2> QED  BY <1>1, <2>1, MoneyWeightIs
<1>3. PICK D : D = DOMAIN b  OBVIOUS
<1>4. D = 1 .. Len(b) /\ Len(b) \in Nat /\ R \in SUBSET D  BY <1>0, <1>3 DEF DueOf
<1>5. IsFiniteSet(D)  BY <1>4, FS_Interval
<1>6. PICK K : K = D \ R  OBVIOUS
<1>7. IsFiniteSet(K) /\ IsFiniteSet(R) /\ K \cap R = {} /\ K \cup R = D /\ K \in SUBSET (DOMAIN b)
  BY <1>3, <1>4, <1>5, <1>6, FS_Subset
<1>8. PICK q : q = Keep(b, K)  OBVIOUS
<1>9. q \in Seq(Bill)  BY <1>0, <1>7, <1>8, KeepRows
<1>10. Total(q, W) = SumFunctionOnSet([n \in K |-> W[b[n]]], K)  BY <1>0, <1>2, <1>7, <1>8, KeepTotal
<1>11. PICK F : F = [n \in D |-> W[b[n]]]  OBVIOUS
<1>12. \A n \in D : F[n] = W[b[n]] /\ b[n] \in Bill /\ F[n] \in Int  BY <1>0, <1>2, <1>4, <1>11
<1>13. Total(b, W) = SumFunctionOnSet(F, D)  BY <1>3, <1>11 DEF Total
<1>14. SumFunctionOnSet(F, K \cup R) = SumFunctionOnSet(F, K) + SumFunctionOnSet(F, R)
  <2>1. \A n \in K \cup R : F[n] \in Int  BY <1>7, <1>12
  <2> QED  BY <1>7, <2>1, SumDisjoint
<1>15. SumFunctionOnSet(F, K) = Total(q, W)
  <2>1. PICK G : G = [n \in K |-> W[b[n]]]  OBVIOUS
  <2>2. \A n \in K : F[n] = G[n]  BY <1>7, <1>12, <2>1
  <2>3. SumFunctionOnSet(F, K) = SumFunctionOnSet(G, K)  BY <1>7, <2>2, SumAgree
  <2> QED  BY <1>10, <2>1, <2>3
<1>16. PICK H : H = [n \in R |-> b[n].hold]  OBVIOUS
<1>17. PICK A : A = [n \in R |-> b[n].available]  OBVIOUS
<1>18. \A n \in R : /\ n \in D /\ b[n] \in Bill /\ b[n].currency = c
                    /\ H[n] = b[n].hold /\ H[n] \in Int /\ A[n] = b[n].available /\ A[n] \in Int
  BY <1>0, <1>2, <1>4, <1>12, <1>16, <1>17 DEF DueOf
<1>19. SumFunctionOnSet(H, R) \in Int /\ SumFunctionOnSet(A, R) \in Int  BY <1>7, <1>18, SumInt
<1>20. SumFunctionOnSet(F, R) = IF d = c THEN SumFunctionOnSet(A, R) + SumFunctionOnSet(H, R) ELSE 0
  <2>1. CASE d = c
    <3>1. PICK B : B = [n \in R |-> A[n] + H[n]]  OBVIOUS
    <3>2. \A n \in R : F[n] = B[n]  BY <1>2, <1>12, <1>18, <2>1, <3>1
    <3>3. SumFunctionOnSet(F, R) = SumFunctionOnSet(B, R)  BY <1>7, <3>2, SumAgree
    <3>4. SumFunctionOnSet(B, R) = SumFunctionOnSet(A, R) + SumFunctionOnSet(H, R)
      <4>1. \A n \in R : A[n] \in Int /\ H[n] \in Int /\ B[n] = A[n] + H[n]  BY <1>18, <3>1
      <4> QED  BY <1>7, <4>1, SumBoth
    <3> QED  BY <2>1, <3>3, <3>4
  <2>2. CASE d # c
    <3>1. \A n \in R : F[n] = 0  BY <1>2, <1>12, <1>18, <2>2
    <3>2. SumFunctionOnSet(F, R) = 0  BY <1>7, <3>1, SumZero
    <3> QED  BY <2>2, <3>2
  <2> QED  BY <2>1, <2>2
<1>21. Total(q, W) \in Int  BY <1>2, <1>9, TotalInt
<1>22. Total(b, W) = Total(q, W) + SumFunctionOnSet(F, R)  BY <1>7, <1>13, <1>14, <1>15
<1>23. q = Keep(b, DOMAIN b \ R)  BY <1>3, <1>6, <1>8
<1>24. PaidMoney(b, R) = SumFunctionOnSet(A, R) + SumFunctionOnSet(H, R)  BY <1>16, <1>17 DEF PaidMoney
<1> QED  BY <1>1, <1>16, <1>17, <1>19, <1>20, <1>21, <1>22, <1>23, <1>24 DEF PaysOff

LEMMA MoneyBill ==
    ASSUME SettleInv, MoneyMoves, NEW u \in Clients, NEW c \in Currencies, ExecuteBill(u, c)
    PROVE  MoneyMoves'
<1>0. TypeOK  BY DEF SettleInv
<1>1. PICK R : R = ToPay(u, c)  OBVIOUS
<1>2. bills \in Seq(Bill)  BY <1>0 DEF TypeOK
<1>3. R \in SUBSET DueOf(bills, u, c)  BY <1>1 DEF ToPay, FirstOf, DueOf
<1>4. PICK g : g = Availables(R)  OBVIOUS
<1>5. PICK h : h = Holds(R)  OBVIOUS
<1>6. /\ account' = [account EXCEPT ![u][c] = [available |-> @.available + g, hold |-> @.hold + h]]
      /\ bills' = Keep(bills, DOMAIN bills \ R) /\ order' = order
  BY <1>1, <1>4, <1>5 DEF ExecuteBill
<1>7. PICK t : t = bills  OBVIOUS
<1>8. PICK q : q = bills'  OBVIOUS
<1>9. Paying(t, R, u, c)  BY <1>2, <1>3, <1>7 DEF Paying
<1>10. g \in Int /\ h \in Int /\ PaidMoney(t, R) = g + h
  <2>1. g = SumFunctionOnSet([n \in R |-> t[n].available], R)  BY <1>4, <1>7 DEF Availables
  <2>2. h = SumFunctionOnSet([n \in R |-> t[n].hold], R)  BY <1>5, <1>7 DEF Holds
  <2>3. /\ SumFunctionOnSet([n \in R |-> t[n].available], R) \in Int
        /\ SumFunctionOnSet([n \in R |-> t[n].hold], R) \in Int
    <3>1. PaysOff(t, R, c, c)  BY <1>9, MoneyPaid
    <3> QED  BY <3>1 DEF PaysOff
  <2> QED  BY <2>1, <2>2, <2>3, Zenon DEF PaidMoney
<1>11. \A d : /\ Total(q, MoneyWeight(d)) \in Int
              /\ Total(t, MoneyWeight(d)) = Total(q, MoneyWeight(d)) + (IF d = c THEN g + h ELSE 0)
  <2> TAKE d
  <2>1. q = Keep(t, DOMAIN t \ R)  BY <1>6, <1>7, <1>8
  <2>2. /\ Total(Keep(t, DOMAIN t \ R), MoneyWeight(d)) \in Int
        /\ Total(t, MoneyWeight(d)) = Total(Keep(t, DOMAIN t \ R), MoneyWeight(d))
                                           + (IF d = c THEN PaidMoney(t, R) ELSE 0)
    <3>1. PaysOff(t, R, c, d)  BY <1>9, MoneyPaid
    <3> QED  BY <3>1 DEF PaysOff
  <2> QED  BY <1>10, <2>1, <2>2
<1>12. PICK a : a = account  OBVIOUS
<1>13. PICK b : b = account'  OBVIOUS
<1>14. PICK x : x = a[u][c]  OBVIOUS
<1>15. PICK y : y = [available |-> x.available + g, hold |-> x.hold + h]  OBVIOUS
<1>16. a \in [Clients -> [Currencies -> Balances]]  BY <1>0, <1>12 DEF TypeOK, Balances
<1>17. x \in Balances /\ x.available \in Int /\ x.hold \in Int  BY <1>14, <1>16 DEF Balances
<1>18. y \in Balances /\ y.available + y.hold = x.available + x.hold + (g + h)
  BY <1>10, <1>15, <1>17 DEF Balances
<1>19. b = [a EXCEPT ![u] = [a[u] EXCEPT ![c] = y]]
  BY <1>6, <1>12, <1>13, <1>14, <1>15, <1>16
<1>20. OneGains(a, b, u, c, g + h)
  <2>1. [a[u] EXCEPT ![c] = y] \in [Currencies -> Balances]  BY <1>16, <1>18
  <2>2. b \in [Clients -> [Currencies -> Balances]] /\ b[u][c] = y  BY <1>16, <1>19, <2>1
  <2>3. \A v \in Clients, d \in Currencies : v # u \/ d # c => b[v][d] = a[v][d]
    BY <1>16, <1>19, <2>1
  <2>4. b[u][c].available + b[u][c].hold = a[u][c].available + a[u][c].hold + (g + h)
    BY <1>14, <1>18, <2>2
  <2> QED  BY <1>10, <1>16, <2>2, <2>3, <2>4 DEF OneGains
<1>21. \A d \in Currencies : /\ MoneyIn(a, d) \in Int
                             /\ MoneyIn(b, d) = MoneyIn(a, d) + (IF d = c THEN g + h ELSE 0)
  BY <1>20, MoneyChange
<1>22. \A d \in Currencies : MoneyIn(b, d) + Total(q, MoneyWeight(d))
                               = MoneyIn(a, d) + Total(t, MoneyWeight(d))
  <2> TAKE d \in Currencies
  <2>1. PICK m : m = MoneyIn(a, d)  OBVIOUS
  <2>2. PICK n : n = Total(q, MoneyWeight(d))  OBVIOUS
  <2>3. PICK z : z = IF d = c THEN g + h ELSE 0  OBVIOUS
  <2>4. m \in Int /\ n \in Int /\ z \in Int  BY <1>10, <1>11, <1>21, <2>1, <2>2, <2>3
  <2>5. MoneyIn(b, d) = m + z /\ Total(t, MoneyWeight(d)) = n + z  BY <1>11, <1>21, <2>1, <2>2, <2>3
  <2>6. (m + z) + n = m + (n + z)  BY <2>4
  <2> QED  BY <2>1, <2>2, <2>5, <2>6
<1>23. \A d \in Currencies : MoneyIn(a, d) + Total(t, MoneyWeight(d)) = Supply(d) + Moved(order, d)
  BY <1>7, <1>12, Zenon DEF MoneyMoves
<1>24. \A d \in Currencies : MoneyIn(b, d) + Total(q, MoneyWeight(d)) = Supply(d) + Moved(order', d)
  BY <1>6, <1>22, <1>23, Zenon
<1> QED  BY <1>8, <1>13, <1>24, Zenon DEF MoneyMoves

\* What a fill, and what the fills of rows T, bring order i's user of a currency.
GainOf(i, c, f) == IF c = "base" THEN Signed(i, f.size) ELSE -Signed(i, f.size * f.price)
GainFor(i, c, T) == IF c = "base" THEN Signed(i, Sizes(T)) ELSE -Signed(i, Values(T))

\* The bills of a fill, its fee's among them, bring what the fill is worth.
LEMMA TradeMoney ==
    ASSUME NEW i, NEW f, NEW e, TradeOf(i, f, e), NEW c \in Currencies
    PROVE  Total(TradeBills(Request[i], f), MoneyWeight(c)) = GainOf(i, c, f) /\ GainOf(i, c, f) \in Int
<1>1. /\ f.size \in Nat /\ f.price \in Nat /\ f.size * f.price \in Nat
      /\ Fee(f.liquidity, f.size) \in 0 .. f.size
      /\ Fee(f.liquidity, f.size * f.price) \in 0 .. f.size * f.price
  BY FeeBound
<1>2. PICK r : r = Request[i]  OBVIOUS
<1>3. /\ i \in Ids /\ r.user \in Users /\ r.user # House /\ r.side \in {"buy", "sell"}
      /\ HoldCurrency(r.side) \in Currencies /\ r.user \in Clients /\ House \in Clients
  BY <1>2, Constants, SettlementAssumption DEF TradeOf, Clients
<1>4. PICK got : got = IF r.side = "buy" THEN f.size ELSE f.size * f.price  OBVIOUS
<1>5. PICK cur : cur = IF r.side = "buy" THEN "base" ELSE "quote"  OBVIOUS
<1>6. PICK paid : paid = IF r.side = "buy" THEN f.size * f.price ELSE f.size  OBVIOUS
<1>7. PICK fee : fee = Fee(f.liquidity, got)  OBVIOUS
<1>8. got \in Nat /\ paid \in Nat /\ fee \in 0 .. got /\ cur \in Currencies
  BY <1>1, <1>4, <1>5, <1>6, <1>7 DEF Currencies
<1>9. PICK x : x = NewBill(r.user, cur, got - fee, 0)  OBVIOUS
<1>10. PICK y : y = NewBill(r.user, HoldCurrency(r.side), 0, -paid)  OBVIOUS
<1>11. PICK z : z = NewBill(House, cur, fee, 0)  OBVIOUS
<1>12. TradeBills(r, f) = <<x, y>> \o PositiveOnly(z)
  BY <1>4, <1>5, <1>6, <1>7, <1>9, <1>10, <1>11, Zenon DEF TradeBills
<1>13. x \in SignedBill /\ x.hold = 0 /\ x.available = got - fee /\ x.currency = cur
  BY <1>3, <1>8, <1>9 DEF SignedBill, Bill, NewBill
<1>14. y \in SignedBill /\ y.hold = 0 - paid /\ y.available = 0 /\ y.currency = HoldCurrency(r.side)
  BY <1>3, <1>8, <1>10 DEF SignedBill, Bill, NewBill
<1>15. z \in SignedBill /\ z.hold = 0 /\ z.available = fee /\ z.currency = cur
  BY <1>3, <1>8, <1>11 DEF SignedBill, Bill, NewBill
<1>16. <<x, y>> = <<x>> \o <<y>> /\ <<x>> \in Seq(SignedBill) /\ <<y>> \in Seq(SignedBill)
       /\ <<x, y>> \in Seq(SignedBill)
  BY <1>13, <1>14
<1>17. PositiveOnly(z) \in Seq(SignedBill)  BY <1>15, SignedWeight, PositiveOnlyOK
<1>18. PICK W : W = MoneyWeight(c)  OBVIOUS
<1>19. \A b \in SignedBill : W[b] \in Int /\ W[b] = IF b.currency = c THEN b.available + b.hold ELSE 0
  BY <1>18, MoneyWeightIs
<1>20. /\ W[x] = IF cur = c THEN got - fee ELSE 0
       /\ W[y] = IF HoldCurrency(r.side) = c THEN 0 - paid ELSE 0
       /\ W[z] = IF cur = c THEN fee ELSE 0
  BY <1>8, <1>13, <1>14, <1>15, <1>19
<1>21. Total(<<x>>, W) = W[x] /\ Total(<<y>>, W) = W[y]  BY <1>13, <1>14, <1>19, TotalOne
<1>22. Total(PositiveOnly(z), W) = W[z]
  <2>1. Total(PositiveOnly(z), W) = IF z.available > 0 THEN W[z] ELSE 0
    BY <1>15, <1>19, PositiveOnlyOK
  <2>2. ~ (z.available > 0) => W[z] = 0  BY <1>8, <1>15, <1>20
  <2> QED  BY <2>1, <2>2
<1>23. Total(<<x>> \o <<y>>, W) = Total(<<x>>, W) + Total(<<y>>, W)
  <2>1. PICK a : a = <<x>>  OBVIOUS
  <2>2. PICK b : b = <<y>>  OBVIOUS
  <2>3. a \in Seq(SignedBill) /\ b \in Seq(SignedBill)  BY <1>16, <2>1, <2>2
  <2>4. Total(a \o b, W) = Total(a, W) + Total(b, W)  BY <1>19, <2>3, TotalJoin
  <2> QED  BY <2>1, <2>2, <2>4
<1>24. Total(TradeBills(r, f), W) = Total(<<x, y>>, W) + Total(PositiveOnly(z), W)
  <2>1. PICK a : a = <<x, y>>  OBVIOUS
  <2>2. PICK b : b = PositiveOnly(z)  OBVIOUS
  <2>3. a \in Seq(SignedBill) /\ b \in Seq(SignedBill)  BY <1>16, <1>17, <2>1, <2>2
  <2>4. Total(a \o b, W) = Total(a, W) + Total(b, W)  BY <1>19, <2>3, TotalJoin
  <2> QED  BY <1>12, <2>1, <2>2, <2>4
<1>25. Total(<<x, y>>, W) = W[x] + W[y]
  <2>1. <<x, y>> = <<x>> \o <<y>>  BY <1>16
  <2> QED  BY <1>21, <1>23, <2>1, Zenon
<1>26. Total(TradeBills(r, f), W) = (W[x] + W[y]) + W[z]  BY <1>22, <1>24, <1>25, Zenon
<1>27. (W[x] + W[y]) + W[z] = GainOf(i, c, f)
  <2>1. PICK a : a = W[x]  OBVIOUS
  <2>2. PICK b : b = W[y]  OBVIOUS
  <2>3. PICK d : d = W[z]  OBVIOUS
  <2>4. PICK v : v = f.size * f.price  OBVIOUS
  <2>5. /\ a = IF cur = c THEN got - fee ELSE 0
        /\ b = IF HoldCurrency(r.side) = c THEN 0 - paid ELSE 0
        /\ d = IF cur = c THEN fee ELSE 0
    BY <1>20, <2>1, <2>2, <2>3
  <2>6. GainOf(i, c, f) = IF c = "base" THEN Signed(i, f.size) ELSE -Signed(i, v)
    BY <2>4 DEF GainOf
  <2>7. CASE r.side = "buy"
    <3>1. /\ got = f.size /\ cur = "base" /\ paid = v /\ HoldCurrency(r.side) = "quote"
          /\ Signed(i, f.size) = f.size /\ Signed(i, v) = v
      BY <1>2, <1>4, <1>5, <1>6, <2>4, <2>7 DEF HoldCurrency, Signed
    <3>2. c = "base" \/ c = "quote"  BY DEF Currencies
    <3>3. v \in Nat /\ f.size \in Nat /\ fee \in Int  BY <1>1, <1>8, <2>4
    <3>4. ASSUME c = "base" PROVE (a + b) + d = GainOf(i, c, f)
      BY <1>8, <2>5, <2>6, <3>1, <3>3, <3>4
    <3>5. ASSUME c = "quote" PROVE (a + b) + d = GainOf(i, c, f)
      BY <1>8, <2>5, <2>6, <3>1, <3>3, <3>5
    <3> QED  BY <2>1, <2>2, <2>3, <3>2, <3>4, <3>5
  <2>8. CASE r.side = "sell"
    <3>1. /\ got = v /\ cur = "quote" /\ paid = f.size /\ HoldCurrency(r.side) = "base"
          /\ Signed(i, f.size) = -f.size /\ Signed(i, v) = -v
      BY <1>2, <1>4, <1>5, <1>6, <2>4, <2>8 DEF HoldCurrency, Signed
    <3>2. c = "base" \/ c = "quote"  BY DEF Currencies
    <3>3. v \in Nat /\ f.size \in Nat /\ fee \in Int  BY <1>1, <1>8, <2>4
    <3>4. ASSUME c = "base" PROVE (a + b) + d = GainOf(i, c, f)
      BY <1>8, <2>5, <2>6, <3>1, <3>3, <3>4
    <3>5. ASSUME c = "quote" PROVE (a + b) + d = GainOf(i, c, f)
      BY <1>8, <2>5, <2>6, <3>1, <3>3, <3>5
    <3> QED  BY <2>1, <2>2, <2>3, <3>2, <3>4, <3>5
  <2> QED  BY <1>3, <2>7, <2>8
<1>28. GainOf(i, c, f) \in Int
  <2>1. W[x] \in Int /\ W[y] \in Int /\ W[z] \in Int  BY <1>13, <1>14, <1>15, <1>19
  <2> QED  BY <1>27, <2>1
<1> QED  BY <1>2, <1>18, <1>26, <1>27, <1>28

\* What fills bring, summed.
LEMMA GainForSum ==
    ASSUME NEW i, NEW c, NEW T, IsFiniteSet(T),
           \A n \in T : fillRows[n].size \in Nat /\ fillRows[n].size * fillRows[n].price \in Nat
    PROVE  /\ GainFor(i, c, T) = SumFunctionOnSet([n \in T |-> GainOf(i, c, fillRows[n])], T)
           /\ Sizes(T) \in Nat /\ Values(T) \in Nat
<1>1. PICK F : F = [n \in T |-> fillRows[n].size]  OBVIOUS
<1>2. PICK G : G = [n \in T |-> fillRows[n].size * fillRows[n].price]  OBVIOUS
<1>3. PICK H : H = [n \in T |-> GainOf(i, c, fillRows[n])]  OBVIOUS
<1>4. \A n \in T : F[n] \in Nat /\ G[n] \in Nat  BY <1>1, <1>2
<1>5. Sizes(T) = SumFunctionOnSet(F, T) /\ Values(T) = SumFunctionOnSet(G, T)
  BY <1>1, <1>2 DEF Sizes, Values
<1>6. SumFunctionOnSet(F, T) \in Nat /\ SumFunctionOnSet(G, T) \in Nat  BY <1>4, SumNat
<1>7. \A n \in T : H[n] = IF c = "base" THEN Signed(i, F[n]) ELSE -Signed(i, G[n])
  BY <1>1, <1>2, <1>3 DEF GainOf
<1>8. CASE c = "base" /\ Request[i].side = "buy"
  <2>1. \A n \in T : H[n] = F[n]  BY <1>7, <1>8 DEF Signed
  <2>2. SumFunctionOnSet(H, T) = SumFunctionOnSet(F, T)  BY <2>1, SumAgree
  <2> QED  BY <1>3, <1>5, <1>6, <1>8, <2>2 DEF GainFor, Signed
<1>9. CASE c = "base" /\ Request[i].side # "buy"
  <2>1. \A n \in T : F[n] \in Int /\ H[n] = 0 - F[n]  BY <1>4, <1>7, <1>9 DEF Signed
  <2>2. SumFunctionOnSet(H, T) = 0 - SumFunctionOnSet(F, T)  BY <2>1, SumNeg
  <2> QED  BY <1>3, <1>5, <1>6, <1>9, <2>2 DEF GainFor, Signed
<1>10. CASE c # "base" /\ Request[i].side = "buy"
  <2>1. \A n \in T : G[n] \in Int /\ H[n] = 0 - G[n]  BY <1>4, <1>7, <1>10 DEF Signed
  <2>2. SumFunctionOnSet(H, T) = 0 - SumFunctionOnSet(G, T)  BY <2>1, SumNeg
  <2> QED  BY <1>3, <1>5, <1>6, <1>10, <2>2 DEF GainFor, Signed
<1>11. CASE c # "base" /\ Request[i].side # "buy"
  <2>1. \A n \in T : H[n] = G[n]  BY <1>4, <1>7, <1>11 DEF Signed
  <2>2. SumFunctionOnSet(H, T) = SumFunctionOnSet(G, T)  BY <2>1, SumAgree
  <2> QED  BY <1>3, <1>5, <1>6, <1>11, <2>2 DEF GainFor, Signed
<1> QED  BY <1>8, <1>9, <1>10, <1>11

\* The bills of several fills bring what the fills are worth together.
LEMMA BillsMoney ==
    ASSUME TypeOK, EngineOK, FillsGenuine, NEW i \in Ids, NEW c \in Currencies,
           NEW T \in SUBSET {n \in 1 .. Len(fillRows) : fillRows[n].id = i /\ ~ fillRows[n].done}
    PROVE  /\ Total(BillsOf(Request[i], T), MoneyWeight(c)) = GainFor(i, c, T)
           /\ GainFor(i, c, T) \in Int /\ Sizes(T) \in Nat /\ Values(T) \in Nat
<1>0. Len(fillRows) \in Nat /\ DOMAIN fillRows = 1 .. Len(fillRows)  BY DEF TypeOK
<1>1. PICK D : D = 1 .. Len(fillRows)  OBVIOUS
<1>2. IsFiniteSet(D) /\ T \in SUBSET D /\ IsFiniteSet(T)
  <2>1. IsFiniteSet(D) /\ T \in SUBSET D  BY <1>0, <1>1, FS_Interval
  <2> QED  BY <2>1, FS_Subset
<1>3. PICK p : p = [n \in D |-> IF n \in T THEN TradeBills(Request[i], fillRows[n]) ELSE << >>]
  OBVIOUS
<1>4. BillsOf(Request[i], T) = FlattenSeq(p)  BY <1>0, <1>1, <1>3 DEF BillsOf
<1>5. ASSUME NEW n \in T
      PROVE  /\ TradeBills(Request[i], fillRows[n]) \in Seq(SignedBill)
             /\ fillRows[n].size \in Nat /\ fillRows[n].size * fillRows[n].price \in Nat
             /\ GainOf(i, c, fillRows[n]) \in Int
             /\ Total(TradeBills(Request[i], fillRows[n]), MoneyWeight(c)) = GainOf(i, c, fillRows[n])
  <2>1. n \in 1 .. Len(fillRows) /\ fillRows[n].id = i /\ ~ fillRows[n].done  OBVIOUS
  <2>2. PICK e : TradeOf(i, fillRows[n], e)  BY <2>1, RowTrade
  <2>3. PICK f : f = fillRows[n]  OBVIOUS
  <2>4. TradeOf(i, f, e)  BY <2>2, <2>3
  <2>5. TradeBills(Request[i], f) \in Seq(SignedBill)  BY <2>4, TradeBillsOK
  <2>6. f.size \in Nat /\ f.size * f.price \in Nat  BY <2>4, FeeBound
  <2>7. Total(TradeBills(Request[i], f), MoneyWeight(c)) = GainOf(i, c, f) /\ GainOf(i, c, f) \in Int
    BY <2>4, TradeMoney
  <2> QED  BY <2>3, <2>5, <2>6, <2>7
<1>6. /\ p \in Seq(Seq(SignedBill)) /\ DOMAIN p = D
      /\ \A n \in T : p[n] = TradeBills(Request[i], fillRows[n])
      /\ \A n \in D \ T : p[n] = << >>
  <2>1. << >> \in Seq(SignedBill)  OBVIOUS
  <2>2. \A n \in D : p[n] \in Seq(SignedBill)  BY <1>3, <1>5, <2>1
  <2>3. p \in [1 .. Len(fillRows) -> Seq(SignedBill)]  BY <1>1, <1>3, <2>2
  <2>4. p \in Seq(Seq(SignedBill))  BY <1>0, <2>3
  <2>5. \A n \in T : n \in D  BY <1>2
  <2>6. \A n \in T : p[n] = TradeBills(Request[i], fillRows[n])  BY <1>3, <2>5
  <2>7. \A n \in D \ T : p[n] = << >>  BY <1>3
  <2> QED  BY <1>3, <2>4, <2>6, <2>7
<1>7. PICK F : F = [n \in T |-> GainOf(i, c, fillRows[n])]  OBVIOUS
<1>8. \A n \in T : F[n] = GainOf(i, c, fillRows[n]) /\ F[n] \in Int  BY <1>5, <1>7
<1>9. GainFor(i, c, T) = SumFunctionOnSet(F, T) /\ Sizes(T) \in Nat /\ Values(T) \in Nat
  BY <1>2, <1>5, <1>7, GainForSum
<1>10. PICK W : W = MoneyWeight(c)  OBVIOUS
<1>11. \A b \in SignedBill : W[b] \in Int  BY <1>10, MoneyWeightIs
<1>12. PICK G : G = [n \in DOMAIN p |-> Total(p[n], W)]  OBVIOUS
<1>13. Total(FlattenSeq(p), W) = SumFunctionOnSet(G, DOMAIN p)  BY <1>6, <1>11, <1>12, FlatTotal
<1>14. \A n \in D \ T : G[n] = 0
  <2> TAKE n \in D \ T
  <2>1. G[n] = Total(p[n], W) /\ p[n] = << >>  BY <1>6, <1>12
  <2> QED  BY <2>1, TotalEmpty
<1>15. \A n \in T : G[n] = F[n]
  <2> TAKE n \in T
  <2>1. n \in D  BY <1>2
  <2>2. G[n] = Total(p[n], W) /\ p[n] = TradeBills(Request[i], fillRows[n])  BY <1>6, <1>12, <2>1
  <2> QED  BY <1>5, <1>8, <1>10, <2>2
<1>16. SumFunctionOnSet(G, D) = SumFunctionOnSet(F, T)
  <2>1. OnlyOn(F, T, G, D)  BY <1>2, <1>8, <1>14, <1>15 DEF OnlyOn
  <2> QED  BY <2>1, SumOnly
<1>17. SumFunctionOnSet(F, T) \in Int  BY <1>2, <1>8, SumInt
<1> QED  BY <1>4, <1>6, <1>9, <1>10, <1>13, <1>16, <1>17

\* Releasing a hold moves it back to what is available.
LEMMA ReleaseMoney ==
    ASSUME NEW i \in Ids, NEW executed \in Int, NEW filled \in Int, NEW c
    PROVE  /\ ReleaseBill(Request[i], executed, filled) \in Seq(Bill)
           /\ Total(ReleaseBill(Request[i], executed, filled), MoneyWeight(c)) = 0
<1>1. PICK r : r = Request[i]  OBVIOUS
<1>2. /\ HoldCurrency(r.side) \in Currencies /\ r.user \in Clients /\ r.funds \in Nat /\ r.size \in Nat
  BY <1>1, Constants, SettlementAssumption DEF Clients
<1>3. PICK rest : rest = IF r.side = "buy" THEN r.funds - executed ELSE r.size - filled  OBVIOUS
<1>4. PICK x : x = NewBill(r.user, HoldCurrency(r.side), rest, -rest)  OBVIOUS
<1>5. rest \in Int  BY <1>2, <1>3
<1>6. ReleaseBill(r, executed, filled) = PositiveOnly(x)  BY <1>3, <1>4, Zenon DEF ReleaseBill
<1>7. x \in Bill /\ x.available = rest /\ x.hold = -rest  BY <1>2, <1>4, <1>5 DEF Bill, NewBill
<1>8. PICK W : W = MoneyWeight(c)  OBVIOUS
<1>9. W[x] = 0
  <2>1. W[x] = IF x.currency = c THEN x.available + x.hold ELSE 0  BY <1>7, <1>8, MoneyWeightIs
  <2> QED  BY <1>5, <1>7, <2>1
<1>10. Total(<<x>>, W) = 0  BY <1>9, TotalOne
<1>11. <<x>> \in Seq(Bill) /\ << >> \in Seq(Bill)  BY <1>7
<1>12. PositiveOnly(x) \in Seq(Bill) /\ Total(PositiveOnly(x), W) = 0
  <2>1. PositiveOnly(x) = <<x>> \/ PositiveOnly(x) = << >>  BY Zenon DEF PositiveOnly
  <2> QED  BY <1>10, <1>11, <2>1, TotalEmpty
<1> QED  BY <1>1, <1>6, <1>8, <1>12

\* From o to p, order i gains z of size and w of value.
LEMMA MovedChange ==
    ASSUME NEW o \in [Ids -> OrderRow], NEW p \in [Ids -> OrderRow], NEW i \in Ids,
           NEW z \in Int, NEW w \in Int, p[i].filled = o[i].filled + z, p[i].executed = o[i].executed + w,
           \A j \in Ids : j # i => p[j] = o[j]
    PROVE  \A c : /\ Moved(o, c) \in Int
                  /\ Moved(p, c) = Moved(o, c) + (IF c = "base" THEN Signed(i, z) ELSE -Signed(i, w))
<1> TAKE c
<1>1. PICK F : F = [j \in Ids |-> IF c = "base" THEN Signed(j, o[j].filled) ELSE -Signed(j, o[j].executed)]
  OBVIOUS
<1>2. PICK G : G = [j \in Ids |-> IF c = "base" THEN Signed(j, p[j].filled) ELSE -Signed(j, p[j].executed)]
  OBVIOUS
<1>3. \A j \in Ids : /\ o[j].filled \in Int /\ o[j].executed \in Int
                     /\ p[j].filled \in Int /\ p[j].executed \in Int
  <2> TAKE j \in Ids
  <2>1. o[j] \in OrderRow /\ p[j] \in OrderRow  OBVIOUS
  <2> QED  BY <2>1 DEF OrderRow
<1>4. \A j \in Ids : F[j] \in Int /\ G[j] \in Int  BY <1>1, <1>2, <1>3 DEF Signed
<1>5. \A j \in Ids \ {i} : F[j] = G[j]  BY <1>1, <1>2
<1>6. IsFiniteSet(Ids)  BY Constants
<1>7. SumFunctionOnSet(G, Ids) = SumFunctionOnSet(F, Ids) - F[i] + G[i]
  BY <1>4, <1>5, <1>6, SumChange
<1>8. SumFunctionOnSet(F, Ids) \in Int  BY <1>4, <1>6, SumInt
<1>9. Moved(o, c) = SumFunctionOnSet(F, Ids) /\ Moved(p, c) = SumFunctionOnSet(G, Ids)
  BY <1>1, <1>2 DEF Moved
<1>10. PICK d : d = IF c = "base" THEN Signed(i, z) ELSE -Signed(i, w)  OBVIOUS
<1>11. d \in Int /\ G[i] = F[i] + d
  <2>1. CASE c = "base"  BY <1>1, <1>2, <1>3, <1>10, <2>1 DEF Signed
  <2>2. CASE c # "base"  BY <1>1, <1>2, <1>3, <1>10, <2>2 DEF Signed
  <2> QED  BY <2>1, <2>2
<1>12. PICK x : x = SumFunctionOnSet(F, Ids)  OBVIOUS
<1>13. PICK y : y = F[i]  OBVIOUS
<1>14. x \in Int /\ y \in Int /\ x - y + (y + d) = x + d  BY <1>4, <1>8, <1>11, <1>12, <1>13
<1> QED  BY <1>7, <1>8, <1>9, <1>10, <1>11, <1>12, <1>13, <1>14

LEMMA MoneyInt ==
    ASSUME TypeOK, NEW c \in Currencies PROVE MoneyIn(account, c) \in Int /\ Supply(c) \in Int
<1>1. IsFiniteSet(Users) /\ IsFiniteSet(Clients)
  BY SettlementAssumption, FS_AddElement DEF Clients
<1>2. PICK F : F = [u \in Clients |-> account[u][c].available + account[u][c].hold]  OBVIOUS
<1>3. PICK G : G = [u \in Users |-> Funding[u][c]]  OBVIOUS
<1>4. account \in [Clients -> [Currencies -> Balances]]  BY DEF TypeOK, Balances
<1>5. \A u \in Clients : F[u] \in Int
  <2> TAKE u \in Clients
  <2>1. account[u][c] \in Balances  BY <1>4
  <2> QED  BY <1>2, <2>1 DEF Balances
<1>6. \A u \in Users : G[u] \in Int  BY <1>3, SettlementAssumption
<1>7. SumFunctionOnSet(F, Clients) \in Int /\ SumFunctionOnSet(G, Users) \in Int
  BY <1>1, <1>5, <1>6, SumInt
<1> QED  BY <1>2, <1>3, <1>7 DEF MoneyIn, Supply

LEMMA MoneySettle ==
    ASSUME SettleInv, MoneyMoves, NEW i \in Ids, ExecuteFill(i), SettleInv'
    PROVE  MoneyMoves'
<1>0. TypeOK /\ EngineOK /\ FillsGenuine  BY DEF SettleInv
<1>1. PICK R, T, s, e, f : Settles(i, R, T, s, e, f)  BY SettleStep
<1>2. T \in SUBSET {n \in 1 .. Len(fillRows) : fillRows[n].id = i /\ ~ fillRows[n].done}
  <2>1. R \in SUBSET Unsettled(i)  BY <1>1 DEF Settles, ToSettle, FirstOf
  <2>2. DOMAIN fillRows = 1 .. Len(fillRows)  BY <1>0 DEF TypeOK
  <2> QED  BY <1>1, <2>1, <2>2 DEF Settles, Unsettled
<1>3. PICK o : o = order  OBVIOUS
<1>4. PICK p : p = order'  OBVIOUS
<1>5. PICK z : z = Sizes(T)  OBVIOUS
<1>6. PICK w : w = Values(T)  OBVIOUS
<1>7. \A c \in Currencies :
         /\ Total(BillsOf(Request[i], T), MoneyWeight(c)) = GainFor(i, c, T)
         /\ GainFor(i, c, T) \in Int /\ Sizes(T) \in Nat /\ Values(T) \in Nat
  BY <1>0, <1>2, BillsMoney
<1>8. z \in Nat /\ w \in Nat
  <2>1. "base" \in Currencies  BY DEF Currencies
  <2> QED  BY <1>5, <1>6, <1>7, <2>1
<1>9. o \in [Ids -> OrderRow] /\ p \in [Ids -> OrderRow]  BY <1>0, <1>3, <1>4 DEF SettleInv, TypeOK
<1>10. /\ p = [o EXCEPT ![i] = [status |-> s, executed |-> e, filled |-> f]]
       /\ e = o[i].executed + w /\ f = o[i].filled + z
  BY <1>1, <1>3, <1>4, <1>5, <1>6 DEF Settles
<1>11. /\ p[i].filled = o[i].filled + z /\ p[i].executed = o[i].executed + w
       /\ \A j \in Ids : j # i => p[j] = o[j]
  BY <1>9, <1>10
<1>12. \A c : /\ Moved(o, c) \in Int
              /\ Moved(p, c) = Moved(o, c) + (IF c = "base" THEN Signed(i, z) ELSE -Signed(i, w))
  <2>1. z \in Int /\ w \in Int  BY <1>8
  <2> QED  BY <1>9, <1>11, <2>1, MovedChange
<1>13. \A c : GainFor(i, c, T) = IF c = "base" THEN Signed(i, z) ELSE -Signed(i, w)
  BY <1>5, <1>6 DEF GainFor
<1>14. PICK q : q = BillsOf(Request[i], T)  OBVIOUS
<1>15. PICK rel : rel = IF R \ T = {} THEN << >> ELSE ReleaseBill(Request[i], e, f)  OBVIOUS
<1>16. bills' = bills \o q \o rel  BY <1>1, <1>14, <1>15, Zenon DEF Settles
<1>17. q \in Seq(Bill)
  <2>1. q \in Seq(SignedBill)  BY <1>0, <1>2, <1>14, BillsOfOK
  <2> QED  BY <2>1, SignedIsBills
<1>18. bills \in Seq(Bill)  BY <1>0 DEF TypeOK
<1>19. e \in Int /\ f \in Int
  <2>1. o[i] \in OrderRow  BY <1>9
  <2>2. o[i].executed \in Int /\ o[i].filled \in Int  BY <2>1 DEF OrderRow
  <2> QED  BY <1>8, <1>10, <2>2
<1>20. rel \in Seq(Bill) /\ \A c : Total(rel, MoneyWeight(c)) = 0
  <2>1. << >> \in Seq(Bill)  OBVIOUS
  <2>2. /\ ReleaseBill(Request[i], e, f) \in Seq(Bill)
        /\ \A c : Total(ReleaseBill(Request[i], e, f), MoneyWeight(c)) = 0
    BY <1>19, ReleaseMoney
  <2>3. rel = << >> \/ rel = ReleaseBill(Request[i], e, f)  BY <1>15
  <2> QED  BY <2>1, <2>2, <2>3, TotalEmpty
<1>21. account' = account  BY DEF ExecuteFill
<1>22. PICK t : t = bills  OBVIOUS
<1>23. PICK u : u = bills'  OBVIOUS
<1>24. \A c \in Currencies : MoneyIn(account, c) + Total(t, MoneyWeight(c)) = Supply(c) + Moved(o, c)
  BY <1>3, <1>22, Zenon DEF MoneyMoves
<1>25. ASSUME NEW c \in Currencies
       PROVE  MoneyIn(account, c) + Total(u, MoneyWeight(c)) = Supply(c) + Moved(p, c)
  <2>1. PICK W : W = MoneyWeight(c)  OBVIOUS
  <2>2. \A b \in Bill : W[b] \in Int  BY <2>1, MoneyWeightIs
  <2>3. t \o q \in Seq(Bill) /\ Total(t \o q, W) = Total(t, W) + Total(q, W)
    BY <1>17, <1>18, <1>22, <2>2, TotalJoin, Joined
  <2>4. PICK tq : tq = t \o q  OBVIOUS
  <2>5. Total(tq \o rel, W) = Total(tq, W) + Total(rel, W)
    <3>1. tq \in Seq(Bill) /\ rel \in Seq(Bill)  BY <1>20, <2>3, <2>4
    <3> QED  BY <2>2, <3>1, TotalJoin
  <2>6. u = tq \o rel  BY <1>16, <1>22, <1>23, <2>4
  <2>7. Total(rel, W) = 0 /\ Total(q, W) = GainFor(i, c, T) /\ GainFor(i, c, T) \in Int
    BY <1>7, <1>14, <1>20, <2>1
  <2>8. PICK x : x = Total(t, W)  OBVIOUS
  <2>9. PICK g : g = GainFor(i, c, T)  OBVIOUS
  <2>10. x \in Int /\ g \in Int
    <3>1. Total(t, W) \in Int  BY <1>18, <1>22, <2>2, TotalInt
    <3> QED  BY <2>7, <2>8, <2>9, <3>1
  <2>11. Total(tq, W) = x + g  BY <2>3, <2>4, <2>7, <2>8, <2>9
  <2>12. Total(u, W) = (x + g) + 0  BY <2>5, <2>6, <2>7, <2>11
  <2>13. Total(u, W) = x + g  BY <2>10, <2>12
  <2>14. Moved(p, c) = Moved(o, c) + g /\ Moved(o, c) \in Int  BY <1>12, <1>13, <2>9
  <2>15. PICK m : m = MoneyIn(account, c)  OBVIOUS
  <2>16. PICK v : v = Moved(o, c)  OBVIOUS
  <2>17. PICK y : y = Supply(c)  OBVIOUS
  <2>18. m \in Int /\ y \in Int  BY <1>0, <2>15, <2>17, MoneyInt
  <2>19. m + x = y + v  BY <1>24, <2>1, <2>8, <2>15, <2>16, <2>17
  <2>20. v \in Int  BY <2>14, <2>16
  <2>21. m + (x + g) = y + (v + g)  BY <2>10, <2>18, <2>19, <2>20
  <2> QED  BY <2>1, <2>13, <2>14, <2>15, <2>16, <2>17, <2>21
<1> QED  BY <1>4, <1>21, <1>23, <1>25, Zenon DEF MoneyMoves

-----------------------------------------------------------------------------
(* All of it together.                                                     *)

WholeInv == SettleInv /\ PipeInv /\ LogTells /\ StatusInv /\ MoneyMoves

LEMMA TellsFrame == ASSUME LogTells, logTopic' = logTopic, live' = live PROVE LogTells'
<1>1. Tells(logTopic, live)  BY DEF LogTells, Tells
<1>2. Tells(logTopic', live')  BY <1>1, Zenon
<1> QED  BY <1>2 DEF LogTells, Tells

LEMMA SameStatus ==
    ASSUME StatusInv, fillRows' = fillRows, order' = order PROVE StatusInv'
<1>1. \A i \in Ids : order'[i] = order[i]  OBVIOUS
<1> QED  BY <1>1, SameRows, StatusFrame

LEMMA SameMoney == ASSUME MoneyMoves, account' = account, bills' = bills, order' = order PROVE MoneyMoves'
  BY MoneyFrame

\* The engine's steps.
LEMMA WholeEngine ==
    ASSUME WholeInv, UNCHANGED <<tables, maker>>, halved' = halved,
           LogFine(logTopic') /\ Longer(logTopic, logTopic') /\ Tells(logTopic', live')
    PROVE  PipeInv' /\ LogTells' /\ StatusInv' /\ MoneyMoves'
<1>0. SettleInv /\ PipeInv /\ StatusInv /\ MoneyMoves  BY DEF WholeInv
<1>1. account' = account /\ order' = order /\ fillRows' = fillRows /\ bills' = bills  BY DEF tables
<1>2. UNCHANGED maker  OBVIOUS
<1>3. PipeInv'  BY <1>0, <1>1, <1>2, LongerPipe
<1>4. LogTells'  BY DEF LogTells, Tells
<1> QED  BY <1>0, <1>1, <1>3, <1>4, SameStatus, SameMoney

LEMMA WholeEngineSteps ==
    ASSUME WholeInv,
           \/ \E i \in Ids : OpenOrder(i) \/ FinishOrder(i)
           \/ \E t, m \in Ids : MatchOrders(t, m)
           \/ RepeatLogs
    PROVE  PipeInv' /\ LogTells' /\ StatusInv' /\ MoneyMoves'
<1>0. SettleInv /\ LogTells  BY DEF WholeInv
<1>1. ASSUME NEW i \in Ids, OpenOrder(i) PROVE PipeInv' /\ LogTells' /\ StatusInv' /\ MoneyMoves'
  <2>1. UNCHANGED <<tables, maker>> /\ halved' = halved  BY <1>1 DEF OpenOrder
  <2> QED  BY <1>0, <1>1, <2>1, OpenTells, WholeEngine
<1>2. ASSUME NEW i \in Ids, FinishOrder(i) PROVE PipeInv' /\ LogTells' /\ StatusInv' /\ MoneyMoves'
  <2>1. UNCHANGED <<tables, maker>> /\ halved' = halved  BY <1>2 DEF FinishOrder
  <2> QED  BY <1>0, <1>2, <2>1, FinishTells, WholeEngine
<1>3. ASSUME NEW t \in Ids, NEW m \in Ids, MatchOrders(t, m)
      PROVE  PipeInv' /\ LogTells' /\ StatusInv' /\ MoneyMoves'
  <2>1. UNCHANGED <<tables, maker>> /\ halved' = halved  BY <1>3 DEF MatchOrders
  <2> QED  BY <1>0, <1>3, <2>1, MatchTells, WholeEngine
<1>4. ASSUME RepeatLogs PROVE PipeInv' /\ LogTells' /\ StatusInv' /\ MoneyMoves'
  <2>1. UNCHANGED <<tables, maker>> /\ halved' = halved  BY <1>4 DEF RepeatLogs
  <2> QED  BY <1>0, <1>4, <2>1, RepeatTells, WholeEngine
<1> QED  BY <1>1, <1>2, <1>3, <1>4

\* The fill maker's steps.
LEMMA WholeMaker ==
    ASSUME WholeInv, ReadRepeated \/ ReadMatch \/ SendMakerFill \/ ReadDone \/ TakeFill \/ Crash
    PROVE  PipeInv' /\ LogTells' /\ StatusInv' /\ MoneyMoves'
<1>0. SettleInv /\ PipeInv /\ LogTells /\ StatusInv /\ MoneyMoves  BY DEF WholeInv
<1>1. UNCHANGED <<tables, engine>>
  BY DEF ReadRepeated, ReadMatch, SendMakerFill, ReadDone, TakeFill, Crash
<1>2. /\ account' = account /\ order' = order /\ fillRows' = fillRows /\ bills' = bills
      /\ logTopic' = logTopic /\ live' = live
  BY <1>1 DEF tables, engine
<1>3. PipeInv'  BY <1>0, PassNothing, PassMatch, PassMaker, PassDone, PassBatch, PassCrash
<1> QED  BY <1>0, <1>2, <1>3, TellsFrame, SameStatus, SameMoney

LEMMA WholeOpen == ASSUME WholeInv, ReadOpen PROVE PipeInv' /\ LogTells' /\ StatusInv' /\ MoneyMoves'
<1>0. SettleInv /\ PipeInv /\ LogTells /\ StatusInv /\ MoneyMoves  BY DEF WholeInv
<1>1. account' = account /\ bills' = bills /\ logTopic' = logTopic /\ live' = live
  BY DEF ReadOpen, engine
<1>2. order \in [Ids -> OrderRow]  BY <1>0 DEF SettleInv, TypeOK
<1>3. PICK k : k = Reading.id  OBVIOUS
<1>4. order' = [order EXCEPT ![k].status = IF @ = "new" THEN "open" ELSE @]  BY <1>3 DEF ReadOpen
<1>5. \A j \in Ids : order'[j].filled = order[j].filled /\ order'[j].executed = order[j].executed
  <2> TAKE j \in Ids
  <2>1. order[j] \in OrderRow  BY <1>2
  <2>2. CASE j = k
    <3>1. order'[j] = [order[j] EXCEPT !.status = IF order[j].status = "new" THEN "open" ELSE order[j].status]
      BY <1>2, <1>4, <2>2
    <3> QED  BY <2>1, <3>1 DEF OrderRow
  <2>3. CASE j # k  BY <1>2, <1>4, <2>3
  <2> QED  BY <2>2, <2>3
<1> QED  BY <1>0, <1>1, <1>5, PassOpen, TellsFrame, StatusOpen, MoneyFrame

LEMMA WholeFlush ==
    ASSUME WholeInv, Flush \/ FlushUnsure PROVE PipeInv' /\ LogTells' /\ StatusInv' /\ MoneyMoves'
<1>0. SettleInv /\ PipeInv /\ LogTells /\ StatusInv /\ MoneyMoves  BY DEF WholeInv
<1>1. account' = account /\ order' = order /\ bills' = bills /\ logTopic' = logTopic /\ live' = live
  BY DEF Flush, FlushUnsure, engine
<1> QED  BY <1>0, <1>1, PassRows, TellsFrame, StatusFlush, SameMoney

\* Placing an order, and the executors.
LEMMA WholePlace ==
    ASSUME WholeInv, NEW i \in Ids, PlaceOrder(i) PROVE PipeInv' /\ LogTells' /\ StatusInv' /\ MoneyMoves'
<1>0. SettleInv /\ PipeInv /\ LogTells /\ StatusInv /\ MoneyMoves  BY DEF WholeInv
<1>1. PICK r : r = Request[i]  OBVIOUS
<1>2. /\ order[i].status = "none" /\ fillRows' = fillRows /\ logTopic' = logTopic
      /\ UNCHANGED maker /\ halved' = halved
      /\ live' = [live EXCEPT ![i] = [size |-> r.size, funds |-> r.funds, phase |-> "sent"]]
  BY <1>1 DEF PlaceOrder, Matching!Submit
<1>3. /\ live \in [Ids -> Lives] /\ LogFine(logTopic) /\ OrderOK(i, logTopic, live, order[i].status)
  BY <1>0 DEF SettleInv, TypeOK, Lives, EngineOK
<1>4. live[i].phase = "none"  BY <1>2, <1>3 DEF OrderOK
<1>5. live'[i].phase = "sent" /\ \A j \in Ids : j # i => live'[j] = live[j]  BY <1>2, <1>3
<1>6. PICK t : t = logTopic  OBVIOUS
<1>7. DoneLogged(t, live)  BY <1>0, <1>6 DEF LogTells
<1>8. ~ \E k \in 1 .. Len(t) : t[k].type = "done" /\ t[k].id = i
  BY <1>4, <1>7 DEF DoneLogged
<1>9. DoneLogged(t, live')
  <2> SUFFICES ASSUME NEW j \in Ids
               PROVE  /\ live'[j].phase = "done" <=> \E k \in 1 .. Len(t) : t[k].type = "done" /\ t[k].id = j
                      /\ \A k \in 1 .. Len(t) : t[k].type = "done" /\ t[k].id = j =>
                            (t[k].reason = "filled" <=> Matching!UsedUp(live'[j], j))
    BY DEF DoneLogged
  <2>1. CASE j = i
    <3>1. live'[j].phase # "done"  BY <1>5, <2>1
    <3> QED  BY <1>8, <2>1, <3>1
  <2>2. CASE j # i
    <3>1. live'[j] = live[j]  BY <1>5, <2>2
    <3> QED  BY <1>7, <3>1 DEF DoneLogged
  <2> QED  BY <2>1, <2>2
<1>10. LogTells'
  <2>1. (t # << >> => t[1].seq = 1) /\ TradesBalance(t)  BY <1>0, <1>6 DEF LogTells
  <2>2. logTopic' = t  BY <1>2, <1>6
  <2> QED  BY <1>9, <2>1, <2>2, Zenon DEF LogTells
<1>11. PipeInv'  BY <1>0, <1>2, PassSettled
<1> QED  BY <1>0, <1>10, <1>11, StatusPlace, MoneyPlace

LEMMA WholeFill ==
    ASSUME WholeInv, NEW i \in Ids, ExecuteFill(i) PROVE PipeInv' /\ LogTells' /\ StatusInv' /\ MoneyMoves'
<1>0. SettleInv /\ PipeInv /\ LogTells /\ StatusInv /\ MoneyMoves /\ TypeOK  BY DEF WholeInv, SettleInv
<1>1. PICK R, T, s, e, f : Settles(i, R, T, s, e, f)  BY SettleStep
<1>2. logTopic' = logTopic /\ live' = live /\ UNCHANGED maker /\ halved' = halved
  BY DEF ExecuteFill, engine
<1>3. R \in SUBSET Unsettled(i) /\ fillRows' = Marked(R)  BY <1>1 DEF Settles, ToSettle, FirstOf
<1>4. Len(fillRows') = Len(fillRows)  BY <1>0, <1>3, MarkedRows
<1>5. \A n \in 1 .. Len(fillRows) :
         /\ fillRows'[n].id = fillRows[n].id /\ fillRows'[n].seq = fillRows[n].seq
         /\ fillRows'[n].offset = fillRows[n].offset /\ fillRows'[n].done = fillRows[n].done
         /\ fillRows'[n].liquidity = fillRows[n].liquidity
  BY <1>0, <1>3, MarkedRows, Zenon
<1>6. PipeInv'  BY <1>0, <1>2, <1>4, <1>5, PassSettled
<1>7. StatusInv'  BY <1>0, <1>1, StatusSettle
<1>8. MoneyMoves'  BY <1>0, MoneySettle, SettleFillsInv
<1> QED  BY <1>0, <1>2, <1>6, <1>7, <1>8, TellsFrame

LEMMA WholeBill ==
    ASSUME WholeInv, NEW u \in Clients, NEW c \in Currencies, ExecuteBill(u, c)
    PROVE  PipeInv' /\ LogTells' /\ StatusInv' /\ MoneyMoves'
<1>0. SettleInv /\ PipeInv /\ LogTells /\ StatusInv /\ MoneyMoves  BY DEF WholeInv
<1>1. /\ order' = order /\ fillRows' = fillRows /\ logTopic' = logTopic /\ live' = live
      /\ UNCHANGED maker /\ halved' = halved
  BY DEF ExecuteBill, engine
<1>2. PipeInv'  BY <1>0, <1>1, PassSettled
<1> QED  BY <1>0, <1>1, <1>2, TellsFrame, SameStatus, MoneyBill

LEMMA WholeInit == ASSUME Init PROVE WholeInv
<1>0. SettleInv  BY InitInv
<1>1. /\ account = [u \in Clients |-> [c \in Currencies |->
                    IF u = House THEN Zero ELSE [available |-> Funding[u][c], hold |-> 0]]]
      /\ order = [i \in Ids |-> [status |-> "none", executed |-> 0, filled |-> 0]]
      /\ fillRows = << >> /\ bills = << >> /\ logTopic = << >>
      /\ live = [i \in Ids |-> [size |-> 0, funds |-> 0, phase |-> "none"]]
      /\ readOffset = 0 /\ lastSeq = 0 /\ makerFill = NoFill
      /\ fillCh = << >> /\ batch = << >> /\ halved = FALSE
  BY DEF Init
<1>2. /\ Len(fillRows) = 0 /\ Len(logTopic) = 0 /\ Len(fillCh) = 0 /\ Len(batch) = 0 /\ 1 .. 0 = {}
  BY <1>1
<1>3. LastSeq(logTopic) = 0  BY <1>1 DEF LastSeq
<1>4. In(batch) = {} /\ In(fillCh) = {} /\ Sending = {}  BY <1>1, <1>2 DEF In, Sending
<1>5. Waiting = {}  BY <1>4 DEF Waiting
<1>6. PipeInv
  <2>1. PipeOrdered  BY <1>2, <1>4 DEF PipeOrdered, Increasing, Before
  <2>2. ReaderPlace  BY <1>1, <1>2, <1>3 DEF ReaderPlace
  <2>3. RowsInOrder  BY <1>2, <1>5 DEF RowsInOrder, Increasing
  <2>4. NothingLost  BY <1>2 DEF NothingLost
  <2> QED  BY <2>1, <2>2, <2>3, <2>4 DEF PipeInv
<1>7. LogTells
  <2>1. DoneLogged(logTopic, live)
    <3>1. \A i \in Ids : live[i].phase = "none"  BY <1>1
    <3> QED  BY <1>2, <3>1 DEF DoneLogged
  <2>2. TradesBalance(logTopic)
    <3>1. \A i : Traded(logTopic, i) = 0 /\ Worth(logTopic, i) = 0
      BY <1>2, <1>3, SumEmpty DEF Traded, Worth
    <3>2. PICK F : F = [i \in Ids |-> Signed(i, Traded(logTopic, i))]  OBVIOUS
    <3>3. PICK G : G = [i \in Ids |-> Signed(i, Worth(logTopic, i))]  OBVIOUS
    <3>4. \A i \in Ids : F[i] = 0 /\ G[i] = 0  BY <3>1, <3>2, <3>3 DEF Signed
    <3>5. SumFunctionOnSet(F, Ids) = 0 /\ SumFunctionOnSet(G, Ids) = 0  BY <3>4, Constants, SumZero
    <3> QED  BY <3>2, <3>3, <3>5 DEF TradesBalance
  <2> QED  BY <1>1, <2>1, <2>2 DEF LogTells
<1>8. StatusInv
  <2>1. \A i \in Ids : order[i].status = "none"  BY <1>1
  <2>2. \A i \in Ids : StatusTells(fillRows, order, i)  BY <1>2, <2>1 DEF StatusTells, Final
  <2> QED  BY <2>2 DEF StatusInv
<1>9. ASSUME NEW c \in Currencies
      PROVE  MoneyIn(account, c) + Total(bills, MoneyWeight(c)) = Supply(c) + Moved(order, c)
  <2>1. Total(bills, MoneyWeight(c)) = 0  BY <1>1, TotalEmpty
  <2>2. Moved(order, c) = 0
    <3>1. PICK F : F = [i \in Ids |-> IF c = "base" THEN Signed(i, order[i].filled)
                                                   ELSE -Signed(i, order[i].executed)]
      OBVIOUS
    <3>2. \A i \in Ids : order[i].filled = 0 /\ order[i].executed = 0  BY <1>1
    <3>3. \A i \in Ids : F[i] = 0  BY <3>1, <3>2 DEF Signed
    <3>4. SumFunctionOnSet(F, Ids) = 0  BY <3>3, Constants, SumZero
    <3> QED  BY <3>1, <3>4 DEF Moved
  <2>3. MoneyIn(account, c) = Supply(c)
    <3>1. PICK F : F = [u \in Users |-> Funding[u][c]]  OBVIOUS
    <3>2. PICK G : G = [u \in Clients |-> account[u][c].available + account[u][c].hold]  OBVIOUS
    <3>3. IsFiniteSet(Clients) /\ Users \in SUBSET Clients
      BY SettlementAssumption, FS_AddElement DEF Clients
    <3>4. \A u \in Users : F[u] \in Int /\ G[u] = F[u]
      <4> TAKE u \in Users
      <4>1. u \in Clients /\ u # House  BY SettlementAssumption DEF Clients
      <4>2. account[u][c] = [available |-> Funding[u][c], hold |-> 0]  BY <1>1, <4>1
      <4>3. F[u] = Funding[u][c] /\ F[u] \in Nat  BY <3>1, SettlementAssumption
      <4>4. G[u] = Funding[u][c] + 0  BY <3>2, <4>1, <4>2
      <4> QED  BY <4>3, <4>4
    <3>5. \A u \in Clients \ Users : G[u] = 0
      <4> TAKE u \in Clients \ Users
      <4>1. u = House  BY DEF Clients
      <4>2. account[u][c] = Zero  BY <1>1, <4>1
      <4> QED  BY <3>2, <4>2 DEF Zero
    <3>6. OnlyOn(F, Users, G, Clients)  BY <3>3, <3>4, <3>5 DEF OnlyOn
    <3>7. SumFunctionOnSet(G, Clients) = SumFunctionOnSet(F, Users)  BY <3>6, SumOnly
    <3> QED  BY <3>1, <3>2, <3>7 DEF MoneyIn, Supply
  <2>4. Supply(c) \in Int  BY <1>0, MoneyInt DEF SettleInv
  <2> QED  BY <2>1, <2>2, <2>3, <2>4
<1>10. MoneyMoves  BY <1>9 DEF MoneyMoves
<1> QED  BY <1>0, <1>6, <1>7, <1>8, <1>10 DEF WholeInv

LEMMA WholeNext == ASSUME WholeInv, [Next]_vars PROVE WholeInv'
<1>0. SettleInv /\ PipeInv /\ LogTells /\ StatusInv /\ MoneyMoves  BY DEF WholeInv
<1>1. SettleInv'  BY <1>0, NextInv
<1>2. CASE UNCHANGED vars
  <2>1. /\ account' = account /\ order' = order /\ fillRows' = fillRows /\ bills' = bills
        /\ logTopic' = logTopic /\ live' = live /\ UNCHANGED maker /\ halved' = halved
    BY <1>2 DEF vars, tables, engine
  <2>2. PipeInv'  BY <1>0, <2>1, PassSettled
  <2> QED  BY <1>0, <1>1, <2>1, <2>2, TellsFrame, SameStatus, SameMoney DEF WholeInv
<1>3. CASE Next
  <2>1. ASSUME \/ \E i \in Ids : OpenOrder(i) \/ FinishOrder(i)
               \/ \E t, m \in Ids : MatchOrders(t, m)
               \/ RepeatLogs
        PROVE  PipeInv' /\ LogTells' /\ StatusInv' /\ MoneyMoves'
    BY <2>1, WholeEngineSteps
  <2>2. ASSUME ReadRepeated \/ ReadMatch \/ SendMakerFill \/ ReadDone \/ TakeFill \/ Crash
        PROVE  PipeInv' /\ LogTells' /\ StatusInv' /\ MoneyMoves'
    BY <2>2, WholeMaker
  <2>3. ASSUME ReadOpen PROVE PipeInv' /\ LogTells' /\ StatusInv' /\ MoneyMoves'  BY <2>3, WholeOpen
  <2>4. ASSUME Flush \/ FlushUnsure PROVE PipeInv' /\ LogTells' /\ StatusInv' /\ MoneyMoves'
    BY <2>4, WholeFlush
  <2>5. ASSUME NEW i \in Ids, PlaceOrder(i) \/ ExecuteFill(i)
        PROVE  PipeInv' /\ LogTells' /\ StatusInv' /\ MoneyMoves'
    BY <2>5, WholePlace, WholeFill
  <2>6. ASSUME NEW u \in Clients, NEW c \in Currencies, ExecuteBill(u, c)
        PROVE  PipeInv' /\ LogTells' /\ StatusInv' /\ MoneyMoves'
    BY <2>6, WholeBill
  <2>7. PipeInv' /\ LogTells' /\ StatusInv' /\ MoneyMoves'
    BY <1>3, <2>1, <2>2, <2>3, <2>4, <2>5, <2>6, Zenon DEF Next
  <2> QED  BY <1>1, <2>7 DEF WholeInv
<1> QED  BY <1>2, <1>3

-----------------------------------------------------------------------------
(* When everything is settled.                                             *)

\* A reader at the end of the log has passed on every entry, and what is no
\* longer waiting is a row.
LEMMA AllRows ==
    ASSUME WholeInv, Quiet, ~ halved, NEW k \in 1 .. Len(logTopic), NEW i \in Ids, Wants(logTopic[k], i)
    PROVE  HasRow(fillRows, i, logTopic[k].seq)
<1>0. PipeInv /\ logTopic \in Seq(LogEntry)  BY DEF WholeInv, SettleInv, TypeOK
<1>1. In(batch) = {} /\ In(fillCh) = {} /\ Sending = {}
  <2>1. batch = << >> /\ fillCh = << >> /\ makerFill = NoFill  BY DEF Quiet
  <2>2. Len(<< >>) = 0 /\ 1 .. 0 = {}  OBVIOUS
  <2> QED  BY <2>1, <2>2 DEF In, Sending
<1>2. Waiting = {}  BY <1>1 DEF Waiting
<1>3. logTopic[k].seq <= lastSeq
  <2>1. readOffset = Len(logTopic)  BY DEF Quiet
  <2> QED  BY <1>0, <2>1 DEF PipeInv, ReaderPlace
<1>4. Made(i, logTopic[k].seq)  BY <1>0, <1>3 DEF PipeInv, NothingLost
<1> QED  BY <1>2, <1>4 DEF Made

\* G is zero where no x of S is taken by f.
LEMMA SumOver ==
    ASSUME NEW F, NEW G, NEW S, IsFiniteSet(S), NEW T, IsFiniteSet(T), NEW f,
           \A x \in S : f[x] \in T /\ F[x] \in Int /\ F[x] = G[f[x]],
           \A x, y \in S : f[x] = f[y] => x = y,
           \A y \in T : G[y] \in Int /\ (G[y] = 0 \/ \E x \in S : y = f[x])
    PROVE  SumFunctionOnSet(F, S) = SumFunctionOnSet(G, T)
<1>1. PICK I : I = {y \in T : \E x \in S : y = f[x]}  OBVIOUS
<1>2. SumFunctionOnSet(F, S) = SumFunctionOnSet(G, I)
  <2>1. (\A x \in S : f[x] \in I) /\ (\A y \in I : \E x \in S : y = f[x])  BY <1>1
  <2>2. \A x \in S : F[x] \in Int /\ F[x] = G[f[x]]  OBVIOUS
  <2> QED  BY <2>1, <2>2, SumImage
<1>3. SumFunctionOnSet(G, T) = SumFunctionOnSet(G, I)
  <2>1. OnlyOn(G, I, G, T)  BY <1>1 DEF OnlyOn
  <2> QED  BY <2>1, SumOnly
<1> QED  BY <1>2, <1>3

\* Then the order rows say what the log says was traded.
LEMMA AllTraded ==
    ASSUME WholeInv, Quiet, ~ halved, NEW i \in Ids
    PROVE  order[i].filled = Traded(logTopic, i) /\ order[i].executed = Worth(logTopic, i)
<1>0. /\ fillRows \in Seq(Fill) /\ Len(fillRows) \in Nat /\ LogFine(logTopic)
      /\ TypeOK /\ EngineOK /\ FillsGenuine /\ RowsUnique /\ SettledSums
  BY DEF WholeInv, SettleInv, TypeOK, EngineOK
<1>a. PICK A : A = Settled(i)  OBVIOUS
<1>b. A = {n \in 1 .. Len(fillRows) : fillRows[n].id = i}
  <2>1. \A n \in 1 .. Len(fillRows) : fillRows[n].settled
    <3>1. DOMAIN fillRows = 1 .. Len(fillRows)  BY <1>0
    <3> QED  BY <3>1 DEF Quiet
  <2> QED  BY <1>a, <2>1 DEF Settled
<1>1. IsFiniteSet(A)
  <2>1. IsFiniteSet(1 .. Len(fillRows)) /\ A \subseteq 1 .. Len(fillRows)
    BY <1>0, <1>b, FS_Interval
  <2> QED  BY <2>1, FS_Subset
<1>2. PICK T : T = 1 .. LastSeq(logTopic)  OBVIOUS
<1>3. IsFiniteSet(T)  BY <1>0, <1>2, LogSums
<1>f. PICK f : f = [n \in A |-> fillRows[n].seq]  OBVIOUS
<1>F. PICK F : F = [n \in A |-> fillRows[n].size]  OBVIOUS
<1>G. PICK G : G = [s \in T |-> SizeIn(i, Entry(logTopic, s))]  OBVIOUS
<1>J. PICK J : J = [n \in A |-> fillRows[n].size * fillRows[n].price]  OBVIOUS
<1>H. PICK H : H = [s \in T |-> ValueIn(i, Entry(logTopic, s))]  OBVIOUS
<1>4. \A s \in T : G[s] \in Nat /\ H[s] \in Nat  BY <1>0, <1>2, <1>G, <1>H, LogSums
<1>5. ASSUME NEW n \in A
      PROVE  /\ f[n] \in T /\ F[n] \in Int /\ J[n] \in Int
             /\ F[n] = G[f[n]] /\ J[n] = H[f[n]]
  <2>1. n \in 1 .. Len(fillRows) /\ fillRows[n].id = i /\ fillRows[n] \in Fill  BY <1>0, <1>b
  <2>2. PICK k \in 1 .. Len(logTopic) : FillOf(fillRows[n], logTopic[k])
    BY <1>0, <2>1 DEF FillsGenuine, AllGenuine, Genuine
  <2>3. PICK e : e = logTopic[k]  OBVIOUS
  <2>4. /\ e.seq = fillRows[n].seq /\ e.seq \in 1 .. LastSeq(logTopic)
        /\ Entry(logTopic, e.seq) = e
    <3>1. e.seq = fillRows[n].seq  BY <2>2, <2>3 DEF FillOf
    <3>2. e.seq \in 1 .. LastSeq(logTopic)  BY <1>0, <2>3 DEF LogFine
    <3>3. Entry(logTopic, e.seq) = e  BY <1>0, <2>3, EntryOf
    <3> QED  BY <3>1, <3>2, <3>3
  <2>5. fillRows[n].size \in Nat /\ fillRows[n].price \in Nat  BY <2>1 DEF Fill
  <2>6. fillRows[n].size * fillRows[n].price \in Nat  BY <2>5
  <2>7. /\ SizeIn(i, e) = fillRows[n].size
        /\ ValueIn(i, e) = fillRows[n].size * fillRows[n].price
    BY <2>1, <2>2, <2>3, <2>5 DEF FillOf, SizeIn, ValueIn
  <2> QED  BY <1>2, <1>f, <1>F, <1>G, <1>J, <1>H, <2>4, <2>5, <2>6, <2>7
<1>6. \A m, n \in A : f[m] = f[n] => m = n
  <2> TAKE m, n \in A
  <2>1. /\ m \in 1 .. Len(fillRows) /\ n \in 1 .. Len(fillRows)
        /\ fillRows[m].id = i /\ fillRows[n].id = i
    BY <1>b
  <2> QED  BY <1>0, <1>f, <2>1 DEF RowsUnique
<1>7. ASSUME NEW s \in T, ~ \E n \in A : s = f[n] PROVE G[s] = 0 /\ H[s] = 0
  <2>1. PICK k \in 1 .. Len(logTopic) : logTopic[k].seq = s  BY <1>0, <1>2 DEF LogFine
  <2>2. Entry(logTopic, s) = logTopic[k]  BY <1>0, <2>1, EntryOf
  <2>3. ~ Wants(logTopic[k], i)
    <3>1. ASSUME Wants(logTopic[k], i) PROVE FALSE
      <4>1. HasRow(fillRows, i, s)  BY <2>1, <3>1, AllRows
      <4>2. PICK n \in 1 .. Len(fillRows) : fillRows[n].id = i /\ fillRows[n].seq = s
        BY <4>1 DEF HasRow
      <4>3. n \in A /\ f[n] = s  BY <1>b, <1>f, <4>2
      <4> QED  BY <1>7, <4>3
    <3> QED  BY <3>1
  <2>4. ~ (logTopic[k].type = "match" /\ i \in {logTopic[k].taker, logTopic[k].maker})
    BY <2>3 DEF Wants
  <2> QED  BY <1>G, <1>H, <2>2, <2>4 DEF SizeIn, ValueIn
<1>8. /\ Sizes(A) = SumFunctionOnSet(F, A) /\ Values(A) = SumFunctionOnSet(J, A)
  BY <1>F, <1>J DEF Sizes, Values
<1>9. /\ Traded(logTopic, i) = SumFunctionOnSet(G, T) /\ Worth(logTopic, i) = SumFunctionOnSet(H, T)
  BY <1>2, <1>G, <1>H DEF Traded, Worth
<1>10. SumFunctionOnSet(F, A) = SumFunctionOnSet(G, T)
  <2>1. \A n \in A : f[n] \in T /\ F[n] \in Int /\ F[n] = G[f[n]]  BY <1>5
  <2>2. \A s \in T : G[s] \in Int /\ (G[s] = 0 \/ \E n \in A : s = f[n])  BY <1>4, <1>7
  <2> QED  BY <1>1, <1>3, <1>6, <2>1, <2>2, SumOver
<1>11. SumFunctionOnSet(J, A) = SumFunctionOnSet(H, T)
  <2>1. \A n \in A : f[n] \in T /\ J[n] \in Int /\ J[n] = H[f[n]]  BY <1>5
  <2>2. \A s \in T : H[s] \in Int /\ (H[s] = 0 \/ \E n \in A : s = f[n])  BY <1>4, <1>7
  <2> QED  BY <1>1, <1>3, <1>6, <2>1, <2>2, SumOver
<1>12. order[i].filled = Sizes(A) /\ order[i].executed = Values(A)  BY <1>0, <1>a DEF SettledSums
<1> QED  BY <1>8, <1>9, <1>10, <1>11, <1>12

\* The Done row of an order is of the log that says so.
LEMMA DoneRowLogged ==
    ASSUME WholeInv, NEW i \in Ids, NEW n, DoneRow(fillRows, i, n)
    PROVE  /\ live[i].phase = "done"
           /\ fillRows[n].reason = "filled" <=> Matching!UsedUp(live[i], i)
<1>0. FillsGenuine /\ DoneLogged(logTopic, live)  BY DEF WholeInv, SettleInv, LogTells
<1>1. n \in 1 .. Len(fillRows) /\ fillRows[n].id = i /\ fillRows[n].done  BY DEF DoneRow
<1>2. PICK k \in 1 .. Len(logTopic) : FillOf(fillRows[n], logTopic[k])
  BY <1>0, <1>1 DEF FillsGenuine, AllGenuine, Genuine
<1>3. /\ logTopic[k].type = "done" /\ logTopic[k].id = i
      /\ fillRows[n].reason = logTopic[k].reason
  BY <1>1, <1>2 DEF FillOf
<1>4. live[i].phase = "done"  BY <1>0, <1>3 DEF DoneLogged
<1>5. logTopic[k].reason = "filled" <=> Matching!UsedUp(live[i], i)  BY <1>0, <1>3 DEF DoneLogged
<1> QED  BY <1>3, <1>4, <1>5

\* The log that ends an order is a row, settled.
LEMMA LoggedDoneRow ==
    ASSUME WholeInv, Quiet, ~ halved, NEW i \in Ids, live[i].phase = "done"
    PROVE  \E n \in 1 .. Len(fillRows) : DoneRow(fillRows, i, n)
<1>0. FillsGenuine /\ DoneLogged(logTopic, live) /\ LogFine(logTopic) /\ fillRows \in Seq(Fill)
  BY DEF WholeInv, SettleInv, LogTells, EngineOK, TypeOK
<1>1. PICK k \in 1 .. Len(logTopic) : logTopic[k].type = "done" /\ logTopic[k].id = i
  BY <1>0 DEF DoneLogged
<1>2. HasRow(fillRows, i, logTopic[k].seq)
  <2>1. Wants(logTopic[k], i)  BY <1>1 DEF Wants
  <2> QED  BY <2>1, AllRows
<1>3. PICK n \in 1 .. Len(fillRows) : fillRows[n].id = i /\ fillRows[n].seq = logTopic[k].seq
  BY <1>2 DEF HasRow
<1>4. PICK l \in 1 .. Len(logTopic) : FillOf(fillRows[n], logTopic[l])
  BY <1>0, <1>3 DEF FillsGenuine, AllGenuine, Genuine
<1>5. logTopic[l] = logTopic[k]
  <2>1. logTopic[l].seq = logTopic[k].seq  BY <1>3, <1>4 DEF FillOf
  <2> QED  BY <1>0, <2>1 DEF LogFine
<1>6. fillRows[n].done  BY <1>1, <1>4, <1>5 DEF FillOf
<1>7. fillRows[n].settled  BY <1>0, <1>3 DEF Quiet
<1> QED  BY <1>3, <1>6, <1>7 DEF DoneRow

LEMMA InvMatchEngine == ASSUME WholeInv PROVE OrdersMatchEngine
<1> SUFFICES ASSUME Quiet, ~ halved, NEW i \in Ids, order[i].status # "none"
             PROVE  /\ Request[i].size > 0 => order[i].filled = Request[i].size - live[i].size
                    /\ Request[i].side = "buy" => order[i].executed = Request[i].funds - live[i].funds
                    /\ order[i].status \in Final <=> live[i].phase = "done"
                    /\ order[i].status = "filled" => Matching!UsedUp(live[i], i)
                    /\ order[i].status = "cancelled" <=>
                          live[i].phase = "done" /\ ~ Matching!UsedUp(live[i], i) /\ order[i].filled = 0
  BY DEF OrdersMatchEngine
<1>1. OrderOK(i, logTopic, live, order[i].status) /\ StatusTells(fillRows, order, i)
  BY DEF WholeInv, SettleInv, EngineOK, StatusInv
<1>2. order[i].filled = Traded(logTopic, i) /\ order[i].executed = Worth(logTopic, i)  BY AllTraded
<1>3. /\ Request[i].size > 0 => order[i].filled = Request[i].size - live[i].size
      /\ Request[i].side = "buy" => order[i].executed = Request[i].funds - live[i].funds
  BY <1>1, <1>2 DEF OrderOK
<1>4. order[i].status \in Final <=> live[i].phase = "done"
  BY <1>1, DoneRowLogged, LoggedDoneRow DEF StatusTells
<1>5. ASSUME order[i].status = "filled" PROVE Matching!UsedUp(live[i], i)
  BY <1>1, <1>5, DoneRowLogged DEF StatusTells
<1>6. ASSUME order[i].status \in {"cancelled", "partial"} PROVE ~ Matching!UsedUp(live[i], i)
  <2>1. PICK n : DoneRow(fillRows, i, n) /\ fillRows[n].reason = "cancelled"
    BY <1>1, <1>6 DEF StatusTells
  <2>2. fillRows[n].reason # "filled"  BY <2>1
  <2> QED  BY <2>1, <2>2, DoneRowLogged
<1>7. order[i].status = "cancelled" =>
         live[i].phase = "done" /\ ~ Matching!UsedUp(live[i], i) /\ order[i].filled = 0
  BY <1>1, <1>4, <1>6 DEF StatusTells, Final
<1>8. ASSUME live[i].phase = "done", ~ Matching!UsedUp(live[i], i), order[i].filled = 0
      PROVE  order[i].status = "cancelled"
  <2>1. order[i].status \in Final /\ order[i].status # "filled"  BY <1>4, <1>5, <1>8
  <2>2. order[i].status # "partial"  BY <1>1, <1>8 DEF StatusTells
  <2> QED  BY <2>1, <2>2 DEF Final
<1> QED  BY <1>3, <1>4, <1>5, <1>7, <1>8

LEMMA InvConserved == ASSUME WholeInv PROVE MoneyConserved
<1> SUFFICES ASSUME Quiet, ~ halved, NEW c \in Currencies PROVE Balance(c) = Supply(c)
  BY DEF MoneyConserved
<1>0. TypeOK /\ MoneyMoves /\ TradesBalance(logTopic)  BY DEF WholeInv, SettleInv, LogTells
<1>1. bills = << >>  BY DEF Quiet
<1>2. Total(bills, MoneyWeight(c)) = 0  BY <1>1, TotalEmpty
<1>3. \A i \in Ids : order[i].filled = Traded(logTopic, i) /\ order[i].executed = Worth(logTopic, i)
  BY AllTraded
<1>4. Moved(order, c) = 0
  <2>1. PICK F : F = [i \in Ids |-> IF c = "base" THEN Signed(i, order[i].filled)
                                                 ELSE -Signed(i, order[i].executed)]
    OBVIOUS
  <2>2. PICK G : G = [i \in Ids |-> Signed(i, Traded(logTopic, i))]  OBVIOUS
  <2>3. PICK H : H = [i \in Ids |-> Signed(i, Worth(logTopic, i))]  OBVIOUS
  <2>4. SumFunctionOnSet(G, Ids) = 0 /\ SumFunctionOnSet(H, Ids) = 0  BY <1>0, <2>2, <2>3 DEF TradesBalance
  <2>5. IsFiniteSet(Ids)  BY Constants
  <2>6. CASE c = "base"
    <3>1. \A i \in Ids : F[i] = G[i]  BY <1>3, <2>1, <2>2, <2>6
    <3>2. SumFunctionOnSet(F, Ids) = SumFunctionOnSet(G, Ids)  BY <2>5, <3>1, SumAgree
    <3> QED  BY <2>1, <2>4, <3>2 DEF Moved
  <2>7. CASE c # "base"
    <3>1. \A i \in Ids : H[i] \in Int
      <4> TAKE i \in Ids
      <4>1. order[i] \in OrderRow  BY <1>0 DEF TypeOK
      <4>2. order[i].executed \in Int  BY <4>1 DEF OrderRow
      <4>3. Worth(logTopic, i) \in Int  BY <1>3, <4>2
      <4> QED  BY <2>3, <4>3, SignedInt
    <3>2. \A i \in Ids : F[i] = -H[i]  BY <1>3, <2>1, <2>3, <2>7
    <3>3. \A i \in Ids : H[i] \in Int /\ F[i] = 0 - H[i]  BY <3>1, <3>2
    <3>4. SumFunctionOnSet(F, Ids) = 0 - SumFunctionOnSet(H, Ids)  BY <2>5, <3>3, SumNeg
    <3>5. SumFunctionOnSet(F, Ids) = 0  BY <2>4, <3>4
    <3> QED  BY <2>1, <3>5 DEF Moved
  <2> QED  BY <2>6, <2>7
<1>5. MoneyIn(account, c) + Total(bills, MoneyWeight(c)) = Supply(c) + Moved(order, c)
  BY <1>0 DEF MoneyMoves
<1>6. MoneyIn(account, c) \in Int /\ Supply(c) \in Int  BY <1>0, MoneyInt
<1>7. MoneyIn(account, c) = Supply(c)  BY <1>2, <1>4, <1>5, <1>6
<1> QED  BY <1>7 DEF MoneyIn, Balance

\* The rest of the inductive invariant holds throughout: fills wait in the
\* order of the log and become rows in it, and none that a log makes is lost
\* by a crash that does not fall between the two of a match; the log says of
\* an order that it is done when it is, and both sides of a match alike; an
\* order's status is that of its settled Done; balances and unpaid bills add
\* up to the funding and what orders have moved.
THEOREM WholeInvHolds == Spec => []WholeInv
<1>1. Init => WholeInv  BY WholeInit
<1>2. WholeInv /\ [Next]_vars => WholeInv'  BY WholeNext
<1> QED  BY <1>1, <1>2, PTL DEF Spec

\* Once every log is read and every fill and bill settled, each order row
\* says what the engine did to its order: sizes, funds, and its end.
THEOREM SettlementOrdersMatchEngine == Spec => []OrdersMatchEngine
<1>1. WholeInv => OrdersMatchEngine  BY InvMatchEngine
<1> QED  BY <1>1, WholeInvHolds, PTL

\* Then the accounts hold, fees included, what they held at the start.
THEOREM SettlementMoneyConserved == Spec => []MoneyConserved
<1>1. WholeInv => MoneyConserved  BY InvConserved
<1> QED  BY <1>1, WholeInvHolds, PTL
=============================================================================
