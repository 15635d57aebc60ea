----------------------------- MODULE SumProofs ------------------------------
(***************************************************************************)
(* Facts about sums over finite sets (SumFunctionOnSet of the community   *)
(* modules), which the models use for what the code adds up in loops.     *)
(*                                                                        *)
(* Every induction here is by a least counterexample.                     *)
(***************************************************************************)
EXTENDS Functions, Integers, FiniteSets, FiniteSetTheorems, WellFoundedInduction, TLAPS

\* A non-empty set of naturals has a least member.
LEMMA NatMin ==
    ASSUME NEW S \in SUBSET Nat, S # {}
    PROVE  \E m \in S : \A n \in S : m <= n
<1> DEFINE R == OpToRel(<, Nat)
<1>1. IsWellFoundedOn(R, Nat)  BY NatLessThanWellFounded
<1>2. ASSUME NEW x \in Nat, NEW y \in Nat, <<y, x>> \notin R PROVE x <= y
  BY <1>2 DEF OpToRel
<1> HIDE DEF R
<1>3. PICK m \in S : \A y \in S : ~ (<<y, m>> \in R)  BY <1>1, WFMin
<1> QED  BY <1>2, <1>3

\* A non-empty collection of subsets of a finite set has a member that leaves
\* the collection with any element taken away.
LEMMA MinimalSet ==
    ASSUME NEW S, IsFiniteSet(S), NEW C \in SUBSET (SUBSET S), C # {}
    PROVE  \E s \in C : IsFiniteSet(s) /\ \A x \in s : s \ {x} \notin C
<1>1. \A s \in C : IsFiniteSet(s) /\ Cardinality(s) \in Nat
  BY FS_Subset, FS_CardinalityType
<1> DEFINE N == {Cardinality(s) : s \in C}
<1>2. N \in SUBSET Nat /\ N # {}  BY <1>1
<1>3. PICK m \in N : \A n \in N : m <= n
  <2> HIDE DEF N
  <2> QED  BY <1>2, NatMin
<1>4. PICK s \in C : m = Cardinality(s)  BY <1>3
<1>5. ASSUME NEW x \in s, s \ {x} \in C PROVE FALSE
  <2>1. Cardinality(s \ {x}) = Cardinality(s) - 1  BY <1>1, <1>4, FS_RemoveElement
  <2>2. Cardinality(s \ {x}) \in N  BY <1>5
  <2>3. m <= Cardinality(s \ {x})  BY <1>3, <2>2
  <2>4. Cardinality(s) \in Nat  BY <1>1
  <2> QED  BY <1>4, <2>1, <2>3, <2>4
<1> QED  BY <1>1, <1>5

Pick(s) == CHOOSE x \in s : TRUE

LEMMA PickIn == ASSUME NEW s, s # {} PROVE Pick(s) \in s
  BY DEF Pick

\* g adds F up over the subsets of S, element by element.
IsSum(g, F, S) ==
    g = [s \in SUBSET S |-> IF s = {} THEN 0 ELSE F[Pick(s)] + g[s \ {Pick(s)}]]

IsSumUpTo(g, F, S, n) ==
    g = [s \in {t \in SUBSET S : Cardinality(t) <= n} |->
            IF s = {} THEN 0 ELSE F[Pick(s)] + g[s \ {Pick(s)}]]

\* Such a function exists: it is built cardinality by cardinality.
LEMMA SumExists == ASSUME NEW F, NEW S, IsFiniteSet(S) PROVE \E g : IsSum(g, F, S)
<1>1. \A s \in SUBSET S : IsFiniteSet(s) /\ Cardinality(s) \in Nat /\ Cardinality(s) <= Cardinality(S)
  BY FS_Subset, FS_CardinalityType
<1>2. \A s \in SUBSET S : \A x \in s : s \ {x} \in SUBSET S /\ Cardinality(s \ {x}) = Cardinality(s) - 1
  BY <1>1, FS_RemoveElement
<1>3. \A s \in SUBSET S : Cardinality(s) = 0 <=> s = {}
  BY <1>1, FS_EmptySet
<1>4. \E g : IsSumUpTo(g, F, S, 0)
  <2> DEFINE g == [s \in {t \in SUBSET S : Cardinality(t) <= 0} |-> 0]
  <2>1. \A s \in SUBSET S : Cardinality(s) <= 0 => s = {}  BY <1>1, <1>3
  <2>2. IsSumUpTo(g, F, S, 0)  BY <2>1 DEF IsSumUpTo
  <2> QED  BY <2>2
<1>5. ASSUME NEW n \in Nat, NEW g, IsSumUpTo(g, F, S, n)
      PROVE  \E h : IsSumUpTo(h, F, S, n + 1)
  <2> DEFINE D == {t \in SUBSET S : Cardinality(t) <= n}
             E == {t \in SUBSET S : Cardinality(t) <= n + 1}
             h == [s \in E |-> IF s = {} THEN 0 ELSE F[Pick(s)] + g[s \ {Pick(s)}]]
  <2>1. /\ D \subseteq E
        /\ \A s \in D : g[s] = IF s = {} THEN 0 ELSE F[Pick(s)] + g[s \ {Pick(s)}]
    <3>1. D \subseteq E  BY <1>1
    <3>2. g = [s \in D |-> IF s = {} THEN 0 ELSE F[Pick(s)] + g[s \ {Pick(s)}]]
      BY <1>5 DEF IsSumUpTo
    <3> HIDE DEF D, E
    <3> QED  BY <3>1, <3>2
  <2>2. \A s \in D : h[s] = g[s]  BY <2>1
  <2>3. \A s \in E : s # {} => s \ {Pick(s)} \in D
    BY <1>1, <1>2, PickIn
  <2>4. h = [s \in E |-> IF s = {} THEN 0 ELSE F[Pick(s)] + h[s \ {Pick(s)}]]
    BY <2>2, <2>3
  <2>5. IsSumUpTo(h, F, S, n + 1)
    <3> HIDE DEF h
    <3> QED  BY <2>4 DEF IsSumUpTo
  <2> QED  BY <2>5
<1>6. \E g : IsSumUpTo(g, F, S, Cardinality(S))
  <2> DEFINE N == {n \in Nat : ~ \E g : IsSumUpTo(g, F, S, n)}
  <2>1. CASE N # {}
    <3>0. N \in SUBSET Nat  OBVIOUS
    <3>1. PICK m \in N : \A n \in N : m <= n
      <4> HIDE DEF N
      <4> QED  BY <2>1, <3>0, NatMin
    <3>2. m # 0  BY <1>4
    <3>3. m - 1 \in Nat /\ m - 1 \notin N /\ (m - 1) + 1 = m  BY <3>1, <3>2
    <3>4. PICK g : IsSumUpTo(g, F, S, m - 1)  BY <3>3
    <3>5. \E h : IsSumUpTo(h, F, S, (m - 1) + 1)  BY <1>5, <3>3, <3>4
    <3> QED  BY <3>3, <3>5
  <2>2. CASE N = {}  BY <1>1, <2>2
  <2> QED  BY <2>1, <2>2
<1>7. {t \in SUBSET S : Cardinality(t) <= Cardinality(S)} = SUBSET S  BY <1>1
<1> QED  BY <1>6, <1>7 DEF IsSumUpTo, IsSum

\* The library's fold is such a function's value.
LEMMA SumDef ==
    ASSUME NEW F, NEW S, IsFiniteSet(S)
    PROVE  \E g : IsSum(g, F, S) /\ SumFunctionOnSet(F, S) = g[S]
<1> DEFINE it == CHOOSE g :
        g = [s \in SUBSET S |-> IF s = {} THEN 0 ELSE F[Pick(s)] + g[s \ {Pick(s)}]]
<1>1. SumFunctionOnSet(F, S) = it[S]
  BY DEF SumFunctionOnSet, FoldFunctionOnSet, MapThenFoldSet, Pick
<1>2. IsSum(it, F, S)
  <2>1. PICK h : IsSum(h, F, S)  BY SumExists
  <2> QED  BY <2>1 DEF IsSum
<1> QED  BY <1>1, <1>2

\* Two such functions agree wherever both are defined.
LEMMA SumUnique ==
    ASSUME NEW F, NEW S, NEW T, IsFiniteSet(S), NEW g, NEW h,
           IsSum(g, F, S), IsSum(h, F, T), NEW s \in SUBSET S, s \in SUBSET T
    PROVE  g[s] = h[s]
<1> DEFINE C == {t \in SUBSET s : g[t] # h[t]}
<1>1. CASE C # {}
  <2>0. IsFiniteSet(s) /\ C \in SUBSET (SUBSET s)  BY FS_Subset
  <2>1. PICK t \in C : \A x \in t : t \ {x} \notin C
    <3> HIDE DEF C
    <3> QED  BY <1>1, <2>0, MinimalSet
  <2>2. /\ t \in SUBSET S /\ t \in SUBSET T /\ g[t] # h[t]  BY <2>1
  <2>3. /\ g[t] = IF t = {} THEN 0 ELSE F[Pick(t)] + g[t \ {Pick(t)}]
        /\ h[t] = IF t = {} THEN 0 ELSE F[Pick(t)] + h[t \ {Pick(t)}]
    BY <2>2 DEF IsSum
  <2>4. t # {}  BY <2>2, <2>3
  <2>5. Pick(t) \in t /\ Pick(t) \in s  BY <2>1, <2>4, PickIn
  <2>6. g[t \ {Pick(t)}] = h[t \ {Pick(t)}]  BY <2>1, <2>5
  <2> QED  BY <2>2, <2>3, <2>4, <2>5, <2>6
<1>2. CASE C = {}  BY <1>2
<1> QED  BY <1>1, <1>2

\* The sum over no elements.
LEMMA SumEmpty == ASSUME NEW F PROVE SumFunctionOnSet(F, {}) = 0
<1>1. PICK g : IsSum(g, F, {}) /\ SumFunctionOnSet(F, {}) = g[{}]  BY SumDef, FS_EmptySet
<1> QED  BY <1>1 DEF IsSum

\* The library takes one element out.
LEMMA SumStep ==
    ASSUME NEW F, NEW S, IsFiniteSet(S), S # {}
    PROVE  SumFunctionOnSet(F, S) = F[Pick(S)] + SumFunctionOnSet(F, S \ {Pick(S)})
<1> DEFINE T == S \ {Pick(S)}
<1>0. IsFiniteSet(T)  BY FS_RemoveElement
<1>1. PICK g : IsSum(g, F, S) /\ SumFunctionOnSet(F, S) = g[S]  BY SumDef
<1>2. PICK h : IsSum(h, F, T) /\ SumFunctionOnSet(F, T) = h[T]  BY <1>0, SumDef
<1>3. g[S] = F[Pick(S)] + g[T]  BY <1>1 DEF IsSum
<1>4. g[T] = h[T]
  <2>1. T \in SUBSET S /\ T \in SUBSET T  OBVIOUS
  <2> HIDE DEF T
  <2> QED  BY <1>0, <1>1, <1>2, <2>1, SumUnique
<1> QED  BY <1>1, <1>2, <1>3, <1>4

\* The sum depends on the function's values on the set alone.
LEMMA SumAgree ==
    ASSUME NEW F, NEW G, NEW S, IsFiniteSet(S), \A x \in S : F[x] = G[x]
    PROVE  SumFunctionOnSet(F, S) = SumFunctionOnSet(G, S)
<1> DEFINE C == {t \in SUBSET S : SumFunctionOnSet(F, t) # SumFunctionOnSet(G, t)}
<1>1. CASE C # {}
  <2>0. C \in SUBSET (SUBSET S)  OBVIOUS
  <2>1. PICK t \in C : IsFiniteSet(t) /\ \A x \in t : t \ {x} \notin C
    <3> HIDE DEF C
    <3> QED  BY <1>1, <2>0, MinimalSet
  <2>2. t # {}  BY <2>1, SumEmpty
  <2>3. Pick(t) \in t /\ F[Pick(t)] = G[Pick(t)]  BY <2>1, <2>2, PickIn
  <2>4. SumFunctionOnSet(F, t \ {Pick(t)}) = SumFunctionOnSet(G, t \ {Pick(t)})
    BY <2>1, <2>3
  <2>5. /\ SumFunctionOnSet(F, t) = F[Pick(t)] + SumFunctionOnSet(F, t \ {Pick(t)})
        /\ SumFunctionOnSet(G, t) = G[Pick(t)] + SumFunctionOnSet(G, t \ {Pick(t)})
    BY <2>1, <2>2, SumStep
  <2> QED  BY <2>1, <2>3, <2>4, <2>5
<1>2. CASE C = {}  BY <1>2
<1> QED  BY <1>1, <1>2

\* A sum of integers is an integer, one of naturals a natural.
LEMMA SumInt ==
    ASSUME NEW F, NEW S, IsFiniteSet(S), \A x \in S : F[x] \in Int
    PROVE  SumFunctionOnSet(F, S) \in Int
<1> DEFINE C == {t \in SUBSET S : SumFunctionOnSet(F, t) \notin Int}
<1>1. CASE C # {}
  <2>0. C \in SUBSET (SUBSET S)  OBVIOUS
  <2>1. PICK t \in C : IsFiniteSet(t) /\ \A x \in t : t \ {x} \notin C
    <3> HIDE DEF C
    <3> QED  BY <1>1, <2>0, MinimalSet
  <2>2. t # {}  BY <2>1, SumEmpty
  <2>3. Pick(t) \in t  BY <2>2, PickIn
  <2>4. SumFunctionOnSet(F, t \ {Pick(t)}) \in Int  BY <2>1, <2>3
  <2>5. SumFunctionOnSet(F, t) = F[Pick(t)] + SumFunctionOnSet(F, t \ {Pick(t)})
    BY <2>1, <2>2, SumStep
  <2> QED  BY <2>1, <2>3, <2>4, <2>5
<1>2. CASE C = {}  BY <1>2
<1> QED  BY <1>1, <1>2

LEMMA SumNat ==
    ASSUME NEW F, NEW S, IsFiniteSet(S), \A x \in S : F[x] \in Nat
    PROVE  SumFunctionOnSet(F, S) \in Nat
<1> DEFINE C == {t \in SUBSET S : SumFunctionOnSet(F, t) \notin Nat}
<1>1. CASE C # {}
  <2>0. C \in SUBSET (SUBSET S)  OBVIOUS
  <2>1. PICK t \in C : IsFiniteSet(t) /\ \A x \in t : t \ {x} \notin C
    <3> HIDE DEF C
    <3> QED  BY <1>1, <2>0, MinimalSet
  <2>2. t # {}  BY <2>1, SumEmpty
  <2>3. Pick(t) \in t  BY <2>2, PickIn
  <2>4. SumFunctionOnSet(F, t \ {Pick(t)}) \in Nat  BY <2>1, <2>3
  <2>5. SumFunctionOnSet(F, t) = F[Pick(t)] + SumFunctionOnSet(F, t \ {Pick(t)})
    BY <2>1, <2>2, SumStep
  <2> QED  BY <2>1, <2>3, <2>4, <2>5
<1>2. CASE C = {}  BY <1>2
<1> QED  BY <1>1, <1>2

\* The order in which elements are added does not matter: any may come last.
LEMMA SumRemove ==
    ASSUME NEW F, NEW S, IsFiniteSet(S), \A x \in S : F[x] \in Int, NEW e \in S
    PROVE  SumFunctionOnSet(F, S) = F[e] + SumFunctionOnSet(F, S \ {e})
<1> DEFINE Sum(s) == SumFunctionOnSet(F, s)
           C == {t \in SUBSET S : \E x \in t : Sum(t) # F[x] + Sum(t \ {x})}
<1>1. CASE C # {}
  <2>0. C \in SUBSET (SUBSET S)  OBVIOUS
  <2>1. PICK t \in C : IsFiniteSet(t) /\ \A x \in t : t \ {x} \notin C
    <3> HIDE DEF C
    <3> QED  BY <1>1, <2>0, MinimalSet
  <2>2. PICK x \in t : Sum(t) # F[x] + Sum(t \ {x})  BY <2>1
  <2> DEFINE c == Pick(t)
             u == t \ {c, x}
  <2>3. c \in t  BY <2>2, PickIn
  <2>4. Sum(t) = F[c] + Sum(t \ {c})  BY <2>1, <2>2, SumStep
  <2>5. c # x  BY <2>2, <2>4
  <2>6. /\ t \ {c} \notin C /\ t \ {x} \notin C /\ x \in t \ {c} /\ c \in t \ {x}
        /\ (t \ {c}) \ {x} = u /\ (t \ {x}) \ {c} = u
    BY <2>1, <2>2, <2>3, <2>5
  <2>7. Sum(t \ {c}) = F[x] + Sum(u) /\ Sum(t \ {x}) = F[c] + Sum(u)
    <3>1. \A v \in SUBSET S : v \notin C => \A y \in v : Sum(v) = F[y] + Sum(v \ {y})
      OBVIOUS
    <3>2. t \ {c} \in SUBSET S /\ t \ {x} \in SUBSET S  BY <2>1
    <3> HIDE DEF C, c, u, Sum
    <3> QED  BY <2>6, <3>1, <3>2
  <2>8. Sum(u) \in Int
    <3>1. IsFiniteSet(u) /\ u \in SUBSET S  BY <2>1, FS_Subset
    <3> QED  BY <3>1, SumInt
  <2>9. F[c] \in Int /\ F[x] \in Int  BY <2>1, <2>2, <2>3
  <2> HIDE DEF c, u, Sum
  <2> QED  BY <2>2, <2>4, <2>7, <2>8, <2>9
<1>2. CASE C = {}  BY <1>2
<1> QED  BY <1>1, <1>2

\* Adding an element.
LEMMA SumAdd ==
    ASSUME NEW F, NEW S, IsFiniteSet(S), NEW e, e \notin S, \A x \in S \cup {e} : F[x] \in Int
    PROVE  SumFunctionOnSet(F, S \cup {e}) = F[e] + SumFunctionOnSet(F, S)
<1>1. IsFiniteSet(S \cup {e}) /\ (S \cup {e}) \ {e} = S  BY FS_AddElement
<1> QED  BY <1>1, SumRemove

\* Changing the value of one element.
LEMMA SumChange ==
    ASSUME NEW F, NEW G, NEW S, IsFiniteSet(S), NEW e \in S,
           \A x \in S : F[x] \in Int /\ G[x] \in Int,
           \A x \in S \ {e} : F[x] = G[x]
    PROVE  SumFunctionOnSet(G, S) = SumFunctionOnSet(F, S) - F[e] + G[e]
<1>1. IsFiniteSet(S \ {e})  BY FS_RemoveElement
<1>2. SumFunctionOnSet(F, S) = F[e] + SumFunctionOnSet(F, S \ {e})  BY SumRemove
<1>3. SumFunctionOnSet(G, S) = G[e] + SumFunctionOnSet(G, S \ {e})  BY SumRemove
<1>4. SumFunctionOnSet(F, S \ {e}) = SumFunctionOnSet(G, S \ {e})  BY <1>1, SumAgree
<1>5. SumFunctionOnSet(F, S \ {e}) \in Int  BY <1>1, SumInt
<1> QED  BY <1>2, <1>3, <1>4, <1>5

\* No term of a sum of naturals exceeds it.
LEMMA SumTerm ==
    ASSUME NEW F, NEW S, IsFiniteSet(S), \A x \in S : F[x] \in Nat, NEW e \in S
    PROVE  F[e] <= SumFunctionOnSet(F, S)
<1>1. IsFiniteSet(S \ {e})  BY FS_RemoveElement
<1>2. SumFunctionOnSet(F, S) = F[e] + SumFunctionOnSet(F, S \ {e})  BY SumRemove
<1>3. SumFunctionOnSet(F, S \ {e}) \in Nat  BY <1>1, SumNat
<1> QED  BY <1>2, <1>3

\* The sum over two sets without a common element.
LEMMA SumDisjoint ==
    ASSUME NEW F, NEW S, NEW T, IsFiniteSet(S), IsFiniteSet(T), S \cap T = {},
           \A x \in S \cup T : F[x] \in Int
    PROVE  SumFunctionOnSet(F, S \cup T) = SumFunctionOnSet(F, S) + SumFunctionOnSet(F, T)
<1> DEFINE Sum(s) == SumFunctionOnSet(F, s)
           C == {t \in SUBSET T : Sum(S \cup t) # Sum(S) + Sum(t)}
<1>1. CASE C # {}
  <2>0. C \in SUBSET (SUBSET T)  OBVIOUS
  <2>1. PICK t \in C : IsFiniteSet(t) /\ \A x \in t : t \ {x} \notin C
    <3> HIDE DEF C
    <3> QED  BY <1>1, <2>0, MinimalSet
  <2>2. Sum(S) \in Int  BY SumInt
  <2>3. t # {}
    <3>1. S \cup {} = S  OBVIOUS
    <3> QED  BY <2>1, <2>2, <3>1, SumEmpty
  <2>4. PICK x : x \in t  BY <2>3
  <2> DEFINE u == t \ {x}
  <2>5. /\ IsFiniteSet(u) /\ u \subseteq T /\ u \notin C /\ x \notin u /\ x \notin S \cup u
        /\ u \cup {x} = t /\ (S \cup u) \cup {x} = S \cup t /\ IsFiniteSet(S \cup u)
    <3>1. IsFiniteSet(u)  BY <2>1, FS_RemoveElement
    <3>2. IsFiniteSet(S \cup u)  BY <3>1, FS_Union
    <3> QED  BY <2>1, <2>4, <3>1, <3>2
  <2>6. Sum(S \cup u) = Sum(S) + Sum(u)  BY <2>5
  <2>7. \A y \in (S \cup u) \cup {x} : F[y] \in Int  BY <2>1, <2>5
  <2>8. Sum(S \cup t) = F[x] + Sum(S \cup u)
    <3> HIDE DEF u, C
    <3> QED  BY <2>5, <2>7, SumAdd
  <2>9. Sum(t) = F[x] + Sum(u)
    <3>1. \A y \in u \cup {x} : F[y] \in Int  BY <2>7
    <3> HIDE DEF u, C
    <3> QED  BY <2>5, <3>1, SumAdd
  <2>10. Sum(u) \in Int
    <3>1. \A y \in u : F[y] \in Int  BY <2>7
    <3> HIDE DEF u
    <3> QED  BY <2>5, <3>1, SumInt
  <2>11. Sum(S \cup t) # Sum(S) + Sum(t)  BY <2>1
  <2>12. F[x] \in Int  BY <2>7
  <2> HIDE DEF Sum, u, C
  <2> QED  BY <2>2, <2>6, <2>8, <2>9, <2>10, <2>11, <2>12
<1>2. CASE C = {}  BY <1>2
<1> QED  BY <1>1, <1>2

\* A sum of naturals over a part of a set.
LEMMA SumPart ==
    ASSUME NEW F, NEW S, IsFiniteSet(S), \A x \in S : F[x] \in Nat, NEW T \in SUBSET S
    PROVE  SumFunctionOnSet(F, T) <= SumFunctionOnSet(F, S)
<1>1. IsFiniteSet(T) /\ IsFiniteSet(S \ T)  BY FS_Subset
<1>2. T \cup (S \ T) = S /\ T \cap (S \ T) = {}  OBVIOUS
<1>3. SumFunctionOnSet(F, S) = SumFunctionOnSet(F, T) + SumFunctionOnSet(F, S \ T)
  BY <1>1, <1>2, SumDisjoint
<1>4. SumFunctionOnSet(F, T) \in Nat /\ SumFunctionOnSet(F, S \ T) \in Nat
  BY <1>1, SumNat
<1> QED  BY <1>3, <1>4

\* A sum may be taken along an injection.
LEMMA SumImage ==
    ASSUME NEW F, NEW G, NEW S, IsFiniteSet(S), NEW f,
           \A x \in S : F[x] \in Int /\ F[x] = G[f[x]],
           \A x, y \in S : f[x] = f[y] => x = y,
           NEW T, \A x \in S : f[x] \in T, \A y \in T : \E x \in S : y = f[x]
    PROVE  SumFunctionOnSet(F, S) = SumFunctionOnSet(G, T)
<1> DEFINE Im(s) == {f[x] : x \in s}
           C == {t \in SUBSET S : SumFunctionOnSet(F, t) # SumFunctionOnSet(G, Im(t))}
<1>1. CASE C # {}
  <2>0. C \in SUBSET (SUBSET S)  OBVIOUS
  <2>1. PICK t \in C : IsFiniteSet(t) /\ \A x \in t : t \ {x} \notin C
    <3> HIDE DEF C
    <3> QED  BY <1>1, <2>0, MinimalSet
  <2>2. t # {}
    <3>1. Im({}) = {}  OBVIOUS
    <3> QED  BY <2>1, <3>1, SumEmpty
  <2>3. PICK x : x \in t  BY <2>2
  <2> DEFINE u == t \ {x}
  <2>4. /\ IsFiniteSet(u) /\ IsFiniteSet(Im(u)) /\ t \subseteq S /\ u \subseteq S /\ u \notin C
    <3>1. IsFiniteSet(u) /\ t \subseteq S /\ u \subseteq S /\ u \notin C
      BY <2>1, <2>3, FS_RemoveElement
    <3>2. [y \in u |-> f[y]] \in Surjection(u, Im(u))  BY DEF Surjection
    <3>3. IsFiniteSet(Im(u))
      <4> HIDE DEF u, Im, C
      <4> QED  BY <3>1, <3>2, FS_Surjection
    <3> QED  BY <3>1, <3>3
  <2>5. Im(t) = Im(u) \cup {f[x]}  BY <2>3
  <2>6. f[x] \notin Im(u)  BY <2>3, <2>4
  <2>7. \A y \in Im(u) \cup {f[x]} : G[y] \in Int  BY <2>3, <2>4
  <2>8. SumFunctionOnSet(G, Im(t)) = G[f[x]] + SumFunctionOnSet(G, Im(u))
    <3> HIDE DEF Im, u, C
    <3> QED  BY <2>4, <2>5, <2>6, <2>7, SumAdd
  <2>9. SumFunctionOnSet(F, t) = F[x] + SumFunctionOnSet(F, u)
    BY <2>1, <2>3, <2>4, SumRemove
  <2>10. SumFunctionOnSet(F, u) = SumFunctionOnSet(G, Im(u))  BY <2>4
  <2>11. SumFunctionOnSet(F, t) # SumFunctionOnSet(G, Im(t))  BY <2>1
  <2>12. F[x] = G[f[x]]  BY <2>3, <2>4
  <2> HIDE DEF Im, u, C
  <2> QED  BY <2>8, <2>9, <2>10, <2>11, <2>12
<1>2. CASE C = {}
  <2>1. SumFunctionOnSet(F, S) = SumFunctionOnSet(G, Im(S))  BY <1>2
  <2>2. Im(S) = T  OBVIOUS
  <2> QED  BY <2>1, <2>2
<1> QED  BY <1>1, <1>2

\* A sum of zeros.
LEMMA SumZero ==
    ASSUME NEW F, NEW S, IsFiniteSet(S), \A x \in S : F[x] = 0
    PROVE  SumFunctionOnSet(F, S) = 0
<1> DEFINE C == {t \in SUBSET S : SumFunctionOnSet(F, t) # 0}
<1>1. CASE C # {}
  <2>0. C \in SUBSET (SUBSET S)  OBVIOUS
  <2>1. PICK t \in C : IsFiniteSet(t) /\ \A x \in t : t \ {x} \notin C
    <3> HIDE DEF C
    <3> QED  BY <1>1, <2>0, MinimalSet
  <2>2. t # {}  BY <2>1, SumEmpty
  <2>3. Pick(t) \in t  BY <2>2, PickIn
  <2>4. SumFunctionOnSet(F, t \ {Pick(t)}) = 0  BY <2>1, <2>3
  <2>5. SumFunctionOnSet(F, t) = F[Pick(t)] + SumFunctionOnSet(F, t \ {Pick(t)})
    BY <2>1, <2>2, SumStep
  <2>6. F[Pick(t)] = 0 /\ SumFunctionOnSet(F, t) # 0  BY <2>1, <2>3
  <2> QED  BY <2>4, <2>5, <2>6
<1>2. CASE C = {}  BY <1>2
<1> QED  BY <1>1, <1>2

\* A sum over a part of a set is one over the set, with zeros elsewhere.
LEMMA SumWhere ==
    ASSUME NEW F, NEW G, NEW S, IsFiniteSet(S), NEW T \in SUBSET S,
           \A x \in T : F[x] \in Int /\ G[x] = F[x], \A x \in S \ T : G[x] = 0
    PROVE  SumFunctionOnSet(G, S) = SumFunctionOnSet(F, T)
<1>1. IsFiniteSet(T) /\ IsFiniteSet(S \ T)  BY FS_Subset
<1>2. T \cup (S \ T) = S /\ T \cap (S \ T) = {}  OBVIOUS
<1>3. \A x \in T \cup (S \ T) : G[x] \in Int  OBVIOUS
<1>4. SumFunctionOnSet(G, S) = SumFunctionOnSet(G, T) + SumFunctionOnSet(G, S \ T)
  BY <1>1, <1>2, <1>3, SumDisjoint
<1>5. SumFunctionOnSet(G, S \ T) = 0  BY <1>1, SumZero
<1>6. SumFunctionOnSet(G, T) = SumFunctionOnSet(F, T)  BY <1>1, SumAgree
<1>7. SumFunctionOnSet(F, T) \in Int  BY <1>1, SumInt
<1> QED  BY <1>4, <1>5, <1>6, <1>7

\* A sum of naturals that an injection takes to terms of another one.
LEMMA SumInto ==
    ASSUME NEW F, NEW G, NEW S, IsFiniteSet(S), NEW T, IsFiniteSet(T), NEW f,
           \A x \in S : f[x] \in T /\ F[x] = G[f[x]],
           \A x, y \in S : f[x] = f[y] => x = y,
           \A y \in T : G[y] \in Nat
    PROVE  SumFunctionOnSet(F, S) \in Nat /\ SumFunctionOnSet(F, S) <= SumFunctionOnSet(G, T)
<1>1. PICK I : I = {f[x] : x \in S}  OBVIOUS
<1>2. I \in SUBSET T  BY <1>1
<1>3. \A x \in S : F[x] \in Nat /\ F[x] \in Int /\ F[x] = G[f[x]]  OBVIOUS
<1>4. (\A x \in S : f[x] \in I) /\ (\A y \in I : \E x \in S : y = f[x])  BY <1>1
<1>5. SumFunctionOnSet(F, S) = SumFunctionOnSet(G, I)  BY <1>3, <1>4, SumImage
<1>6. SumFunctionOnSet(G, I) <= SumFunctionOnSet(G, T)  BY <1>2, SumPart
<1>7. SumFunctionOnSet(F, S) \in Nat  BY <1>3, SumNat
<1> QED  BY <1>5, <1>6, <1>7

\* What is taken is added with the opposite sign.
LEMMA SumNeg ==
    ASSUME NEW F, NEW G, NEW S, IsFiniteSet(S), \A x \in S : F[x] \in Int /\ G[x] = 0 - F[x]
    PROVE  SumFunctionOnSet(G, S) = 0 - SumFunctionOnSet(F, S)
<1> DEFINE C == {t \in SUBSET S : SumFunctionOnSet(G, t) # 0 - SumFunctionOnSet(F, t)}
<1>1. CASE C # {}
  <2>0. C \in SUBSET (SUBSET S)  OBVIOUS
  <2>1. PICK t \in C : IsFiniteSet(t) /\ \A x \in t : t \ {x} \notin C
    <3> HIDE DEF C
    <3> QED  BY <1>1, <2>0, MinimalSet
  <2>2. t # {}
    <3>1. SumFunctionOnSet(G, {}) = 0 /\ SumFunctionOnSet(F, {}) = 0  BY SumEmpty
    <3> QED  BY <2>1, <3>1
  <2>3. PICK e \in t : TRUE  BY <2>2
  <2>4. \A x \in t : F[x] \in Int /\ G[x] \in Int /\ G[x] = 0 - F[x]  OBVIOUS
  <2>5. SumFunctionOnSet(F, t) = F[e] + SumFunctionOnSet(F, t \ {e})  BY <2>1, <2>4, SumRemove
  <2>6. SumFunctionOnSet(G, t) = G[e] + SumFunctionOnSet(G, t \ {e})  BY <2>1, <2>4, SumRemove
  <2>7. SumFunctionOnSet(G, t \ {e}) = 0 - SumFunctionOnSet(F, t \ {e})  BY <2>1
  <2>8. SumFunctionOnSet(F, t \ {e}) \in Int
    <3>1. IsFiniteSet(t \ {e})  BY <2>1, FS_RemoveElement
    <3> QED  BY <2>4, <3>1, SumInt
  <2>9. SumFunctionOnSet(G, t) # 0 - SumFunctionOnSet(F, t)  BY <2>1
  <2>10. F[e] \in Int /\ G[e] = 0 - F[e]  BY <2>4
  <2> HIDE DEF C
  <2> QED  BY <2>5, <2>6, <2>7, <2>8, <2>9, <2>10
<1>2. CASE C = {}
  <2>1. S \notin C  BY <1>2
  <2> QED  BY <2>1
<1> QED  BY <1>1, <1>2

\* Two sums are taken together.
LEMMA SumBoth ==
    ASSUME NEW F, NEW G, NEW H, NEW S, IsFiniteSet(S),
           \A x \in S : F[x] \in Int /\ G[x] \in Int /\ H[x] = F[x] + G[x]
    PROVE  SumFunctionOnSet(H, S) = SumFunctionOnSet(F, S) + SumFunctionOnSet(G, S)
<1> DEFINE C == {t \in SUBSET S : SumFunctionOnSet(H, t) # SumFunctionOnSet(F, t) + SumFunctionOnSet(G, t)}
<1>1. CASE C # {}
  <2>0. C \in SUBSET (SUBSET S)  OBVIOUS
  <2>1. PICK t \in C : IsFiniteSet(t) /\ \A x \in t : t \ {x} \notin C
    <3> HIDE DEF C
    <3> QED  BY <1>1, <2>0, MinimalSet
  <2>2. t # {}
    <3>1. SumFunctionOnSet(H, {}) = 0 /\ SumFunctionOnSet(F, {}) = 0 /\ SumFunctionOnSet(G, {}) = 0
      BY SumEmpty
    <3> QED  BY <2>1, <3>1
  <2>3. PICK e \in t : TRUE  BY <2>2
  <2>4. \A x \in t : F[x] \in Int /\ G[x] \in Int /\ H[x] \in Int /\ H[x] = F[x] + G[x]  OBVIOUS
  <2>5. SumFunctionOnSet(F, t) = F[e] + SumFunctionOnSet(F, t \ {e})  BY <2>1, <2>4, SumRemove
  <2>6. SumFunctionOnSet(G, t) = G[e] + SumFunctionOnSet(G, t \ {e})  BY <2>1, <2>4, SumRemove
  <2>7. SumFunctionOnSet(H, t) = H[e] + SumFunctionOnSet(H, t \ {e})  BY <2>1, <2>4, SumRemove
  <2>8. SumFunctionOnSet(H, t \ {e}) = SumFunctionOnSet(F, t \ {e}) + SumFunctionOnSet(G, t \ {e})
    BY <2>1
  <2>9. SumFunctionOnSet(F, t \ {e}) \in Int /\ SumFunctionOnSet(G, t \ {e}) \in Int
    <3>1. IsFiniteSet(t \ {e})  BY <2>1, FS_RemoveElement
    <3> QED  BY <2>4, <3>1, SumInt
  <2>10. SumFunctionOnSet(H, t) # SumFunctionOnSet(F, t) + SumFunctionOnSet(G, t)  BY <2>1
  <2>11. F[e] \in Int /\ G[e] \in Int /\ H[e] = F[e] + G[e]  BY <2>4
  <2> HIDE DEF C
  <2> QED  BY <2>5, <2>6, <2>7, <2>8, <2>9, <2>10, <2>11
<1>2. CASE C = {}
  <2>1. S \notin C  BY <1>2
  <2> QED  BY <2>1
<1> QED  BY <1>1, <1>2
=============================================================================
