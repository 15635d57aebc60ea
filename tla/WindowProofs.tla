---------------------------- MODULE WindowProofs ----------------------------
(***************************************************************************)
(* The ring bitmap of matching/window.go is an exact sliding window, for  *)
(* every capacity and every set of ids.                                   *)
(***************************************************************************)
EXTENDS Window, TLAPS

-----------------------------------------------------------------------------
(* Residues modulo Cap.                                                    *)

\* An integer is its quotient times Cap plus its residue, a bit of the ring
\* (the index val % w.Cap of window.go).
LEMMA DivMod ==
    ASSUME NEW v \in Int
    PROVE  /\ v % Cap \in Bits
           /\ v \div Cap \in Int
           /\ v = Cap * (v \div Cap) + (v % Cap)
  BY WindowAssumption DEF Bits

\* A multiple of Cap strictly between -Cap and Cap is zero.
LEMMA SmallMultiple ==
    ASSUME NEW k \in Int, Cap * k < Cap, -Cap < Cap * k
    PROVE  k = 0
<1>1. CASE k >= 1
  <2>1. Cap * k >= Cap  BY <1>1, WindowAssumption
  <2> QED  BY <2>1, WindowAssumption
<1>2. CASE k <= -1
  <2>1. Cap * k <= -Cap  BY <1>2, WindowAssumption
  <2> QED  BY <2>1, WindowAssumption
<1> QED  BY <1>1, <1>2

\* Two ids less than Cap apart never share a bit unless they are equal: one
\* bit per id is enough for the ids the window covers.
LEMMA ResidueInjective ==
    ASSUME NEW i \in Int, NEW j \in Int, i - j < Cap, j - i < Cap,
           i % Cap = j % Cap
    PROVE  i = j
<1> DEFINE q == (i \div Cap) - (j \div Cap)
<1>1. q \in Int /\ i - j = Cap * q
  BY DivMod, WindowAssumption
<1>2. Cap * q < Cap /\ -Cap < Cap * q
  BY <1>1, WindowAssumption
<1>3. q = 0
  BY <1>1, <1>2, SmallMultiple
<1> QED  BY <1>1, <1>3, WindowAssumption

\* Any Cap consecutive ids include one for every bit: a slide by Cap or more
\* clears the whole ring.
LEMMA ResidueSurjective ==
    ASSUME NEW v \in Nat, NEW m \in Nat
    PROVE  \E i \in m .. m + Cap - 1 : i % Cap = v % Cap
<1> DEFINE s == (v - m) % Cap
           i == m + s
<1>1. s \in Bits /\ (v - m) \div Cap \in Int /\ v - m = Cap * ((v - m) \div Cap) + s
  BY DivMod
<1>2. i \in m .. m + Cap - 1
  BY <1>1, WindowAssumption DEF Bits
<1>3. i % Cap = v % Cap
  <2> DEFINE a == v \div Cap
             b == i \div Cap
             c == (v - m) \div Cap
  <2>1. /\ a \in Int /\ b \in Int /\ c \in Int
        /\ v = Cap * a + (v % Cap) /\ v % Cap \in Bits
        /\ i = Cap * b + (i % Cap) /\ i % Cap \in Bits
        /\ v - i = Cap * c
    <3>1. i \in Int /\ v \in Int  BY <1>2
    <3>2. v - i = Cap * c
      <4> HIDE DEF s
      <4> QED  BY <1>1, WindowAssumption DEF Bits
    <3>3. c \in Int  BY <1>1
    <3> HIDE DEF s, i, c
    <3> QED  BY <3>1, <3>2, <3>3, DivMod
  <2> HIDE DEF a, b, c, i, s
  <2> DEFINE d == c - a + b
  <2>2. d \in Int /\ (i % Cap) - (v % Cap) = Cap * (-d) /\ -d \in Int
    <3>1. Cap * (a - b - c) = Cap * a - Cap * b - Cap * c
      BY <2>1, WindowAssumption
    <3>2. a - b - c = -d
      BY <2>1
    <3> QED  BY <2>1, <3>1, <3>2, <1>2, WindowAssumption DEF Bits
  <2>3. Cap * (-d) < Cap /\ -Cap < Cap * (-d)
    BY <2>1, <2>2, WindowAssumption DEF Bits
  <2>4. -d = 0
    <3> HIDE DEF d
    <3> QED  BY <2>2, <2>3, SmallMultiple
  <2> QED  BY <2>1, <2>2, <2>4, WindowAssumption DEF Bits
<1> QED  BY <1>2, <1>3
-----------------------------------------------------------------------------
(* The inductive invariant.  ContainsExact is not inductive by itself: it  *)
(* says nothing of the bits of ids nobody puts, which a slide relies on.   *)

AcceptedBelowMax == \A v \in accepted : v < Max

BitsExact == \A v \in Min .. Max - 1 : Bitmap[v % Cap] <=> v \in accepted

IndInv == TypeOK /\ AcceptedBelowMax /\ BitsExact

\* newWindow establishes the invariant.
LEMMA InitIndInv == Init => IndInv
<1> SUFFICES ASSUME Init PROVE IndInv  OBVIOUS
<1>1. TypeOK  BY WindowAssumption DEF Init, TypeOK
<1>2. AcceptedBelowMax  BY WindowAssumption DEF Init, AcceptedBelowMax
<1>3. BitsExact
  <2> SUFFICES ASSUME NEW v \in Min .. Max - 1 PROVE ~ Bitmap[v % Cap]
    BY DEF Init, BitsExact
  <2>1. v % Cap \in Bits  BY DivMod, WindowAssumption DEF Init
  <2> QED  BY <2>1 DEF Init
<1> QED  BY <1>1, <1>2, <1>3 DEF IndInv

\* The bits a slide clears: those of the ids that leave the window and of
\* no id that stays, and those of every id that enters it.
LEMMA SlideClears ==
    ASSUME IndInv, NEW val \in Nat, val >= Max,
           NEW v \in Nat, v >= Min + (val - Max + 1), v <= val
    PROVE  (v % Cap) \in SlidPast(val - Max + 1) <=> v >= Max
<1> DEFINE delta == val - Max + 1
           rd == IF delta > Cap THEN Cap ELSE delta
<1>1. /\ Min \in Nat /\ Max \in Nat /\ Max = Min + Cap /\ Cap \in Nat /\ Cap > 0
      /\ delta \in Nat /\ delta > 0 /\ rd \in Nat
  BY WindowAssumption DEF IndInv, TypeOK
<1>2. SlidPast(delta) = {i % Cap : i \in Min .. Min + rd - 1}
  BY DEF SlidPast
<1>3. CASE v < Max
  <2>1. ASSUME NEW i \in Min .. Min + rd - 1 PROVE i % Cap # v % Cap
    <3>1. i \in Int /\ v \in Int /\ i # v /\ i - v < Cap /\ v - i < Cap
      BY <1>1, <1>3
    <3> QED  BY <3>1, ResidueInjective
  <2> QED  BY <1>2, <2>1, <1>3, <1>1
<1>4. CASE v >= Max
  <2>1. PICK i \in Min .. Min + Cap - 1 : i % Cap = v % Cap
    BY <1>1, ResidueSurjective
  <2>2. CASE delta >= Cap
    <3>1. rd = Cap  BY <2>2, <1>1
    <3> QED  BY <2>1, <3>1, <1>2, <1>4
  <2>3. CASE delta < Cap
    <3>1. rd = delta  BY <2>3, <1>1
    <3>2. i < Min + delta
      \* Otherwise i and v are both within the last Cap ids up to val.
      <4> SUFFICES ASSUME i >= Min + delta PROVE FALSE  BY <1>1
      <4>1. i - v < Cap /\ v - i < Cap /\ i # v /\ i \in Int /\ v \in Int
        BY <1>1, <1>4
      <4> QED  BY <4>1, <2>1, ResidueInjective
    <3>3. i \in Min .. Min + rd - 1  BY <3>1, <3>2, <1>1
    <3> QED  BY <3>3, <2>1, <1>2, <1>4
  <2> QED  BY <2>2, <2>3, <1>1
<1> QED  BY <1>3, <1>4, <1>1

\* A slide keeps the invariant.
LEMMA SlideIndInv ==
    ASSUME IndInv, NEW val \in Ids, putSlide(val) PROVE IndInv'
<1> DEFINE delta == val - Max + 1
<1>1. /\ val \in Nat /\ Min \in Nat /\ Max \in Nat /\ Max = Min + Cap
      /\ Cap \in Nat /\ Cap > 0 /\ val >= Max /\ delta \in Nat /\ delta > 0
      /\ Min' = Min + delta /\ Max' = Max + delta /\ Max' = val + 1
      /\ accepted' = accepted \cup {val}
  BY WindowAssumption DEF IndInv, TypeOK, putSlide
<1>2. TypeOK'
  BY <1>1 DEF IndInv, TypeOK, putSlide, Bits
<1>3. AcceptedBelowMax'
  <2>1. accepted \subseteq Nat  BY WindowAssumption DEF IndInv, TypeOK
  <2> QED  BY <1>1, <2>1 DEF IndInv, AcceptedBelowMax
<1>4. BitsExact'
  <2> SUFFICES ASSUME NEW v \in Min' .. Max' - 1
               PROVE  Bitmap'[v % Cap] <=> v \in accepted'
    BY DEF BitsExact
  <2>1. v \in Nat /\ v >= Min + delta /\ v <= val /\ v % Cap \in Bits
    BY <1>1, DivMod
  <2>2. Bitmap'[v % Cap] <=> \/ v % Cap = val % Cap
                             \/ Bitmap[v % Cap] /\ v % Cap \notin SlidPast(delta)
    BY <2>1 DEF putSlide
  <2>3. v % Cap = val % Cap <=> v = val
    <3>1. v - val < Cap /\ val - v < Cap  BY <2>1, <1>1
    <3> QED  BY <3>1, <2>1, <1>1, ResidueInjective
  <2>4. v % Cap \in SlidPast(delta) <=> v >= Max
    BY <2>1, <1>1, SlideClears
  <2>5. CASE v >= Max
    <3>1. v \notin accepted  BY <2>5, <2>1, <1>1 DEF IndInv, AcceptedBelowMax
    <3> QED  BY <3>1, <2>2, <2>3, <2>4, <2>5, <1>1
  <2>6. CASE v < Max
    <3>1. v \in Min .. Max - 1  BY <2>6, <2>1, <1>1
    <3>2. Bitmap[v % Cap] <=> v \in accepted  BY <3>1 DEF IndInv, BitsExact
    <3> HIDE DEF delta
    <3>3. v \notin {w \in Nat : w >= Max}  BY <2>6, <2>1, <1>1
    <3>4. v % Cap \notin SlidPast(delta)  BY <2>4, <2>6, <2>1, <1>1
    <3> QED  BY <3>2, <3>4, <2>2, <2>3, <1>1
  <2> QED  BY <2>5, <2>6, <2>1, <1>1
<1> QED  BY <1>2, <1>3, <1>4 DEF IndInv

\* Accepting an id inside the window keeps the invariant.
LEMMA FreshIndInv ==
    ASSUME IndInv, NEW val \in Ids, putFresh(val) PROVE IndInv'
<1>1. /\ val \in Nat /\ Min \in Nat /\ Max \in Nat /\ Max = Min + Cap
      /\ Cap \in Nat /\ Cap > 0 /\ val >= Min /\ val < Max
      /\ Min' = Min /\ Max' = Max /\ accepted' = accepted \cup {val}
      /\ val % Cap \in Bits /\ Bitmap \in [Bits -> BOOLEAN]
  BY WindowAssumption, DivMod DEF IndInv, TypeOK, putFresh
<1>2. TypeOK'
  BY <1>1 DEF IndInv, TypeOK, putFresh
<1>3. AcceptedBelowMax'
  BY <1>1 DEF IndInv, AcceptedBelowMax
<1>4. BitsExact'
  <2> SUFFICES ASSUME NEW v \in Min .. Max - 1
               PROVE  Bitmap'[v % Cap] <=> v \in accepted'
    BY <1>1 DEF BitsExact
  <2>1. v \in Int /\ v % Cap \in Bits /\ v - val < Cap /\ val - v < Cap
    BY <1>1, DivMod
  <2>2. v % Cap = val % Cap <=> v = val
    BY <2>1, <1>1, ResidueInjective
  <2>3. Bitmap[v % Cap] <=> v \in accepted
    BY DEF IndInv, BitsExact
  <2>4. Bitmap'[v % Cap] = IF v % Cap = val % Cap THEN TRUE ELSE Bitmap[v % Cap]
    BY <1>1, <2>1 DEF putFresh
  <2> QED  BY <1>1, <2>2, <2>3, <2>4
<1> QED  BY <1>2, <1>3, <1>4 DEF IndInv

\* Every step keeps the invariant.
LEMMA NextIndInv == IndInv /\ [Next]_vars => IndInv'
<1> SUFFICES ASSUME IndInv, [Next]_vars PROVE IndInv'  OBVIOUS
<1>1. CASE UNCHANGED vars
  BY <1>1 DEF vars, IndInv, TypeOK, AcceptedBelowMax, BitsExact
<1>2. ASSUME NEW val \in Ids, putExpired(val) \/ putExisted(val) PROVE IndInv'
  BY <1>2 DEF putExpired, putExisted, IndInv, TypeOK, AcceptedBelowMax, BitsExact
<1>3. ASSUME NEW val \in Ids, put(val) PROVE IndInv'
  BY <1>2, <1>3, SlideIndInv, FreshIndInv DEF put
<1> QED  BY <1>1, <1>3 DEF Next

\* The invariant holds in every reachable state.
THEOREM WindowInvariant == Spec => []IndInv
  BY InitIndInv, NextIndInv, PTL DEF Spec

\* put never leaves the types: the ring keeps Cap bits.
THEOREM WindowTypeOK == Spec => []TypeOK
<1>1. IndInv => TypeOK  BY DEF IndInv
<1> QED  BY <1>1, WindowInvariant, PTL

\* contains is exact, for every capacity and every id (window.go:129-134).
THEOREM WindowContainsExact == Spec => []ContainsExact
<1>1. IndInv => ContainsExact
  <2> SUFFICES ASSUME IndInv, NEW v \in Ids
               PROVE  contains(v) <=> v \in accepted /\ v >= Min
    BY DEF ContainsExact
  <2>1. v \in Nat /\ Min \in Nat /\ Max \in Nat
    BY WindowAssumption DEF IndInv, TypeOK
  <2>2. CASE v >= Min /\ v < Max
    BY <2>1, <2>2 DEF IndInv, BitsExact, contains
  <2>3. CASE v >= Max
    <3>1. v \notin accepted  BY <2>1, <2>3 DEF IndInv, AcceptedBelowMax
    <3> QED  BY <3>1, <2>1, <2>3 DEF contains
  <2>4. CASE v < Min
    BY <2>1, <2>4 DEF contains
  <2> QED  BY <2>1, <2>2, <2>3, <2>4
<1> QED  BY <1>1, WindowInvariant, PTL

\* No put of an id already accepted succeeds (window.go:105-107, 121-122).
THEOREM WindowAcceptedOnce == Spec => AcceptedOnce
<1>1. ASSUME IndInv, NEW v \in Ids, put(v), err' = "nil" PROVE v \notin accepted
  <2>1. v \in Nat /\ Min \in Nat /\ Max \in Nat
    BY <1>1, WindowAssumption DEF IndInv, TypeOK
  <2>2. putSlide(v) \/ putFresh(v)
    BY <1>1 DEF put, putExpired, putExisted
  <2>3. CASE putSlide(v)
    BY <1>1, <2>1, <2>3 DEF putSlide, IndInv, AcceptedBelowMax
  <2>4. CASE putFresh(v)
    <3>1. v \in Min .. Max - 1 /\ ~ Bitmap[v % Cap]
      BY <2>1, <2>4 DEF putFresh
    <3> QED  BY <1>1, <3>1 DEF IndInv, BitsExact
  <2> QED  BY <2>2, <2>3, <2>4
<1>2. IndInv => [\A v \in Ids : put(v) /\ err' = "nil" => v \notin accepted]_vars
  BY <1>1
<1> QED  BY <1>2, WindowInvariant, PTL DEF AcceptedOnce
-----------------------------------------------------------------------------
(* Refinement of DedupSpec.                                                *)

ValueExact ==
    WindowValue = [lo |-> Min, seen |-> {v \in Min .. Max - 1 : v \in accepted}]

\* The abstract window value of a state that satisfies the invariant.
LEMMA WindowValueExact == IndInv => ValueExact
<1> SUFFICES ASSUME IndInv
             PROVE  {v \in Min .. Max - 1 : contains(v)}
                        = {v \in Min .. Max - 1 : v \in accepted}
  BY DEF WindowValue, ValueExact
<1>1. Min \in Nat /\ Max \in Nat  BY WindowAssumption DEF IndInv, TypeOK
<1> QED  BY <1>1 DEF IndInv, BitsExact, contains

\* Every put of the ring bitmap is a put of the abstract window.
LEMMA PutRefines ==
    ASSUME IndInv, IndInv', NEW val \in Ids, put(val)
    PROVE  Abs!DedupPut(val)
<1> DEFINE S == {v \in Min .. Max - 1 : v \in accepted}
           T == {v \in Min' .. Max' - 1 : v \in accepted'}
<1>1. WindowValue = [lo |-> Min, seen |-> S] /\ WindowValue' = [lo |-> Min', seen |-> T]
  <2>1. IndInv' => ValueExact'  BY WindowValueExact, PTL
  <2> QED  BY <2>1, WindowValueExact DEF ValueExact
<1>2. /\ val \in Nat /\ Cap \in Nat /\ Cap > 0 /\ Min \in Nat /\ Max \in Nat
      /\ Max = Min + Cap /\ accepted \subseteq Nat /\ \A v \in accepted : v < Max
  BY WindowAssumption DEF IndInv, TypeOK, AcceptedBelowMax
<1> DEFINE w == [lo |-> Min, seen |-> S]
<1>3. /\ Abs!Expired(w, val) <=> val < Min
      /\ Abs!Existed(w, val) <=> val >= Min /\ val \in S
      /\ Abs!Accepts(w, val) <=> val >= Min /\ val \notin S
      /\ Abs!LoAfter(w, val) = IF val >= Min + Cap THEN val + 1 - Cap ELSE Min
  BY DEF Abs!Expired, Abs!Existed, Abs!Accepts, Abs!LoAfter
<1>4. SUFFICES
        /\ err' = IF Abs!Expired(w, val) THEN "expired"
                  ELSE IF Abs!Existed(w, val) THEN "existed" ELSE "nil"
        /\ [lo |-> Min', seen |-> T] = Abs!Put(w, val)
  BY <1>1 DEF Abs!DedupPut
<1>5. CASE putExpired(val)
  <2>1. val < Min /\ err' = "expired" /\ T = S /\ Min' = Min
    BY <1>5 DEF putExpired
  <2>2. ~ Abs!Accepts(w, val)  BY <2>1, <1>2, <1>3
  <2> QED  BY <2>1, <2>2, <1>3 DEF Abs!Put
<1>6. CASE putExisted(val)
  <2>1. val >= Min /\ val < Max /\ err' = "existed" /\ T = S /\ Min' = Min /\ Bitmap[val % Cap]
    BY <1>6 DEF putExisted
  <2>2. val \in S  BY <2>1, <1>2 DEF IndInv, BitsExact
  <2>3. ~ (val < Min)  BY <2>1, <1>2
  <2>4. ~ Abs!Accepts(w, val)  BY <2>2, <1>3
  <2> QED  BY <2>1, <2>2, <2>3, <2>4, <1>3 DEF Abs!Put
<1>7. CASE putFresh(val)
  <2>1. /\ val >= Min /\ val < Max /\ err' = "nil" /\ Min' = Min /\ Max' = Max
        /\ ~ Bitmap[val % Cap] /\ accepted' = accepted \cup {val}
    BY <1>7 DEF putFresh
  <2>2. val \notin S  BY <2>1, <1>2 DEF IndInv, BitsExact
  <2>3. Abs!Accepts(w, val) /\ Abs!LoAfter(w, val) = Min /\ ~ Abs!Expired(w, val)
    BY <2>1, <2>2, <1>2, <1>3
  <2>4. T = {i \in S \cup {val} : i >= Min}  BY <2>1, <1>2
  <2>5. Abs!Put(w, val) = [lo |-> Min, seen |-> {i \in S \cup {val} : i >= Min}]
    BY <2>3 DEF Abs!Put
  <2> QED  BY <2>1, <2>2, <2>3, <2>4, <2>5, <1>3
<1>8. CASE putSlide(val)
  <2>1. /\ val >= Max /\ err' = "nil" /\ Min' = Min + (val - Max + 1)
        /\ Max' = Max + (val - Max + 1) /\ accepted' = accepted \cup {val}
    BY <1>8 DEF putSlide
  <2>2. val \notin S  BY <2>1, <1>2
  <2>3. Min' = val + 1 - Cap /\ Max' = val + 1  BY <2>1, <1>2
  <2>4. Abs!Accepts(w, val) /\ Abs!LoAfter(w, val) = Min' /\ ~ Abs!Expired(w, val)
    BY <2>1, <2>2, <2>3, <1>2, <1>3
  <2>5. T = {i \in S \cup {val} : i >= Min'}
    BY <2>1, <2>3, <1>2
  <2>6. Abs!Put(w, val) = [lo |-> Min', seen |-> {i \in S \cup {val} : i >= Min'}]
    BY <2>4 DEF Abs!Put
  <2> QED  BY <2>1, <2>2, <2>4, <2>5, <2>6, <1>3
<1> QED  BY <1>5, <1>6, <1>7, <1>8 DEF put

\* The ring bitmap implements the abstract window, for every capacity and
\* every set of ids.
THEOREM WindowImplementsDedup == Spec => ImplementsDedup
<1>1. Init => Abs!DedupInit
  <2> SUFFICES ASSUME Init PROVE Abs!DedupInit  OBVIOUS
  <2>1. WindowValue = [lo |-> Min, seen |-> {v \in Min .. Max - 1 : v \in accepted}]
    BY InitIndInv, WindowValueExact DEF ValueExact
  <2>2. {v \in Min .. Max - 1 : v \in accepted} = {}  BY DEF Init
  <2> QED  BY <2>1, <2>2 DEF Init, Abs!DedupInit, Abs!EmptyWindow
<1>2. IndInv /\ IndInv' /\ [Next]_vars => [Abs!DedupNext]_Abs!dedupVars
  <2> SUFFICES ASSUME IndInv, IndInv', [Next]_vars
               PROVE  [Abs!DedupNext]_Abs!dedupVars
    OBVIOUS
  <2>1. CASE UNCHANGED vars
    BY <2>1 DEF vars, Abs!dedupVars, WindowValue, contains
  <2>2. ASSUME NEW val \in Ids, put(val) PROVE Abs!DedupNext
    BY <2>2, PutRefines DEF Abs!DedupNext
  <2> QED  BY <2>1, <2>2 DEF Next
<1> QED  BY <1>1, <1>2, WindowInvariant, PTL DEF Spec, ImplementsDedup, Abs!Dedup
=============================================================================
