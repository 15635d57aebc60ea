------------------------------- MODULE Window -------------------------------
(***************************************************************************)
(* matching/window.go: a sliding window over order ids kept in a ring     *)
(* bitmap of Cap bits, where id v is kept at bit v % Cap.                 *)
(***************************************************************************)
EXTENDS Integers

CONSTANTS
    Cap,                \* Window.Cap
    Ids                 \* the ids callers may put

ASSUME WindowAssumption == Cap \in Nat \ {0} /\ Ids \subseteq Nat

VARIABLES
    Min, Max,           \* the window covers the ids Min .. Max - 1
    Bitmap,             \* the ring of bits
    err,                \* what the last put returned
    accepted            \* history: the ids put successfully so far

vars == <<Min, Max, Bitmap, err, accepted>>

Bits == 0 .. Cap - 1

TypeOK ==
    /\ Min \in Nat /\ Max = Min + Cap
    /\ Bitmap \in [Bits -> BOOLEAN]
    /\ err \in {"nil", "expired", "existed"}
    /\ accepted \subseteq Ids
-----------------------------------------------------------------------------
\* newWindow(0, Cap)
Init ==
    /\ Min = 0 /\ Max = Cap
    /\ Bitmap = [b \in Bits |-> FALSE]
    /\ err = "nil"
    /\ accepted = {}

contains(val) == val >= Min /\ val < Max /\ Bitmap[val % Cap]

\* Faulty: refuses the oldest id the window still covers.
putExpiredLate(val) ==
    /\ val <= Min
    /\ err' = "expired"
    /\ UNCHANGED <<Min, Max, Bitmap, accepted>>

putExpired(val) ==
    /\ val < Min
    /\ err' = "expired"
    /\ UNCHANGED <<Min, Max, Bitmap, accepted>>

\* The bits of the ids the window slides past when its end moves by delta.
\* Faulty: one bit too few.
SlidPastShort(delta) ==
    LET rangeDelta == IF delta > Cap THEN Cap ELSE delta
    IN  {i % Cap : i \in Min .. Min + rangeDelta - 2}

SlidPast(delta) ==
    LET rangeDelta == IF delta > Cap THEN Cap ELSE delta
    IN  {i % Cap : i \in Min .. Min + rangeDelta - 1}

\* Faulty: moves the start by the bounded distance only.
putSlideBounded(val) ==
    /\ val >= Max
    /\ LET delta == val - Max + 1
       IN  /\ Bitmap' = [b \in Bits |-> \/ b = val % Cap
                                        \/ Bitmap[b] /\ b \notin SlidPast(delta)]
           /\ Min' = Min + (IF delta > Cap THEN Cap ELSE delta)
           /\ Max' = Max + delta
    /\ err' = "nil"
    /\ accepted' = accepted \cup {val}

putSlide(val) ==
    /\ val >= Max
    /\ LET delta == val - Max + 1
       IN  /\ Bitmap' = [b \in Bits |-> \/ b = val % Cap
                                        \/ Bitmap[b] /\ b \notin SlidPast(delta)]
           /\ Min' = Min + delta
           /\ Max' = Max + delta
    /\ err' = "nil"
    /\ accepted' = accepted \cup {val}

putExisted(val) ==
    /\ val >= Min /\ val < Max /\ Bitmap[val % Cap]
    /\ err' = "existed"
    /\ UNCHANGED <<Min, Max, Bitmap, accepted>>

\* Faulty: forgets to set the bit.
putFreshUnset(val) ==
    /\ val >= Min /\ val < Max /\ ~ Bitmap[val % Cap]
    /\ UNCHANGED Bitmap
    /\ err' = "nil"
    /\ accepted' = accepted \cup {val}
    /\ UNCHANGED <<Min, Max>>

putFresh(val) ==
    /\ val >= Min /\ val < Max /\ ~ Bitmap[val % Cap]
    /\ Bitmap' = [Bitmap EXCEPT ![val % Cap] = TRUE]
    /\ err' = "nil"
    /\ accepted' = accepted \cup {val}
    /\ UNCHANGED <<Min, Max>>

put(val) == putExpired(val) \/ putSlide(val) \/ putExisted(val) \/ putFresh(val)

Next == \E val \in Ids : put(val)

Spec == Init /\ [][Next]_vars
-----------------------------------------------------------------------------
\* A bit of the ring speaks for exactly one id: whatever slides and wraps
\* came before (put's clearing loop, window.go:114-116), contains answers
\* TRUE for just those accepted ids the window still covers.
ContainsExact ==
    \A v \in Ids : contains(v) <=> v \in accepted /\ v >= Min

\* No id is ever accepted twice, however often and however late it is put
\* again (the duplicate and expired returns of put).
AcceptedOnce ==
    [][ \A v \in Ids : put(v) /\ err' = "nil" => v \notin accepted ]_vars

\* The window as the abstract value of DedupWindow.
WindowValue == [lo |-> Min, seen |-> {v \in Min .. Max - 1 : contains(v)}]

Abs == INSTANCE DedupSpec WITH win <- WindowValue, answer <- err

\* The ring bitmap implements the window of DedupSpec: every put answers
\* and moves as the abstract window does.
ImplementsDedup == Abs!Dedup
=============================================================================
