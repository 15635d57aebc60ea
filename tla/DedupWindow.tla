---------------------------- MODULE DedupWindow ----------------------------
(***************************************************************************)
(* What an order-id de-duplication window promises, as a value: the ids   *)
(* from lo on that were put, where lo trails the largest id ever put by   *)
(* less than Cap.  matching/window.go implements it with a ring bitmap    *)
(* (module Window, shown to implement module DedupSpec); the order book   *)
(* (module OrderBook) and the engine use it as a value.                   *)
(***************************************************************************)
EXTENDS Naturals

CONSTANT Cap            \* orderIdWindowCap: the number of ids a window spans

ASSUME CapAssumption == Cap \in Nat \ {0}

\* newWindow(0, Cap): every id is still fresh.
EmptyWindow == [lo |-> 0, seen |-> {}]

Windows == [lo : Nat, seen : SUBSET Nat]

\* put's two error returns, and its success.
Expired(w, id) == id < w.lo
Existed(w, id) == id >= w.lo /\ id \in w.seen

Accepts(w, id) == id >= w.lo /\ id \notin w.seen

\* Faulty: slides by one id too many.
LoAfterTight(w, id) == IF id >= w.lo + Cap THEN id + 2 - Cap ELSE w.lo

\* The least id the window still covers once id has been put.
LoAfter(w, id) == IF id >= w.lo + Cap THEN id + 1 - Cap ELSE w.lo

\* put(id): an error leaves the window alone, success records the id and
\* slides the window when the id lies beyond its end.
Put(w, id) ==
    IF Accepts(w, id)
    THEN LET lo == LoAfter(w, id)
         IN  [lo |-> lo, seen |-> {i \in w.seen \cup {id} : i >= lo}]
    ELSE w
=============================================================================
