---------------------------- MODULE MCLevel2Feed ----------------------------
(***************************************************************************)
(* Small instances of module Level2Feed.                                  *)
(***************************************************************************)
EXTENDS Level2Feed, TLC

Symmetry == Permutations(Keys)

\* A second subscription and what comes of other products are followed in
\* shorter behaviours.
Explored ==
    /\ subs > 1 => Len(past) <= 3
    /\ others > 0 => subs <= 1 /\ Len(past) <= 3
    /\ others > 1 => Len(past) <= 2
=============================================================================
