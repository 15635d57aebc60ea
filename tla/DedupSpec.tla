----------------------------- MODULE DedupSpec -----------------------------
(***************************************************************************)
(* The state machine a de-duplication window implements: one window value *)
(* and the answer of the last put.                                        *)
(***************************************************************************)
EXTENDS DedupWindow

CONSTANT Ids            \* the ids callers may put

VARIABLES
    win,                \* the window, a member of Windows
    answer              \* what the last put returned

dedupVars == <<win, answer>>

Answers == {"nil", "expired", "existed"}

DedupInit == win = EmptyWindow /\ answer = "nil"

DedupPut(id) ==
    /\ answer' = IF Expired(win, id) THEN "expired"
                 ELSE IF Existed(win, id) THEN "existed" ELSE "nil"
    /\ win' = Put(win, id)

DedupNext == \E id \in Ids : DedupPut(id)

Dedup == DedupInit /\ [][DedupNext]_dedupVars
=============================================================================
