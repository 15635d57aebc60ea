------------------------------ MODULE MCWindow ------------------------------
(***************************************************************************)
(* A window of 3 bits over the ids 0..9: far enough for slides by less,   *)
(* exactly and more than Cap, and for the ring to wrap three times.       *)
(***************************************************************************)
EXTENDS Window
CONSTANT MaxId
MCIds == 0 .. MaxId
=============================================================================
