--------------------------- MODULE MCBookReplica ----------------------------
(***************************************************************************)
(* A small instance of module BookReplica: two sells that share a price,  *)
(* and a buy.                                                             *)
(***************************************************************************)
EXTENDS BookReplica

MCOrder ==
    [i \in Ids |->
        CASE i = 1 -> [side |-> "sell", price |-> 2, size |-> 2]
          [] i = 2 -> [side |-> "sell", price |-> 2, size |-> 1]
          [] i = 3 -> [side |-> "buy", price |-> 1, size |-> 1]]
=============================================================================
