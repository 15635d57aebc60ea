---------------------------- MODULE MCSettlement ----------------------------
(***************************************************************************)
(* Small instances of module Settlement: a limit buy of user "a", a limit *)
(* sell of user "b" that can fill it at a better price, and a market buy  *)
(* of "a" that its balance allows only once the first order has returned  *)
(* some of its hold.                                                      *)
(***************************************************************************)
EXTENDS Settlement

MCRequest ==
    [i \in Ids |->
        CASE i = 1 -> [user |-> "a", side |-> "buy", price |-> 2, size |-> 2, funds |-> 4]
          [] i = 2 -> [user |-> "b", side |-> "sell", price |-> 1, size |-> 2, funds |-> 2]
          [] i = 3 -> [user |-> "a", side |-> "buy", price |-> 0, size |-> 0, funds |-> 2]]

MCFunding == [u \in Users |-> [c \in Currencies |->
                 IF u = "a" THEN (IF c = "quote" THEN 5 ELSE 0)
                            ELSE (IF c = "base" THEN 2 ELSE 0)]]

\* Takers pay a third, rounded down, makers nothing.
MCFee(liquidity, amount) == IF liquidity = "T" THEN amount \div 3 ELSE 0
=============================================================================
