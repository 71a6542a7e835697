---------------------------- MODULE MCSettlement ----------------------------
(***************************************************************************)
(* A small instance of the settlement boundary for TLC: three transfers in *)
(* both directions, one to a page, and a secret that changes.              *)
(***************************************************************************)
EXTENDS SettlementFeed

TwoAccounts == {1, 2}
Ask(a, b) == [from |-> a, to |-> b, amount |-> 1]
ThereAndBack == [k \in {1, 2, 3} |-> IF k = 2 THEN Ask(2, 1) ELSE Ask(1, 2)]
=============================================================================
