------------------------------- MODULE MCBank -------------------------------
(***************************************************************************)
(* Small instances of the bank for TLC.                                    *)
(***************************************************************************)
EXTENDS BankStatus, TLC
CONSTANTS w1, w2, k1, k2

TwoAccounts == {1, 2}
RichAndPoor == [a \in TwoAccounts |-> IF a = 1 THEN 2 ELSE 1]

Crossing == {[from |-> 1, to |-> 2, amount |-> 1], [from |-> 2, to |-> 1, amount |-> 2]}
CrossingTwice == Crossing \cup {[from |-> 2, to |-> 1, amount |-> 1]}
Symmetry == Permutations(Workers) \cup Permutations(Keys)
=============================================================================
