------------------------------- MODULE MCReset -------------------------------
(***************************************************************************)
(* A small instance of the bank under reset for TLC: an account with       *)
(* money, and one that is opened while the clients already ask for it.     *)
(***************************************************************************)
EXTENDS BankReset
CONSTANTS w1, w2, t1, k1

TwoAccounts == {1, 2}
OneOpened == [a \in TwoAccounts |-> IF a = 1 THEN 3 ELSE Null]
Ask(a, b, n) == [from |-> a, to |-> b, amount |-> n]
BothWaysAndNone == {Ask(1, 2, 2), Ask(2, 1, 1), Ask(1, 1, 1)}
PlusMinus == {1, -2}
=============================================================================
