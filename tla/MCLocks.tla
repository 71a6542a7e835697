------------------------------ MODULE MCLocks ------------------------------
(***************************************************************************)
(* A small instance of the lock order for TLC: two accounts and a          *)
(* transfer in each direction.                                             *)
(***************************************************************************)
EXTENDS LockOrder, TLC
CONSTANTS s1, s2, s3, k1, k2

BothWays == (k1 :> <<1, 2>>) @@ (k2 :> <<2, 1>>)
Symmetry == Permutations(Sessions)
=============================================================================
