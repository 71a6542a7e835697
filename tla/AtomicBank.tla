----------------------------- MODULE AtomicBank -----------------------------
(***************************************************************************)
(* What the services promise (spec v1.0.0 RNF1, RNF4, ADR 0003, ADR 0004): *)
(* a transfer is a row that goes through a small life cycle, its money     *)
(* moves in one indivisible step, at most once, and comes back at most     *)
(* once, and only when the settlement client gives it up.                  *)
(***************************************************************************)
EXTENDS Integers

CONSTANTS Accounts, Keys, Amounts, MaxCents, Null

VARIABLES
  balance,   \* of each account
  order,     \* what was asked under each key, Null before
  phase      \* where that transfer is in its life

vars == <<balance, order, phase>>

Phases == {"none", "registered", "booked", "settled", "rejected", "reversed"}

Init ==
  /\ balance \in [Accounts -> 0 .. MaxCents]
  /\ order = [k \in Keys |-> Null]
  /\ phase = [k \in Keys |-> "none"]

Move(from, to, n) ==
  /\ balance[from] >= n
  /\ balance[to] + n <= MaxCents
  /\ balance' = [balance EXCEPT ![from] = @ - n, ![to] = @ + n]

Enter(k, from, to) ==
  /\ phase[k] = from
  /\ phase' = [phase EXCEPT ![k] = to]

Register(k, from, to, n) ==
  /\ from # to
  /\ Enter(k, "none", "registered")
  /\ order' = [order EXCEPT ![k] = [from |-> from, to |-> to, amount |-> n]]
  /\ UNCHANGED balance

\* Standalone mode books and settles at once.
Book(k) ==
  /\ Enter(k, "registered", "booked") \/ Enter(k, "registered", "settled")
  /\ Move(order[k].from, order[k].to, order[k].amount)
  /\ UNCHANGED order

Reject(k)  == Enter(k, "registered", "rejected") /\ UNCHANGED <<balance, order>>
Settle(k)  == Enter(k, "booked", "settled") /\ UNCHANGED <<balance, order>>
Reverse(k) ==
  /\ Enter(k, "booked", "reversed")
  /\ Move(order[k].to, order[k].from, order[k].amount)
  /\ UNCHANGED order

\* A deposit or a withdrawal.
Adjust(a, n) ==
  /\ balance[a] + n \in 0 .. MaxCents
  /\ balance' = [balance EXCEPT ![a] = @ + n]
  /\ UNCHANGED <<order, phase>>

Next ==
  \/ \E k \in Keys, from, to \in Accounts, n \in Amounts : Register(k, from, to, n)
  \/ \E k \in Keys : Book(k) \/ Reject(k) \/ Settle(k) \/ Reverse(k)
  \/ \E a \in Accounts, n \in Amounts : Adjust(a, n) \/ Adjust(a, -n)

Spec == Init /\ [][Next]_vars

\* The demonstration's reset, which takes everything back at once.
Forget ==
  /\ balance' = [a \in Accounts |-> 0]
  /\ order' = [k \in Keys |-> Null]
  /\ phase' = [k \in Keys |-> "none"]

ResettableSpec == Init /\ [][Next \/ Forget]_vars
=============================================================================
