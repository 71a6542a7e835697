------------------------------ MODULE BankReset ------------------------------
(***************************************************************************)
(* The bank while the simulation's environment is reset (spec v1.4.0): the *)
(* runner truncates accounts, transfers and entries under the feet of      *)
(* requests that are on their way.  What the runner itself does before and *)
(* after is Simulation's subject, and how the locks are got LockOrder's.   *)
(***************************************************************************)
EXTENDS BankCore

CONSTANT MaxResets   \* bound

\* The key stands for the row under it, so that a key is free again after a
\* reset while the row's id is not: no two requests with one key overlap here.
ASSUME ResetAssumption ==
  /\ MaxResets \in Nat
  /\ ~ClientsOverlap

VARIABLES
  resets,
  retired    \* ids of accounts that were truncated: a UUID is not used twice

resetVars == <<vars, resets, retired>>

ResetInit == Init /\ resets = 0 /\ retired = {}

\* Mutant of TablesFree: DELETE without LOCK TABLE.
TablesTaken == TRUE

\* LOCK TABLE ... IN ACCESS EXCLUSIVE MODE waits for every transaction that
\* has touched one of the tables, if only to read.
TablesFree ==
  /\ \A w \in Workers : pc[w] \notin InTx
  /\ \A t \in Tellers : tpc[t] \notin {"update", "post"}

\* truncate.
Truncate ==
  /\ resets < MaxResets
  /\ TablesFree
  /\ accounts' = [a \in Accounts |-> [status |-> "ABSENT", balance |-> 0, version |-> 0]]
  /\ transfers' = [k \in Keys |-> Null]
  /\ entries' = [a \in Accounts |-> <<>>]
  /\ resets' = resets + 1
  /\ retired' = retired \cup {a \in Accounts : accounts[a].status # "ABSENT"}
  /\ UNCHANGED <<accountLock, transferLock, transferVars, accountVars>>

\* A step of the bank: nobody opens an account under an id that was used.
BankStep ==
  /\ Next
  /\ \A a \in retired : accounts'[a].status = "ABSENT"
  /\ UNCHANGED <<resets, retired>>

ResetNext == BankStep \/ Truncate

ResetSpec == ResetInit /\ [][ResetNext]_resetVars

\* As in BankCore.  Nobody has to reset.
ResetFairness ==
  /\ \A w \in Workers :
       SF_resetVars(Proceed(w) /\ UNCHANGED <<accountVars, resets, retired>>)
  /\ \A t \in Tellers :
       SF_resetVars(ProceedMutation(t) /\ UNCHANGED <<transferVars, resets, retired>>)

FairResetSpec == ResetSpec /\ ResetFairness

----------------------------------------------------------------------------
\* RNF21 of spec v1.4.0, RNF1: to the requests on their way a reset is one
\* indivisible step, before or after which each of their own falls.  Nothing
\* that began before it is ever found half done after it.
ImplementsResettableBank == Atomic!ResettableSpec

\* ADR 0004, RNF4: at the moment PENDING or SETTLED is decided on, the row is
\* there and its money moved, once; a request whose row or accounts were
\* truncated under it is answered neither.
AcceptedWhenAnswered ==
  [][\A w \in Workers, k \in Keys :
       /\ pc[w] # "done" /\ pc'[w] = "done"
       /\ job'[w].kind = "transfer" /\ job'[w].key = k
       /\ resp'[w] \in {"PENDING", "SETTLED"}
       => transfers'[k] # Null /\ Moves(k)' = 1]_resetVars
=============================================================================
