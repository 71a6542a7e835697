--------------------------- MODULE AccountService ---------------------------
(***************************************************************************)
(* internal/account: opening, deposit and withdrawal with the optimistic   *)
(* retry of mutate, and the administrator's SetStatus.                     *)
(***************************************************************************)
EXTENDS BankDB

CONSTANTS
  Tellers,        \* sessions serving deposits and withdrawals
  Deltas,         \* amounts asked for: deposit positive, withdrawal negative
  MutateRetries,  \* const maxRetries
  MaxEntries      \* bound: an account this long is no longer deposited to

ASSUME AccountAssumption ==
  /\ Tellers \subseteq Sessions
  /\ Deltas \subseteq (Int \ {0})
  /\ \A d \in Deltas : -MaxCents <= d /\ d <= MaxCents
  /\ MutateRetries \in Nat \ {0}
  /\ MaxEntries \in Nat

VARIABLES
  tpc,      \* the statement each teller is about to run
  tjob,     \* the account and the signed amount of its request
  ttries,   \* the loop variable of mutate
  tsnap     \* the row getByID returned

accountVars == <<tpc, tjob, ttries, tsnap>>

NoTJob == [account |-> Null, delta |-> 0]
NoRead == [balance |-> 0, version |-> 0]

AccountTypeOK ==
  /\ tpc \in [Tellers -> {"idle", "read", "update", "post"}]
  /\ tjob \in [Tellers -> [account : Null2(Accounts), delta : Int]]
  /\ ttries \in [Tellers -> 0 .. MutateRetries - 1]
  /\ tsnap \in [Tellers -> [balance : Cents, version : Nat]]

AccountIdle ==
  /\ tpc = [t \in Tellers |-> "idle"]
  /\ tjob = [t \in Tellers |-> NoTJob]
  /\ ttries = [t \in Tellers |-> 0]
  /\ tsnap = [t \in Tellers |-> NoRead]

----------------------------------------------------------------------------
\* Open: the row appears active, empty, at version 0.
Open(a) ==
  /\ accounts[a].status = "ABSENT"
  /\ accounts' = [accounts EXCEPT ![a] = [status |-> "ACTIVE", balance |-> 0, version |-> 0]]
  /\ UNCHANGED <<transfers, entries, accountLock, transferLock, accountVars>>

\* SetStatus: one UPDATE of one column, which leaves version alone.
SetStatus(a, status) ==
  /\ accounts[a].status \notin {"ABSENT", status}
  /\ Unlocked(a)
  /\ accounts' = [accounts EXCEPT ![a].status = status]
  /\ UNCHANGED <<transfers, entries, accountLock, transferLock, accountVars>>

TGoto(t, step) == tpc' = [tpc EXCEPT ![t] = step]

\* The request is over, answered or refused.
Finish(t) ==
  /\ TGoto(t, "idle")
  /\ tjob' = [tjob EXCEPT ![t] = NoTJob]
  /\ ttries' = [ttries EXCEPT ![t] = 0]
  /\ tsnap' = [tsnap EXCEPT ![t] = NoRead]

\* Deposit and Withdraw.
Mutate(t, a, d) ==
  /\ tpc[t] = "idle"
  /\ accounts[a].status # "ABSENT"
  /\ Len(entries[a]) < MaxEntries
  /\ TGoto(t, "read")
  /\ tjob' = [tjob EXCEPT ![t] = [account |-> a, delta |-> d]]
  /\ UNCHANGED <<dbVars, ttries, tsnap>>

Sum64(t, row) == Wrap64(row.balance + tjob[t].delta)

\* tryMutate up to the UPDATE: the row is read without a lock and judged.
ReadBalance(t) ==
  LET row == accounts[tjob[t].account] IN
  /\ tpc[t] = "read"
  /\ \/ /\ row.status = "ACTIVE" /\ Sum64(t, row) >= 0
        /\ TGoto(t, "update")
        /\ tsnap' = [tsnap EXCEPT ![t] = [balance |-> row.balance, version |-> row.version]]
        /\ UNCHANGED <<tjob, ttries>>
     \/ /\ row.status # "ACTIVE" \/ Sum64(t, row) < 0
        /\ Finish(t)
  /\ UNCHANGED dbVars

\* Mutant of UpdateBalance: the UPDATE has no "AND version = $3".
UpdateBalanceBlindly(t) ==
  LET a == tjob[t].account IN
  /\ tpc[t] = "update"
  /\ Unlocked(a)
  /\ accountLock' = [accountLock EXCEPT ![a] = t]
  /\ TGoto(t, "post")
  /\ UNCHANGED <<tables, transferLock, tjob, ttries, tsnap>>

\* UPDATE ... WHERE version: waits for the row; no row is a version conflict.
UpdateBalance(t) ==
  LET a == tjob[t].account IN
  /\ tpc[t] = "update"
  /\ Unlocked(a)
  /\ \/ /\ accounts[a].version = tsnap[t].version
        /\ accountLock' = [accountLock EXCEPT ![a] = t]
        /\ TGoto(t, "post")
        /\ UNCHANGED <<tjob, ttries, tsnap>>
     \/ /\ accounts[a].version # tsnap[t].version
        /\ ttries[t] + 1 < MutateRetries
        /\ ttries' = [ttries EXCEPT ![t] = @ + 1]
        /\ TGoto(t, "read")
        /\ tsnap' = [tsnap EXCEPT ![t] = NoRead]
        /\ UNCHANGED <<accountLock, tjob>>
     \/ /\ accounts[a].version # tsnap[t].version
        /\ ttries[t] + 1 = MutateRetries
        /\ Finish(t)
        /\ UNCHANGED accountLock
  /\ UNCHANGED <<tables, transferLock>>

\* Mutant of PostMutation: the balance is committed without its entry.
PostWithoutEntry(t) ==
  LET a == tjob[t].account IN
  /\ tpc[t] = "post"
  /\ accounts' = [accounts EXCEPT ![a] = Stored(@, Sum64(t, tsnap[t]))]
  /\ ReleaseAll(t)
  /\ Finish(t)
  /\ UNCHANGED <<transfers, entries>>

\* The entry and the commit.
PostMutation(t) ==
  LET a == tjob[t].account
      d == tjob[t].delta
      new == Sum64(t, tsnap[t])
  IN
  /\ tpc[t] = "post"
  /\ accounts' = [accounts EXCEPT ![a] = Stored(@, new)]
  /\ entries' = [entries EXCEPT ![a] =
       Append1(a, IF d > 0 THEN "CREDIT" ELSE "DEBIT", IF d > 0 THEN d ELSE -d, new, Null)]
  /\ ReleaseAll(t)
  /\ Finish(t)
  /\ UNCHANGED transfers

\* A statement fails, or the request's context ends: rolled back.
AbortMutation(t) ==
  /\ tpc[t] \in {"read", "update", "post"}
  /\ ReleaseAll(t)
  /\ Finish(t)
  /\ UNCHANGED tables

ProceedMutation(t) == ReadBalance(t) \/ UpdateBalance(t) \/ PostMutation(t)

AccountNext ==
  \/ \E a \in Accounts : Open(a) \/ \E s \in {"ACTIVE", "BLOCKED"} : SetStatus(a, s)
  \/ \E t \in Tellers : \/ \E a \in Accounts, d \in Deltas : Mutate(t, a, d)
                        \/ ProceedMutation(t)
                        \/ AbortMutation(t)

AccountRestart ==
  /\ tpc' = [t \in Tellers |-> "idle"]
  /\ tjob' = [t \in Tellers |-> NoTJob]
  /\ ttries' = [t \in Tellers |-> 0]
  /\ tsnap' = [t \in Tellers |-> NoRead]
=============================================================================
