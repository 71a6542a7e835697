---------------------------- MODULE BankInvariant ----------------------------
(***************************************************************************)
(* The inductive invariant behind the ledger's consistency.  A booking or  *)
(* a deposit locks no row when it reads it: what makes the write that      *)
(* follows right is that a version number is never used for two balances,  *)
(* that the UPDATE which compares it also takes the row's lock, and that a *)
(* row with a holder changes only by its holder's commit.                  *)
(***************************************************************************)
EXTENDS BankCore

\* The rows as the services leave them: no transfer of an account to itself,
\* none of an account that was not opened, and nothing recorded for that one.
RowsInv ==
  /\ \A k \in Keys : transfers[k] # Null =>
       /\ transfers[k].from # transfers[k].to
       /\ \A a \in {transfers[k].from, transfers[k].to} : accounts[a].status # "ABSENT"
  /\ \A a \in Accounts : accounts[a].status = "ABSENT" => accounts[a].version = 0

\* Each UPDATE of a balance bumps the version and comes with one entry, so that
\* no version stands for two balances.
VersionPerEntry == \A a \in Accounts : accounts[a].version = Len(entries[a])

\* Balances are ledger balances, versions count entries.
BooksInv == LedgerChain /\ VersionPerEntry

\* What was read is an earlier row, or the present one.
ReadOf(read, row) ==
  /\ read.version <= row.version
  /\ read.version = row.version => read.balance = row.balance

\* Whoever has compared the version of a row, or selected it for update,
\* holds it, and it is still the row that was read.
Holds(w, a) == accountLock[a] = w /\ accounts[a].version = snap[w][a].version

LiveJobs == {j \in [kind : {"transfer", "fail"}, key : Keys, from : Accounts,
                    to : Accounts, amount : Cents \ {0}] : j.from # j.to}
RowOf(j) == transfers[j.key] # Null /\ SameOrder(transfers[j.key], j)
Working == Steps \ {"idle", "done"}

\* A worker between two statements.
WorkerInv(w) ==
  /\ pc[w] \in Working => job[w] \in LiveJobs /\ RowOf(job[w])
  /\ \A a \in Accounts : ReadOf(snap[w][a], accounts[a])
  /\ pc[w] \in {"update2", "lock2"} => Holds(w, FirstOf(job[w]))
  /\ pc[w] \in {"book", "reverse"} => Holds(w, job[w].from) /\ Holds(w, job[w].to)
  /\ pc[w] \in {"update1", "update2", "book"} => FromNew(w) >= 0
  /\ pc[w] = "update2" => NewBalance(w, FirstOf(job[w])) >= 0
  /\ pc[w] = "book" => ToNew(w) >= 0

\* A teller between two statements.
TellerInv(t) ==
  tpc[t] # "idle" =>
    LET a == tjob[t].account IN
    /\ a \in Accounts /\ tjob[t].delta \in Deltas
    /\ accounts[a].status # "ABSENT"
    /\ tpc[t] = "post" => accountLock[a] = t /\ accounts[a].version = tsnap[t].version
    /\ tpc[t] \in {"update", "post"} =>
         ReadOf(tsnap[t], accounts[a]) /\ Sum64(t, tsnap[t]) >= 0

IInv ==
  /\ TypeOK
  /\ RowsInv
  /\ BooksInv
  /\ \A w \in Workers : WorkerInv(w)
  /\ \A t \in Tellers : TellerInv(t)
=============================================================================
