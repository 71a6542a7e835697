----------------------------- MODULE LockOrder -----------------------------
(***************************************************************************)
(* The order in which the transactions of the program lock tables and      *)
(* rows, those of the foreign keys included, and PostgreSQL's lock queue,  *)
(* deadlock detector and lock_timeout.  Here a transaction is nothing but  *)
(* the list of locks its statements take, all kept to its end; BankCore    *)
(* says what it does with them.                                            *)
(***************************************************************************)
EXTENDS Integers, Sequences, FiniteSets

CONSTANTS
  Sessions,          \* database sessions
  Accounts,          \* ids, ordered as order() orders the UUID strings
  Keys,              \* idempotency keys, one for each transfer
  Ends,              \* the accounts of each transfer: <<from, to>>
  MaxResetAttempts,
  Null

ASSUME LockAssumption ==
  /\ Accounts \subseteq Nat
  /\ Keys \cap Accounts = {}
  /\ Ends \in [Keys -> Accounts \X Accounts]
  /\ \A k \in Keys : Ends[k][1] # Ends[k][2]
  /\ MaxResetAttempts \in Nat \ {0}
  /\ Null \notin Sessions \cup Accounts \cup Keys

VARIABLES
  job,      \* the transaction each session has open
  got,      \* how many of its locks it has
  attempt,  \* of a reset
  rows      \* the committed accounts and transfers

vars == <<job, got, attempt, rows>>

Kinds == {"claim", "book", "mark", "settle", "fail", "mutate", "status", "open", "stats", "reset"}
Job(kind, on) == [kind |-> kind, on |-> on]
Jobs == {Job(kind, k) : kind \in {"claim", "book", "mark", "settle", "fail"}, k \in Keys}
        \cup {Job(kind, a) : kind \in {"mutate", "status", "open"}, a \in Accounts}
        \cup {Job(kind, Null) : kind \in {"stats", "reset"}}
NoJob == Job("none", Null)

Init ==
  /\ job = [s \in Sessions |-> NoJob]
  /\ got = [s \in Sessions |-> 0]
  /\ attempt = [s \in Sessions |-> 1]
  /\ rows = Accounts

----------------------------------------------------------------------------
\* A statement locks the table in a mode that only ACCESS EXCLUSIVE conflicts
\* with, and the rows it writes or selects FOR UPDATE.
Table(t)        == [table |-> t, row |-> Null, mode |-> "access"]
Whole(t)        == [table |-> t, row |-> Null, mode |-> "exclusive"]
Row(t, r, mode) == [table |-> t, row |-> r, mode |-> mode]

Conflicts == {{"access", "exclusive"}, {"exclusive"},
              {"keyShare", "update"}, {"noKeyUpdate"}, {"noKeyUpdate", "update"}, {"update"}}

\* Mutant of First: the source, whatever its id.
Source(k) == Ends[k][1]

\* order()
First(k)  == IF Ends[k][1] < Ends[k][2] THEN Ends[k][1] ELSE Ends[k][2]
Second(k) == IF First(k) = Ends[k][1] THEN Ends[k][2] ELSE Ends[k][1]

\* acquire: the INSERT, then the two foreign keys in the order of their
\* columns.  Another INSERT of the key waits for this one.
ClaimLocks(k) ==
  << Table("transfers"), Row("transfers", k, "update"), Table("accounts"),
     Row("accounts", Ends[k][1], "keyShare"), Row("accounts", Ends[k][2], "keyShare") >>

\* processOnce: FOR UPDATE, count, two readings, two UPDATEs, two entries.
BookLocks(k) ==
  << Table("transfers"), Row("transfers", k, "update"), Table("entries"), Table("accounts"),
     Row("accounts", First(k), "noKeyUpdate"), Row("accounts", Second(k), "noKeyUpdate") >>

MarkLocks(k) == << Table("transfers"), Row("transfers", k, "noKeyUpdate") >>

SettleLocks(k) == << Table("transfers"), Row("transfers", k, "update"), Table("entries") >>

\* Fail and reverse: both accounts FOR UPDATE.
FailLocks(k) ==
  << Table("transfers"), Row("transfers", k, "update"), Table("entries"), Table("accounts"),
     Row("accounts", First(k), "update"), Row("accounts", Second(k), "update") >>

\* tryMutate: the reading and the UPDATE, then the entry, whose foreign key
\* is on a row the transaction already has.
MutateLocks(a) == << Table("accounts"), Row("accounts", a, "noKeyUpdate"), Table("entries") >>

StatusLocks(a) == << Table("accounts"), Row("accounts", a, "noKeyUpdate") >>
OpenLocks(a)   == << Table("accounts"), Row("accounts", a, "update") >>
StatsLocks     == << Table("transfers"), Table("entries"), Table("accounts") >>

\* Mutant of ResetLocks: the TRUNCATE of before the explicit LOCK TABLE.
TruncateLocks == << Whole("entries"), Whole("transfers"), Whole("accounts") >>

\* truncate: LOCK TABLE transfers, entries, accounts.
ResetLocks == << Whole("transfers"), Whole("entries"), Whole("accounts") >>

Locks(j) ==
  CASE j.kind = "claim"  -> ClaimLocks(j.on)
    [] j.kind = "book"   -> BookLocks(j.on)
    [] j.kind = "mark"   -> MarkLocks(j.on)
    [] j.kind = "settle" -> SettleLocks(j.on)
    [] j.kind = "fail"   -> FailLocks(j.on)
    [] j.kind = "mutate" -> MutateLocks(j.on)
    [] j.kind = "status" -> StatusLocks(j.on)
    [] j.kind = "open"   -> OpenLocks(j.on)
    [] j.kind = "stats"  -> StatsLocks
    [] j.kind = "reset"  -> ResetLocks
    [] j.kind = "none"   -> << >>

----------------------------------------------------------------------------
Is(s, kind) == job[s].kind = kind
Open(s) == ~Is(s, "none")
Complete(s) == got[s] = Len(Locks(job[s]))
Wants(s) == Open(s) /\ ~Complete(s)
Wanted(s) == Locks(job[s])[got[s] + 1]
Held(s) == {Locks(job[s])[i] : i \in 1 .. got[s]}
SameThing(l, m) == l.table = m.table /\ l.row = m.row
HoldsTable(s, t) == \E l \in Held(s) : l.table = t

\* Whoever holds what s wants in a mode that conflicts.
Holders(s) ==
  {u \in Sessions \ {s} : \E l \in Held(u) :
     SameThing(l, Wanted(s)) /\ {l.mode, Wanted(s).mode} \in Conflicts}

\* A request that conflicts with one that already waits stands behind it, but
\* a session that already has the table is let through.
Queued(s) ==
  {u \in Sessions \ {s} : /\ Wants(u)
                          /\ Wanted(u) = Whole(Wanted(s).table)
                          /\ Wanted(s) = Table(Wanted(s).table)
                          /\ Holders(u) # {}
                          /\ ~HoldsTable(s, Wanted(s).table)}

Blockers(s) == IF Wants(s) THEN Holders(s) \cup Queued(s) ELSE {}

Circle(S) == S # {} /\ \A s \in S : Blockers(s) \cap S # {}
Deadlocked(S) == Circle(S) /\ \A R \in (SUBSET S) \ {S} : ~Circle(R)

\* The row is there; for a claim and an opening, it is not there yet.
Finds(s) ==
  LET r == Wanted(s).row IN
  r # Null => IF job[s] \in {Job("claim", r), Job("open", r)} THEN r \notin rows ELSE r \in rows

Ended(s) ==
  /\ job' = [job EXCEPT ![s] = NoJob]
  /\ got' = [got EXCEPT ![s] = 0]
  /\ attempt' = [attempt EXCEPT ![s] = 1]

Begin(s) ==
  /\ ~Open(s)
  /\ \E j \in Jobs : job' = [job EXCEPT ![s] = j]
  /\ UNCHANGED <<got, attempt, rows>>

\* The next lock is free, and the statement goes on.
Grant(s) ==
  /\ Wants(s)
  /\ Blockers(s) = {}
  /\ Finds(s)
  /\ got' = [got EXCEPT ![s] = @ + 1]
  /\ UNCHANGED <<job, attempt, rows>>

\* A duplicate key, an unknown account, a transfer that a reset removed.
NotFound(s) ==
  /\ Wants(s)
  /\ Blockers(s) = {}
  /\ ~Finds(s)
  /\ Ended(s)
  /\ UNCHANGED rows

Commit(s) ==
  /\ Open(s)
  /\ Complete(s)
  /\ rows' = CASE Is(s, "claim") \/ Is(s, "open") -> rows \cup {job[s].on}
               [] Is(s, "reset") -> {}
               [] OTHER -> rows
  /\ Ended(s)

\* A refusal, a version conflict, a failed statement: rolled back.
Rollback(s) ==
  /\ Open(s)
  /\ Ended(s)
  /\ UNCHANGED rows

\* Mutant of AfterLockFailure: the attempts are not counted.
RetryForever(s) ==
  /\ IF Is(s, "reset") THEN got' = [got EXCEPT ![s] = 0] /\ UNCHANGED <<job, attempt>>
                       ELSE Ended(s)
  /\ UNCHANGED rows

\* Rolled back; only truncateWithRetry tries again, and not for ever.
AfterLockFailure(s) ==
  /\ IF Is(s, "reset") /\ attempt[s] < MaxResetAttempts
     THEN /\ attempt' = [attempt EXCEPT ![s] = @ + 1]
          /\ got' = [got EXCEPT ![s] = 0]
          /\ UNCHANGED job
     ELSE Ended(s)
  /\ UNCHANGED rows

\* The deadlock detector picks one of those that wait for each other.
Victim(s) ==
  /\ \E S \in SUBSET Sessions : s \in S /\ Deadlocked(S)
  /\ AfterLockFailure(s)

\* lock_timeout, which only truncate sets.
LockTimeout(s) ==
  /\ Is(s, "reset")
  /\ Blockers(s) # {}
  /\ AfterLockFailure(s)

Next == \E s \in Sessions :
  \/ Begin(s) \/ Grant(s) \/ NotFound(s) \/ Commit(s)
  \/ Rollback(s) \/ Victim(s) \/ LockTimeout(s)

Spec == Init /\ [][Next]_vars

\* Sessions run; a lock that comes free goes to one who waits for it; a
\* deadlock is found after deadlock_timeout.  Nothing has to fail by itself.
Fairness ==
  /\ \A s \in Sessions : SF_vars(Grant(s)) /\ SF_vars(NotFound(s)) /\ WF_vars(Commit(s))
  /\ WF_vars(\E s \in Sessions : Victim(s))

FairSpec == Spec /\ Fairness

----------------------------------------------------------------------------
Among(S, kind) == \E s \in S : Is(s, kind)

\* The lock order of the code (LOCK TABLE in truncate, order() in booking and
\* reversal; spec v1.4.0 6.2 and ADR 0001), made complete: the only
\* transactions that can wait for each other in a circle are a reset with a
\* deposit or withdrawal, which lock entries and accounts the other way round,
\* and a reversal with the claim of a new transfer between its two accounts.
CirclesExplained ==
  \A S \in SUBSET Sessions : Deadlocked(S) =>
    \/ Among(S, "reset") /\ Among(S, "mutate")
    \/ Among(S, "fail") /\ Among(S, "claim")

\* Spec v1.4.0 6.2: the reset waits for transfers holding nothing, so whoever
\* already has that table, a settlement or a transfer, finishes before it.
TransferHoldersPass ==
  \A s \in Sessions : HoldsTable(s, "transfers") /\ ~Is(s, "reset") =>
    ~Among(Blockers(s), "reset")

\* Whatever deadlocks and timeouts it meets, every transaction ends, a reset
\* in a bounded number of attempts.
EveryoneEnds == \A s \in Sessions : Open(s) ~> ~Open(s)

\* ADR 0001: the accounts of a transfer are visited in the order of their ids,
\* so that transfers, settlements and reversals do not deadlock.
TransfersNeverDeadlock ==
  \A S \in SUBSET Sessions : Deadlocked(S) => Among(S, "reset")
=============================================================================
