--------------------------- MODULE TransferService ---------------------------
(***************************************************************************)
(* internal/transfer: POST /transfers with its idempotency key, and the    *)
(* settlement client's PATCH .../settle and PATCH .../fail.  A worker is a *)
(* goroutine serving one request at a time; its steps are the statements   *)
(* of the request, and any other session may run between two of them.      *)
(***************************************************************************)
EXTENDS BankDB

CONSTANTS
  Workers,         \* sessions serving transfer requests
  Orders,          \* the (from, to, amount) a client may ask for
  Modes,           \* the values of `external` a restart may choose
  MaxRetries,      \* const maxRetries
  ClientsOverlap   \* may a client repeat a key before the first answer?

ASSUME TransferAssumption ==
  /\ Workers \subseteq Sessions
  /\ Orders \subseteq [from : Accounts, to : Accounts, amount : Int]
  /\ \A o \in Orders : o.amount <= MaxCents
  /\ Modes \subseteq BOOLEAN /\ Modes # {}
  /\ MaxRetries \in Nat \ {0}
  /\ ClientsOverlap \in BOOLEAN

VARIABLES
  external,   \* Service.external, fixed while the process lives
  pc,         \* the statement each worker is about to run
  job,        \* the request it serves
  tries,      \* the loop variable of process
  snap,       \* what its readAccount calls returned
  resp        \* its answer, until it is delivered

transferVars == <<external, pc, job, tries, snap, resp>>

Answers == {"none", "PENDING", "SETTLED", "FAILED", "REJECTED", "CONFLICT", "ERROR"}
InTx  == {"read1", "read2", "update1", "update2", "book", "lock1", "lock2", "reverse"}
Steps == {"idle", "begin", "mark", "done"} \cup InTx

Reading == [balance : Cents, version : Nat]
Unread  == [balance |-> 0, version |-> 0]
NoSnap  == [a \in Accounts |-> Unread]
NoJob  == [kind |-> "none"]
Job(kind, k, o) ==
  [kind |-> kind, key |-> k, from |-> o.from, to |-> o.to, amount |-> o.amount]
Jobs == {NoJob} \cup [kind : {"transfer", "fail"}, key : Keys, from : Accounts,
                      to : Accounts, amount : Int]

TransferTypeOK ==
  /\ external \in BOOLEAN
  /\ pc \in [Workers -> Steps]
  /\ job \in [Workers -> Jobs]
  /\ tries \in [Workers -> 0 .. MaxRetries - 1]
  /\ snap \in [Workers -> [Accounts -> Reading]]
  /\ resp \in [Workers -> Answers]

TransferInit ==
  /\ external \in Modes
  /\ pc = [w \in Workers |-> "idle"]
  /\ job = [w \in Workers |-> NoJob]
  /\ tries = [w \in Workers |-> 0]
  /\ snap = [w \in Workers |-> NoSnap]
  /\ resp = [w \in Workers |-> "none"]

----------------------------------------------------------------------------
\* Mutant of InOrder: the source first, whatever its id.
InRoleOrder(j) == TRUE

\* order(): both accounts are always visited in id order.
InOrder(j)  == j.from < j.to
FirstOf(j)  == IF InOrder(j) THEN j.from ELSE j.to
SecondOf(j) == IF InOrder(j) THEN j.to ELSE j.from

Goto(w, step) == pc' = [pc EXCEPT ![w] = step]

\* The handler returns: the answer waits to be delivered.
Answer(w, answer) ==
  /\ Goto(w, "done")
  /\ resp' = [resp EXCEPT ![w] = answer]
  /\ snap' = [snap EXCEPT ![w] = NoSnap]

\* Mutant of EndTx: a transaction that is never ended keeps its rows.
LeakedTx(w) == UNCHANGED <<accountLock, transferLock>>

\* defer tx.Rollback, and the deferred one after a Commit.
EndTx(w) == ReleaseAll(w)

\* A row selected FOR UPDATE: only reverse does so to accounts.  The foreign
\* keys of an INSERT wait for it, not for an UPDATE of the other columns.
ForUpdate(a) == \E w \in Workers : accountLock[a] = w /\ job[w].kind = "fail"

Fresh(w, k) ==
  /\ pc[w] = "idle"
  /\ ClientsOverlap \/ \A v \in Workers : job[v].kind = "transfer" => job[v].key # k

Valid(o) == o.from # o.to /\ o.amount > 0
SameOrder(row, o) == row.from = o.from /\ row.to = o.to /\ row.amount = o.amount

\* Transfer with invalid arguments: refused before any row exists.
RejectInvalid(w, k, o) ==
  /\ Fresh(w, k)
  /\ ~Valid(o)
  /\ job' = [job EXCEPT ![w] = Job("transfer", k, o)]
  /\ Answer(w, "REJECTED")
  /\ UNCHANGED <<dbVars, external, tries>>

\* acquire: the INSERT claims the key, in a commit of its own.
AcquireNew(w, k, o) ==
  /\ Fresh(w, k)
  /\ Valid(o)
  /\ transfers[k] = Null
  /\ \A a \in {o.from, o.to} : accounts[a].status # "ABSENT" /\ ~ForUpdate(a)
  /\ transfers' = [transfers EXCEPT ![k] =
       [from |-> o.from, to |-> o.to, amount |-> o.amount, status |-> "PENDING"]]
  /\ job' = [job EXCEPT ![w] = Job("transfer", k, o)]
  /\ Goto(w, "begin")
  /\ UNCHANGED <<accounts, entries, accountLock, transferLock,
                 external, tries, snap, resp>>

\* acquire: a foreign key names no account, and no row is inserted.
AcquireUnknown(w, k, o) ==
  /\ Fresh(w, k)
  /\ Valid(o)
  /\ transfers[k] = Null
  /\ \E a \in {o.from, o.to} : accounts[a].status = "ABSENT"
  /\ job' = [job EXCEPT ![w] = Job("transfer", k, o)]
  /\ Answer(w, "ERROR")
  /\ UNCHANGED <<dbVars, external, tries>>

\* acquire: the unique violation, findByKey, and Transfer's look at the row.
AcquireExisting(w, k, o) ==
  /\ Fresh(w, k)
  /\ Valid(o)
  /\ transfers[k] # Null
  /\ job' = [job EXCEPT ![w] = Job("transfer", k, o)]
  /\ \/ ~SameOrder(transfers[k], o) /\ Answer(w, "CONFLICT")
     \/ /\ SameOrder(transfers[k], o)
        /\ \/ transfers[k].status = "SETTLED" /\ Answer(w, "SETTLED")
           \/ transfers[k].status = "FAILED" /\ Answer(w, "REJECTED")
           \/ /\ transfers[k].status = "PENDING"
              /\ Goto(w, "begin")
              /\ UNCHANGED <<snap, resp>>
  /\ UNCHANGED <<dbVars, external, tries>>

----------------------------------------------------------------------------
\* process: what an attempt without error makes of the answer.
Done == IF external THEN "PENDING" ELSE "SETTLED"

\* processOnce up to the count: the transfer row is locked, or the attempt
\* ends here.  Only the holder of that lock can insert the transfer's entries,
\* so the count that follows is part of the step.  The row itself may be gone
\* (BankReset), and that is an error.
LockTransfer(w) ==
  LET k == job[w].key IN
  /\ pc[w] = "begin"
  /\ transferLock[k] = Null
  /\ \/ /\ transfers[k] = Null
        /\ Answer(w, "ERROR")
        /\ UNCHANGED transferLock
     \/ /\ transfers[k] # Null
        /\ transfers[k].status = "SETTLED" \/ (transfers[k].status = "PENDING" /\ Booked(k))
        /\ Answer(w, Done)
        /\ UNCHANGED transferLock
     \/ /\ transfers[k] # Null
        /\ transfers[k].status = "FAILED"
        /\ Goto(w, "mark")
        /\ UNCHANGED <<transferLock, snap, resp>>
     \/ /\ transfers[k] # Null
        /\ transfers[k].status = "PENDING" /\ ~Booked(k)
        /\ transferLock' = [transferLock EXCEPT ![k] = w]
        /\ Goto(w, "read1")
        /\ UNCHANGED <<snap, resp>>
  /\ UNCHANGED <<tables, accountLock, external, job, tries>>

Snapshot(w, a) ==
  snap' = [snap EXCEPT ![w][a] = [balance |-> accounts[a].balance,
                                  version |-> accounts[a].version]]

\* A 400 from processOnce: the transaction is rolled back before process
\* gets to markFailed.
Refuse(w) ==
  /\ EndTx(w)
  /\ Goto(w, "mark")
  /\ snap' = [snap EXCEPT ![w] = NoSnap]

\* readAccount of the first account.  The read takes no lock.
ReadFirst(w) ==
  LET a == FirstOf(job[w]) IN
  /\ pc[w] = "read1"
  /\ \/ /\ accounts[a].status = "ACTIVE"
        /\ Snapshot(w, a)
        /\ Goto(w, "read2")
        /\ UNCHANGED <<accountLock, transferLock>>
     \/ accounts[a].status # "ACTIVE" /\ Refuse(w)
  /\ UNCHANGED <<tables, external, job, tries, resp>>

\* readAccount of the second, then the balance test on the two snapshots.
ReadSecond(w) ==
  LET j == job[w]
      a == SecondOf(j)
      available == IF a = j.from THEN accounts[a].balance ELSE snap[w][j.from].balance
  IN
  /\ pc[w] = "read2"
  /\ \/ /\ accounts[a].status = "ACTIVE" /\ available >= j.amount
        /\ Snapshot(w, a)
        /\ Goto(w, "update1")
        /\ UNCHANGED <<accountLock, transferLock>>
     \/ /\ accounts[a].status # "ACTIVE" \/ available < j.amount
        /\ Refuse(w)
  /\ UNCHANGED <<tables, external, job, tries, resp>>

FromNew(w) == snap[w][job[w].from].balance - job[w].amount
ToNew(w)   == Wrap64(snap[w][job[w].to].balance + job[w].amount)

\* Mutant of Conflict: running out of attempts falls through to the answer of
\* an attempt without error.
ConflictAccepted(w) ==
  /\ EndTx(w)
  /\ Answer(w, Done)
  /\ UNCHANGED tries

\* errVersionConflict: rolled back, and tried again from Begin or given up.
Conflict(w) ==
  /\ EndTx(w)
  /\ \/ /\ tries[w] + 1 < MaxRetries
        /\ tries' = [tries EXCEPT ![w] = @ + 1]
        /\ Goto(w, "begin")
        /\ snap' = [snap EXCEPT ![w] = NoSnap]
        /\ UNCHANGED resp
     \/ /\ tries[w] + 1 = MaxRetries
        /\ Answer(w, "CONFLICT")
        /\ UNCHANGED tries

\* Mutants of UpdateAccount: the UPDATE runs on the pool instead of the
\* transaction, so the row is not held until the commit; or it has no
\* "AND version = $3".
UpdateOutsideTx(w, at, a, new, next) ==
  /\ pc[w] = at
  /\ Unlocked(a)
  /\ \/ /\ accounts[a].version = snap[w][a].version /\ BalanceCheck(new)
        /\ Goto(w, next)
        /\ UNCHANGED <<tries, snap, resp>>
     \/ accounts[a].version # snap[w][a].version /\ Conflict(w)
  /\ UNCHANGED <<dbVars, external, job>>
UpdateBlindly(w, at, a, new, next) ==
  /\ pc[w] = at
  /\ Unlocked(a)
  /\ accountLock' = [accountLock EXCEPT ![a] = w]
  /\ Goto(w, next)
  /\ UNCHANGED <<tables, transferLock, external, job, tries, snap, resp>>

\* optimisticUpdate of one account: waits for the row, then finds the version
\* it read, or no row; a balance past int64 fails the column's CHECK.
UpdateAccount(w, at, a, new, next) ==
  /\ pc[w] = at
  /\ Unlocked(a)
  /\ \/ /\ accounts[a].version = snap[w][a].version /\ BalanceCheck(new)
        /\ accountLock' = [accountLock EXCEPT ![a] = w]
        /\ Goto(w, next)
        /\ UNCHANGED <<transferLock, tries, snap, resp>>
     \/ /\ accounts[a].version = snap[w][a].version /\ ~BalanceCheck(new)
        /\ EndTx(w)
        /\ Answer(w, "ERROR")
        /\ UNCHANGED tries
     \/ accounts[a].version # snap[w][a].version /\ Conflict(w)
  /\ UNCHANGED <<tables, external, job>>

NewBalance(w, a) == IF a = job[w].from THEN FromNew(w) ELSE ToNew(w)
UpdateFirst(w) ==
  LET a == FirstOf(job[w]) IN UpdateAccount(w, "update1", a, NewBalance(w, a), "update2")
UpdateSecond(w) ==
  LET a == SecondOf(job[w]) IN UpdateAccount(w, "update2", a, NewBalance(w, a), "book")

\* The two entries, the status of standalone mode and the commit.  Its
\* acknowledgement may be lost, and the caller is then told of an error.
Book(w) ==
  LET j == job[w] IN
  /\ pc[w] = "book"
  /\ Post(j.from, FromNew(w), j.to, ToNew(w), j.amount, j.key)
  /\ transfers' = IF external THEN transfers
                  ELSE [transfers EXCEPT ![j.key].status = "SETTLED"]
  /\ EndTx(w)
  /\ \E answer \in {Done, "ERROR"} : Answer(w, answer)
  /\ UNCHANGED <<external, job, tries>>

\* markFailed: a statement of its own, after the rollback, and on whatever
\* the row holds by then, if there is one.  Its error is ignored.
MarkFailed(w) ==
  LET k == job[w].key IN
  /\ pc[w] = "mark"
  /\ \/ /\ transferLock[k] = Null
        /\ transfers[k] # Null
        /\ transfers' = [transfers EXCEPT ![k].status = "FAILED"]
     \/ UNCHANGED transfers
  /\ Answer(w, "REJECTED")
  /\ UNCHANGED <<accounts, entries, accountLock, transferLock, external, job, tries>>

----------------------------------------------------------------------------
\* Mutants of Settle: without isBooked; without the switch on the status.
SettleUnbooked(k) ==
  /\ transfers[k] # Null
  /\ transferLock[k] = Null
  /\ transfers[k].status = "PENDING"
  /\ transfers' = [transfers EXCEPT ![k].status = "SETTLED"]
  /\ UNCHANGED <<accounts, entries, accountLock, transferLock, transferVars>>
SettleAny(k) ==
  /\ transfers[k] # Null
  /\ transferLock[k] = Null
  /\ Booked(k)
  /\ transfers' = [transfers EXCEPT ![k].status = "SETTLED"]
  /\ UNCHANGED <<accounts, entries, accountLock, transferLock, transferVars>>

\* Settle: the row is locked, tested, written and committed; nothing else can
\* touch it meanwhile, and no other lock is taken.  On a FAILED, a SETTLED or
\* an unbooked transfer it returns with every table as it was.
Settle(k) ==
  /\ transfers[k] # Null
  /\ transferLock[k] = Null
  /\ transfers[k].status = "PENDING"
  /\ Booked(k)
  /\ transfers' = [transfers EXCEPT ![k].status = "SETTLED"]
  /\ UNCHANGED <<accounts, entries, accountLock, transferLock, transferVars>>

\* Mutant of FailUnbooked: Fail without the call of reverse.
FailWithoutReverse(k) ==
  /\ transfers[k] # Null
  /\ transferLock[k] = Null
  /\ transfers[k].status = "PENDING"
  /\ transfers' = [transfers EXCEPT ![k].status = "FAILED"]
  /\ UNCHANGED <<accounts, entries, accountLock, transferLock, transferVars>>

\* Fail of a transfer without entries: reverse has nothing to do.
FailUnbooked(k) ==
  /\ transfers[k] # Null
  /\ transferLock[k] = Null
  /\ transfers[k].status = "PENDING"
  /\ ~Booked(k)
  /\ transfers' = [transfers EXCEPT ![k].status = "FAILED"]
  /\ UNCHANGED <<accounts, entries, accountLock, transferLock, transferVars>>

\* Fail of a booked transfer: the transfer row is locked for all that follows.
FailBegin(w, k) ==
  /\ pc[w] = "idle"
  /\ transfers[k] # Null
  /\ transferLock[k] = Null
  /\ transfers[k].status = "PENDING"
  /\ Booked(k)
  /\ transferLock' = [transferLock EXCEPT ![k] = w]
  /\ job' = [job EXCEPT ![w] = Job("fail", k, transfers[k])]
  /\ Goto(w, "lock1")
  /\ UNCHANGED <<tables, accountLock, external, tries, snap, resp>>

\* Mutant of LockAccount: the SELECT has lost its FOR UPDATE.
ReadAccountUnlocked(w, at, a, next) ==
  /\ pc[w] = at
  /\ Snapshot(w, a)
  /\ Goto(w, next)
  /\ UNCHANGED <<dbVars, external, job, tries, resp>>

\* reverse: each account is read and locked by one SELECT ... FOR UPDATE.
LockAccount(w, at, a, next) ==
  /\ pc[w] = at
  /\ Unlocked(a)
  /\ accountLock' = [accountLock EXCEPT ![a] = w]
  /\ Snapshot(w, a)
  /\ Goto(w, next)
  /\ UNCHANGED <<tables, transferLock, external, job, tries, resp>>
LockFirst(w)  == LockAccount(w, "lock1", FirstOf(job[w]), "lock2")
LockSecond(w) == LockAccount(w, "lock2", SecondOf(job[w]), "reverse")

ToBack(w)   == snap[w][job[w].to].balance - job[w].amount
FromBack(w) == Wrap64(snap[w][job[w].from].balance + job[w].amount)
SnapCurrent(w) ==
  \A a \in {job[w].from, job[w].to} : accounts[a].version = snap[w][a].version

\* reverse, the status and the commit of Fail; or its refusals, all of which
\* roll the transaction back.
Reverse(w) ==
  LET j == job[w] IN
  /\ pc[w] = "reverse"
  /\ EndTx(w)
  /\ \/ /\ ToBack(w) < 0
        /\ Answer(w, "CONFLICT")
        /\ UNCHANGED tables
     \/ /\ ToBack(w) >= 0
        /\ ~SnapCurrent(w) \/ ~BalanceCheck(FromBack(w))
        /\ Answer(w, "ERROR")
        /\ UNCHANGED tables
     \/ /\ ToBack(w) >= 0 /\ SnapCurrent(w) /\ BalanceCheck(FromBack(w))
        /\ Post(j.to, ToBack(w), j.from, FromBack(w), j.amount, j.key)
        /\ transfers' = [transfers EXCEPT ![j.key].status = "FAILED"]
        /\ \E answer \in {"FAILED", "ERROR"} : Answer(w, answer)
  /\ UNCHANGED <<external, job, tries>>

----------------------------------------------------------------------------
\* A statement fails, or the request's context ends: rolled back, 500.
Abort(w) ==
  /\ pc[w] \in InTx \cup {"begin"}
  /\ EndTx(w)
  /\ Answer(w, "ERROR")
  /\ UNCHANGED <<tables, external, job, tries>>

Deliver(w) ==
  /\ pc[w] = "done"
  /\ Goto(w, "idle")
  /\ job' = [job EXCEPT ![w] = NoJob]
  /\ tries' = [tries EXCEPT ![w] = 0]
  /\ resp' = [resp EXCEPT ![w] = "none"]
  /\ UNCHANGED <<dbVars, external, snap>>

\* The process dies and another is started, perhaps with another
\* LIQUIDA_INTEGRATION.  What was not committed is gone with its sessions.
TransferRestart ==
  /\ external' \in Modes
  /\ pc' = [w \in Workers |-> "idle"]
  /\ job' = [w \in Workers |-> NoJob]
  /\ tries' = [w \in Workers |-> 0]
  /\ snap' = [w \in Workers |-> NoSnap]
  /\ resp' = [w \in Workers |-> "none"]

Submit(w) == \E k \in Keys, o \in Orders :
  \/ RejectInvalid(w, k, o)
  \/ AcquireNew(w, k, o) \/ AcquireUnknown(w, k, o) \/ AcquireExisting(w, k, o)

\* The steps a request takes by itself once it was received.
Proceed(w) ==
  \/ LockTransfer(w) \/ ReadFirst(w) \/ ReadSecond(w)
  \/ UpdateFirst(w) \/ UpdateSecond(w) \/ Book(w) \/ MarkFailed(w)
  \/ LockFirst(w) \/ LockSecond(w) \/ Reverse(w)
  \/ Deliver(w)

TransferNext ==
  \/ \E w \in Workers : Submit(w) \/ Proceed(w) \/ Abort(w)
  \/ \E k \in Keys : Settle(k) \/ FailUnbooked(k)
  \/ \E w \in Workers, k \in Keys : FailBegin(w, k)
=============================================================================
