----------------------------- MODULE BankProofs -----------------------------
(***************************************************************************)
(* Proofs that the bank keeps its books, for every set of accounts, keys,  *)
(* sessions and orders.                                                    *)
(***************************************************************************)
EXTENDS BankInvariant, TLAPS

\* The assumptions of the modules, under one name.
Assumed == DBAssumption /\ TransferAssumption /\ AccountAssumption /\ CoreAssumption

----------------------------------------------------------------------------
(* What a step of the session s (Null: of none) may do to the rows, as the *)
(* others see it: a balance changes only with its version, in a row that s *)
(* has locked; no lock of another is lost; no transfer changes its order.  *)
RowStep(a, s) ==
  /\ accounts[a].status # "ABSENT" => accounts'[a].status # "ABSENT"
  /\ \/ /\ accounts'[a].version = accounts[a].version
        /\ accounts'[a].balance = accounts[a].balance
     \/ /\ accounts'[a].version = accounts[a].version + 1
        /\ accountLock[a] = s

Kept(k) == transfers[k] # Null => transfers'[k] # Null /\ SameOrder(transfers'[k], transfers[k])

Frame(s) ==
  /\ \A a \in Accounts : RowStep(a, s)
  /\ \A a \in Accounts, u \in Sessions \ {s} :
       accountLock[a] = u => accountLock'[a] = u
  /\ \A k \in Keys : Kept(k)

Local(s) ==
  /\ \A v \in Workers \ {s} : pc'[v] = pc[v] /\ job'[v] = job[v] /\ snap'[v] = snap[v]
  /\ \A t \in Tellers \ {s} : tpc'[t] = tpc[t] /\ tjob'[t] = tjob[t] /\ tsnap'[t] = tsnap[t]

\* Rows that do not change keep their orders.
LEMMA SameRows ==
  ASSUME UNCHANGED transfers
  PROVE  \A k \in Keys : Kept(k)
BY DEF Kept, SameOrder

\* A job keeps its row while neither the job nor the rows change.
LEMMA RowOfSame ==
  ASSUME UNCHANGED transfers, NEW w, job'[w] = job[w], RowOf(job[w])
  PROVE  RowOf(job[w])'
BY DEF RowOf, SameOrder

\* What s does within its frame leaves every other worker as sound as it was:
\* the rows that one holds stay, and its readings still are of earlier rows.
LEMMA OtherWorkers ==
  ASSUME Assumed, TypeOK, TypeOK', NEW s, Frame(s), Local(s),
         NEW v \in Workers \ {s}, WorkerInv(v)
  PROVE  WorkerInv(v)'
<1>1. pc'[v] = pc[v] /\ job'[v] = job[v] /\ snap'[v] = snap[v]
  BY DEF Local
<1>2. v \in Sessions \ {s}
  BY DEF Assumed, TransferAssumption
<1>3. ASSUME NEW a \in Accounts
      PROVE  /\ Holds(v, a) => Holds(v, a)'
             /\ ReadOf(snap[v][a], accounts[a]) => ReadOf(snap[v][a], accounts[a])'
  <2>1. accountLock[a] = v =>
          accountLock'[a] = v /\ accounts'[a].version = accounts[a].version
    BY <1>2 DEF Frame, RowStep
  <2>2. accounts[a] \in AccountRow /\ accounts'[a] \in AccountRow /\ snap[v][a] \in Reading
    BY DEF TypeOK, DBTypeOK, TransferTypeOK
  <2>3. RowStep(a, s)
    BY DEF Frame
  <2> QED
    BY <1>1, <2>1, <2>2, <2>3 DEF Holds, ReadOf, RowStep, AccountRow, Reading
<1>4. pc[v] \in Working => job[v] \in LiveJobs /\ RowOf(job[v])'
  BY <1>1 DEF WorkerInv, Frame, Kept, RowOf, SameOrder, LiveJobs
<1>5. pc[v] \in Working => job[v].from \in Accounts /\ job[v].to \in Accounts
  BY <1>4 DEF LiveJobs
<1>6. pc[v] \in {"update2", "lock2", "book", "reverse"} => pc[v] \in Working
  BY DEF Working, Steps, InTx
<1>7. FirstOf(job[v])' = FirstOf(job[v]) /\ (FirstOf(job[v]) = job[v].from \/ FirstOf(job[v]) = job[v].to)
  BY <1>1 DEF FirstOf
<1>8. FromNew(v)' = FromNew(v) /\ ToNew(v)' = ToNew(v)
      /\ NewBalance(v, FirstOf(job[v]))' = NewBalance(v, FirstOf(job[v]))
  BY <1>1, <1>7 DEF FromNew, ToNew, NewBalance
<1> QED
  BY <1>1, <1>3, <1>4, <1>5, <1>6, <1>7, <1>8 DEF WorkerInv

\* The same of every other teller.
LEMMA OtherTellers ==
  ASSUME Assumed, TypeOK, TypeOK', NEW s, Frame(s), Local(s),
         NEW t \in Tellers \ {s}, TellerInv(t)
  PROVE  TellerInv(t)'
<1>1. tpc'[t] = tpc[t] /\ tjob'[t] = tjob[t] /\ tsnap'[t] = tsnap[t]
  BY DEF Local
<1>2. t \in Sessions \ {s}
  BY DEF Assumed, AccountAssumption
<1>3. SUFFICES ASSUME tpc[t] # "idle", NEW a, a = tjob[t].account, a \in Accounts
               PROVE  TellerInv(t)'
  BY <1>1 DEF TellerInv
<1>4. accountLock[a] = t =>
        accountLock'[a] = t /\ accounts'[a].version = accounts[a].version
  BY <1>2, <1>3 DEF Frame, RowStep
<1>5. accounts[a] \in AccountRow /\ accounts'[a] \in AccountRow /\ tsnap[t] \in Reading
  BY <1>3 DEF TypeOK, DBTypeOK, AccountTypeOK, Reading
<1>6. RowStep(a, s)
  BY <1>3 DEF Frame
<1>7. ReadOf(tsnap[t], accounts[a]) => ReadOf(tsnap[t], accounts[a])'
  BY <1>1, <1>5, <1>6 DEF ReadOf, RowStep, AccountRow, Reading
<1>8. Sum64(t, tsnap[t])' = Sum64(t, tsnap[t])
  BY <1>1 DEF Sum64
<1>9. accounts[a].status # "ABSENT" => accounts'[a].status # "ABSENT"
  BY <1>6 DEF RowStep
<1> QED
  BY <1>1, <1>3, <1>4, <1>7, <1>8, <1>9 DEF TellerInv

\* A step within its frame keeps the invariant if it keeps the tables' part of
\* it and that of its own session.
LEMMA StepKeeps ==
  ASSUME Assumed, IInv, NEW s, Frame(s), Local(s),
         TypeOK', RowsInv', BooksInv',
         s \in Workers => WorkerInv(s)',
         s \in Tellers => TellerInv(s)'
  PROVE  IInv'
<1>1. \A v \in Workers : WorkerInv(v)'
  BY OtherWorkers DEF IInv
<1>2. \A t \in Tellers : TellerInv(t)'
  BY OtherTellers DEF IInv
<1> QED
  BY <1>1, <1>2 DEF IInv
----------------------------------------------------------------------------
(* The helpers the actions are built from.                                 *)

\* The end of a transaction frees its own rows and no one else's.
LEMMA ReleaseFacts ==
  ASSUME Assumed, TypeOK, NEW s, ReleaseAll(s)
  PROVE  /\ accountLock' \in [Accounts -> Null2(Sessions)]
         /\ transferLock' \in [Keys -> Null2(Sessions)]
         /\ \A a \in Accounts, u \in Sessions \ {s} :
              accountLock[a] = u => accountLock'[a] = u
BY DEF ReleaseAll, Release, TypeOK, DBTypeOK, Null2

\* Nothing read is still a reading of every account.
LEMMA NoSnapType == ASSUME Assumed PROVE NoSnap \in [Accounts -> Reading]
BY DEF NoSnap, Unread, Reading, Cents, Assumed, DBAssumption

\* A balance the ledger has no entry for is zero: what has not been read yet
\* counts as a reading of any row.
LEMMA UnreadReads ==
  ASSUME Assumed, TypeOK', BooksInv', NEW a \in Accounts
  PROVE  ReadOf(NoSnap[a], accounts'[a])
<1>1. accounts'[a] \in AccountRow /\ entries'[a] \in Seq(Entry)
  BY DEF TypeOK, DBTypeOK
<1>2. accounts'[a].version = 0 => accounts'[a].balance = 0
  BY <1>1 DEF BooksInv, LedgerChain, VersionPerEntry, BalanceAt
<1> QED
  BY <1>1, <1>2 DEF ReadOf, NoSnap, Unread, AccountRow, Cents

\* Answering moves one worker to done, with nothing read.
LEMMA AnswerFacts ==
  ASSUME Assumed, TypeOK, NEW w \in Workers, NEW answer \in Answers, Answer(w, answer)
  PROVE  /\ pc' \in [Workers -> Steps] /\ pc'[w] = "done"
         /\ resp' \in [Workers -> Answers]
         /\ snap' \in [Workers -> [Accounts -> Reading]] /\ snap'[w] = NoSnap
         /\ \A v \in Workers \ {w} : pc'[v] = pc[v] /\ snap'[v] = snap[v]
<1>1. "done" \in Steps
  BY DEF Steps
<1> QED
  BY <1>1, NoSnapType DEF Answer, Goto, TypeOK, TransferTypeOK

\* Goto moves one worker.
LEMMA GotoFacts ==
  ASSUME Assumed, TypeOK, NEW w \in Workers, NEW step \in Steps, Goto(w, step)
  PROVE  /\ pc' \in [Workers -> Steps] /\ pc'[w] = step
         /\ \A v \in Workers \ {w} : pc'[v] = pc[v]
BY DEF Goto, TypeOK, TransferTypeOK

\* A request is taken up by one worker.
LEMMA JobFacts ==
  ASSUME Assumed, TypeOK, NEW w \in Workers, NEW j \in Jobs,
         job' = [job EXCEPT ![w] = j]
  PROVE  /\ job' \in [Workers -> Jobs] /\ job'[w] = j
         /\ \A v \in Workers \ {w} : job'[v] = job[v]
BY DEF TypeOK, TransferTypeOK

\* A reading is of one account, by one worker, and is the committed row.
LEMMA SnapFacts ==
  ASSUME Assumed, TypeOK, NEW w \in Workers, NEW a \in Accounts, Snapshot(w, a)
  PROVE  /\ snap' \in [Workers -> [Accounts -> Reading]]
         /\ \A v \in Workers \ {w} : snap'[v] = snap[v]
         /\ \A b \in Accounts \ {a} : snap'[w][b] = snap[w][b]
         /\ snap'[w][a].version = accounts[a].version
         /\ snap'[w][a].balance = accounts[a].balance
BY DEF Snapshot, TypeOK, TransferTypeOK, DBTypeOK, AccountRow, Reading

\* A worker that waits for a request, or for its answer to be delivered.
LEMMA AtRest ==
  ASSUME Assumed, TypeOK', BooksInv', NEW w \in Workers,
         pc'[w] \in {"idle", "done"}, snap'[w] = NoSnap
  PROVE  WorkerInv(w)'
BY UnreadReads DEF WorkerInv, Working

\* A worker's step that leaves the books as they are.
LEMMA QuietStep ==
  ASSUME Assumed, IInv, TypeOK', NEW w \in Workers,
         UNCHANGED <<accounts, entries, accountVars>>,
         \A a \in Accounts, u \in Sessions \ {w} :
           accountLock[a] = u => accountLock'[a] = u,
         \A k \in Keys : Kept(k),
         RowsInv',
         \A v \in Workers \ {w} : pc'[v] = pc[v] /\ job'[v] = job[v] /\ snap'[v] = snap[v],
         BooksInv' => WorkerInv(w)'
  PROVE  IInv'
<1>1. BooksInv'
  BY DEF IInv, BooksInv, LedgerChain, VersionPerEntry, Chained
<1>2. Frame(w)
  BY DEF Frame, RowStep
<1>3. Local(w)
  BY DEF Local, accountVars
<1>4. w \notin Tellers
  BY DEF Assumed, CoreAssumption
<1> QED
  BY <1>1, <1>2, <1>3, <1>4, StepKeeps

\* A worker's step that changes nothing but its own variables.
LEMMA PrivateStep ==
  ASSUME Assumed, IInv, NEW w \in Workers,
         UNCHANGED <<dbVars, accountVars, external>>,
         TransferTypeOK',
         \A v \in Workers \ {w} : pc'[v] = pc[v] /\ job'[v] = job[v] /\ snap'[v] = snap[v],
         BooksInv' => WorkerInv(w)'
  PROVE  IInv'
<1>1. TypeOK'
  BY DEF IInv, TypeOK, DBTypeOK, AccountTypeOK, dbVars, accountVars
<1>2. RowsInv'
  BY DEF IInv, RowsInv, dbVars
<1> QED
  BY <1>1, <1>2, SameRows, QuietStep DEF dbVars

\* Refusing invalid arguments keeps the invariant.
LEMMA RejectInvalidKeeps ==
  ASSUME Assumed, IInv, NEW w \in Workers, NEW k \in Keys, NEW o \in Orders,
         RejectInvalid(w, k, o), UNCHANGED accountVars
  PROVE  IInv'
<1>1. Job("transfer", k, o) \in Jobs
  BY DEF Job, Jobs, Assumed, TransferAssumption
<1>2. Answer(w, "REJECTED") /\ "REJECTED" \in Answers
  BY DEF RejectInvalid, Answers
<1>3. TransferTypeOK'
  BY <1>1, <1>2, AnswerFacts, JobFacts DEF RejectInvalid, IInv, TypeOK, TransferTypeOK
<1>4. BooksInv' => WorkerInv(w)'
  <2>1. TypeOK'
    BY <1>3 DEF RejectInvalid, IInv, TypeOK, DBTypeOK, AccountTypeOK, dbVars, accountVars
  <2> QED
    BY <1>2, <2>1, AnswerFacts, AtRest DEF IInv
<1> QED
  BY <1>1, <1>2, <1>3, <1>4, AnswerFacts, JobFacts, PrivateStep DEF RejectInvalid, IInv

\* A worker that has compared nothing yet, or no longer will.
LEMMA Early ==
  ASSUME NEW w \in Workers,
         pc'[w] \in {"begin", "mark", "read1", "read2", "lock1"},
         job'[w] \in LiveJobs, RowOf(job[w])',
         \A a \in Accounts : ReadOf(snap'[w][a], accounts'[a])
  PROVE  WorkerInv(w)'
BY DEF WorkerInv

\* A worker between two statements serves a well formed order that has a row,
\* and order() visits that order's two accounts.
LEMMA LiveFacts ==
  ASSUME NEW w \in Workers, WorkerInv(w), pc[w] \in Working
  PROVE  /\ job[w] \in LiveJobs /\ job[w].key \in Keys
         /\ job[w].from \in Accounts /\ job[w].to \in Accounts
         /\ job[w].from # job[w].to /\ job[w].amount \in Cents \ {0}
         /\ FirstOf(job[w]) \in Accounts /\ SecondOf(job[w]) \in Accounts
         /\ FirstOf(job[w]) # SecondOf(job[w])
         /\ {FirstOf(job[w]), SecondOf(job[w])} = {job[w].from, job[w].to}
         /\ RowOf(job[w])
BY DEF WorkerInv, LiveJobs, FirstOf, SecondOf

\* Claiming a key keeps the invariant: the foreign keys saw both accounts.
LEMMA AcquireNewKeeps ==
  ASSUME Assumed, IInv, NEW w \in Workers, NEW k \in Keys, NEW o \in Orders,
         AcquireNew(w, k, o), UNCHANGED accountVars
  PROVE  IInv'
<1> DEFINE row == [from |-> o.from, to |-> o.to, amount |-> o.amount, status |-> "PENDING"]
<1>1. o.from \in Accounts /\ o.to \in Accounts /\ o.from # o.to /\ o.amount \in Cents \ {0}
  BY DEF AcquireNew, Valid, Assumed, TransferAssumption, DBAssumption, Cents
<1>2. Job("transfer", k, o) \in LiveJobs /\ Job("transfer", k, o) \in Jobs
  BY <1>1 DEF Job, Jobs, LiveJobs, Cents
<1>3. Goto(w, "begin") /\ "begin" \in Steps
  BY DEF AcquireNew, Steps
<1>4. row \in TransferRow /\ row # Null
  <2>1. row \in TransferRow
    BY <1>1 DEF TransferRow, TransferStatus
  <2>2. row # Null
    BY <2>1 DEF Assumed, DBAssumption
  <2> QED BY <2>1, <2>2
<1>5. /\ transfers' \in [Keys -> Null2(TransferRow)]
      /\ transfers'[k] = row
      /\ \A l \in Keys \ {k} : transfers'[l] = transfers[l]
  BY <1>4 DEF AcquireNew, IInv, TypeOK, DBTypeOK, Null2
<1>6. TypeOK'
  <2>1. DBTypeOK'
    BY <1>5 DEF AcquireNew, IInv, TypeOK, DBTypeOK
  <2>2. TransferTypeOK'
    BY <1>2, <1>3, GotoFacts, JobFacts DEF AcquireNew, IInv, TypeOK, TransferTypeOK
  <2>3. AccountTypeOK'
    BY DEF IInv, TypeOK, AccountTypeOK, accountVars
  <2> QED BY <2>1, <2>2, <2>3 DEF TypeOK
<1>7. RowsInv'
  BY <1>1, <1>5 DEF AcquireNew, IInv, RowsInv
<1>9. \A l \in Keys : Kept(l)
  BY <1>5 DEF AcquireNew, Kept, SameOrder
<1>8. WorkerInv(w)'
  <2>1. \A a \in Accounts : ReadOf(snap'[w][a], accounts'[a])
    BY DEF AcquireNew, IInv, WorkerInv
  <2>2. job'[w] = Job("transfer", k, o) /\ job'[w].key = k /\ pc'[w] = "begin"
    BY <1>2, <1>3, GotoFacts, JobFacts DEF AcquireNew, IInv, Job
  <2>3. RowOf(job[w])'
    BY <1>4, <1>5, <2>2 DEF RowOf, SameOrder, Job
  <2> QED
    BY <1>2, <2>1, <2>2, <2>3, Early
<1> QED
  BY <1>2, <1>3, <1>4, <1>5, <1>6, <1>7, <1>8, <1>9, GotoFacts, JobFacts, QuietStep DEF AcquireNew, IInv

\* A claim the foreign keys refuse keeps the invariant.
LEMMA AcquireUnknownKeeps ==
  ASSUME Assumed, IInv, NEW w \in Workers, NEW k \in Keys, NEW o \in Orders,
         AcquireUnknown(w, k, o), UNCHANGED accountVars
  PROVE  IInv'
<1>1. Job("transfer", k, o) \in Jobs
  BY DEF Job, Jobs, Assumed, TransferAssumption
<1>2. Answer(w, "ERROR") /\ "ERROR" \in Answers
  BY DEF AcquireUnknown, Answers
<1>3. TransferTypeOK'
  BY <1>1, <1>2, AnswerFacts, JobFacts DEF AcquireUnknown, IInv, TypeOK, TransferTypeOK
<1>4. BooksInv' => WorkerInv(w)'
  <2>1. TypeOK'
    BY <1>3 DEF AcquireUnknown, IInv, TypeOK, DBTypeOK, AccountTypeOK, dbVars, accountVars
  <2> QED
    BY <1>2, <2>1, AnswerFacts, AtRest DEF IInv
<1> QED
  BY <1>1, <1>2, <1>3, <1>4, AnswerFacts, JobFacts, PrivateStep DEF AcquireUnknown, IInv

\* Meeting a claimed key keeps the invariant: only the same order is worked on.
LEMMA AcquireExistingKeeps ==
  ASSUME Assumed, IInv, NEW w \in Workers, NEW k \in Keys, NEW o \in Orders,
         AcquireExisting(w, k, o), UNCHANGED accountVars
  PROVE  IInv'
<1> DEFINE j == Job("transfer", k, o)
<1>1. j \in Jobs /\ j.key = k
  BY DEF Job, Jobs, Assumed, TransferAssumption
<1>2. job' = [job EXCEPT ![w] = j] /\ UNCHANGED <<dbVars, external, tries>> /\ transfers[k] # Null
  BY DEF AcquireExisting
<1>3. /\ job' \in [Workers -> Jobs] /\ job'[w] = j
      /\ \A v \in Workers \ {w} : job'[v] = job[v]
  BY <1>1, <1>2, JobFacts DEF IInv
<1>4. CASE \E answer \in Answers : Answer(w, answer)
  <2>1. TransferTypeOK'
    BY <1>2, <1>3, <1>4, AnswerFacts DEF IInv, TypeOK, TransferTypeOK
  <2>2. TypeOK'
    BY <1>2, <2>1 DEF IInv, TypeOK, DBTypeOK, AccountTypeOK, dbVars, accountVars
  <2>3. BooksInv' => WorkerInv(w)'
    BY <1>4, <2>2, AnswerFacts, AtRest DEF IInv
  <2> QED
    BY <1>2, <1>3, <1>4, <2>1, <2>3, AnswerFacts, PrivateStep DEF IInv
<1>5. CASE Goto(w, "begin") /\ UNCHANGED <<snap, resp>> /\ SameOrder(transfers[k], o)
  <2>1. "begin" \in Steps
    BY DEF Steps
  <2>2. /\ pc' \in [Workers -> Steps] /\ pc'[w] = "begin"
        /\ \A v \in Workers \ {w} : pc'[v] = pc[v]
    BY <1>5, <2>1, GotoFacts DEF IInv
  <2>3. TransferTypeOK'
    BY <1>2, <1>3, <1>5, <2>2 DEF IInv, TypeOK, TransferTypeOK
  <2>4. j \in LiveJobs
    <3>1. transfers[k] \in TransferRow
      BY <1>2 DEF IInv, TypeOK, DBTypeOK, Null2
    <3>2. o.from = transfers[k].from /\ o.to = transfers[k].to /\ o.amount = transfers[k].amount
      BY <1>5 DEF SameOrder
    <3>3. o.from # o.to
      BY DEF AcquireExisting, Valid
    <3> QED
      BY <3>1, <3>2, <3>3 DEF Job, LiveJobs, TransferRow
  <2>5. WorkerInv(w)'
    <3>1. \A a \in Accounts : ReadOf(snap'[w][a], accounts'[a])
      BY <1>2, <1>5 DEF IInv, WorkerInv, dbVars
    <3>2. RowOf(job[w])'
      BY <1>1, <1>2, <1>3, <1>5 DEF RowOf, SameOrder, Job, dbVars
    <3> QED
      BY <1>3, <2>2, <2>4, <3>1, <3>2, Early
  <2> QED
    BY <1>2, <1>3, <1>5, <2>2, <2>3, <2>5, PrivateStep DEF IInv
<1> QED
  BY <1>4, <1>5 DEF AcquireExisting, Answers

\* Ends of attempts: the locks go, and with them the readings.
LEMMA EndKeeps ==
  ASSUME Assumed, IInv, NEW w \in Workers, UNCHANGED <<tables, accountVars, external, job>>,
         EndTx(w), tries' \in [Workers -> 0 .. MaxRetries - 1],
         pc[w] \in Working,
         \/ \E answer \in Answers : Answer(w, answer)
         \/ /\ \E step \in {"begin", "mark"} : Goto(w, step)
            /\ snap' = [snap EXCEPT ![w] = NoSnap]
            /\ UNCHANGED resp
  PROVE  IInv'
<1>1. /\ accountLock' \in [Accounts -> Null2(Sessions)]
      /\ transferLock' \in [Keys -> Null2(Sessions)]
      /\ \A a \in Accounts, u \in Sessions \ {w} :
           accountLock[a] = u => accountLock'[a] = u
  BY ReleaseFacts DEF EndTx, IInv
<1>2. /\ pc' \in [Workers -> Steps] /\ pc'[w] \in {"done", "begin", "mark"}
      /\ resp' \in [Workers -> Answers]
      /\ snap' \in [Workers -> [Accounts -> Reading]] /\ snap'[w] = NoSnap
      /\ \A v \in Workers \ {w} : pc'[v] = pc[v] /\ snap'[v] = snap[v]
  <2>1. CASE \E answer \in Answers : Answer(w, answer)
    BY <2>1, AnswerFacts DEF IInv
  <2>2. CASE /\ \E step \in {"begin", "mark"} : Goto(w, step)
             /\ snap' = [snap EXCEPT ![w] = NoSnap]
             /\ UNCHANGED resp
    <3>1. "begin" \in Steps /\ "mark" \in Steps
      BY DEF Steps
    <3> QED
      BY <2>2, <3>1, GotoFacts, NoSnapType DEF IInv, TypeOK, TransferTypeOK
  <2> QED BY <2>1, <2>2
<1>3. TypeOK'
  BY <1>1, <1>2 DEF IInv, TypeOK, DBTypeOK, TransferTypeOK, AccountTypeOK, tables, accountVars
<1>4. RowsInv'
  BY DEF IInv, RowsInv, tables
<1>5. BooksInv' => WorkerInv(w)'
  <2>1. CASE pc'[w] = "done"
    BY <1>2, <1>3, <2>1, AtRest
  <2>2. CASE pc'[w] \in {"begin", "mark"}
    <3>1. job'[w] \in LiveJobs /\ RowOf(job[w])'
      BY LiveFacts, RowOfSame DEF IInv, tables
    <3> QED
      BY <1>2, <1>3, <2>2, <3>1, UnreadReads, Early
  <2> QED BY <1>2, <2>1, <2>2
<1> QED
  BY <1>1, <1>2, <1>3, <1>4, <1>5, SameRows, QuietStep DEF tables, IInv

\* Locking the transfer row, or stopping at it, keeps the invariant.
LEMMA LockTransferKeeps ==
  ASSUME Assumed, IInv, NEW w \in Workers, LockTransfer(w), UNCHANGED accountVars
  PROVE  IInv'
<1> DEFINE k == job[w].key
<1>1. pc[w] = "begin" /\ pc[w] \in Working
  BY DEF LockTransfer, Working, Steps
<1>2. job[w] \in LiveJobs /\ k \in Keys /\ RowOf(job[w])
  BY <1>1, LiveFacts DEF IInv
<1>3. UNCHANGED <<tables, accountLock, external, job, tries>>
  BY DEF LockTransfer
<1>4. ASSUME NEW answer \in {Done, "ERROR"}, Answer(w, answer), UNCHANGED transferLock
      PROVE  IInv'
  <2>1. answer \in Answers
    BY DEF Done, Answers
  <2>2. TransferTypeOK'
    BY <1>3, <1>4, <2>1, AnswerFacts DEF IInv, TypeOK, TransferTypeOK
  <2>3. TypeOK'
    BY <1>3, <1>4, <2>2 DEF IInv, TypeOK, DBTypeOK, AccountTypeOK, tables, accountVars
  <2> QED
    BY <1>3, <1>4, <2>1, <2>2, <2>3, AnswerFacts, AtRest, PrivateStep DEF IInv, dbVars, tables
<1>5. ASSUME NEW step \in {"mark", "read1"}, Goto(w, step), UNCHANGED <<snap, resp>>,
             \/ UNCHANGED transferLock
             \/ transferLock' = [transferLock EXCEPT ![k] = w]
      PROVE  IInv'
  <2>1. step \in Steps
    BY DEF Steps, InTx
  <2>2. /\ pc' \in [Workers -> Steps] /\ pc'[w] = step
        /\ \A v \in Workers \ {w} : pc'[v] = pc[v]
    BY <1>5, <2>1, GotoFacts DEF IInv
  <2>3. transferLock' \in [Keys -> Null2(Sessions)]
    BY <1>5 DEF IInv, TypeOK, DBTypeOK, Null2, Assumed, TransferAssumption
  <2>4. TypeOK'
    BY <1>3, <1>5, <2>2, <2>3 DEF IInv, TypeOK, DBTypeOK, TransferTypeOK, AccountTypeOK, tables, accountVars
  <2>5. RowsInv'
    BY <1>3 DEF IInv, RowsInv, tables
  <2>6. WorkerInv(w)'
    <3>1. \A a \in Accounts : ReadOf(snap'[w][a], accounts'[a])
      BY <1>3, <1>5 DEF IInv, WorkerInv, tables
    <3> QED
      BY <1>2, <1>3, <2>2, <3>1, RowOfSame, Early DEF tables
  <2> QED
    BY <1>3, <1>5, <2>2, <2>4, <2>5, <2>6, SameRows, QuietStep DEF IInv, tables
<1> QED
  BY <1>4, <1>5 DEF LockTransfer

\* Rolling back before markFailed keeps the invariant.
LEMMA RefuseKeeps ==
  ASSUME Assumed, IInv, NEW w \in Workers, Refuse(w), pc[w] \in Working,
         UNCHANGED <<tables, accountVars, external, job, tries, resp>>
  PROVE  IInv'
BY EndKeeps DEF Refuse, IInv, TypeOK, TransferTypeOK

\* The first reading keeps the invariant.
LEMMA ReadFirstKeeps ==
  ASSUME Assumed, IInv, NEW w \in Workers, ReadFirst(w), UNCHANGED accountVars
  PROVE  IInv'
<1> DEFINE a == FirstOf(job[w])
<1>1. pc[w] = "read1" /\ pc[w] \in Working
  BY DEF ReadFirst, Working, Steps, InTx
<1>2. job[w] \in LiveJobs /\ a \in Accounts /\ RowOf(job[w])
  BY <1>1, LiveFacts DEF IInv
<1>3. UNCHANGED <<tables, external, job, tries, resp>>
  BY DEF ReadFirst
<1>4. CASE Snapshot(w, a) /\ Goto(w, "read2") /\ UNCHANGED <<accountLock, transferLock>>
  <2>1. "read2" \in Steps
    BY DEF Steps, InTx
  <2>2. TransferTypeOK'
    BY <1>2, <1>3, <1>4, <2>1, GotoFacts, SnapFacts DEF IInv, TypeOK, TransferTypeOK
  <2>3. WorkerInv(w)'
    <3>1. pc'[w] = "read2"
      BY <1>4, <2>1, GotoFacts DEF IInv
    <3>2. \A b \in Accounts : ReadOf(snap'[w][b], accounts'[b])
      <4>1. accounts[a].version \in Nat
        BY <1>2 DEF IInv, TypeOK, DBTypeOK, AccountRow
      <4> QED
        BY <1>2, <1>3, <1>4, <4>1, SnapFacts DEF IInv, WorkerInv, ReadOf, tables
    <3> QED
      BY <1>2, <1>3, <3>1, <3>2, RowOfSame, Early DEF tables
  <2> QED
    BY <1>2, <1>3, <1>4, <2>1, <2>2, <2>3, GotoFacts, SnapFacts, PrivateStep DEF IInv, dbVars, tables
<1>5. CASE Refuse(w)
  BY <1>1, <1>3, <1>5, RefuseKeeps
<1> QED
  BY <1>4, <1>5 DEF ReadFirst

\* The second reading keeps the invariant: only covered amounts go on.
LEMMA ReadSecondKeeps ==
  ASSUME Assumed, IInv, NEW w \in Workers, ReadSecond(w), UNCHANGED accountVars
  PROVE  IInv'
<1> DEFINE j == job[w]
           a == SecondOf(job[w])
           available == IF a = j.from THEN accounts[a].balance ELSE snap[w][j.from].balance
<1>1. pc[w] = "read2" /\ pc[w] \in Working
  BY DEF ReadSecond, Working, Steps, InTx
<1>2. job[w] \in LiveJobs /\ a \in Accounts /\ RowOf(job[w])
      /\ j.from \in Accounts /\ j.amount \in Cents
  BY <1>1, LiveFacts DEF IInv
<1>3. UNCHANGED <<tables, external, job, tries, resp>>
  BY DEF ReadSecond
<1>4. CASE /\ available >= j.amount /\ Snapshot(w, a) /\ Goto(w, "update1")
           /\ UNCHANGED <<accountLock, transferLock>>
  <2>1. "update1" \in Steps
    BY DEF Steps, InTx
  <2>2. TransferTypeOK'
    BY <1>2, <1>3, <1>4, <2>1, GotoFacts, SnapFacts DEF IInv, TypeOK, TransferTypeOK
  <2>3. WorkerInv(w)'
    <3>1. pc'[w] = "update1"
      BY <1>4, <2>1, GotoFacts DEF IInv
    <3>2. \A b \in Accounts : ReadOf(snap'[w][b], accounts'[b])
      <4>1. accounts[a].version \in Nat
        BY <1>2 DEF IInv, TypeOK, DBTypeOK, AccountRow
      <4> QED
        BY <1>2, <1>3, <1>4, <4>1, SnapFacts DEF IInv, WorkerInv, ReadOf, tables
    <3>3. snap'[w][j.from].balance = available
      BY <1>2, <1>4, SnapFacts DEF IInv
    <3>4. FromNew(w)' >= 0
      <4>1. available \in Cents
        BY <1>2 DEF IInv, TypeOK, DBTypeOK, TransferTypeOK, AccountRow, Reading
      <4> QED
        BY <1>2, <1>3, <1>4, <3>3, <4>1 DEF FromNew, Cents, Assumed, DBAssumption
    <3> QED
      BY <1>2, <1>3, <3>1, <3>2, <3>4, RowOfSame DEF WorkerInv, tables
  <2> QED
    BY <1>2, <1>3, <1>4, <2>1, <2>2, <2>3, GotoFacts, SnapFacts, PrivateStep DEF IInv, dbVars, tables
<1>5. CASE Refuse(w)
  BY <1>1, <1>3, <1>5, RefuseKeeps
<1> QED
  BY <1>4, <1>5 DEF ReadSecond

\* A status is written into one row, and the orders stay.
LEMMA StatusFacts ==
  ASSUME Assumed, IInv, NEW k \in Keys, transfers[k] # Null, NEW st \in TransferStatus,
         transfers' = [transfers EXCEPT ![k].status = st]
  PROVE  /\ transfers' \in [Keys -> Null2(TransferRow)]
         /\ transfers'[k].status = st
         /\ \A l \in Keys : Kept(l)
         /\ \A l \in Keys : transfers[l] = Null => transfers'[l] = Null
<1> DEFINE row == [transfers[k] EXCEPT !.status = st]
<1>1. transfers[k] \in TransferRow
  BY DEF IInv, TypeOK, DBTypeOK, Null2
<1>2. /\ row \in TransferRow /\ row.status = st
      /\ row.from = transfers[k].from /\ row.to = transfers[k].to
      /\ row.amount = transfers[k].amount
  BY <1>1 DEF TransferRow
<1>3. row # Null
  BY <1>2 DEF Assumed, DBAssumption
<1>4. transfers' = [transfers EXCEPT ![k] = row] /\ transfers \in [Keys -> Null2(TransferRow)]
  BY DEF IInv, TypeOK, DBTypeOK
<1> HIDE DEF row
<1>5. /\ transfers' \in [Keys -> Null2(TransferRow)] /\ transfers'[k] = row
      /\ \A l \in Keys \ {k} : transfers'[l] = transfers[l]
  BY <1>2, <1>4 DEF Null2
<1> QED
  BY <1>2, <1>3, <1>5 DEF Kept, SameOrder

\* The transfers keep their orders and the accounts do not go away.
LEMMA RowsKept ==
  ASSUME Assumed, IInv, TypeOK', \A k \in Keys : Kept(k),
         \A k \in Keys : transfers[k] = Null => transfers'[k] = Null,
         \A a \in Accounts : accounts[a].status # "ABSENT" => accounts'[a].status # "ABSENT",
         \A a \in Accounts : accounts'[a].status = "ABSENT" => accounts'[a].version = 0
  PROVE  RowsInv'
<1>1. SUFFICES ASSUME NEW k \in Keys, transfers'[k] # Null
               PROVE  /\ transfers'[k].from # transfers'[k].to
                      /\ \A a \in {transfers'[k].from, transfers'[k].to} :
                           accounts'[a].status # "ABSENT"
  BY DEF RowsInv
<1>2. transfers[k] # Null /\ SameOrder(transfers'[k], transfers[k])
  BY <1>1 DEF Kept
<1>3. transfers'[k] \in TransferRow
  BY <1>1 DEF TypeOK, DBTypeOK, Null2
<1> QED
  BY <1>2, <1>3 DEF IInv, RowsInv, SameOrder, TransferRow

\* markFailed keeps the invariant.
LEMMA MarkFailedKeeps ==
  ASSUME Assumed, IInv, NEW w \in Workers, MarkFailed(w), UNCHANGED accountVars
  PROVE  IInv'
<1> DEFINE k == job[w].key
<1>1. pc[w] = "mark" /\ pc[w] \in Working
  BY DEF MarkFailed, Working, Steps
<1>2. k \in Keys /\ transfers[k] # Null
  BY <1>1, LiveFacts DEF IInv, RowOf
<1>3. Answer(w, "REJECTED") /\ "REJECTED" \in Answers
  BY DEF MarkFailed, Answers
<1>4. transfers' = [transfers EXCEPT ![k].status = "FAILED"] \/ UNCHANGED transfers
  BY DEF MarkFailed
<1>5. /\ transfers' \in [Keys -> Null2(TransferRow)]
      /\ \A l \in Keys : Kept(l)
      /\ \A l \in Keys : transfers[l] = Null => transfers'[l] = Null
  <2>1. "FAILED" \in TransferStatus
    BY DEF TransferStatus
  <2> QED
    BY <1>2, <1>4, <2>1, StatusFacts, SameRows DEF IInv, TypeOK, DBTypeOK
<1>6. TypeOK'
  BY <1>3, <1>5, AnswerFacts DEF MarkFailed, IInv, TypeOK, DBTypeOK, TransferTypeOK, AccountTypeOK, accountVars
<1>7. BooksInv' => WorkerInv(w)'
  BY <1>3, <1>6, AnswerFacts, AtRest DEF IInv
<1>8. RowsInv'
  BY <1>5, <1>6, RowsKept DEF MarkFailed, IInv, RowsInv
<1> QED
  BY <1>3, <1>5, <1>6, <1>7, <1>8, AnswerFacts, QuietStep DEF MarkFailed, IInv

\* A rollback, wherever it happens, keeps the invariant.
LEMMA AbortKeeps ==
  ASSUME Assumed, IInv, NEW w \in Workers, Abort(w), UNCHANGED accountVars
  PROVE  IInv'
<1>1. pc[w] \in Working
  BY DEF Abort, Working, Steps, InTx
<1>2. Answer(w, "ERROR") /\ "ERROR" \in Answers
  BY DEF Abort, Answers
<1> QED
  BY <1>1, <1>2, EndKeeps DEF Abort, IInv, TypeOK, TransferTypeOK

\* Delivering the answer keeps the invariant.
LEMMA DeliverKeeps ==
  ASSUME Assumed, IInv, NEW w \in Workers, Deliver(w), UNCHANGED accountVars
  PROVE  IInv'
<1>1. "idle" \in Steps /\ NoJob \in Jobs /\ "none" \in Answers
  BY DEF Steps, Jobs, Answers
<1>2. /\ pc' \in [Workers -> Steps] /\ pc'[w] = "idle"
      /\ \A v \in Workers \ {w} : pc'[v] = pc[v]
  BY <1>1, GotoFacts DEF Deliver, IInv
<1>3. TransferTypeOK'
  <2>1. 0 \in 0 .. MaxRetries - 1
    BY DEF Assumed, TransferAssumption
  <2> QED
    BY <1>1, <1>2, <2>1, JobFacts DEF Deliver, IInv, TypeOK, TransferTypeOK
<1>4. WorkerInv(w)'
  BY <1>2 DEF Deliver, IInv, WorkerInv, Working, dbVars
<1> QED
  BY <1>1, <1>2, <1>3, <1>4, JobFacts, PrivateStep DEF Deliver, IInv

----------------------------------------------------------------------------
(* The steps that compare a version and take the row's lock.               *)

\* A version conflict, retried or given up, keeps the invariant.
LEMMA ConflictKeeps ==
  ASSUME Assumed, IInv, NEW w \in Workers, Conflict(w), pc[w] \in Working,
         UNCHANGED <<tables, accountVars, external, job>>
  PROVE  IInv'
<1>1. EndTx(w) /\ "CONFLICT" \in Answers
  BY DEF Conflict, Answers
<1>2. tries' \in [Workers -> 0 .. MaxRetries - 1]
  BY DEF Conflict, IInv, TypeOK, TransferTypeOK, Assumed, TransferAssumption
<1> QED
  BY <1>1, <1>2, EndKeeps DEF Conflict

\* No sum of a booking or a reversal passes int64 unseen: one that is not
\* negative is the sum meant.
LEMMA FundsRange ==
  ASSUME Assumed, IInv, NEW w \in Workers, pc[w] \in Working
  PROVE  /\ FromNew(w) \in Int /\ FromNew(w) <= MaxCents
         /\ ToNew(w) \in Int /\ ToNew(w) <= MaxCents
         /\ ToNew(w) >= 0 => ToNew(w) = snap[w][job[w].to].balance + job[w].amount
         /\ ToBack(w) \in Int /\ ToBack(w) <= MaxCents
         /\ FromBack(w) \in Int /\ FromBack(w) <= MaxCents
         /\ FromBack(w) >= 0 => FromBack(w) = snap[w][job[w].from].balance + job[w].amount
<1> DEFINE f == snap[w][job[w].from].balance
           t == snap[w][job[w].to].balance
           n == job[w].amount
<1>1. f \in Cents /\ t \in Cents /\ n \in Cents
  BY LiveFacts DEF IInv, TypeOK, TransferTypeOK, Reading
<1>2. MaxCents \in Nat
  BY DEF Assumed, DBAssumption
<1>3. ASSUME NEW x \in Cents, NEW y \in Cents
      PROVE  /\ Wrap64(x + y) \in Int /\ Wrap64(x + y) <= MaxCents
             /\ Wrap64(x + y) >= 0 => Wrap64(x + y) = x + y
  BY <1>2 DEF Wrap64, Cents
<1>4. ToNew(w) = Wrap64(t + n) /\ FromBack(w) = Wrap64(f + n)
      /\ FromNew(w) = f - n /\ ToBack(w) = t - n
  BY DEF ToNew, FromBack, FromNew, ToBack
<1> QED
  BY <1>1, <1>2, <1>3, <1>4 DEF Cents

\* The row is locked by w, and w is the only session whose part of the
\* invariant moves.
LEMMA LockStep ==
  ASSUME Assumed, IInv, NEW w \in Workers, NEW a \in Accounts, NEW step \in Steps,
         Unlocked(a), accountLock' = [accountLock EXCEPT ![a] = w], Goto(w, step),
         UNCHANGED <<tables, transferLock, accountVars, external, job, tries, resp>>,
         snap' \in [Workers -> [Accounts -> Reading]],
         \A v \in Workers \ {w} : snap'[v] = snap[v],
         WorkerInv(w)'
  PROVE  IInv'
<1>1. /\ pc' \in [Workers -> Steps] /\ pc'[w] = step
      /\ \A v \in Workers \ {w} : pc'[v] = pc[v]
  BY GotoFacts DEF IInv
<1>2. w \in Sessions /\ Null \notin Sessions
  BY DEF Assumed, TransferAssumption, DBAssumption
<1>3. /\ accountLock' \in [Accounts -> Null2(Sessions)]
      /\ \A b \in Accounts, u \in Sessions \ {w} :
           accountLock[b] = u => accountLock'[b] = u
  BY <1>2 DEF IInv, TypeOK, DBTypeOK, Null2, Unlocked
<1>4. TypeOK'
  BY <1>1, <1>3 DEF IInv, TypeOK, DBTypeOK, TransferTypeOK, AccountTypeOK, tables, accountVars
<1>5. RowsInv'
  BY DEF IInv, RowsInv, tables
<1> QED
  BY <1>1, <1>3, <1>4, <1>5, SameRows, QuietStep DEF tables

\* Locking a row takes no other.
LEMMA LockedFacts ==
  ASSUME IInv, NEW w \in Workers, NEW a \in Accounts,
         accountLock' = [accountLock EXCEPT ![a] = w]
  PROVE  accountLock'[a] = w /\ \A b \in Accounts \ {a} : accountLock'[b] = accountLock[b]
BY DEF IInv, TypeOK, DBTypeOK

\* An UPDATE that fails, or finds another version, keeps the invariant.
LEMMA UpdateRefusedKeeps ==
  ASSUME Assumed, IInv, NEW w \in Workers, pc[w] \in Working,
         UNCHANGED <<tables, external, job, accountVars>>,
         \/ EndTx(w) /\ Answer(w, "ERROR") /\ UNCHANGED tries
         \/ Conflict(w)
  PROVE  IInv'
<1>1. "ERROR" \in Answers
  BY DEF Answers
<1> QED
  BY <1>1, EndKeeps, ConflictKeeps DEF IInv, TypeOK, TransferTypeOK

\* The first UPDATE of a booking keeps the invariant: its row is now held.
LEMMA UpdateFirstKeeps ==
  ASSUME Assumed, IInv, NEW w \in Workers, UpdateFirst(w), UNCHANGED accountVars
  PROVE  IInv'
<1> DEFINE a == FirstOf(job[w])
<1>1. pc[w] = "update1" /\ pc[w] \in Working
  BY DEF UpdateFirst, UpdateAccount, Working, Steps, InTx
<1>2. /\ job[w] \in LiveJobs /\ a \in Accounts /\ RowOf(job[w])
      /\ WorkerInv(w)
  BY <1>1, LiveFacts DEF IInv
<1>3. UNCHANGED <<tables, external, job>> /\ Unlocked(a)
  BY DEF UpdateFirst, UpdateAccount
<1>4. CASE /\ accounts[a].version = snap[w][a].version /\ BalanceCheck(NewBalance(w, a))
           /\ accountLock' = [accountLock EXCEPT ![a] = w]
           /\ Goto(w, "update2")
           /\ UNCHANGED <<transferLock, tries, snap, resp>>
  <2>1. "update2" \in Steps
    BY DEF Steps, InTx
  <2>2. pc'[w] = "update2"
    BY <1>4, <2>1, GotoFacts DEF IInv
  <2>3. accountLock'[a] = w
    BY <1>2, <1>4, LockedFacts
  <2>4. WorkerInv(w)'
    BY <1>1, <1>2, <1>3, <1>4, <2>2, <2>3, RowOfSame
    DEF WorkerInv, Holds, FirstOf, FromNew, ToNew, NewBalance, BalanceCheck, tables
  <2> QED
    BY <1>2, <1>3, <1>4, <2>1, <2>4, LockStep DEF IInv, TypeOK, TransferTypeOK
<1>5. CASE \/ EndTx(w) /\ Answer(w, "ERROR") /\ UNCHANGED tries
           \/ Conflict(w)
  BY <1>1, <1>3, <1>5, UpdateRefusedKeeps
<1> QED
  BY <1>4, <1>5 DEF UpdateFirst, UpdateAccount

\* The second keeps it: both rows are held, and both new balances fit.
LEMMA UpdateSecondKeeps ==
  ASSUME Assumed, IInv, NEW w \in Workers, UpdateSecond(w), UNCHANGED accountVars
  PROVE  IInv'
<1> DEFINE a == SecondOf(job[w])
           b == FirstOf(job[w])
<1>1. pc[w] = "update2" /\ pc[w] \in Working
  BY DEF UpdateSecond, UpdateAccount, Working, Steps, InTx
<1>2. /\ job[w] \in LiveJobs /\ a \in Accounts /\ b \in Accounts /\ a # b
      /\ {a, b} = {job[w].from, job[w].to}
      /\ RowOf(job[w]) /\ WorkerInv(w)
  BY <1>1, LiveFacts DEF IInv
<1>3. UNCHANGED <<tables, external, job>> /\ Unlocked(a)
  BY DEF UpdateSecond, UpdateAccount
<1>4. CASE /\ accounts[a].version = snap[w][a].version /\ BalanceCheck(NewBalance(w, a))
           /\ accountLock' = [accountLock EXCEPT ![a] = w]
           /\ Goto(w, "book")
           /\ UNCHANGED <<transferLock, tries, snap, resp>>
  <2>1. "book" \in Steps
    BY DEF Steps, InTx
  <2>2. pc'[w] = "book"
    BY <1>4, <2>1, GotoFacts DEF IInv
  <2>3. accountLock'[a] = w /\ accountLock'[b] = accountLock[b]
    BY <1>2, <1>4 DEF IInv, TypeOK, DBTypeOK
  <2>4. Holds(w, a)' /\ Holds(w, b)'
    BY <1>1, <1>2, <1>3, <1>4, <2>3 DEF WorkerInv, Holds, tables
  <2>5. Holds(w, job[w].from)' /\ Holds(w, job[w].to)'
    BY <1>2, <1>3, <2>4 DEF Holds
  <2>6. NewBalance(w, a) >= 0 /\ NewBalance(w, b) >= 0
    BY <1>1, <1>2, <1>4 DEF WorkerInv, BalanceCheck
  <2>7. FromNew(w) >= 0 /\ ToNew(w) >= 0
    BY <1>1, <1>2, <2>6 DEF WorkerInv, NewBalance
  <2>8. FromNew(w)' >= 0 /\ ToNew(w)' >= 0
    BY <1>3, <1>4, <2>7 DEF FromNew, ToNew
  <2>9. WorkerInv(w)'
    BY <1>2, <1>3, <1>4, <2>2, <2>5, <2>8, RowOfSame DEF WorkerInv, tables
  <2> QED
    BY <1>2, <1>3, <1>4, <2>1, <2>9, LockStep DEF IInv, TypeOK, TransferTypeOK
<1>5. CASE \/ EndTx(w) /\ Answer(w, "ERROR") /\ UNCHANGED tries
           \/ Conflict(w)
  BY <1>1, <1>3, <1>5, UpdateRefusedKeeps
<1> QED
  BY <1>4, <1>5 DEF UpdateSecond, UpdateAccount

\* The first SELECT FOR UPDATE of a reversal keeps the invariant.
LEMMA LockFirstKeeps ==
  ASSUME Assumed, IInv, NEW w \in Workers, LockFirst(w), UNCHANGED accountVars
  PROVE  IInv'
<1> DEFINE a == FirstOf(job[w])
<1>1. pc[w] = "lock1" /\ pc[w] \in Working /\ "lock2" \in Steps
  BY DEF LockFirst, LockAccount, Working, Steps, InTx
<1>2. job[w] \in LiveJobs /\ a \in Accounts /\ RowOf(job[w])
  BY <1>1, LiveFacts DEF IInv
<1>3. /\ Unlocked(a) /\ accountLock' = [accountLock EXCEPT ![a] = w]
      /\ Snapshot(w, a) /\ Goto(w, "lock2")
      /\ UNCHANGED <<tables, transferLock, external, job, tries, resp>>
  BY DEF LockFirst, LockAccount
<1>4. pc'[w] = "lock2" /\ accountLock'[a] = w
  BY <1>1, <1>2, <1>3, GotoFacts, LockedFacts DEF IInv
<1>5. \A b \in Accounts : ReadOf(snap'[w][b], accounts'[b])
  <2>1. accounts[a].version \in Nat
    BY <1>2 DEF IInv, TypeOK, DBTypeOK, AccountRow
  <2> QED
    BY <1>2, <1>3, <2>1, SnapFacts DEF IInv, WorkerInv, ReadOf, tables
<1>6. Holds(w, a)'
  BY <1>2, <1>3, <1>4, SnapFacts DEF IInv, Holds, tables
<1>7. WorkerInv(w)'
  BY <1>2, <1>3, <1>4, <1>5, <1>6, RowOfSame DEF WorkerInv, FirstOf, tables
<1> QED
  BY <1>1, <1>2, <1>3, <1>7, SnapFacts, LockStep DEF IInv

\* The second keeps it: both rows are held as they were read.
LEMMA LockSecondKeeps ==
  ASSUME Assumed, IInv, NEW w \in Workers, LockSecond(w), UNCHANGED accountVars
  PROVE  IInv'
<1> DEFINE a == SecondOf(job[w])
           c == FirstOf(job[w])
<1>1. pc[w] = "lock2" /\ pc[w] \in Working /\ "reverse" \in Steps
  BY DEF LockSecond, LockAccount, Working, Steps, InTx
<1>2. /\ job[w] \in LiveJobs /\ a \in Accounts /\ c \in Accounts /\ a # c
      /\ {a, c} = {job[w].from, job[w].to}
      /\ RowOf(job[w]) /\ WorkerInv(w)
  BY <1>1, LiveFacts DEF IInv
<1>3. /\ Unlocked(a) /\ accountLock' = [accountLock EXCEPT ![a] = w]
      /\ Snapshot(w, a) /\ Goto(w, "reverse")
      /\ UNCHANGED <<tables, transferLock, external, job, tries, resp>>
  BY DEF LockSecond, LockAccount
<1>4. pc'[w] = "reverse" /\ accountLock'[a] = w /\ accountLock'[c] = accountLock[c]
  BY <1>1, <1>2, <1>3, GotoFacts DEF IInv, TypeOK, DBTypeOK
<1>5. \A b \in Accounts : ReadOf(snap'[w][b], accounts'[b])
  <2>1. accounts[a].version \in Nat
    BY <1>2 DEF IInv, TypeOK, DBTypeOK, AccountRow
  <2> QED
    BY <1>2, <1>3, <2>1, SnapFacts DEF IInv, WorkerInv, ReadOf, tables
<1>6. Holds(w, a)' /\ Holds(w, c)'
  BY <1>1, <1>2, <1>3, <1>4, SnapFacts DEF IInv, WorkerInv, Holds, tables
<1>7. Holds(w, job[w].from)' /\ Holds(w, job[w].to)'
  BY <1>2, <1>3, <1>6 DEF Holds
<1>8. WorkerInv(w)'
  BY <1>2, <1>3, <1>4, <1>5, <1>7, RowOfSame DEF WorkerInv, tables
<1> QED
  BY <1>1, <1>2, <1>3, <1>8, SnapFacts, LockStep DEF IInv

----------------------------------------------------------------------------
(* The settlement client's calls that take no lock they keep.              *)

\* A status written in a statement of its own keeps the invariant.
LEMMA StatusStep ==
  ASSUME Assumed, IInv, NEW k \in Keys, transfers[k] # Null, NEW st \in TransferStatus,
         transfers' = [transfers EXCEPT ![k].status = st],
         UNCHANGED <<accounts, entries, accountLock, transferLock, transferVars, accountVars>>
  PROVE  IInv'
<1>1. /\ transfers' \in [Keys -> Null2(TransferRow)]
      /\ \A l \in Keys : Kept(l)
      /\ \A l \in Keys : transfers[l] = Null => transfers'[l] = Null
  BY StatusFacts
<1>2. TypeOK'
  BY <1>1 DEF IInv, TypeOK, DBTypeOK, TransferTypeOK, AccountTypeOK, transferVars, accountVars
<1>7. RowsInv'
  BY <1>1, <1>2, RowsKept DEF IInv, RowsInv
<1>3. BooksInv'
  BY DEF IInv, BooksInv, LedgerChain, VersionPerEntry, Chained
<1>4. Frame(Null)
  BY <1>1 DEF Frame, RowStep
<1>5. Local(Null)
  BY DEF Local, transferVars, accountVars
<1>6. Null \notin Workers /\ Null \notin Tellers
  BY DEF Assumed, DBAssumption, CoreAssumption
<1> QED
  BY <1>1, <1>2, <1>3, <1>4, <1>5, <1>6, <1>7, StepKeeps

\* Settle keeps the invariant.
LEMMA SettleKeeps ==
  ASSUME Assumed, IInv, NEW k \in Keys, Settle(k), UNCHANGED accountVars
  PROVE  IInv'
BY StatusStep DEF Settle, TransferStatus

\* Fail of an unbooked transfer keeps the invariant.
LEMMA FailUnbookedKeeps ==
  ASSUME Assumed, IInv, NEW k \in Keys, FailUnbooked(k), UNCHANGED accountVars
  PROVE  IInv'
BY StatusStep DEF FailUnbooked, TransferStatus

\* Fail's lock on a booked transfer keeps the invariant.
LEMMA FailBeginKeeps ==
  ASSUME Assumed, IInv, NEW w \in Workers, NEW k \in Keys, FailBegin(w, k),
         UNCHANGED accountVars
  PROVE  IInv'
<1> DEFINE j == Job("fail", k, transfers[k])
<1>1. /\ job' = [job EXCEPT ![w] = j] /\ Goto(w, "lock1") /\ transfers[k] # Null
      /\ transferLock' = [transferLock EXCEPT ![k] = w]
      /\ UNCHANGED <<tables, accountLock, external, tries, snap, resp>>
  BY DEF FailBegin
<1>2. transfers[k] \in TransferRow /\ transfers[k].from # transfers[k].to
  BY <1>1 DEF IInv, TypeOK, DBTypeOK, Null2, RowsInv
<1>3. j \in LiveJobs /\ j.key = k
  BY <1>2 DEF Job, LiveJobs, TransferRow
<1>4. j \in Jobs
  BY <1>3 DEF LiveJobs, Jobs, Cents
<1>5. "lock1" \in Steps
  BY DEF Steps, InTx
<1>6. /\ pc' \in [Workers -> Steps] /\ pc'[w] = "lock1"
      /\ \A v \in Workers \ {w} : pc'[v] = pc[v]
  BY <1>1, <1>5, GotoFacts DEF IInv
<1>7. /\ job' \in [Workers -> Jobs] /\ job'[w] = j
      /\ \A v \in Workers \ {w} : job'[v] = job[v]
  BY <1>1, <1>4, JobFacts DEF IInv
<1>8. transferLock' \in [Keys -> Null2(Sessions)]
  BY <1>1 DEF IInv, TypeOK, DBTypeOK, Null2, Assumed, TransferAssumption
<1>9. TypeOK'
  BY <1>1, <1>6, <1>7, <1>8 DEF IInv, TypeOK, DBTypeOK, TransferTypeOK, AccountTypeOK, tables, accountVars
<1>10. RowsInv'
  BY <1>1 DEF IInv, RowsInv, tables
<1>11. WorkerInv(w)'
  <2>1. \A a \in Accounts : ReadOf(snap'[w][a], accounts'[a])
    BY <1>1 DEF IInv, WorkerInv, tables
  <2>2. RowOf(job[w])'
    BY <1>1, <1>3, <1>7 DEF RowOf, SameOrder, Job, tables
  <2> QED
    BY <1>3, <1>6, <1>7, <2>1, <2>2, Early
<1> QED
  BY <1>1, <1>6, <1>7, <1>9, <1>10, <1>11, SameRows, QuietStep DEF tables

----------------------------------------------------------------------------
(* The commits that change the books.                                      *)

\* An entry that continues the chain leaves a chain, one longer, that ends in
\* its balance.
LEMMA AppendChained ==
  ASSUME NEW s \in Seq(Entry), NEW e \in Entry, Chained(s),
         e.balanceAfter = Applied(BalanceAt(s, Len(s)), e)
  PROVE  /\ Append(s, e) \in Seq(Entry)
         /\ Chained(Append(s, e))
         /\ Len(Append(s, e)) = Len(s) + 1
         /\ BalanceAt(Append(s, e), Len(s) + 1) = e.balanceAfter
<1> DEFINE t == Append(s, e)
<1>1. t \in Seq(Entry) /\ Len(t) = Len(s) + 1 /\ Len(s) \in Nat
      /\ DOMAIN t = 1 .. Len(s) + 1 /\ DOMAIN s = 1 .. Len(s)
      /\ t[Len(s) + 1] = e /\ \A i \in 1 .. Len(s) : t[i] = s[i]
  OBVIOUS
<1> HIDE DEF t
<1>2. \A i \in 0 .. Len(s) : BalanceAt(t, i) = BalanceAt(s, i)
  BY <1>1 DEF BalanceAt
<1>3. ASSUME NEW i \in DOMAIN t
      PROVE  t[i].balanceAfter = Applied(BalanceAt(t, i-1), t[i])
  <2>1. CASE i \in 1 .. Len(s)
    BY <1>1, <1>2, <2>1 DEF Chained
  <2>2. CASE i = Len(s) + 1
    BY <1>1, <1>2, <2>2
  <2> QED
    BY <1>1, <2>1, <2>2
<1>4. BalanceAt(t, Len(s) + 1) = e.balanceAfter
  BY <1>1 DEF BalanceAt
<1> QED
  BY <1>1, <1>3, <1>4 DEF Chained, t

\* Where one account's part of the books holds.
Books(a) ==
  /\ Chained(entries[a])
  /\ accounts[a].balance = BalanceAt(entries[a], Len(entries[a]))
  /\ accounts[a].version = Len(entries[a])

\* The books hold when those of every account do.
LEMMA BooksEach == BooksInv <=> \A a \in Accounts : Books(a)
BY DEF BooksInv, LedgerChain, VersionPerEntry, Books

\* The same after a step.
LEMMA BooksEachPrime == BooksInv' <=> \A a \in Accounts : Books(a)'
BY DEF BooksInv, LedgerChain, VersionPerEntry, Books

\* Stored keeps the status, bumps the version and sets the balance.
LEMMA StoredFacts ==
  ASSUME NEW row \in AccountRow, NEW n \in Cents
  PROVE  /\ Stored(row, n) \in AccountRow
         /\ Stored(row, n).status = row.status
         /\ Stored(row, n).version = row.version + 1
         /\ Stored(row, n).balance = n
BY DEF Stored, AccountRow

\* One leg: a balance and the entry that leads to it keep an account's books.
LEMMA Movement ==
  ASSUME Assumed, TypeOK, NEW a \in Accounts, Books(a),
         NEW type \in {"CREDIT", "DEBIT"}, NEW n \in Cents \ {0}, NEW k \in Null2(Keys),
         NEW new \in Cents,
         new = IF type = "CREDIT" THEN accounts[a].balance + n ELSE accounts[a].balance - n,
         accounts'[a] = Stored(accounts[a], new),
         entries'[a] = Append1(a, type, n, new, k)
  PROVE  /\ accounts'[a] \in AccountRow
         /\ accounts'[a].status = accounts[a].status
         /\ accounts'[a].version = accounts[a].version + 1
         /\ entries'[a] \in Seq(Entry)
         /\ Books(a)'
<1> DEFINE e == [type |-> type, amount |-> n, balanceAfter |-> new, transfer |-> k]
<1>1. accounts[a] \in AccountRow /\ entries[a] \in Seq(Entry)
  BY DEF TypeOK, DBTypeOK
<1>2. /\ accounts'[a] \in AccountRow
      /\ accounts'[a].status = accounts[a].status
      /\ accounts'[a].version = accounts[a].version + 1
      /\ accounts'[a].balance = new
  BY <1>1, StoredFacts
<1>3. e \in Entry
  BY DEF Entry
<1>4. e.balanceAfter = Applied(BalanceAt(entries[a], Len(entries[a])), e)
  BY DEF Applied, Books
<1>5. entries'[a] = Append(entries[a], e)
  BY DEF Append1
<1> HIDE DEF e
<1>6. Chained(entries[a])
  BY DEF Books
<1>7. /\ entries'[a] \in Seq(Entry) /\ Chained(entries'[a])
      /\ Len(entries'[a]) = Len(entries[a]) + 1
      /\ BalanceAt(entries'[a], Len(entries[a]) + 1) = e.balanceAfter
  BY <1>1, <1>3, <1>4, <1>5, <1>6, AppendChained
<1>8. e.balanceAfter = new
  BY DEF e
<1>9. accounts[a].version = Len(entries[a])
  BY DEF Books
<1>10. accounts'[a].balance = BalanceAt(entries'[a], Len(entries'[a]))
  BY <1>2, <1>7, <1>8
<1>11. accounts'[a].version = Len(entries'[a])
  BY <1>2, <1>7, <1>9
<1>12. Books(a)'
  BY <1>7, <1>10, <1>11 DEF Books
<1> QED
  BY <1>2, <1>7, <1>12

\* Both legs of a movement between two open accounts.
LEMMA PostFacts ==
  ASSUME Assumed, IInv, NEW d \in Accounts, NEW c \in Accounts, d # c,
         accounts[d].status # "ABSENT", accounts[c].status # "ABSENT",
         NEW n \in Cents \ {0}, NEW k \in Keys, NEW db \in Cents, NEW cb \in Cents,
         db = accounts[d].balance - n, cb = accounts[c].balance + n,
         Post(d, db, c, cb, n, k)
  PROVE  /\ accounts' \in [Accounts -> AccountRow]
         /\ entries' \in [Accounts -> Seq(Entry)]
         /\ BooksInv'
         /\ \A a \in Accounts : accounts'[a].status = accounts[a].status
         /\ \A a \in Accounts \ {d, c} : accounts'[a] = accounts[a]
         /\ \A a \in {d, c} : accounts'[a].version = accounts[a].version + 1
         /\ \A a \in Accounts : accounts'[a].status = "ABSENT" => accounts'[a].version = 0
<1>1. accounts \in [Accounts -> AccountRow] /\ entries \in [Accounts -> Seq(Entry)] /\ TypeOK
  BY DEF IInv, TypeOK, DBTypeOK
<1>2. /\ accounts'[d] = Stored(accounts[d], db) /\ accounts'[c] = Stored(accounts[c], cb)
      /\ entries'[d] = Append1(d, "DEBIT", n, db, k)
      /\ entries'[c] = Append1(c, "CREDIT", n, cb, k)
      /\ \A a \in Accounts \ {d, c} : accounts'[a] = accounts[a] /\ entries'[a] = entries[a]
      /\ accounts' = [a \in Accounts |-> accounts'[a]]
      /\ entries' = [a \in Accounts |-> entries'[a]]
  BY <1>1 DEF Post
<1>3. \A a \in Accounts : Books(a)
  BY BooksEach DEF IInv
<1>4. /\ accounts'[d] \in AccountRow /\ accounts'[d].status = accounts[d].status
      /\ accounts'[d].version = accounts[d].version + 1
      /\ entries'[d] \in Seq(Entry) /\ Books(d)'
  BY <1>1, <1>2, <1>3, Movement DEF Null2
<1>5. /\ accounts'[c] \in AccountRow /\ accounts'[c].status = accounts[c].status
      /\ accounts'[c].version = accounts[c].version + 1
      /\ entries'[c] \in Seq(Entry) /\ Books(c)'
  BY <1>1, <1>2, <1>3, Movement DEF Null2
<1>6. ASSUME NEW a \in Accounts \ {d, c}
      PROVE  Books(a)'
  BY <1>2, <1>3 DEF Books, Chained
<1>7. BooksInv'
  BY <1>4, <1>5, <1>6, BooksEachPrime
<1>8. accounts' \in [Accounts -> AccountRow] /\ entries' \in [Accounts -> Seq(Entry)]
  BY <1>1, <1>2, <1>4, <1>5
<1>9. \A a \in Accounts : accounts'[a].status = "ABSENT" => accounts'[a].version = 0
  BY <1>2, <1>4, <1>5 DEF IInv, RowsInv
<1> QED
  BY <1>2, <1>4, <1>5, <1>7, <1>8, <1>9

\* A worker that holds both rows commits a movement and answers.
LEMMA CommitKeeps ==
  ASSUME Assumed, IInv, NEW w \in Workers, pc[w] \in {"book", "reverse"},
         NEW d, NEW c, {d, c} = {job[w].from, job[w].to},
         NEW db \in Cents, NEW cb \in Cents,
         db = accounts[d].balance - job[w].amount, cb = accounts[c].balance + job[w].amount,
         Post(d, db, c, cb, job[w].amount, job[w].key),
         \/ UNCHANGED transfers
         \/ \E st \in TransferStatus : transfers' = [transfers EXCEPT ![job[w].key].status = st],
         EndTx(w), NEW answer \in Answers, Answer(w, answer),
         UNCHANGED <<accountVars, external, job, tries>>
  PROVE  IInv'
<1>1. pc[w] \in Working /\ WorkerInv(w)
  BY DEF Working, Steps, InTx, IInv
<1>2. /\ job[w] \in LiveJobs /\ RowOf(job[w]) /\ job[w].key \in Keys
      /\ d \in Accounts /\ c \in Accounts /\ d # c /\ job[w].amount \in Cents \ {0}
  BY <1>1, LiveFacts
<1>3. accounts[d].status # "ABSENT" /\ accounts[c].status # "ABSENT"
  BY <1>2 DEF IInv, RowsInv, RowOf, SameOrder
<1>4. /\ accounts' \in [Accounts -> AccountRow]
      /\ entries' \in [Accounts -> Seq(Entry)]
      /\ BooksInv'
      /\ \A a \in Accounts : accounts'[a].status = accounts[a].status
      /\ \A a \in Accounts \ {d, c} : accounts'[a] = accounts[a]
      /\ \A a \in {d, c} : accounts'[a].version = accounts[a].version + 1
      /\ \A a \in Accounts : accounts'[a].status = "ABSENT" => accounts'[a].version = 0
  BY <1>2, <1>3, PostFacts
<1>5. /\ transfers' \in [Keys -> Null2(TransferRow)]
      /\ \A l \in Keys : Kept(l)
      /\ \A l \in Keys : transfers[l] = Null => transfers'[l] = Null
  BY <1>2, StatusFacts, SameRows DEF IInv, TypeOK, DBTypeOK, RowOf
<1>6. TypeOK'
  BY <1>4, <1>5, ReleaseFacts, AnswerFacts
  DEF EndTx, IInv, TypeOK, DBTypeOK, TransferTypeOK, AccountTypeOK, accountVars
<1>7. RowsInv'
  BY <1>4, <1>5, <1>6, RowsKept
<1>8. accountLock[d] = w /\ accountLock[c] = w
  BY <1>1 DEF WorkerInv, Holds
<1>9. Frame(w)
  BY <1>4, <1>5, <1>8, ReleaseFacts DEF Frame, RowStep, EndTx, IInv
<1>10. Local(w)
  BY AnswerFacts DEF Local, accountVars, IInv
<1>11. WorkerInv(w)'
  BY <1>4, <1>6, AnswerFacts, AtRest DEF IInv
<1>12. w \notin Tellers
  BY DEF Assumed, CoreAssumption
<1> QED
  BY <1>4, <1>6, <1>7, <1>9, <1>10, <1>11, <1>12, StepKeeps

\* What a worker read of a row it holds is that row.
LEMMA HeldBalance ==
  ASSUME IInv, NEW w \in Workers, NEW a \in Accounts, Holds(w, a)
  PROVE  snap[w][a].balance = accounts[a].balance
BY DEF IInv, WorkerInv, ReadOf, Holds

\* What a booking is about to write is its move between the rows as they are.
LEMMA BookAmounts ==
  ASSUME Assumed, IInv, NEW w \in Workers, pc[w] = "book"
  PROVE  /\ FromNew(w) \in Cents /\ FromNew(w) = accounts[job[w].from].balance - job[w].amount
         /\ ToNew(w) \in Cents /\ ToNew(w) = accounts[job[w].to].balance + job[w].amount
<1>1. pc[w] \in Working /\ WorkerInv(w)
  BY DEF Working, Steps, InTx, IInv
<1>2. job[w].from \in Accounts /\ job[w].to \in Accounts /\ job[w].amount \in Cents
  BY <1>1, LiveFacts
<1>3. /\ snap[w][job[w].from].balance = accounts[job[w].from].balance
      /\ snap[w][job[w].to].balance = accounts[job[w].to].balance
  BY <1>1, <1>2, HeldBalance DEF WorkerInv
<1> QED
  BY <1>1, <1>3, FundsRange DEF WorkerInv, FromNew, Cents

\* What a reversal that passes its checks is about to write gives it back.
LEMMA ReverseAmounts ==
  ASSUME Assumed, IInv, NEW w \in Workers, pc[w] = "reverse",
         ToBack(w) >= 0, BalanceCheck(FromBack(w))
  PROVE  /\ ToBack(w) \in Cents /\ ToBack(w) = accounts[job[w].to].balance - job[w].amount
         /\ FromBack(w) \in Cents /\ FromBack(w) = accounts[job[w].from].balance + job[w].amount
<1>1. pc[w] \in Working /\ WorkerInv(w)
  BY DEF Working, Steps, InTx, IInv
<1>2. job[w].from \in Accounts /\ job[w].to \in Accounts /\ job[w].amount \in Cents
  BY <1>1, LiveFacts
<1>3. /\ snap[w][job[w].from].balance = accounts[job[w].from].balance
      /\ snap[w][job[w].to].balance = accounts[job[w].to].balance
  BY <1>1, <1>2, HeldBalance DEF WorkerInv
<1> QED
  BY <1>1, <1>3, FundsRange DEF ToBack, BalanceCheck, Cents

\* The commit of a booking keeps the invariant.
LEMMA BookKeeps ==
  ASSUME Assumed, IInv, NEW w \in Workers, Book(w), UNCHANGED accountVars
  PROVE  IInv'
<1> DEFINE j == job[w]
<1>1. pc[w] = "book" /\ pc[w] \in Working /\ WorkerInv(w)
  BY DEF Book, Working, Steps, InTx, IInv
<1>2. /\ FromNew(w) \in Cents /\ FromNew(w) = accounts[j.from].balance - j.amount
      /\ ToNew(w) \in Cents /\ ToNew(w) = accounts[j.to].balance + j.amount
  BY <1>1, BookAmounts
<1>3. /\ Post(j.from, FromNew(w), j.to, ToNew(w), j.amount, j.key)
      /\ EndTx(w) /\ UNCHANGED <<external, job, tries>>
      /\ transfers' = IF external THEN transfers
                      ELSE [transfers EXCEPT ![j.key].status = "SETTLED"]
      /\ \E answer \in {Done, "ERROR"} : Answer(w, answer)
  BY DEF Book
<1>4. "SETTLED" \in TransferStatus /\ {Done, "ERROR"} \subseteq Answers
  BY DEF TransferStatus, Answers, Done
<1>5. PICK answer \in Answers : Answer(w, answer)
  BY <1>3, <1>4
<1>6. \/ UNCHANGED transfers
      \/ \E st \in TransferStatus : transfers' = [transfers EXCEPT ![job[w].key].status = st]
  BY <1>3, <1>4
<1> QED
  BY <1>1, <1>2, <1>3, <1>5, <1>6, CommitKeeps

\* The commit of a reversal, or its rollback, keeps the invariant.
LEMMA ReverseKeeps ==
  ASSUME Assumed, IInv, NEW w \in Workers, Reverse(w), UNCHANGED accountVars
  PROVE  IInv'
<1> DEFINE j == job[w]
<1>1. pc[w] = "reverse" /\ pc[w] \in Working /\ WorkerInv(w)
  BY DEF Reverse, Working, Steps, InTx, IInv
<1>2. EndTx(w) /\ UNCHANGED <<external, job, tries>>
  BY DEF Reverse
<1>3. CASE UNCHANGED tables /\ \E answer \in {"CONFLICT", "ERROR"} : Answer(w, answer)
  <2>1. {"CONFLICT", "ERROR"} \subseteq Answers
    BY DEF Answers
  <2> QED
    BY <1>1, <1>2, <1>3, <2>1, EndKeeps DEF IInv, TypeOK, TransferTypeOK
<1>4. CASE /\ ToBack(w) >= 0 /\ BalanceCheck(FromBack(w))
           /\ Post(j.to, ToBack(w), j.from, FromBack(w), j.amount, j.key)
           /\ transfers' = [transfers EXCEPT ![j.key].status = "FAILED"]
           /\ \E answer \in {"FAILED", "ERROR"} : Answer(w, answer)
  <2>1. /\ ToBack(w) \in Cents /\ ToBack(w) = accounts[j.to].balance - j.amount
        /\ FromBack(w) \in Cents /\ FromBack(w) = accounts[j.from].balance + j.amount
    BY <1>1, <1>4, ReverseAmounts
  <2>2. "FAILED" \in TransferStatus /\ {"FAILED", "ERROR"} \subseteq Answers
    BY DEF TransferStatus, Answers
  <2>3. PICK answer \in Answers : Answer(w, answer)
    BY <1>4, <2>2
  <2>4. {j.to, j.from} = {j.from, j.to}
    OBVIOUS
  <2> QED
    BY <1>1, <1>2, <1>4, <2>1, <2>2, <2>3, <2>4, CommitKeeps
<1> QED
  BY <1>3, <1>4 DEF Reverse

----------------------------------------------------------------------------
(* The account service.                                                    *)

\* Finish leaves the teller's own variables as they were at the start.
LEMMA FinishFacts ==
  ASSUME Assumed, TypeOK, NEW t \in Tellers, Finish(t)
  PROVE  AccountTypeOK' /\ tpc'[t] = "idle"
         /\ \A u \in Tellers \ {t} : tpc'[u] = tpc[u] /\ tjob'[u] = tjob[u] /\ tsnap'[u] = tsnap[u]
BY DEF Finish, TGoto, NoTJob, NoRead, TypeOK, AccountTypeOK, Null2, Assumed, AccountAssumption,
       DBAssumption, Cents

\* A teller's step that leaves the books as they are keeps the invariant when
\* it keeps the teller's own part of it.
LEMMA TellerStep ==
  ASSUME Assumed, IInv, NEW t \in Tellers,
         UNCHANGED <<tables, transferVars>>,
         transferLock' \in [Keys -> Null2(Sessions)],
         accountLock' \in [Accounts -> Null2(Sessions)],
         \A a \in Accounts, u \in Sessions \ {t} :
           accountLock[a] = u => accountLock'[a] = u,
         AccountTypeOK',
         \A u \in Tellers \ {t} : tpc'[u] = tpc[u] /\ tjob'[u] = tjob[u] /\ tsnap'[u] = tsnap[u],
         TellerInv(t)'
  PROVE  IInv'
<1>1. TypeOK'
  BY DEF IInv, TypeOK, DBTypeOK, TransferTypeOK, tables, transferVars
<1>2. RowsInv' /\ BooksInv'
  BY DEF IInv, RowsInv, BooksInv, LedgerChain, VersionPerEntry, Chained, tables
<1>3. Frame(t)
  BY SameRows DEF Frame, RowStep, tables
<1>4. Local(t)
  BY DEF Local, transferVars
<1>5. t \notin Workers
  BY DEF Assumed, CoreAssumption
<1> QED
  BY <1>1, <1>2, <1>3, <1>4, <1>5, StepKeeps

\* Taking up a deposit or a withdrawal keeps the invariant.
LEMMA MutateKeeps ==
  ASSUME Assumed, IInv, NEW t \in Tellers, NEW a \in Accounts, NEW d \in Deltas,
         Mutate(t, a, d), UNCHANGED transferVars
  PROVE  IInv'
<1> DEFINE j == [account |-> a, delta |-> d]
<1>1. /\ tpc[t] = "idle" /\ accounts[a].status # "ABSENT"
      /\ tpc' = [tpc EXCEPT ![t] = "read"] /\ tjob' = [tjob EXCEPT ![t] = j]
      /\ UNCHANGED <<dbVars, ttries, tsnap>>
  BY DEF Mutate, TGoto
<1>2. d \in Int
  BY DEF Assumed, AccountAssumption
<1>3. AccountTypeOK'
  BY <1>1, <1>2 DEF IInv, TypeOK, AccountTypeOK, Null2
<1>4. tpc'[t] = "read" /\ tjob'[t] = j
  BY <1>1 DEF IInv, TypeOK, AccountTypeOK
<1>5. \A u \in Tellers \ {t} : tpc'[u] = tpc[u] /\ tjob'[u] = tjob[u] /\ tsnap'[u] = tsnap[u]
  BY <1>1 DEF IInv, TypeOK, AccountTypeOK
<1>6. TellerInv(t)'
  BY <1>1, <1>4 DEF TellerInv, dbVars
<1> QED
  BY <1>1, <1>3, <1>5, <1>6, TellerStep DEF dbVars, tables, IInv, TypeOK, DBTypeOK

\* A teller's request that ends without a commit keeps the invariant.
LEMMA FinishKeeps ==
  ASSUME Assumed, IInv, NEW t \in Tellers, Finish(t),
         UNCHANGED <<tables, transferVars>>,
         UNCHANGED <<accountLock, transferLock>> \/ ReleaseAll(t)
  PROVE  IInv'
<1>1. /\ accountLock' \in [Accounts -> Null2(Sessions)]
      /\ transferLock' \in [Keys -> Null2(Sessions)]
      /\ \A a \in Accounts, u \in Sessions \ {t} :
           accountLock[a] = u => accountLock'[a] = u
  BY ReleaseFacts DEF IInv, TypeOK, DBTypeOK
<1>2. TellerInv(t)'
  BY FinishFacts DEF IInv, TellerInv
<1> QED
  BY <1>1, <1>2, FinishFacts, TellerStep DEF IInv

\* A teller's reading keeps the invariant.
LEMMA ReadBalanceKeeps ==
  ASSUME Assumed, IInv, NEW t \in Tellers, ReadBalance(t), UNCHANGED transferVars
  PROVE  IInv'
<1> DEFINE row == accounts[tjob[t].account]
           r == [balance |-> row.balance, version |-> row.version]
<1>1. tpc[t] = "read" /\ UNCHANGED dbVars
  BY DEF ReadBalance
<1>2. tjob[t].account \in Accounts /\ tjob[t].delta \in Deltas /\ row.status # "ABSENT"
  BY <1>1 DEF IInv, TellerInv
<1>3. CASE Finish(t)
  BY <1>1, <1>3, FinishKeeps DEF dbVars, tables
<1>4. CASE /\ Sum64(t, row) >= 0
           /\ TGoto(t, "update")
           /\ tsnap' = [tsnap EXCEPT ![t] = r]
           /\ UNCHANGED <<tjob, ttries>>
  <2>1. row \in AccountRow
    BY <1>2 DEF IInv, TypeOK, DBTypeOK
  <2>2. r \in [balance : Cents, version : Nat]
    BY <2>1 DEF AccountRow
  <2>3. AccountTypeOK' /\ tpc'[t] = "update" /\ tsnap'[t] = r
    BY <1>4, <2>2 DEF TGoto, IInv, TypeOK, AccountTypeOK
  <2>4. \A u \in Tellers \ {t} : tpc'[u] = tpc[u] /\ tjob'[u] = tjob[u] /\ tsnap'[u] = tsnap[u]
    BY <1>4 DEF TGoto, IInv, TypeOK, AccountTypeOK
  <2>5. Sum64(t, tsnap[t])' = Sum64(t, row)
    BY <1>4, <2>3 DEF Sum64
  <2>6. ReadOf(r, row)
    BY <2>1 DEF ReadOf, AccountRow
  <2>7. TellerInv(t)'
    BY <1>1, <1>2, <1>4, <2>3, <2>5, <2>6 DEF TellerInv, dbVars
  <2> QED
    BY <1>1, <2>3, <2>4, <2>7, TellerStep DEF dbVars, tables, IInv, TypeOK, DBTypeOK
<1> QED
  BY <1>3, <1>4 DEF ReadBalance

\* A teller's UPDATE keeps the invariant, whatever version it finds.
LEMMA UpdateBalanceKeeps ==
  ASSUME Assumed, IInv, NEW t \in Tellers, UpdateBalance(t), UNCHANGED transferVars
  PROVE  IInv'
<1> DEFINE a == tjob[t].account
<1>1. tpc[t] = "update" /\ UNCHANGED <<tables, transferLock>> /\ Unlocked(a)
  BY DEF UpdateBalance
<1>2. /\ a \in Accounts /\ tjob[t].delta \in Deltas /\ accounts[a].status # "ABSENT"
      /\ ReadOf(tsnap[t], accounts[a]) /\ Sum64(t, tsnap[t]) >= 0
  BY <1>1 DEF IInv, TellerInv
<1>3. CASE /\ accounts[a].version = tsnap[t].version
           /\ accountLock' = [accountLock EXCEPT ![a] = t]
           /\ TGoto(t, "post")
           /\ UNCHANGED <<tjob, ttries, tsnap>>
  <2>1. /\ accountLock' \in [Accounts -> Null2(Sessions)] /\ accountLock'[a] = t
        /\ \A b \in Accounts, u \in Sessions \ {t} : accountLock[b] = u => accountLock'[b] = u
    BY <1>1, <1>2, <1>3
    DEF IInv, TypeOK, DBTypeOK, Null2, Unlocked, Assumed, DBAssumption, AccountAssumption
  <2>2. AccountTypeOK' /\ tpc'[t] = "post"
    BY <1>3 DEF TGoto, IInv, TypeOK, AccountTypeOK
  <2>3. \A u \in Tellers \ {t} : tpc'[u] = tpc[u] /\ tjob'[u] = tjob[u] /\ tsnap'[u] = tsnap[u]
    BY <1>3 DEF TGoto, IInv, TypeOK, AccountTypeOK
  <2>4. Sum64(t, tsnap[t])' = Sum64(t, tsnap[t])
    BY <1>3 DEF Sum64
  <2>5. TellerInv(t)'
    BY <1>1, <1>2, <1>3, <2>1, <2>2, <2>4 DEF TellerInv, tables
  <2> QED
    BY <1>1, <2>1, <2>2, <2>3, <2>5, TellerStep DEF IInv, TypeOK, DBTypeOK
<1>4. CASE /\ ttries[t] + 1 < MutateRetries
           /\ ttries' = [ttries EXCEPT ![t] = @ + 1]
           /\ TGoto(t, "read")
           /\ tsnap' = [tsnap EXCEPT ![t] = NoRead]
           /\ UNCHANGED <<accountLock, tjob>>
  <2>1. NoRead \in [balance : Cents, version : Nat]
    BY DEF NoRead, Cents, Assumed, DBAssumption
  <2>2. AccountTypeOK' /\ tpc'[t] = "read"
    BY <1>4, <2>1 DEF TGoto, IInv, TypeOK, AccountTypeOK, Assumed, AccountAssumption
  <2>3. \A u \in Tellers \ {t} : tpc'[u] = tpc[u] /\ tjob'[u] = tjob[u] /\ tsnap'[u] = tsnap[u]
    BY <1>4 DEF TGoto, IInv, TypeOK, AccountTypeOK
  <2>4. TellerInv(t)'
    BY <1>1, <1>2, <1>4, <2>2 DEF TellerInv, tables
  <2> QED
    BY <1>1, <1>4, <2>2, <2>3, <2>4, TellerStep DEF IInv, TypeOK, DBTypeOK
<1>5. CASE Finish(t) /\ UNCHANGED accountLock
  BY <1>1, <1>5, FinishKeeps
<1> QED
  BY <1>3, <1>4, <1>5 DEF UpdateBalance

\* A teller's rollback keeps the invariant.
LEMMA AbortMutationKeeps ==
  ASSUME Assumed, IInv, NEW t \in Tellers, AbortMutation(t), UNCHANGED transferVars
  PROVE  IInv'
BY FinishKeeps DEF AbortMutation

\* What a deposit or a withdrawal is about to write is the sum with the balance
\* the row still has: the row was held since its version was compared.
LEMMA MutationAmounts ==
  ASSUME Assumed, IInv, NEW t \in Tellers, tpc[t] = "post",
         NEW a, a = tjob[t].account
  PROVE  /\ a \in Accounts /\ tjob[t].delta \in Int \ {0}
         /\ -MaxCents <= tjob[t].delta /\ tjob[t].delta <= MaxCents
         /\ Sum64(t, tsnap[t]) = accounts[a].balance + tjob[t].delta
         /\ Sum64(t, tsnap[t]) \in Cents
<1> DEFINE d == tjob[t].delta
<1>1. /\ a \in Accounts /\ d \in Deltas /\ accounts[a].version = tsnap[t].version
      /\ ReadOf(tsnap[t], accounts[a]) /\ Sum64(t, tsnap[t]) >= 0
  BY DEF IInv, TellerInv
<1>2. accounts[a] \in AccountRow /\ tsnap[t].balance = accounts[a].balance
  BY <1>1 DEF IInv, TypeOK, DBTypeOK, ReadOf
<1>3. /\ d \in Int \ {0} /\ -MaxCents <= d /\ d <= MaxCents /\ MaxCents \in Nat
      /\ accounts[a].balance \in 0 .. MaxCents
  BY <1>1, <1>2 DEF Assumed, AccountAssumption, DBAssumption, AccountRow, Cents
<1>4. Sum64(t, tsnap[t]) = Wrap64(accounts[a].balance + d)
  BY <1>2 DEF Sum64
<1> QED
  BY <1>1, <1>3, <1>4 DEF Wrap64, Cents

\* The commit of a deposit or a withdrawal keeps the invariant.
LEMMA PostMutationKeeps ==
  ASSUME Assumed, IInv, NEW t \in Tellers, PostMutation(t), UNCHANGED transferVars
  PROVE  IInv'
<1>0. PICK a : a = tjob[t].account
  OBVIOUS
<1> DEFINE d == tjob[t].delta
           n == IF d > 0 THEN d ELSE -d
           type == IF d > 0 THEN "CREDIT" ELSE "DEBIT"
           new == Sum64(t, tsnap[t])
<1>1. /\ tpc[t] = "post"
      /\ accounts' = [accounts EXCEPT ![a] = Stored(@, new)]
      /\ entries' = [entries EXCEPT ![a] = Append1(a, type, n, new, Null)]
      /\ ReleaseAll(t) /\ Finish(t) /\ UNCHANGED transfers
  BY <1>0 DEF PostMutation
<1>2. a \in Accounts /\ accounts[a].status # "ABSENT" /\ accountLock[a] = t
  BY <1>0, <1>1 DEF IInv, TellerInv
<1>3. /\ d \in Int \ {0} /\ -MaxCents <= d /\ d <= MaxCents
      /\ new = accounts[a].balance + d /\ new \in Cents
  BY <1>0, <1>1, MutationAmounts
<1>4. accounts[a].balance \in Cents /\ MaxCents \in Nat
  BY <1>2 DEF IInv, TypeOK, DBTypeOK, AccountRow, Assumed, DBAssumption
<1>5. new \in Cents
  BY <1>3
<1>6. /\ n \in Cents \ {0} /\ type \in {"CREDIT", "DEBIT"}
      /\ new = IF type = "CREDIT" THEN accounts[a].balance + n ELSE accounts[a].balance - n
  BY <1>3, <1>4 DEF Cents
<1> HIDE DEF n, type, new, d
<1>7. /\ accounts'[a] = Stored(accounts[a], new)
      /\ entries'[a] = Append1(a, type, n, new, Null)
      /\ \A b \in Accounts \ {a} : accounts'[b] = accounts[b] /\ entries'[b] = entries[b]
      /\ accounts' = [b \in Accounts |-> accounts'[b]]
      /\ entries' = [b \in Accounts |-> entries'[b]]
  BY <1>1, <1>2 DEF IInv, TypeOK, DBTypeOK
<1>8. \A b \in Accounts : Books(b)
  BY BooksEach DEF IInv
<1>9. /\ accounts'[a] \in AccountRow
      /\ accounts'[a].status = accounts[a].status
      /\ accounts'[a].version = accounts[a].version + 1
      /\ entries'[a] \in Seq(Entry)
      /\ Books(a)'
  <2>1. TypeOK /\ Null \in Null2(Keys) /\ Books(a) /\ new \in Cents
    BY <1>2, <1>5, <1>8 DEF IInv, Null2
  <2> QED
    BY <1>2, <1>6, <1>7, <2>1, Movement
<1>10. BooksInv'
  <2>1. ASSUME NEW b \in Accounts \ {a} PROVE Books(b)'
    <3>1. accounts'[b] = accounts[b] /\ entries'[b] = entries[b] /\ Books(b)
      BY <1>7, <1>8
    <3> QED
      BY <3>1 DEF Books, Chained
  <2> QED
    BY <1>9, <2>1, BooksEachPrime
<1>11. accounts' \in [Accounts -> AccountRow] /\ entries' \in [Accounts -> Seq(Entry)]
  BY <1>7, <1>9 DEF IInv, TypeOK, DBTypeOK
<1>12. TypeOK'
  <2>1. AccountTypeOK'
    BY <1>1, FinishFacts DEF IInv
  <2>2. DBTypeOK'
    BY <1>1, <1>11, ReleaseFacts DEF IInv, TypeOK, DBTypeOK
  <2>3. TransferTypeOK'
    BY DEF IInv, TypeOK, TransferTypeOK, transferVars
  <2> QED
    BY <2>1, <2>2, <2>3 DEF TypeOK
<1>13. RowsInv'
  BY <1>1, <1>2, <1>7, <1>9 DEF IInv, RowsInv
<1>14. Frame(t)
  BY <1>1, <1>2, <1>7, <1>9, SameRows, ReleaseFacts DEF Frame, RowStep, IInv
<1>15. Local(t)
  BY <1>1, FinishFacts DEF Local, transferVars, IInv
<1>16. TellerInv(t)'
  BY <1>1, FinishFacts DEF TellerInv, IInv
<1>17. t \notin Workers
  BY DEF Assumed, CoreAssumption
<1> QED
  BY <1>10, <1>12, <1>13, <1>14, <1>15, <1>16, <1>17, StepKeeps

\* A step that changes the status of one account, and may open it, keeps the
\* invariant: no balance and no version is touched.
LEMMA StatusChange ==
  ASSUME Assumed, IInv, NEW a \in Accounts, NEW row \in AccountRow,
         accounts' = [accounts EXCEPT ![a] = row],
         row.balance = accounts[a].balance, row.version = accounts[a].version,
         row.status # "ABSENT",
         UNCHANGED <<transfers, entries, accountLock, transferLock, transferVars, accountVars>>
  PROVE  IInv'
<1>1. /\ accounts' \in [Accounts -> AccountRow] /\ accounts'[a] = row
      /\ \A b \in Accounts \ {a} : accounts'[b] = accounts[b]
  BY DEF IInv, TypeOK, DBTypeOK
<1>2. TypeOK'
  BY <1>1 DEF IInv, TypeOK, DBTypeOK, TransferTypeOK, AccountTypeOK, transferVars, accountVars
<1>3. RowsInv'
  BY <1>1 DEF IInv, RowsInv
<1>4. BooksInv'
  <2>1. \A b \in Accounts : Books(b)
    BY BooksEach DEF IInv
  <2>2. \A b \in Accounts : Books(b)'
    BY <1>1, <2>1 DEF Books, Chained
  <2> QED
    BY <2>2, BooksEachPrime
<1>5. Frame(Null)
  BY <1>1, SameRows DEF Frame, RowStep
<1>6. Local(Null)
  BY DEF Local, transferVars, accountVars
<1>7. Null \notin Workers /\ Null \notin Tellers
  BY DEF Assumed, DBAssumption, CoreAssumption
<1> QED
  BY <1>2, <1>3, <1>4, <1>5, <1>6, <1>7, StepKeeps

\* Opening an account keeps the invariant: it had no entries.
LEMMA OpenKeeps ==
  ASSUME Assumed, IInv, NEW a \in Accounts, Open(a), UNCHANGED transferVars
  PROVE  IInv'
<1> DEFINE row == [status |-> "ACTIVE", balance |-> 0, version |-> 0]
<1>1. row \in AccountRow
  BY DEF AccountRow, AccountStatus, Cents, Assumed, DBAssumption
<1>2. accounts[a].version = 0 /\ accounts[a] \in AccountRow /\ entries[a] \in Seq(Entry)
  BY DEF Open, IInv, RowsInv, TypeOK, DBTypeOK
<1>3. accounts[a].balance = 0
  BY <1>2, BooksEach DEF IInv, Books, BalanceAt
<1> QED
  BY <1>1, <1>2, <1>3, StatusChange DEF Open

\* Blocking and unblocking keep the invariant.
LEMMA SetStatusKeeps ==
  ASSUME Assumed, IInv, NEW a \in Accounts, NEW status \in {"ACTIVE", "BLOCKED"},
         SetStatus(a, status), UNCHANGED transferVars
  PROVE  IInv'
<1> DEFINE row == [accounts[a] EXCEPT !.status = status]
<1>1. accounts[a] \in AccountRow
  BY DEF IInv, TypeOK, DBTypeOK
<1>2. /\ row \in AccountRow /\ row.status = status
      /\ row.balance = accounts[a].balance /\ row.version = accounts[a].version
  BY <1>1 DEF AccountRow, AccountStatus
<1>3. accounts' = [accounts EXCEPT ![a] = row]
  BY DEF SetStatus
<1> HIDE DEF row
<1> QED
  BY <1>2, <1>3, StatusChange DEF SetStatus

----------------------------------------------------------------------------
(* The invariant.                                                          *)

\* A restart forgets the sessions, their locks and their readings, and keeps
\* every table: what was committed is still consistent.
LEMMA RestartKeeps ==
  ASSUME Assumed, IInv, Restart
  PROVE  IInv'
<1>1. UNCHANGED tables /\ TransferRestart /\ AccountRestart
      /\ accountLock' = [a \in Accounts |-> Null]
      /\ transferLock' = [k \in Keys |-> Null]
  BY DEF Restart
<1>2. DBTypeOK'
  BY <1>1 DEF IInv, TypeOK, DBTypeOK, tables, Null2
<1>3. TransferTypeOK'
  BY <1>1, NoSnapType
  DEF TransferRestart, TransferTypeOK, Assumed, TransferAssumption, Steps, Jobs, Answers
<1>4. AccountTypeOK'
  BY <1>1 DEF AccountRestart, AccountTypeOK, NoTJob, NoRead, Null2, Cents,
              Assumed, AccountAssumption, DBAssumption
<1>5. RowsInv' /\ BooksInv'
  BY <1>1 DEF IInv, RowsInv, BooksInv, LedgerChain, VersionPerEntry, Chained, tables
<1>6. \A w \in Workers : WorkerInv(w)'
  BY <1>1, <1>2, <1>3, <1>4, <1>5, AtRest DEF TransferRestart, TypeOK
<1>7. \A t \in Tellers : TellerInv(t)'
  BY <1>1 DEF AccountRestart, TellerInv
<1> QED
  BY <1>2, <1>3, <1>4, <1>5, <1>6, <1>7 DEF IInv, TypeOK

\* A step that changes nothing keeps the invariant.
LEMMA StutterKeeps ==
  ASSUME IInv, UNCHANGED vars
  PROVE  IInv'
<1>1. TypeOK' /\ RowsInv'
  BY DEF IInv, vars, dbVars, transferVars, accountVars, TypeOK, DBTypeOK, TransferTypeOK,
         AccountTypeOK, RowsInv
<1>2. BooksInv'
  BY DEF IInv, vars, dbVars, BooksInv, LedgerChain, VersionPerEntry, Chained
<1>3. ASSUME NEW w \in Workers PROVE WorkerInv(w)'
  BY DEF IInv, vars, dbVars, transferVars, WorkerInv, Holds, RowOf, SameOrder,
         FirstOf, FromNew, ToNew, NewBalance, ReadOf
<1>4. ASSUME NEW t \in Tellers PROVE TellerInv(t)'
  BY DEF IInv, vars, dbVars, accountVars, TellerInv, Sum64, ReadOf
<1> QED
  BY <1>1, <1>2, <1>3, <1>4 DEF IInv

\* The opening deposits are booked as every other.
LEMMA InitKeeps ==
  ASSUME Assumed, Init
  PROVE  IInv
<1>1. ASSUME NEW a \in Accounts
      PROVE  /\ OpeningRow(a) \in AccountRow
             /\ OpeningEntries(a) \in Seq(Entry)
             /\ Chained(OpeningEntries(a))
             /\ OpeningRow(a).balance = BalanceAt(OpeningEntries(a), Len(OpeningEntries(a)))
             /\ OpeningRow(a).version = Len(OpeningEntries(a))
             /\ OpeningRow(a).status = "ABSENT" => OpeningRow(a).version = 0
  <2>1. /\ Opening[a] \in Cents \/ Opening[a] = Null
        /\ Null \notin Cents /\ 0 \in Cents
    BY DEF Assumed, CoreAssumption, Null2, DBAssumption, Cents
  <2>2. CASE Opening[a] \in Cents \ {0}
    <3> DEFINE e == [type |-> "CREDIT", amount |-> Opening[a],
                     balanceAfter |-> Opening[a], transfer |-> Null]
    <3>1. e \in Entry
      BY <2>2 DEF Entry, Null2
    <3>2. OpeningEntries(a) = <<e>>
      BY <2>2 DEF OpeningEntries
    <3>3. Opening[a] \in Nat
      BY <2>2 DEF Cents, Assumed, DBAssumption
    <3>4. OpeningRow(a) = [status |-> "ACTIVE", balance |-> Opening[a], version |-> 1]
      BY <2>1, <2>2 DEF OpeningRow
    <3>5. Chained(<<e>>)
      BY <3>3 DEF Chained, Applied, BalanceAt
    <3>6. Len(<<e>>) = 1 /\ BalanceAt(<<e>>, 1) = Opening[a]
      BY DEF BalanceAt
    <3> QED
      BY <2>2, <3>1, <3>2, <3>4, <3>5, <3>6 DEF AccountRow, AccountStatus
  <2>3. CASE Opening[a] \notin Cents \ {0}
    <3>1. OpeningEntries(a) = <<>>
      BY <2>3 DEF OpeningEntries
    <3>2. /\ OpeningRow(a).status \in {"ABSENT", "ACTIVE"}
          /\ OpeningRow(a) = [status |-> OpeningRow(a).status, balance |-> 0, version |-> 0]
      BY <2>1, <2>3 DEF OpeningRow
    <3> QED
      BY <2>1, <3>1, <3>2 DEF AccountRow, AccountStatus, Chained, BalanceAt
  <2> QED
    BY <2>2, <2>3
<1>2. BooksInv
  BY <1>1 DEF Init, BooksInv, LedgerChain, VersionPerEntry
<1>3. DBTypeOK
  BY <1>1 DEF Init, DBTypeOK, Null2
<1>4. TransferTypeOK
  BY NoSnapType
  DEF Init, TransferInit, TransferTypeOK, Assumed, TransferAssumption, Steps, Jobs, Answers
<1>5. AccountTypeOK
  BY DEF Init, AccountIdle, AccountTypeOK, NoTJob, NoRead, Null2, Cents,
         Assumed, AccountAssumption, DBAssumption
<1>6. RowsInv
  BY <1>1 DEF Init, RowsInv
<1>7. ASSUME NEW w \in Workers PROVE WorkerInv(w)
  <2>1. pc[w] = "idle" /\ snap[w] = NoSnap
    BY DEF Init, TransferInit
  <2>2. ASSUME NEW a \in Accounts PROVE ReadOf(NoSnap[a], accounts[a])
    <3>1. accounts[a] = OpeningRow(a) /\ entries[a] = OpeningEntries(a)
      BY DEF Init
    <3>2. OpeningRow(a).version = 0 => OpeningRow(a).balance = 0
      BY <1>1 DEF BalanceAt
    <3> QED
      BY <1>1, <3>1, <3>2 DEF ReadOf, NoSnap, Unread, AccountRow
  <2> QED
    BY <2>1, <2>2 DEF WorkerInv, Working
<1>8. ASSUME NEW t \in Tellers PROVE TellerInv(t)
  BY DEF Init, AccountIdle, TellerInv
<1> QED
  BY <1>2, <1>3, <1>4, <1>5, <1>6, <1>7, <1>8 DEF IInv, TypeOK

\* Every step of the transfer service keeps the invariant.
LEMMA TransferNextKeeps ==
  ASSUME Assumed, IInv, TransferNext, UNCHANGED accountVars
  PROVE  IInv'
<1>1. ASSUME NEW w \in Workers, Submit(w) PROVE IInv'
  BY <1>1, RejectInvalidKeeps, AcquireNewKeeps, AcquireUnknownKeeps, AcquireExistingKeeps
  DEF Submit
<1>2. ASSUME NEW w \in Workers, Proceed(w) PROVE IInv'
  BY <1>2, LockTransferKeeps, ReadFirstKeeps, ReadSecondKeeps, UpdateFirstKeeps,
     UpdateSecondKeeps, BookKeeps, MarkFailedKeeps, LockFirstKeeps, LockSecondKeeps,
     ReverseKeeps, DeliverKeeps
  DEF Proceed
<1>3. ASSUME NEW w \in Workers, Abort(w) PROVE IInv'
  BY <1>3, AbortKeeps
<1>4. ASSUME NEW k \in Keys, Settle(k) \/ FailUnbooked(k) PROVE IInv'
  BY <1>4, SettleKeeps, FailUnbookedKeeps
<1>5. ASSUME NEW w \in Workers, NEW k \in Keys, FailBegin(w, k) PROVE IInv'
  BY <1>5, FailBeginKeeps
<1> QED
  BY <1>1, <1>2, <1>3, <1>4, <1>5 DEF TransferNext

\* Every step of the account service keeps the invariant.
LEMMA AccountNextKeeps ==
  ASSUME Assumed, IInv, AccountNext, UNCHANGED transferVars
  PROVE  IInv'
BY OpenKeeps, SetStatusKeeps, MutateKeeps, ReadBalanceKeeps, UpdateBalanceKeeps,
   PostMutationKeeps, AbortMutationKeeps
DEF AccountNext, ProceedMutation

\* IInv is inductive.
LEMMA NextKeeps ==
  ASSUME Assumed, IInv, [Next]_vars
  PROVE  IInv'
BY TransferNextKeeps, AccountNextKeeps, RestartKeeps, StutterKeeps DEF Next

\* The modules' assumptions hold.
LEMMA AllAssumed == Assumed
BY DBAssumption, TransferAssumption, AccountAssumption, CoreAssumption DEF Assumed

----------------------------------------------------------------------------
(* What follows from it.                                                   *)

\* Every reachable state satisfies the inductive invariant.
THEOREM Invariant == Spec => []IInv
<1>1. Init => IInv
  BY AllAssumed, InitKeeps
<1>2. IInv /\ [Next]_vars => IInv'
  BY AllAssumed, NextKeeps
<1> QED
  BY <1>1, <1>2, PTL DEF Spec

\* Types: no balance of any account is ever negative or past int64, whatever
\* the requests do between the statements of one another.
THEOREM TypeCorrect == Spec => []TypeOK
<1>1. IInv => TypeOK
  BY DEF IInv
<1> QED
  BY <1>1, Invariant, PTL

\* The ledger explains every balance: the entries of an account form one
\* chain that ends in the balance of its row.
THEOREM LedgerExplainsBalances == Spec => []LedgerChain
<1>1. IInv => LedgerChain
  BY DEF IInv, BooksInv
<1> QED
  BY <1>1, Invariant, PTL

\* A transfer about to be booked writes over the very rows it has read.
THEOREM BookingsAreCurrent == Spec => []BookingCurrent
<1>1. IInv => BookingCurrent
  BY DEF IInv, WorkerInv, Holds, BookingCurrent, SnapCurrent
<1> QED
  BY <1>1, Invariant, PTL

\* A reversal, which is never retried, never meets a version conflict.
THEOREM ReversalsDoNotConflict == Spec => []ReverseNeverConflicts
<1>1. IInv => ReverseNeverConflicts
  BY DEF IInv, WorkerInv, Holds, ReverseNeverConflicts, SnapCurrent
<1> QED
  BY <1>1, Invariant, PTL

\* What a step may do to the ledger of an account: nothing, and nothing to its
\* balance, or one more entry.
Extended(a) ==
  \/ entries'[a] = entries[a] /\ accounts'[a].balance = accounts[a].balance
  \/ \E e : entries'[a] = Append(entries[a], e)

\* A movement adds one entry to each of its two accounts.
LEMMA PostExtends ==
  ASSUME IInv, NEW d, NEW db, NEW c, NEW cb, NEW n, NEW k, d # c, Post(d, db, c, cb, n, k)
  PROVE  \A a \in Accounts : Extended(a)
<1>1. accounts \in [Accounts -> AccountRow] /\ entries \in [Accounts -> Seq(Entry)]
  BY DEF IInv, TypeOK, DBTypeOK
<1>2. ASSUME NEW a \in Accounts, a = d \/ a = c PROVE \E e : entries'[a] = Append(entries[a], e)
  <2>1. CASE a = d
    BY <1>1, <2>1 DEF Post, Append1
  <2>2. CASE a = c
    BY <1>1, <2>2 DEF Post, Append1
  <2> QED
    BY <1>2, <2>1, <2>2
<1>3. ASSUME NEW a \in Accounts \ {d, c}
      PROVE  entries'[a] = entries[a] /\ accounts'[a] = accounts[a]
  BY <1>1 DEF Post
<1> QED
  BY <1>2, <1>3 DEF Extended

\* Every step extends the ledgers, or leaves them and the balances alone.
LEMMA NextExtends ==
  ASSUME Assumed, IInv, [Next]_vars
  PROVE  \A a \in Accounts : Extended(a)
<1>1. ASSUME UNCHANGED <<accounts, entries>> PROVE \A a \in Accounts : Extended(a)
  BY <1>1 DEF Extended
<1>2. ASSUME NEW w \in Workers, Submit(w) PROVE UNCHANGED <<accounts, entries>>
  BY <1>2 DEF Submit, RejectInvalid, AcquireNew, AcquireUnknown, AcquireExisting, dbVars
<1>3. ASSUME NEW w \in Workers, Book(w) PROVE \A a \in Accounts : Extended(a)
  <2>1. job[w].from # job[w].to
    BY <1>3, LiveFacts DEF Book, Working, Steps, InTx, IInv
  <2> QED
    BY <1>3, <2>1, PostExtends DEF Book
<1>4. ASSUME NEW w \in Workers, Reverse(w) PROVE \A a \in Accounts : Extended(a)
  <2>1. job[w].from # job[w].to
    BY <1>4, LiveFacts DEF Reverse, Working, Steps, InTx, IInv
  <2>2. UNCHANGED tables
        \/ Post(job[w].to, ToBack(w), job[w].from, FromBack(w), job[w].amount, job[w].key)
    BY <1>4 DEF Reverse
  <2> QED
    BY <1>1, <2>1, <2>2, PostExtends DEF tables
<1>5. ASSUME NEW w \in Workers, Proceed(w) PROVE \A a \in Accounts : Extended(a)
  <2>1. LockTransfer(w) \/ ReadFirst(w) \/ ReadSecond(w) => UNCHANGED <<accounts, entries>>
    BY DEF LockTransfer, ReadFirst, ReadSecond, tables
  <2>2. UpdateFirst(w) \/ UpdateSecond(w) => UNCHANGED <<accounts, entries>>
    BY DEF UpdateFirst, UpdateSecond, UpdateAccount, tables
  <2>3. MarkFailed(w) \/ LockFirst(w) \/ LockSecond(w) \/ Deliver(w)
          => UNCHANGED <<accounts, entries>>
    BY DEF MarkFailed, LockFirst, LockSecond, LockAccount, Deliver, tables, dbVars
  <2> QED
    BY <1>1, <1>3, <1>4, <1>5, <2>1, <2>2, <2>3 DEF Proceed
<1>6. ASSUME TransferNext PROVE \A a \in Accounts : Extended(a)
  <2>1. ASSUME NEW w \in Workers, Abort(w) PROVE UNCHANGED <<accounts, entries>>
    BY <2>1 DEF Abort, tables
  <2>2. ASSUME NEW k \in Keys, Settle(k) \/ FailUnbooked(k) PROVE UNCHANGED <<accounts, entries>>
    BY <2>2 DEF Settle, FailUnbooked
  <2>3. ASSUME NEW w \in Workers, NEW k \in Keys, FailBegin(w, k)
        PROVE  UNCHANGED <<accounts, entries>>
    BY <2>3 DEF FailBegin, tables
  <2> QED
    BY <1>1, <1>2, <1>5, <1>6, <2>1, <2>2, <2>3 DEF TransferNext
<1>7. ASSUME NEW a \in Accounts, Open(a) PROVE \A b \in Accounts : Extended(b)
  <2>1. accounts[a].version = 0 /\ accounts[a] \in AccountRow /\ entries[a] \in Seq(Entry)
    BY <1>7 DEF Open, IInv, RowsInv, TypeOK, DBTypeOK
  <2>2. accounts[a].balance = 0
    BY <2>1, BooksEach DEF IInv, Books, BalanceAt
  <2>3. \A b \in Accounts : accounts'[b].balance = accounts[b].balance
    BY <1>7, <2>2 DEF Open, IInv, TypeOK, DBTypeOK
  <2> QED
    BY <1>7, <2>3 DEF Open, Extended
<1>8. ASSUME NEW a \in Accounts, NEW s \in {"ACTIVE", "BLOCKED"}, SetStatus(a, s)
      PROVE  \A b \in Accounts : Extended(b)
  <2>1. accounts \in [Accounts -> AccountRow]
    BY DEF IInv, TypeOK, DBTypeOK
  <2>2. \A b \in Accounts : accounts'[b].balance = accounts[b].balance
    BY <1>8, <2>1 DEF SetStatus, AccountRow
  <2> QED
    BY <1>8, <2>2 DEF SetStatus, Extended
<1>9. ASSUME NEW t \in Tellers, PostMutation(t) PROVE \A a \in Accounts : Extended(a)
  <2>1. tjob[t].account \in Accounts
    BY <1>9 DEF PostMutation, IInv, TellerInv
  <2>2. accounts \in [Accounts -> AccountRow] /\ entries \in [Accounts -> Seq(Entry)]
    BY DEF IInv, TypeOK, DBTypeOK
  <2>3. \E e : entries' = [entries EXCEPT ![tjob[t].account] = Append(entries[tjob[t].account], e)]
    BY <1>9 DEF PostMutation, Append1
  <2>4. \A b \in Accounts \ {tjob[t].account} : accounts'[b] = accounts[b]
    BY <1>9, <2>2 DEF PostMutation
  <2> QED
    BY <2>1, <2>2, <2>3, <2>4 DEF Extended
<1>10. ASSUME AccountNext PROVE \A a \in Accounts : Extended(a)
  <2>1. ASSUME NEW t \in Tellers, NEW a \in Accounts, NEW d \in Deltas, Mutate(t, a, d)
        PROVE  UNCHANGED <<accounts, entries>>
    BY <2>1 DEF Mutate, dbVars
  <2>2. ASSUME NEW t \in Tellers, ReadBalance(t) \/ UpdateBalance(t) \/ AbortMutation(t)
        PROVE  UNCHANGED <<accounts, entries>>
    BY <2>2 DEF ReadBalance, UpdateBalance, AbortMutation, dbVars, tables
  <2> QED
    BY <1>1, <1>7, <1>8, <1>9, <1>10, <2>1, <2>2 DEF AccountNext, ProceedMutation
<1>11. Restart \/ UNCHANGED vars => UNCHANGED <<accounts, entries>>
  BY DEF Restart, vars, dbVars, tables
<1> QED
  BY <1>1, <1>6, <1>10, <1>11 DEF Next

\* Entries are never changed nor removed, and a balance changes only with one
\* more entry in the same commit.
THEOREM LedgerIsAppendOnly == Spec => LedgerAppendOnly
<1> DEFINE Step(a) ==
      /\ Len(entries'[a]) >= Len(entries[a])
      /\ SubSeq(entries'[a], 1, Len(entries[a])) = entries[a]
      /\ accounts'[a].balance # accounts[a].balance => Len(entries'[a]) = Len(entries[a]) + 1
<1>1. ASSUME IInv, IInv', [Next]_vars, NEW a \in Accounts PROVE Step(a)
  <2>1. entries[a] \in Seq(Entry) /\ entries'[a] \in Seq(Entry)
    BY <1>1 DEF IInv, TypeOK, DBTypeOK
  <2>2. Extended(a)
    BY <1>1, AllAssumed, NextExtends
  <2> QED
    BY <2>1, <2>2 DEF Extended
<1>2. IInv /\ IInv' /\ [Next]_vars => \A a \in Accounts : Step(a)
  BY <1>1
<1> QED
  BY <1>2, Invariant, PTL DEF Spec, LedgerAppendOnly

\* Only the commit of a movement writes entries.
LEMMA OnlyCommitsWrite ==
  ASSUME [Next]_vars
  PROVE  \/ UNCHANGED entries
         \/ \E w \in Workers : Book(w) \/ Reverse(w)
         \/ \E t \in Tellers : PostMutation(t)
<1>1. ASSUME NEW w \in Workers, Submit(w) \/ Abort(w) PROVE UNCHANGED entries
  BY <1>1 DEF Submit, RejectInvalid, AcquireNew, AcquireUnknown, AcquireExisting, Abort,
     dbVars, tables
<1>2. ASSUME NEW w \in Workers, Proceed(w) PROVE UNCHANGED entries \/ Book(w) \/ Reverse(w)
  <2>1. LockTransfer(w) \/ ReadFirst(w) \/ ReadSecond(w) \/ UpdateFirst(w) \/ UpdateSecond(w)
        => UNCHANGED entries
    BY DEF LockTransfer, ReadFirst, ReadSecond, UpdateFirst, UpdateSecond, UpdateAccount, tables
  <2>2. MarkFailed(w) \/ LockFirst(w) \/ LockSecond(w) \/ Deliver(w) => UNCHANGED entries
    BY DEF MarkFailed, LockFirst, LockSecond, LockAccount, Deliver, tables, dbVars
  <2> QED
    BY <1>2, <2>1, <2>2 DEF Proceed
<1>3. ASSUME NEW k \in Keys, Settle(k) \/ FailUnbooked(k) \/ \E w \in Workers : FailBegin(w, k)
      PROVE  UNCHANGED entries
  BY <1>3 DEF Settle, FailUnbooked, FailBegin, tables
<1>4. TransferNext => UNCHANGED entries \/ \E w \in Workers : Book(w) \/ Reverse(w)
  BY <1>1, <1>2, <1>3 DEF TransferNext
<1>5. AccountNext => UNCHANGED entries \/ \E t \in Tellers : PostMutation(t)
  BY DEF AccountNext, ProceedMutation, Open, SetStatus, Mutate, ReadBalance, UpdateBalance,
     AbortMutation, dbVars, tables
<1>6. Restart \/ UNCHANGED vars => UNCHANGED entries
  BY DEF Restart, vars, dbVars, tables
<1> QED
  BY <1>4, <1>5, <1>6 DEF Next

\* A movement of a transfer's accounts writes no other's entries.
LEMMA PostWritesTwo ==
  ASSUME IInv, NEW d, NEW db, NEW c, NEW cb, NEW n, NEW k, Post(d, db, c, cb, n, k),
         NEW a \in Accounts \ {d, c}
  PROVE  entries'[a] = entries[a]
BY DEF Post, IInv, TypeOK, DBTypeOK

\* Who is about to commit a transfer's movement, or its reversal, has read the
\* rows that stand: he holds them, and equal versions are equal balances.
LEMMA HeldIsRow ==
  ASSUME IInv, NEW w \in Workers, pc[w] \in {"book", "reverse"}
  PROVE  \A a \in {job[w].from, job[w].to} : a \in Accounts /\ IsRow(snap[w][a], a)
<1>1. job[w].from \in Accounts /\ job[w].to \in Accounts
  BY LiveFacts DEF IInv, Working, Steps, InTx
<1> QED
  BY <1>1 DEF IInv, WorkerInv, Holds, ReadOf, IsRow

\* Whoever commits a movement has read what it replaces.
LEMMA WritersHaveRead ==
  ASSUME IInv, [Next]_vars, NEW a \in Accounts, Len(entries'[a]) > Len(entries[a])
  PROVE  WrittenByReader(a)
<1>1. entries[a] \in Seq(Entry) /\ entries'[a] # entries[a]
  BY DEF IInv, TypeOK, DBTypeOK
<1>2. ASSUME NEW w \in Workers, NEW d, NEW db, NEW c, NEW cb, NEW n, NEW k, NEW answer,
             pc[w] \in {"book", "reverse"}, {d, c} = {job[w].from, job[w].to},
             Post(d, db, c, cb, n, k), Answer(w, answer)
      PROVE  WrittenByReader(a)
  <2>1. a \in {job[w].from, job[w].to}
    BY <1>1, <1>2, PostWritesTwo
  <2>2. pc'[w] = "done"
    BY <1>2 DEF Answer, Goto, IInv, TypeOK, TransferTypeOK
  <2> QED
    BY <1>2, <2>1, <2>2, HeldIsRow DEF WrittenByReader
<1>3. ASSUME NEW w \in Workers, Book(w) PROVE WrittenByReader(a)
  BY <1>2, <1>3 DEF Book
<1>4. ASSUME NEW w \in Workers, Reverse(w) PROVE WrittenByReader(a)
  <2>1. /\ Post(job[w].to, ToBack(w), job[w].from, FromBack(w), job[w].amount, job[w].key)
        /\ \E answer : Answer(w, answer)
    BY <1>1, <1>4 DEF Reverse, tables
  <2>2. pc[w] = "reverse"
    BY <1>4 DEF Reverse
  <2> QED
    BY <1>2, <2>1, <2>2
<1>5. ASSUME NEW t \in Tellers, PostMutation(t) PROVE WrittenByReader(a)
  <2>1. tpc[t] = "post" /\ Finish(t)
    BY <1>5 DEF PostMutation
  <2>2. tpc'[t] = "idle"
    BY <2>1 DEF Finish, TGoto, IInv, TypeOK, AccountTypeOK
  <2>3. tjob[t].account = a
    BY <1>1, <1>5 DEF PostMutation, IInv, TypeOK, DBTypeOK
  <2>4. IsRow(tsnap[t], a)
    BY <2>1, <2>3 DEF IInv, TellerInv, ReadOf, IsRow
  <2> QED
    BY <2>1, <2>2, <2>3, <2>4 DEF WrittenByReader
<1> QED
  BY <1>1, <1>3, <1>4, <1>5, OnlyCommitsWrite

\* No update is lost: a movement is committed only over the row its session has
\* read, however many statements of others ran since.
THEOREM LosesNoUpdate == Spec => NoLostUpdate
<1>1. IInv /\ [Next]_vars =>
        [\A a \in Accounts : Len(entries'[a]) > Len(entries[a]) => WrittenByReader(a)]_vars
  BY WritersHaveRead
<1> QED
  BY <1>1, Invariant, PTL DEF Spec, NoLostUpdate
=============================================================================
