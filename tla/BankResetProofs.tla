-------------------------- MODULE BankResetProofs --------------------------
(***************************************************************************)
(* Proofs of what the bank keeps while it is reset.  A reset takes the     *)
(* rows from under requests that are on their way.  Those who lost theirs  *)
(* can do no more than be refused; leave them out, and what the others do  *)
(* is the bank of BankCore, step by step, whose invariants therefore hold  *)
(* of it on both sides of every reset.                                     *)
(***************************************************************************)
EXTENDS BankReset, TLAPS

\* A request for a transfer that has no row, because a reset took it or none
\* was ever inserted; and one for a deposit to an account that is not there.
Rowless(w)  == Transferring(w) /\ transfers[job[w].key] = Null
Homeless(t) == tpc[t] = "read" /\ accounts[tjob[t].account].status = "ABSENT"

\* The state of the sessions, as if those had not asked.
RestPc     == [w \in Workers |-> IF Rowless(w) THEN "idle" ELSE pc[w]]
RestJob    == [w \in Workers |-> IF Rowless(w) THEN NoJob ELSE job[w]]
RestTries  == [w \in Workers |-> IF Rowless(w) THEN 0 ELSE tries[w]]
RestResp   == [w \in Workers |-> IF Rowless(w) THEN "none" ELSE resp[w]]
RestTpc    == [t \in Tellers |-> IF Homeless(t) THEN "idle" ELSE tpc[t]]
RestTjob   == [t \in Tellers |-> IF Homeless(t) THEN NoTJob ELSE tjob[t]]
RestTtries == [t \in Tellers |-> IF Homeless(t) THEN 0 ELSE ttries[t]]

\* The bank without them.
Rest == INSTANCE BankStatusProofs WITH
  pc <- RestPc, job <- RestJob, tries <- RestTries, resp <- RestResp,
  tpc <- RestTpc, tjob <- RestTjob, ttries <- RestTtries

\* What a request knows and where it may be once it has lost its row; a
\* deposit that has lost its account waits for one that never comes back.
RequestInv(w) ==
  /\ Rowless(w) => pc[w] \in {"begin", "mark", "done"} /\ job[w].key \in Keys
  /\ pc[w] \notin InTx => snap[w] = NoSnap
  /\ pc[w] = "idle" => job[w] = NoJob /\ tries[w] = 0 /\ resp[w] = "none"
MutationInv(t) ==
  /\ Homeless(t) => tjob[t].account \in retired \cap Accounts
  /\ tpc[t] \notin {"update", "post"} => tsnap[t] = NoRead

Functions ==
  /\ pc = [w \in Workers |-> pc[w]] /\ job = [w \in Workers |-> job[w]]
  /\ tries = [w \in Workers |-> tries[w]] /\ resp = [w \in Workers |-> resp[w]]
  /\ snap = [w \in Workers |-> snap[w]]
  /\ tpc = [t \in Tellers |-> tpc[t]] /\ tjob = [t \in Tellers |-> tjob[t]]
  /\ ttries = [t \in Tellers |-> ttries[t]] /\ tsnap = [t \in Tellers |-> tsnap[t]]

OwnInv ==
  /\ Functions
  /\ \A w \in Workers : RequestInv(w)
  /\ \A t \in Tellers : MutationInv(t)

ResetInv ==
  /\ OwnInv
  /\ Rest!IInv /\ Rest!LedgerStatusInv /\ Rest!HoldersInv /\ Rest!WaitingClientsInv

----------------------------------------------------------------------------
(* The bank's own lemmas, about the rest of it.                            *)

\* The assumptions are about constants, and are therefore those of the rest.
LEMMA RestAssumptions ==
  Rest!DBAssumption /\ Rest!TransferAssumption /\ Rest!AccountAssumption /\ Rest!CoreAssumption
BY DBAssumption, TransferAssumption, AccountAssumption, CoreAssumption
DEF Rest!DBAssumption, Rest!TransferAssumption, Rest!AccountAssumption, Rest!CoreAssumption,
    Rest!Cents, Rest!Null2, Cents, Null2, TransferRow, Rest!TransferRow, TransferStatus,
    Rest!TransferStatus

\* They are what the bank's lemmas assume.
LEMMA RestAssumed == Rest!Assumed
BY Rest!AllAssumed, RestAssumptions

\* A step of the rest keeps its invariants.
LEMMA RestKeeps ==
  ASSUME Rest!IInv, Rest!LedgerStatusInv, Rest!HoldersInv, Rest!WaitingClientsInv,
         [Rest!Next]_(Rest!vars)
  PROVE  Rest!IInv' /\ Rest!LedgerStatusInv' /\ Rest!HoldersInv' /\ Rest!WaitingClientsInv'
<1>1. Rest!IInv'
  BY Rest!NextKeeps, RestAssumed, RestAssumptions
<1>2. Rest!LedgerStatusInv'
  BY <1>1, Rest!NextLife, RestAssumed, RestAssumptions
<1>3. Rest!HoldersInv'
  BY <1>1, Rest!NextHolders, RestAssumed, RestAssumptions
<1>4. Rest!WaitingClientsInv'
  BY <1>1, Rest!NextWaits, RestAssumed, RestAssumptions, ResetAssumption DEF ResetAssumption
<1> QED
  BY <1>1, <1>2, <1>3, <1>4

----------------------------------------------------------------------------
(* Who has lost a row stays without, and who has one keeps it.             *)

\* What a step of the bank leaves to all that are on their way.
Standing ==
  /\ \A k \in Keys : transfers[k] # Null => transfers'[k] # Null
  /\ \A w \in Workers : Rowless(w) => transfers'[job[w].key] = Null
  /\ \A a \in Accounts : accounts[a].status # "ABSENT" => accounts'[a].status # "ABSENT"
  /\ \A a \in retired : accounts'[a].status = "ABSENT"

\* The job of a request is of the type it has among the rest.
LEMMA Named ==
  ASSUME ResetInv, NEW w \in Workers
  PROVE  /\ Transferring(w) => job[w].key \in Keys
         /\ ~Rowless(w) => job[w] \in Jobs
<1>1. ASSUME ~Rowless(w) PROVE job[w] \in Jobs
  <2>1. RestJob[w] = job[w]
    BY <1>1 DEF RestJob
  <2>2. RestJob \in [Workers -> Rest!Jobs]
    BY DEF ResetInv, Rest!IInv, Rest!TypeOK, Rest!TransferTypeOK
  <2> QED
    BY <2>1, <2>2 DEF Rest!Jobs, Jobs, Rest!NoJob, NoJob
<1>2. ASSUME Transferring(w) PROVE job[w].key \in Keys
  <2>1. CASE Rowless(w)
    BY <2>1 DEF ResetInv, OwnInv, RequestInv
  <2>2. CASE ~Rowless(w)
    BY <1>1, <1>2, <2>2 DEF Jobs, NoJob, Transferring
  <2> QED
    BY <2>1, <2>2
<1> QED
  BY <1>1, <1>2

\* Whoever works for a row that is there has the job it has among the rest.
LEMMA InTxHasRow ==
  ASSUME ResetInv, NEW w \in Workers, pc[w] \in InTx
  PROVE  /\ ~Rowless(w) /\ RestPc[w] = pc[w] /\ RestJob[w] = job[w]
         /\ job[w].key \in Keys /\ transfers[job[w].key] # Null
<1>1. ~Rowless(w)
  BY DEF ResetInv, OwnInv, RequestInv, InTx
<1>2. RestPc[w] = pc[w] /\ RestJob[w] = job[w]
  BY <1>1 DEF RestPc, RestJob
<1>3. RestJob[w] \in Rest!LiveJobs /\ Rest!RowOf(RestJob[w])
  BY <1>2 DEF ResetInv, Rest!IInv, Rest!WorkerInv, Rest!Working, Rest!Steps, Rest!InTx, InTx
<1> QED
  BY <1>1, <1>2, <1>3 DEF Rest!LiveJobs, Rest!RowOf

\* A row whose status is written is there.
LEMMA WrittenStays ==
  ASSUME ResetInv, NEW k \in Keys, transfers[k] # Null, NEW st \in TransferStatus,
         transfers' = [transfers EXCEPT ![k].status = st]
  PROVE  \A l \in Keys : transfers[l] = Null <=> transfers'[l] = Null
<1>1. transfers \in [Keys -> Null2(TransferRow)] /\ Null \notin TransferRow
  BY DBAssumption DEF ResetInv, Rest!IInv, Rest!TypeOK, Rest!DBTypeOK, Rest!Null2, Null2,
     Rest!TransferRow, TransferRow, Rest!Cents, Cents, Rest!TransferStatus, TransferStatus
<1>2. transfers[k] \in TransferRow
  BY <1>1 DEF Null2
<1>3. transfers'[k] \in TransferRow
  <2>1. transfers'[k] = [transfers[k] EXCEPT !.status = st]
    BY <1>1
  <2> QED
    BY <1>2, <2>1 DEF TransferRow
<1>4. \A l \in Keys \ {k} : transfers'[l] = transfers[l]
  BY <1>1
<1> QED
  BY <1>1, <1>2, <1>3, <1>4

\* The rows of the transfers, whatever is done with them: claimed, written to,
\* or left alone.
LEMMA TransfersStand ==
  ASSUME ResetInv, Next
  PROVE  /\ \A k \in Keys : transfers[k] # Null => transfers'[k] # Null
         /\ \A w \in Workers : Rowless(w) => transfers'[job[w].key] = Null
<1> DEFINE Stand == /\ \A k \in Keys : transfers[k] # Null => transfers'[k] # Null
                    /\ \A w \in Workers : Rowless(w) => transfers'[job[w].key] = Null
<1>1. ASSUME \A k \in Keys : transfers[k] = Null <=> transfers'[k] = Null PROVE Stand
  BY <1>1, Named DEF Rowless
<1>2. CASE UNCHANGED transfers
  BY <1>1, <1>2
<1>3. ASSUME NEW k \in Keys, transfers[k] # Null, NEW st \in TransferStatus,
             transfers' = [transfers EXCEPT ![k].status = st]
      PROVE  Stand
  BY <1>1, <1>3, WrittenStays
<1>4. ASSUME NEW w \in Workers, NEW k \in Keys, NEW o \in Orders, AcquireNew(w, k, o) PROVE Stand
  <2>1. PICK row : row = [from |-> o.from, to |-> o.to, amount |-> o.amount, status |-> "PENDING"]
    OBVIOUS
  <2>2. transfers' = [transfers EXCEPT ![k] = row] /\ Fresh(w, k)
    BY <1>4, <2>1 DEF AcquireNew
  <2>3. transfers \in [Keys -> Rest!Null2(Rest!TransferRow)]
    BY DEF ResetInv, Rest!IInv, Rest!TypeOK, Rest!DBTypeOK
  <2>4. \A v \in Workers : Transferring(v) => job[v].key # k
    BY <2>2, ResetAssumption DEF ResetAssumption, Fresh, Transferring
  <2>5. row # Null
    <3>1. row \in TransferRow
      BY <1>4, <2>1, TransferAssumption, DBAssumption
      DEF AcquireNew, Valid, TransferRow, TransferStatus, TransferAssumption, Cents, DBAssumption
    <3> QED
      BY <3>1, DBAssumption DEF DBAssumption
  <2>6. \A l \in Keys \ {k} : transfers'[l] = transfers[l]
    BY <2>2, <2>3
  <2>7. transfers'[k] = row
    BY <2>2, <2>3
  <2> QED
    BY <2>4, <2>5, <2>6, <2>7, Named DEF Rowless
<1>5. ASSUME NEW w \in Workers, Book(w) \/ Reverse(w) PROVE Stand
  <2>1. job[w].key \in Keys /\ transfers[job[w].key] # Null
    BY <1>5, InTxHasRow DEF Book, Reverse, InTx
  <2>2. \/ UNCHANGED transfers
        \/ transfers' = [transfers EXCEPT ![job[w].key].status = "SETTLED"]
        \/ transfers' = [transfers EXCEPT ![job[w].key].status = "FAILED"]
    BY <1>5 DEF Book, Reverse, tables
  <2> QED
    BY <1>2, <1>3, <2>1, <2>2 DEF TransferStatus
<1>6. ASSUME NEW w \in Workers, MarkFailed(w) PROVE Stand
  <2>1. transfers[job[w].key] # Null => job[w].key \in Keys
    <3>1. CASE Rowless(w)
      BY <3>1 DEF Rowless
    <3>2. CASE ~Rowless(w)
      <4>1. RestPc[w] = "mark" /\ RestJob[w] = job[w]
        BY <1>6, <3>2 DEF RestPc, RestJob, MarkFailed
      <4>2. RestJob[w] \in Rest!LiveJobs
        BY <4>1 DEF ResetInv, Rest!IInv, Rest!WorkerInv, Rest!Working, Rest!Steps
      <4> QED
        BY <4>1, <4>2 DEF Rest!LiveJobs
    <3> QED
      BY <3>1, <3>2
  <2>2. \/ UNCHANGED transfers
        \/ /\ transfers[job[w].key] # Null
           /\ transfers' = [transfers EXCEPT ![job[w].key].status = "FAILED"]
    BY <1>6 DEF MarkFailed
  <2> QED
    BY <1>2, <1>3, <2>1, <2>2 DEF TransferStatus
<1>7. ASSUME NEW k \in Keys, Settle(k) \/ FailUnbooked(k) PROVE Stand
  BY <1>3, <1>7 DEF Settle, FailUnbooked, TransferStatus
<1>8. ASSUME NEW w \in Workers, Abort(w) \/ \E k \in Keys : FailBegin(w, k) PROVE Stand
  BY <1>2, <1>8 DEF Abort, FailBegin, tables
<1>9. ASSUME NEW w \in Workers, Proceed(w) PROVE Stand
  <2>1. \/ LockTransfer(w) \/ ReadFirst(w) \/ ReadSecond(w) \/ UpdateFirst(w) \/ UpdateSecond(w)
        \/ LockFirst(w) \/ LockSecond(w) \/ Deliver(w)
        => UNCHANGED transfers
    BY DEF Deliver, LockTransfer, ReadFirst, ReadSecond, UpdateFirst, UpdateSecond,
       UpdateAccount, LockFirst, LockSecond, LockAccount, tables, dbVars
  <2> QED
    BY <1>2, <1>5, <1>6, <1>9, <2>1 DEF Proceed
<1>10. ASSUME NEW w \in Workers, Submit(w) PROVE Stand
  <2>1. ASSUME NEW k \in Keys, NEW o \in Orders,
               RejectInvalid(w, k, o) \/ AcquireUnknown(w, k, o) \/ AcquireExisting(w, k, o)
        PROVE  UNCHANGED transfers
    BY <2>1 DEF RejectInvalid, AcquireUnknown, AcquireExisting, dbVars
  <2> QED
    BY <1>2, <1>4, <1>10, <2>1 DEF Submit
<1>11. CASE AccountNext \/ Restart
  <2>1. UNCHANGED transfers
    BY <1>11 DEF AccountNext, Open, SetStatus, Mutate, ProceedMutation, ReadBalance,
       UpdateBalance, PostMutation, AbortMutation, Restart, tables, dbVars
  <2> QED
    BY <1>2, <2>1
<1>12. CASE TransferNext
  BY <1>7, <1>8, <1>9, <1>10, <1>12 DEF TransferNext
<1> QED
  BY <1>11, <1>12 DEF Next

\* The accounts are there for good, until a reset.
LEMMA AccountsStand ==
  ASSUME ResetInv, Next
  PROVE  \A a \in Accounts : accounts[a].status # "ABSENT" => accounts'[a].status # "ABSENT"
<1> DEFINE Stand == \A a \in Accounts : accounts[a].status # "ABSENT" =>
                                          accounts'[a].status # "ABSENT"
<1>1. accounts \in [Accounts -> Rest!AccountRow]
  BY DEF ResetInv, Rest!IInv, Rest!TypeOK, Rest!DBTypeOK
<1>2. CASE UNCHANGED accounts
  BY <1>2
<1>3. ASSUME NEW d, NEW c, NEW db, NEW cb, NEW n, NEW k, Post(d, db, c, cb, n, k) PROVE Stand
  BY <1>1, <1>3 DEF Post, Stored
<1>4. ASSUME NEW w \in Workers, Proceed(w) PROVE Stand
  <2>1. CASE Book(w) \/ Reverse(w)
    BY <1>2, <1>3, <2>1 DEF Book, Reverse, tables
  <2>2. \/ LockTransfer(w) \/ ReadFirst(w) \/ ReadSecond(w) \/ UpdateFirst(w) \/ UpdateSecond(w)
        \/ LockFirst(w) \/ LockSecond(w) \/ Deliver(w) \/ MarkFailed(w)
        => UNCHANGED accounts
    BY DEF Deliver, LockTransfer, ReadFirst, ReadSecond, UpdateFirst, UpdateSecond, MarkFailed,
       UpdateAccount, LockFirst, LockSecond, LockAccount, tables, dbVars
  <2> QED
    BY <1>2, <1>4, <2>1, <2>2 DEF Proceed
<1>5. ASSUME NEW w \in Workers, Submit(w) \/ Abort(w) PROVE UNCHANGED accounts
  BY <1>5 DEF Submit, RejectInvalid, AcquireNew, AcquireUnknown, AcquireExisting, Abort,
     tables, dbVars
<1>6. ASSUME NEW k \in Keys,
             Settle(k) \/ FailUnbooked(k) \/ \E w \in Workers : FailBegin(w, k)
      PROVE  UNCHANGED accounts
  BY <1>6 DEF Settle, FailUnbooked, FailBegin, tables
<1>7. ASSUME NEW a \in Accounts, Open(a) \/ \E s \in {"ACTIVE", "BLOCKED"} : SetStatus(a, s)
      PROVE  Stand
  BY <1>1, <1>7 DEF Open, SetStatus, Rest!AccountRow
<1>8. ASSUME NEW t \in Tellers,
             \/ \E a \in Accounts, d \in Deltas : Mutate(t, a, d)
             \/ ProceedMutation(t) \/ AbortMutation(t)
      PROVE  Stand
  BY <1>1, <1>8 DEF Mutate, ProceedMutation, ReadBalance, UpdateBalance, PostMutation,
     AbortMutation, Stored, tables, dbVars
<1>9. CASE Restart
  BY <1>9 DEF Restart, tables
<1>10. CASE TransferNext
  BY <1>2, <1>4, <1>5, <1>6, <1>10 DEF TransferNext
<1>11. CASE AccountNext
  BY <1>7, <1>8, <1>11 DEF AccountNext
<1> QED
  BY <1>9, <1>10, <1>11 DEF Next

\* Therefore all that are on their way find what they had.
LEMMA BankStands ==
  ASSUME ResetInv, BankStep
  PROVE  Standing
BY TransfersStand, AccountsStand DEF BankStep, Standing

\* A step of the bank gives nobody a row back and takes none away.
LEMMA RowlessStay ==
  ASSUME ResetInv, Standing, NEW w \in Workers, job'[w] = job[w]
  PROVE  Rowless(w)' <=> Rowless(w)
<1>1. Transferring(w)' <=> Transferring(w)
  BY DEF Transferring
<1>2. Transferring(w) => job[w].key \in Keys
  BY Named
<1> QED
  BY <1>1, <1>2 DEF Rowless, Standing

\* Nor does it bring back an account, or remove one.
LEMMA HomelessStay ==
  ASSUME ResetInv, Standing, NEW t \in Tellers, tpc'[t] = tpc[t], tjob'[t] = tjob[t]
  PROVE  Homeless(t)' <=> Homeless(t)
<1>1. CASE Homeless(t)
  BY <1>1 DEF ResetInv, OwnInv, MutationInv, Standing, Homeless
<1>2. CASE ~Homeless(t) /\ tpc[t] = "read"
  <2>1. RestTpc[t] = "read" /\ RestTjob[t] = tjob[t]
    BY <1>2 DEF RestTpc, RestTjob
  <2>2. tjob[t].account \in Accounts /\ accounts[tjob[t].account].status # "ABSENT"
    BY <2>1 DEF ResetInv, Rest!IInv, Rest!TellerInv
  <2> QED
    BY <1>2, <2>2 DEF Standing, Homeless
<1> QED
  BY <1>1, <1>2 DEF Homeless

----------------------------------------------------------------------------
(* One request moves.                                                      *)

\* The step is of one request and writes nobody else's variables.
Alone(w) ==
  /\ Functions'
  /\ \A v \in Workers \ {w} : /\ pc'[v] = pc[v] /\ job'[v] = job[v] /\ tries'[v] = tries[v]
                              /\ resp'[v] = resp[v] /\ snap'[v] = snap[v]
  /\ UNCHANGED accountVars

\* Who has a row, and keeps it, moves among the rest as in the bank.
Follows(w) ==
  /\ RestPc[w] = pc[w] /\ RestJob[w] = job[w] /\ RestTries[w] = tries[w] /\ RestResp[w] = resp[w]
  /\ RestPc' = [RestPc EXCEPT ![w] = pc'[w]] /\ RestJob' = [RestJob EXCEPT ![w] = job'[w]]
  /\ RestTries' = [RestTries EXCEPT ![w] = tries'[w]]
  /\ RestResp' = [RestResp EXCEPT ![w] = resp'[w]]
  /\ job'[w] = job[w] => RestJob' = RestJob
  /\ tries'[w] = tries[w] => RestTries' = RestTries
  /\ resp'[w] = resp[w] => RestResp' = RestResp
  /\ UNCHANGED <<RestTpc, RestTjob, RestTtries, tsnap>>

\* Deposits and withdrawals that do nothing do nothing among the rest.
LEMMA TellersRest ==
  ASSUME ResetInv, Standing, UNCHANGED accountVars
  PROVE  UNCHANGED <<RestTpc, RestTjob, RestTtries, tsnap>>
<1>1. \A t \in Tellers : Homeless(t)' <=> Homeless(t)
  BY HomelessStay DEF accountVars
<1> QED
  BY <1>1 DEF RestTpc, RestTjob, RestTtries, accountVars

\* A step of a request that has its row before and after is seen in the rest.
LEMMA MovesSeen ==
  ASSUME ResetInv, Standing, NEW w \in Workers, Alone(w), ~Rowless(w), ~Rowless(w)'
  PROVE  Follows(w)
<1>1. \A v \in Workers \ {w} : Rowless(v)' <=> Rowless(v)
  BY RowlessStay DEF Alone
<1>2. UNCHANGED <<RestTpc, RestTjob, RestTtries, tsnap>>
  BY TellersRest DEF Alone
<1>3. RestPc[w] = pc[w] /\ RestJob[w] = job[w] /\ RestTries[w] = tries[w] /\ RestResp[w] = resp[w]
  BY DEF RestPc, RestJob, RestTries, RestResp
<1>4. RestPc' = [RestPc EXCEPT ![w] = pc'[w]]
  BY <1>1 DEF RestPc, Alone
<1>5. RestJob' = [RestJob EXCEPT ![w] = job'[w]] /\ (job'[w] = job[w] => RestJob' = RestJob)
  BY <1>1 DEF RestJob, Alone
<1>6. RestTries' = [RestTries EXCEPT ![w] = tries'[w]]
      /\ (tries'[w] = tries[w] => RestTries' = RestTries)
  BY <1>1 DEF RestTries, Alone
<1>7. RestResp' = [RestResp EXCEPT ![w] = resp'[w]] /\ (resp'[w] = resp[w] => RestResp' = RestResp)
  BY <1>1 DEF RestResp, Alone
<1> QED
  BY <1>2, <1>3, <1>4, <1>5, <1>6, <1>7 DEF Follows

\* Who has none, or has not asked, is not seen to move.
LEMMA MovesUnseen ==
  ASSUME ResetInv, Standing, NEW w \in Workers, Alone(w), UNCHANGED <<external, snap>>,
         Rowless(w) \/ pc[w] = "idle", Rowless(w)' \/ pc'[w] = "idle",
         pc'[w] = "idle" => job'[w] = NoJob /\ tries'[w] = 0 /\ resp'[w] = "none",
         UNCHANGED dbVars
  PROVE  UNCHANGED Rest!vars
<1>1. \A v \in Workers \ {w} : Rowless(v)' <=> Rowless(v)
  BY RowlessStay DEF Alone
<1>2. UNCHANGED <<RestTpc, RestTjob, RestTtries, tsnap>>
  BY TellersRest DEF Alone
<1>3. /\ RestPc[w] = "idle" /\ RestJob[w] = NoJob /\ RestTries[w] = 0 /\ RestResp[w] = "none"
      /\ RestPc'[w] = "idle" /\ RestJob'[w] = NoJob /\ RestTries'[w] = 0 /\ RestResp'[w] = "none"
  BY DEF RestPc, RestJob, RestTries, RestResp, ResetInv, OwnInv, RequestInv
<1>4. UNCHANGED <<RestPc, RestJob, RestTries, RestResp>>
  BY <1>1, <1>3 DEF RestPc, RestJob, RestTries, RestResp, Alone
<1> QED
  BY <1>2, <1>4 DEF Rest!vars, Rest!dbVars, Rest!transferVars, Rest!accountVars, dbVars

\* A worker's step writes its own variables only.
LEMMA OneWrites ==
  ASSUME Functions, NEW w \in Workers, UNCHANGED accountVars,
         pc' = pc \/ \E v : pc' = [pc EXCEPT ![w] = v],
         job' = job \/ \E v : job' = [job EXCEPT ![w] = v],
         tries' = tries \/ \E v : tries' = [tries EXCEPT ![w] = v],
         resp' = resp \/ \E v : resp' = [resp EXCEPT ![w] = v],
         snap' = snap \/ \E v : snap' = [snap EXCEPT ![w] = v]
  PROVE  Alone(w)
<1>1. ASSUME NEW f, NEW g, f = [x \in Workers |-> f[x]],
             g = f \/ \E v : g = [f EXCEPT ![w] = v]
      PROVE  g = [x \in Workers |-> g[x]] /\ \A x \in Workers \ {w} : g[x] = f[x]
  BY <1>1
<1>2. pc' = [x \in Workers |-> pc'[x]] /\ \A x \in Workers \ {w} : pc'[x] = pc[x]
  BY <1>1 DEF Functions
<1>3. job' = [x \in Workers |-> job'[x]] /\ \A x \in Workers \ {w} : job'[x] = job[x]
  BY <1>1 DEF Functions
<1>4. tries' = [x \in Workers |-> tries'[x]] /\ \A x \in Workers \ {w} : tries'[x] = tries[x]
  BY <1>1 DEF Functions
<1>5. resp' = [x \in Workers |-> resp'[x]] /\ \A x \in Workers \ {w} : resp'[x] = resp[x]
  BY <1>1 DEF Functions
<1>6. snap' = [x \in Workers |-> snap'[x]] /\ \A x \in Workers \ {w} : snap'[x] = snap[x]
  BY <1>1 DEF Functions
<1>7. /\ tpc' = [t \in Tellers |-> tpc'[t]] /\ tjob' = [t \in Tellers |-> tjob'[t]]
      /\ ttries' = [t \in Tellers |-> ttries'[t]] /\ tsnap' = [t \in Tellers |-> tsnap'[t]]
  BY DEF Functions, accountVars
<1> QED
  BY <1>2, <1>3, <1>4, <1>5, <1>6, <1>7 DEF Alone, Functions

\* Each step of a request is of that one.
LEMMA RequestAlone ==
  ASSUME Functions, NEW w \in Workers, UNCHANGED accountVars,
         Submit(w) \/ Proceed(w) \/ Abort(w) \/ \E k \in Keys : FailBegin(w, k)
  PROVE  Alone(w)
<1>1. CASE Submit(w)
  BY <1>1, OneWrites DEF Submit, RejectInvalid, AcquireNew, AcquireUnknown, AcquireExisting,
     Answer, Goto
<1>2. CASE LockTransfer(w) \/ MarkFailed(w) \/ Book(w) \/ Reverse(w) \/ Deliver(w) \/ Abort(w)
  BY <1>2, OneWrites DEF LockTransfer, MarkFailed, Book, Reverse, Deliver, Abort, Answer, Goto
<1>3. CASE UpdateFirst(w) \/ UpdateSecond(w)
  BY <1>3, OneWrites DEF UpdateFirst, UpdateSecond, UpdateAccount, Conflict, Answer, Goto
<1>4. CASE ReadFirst(w) \/ ReadSecond(w) \/ LockFirst(w) \/ LockSecond(w)
  <2>1. ASSUME NEW a, Snapshot(w, a) PROVE \E v : snap' = [snap EXCEPT ![w] = v]
    BY <2>1 DEF Snapshot
  <2> QED
    BY <1>4, <2>1, OneWrites DEF ReadFirst, ReadSecond, LockFirst, LockSecond, LockAccount,
       Refuse, Goto
<1>5. CASE \E k \in Keys : FailBegin(w, k)
  BY <1>5, OneWrites DEF FailBegin, Goto
<1> QED
  BY <1>1, <1>2, <1>3, <1>4, <1>5 DEF Proceed

\* If it is right about itself, so are the others about theirs.
LEMMA RequestOwn ==
  ASSUME ResetInv, Standing, NEW w \in Workers, Alone(w), UNCHANGED retired, RequestInv(w)'
  PROVE  OwnInv'
<1>1. Functions'
  BY DEF Alone
<1>2. ASSUME NEW v \in Workers \ {w} PROVE RequestInv(v)'
  <2>1. Rowless(v)' <=> Rowless(v)
    BY RowlessStay DEF Alone
  <2> QED
    BY <2>1 DEF Alone, ResetInv, OwnInv, RequestInv
<1>3. ASSUME NEW t \in Tellers PROVE MutationInv(t)'
  <2>1. Homeless(t)' <=> Homeless(t)
    BY HomelessStay DEF Alone, accountVars
  <2> QED
    BY <2>1 DEF Alone, ResetInv, OwnInv, MutationInv, accountVars
<1> QED
  BY <1>1, <1>2, <1>3 DEF OwnInv

----------------------------------------------------------------------------
(* What a request that has its row does, it does among the rest.           *)

\* Its amounts and its accounts are the same there.
LEMMA RestWords ==
  ASSUME NEW w \in Workers, RestJob[w] = job[w]
  PROVE  /\ Rest!FromNew(w) = FromNew(w) /\ Rest!ToNew(w) = ToNew(w)
         /\ Rest!ToBack(w) = ToBack(w) /\ Rest!FromBack(w) = FromBack(w)
         /\ Rest!SnapCurrent(w) <=> SnapCurrent(w)
         /\ Rest!FirstOf(RestJob[w]) = FirstOf(job[w])
         /\ Rest!SecondOf(RestJob[w]) = SecondOf(job[w])
         /\ \A a : Rest!NewBalance(w, a) = NewBalance(w, a)
BY DEF Rest!FromNew, FromNew, Rest!ToNew, ToNew, Rest!ToBack, ToBack, Rest!FromBack, FromBack,
   Rest!SnapCurrent, SnapCurrent, Rest!FirstOf, FirstOf, Rest!SecondOf, SecondOf,
   Rest!InOrder, InOrder, Rest!NewBalance, NewBalance, Rest!Wrap64, Wrap64

\* What is done to the tables and the locks is the same.
LEMMA RestTables ==
  /\ \A s : EndTx(s) => Rest!EndTx(s)
  /\ \A k : Rest!Booked(k) <=> Booked(k)
  /\ \A a : Rest!Unlocked(a) <=> Unlocked(a)
  /\ \A n : Rest!BalanceCheck(n) <=> BalanceCheck(n)
  /\ \A o : Rest!Valid(o) <=> Valid(o)
  /\ \A row, o : Rest!SameOrder(row, o) <=> SameOrder(row, o)
  /\ Rest!Done = Done
  /\ Rest!NoJob = NoJob /\ Rest!NoSnap = NoSnap
  /\ \A kind, k, o : Rest!Job(kind, k, o) = Job(kind, k, o)
BY DEF EndTx, Rest!EndTx, ReleaseAll, Rest!ReleaseAll, Release, Rest!Release, Booked, Rest!Booked,
   Unlocked, Rest!Unlocked, BalanceCheck, Rest!BalanceCheck, Valid, Rest!Valid,
   SameOrder, Rest!SameOrder, Done, Rest!Done, NoJob, Rest!NoJob, NoSnap, Rest!NoSnap,
   Unread, Rest!Unread, Job, Rest!Job

\* Both legs of a movement are posted alike.
LEMMA RestPost ==
  ASSUME NEW d, NEW db, NEW c, NEW cb, NEW n, NEW k, Post(d, db, c, cb, n, k)
  PROVE  Rest!Post(d, db, c, cb, n, k)
BY DEF Post, Rest!Post, Stored, Rest!Stored, Append1, Rest!Append1

\* It gets to the same statements with the same answers.
LEMMA RestMoves ==
  ASSUME Functions, NEW w \in Workers, Follows(w)
  PROVE  /\ \A step : Goto(w, step) => Rest!Goto(w, step)
         /\ \A answer : Answer(w, answer) => Rest!Answer(w, answer)
         /\ \A a : Snapshot(w, a) => Rest!Snapshot(w, a)
         /\ Refuse(w) => Rest!Refuse(w)
<1>1. ASSUME NEW step, Goto(w, step) PROVE Rest!Goto(w, step)
  <2>1. pc'[w] = step
    BY <1>1 DEF Goto, Functions
  <2> QED
    BY <2>1 DEF Follows, Rest!Goto
<1>2. ASSUME NEW answer, Answer(w, answer) PROVE Rest!Answer(w, answer)
  <2>1. resp'[w] = answer
    BY <1>2 DEF Answer, Functions
  <2>2. Rest!Goto(w, "done")
    BY <1>1, <1>2 DEF Answer
  <2>3. RestResp' = [RestResp EXCEPT ![w] = answer]
    BY <2>1 DEF Follows
  <2> QED
    BY <1>2, <2>2, <2>3, RestTables DEF Answer, Rest!Answer
<1>3. ASSUME NEW a, Snapshot(w, a) PROVE Rest!Snapshot(w, a)
  BY <1>3 DEF Snapshot, Rest!Snapshot
<1>4. ASSUME Refuse(w) PROVE Rest!Refuse(w)
  BY <1>1, <1>4, RestTables DEF Refuse, Rest!Refuse
<1> QED
  BY <1>1, <1>2, <1>3, <1>4

\* A conflict of versions uses up a try, or is the answer.
LEMMA RestConflict ==
  ASSUME Functions, NEW w \in Workers, Follows(w), Conflict(w)
  PROVE  Rest!Conflict(w)
<1>1. RestTries[w] = tries[w] /\ (UNCHANGED resp => UNCHANGED RestResp)
      /\ (UNCHANGED tries => UNCHANGED RestTries)
  BY DEF Follows
<1>2. CASE Answer(w, "CONFLICT") /\ tries[w] + 1 = MaxRetries /\ UNCHANGED tries
  BY <1>1, <1>2, RestTables, RestMoves DEF Conflict, Rest!Conflict
<1>3. CASE /\ tries[w] + 1 < MaxRetries /\ tries' = [tries EXCEPT ![w] = @ + 1]
           /\ Goto(w, "begin") /\ snap' = [snap EXCEPT ![w] = NoSnap] /\ UNCHANGED resp
  <2>1. tries'[w] = tries[w] + 1
    BY <1>3 DEF Functions
  <2>2. RestTries' = [RestTries EXCEPT ![w] = @ + 1]
    BY <1>1, <2>1 DEF Follows
  <2> QED
    BY <1>1, <1>3, <2>2, RestTables, RestMoves DEF Conflict, Rest!Conflict
<1> QED
  BY <1>2, <1>3 DEF Conflict

\* Each statement of such a request is the same statement there.
LEMMA RestUpdate ==
  ASSUME Functions, NEW w \in Workers, Follows(w), NEW at, NEW a, NEW new, NEW next,
         UpdateAccount(w, at, a, new, next)
  PROVE  Rest!UpdateAccount(w, at, a, new, next)
<1>1. /\ RestPc[w] = at /\ UNCHANGED RestJob
      /\ (UNCHANGED resp => UNCHANGED RestResp) /\ (UNCHANGED tries => UNCHANGED RestTries)
      /\ UNCHANGED <<tables, external>> /\ Unlocked(a)
  BY DEF UpdateAccount, Follows
<1>2. UNCHANGED <<Rest!tables, external>> /\ Rest!Unlocked(a)
  BY <1>1, RestTables DEF Rest!tables, tables
<1>3. CASE /\ accounts[a].version = snap[w][a].version /\ BalanceCheck(new)
           /\ accountLock' = [accountLock EXCEPT ![a] = w]
           /\ Goto(w, next) /\ UNCHANGED <<transferLock, tries, snap, resp>>
  <2>1. Rest!Goto(w, next) /\ Rest!BalanceCheck(new) /\ UNCHANGED <<RestTries, RestResp>>
    BY <1>1, <1>3, RestTables, RestMoves
  <2> QED
    BY <1>1, <1>2, <1>3, <2>1 DEF Rest!UpdateAccount
<1>4. CASE /\ accounts[a].version = snap[w][a].version /\ ~BalanceCheck(new)
           /\ EndTx(w) /\ Answer(w, "ERROR") /\ UNCHANGED tries
  <2>1. Rest!EndTx(w) /\ Rest!Answer(w, "ERROR") /\ ~Rest!BalanceCheck(new) /\ UNCHANGED RestTries
    BY <1>1, <1>4, RestTables, RestMoves
  <2> QED
    BY <1>1, <1>2, <1>4, <2>1 DEF Rest!UpdateAccount
<1>5. CASE accounts[a].version # snap[w][a].version /\ Conflict(w)
  BY <1>1, <1>2, <1>5, RestConflict DEF Rest!UpdateAccount
<1> QED
  BY <1>3, <1>4, <1>5 DEF UpdateAccount

\* Each statement of a booking or a reversal is one of the rest.
LEMMA RestStatement ==
  ASSUME Functions, NEW w \in Workers, Follows(w)
  PROVE  /\ ReadFirst(w) => Rest!ReadFirst(w)
         /\ ReadSecond(w) => Rest!ReadSecond(w)
         /\ UpdateFirst(w) => Rest!UpdateFirst(w)
         /\ UpdateSecond(w) => Rest!UpdateSecond(w)
         /\ LockFirst(w) => Rest!LockFirst(w)
         /\ LockSecond(w) => Rest!LockSecond(w)
<1>1. RestPc[w] = pc[w] /\ RestJob[w] = job[w]
      /\ (UNCHANGED job => UNCHANGED RestJob)
      /\ (UNCHANGED resp => UNCHANGED RestResp) /\ (UNCHANGED tries => UNCHANGED RestTries)
      /\ (UNCHANGED tables => UNCHANGED Rest!tables)
  BY DEF Follows, tables, Rest!tables
<1>2. ASSUME ReadFirst(w) PROVE Rest!ReadFirst(w)
  BY <1>1, <1>2, RestWords, RestMoves DEF ReadFirst, Rest!ReadFirst
<1>3. ASSUME ReadSecond(w) PROVE Rest!ReadSecond(w)
  BY <1>1, <1>3, RestWords, RestMoves DEF ReadSecond, Rest!ReadSecond
<1>4. ASSUME UpdateFirst(w) PROVE Rest!UpdateFirst(w)
  BY <1>1, <1>4, RestWords, RestUpdate DEF UpdateFirst, Rest!UpdateFirst
<1>5. ASSUME UpdateSecond(w) PROVE Rest!UpdateSecond(w)
  BY <1>1, <1>5, RestWords, RestUpdate DEF UpdateSecond, Rest!UpdateSecond
<1>6. ASSUME NEW at, NEW a, NEW next, LockAccount(w, at, a, next)
      PROVE  Rest!LockAccount(w, at, a, next)
  BY <1>1, <1>6, RestTables, RestMoves DEF LockAccount, Rest!LockAccount
<1>7. LockFirst(w) => Rest!LockFirst(w)
  BY <1>1, <1>6, RestWords DEF LockFirst, Rest!LockFirst
<1>8. LockSecond(w) => Rest!LockSecond(w)
  BY <1>1, <1>6, RestWords DEF LockSecond, Rest!LockSecond
<1> QED
  BY <1>2, <1>3, <1>4, <1>5, <1>7, <1>8

\* And each commit, each end.
LEMMA RestEnd ==
  ASSUME Functions, NEW w \in Workers, Follows(w)
  PROVE  /\ LockTransfer(w) => Rest!LockTransfer(w)
         /\ Book(w) => Rest!Book(w)
         /\ MarkFailed(w) => Rest!MarkFailed(w)
         /\ Reverse(w) => Rest!Reverse(w)
         /\ Abort(w) => Rest!Abort(w)
         /\ Deliver(w) => Rest!Deliver(w)
<1>1. RestPc[w] = pc[w] /\ RestJob[w] = job[w]
      /\ (UNCHANGED job => UNCHANGED RestJob)
      /\ (UNCHANGED resp => UNCHANGED RestResp) /\ (UNCHANGED tries => UNCHANGED RestTries)
      /\ (UNCHANGED tables => UNCHANGED Rest!tables)
  BY DEF Follows, tables, Rest!tables
<1>2. ASSUME LockTransfer(w) PROVE Rest!LockTransfer(w)
  BY <1>1, <1>2, RestTables, RestMoves DEF LockTransfer, Rest!LockTransfer
<1>3. ASSUME Book(w) PROVE Rest!Book(w)
  BY <1>1, <1>3, RestWords, RestTables, RestMoves, RestPost DEF Book, Rest!Book
<1>4. ASSUME MarkFailed(w) PROVE Rest!MarkFailed(w)
  BY <1>1, <1>4, RestMoves DEF MarkFailed, Rest!MarkFailed
<1>5. ASSUME Reverse(w) PROVE Rest!Reverse(w)
  BY <1>1, <1>5, RestWords, RestTables, RestMoves, RestPost DEF Reverse, Rest!Reverse
<1>6. ASSUME Abort(w) PROVE Rest!Abort(w)
  BY <1>1, <1>6, RestTables, RestMoves DEF Abort, Rest!Abort, InTx, Rest!InTx
<1>7. ASSUME Deliver(w) PROVE Rest!Deliver(w)
  <2>1. job'[w] = NoJob /\ tries'[w] = 0 /\ resp'[w] = "none"
    BY <1>7 DEF Deliver, Functions
  <2>2. /\ RestJob' = [RestJob EXCEPT ![w] = Rest!NoJob]
        /\ RestTries' = [RestTries EXCEPT ![w] = 0]
        /\ RestResp' = [RestResp EXCEPT ![w] = "none"]
    BY <2>1, RestTables DEF Follows
  <2>3. UNCHANGED <<Rest!dbVars, external, snap>>
    BY <1>7 DEF Deliver, dbVars, Rest!dbVars
  <2> QED
    BY <1>1, <1>7, <2>2, <2>3, RestMoves DEF Deliver, Rest!Deliver
<1> QED
  BY <1>2, <1>3, <1>4, <1>5, <1>6, <1>7

\* And each arrival: a key that is new to the bank is new to the rest of it.
LEMMA RestArrives ==
  ASSUME Functions, NEW w \in Workers, Follows(w), NEW k \in Keys
  PROVE  /\ \A o \in Orders : /\ RejectInvalid(w, k, o) => Rest!RejectInvalid(w, k, o)
                              /\ AcquireNew(w, k, o) => Rest!AcquireNew(w, k, o)
                              /\ AcquireExisting(w, k, o) => Rest!AcquireExisting(w, k, o)
         /\ FailBegin(w, k) => Rest!FailBegin(w, k)
<1>1. RestPc[w] = pc[w]
      /\ (UNCHANGED resp => UNCHANGED RestResp) /\ (UNCHANGED tries => UNCHANGED RestTries)
      /\ (UNCHANGED tables => UNCHANGED Rest!tables) /\ (UNCHANGED dbVars => UNCHANGED Rest!dbVars)
  BY DEF Follows, tables, Rest!tables, dbVars, Rest!dbVars
<1>2. Fresh(w, k) => Rest!Fresh(w, k)
  <2>1. \A v \in Workers : RestJob[v].kind = "transfer" => RestJob[v] = job[v]
    BY DEF RestJob, NoJob
  <2> QED
    BY <1>1, <2>1 DEF Fresh, Rest!Fresh
<1>3. \A a : Rest!ForUpdate(a) => ForUpdate(a)
  <2>1. \A v \in Workers : RestJob[v].kind = "fail" => RestJob[v] = job[v]
    BY DEF RestJob, NoJob
  <2> QED
    BY <2>1 DEF ForUpdate, Rest!ForUpdate
<1>4. ASSUME NEW j, job' = [job EXCEPT ![w] = j] PROVE RestJob' = [RestJob EXCEPT ![w] = j]
  <2>1. job'[w] = j
    BY <1>4 DEF Functions
  <2> QED
    BY <2>1 DEF Follows
<1>5. ASSUME NEW o \in Orders, RejectInvalid(w, k, o) PROVE Rest!RejectInvalid(w, k, o)
  BY <1>1, <1>2, <1>4, <1>5, RestTables, RestMoves DEF RejectInvalid, Rest!RejectInvalid
<1>6. ASSUME NEW o \in Orders, AcquireNew(w, k, o) PROVE Rest!AcquireNew(w, k, o)
  BY <1>1, <1>2, <1>3, <1>4, <1>6, RestTables, RestMoves DEF AcquireNew, Rest!AcquireNew
<1>7. ASSUME NEW o \in Orders, AcquireExisting(w, k, o) PROVE Rest!AcquireExisting(w, k, o)
  <2>1. RestJob' = [RestJob EXCEPT ![w] = Rest!Job("transfer", k, o)]
    BY <1>4, <1>7, RestTables DEF AcquireExisting
  <2>2. UNCHANGED <<Rest!dbVars, external, RestTries>> /\ Rest!Fresh(w, k) /\ Rest!Valid(o)
    BY <1>1, <1>2, <1>7, RestTables DEF AcquireExisting
  <2>3. CASE UNCHANGED <<snap, resp>>
    BY <1>1, <1>7, <2>1, <2>2, <2>3, RestTables, RestMoves DEF AcquireExisting, Rest!AcquireExisting
  <2>4. CASE ~UNCHANGED <<snap, resp>>
    BY <1>7, <2>1, <2>2, <2>4, RestTables, RestMoves DEF AcquireExisting, Rest!AcquireExisting
  <2> QED
    BY <2>3, <2>4
<1>8. ASSUME FailBegin(w, k) PROVE Rest!FailBegin(w, k)
  BY <1>1, <1>4, <1>8, RestTables, RestMoves DEF FailBegin, Rest!FailBegin
<1> QED
  BY <1>5, <1>6, <1>7, <1>8

----------------------------------------------------------------------------
(* The steps of the transfer service, seen from the rest.                  *)

\* A step of a request that keeps its row is a step of the rest.
LEMMA SeenStep ==
  ASSUME ResetInv, Standing, NEW w \in Workers, UNCHANGED <<accountVars, retired>>,
         Submit(w) \/ Proceed(w) \/ Abort(w) \/ \E k \in Keys : FailBegin(w, k),
         ~Rowless(w), ~Rowless(w)', ~\E k \in Keys, o \in Orders : AcquireUnknown(w, k, o)
  PROVE  Rest!Next
<1>1. Functions /\ Follows(w)
  BY RequestAlone, MovesSeen DEF ResetInv, OwnInv
<1>2. Submit(w) => Rest!Submit(w)
  BY <1>1, RestArrives DEF Submit, Rest!Submit
<1>3. Proceed(w) => Rest!Proceed(w)
  BY <1>1, RestStatement, RestEnd DEF Proceed, Rest!Proceed
<1>4. Abort(w) => Rest!Abort(w)
  BY <1>1, RestEnd
<1>5. \A k \in Keys : FailBegin(w, k) => Rest!FailBegin(w, k)
  BY <1>1, RestArrives
<1>6. UNCHANGED Rest!accountVars
  BY <1>1 DEF Follows, Rest!accountVars
<1>7. Rest!TransferNext
  BY <1>2, <1>3, <1>4, <1>5 DEF Rest!TransferNext
<1> QED
  BY <1>6, <1>7 DEF Rest!Next

\* The two things that may happen to a request are told apart by its row.
LEMMA RequestStep ==
  ASSUME ResetInv, Standing, NEW w \in Workers, UNCHANGED <<accountVars, retired>>,
         Submit(w) \/ Proceed(w) \/ Abort(w) \/ \E k \in Keys : FailBegin(w, k),
         RequestInv(w)',
         \/ /\ ~Rowless(w) /\ ~Rowless(w)'
            /\ ~\E k \in Keys, o \in Orders : AcquireUnknown(w, k, o)
         \/ /\ Rowless(w) \/ pc[w] = "idle"
            /\ Rowless(w)' \/ pc'[w] = "idle"
            /\ UNCHANGED <<dbVars, external>> /\ snap'[w] = NoSnap
  PROVE  [Rest!Next]_(Rest!vars) /\ OwnInv'
<1>1. Alone(w) /\ OwnInv'
  BY RequestAlone, RequestOwn DEF ResetInv, OwnInv
<1>2. CASE /\ ~Rowless(w) /\ ~Rowless(w)'
           /\ ~\E k \in Keys, o \in Orders : AcquireUnknown(w, k, o)
  BY <1>1, <1>2, SeenStep
<1>3. CASE /\ Rowless(w) \/ pc[w] = "idle"
           /\ Rowless(w)' \/ pc'[w] = "idle"
           /\ UNCHANGED <<dbVars, external>> /\ snap'[w] = NoSnap
  <2>1. snap[w] = NoSnap
    BY <1>3 DEF ResetInv, OwnInv, RequestInv, InTx
  <2>2. UNCHANGED snap
    BY <1>1, <1>3, <2>1 DEF Alone, Functions, ResetInv, OwnInv
  <2>3. pc'[w] = "idle" => job'[w] = NoJob /\ tries'[w] = 0 /\ resp'[w] = "none"
    BY DEF RequestInv
  <2>4. UNCHANGED Rest!vars
    BY <1>1, <1>3, <2>2, <2>3, MovesUnseen
  <2> QED
    BY <1>1, <2>4
<1> QED
  BY <1>2, <1>3

\* An answer is all there is to know of its request.
LEMMA AnswerOwn ==
  ASSUME Functions, NEW w \in Workers, NEW answer, Answer(w, answer),
         Rowless(w)' => job'[w].key \in Keys
  PROVE  RequestInv(w)' /\ snap'[w] = NoSnap /\ pc'[w] = "done"
<1>1. pc'[w] = "done" /\ snap'[w] = NoSnap
  BY DEF Answer, Goto, Functions
<1> QED
  BY <1>1 DEF RequestInv

\* A transaction goes on, or comes to an end; its row is there to the last.
LEMMA TransactionRests ==
  ASSUME ResetInv, Standing, NEW w \in Workers, UNCHANGED <<accountVars, retired>>,
         pc[w] \in InTx, Proceed(w) \/ Abort(w)
  PROVE  [Rest!Next]_(Rest!vars) /\ OwnInv'
<1>1. ~Rowless(w) /\ Functions
  BY InTxHasRow DEF ResetInv, OwnInv
<1>2. UNCHANGED job /\ ~\E k \in Keys, o \in Orders : AcquireUnknown(w, k, o)
  BY DEF Proceed, LockTransfer, ReadFirst, ReadSecond, UpdateFirst, UpdateSecond, UpdateAccount,
     Book, MarkFailed, LockFirst, LockSecond, LockAccount, Reverse, Deliver, Abort,
     AcquireUnknown, Fresh, InTx
<1>3. ~Rowless(w)'
  BY <1>1, <1>2, RowlessStay
<1>4. /\ pc'[w] # "idle"
      /\ pc'[w] \notin InTx => snap'[w] = NoSnap
  <2>1. CASE Book(w) \/ Reverse(w) \/ Abort(w)
    BY <1>1, <2>1 DEF Book, Reverse, Abort, Answer, Goto, Functions
  <2>2. CASE UpdateFirst(w) \/ UpdateSecond(w)
    BY <1>1, <2>2 DEF UpdateFirst, UpdateSecond, UpdateAccount, Conflict, Answer, Goto, Functions,
       InTx
  <2>3. CASE ReadFirst(w) \/ ReadSecond(w) \/ LockFirst(w) \/ LockSecond(w)
    BY <1>1, <2>3 DEF ReadFirst, ReadSecond, LockFirst, LockSecond, LockAccount, Refuse, Goto,
       Functions, InTx
  <2> QED
    BY <2>1, <2>2, <2>3 DEF Proceed, LockTransfer, MarkFailed, Deliver, InTx
<1>5. RequestInv(w)'
  BY <1>3, <1>4 DEF RequestInv
<1> QED
  BY <1>1, <1>2, <1>3, <1>5, RequestStep

\* Outside a transaction nothing is locked, and its end frees nothing.
LEMMA NothingToFree ==
  ASSUME ResetInv, NEW w \in Workers, Rowless(w), EndTx(w)
  PROVE  UNCHANGED <<accountLock, transferLock>>
<1>1. RestPc[w] = "idle"
  BY DEF RestPc
<1>2. Rest!WorkerHolds(w)
  BY DEF ResetInv, Rest!HoldersInv
<1>3. /\ \A a \in Accounts : accountLock[a] # w
      /\ \A k \in Keys : transferLock[k] # w
  BY <1>1, <1>2 DEF Rest!WorkerHolds, Rest!InTx
<1>4. accountLock \in [Accounts -> Rest!Null2(Sessions)] /\ transferLock \in [Keys -> Rest!Null2(Sessions)]
  BY DEF ResetInv, Rest!IInv, Rest!TypeOK, Rest!DBTypeOK
<1> QED
  BY <1>3, <1>4 DEF EndTx, ReleaseAll, Release

\* A request before its transaction, or after it: refused for want of its row,
\* marked, answered.
LEMMA OutsideRests ==
  ASSUME ResetInv, Standing, NEW w \in Workers, UNCHANGED <<accountVars, retired>>,
         pc[w] \in {"begin", "mark"}, Proceed(w) \/ Abort(w)
  PROVE  [Rest!Next]_(Rest!vars) /\ OwnInv'
<1>1. /\ Functions /\ UNCHANGED <<job, external>>
      /\ LockTransfer(w) \/ MarkFailed(w) \/ Abort(w)
      /\ ~\E k \in Keys, o \in Orders : AcquireUnknown(w, k, o)
  BY DEF ResetInv, OwnInv, Proceed, LockTransfer, ReadFirst, ReadSecond, UpdateFirst,
     UpdateSecond, UpdateAccount, Book, MarkFailed, LockFirst, LockSecond, LockAccount, Reverse,
     Deliver, Abort, AcquireUnknown, Fresh
<1>2. (Rowless(w)' <=> Rowless(w)) /\ (Rowless(w) => job[w].key \in Keys)
  BY <1>1, RowlessStay, Named DEF Rowless
<1>3. snap[w] = NoSnap
  BY DEF ResetInv, OwnInv, RequestInv, InTx
<1>4. CASE Rowless(w)
  <2>1. transfers[job[w].key] = Null
    BY <1>4 DEF Rowless
  <2>2. \E answer : Answer(w, answer)
    BY <1>1, <2>1 DEF LockTransfer, MarkFailed, Abort
  <2>3. RequestInv(w)' /\ snap'[w] = NoSnap
    BY <1>1, <1>2, <2>2, AnswerOwn
  <2>4. UNCHANGED dbVars
    BY <1>1, <1>4, <2>1, NothingToFree DEF LockTransfer, MarkFailed, Abort, tables, dbVars
  <2> QED
    BY <1>1, <1>2, <1>4, <2>3, <2>4, RequestStep
<1>5. CASE ~Rowless(w)
  <2>1. /\ pc'[w] # "idle"
        /\ pc'[w] \notin InTx => snap'[w] = NoSnap
    BY <1>1, <1>3 DEF LockTransfer, MarkFailed, Abort, Answer, Goto, Functions, InTx
  <2>2. RequestInv(w)'
    BY <1>2, <1>5, <2>1 DEF RequestInv
  <2> QED
    BY <1>1, <1>2, <1>5, <2>2, RequestStep
<1> QED
  BY <1>4, <1>5

\* An answer is told among the rest, or to nobody of it.
LEMMA DeliverRests ==
  ASSUME ResetInv, Standing, NEW w \in Workers, UNCHANGED <<accountVars, retired>>, Deliver(w)
  PROVE  [Rest!Next]_(Rest!vars) /\ OwnInv'
<1>1. /\ pc'[w] = "idle" /\ job'[w] = NoJob /\ tries'[w] = 0 /\ resp'[w] = "none"
      /\ UNCHANGED <<dbVars, external, snap>> /\ pc[w] = "done" /\ Proceed(w)
      /\ ~\E k \in Keys, o \in Orders : AcquireUnknown(w, k, o)
  BY DEF Deliver, Goto, ResetInv, OwnInv, Functions, Proceed, AcquireUnknown, Fresh
<1>2. ~Rowless(w)'
  BY <1>1 DEF Rowless, Transferring, NoJob
<1>3. snap'[w] = NoSnap
  BY <1>1 DEF ResetInv, OwnInv, RequestInv, InTx
<1>4. RequestInv(w)'
  BY <1>1, <1>2, <1>3 DEF RequestInv
<1> QED
  BY <1>1, <1>2, <1>3, <1>4, RequestStep

\* A request that arrives: it is among the rest if it gets a row, or finds one.
LEMMA ArrivalRests ==
  ASSUME ResetInv, Standing, NEW w \in Workers, UNCHANGED <<accountVars, retired>>,
         NEW k \in Keys,
         \/ FailBegin(w, k)
         \/ \E o \in Orders : \/ RejectInvalid(w, k, o) \/ AcquireUnknown(w, k, o)
                              \/ AcquireNew(w, k, o) \/ AcquireExisting(w, k, o)
  PROVE  [Rest!Next]_(Rest!vars) /\ OwnInv'
<1>1. Functions /\ pc[w] = "idle" /\ snap[w] = NoSnap /\ ~Rowless(w)
  BY DEF FailBegin, RejectInvalid, AcquireUnknown, AcquireNew, AcquireExisting, Fresh, ResetInv,
     OwnInv, RequestInv, InTx, Rowless, Transferring, NoJob
<1>2. FailBegin(w, k) \/ Submit(w)
  BY DEF Submit
<1>3. CASE FailBegin(w, k)
  <2>1. job'[w].kind = "fail" /\ pc'[w] = "lock1" /\ ~\E l \in Keys, o \in Orders : AcquireUnknown(w, l, o)
    BY <1>1, <1>3 DEF FailBegin, Job, Goto, Functions, AcquireUnknown, Answer
  <2>2. ~Rowless(w)'
    BY <2>1 DEF Rowless, Transferring
  <2>3. RequestInv(w)'
    BY <2>1, <2>2 DEF RequestInv, InTx
  <2> QED
    BY <1>1, <1>3, <2>1, <2>2, <2>3, RequestStep
<1>4. ASSUME NEW o \in Orders,
             \/ RejectInvalid(w, k, o) \/ AcquireUnknown(w, k, o)
             \/ AcquireNew(w, k, o) \/ AcquireExisting(w, k, o)
      PROVE  [Rest!Next]_(Rest!vars) /\ OwnInv'
  <2>1. job'[w].kind = "transfer" /\ job'[w].key = k
    BY <1>1, <1>4 DEF RejectInvalid, AcquireUnknown, AcquireNew, AcquireExisting, Job, Functions
  <2>2. Rowless(w)' <=> transfers'[k] = Null
    BY <2>1 DEF Rowless, Transferring
  <2>3. RequestInv(w)'
    <3>1. ASSUME NEW answer, Answer(w, answer) PROVE RequestInv(w)'
      BY <1>1, <2>1, <3>1, AnswerOwn
    <3>2. ASSUME Goto(w, "begin"), UNCHANGED snap PROVE RequestInv(w)'
      BY <1>1, <2>1, <3>2 DEF RequestInv, Goto, Functions, InTx
    <3>3. AcquireNew(w, k, o) => Goto(w, "begin") /\ UNCHANGED snap
      BY DEF AcquireNew
    <3>4. AcquireExisting(w, k, o) =>
            (\E answer : Answer(w, answer)) \/ (Goto(w, "begin") /\ UNCHANGED snap)
      BY DEF AcquireExisting
    <3>5. RejectInvalid(w, k, o) \/ AcquireUnknown(w, k, o) => \E answer : Answer(w, answer)
      BY DEF RejectInvalid, AcquireUnknown
    <3> QED
      BY <1>4, <3>1, <3>2, <3>3, <3>4, <3>5
  <2>4. CASE transfers'[k] = Null
    <3>1. UNCHANGED <<dbVars, external>> /\ (RejectInvalid(w, k, o) \/ AcquireUnknown(w, k, o))
      <4>1. ~AcquireExisting(w, k, o)
        BY <2>4 DEF AcquireExisting, dbVars
      <4>2. ~AcquireNew(w, k, o)
        <5>1. transfers \in [Keys -> Rest!Null2(Rest!TransferRow)]
          BY DEF ResetInv, Rest!IInv, Rest!TypeOK, Rest!DBTypeOK
        <5>2. ASSUME AcquireNew(w, k, o)
              PROVE  [from |-> o.from, to |-> o.to, amount |-> o.amount, status |-> "PENDING"]
                       \in TransferRow
          BY <5>2, TransferAssumption, DBAssumption
          DEF AcquireNew, Valid, TransferRow, TransferStatus, TransferAssumption, Cents, DBAssumption
        <5> QED
          BY <2>4, <5>1, <5>2, DBAssumption DEF AcquireNew, DBAssumption
      <4> QED
        BY <1>4, <4>1, <4>2 DEF RejectInvalid, AcquireUnknown
    <3>2. snap'[w] = NoSnap
      BY <1>1, <2>1, <3>1, AnswerOwn DEF RejectInvalid, AcquireUnknown
    <3> QED
      BY <1>1, <1>2, <1>4, <2>2, <2>3, <2>4, <3>1, <3>2, RequestStep DEF Submit
  <2>5. CASE transfers'[k] # Null
    <3>1. ~\E l \in Keys, p \in Orders : AcquireUnknown(w, l, p)
      <4>1. SUFFICES ASSUME NEW l \in Keys, NEW p \in Orders, AcquireUnknown(w, l, p) PROVE FALSE
        OBVIOUS
      <4>2. job'[w].key = l /\ transfers'[l] = Null
        BY <1>1, <4>1 DEF AcquireUnknown, dbVars, Job, Functions
      <4> QED
        BY <2>1, <2>5, <4>2
    <3> QED
      BY <1>1, <1>2, <1>4, <2>2, <2>3, <2>5, <3>1, RequestStep DEF Submit
  <2> QED
    BY <2>4, <2>5
<1> QED
  BY <1>3, <1>4

----------------------------------------------------------------------------
(* The steps of the account service, seen from the rest.                   *)

\* The requests stay as they are, among the rest too.
LEMMA RequestsRest ==
  ASSUME ResetInv, Standing, UNCHANGED transferVars
  PROVE  UNCHANGED Rest!transferVars /\ \A w \in Workers : RequestInv(w)'
<1>1. \A w \in Workers : Rowless(w)' <=> Rowless(w)
  BY RowlessStay DEF transferVars
<1>2. UNCHANGED Rest!transferVars
  BY <1>1 DEF RestPc, RestJob, RestTries, RestResp, transferVars, Rest!transferVars
<1>3. ASSUME NEW w \in Workers PROVE RequestInv(w)'
  <2>1. RequestInv(w) /\ (Rowless(w)' <=> Rowless(w))
    BY <1>1 DEF ResetInv, OwnInv
  <2> QED
    BY <2>1 DEF RequestInv, transferVars
<1> QED
  BY <1>2, <1>3

\* The step is of one deposit or withdrawal.
AloneMutation(t) ==
  /\ Functions'
  /\ \A u \in Tellers \ {t} : /\ tpc'[u] = tpc[u] /\ tjob'[u] = tjob[u]
                              /\ ttries'[u] = ttries[u] /\ tsnap'[u] = tsnap[u]
  /\ UNCHANGED transferVars

\* One whose account is there moves among the rest as in the bank.
FollowsMutation(t) ==
  /\ RestTpc[t] = tpc[t] /\ RestTjob[t] = tjob[t] /\ RestTtries[t] = ttries[t]
  /\ RestTpc' = [RestTpc EXCEPT ![t] = tpc'[t]] /\ RestTjob' = [RestTjob EXCEPT ![t] = tjob'[t]]
  /\ RestTtries' = [RestTtries EXCEPT ![t] = ttries'[t]]
  /\ tjob'[t] = tjob[t] => RestTjob' = RestTjob
  /\ ttries'[t] = ttries[t] => RestTtries' = RestTtries
  /\ UNCHANGED Rest!transferVars

MutationSteps(t) ==
  \/ \E a \in Accounts, d \in Deltas : Mutate(t, a, d)
  \/ ProceedMutation(t) \/ AbortMutation(t)

\* A statement of a deposit or withdrawal writes its own variables only.
LEMMA MutationAlone ==
  ASSUME Functions, NEW t \in Tellers, MutationSteps(t), UNCHANGED transferVars
  PROVE  AloneMutation(t)
<1>1. ASSUME NEW f, NEW g, f = [x \in Tellers |-> f[x]],
             g = f \/ \E v : g = [f EXCEPT ![t] = v]
      PROVE  g = [x \in Tellers |-> g[x]] /\ \A x \in Tellers \ {t} : g[x] = f[x]
  BY <1>1
<1>2. /\ tpc' = tpc \/ \E v : tpc' = [tpc EXCEPT ![t] = v]
      /\ tjob' = tjob \/ \E v : tjob' = [tjob EXCEPT ![t] = v]
      /\ ttries' = ttries \/ \E v : ttries' = [ttries EXCEPT ![t] = v]
      /\ tsnap' = tsnap \/ \E v : tsnap' = [tsnap EXCEPT ![t] = v]
  <2>1. CASE \E a \in Accounts, d \in Deltas : Mutate(t, a, d)
    BY <2>1 DEF Mutate, TGoto
  <2>2. CASE ReadBalance(t) \/ UpdateBalance(t)
    BY <2>2 DEF ReadBalance, UpdateBalance, Finish, TGoto
  <2>3. CASE PostMutation(t) \/ AbortMutation(t)
    BY <2>3 DEF PostMutation, AbortMutation, Finish, TGoto
  <2> QED
    BY <2>1, <2>2, <2>3 DEF MutationSteps, ProceedMutation
<1>3. tpc' = [x \in Tellers |-> tpc'[x]] /\ \A x \in Tellers \ {t} : tpc'[x] = tpc[x]
  BY <1>1, <1>2 DEF Functions
<1>4. tjob' = [x \in Tellers |-> tjob'[x]] /\ \A x \in Tellers \ {t} : tjob'[x] = tjob[x]
  BY <1>1, <1>2 DEF Functions
<1>5. ttries' = [x \in Tellers |-> ttries'[x]] /\ \A x \in Tellers \ {t} : ttries'[x] = ttries[x]
  BY <1>1, <1>2 DEF Functions
<1>6. tsnap' = [x \in Tellers |-> tsnap'[x]] /\ \A x \in Tellers \ {t} : tsnap'[x] = tsnap[x]
  BY <1>1, <1>2 DEF Functions
<1>7. /\ pc' = [w \in Workers |-> pc'[w]] /\ job' = [w \in Workers |-> job'[w]]
      /\ tries' = [w \in Workers |-> tries'[w]] /\ resp' = [w \in Workers |-> resp'[w]]
      /\ snap' = [w \in Workers |-> snap'[w]]
  BY DEF Functions, transferVars
<1> QED
  BY <1>3, <1>4, <1>5, <1>6, <1>7 DEF AloneMutation, Functions

\* The others keep their accounts, and what is known of them.
LEMMA OtherMutations ==
  ASSUME ResetInv, Standing, NEW t \in Tellers, AloneMutation(t), UNCHANGED retired
  PROVE  /\ \A u \in Tellers \ {t} : Homeless(u)' <=> Homeless(u)
         /\ MutationInv(t)' => OwnInv'
<1>1. \A u \in Tellers \ {t} : Homeless(u)' <=> Homeless(u)
  BY HomelessStay DEF AloneMutation
<1>2. ASSUME NEW u \in Tellers \ {t} PROVE MutationInv(u)'
  <2>1. MutationInv(u) /\ (Homeless(u)' <=> Homeless(u))
    BY <1>1 DEF ResetInv, OwnInv
  <2> QED
    BY <2>1 DEF MutationInv, AloneMutation
<1>3. \A w \in Workers : RequestInv(w)'
  BY RequestsRest DEF AloneMutation
<1> QED
  BY <1>1, <1>2, <1>3 DEF OwnInv, AloneMutation

\* A step of a mutation whose account is there is seen in the rest.
LEMMA MutationSeen ==
  ASSUME ResetInv, Standing, NEW t \in Tellers, AloneMutation(t), UNCHANGED retired,
         ~Homeless(t), ~Homeless(t)'
  PROVE  FollowsMutation(t)
<1>1. \A u \in Tellers \ {t} : Homeless(u)' <=> Homeless(u)
  BY OtherMutations
<1>2. RestTpc[t] = tpc[t] /\ RestTjob[t] = tjob[t] /\ RestTtries[t] = ttries[t]
  BY DEF RestTpc, RestTjob, RestTtries
<1>3. RestTpc' = [RestTpc EXCEPT ![t] = tpc'[t]]
  BY <1>1 DEF RestTpc, AloneMutation
<1>4. RestTjob' = [RestTjob EXCEPT ![t] = tjob'[t]]
      /\ (tjob'[t] = tjob[t] => RestTjob' = RestTjob)
  BY <1>1 DEF RestTjob, AloneMutation
<1>5. RestTtries' = [RestTtries EXCEPT ![t] = ttries'[t]]
      /\ (ttries'[t] = ttries[t] => RestTtries' = RestTtries)
  BY <1>1 DEF RestTtries, AloneMutation
<1>6. UNCHANGED Rest!transferVars
  BY RequestsRest DEF AloneMutation
<1> QED
  BY <1>2, <1>3, <1>4, <1>5, <1>6 DEF FollowsMutation

\* What such a one does, it does among the rest.
LEMMA RestMutates ==
  ASSUME Functions, NEW t \in Tellers, FollowsMutation(t), MutationSteps(t)
  PROVE  Rest!Next
<1>1. /\ RestTpc[t] = tpc[t] /\ RestTjob[t] = tjob[t] /\ RestTtries[t] = ttries[t]
      /\ UNCHANGED tjob => UNCHANGED RestTjob
      /\ UNCHANGED ttries => UNCHANGED RestTtries
      /\ UNCHANGED tables => UNCHANGED Rest!tables
      /\ UNCHANGED dbVars => UNCHANGED Rest!dbVars
  BY DEF FollowsMutation, tables, Rest!tables, dbVars, Rest!dbVars
<1>2. \A step : TGoto(t, step) => Rest!TGoto(t, step)
  BY DEF TGoto, Rest!TGoto, FollowsMutation, Functions
<1>3. Finish(t) => Rest!Finish(t)
  <2>1. ASSUME Finish(t)
        PROVE  tjob'[t] = NoTJob /\ ttries'[t] = 0 /\ tsnap' = [tsnap EXCEPT ![t] = NoRead]
               /\ Rest!TGoto(t, "idle")
    BY <1>2, <2>1 DEF Finish, Functions
  <2> QED
    BY <2>1 DEF FollowsMutation, Rest!Finish, NoTJob, Rest!NoTJob, NoRead, Rest!NoRead
<1>4. \A row : Rest!Sum64(t, row) = Sum64(t, row)
  BY <1>1 DEF Sum64, Rest!Sum64, Wrap64, Rest!Wrap64
<1>5. ReleaseAll(t) => Rest!ReleaseAll(t)
  BY DEF ReleaseAll, Rest!ReleaseAll, Release, Rest!Release
<1>6. ASSUME NEW a \in Accounts, NEW d \in Deltas, Mutate(t, a, d) PROVE Rest!Mutate(t, a, d)
  <2>1. tjob'[t] = [account |-> a, delta |-> d]
    BY <1>6 DEF Mutate, Functions
  <2> QED
    BY <1>1, <1>2, <1>6, <2>1 DEF Mutate, Rest!Mutate, FollowsMutation
<1>7. ReadBalance(t) => Rest!ReadBalance(t)
  BY <1>1, <1>2, <1>3, <1>4 DEF ReadBalance, Rest!ReadBalance
<1>8. ASSUME UpdateBalance(t) PROVE Rest!UpdateBalance(t)
  <2>1. /\ Rest!Unlocked(RestTjob[t].account) /\ RestTpc[t] = "update"
        /\ UNCHANGED <<Rest!tables, transferLock>>
    BY <1>1, <1>8, RestTables DEF UpdateBalance
  <2>2. ASSUME ttries' = [ttries EXCEPT ![t] = @ + 1]
        PROVE  RestTtries' = [RestTtries EXCEPT ![t] = @ + 1]
    BY <1>1, <2>2 DEF Functions, FollowsMutation
  <2> QED
    BY <1>1, <1>2, <1>3, <1>8, <2>1, <2>2 DEF UpdateBalance, Rest!UpdateBalance, NoRead, Rest!NoRead
<1>9. PostMutation(t) => Rest!PostMutation(t)
  BY <1>1, <1>3, <1>4, <1>5
  DEF PostMutation, Rest!PostMutation, Stored, Rest!Stored, Append1, Rest!Append1
<1>10. AbortMutation(t) => Rest!AbortMutation(t)
  BY <1>1, <1>3, <1>5 DEF AbortMutation, Rest!AbortMutation
<1>11. Rest!AccountNext
  BY <1>6, <1>7, <1>8, <1>9, <1>10
  DEF MutationSteps, ProceedMutation, Rest!AccountNext, Rest!ProceedMutation
<1> QED
  BY <1>11 DEF Rest!Next, FollowsMutation

\* A deposit to an account that is gone is refused, and locks nothing.
LEMMA HomelessRests ==
  ASSUME ResetInv, Standing, NEW t \in Tellers, MutationSteps(t), Homeless(t),
         UNCHANGED <<transferVars, retired>>
  PROVE  UNCHANGED Rest!vars /\ OwnInv'
<1>1. Functions /\ tsnap[t] = NoRead /\ RestTpc[t] = "idle"
  BY DEF ResetInv, OwnInv, MutationInv, Homeless, RestTpc
<1>2. Finish(t) /\ (UNCHANGED dbVars \/ (ReleaseAll(t) /\ UNCHANGED tables))
  BY DEF MutationSteps, Mutate, ProceedMutation, ReadBalance, UpdateBalance, PostMutation,
     AbortMutation, Homeless
<1>3. UNCHANGED dbVars
  <2>1. /\ \A a \in Accounts : accountLock[a] # t
        /\ \A k \in Keys : transferLock[k] # t
    BY <1>1 DEF ResetInv, Rest!HoldersInv, Rest!TellerHolds
  <2>2. /\ accountLock \in [Accounts -> Rest!Null2(Sessions)]
        /\ transferLock \in [Keys -> Rest!Null2(Sessions)]
    BY DEF ResetInv, Rest!IInv, Rest!TypeOK, Rest!DBTypeOK
  <2> QED
    BY <1>2, <2>1, <2>2 DEF ReleaseAll, Release, tables, dbVars
<1>4. AloneMutation(t)
  BY <1>1, MutationAlone
<1>5. tpc'[t] = "idle" /\ tjob'[t] = NoTJob /\ ttries'[t] = 0 /\ tsnap'[t] = NoRead
  BY <1>1, <1>2 DEF Finish, TGoto, Functions
<1>6. \A u \in Tellers \ {t} : Homeless(u)' <=> Homeless(u)
  BY <1>4, OtherMutations
<1>7. UNCHANGED <<RestTpc, RestTjob, RestTtries>>
  BY <1>4, <1>5, <1>6 DEF RestTpc, RestTjob, RestTtries, AloneMutation, Homeless
<1>8. UNCHANGED tsnap
  BY <1>1, <1>4, <1>5 DEF AloneMutation, Functions
<1>9. UNCHANGED Rest!transferVars
  BY RequestsRest
<1>10. UNCHANGED Rest!vars
  BY <1>3, <1>7, <1>8, <1>9 DEF Rest!vars, Rest!dbVars, Rest!accountVars, dbVars
<1>11. MutationInv(t)'
  BY <1>5 DEF MutationInv, Homeless
<1> QED
  BY <1>4, <1>10, <1>11, OtherMutations

\* A deposit or a withdrawal, whichever it is.
LEMMA MutationRests ==
  ASSUME ResetInv, Standing, NEW t \in Tellers, MutationSteps(t),
         UNCHANGED <<transferVars, retired>>
  PROVE  [Rest!Next]_(Rest!vars) /\ OwnInv'
<1>1. CASE ~Homeless(t)
  <2>1. Functions /\ (tpc[t] \notin {"update", "post"} => tsnap[t] = NoRead)
    BY DEF ResetInv, OwnInv, MutationInv
  <2>2. AloneMutation(t)
    BY <2>1, MutationAlone
  <2>3. ~Homeless(t)' /\ (tpc'[t] \notin {"update", "post"} => tsnap'[t] = NoRead)
    <3>1. ASSUME NEW a \in Accounts, NEW d \in Deltas, Mutate(t, a, d)
          PROVE  ~Homeless(t)' /\ tsnap'[t] = NoRead
      BY <2>1, <3>1 DEF Mutate, TGoto, Homeless, dbVars, Functions
    <3>2. ASSUME Finish(t) PROVE tpc'[t] = "idle" /\ tsnap'[t] = NoRead
      BY <2>1, <3>2 DEF Finish, TGoto, Functions
    <3>3. CASE ReadBalance(t)
      BY <2>1, <3>2, <3>3 DEF ReadBalance, TGoto, Homeless, Functions
    <3>4. CASE UpdateBalance(t)
      <4>1. RestTpc[t] = "update" /\ RestTjob[t] = tjob[t]
        BY <1>1, <3>4 DEF UpdateBalance, RestTpc, RestTjob
      <4>2. accounts[tjob[t].account].status # "ABSENT"
        BY <4>1 DEF ResetInv, Rest!IInv, Rest!TellerInv
      <4> QED
        BY <2>1, <3>2, <3>4, <4>2 DEF UpdateBalance, TGoto, Homeless, Functions, tables
    <3>5. PostMutation(t) \/ AbortMutation(t) => Finish(t)
      BY DEF PostMutation, AbortMutation
    <3> QED
      BY <3>1, <3>2, <3>3, <3>4, <3>5 DEF MutationSteps, ProceedMutation, Homeless
  <2>4. MutationInv(t)'
    BY <2>3 DEF MutationInv
  <2> QED
    BY <1>1, <2>1, <2>2, <2>3, <2>4, MutationSeen, RestMutates, OtherMutations
<1> QED
  BY <1>1, HomelessRests

----------------------------------------------------------------------------
(* Any step of the bank.                                                   *)

\* What is of no session under way: the settlement client's answers to a
\* transfer that holds no money yet, or is settled; the administrator's.
LEMMA NobodysStep ==
  ASSUME ResetInv, Standing, UNCHANGED <<transferVars, accountVars, retired>>
  PROVE  /\ UNCHANGED <<Rest!transferVars, Rest!accountVars>> /\ OwnInv'
         /\ \A k \in Keys : Settle(k) \/ FailUnbooked(k) => Rest!Next
         /\ \A a \in Accounts : Open(a) \/ (\E s \in {"ACTIVE", "BLOCKED"} : SetStatus(a, s)) =>
                                  Rest!Next
<1>1. UNCHANGED Rest!transferVars /\ \A w \in Workers : RequestInv(w)'
  BY RequestsRest
<1>2. UNCHANGED Rest!accountVars
  BY TellersRest DEF Rest!accountVars
<1>3. ASSUME NEW t \in Tellers PROVE MutationInv(t)'
  <2>1. MutationInv(t) /\ (Homeless(t)' <=> Homeless(t))
    BY HomelessStay DEF accountVars, ResetInv, OwnInv
  <2> QED
    BY <2>1 DEF MutationInv, accountVars
<1>4. Functions'
  BY DEF ResetInv, OwnInv, Functions, transferVars, accountVars
<1>5. ASSUME NEW k \in Keys, Settle(k) \/ FailUnbooked(k) PROVE Rest!Next
  <2>1. Rest!Settle(k) \/ Rest!FailUnbooked(k)
    BY <1>1, <1>5, RestTables DEF Settle, FailUnbooked, Rest!Settle, Rest!FailUnbooked
  <2> QED
    BY <1>2, <2>1 DEF Rest!Next, Rest!TransferNext
<1>6. ASSUME NEW a \in Accounts, Open(a) \/ \E s \in {"ACTIVE", "BLOCKED"} : SetStatus(a, s)
      PROVE  Rest!Next
  <2>1. Rest!Open(a) \/ \E s \in {"ACTIVE", "BLOCKED"} : Rest!SetStatus(a, s)
    BY <1>2, <1>6, RestTables DEF Open, SetStatus, Rest!Open, Rest!SetStatus
  <2> QED
    BY <1>1, <2>1 DEF Rest!Next, Rest!AccountNext
<1> QED
  BY <1>1, <1>2, <1>3, <1>4, <1>5, <1>6 DEF OwnInv

\* A new process serves nobody yet, with or without a row.
LEMMA RestartRests ==
  ASSUME Restart
  PROVE  Rest!Next /\ OwnInv'
<1>1. \A w \in Workers : ~Rowless(w)'
  BY DEF Restart, TransferRestart, Rowless, Transferring, NoJob
<1>2. \A t \in Tellers : ~Homeless(t)'
  BY DEF Restart, AccountRestart, Homeless
<1>3. /\ RestPc' = [w \in Workers |-> "idle"] /\ RestJob' = [w \in Workers |-> NoJob]
      /\ RestTries' = [w \in Workers |-> 0] /\ RestResp' = [w \in Workers |-> "none"]
  BY <1>1 DEF Restart, TransferRestart, RestPc, RestJob, RestTries, RestResp
<1>4. /\ RestTpc' = [t \in Tellers |-> "idle"] /\ RestTjob' = [t \in Tellers |-> NoTJob]
      /\ RestTtries' = [t \in Tellers |-> 0]
  BY <1>2 DEF Restart, AccountRestart, RestTpc, RestTjob, RestTtries
<1>5. Rest!TransferRestart
  BY <1>3, RestTables DEF Restart, TransferRestart, Rest!TransferRestart
<1>6. Rest!AccountRestart
  BY <1>4 DEF Restart, AccountRestart, Rest!AccountRestart, NoTJob, Rest!NoTJob, NoRead, Rest!NoRead
<1>7. Rest!Restart
  BY <1>5, <1>6 DEF Restart, Rest!Restart, tables, Rest!tables
<1>8. Functions'
  BY DEF Restart, TransferRestart, AccountRestart, Functions
<1>9. ASSUME NEW w \in Workers PROVE RequestInv(w)'
  BY <1>1 DEF Restart, TransferRestart, RequestInv
<1>10. ASSUME NEW t \in Tellers PROVE MutationInv(t)'
  BY <1>2 DEF Restart, AccountRestart, MutationInv
<1> QED
  BY <1>7, <1>8, <1>9, <1>10 DEF Rest!Next, OwnInv

\* Every step of the bank is one of the rest of it, or none.
LEMMA BankRests ==
  ASSUME ResetInv, BankStep
  PROVE  [Rest!Next]_(Rest!vars) /\ OwnInv'
<1>1. Standing /\ UNCHANGED retired
  BY BankStands DEF BankStep
<1>2. CASE TransferNext /\ UNCHANGED accountVars
  <2>1. ASSUME NEW w \in Workers, Submit(w) PROVE [Rest!Next]_(Rest!vars) /\ OwnInv'
    BY <1>1, <1>2, <2>1, ArrivalRests DEF Submit
  <2>2. ASSUME NEW w \in Workers, Proceed(w) \/ Abort(w)
        PROVE  [Rest!Next]_(Rest!vars) /\ OwnInv'
    <3>1. pc[w] \in InTx \cup {"begin", "mark"} \/ Deliver(w)
      BY <2>2 DEF Proceed, Abort, LockTransfer, ReadFirst, ReadSecond, UpdateFirst, UpdateSecond,
         UpdateAccount, Book, MarkFailed, LockFirst, LockSecond, LockAccount, Reverse, InTx
    <3> QED
      BY <1>1, <1>2, <2>2, <3>1, TransactionRests, OutsideRests, DeliverRests
  <2>3. ASSUME NEW w \in Workers, NEW k \in Keys, FailBegin(w, k)
        PROVE  [Rest!Next]_(Rest!vars) /\ OwnInv'
    BY <1>1, <1>2, <2>3, ArrivalRests
  <2>4. ASSUME NEW k \in Keys, Settle(k) \/ FailUnbooked(k)
        PROVE  [Rest!Next]_(Rest!vars) /\ OwnInv'
    <3>1. UNCHANGED transferVars
      BY <2>4 DEF Settle, FailUnbooked
    <3> QED
      BY <1>1, <1>2, <2>4, <3>1, NobodysStep
  <2> QED
    BY <1>2, <2>1, <2>2, <2>3, <2>4 DEF TransferNext
<1>3. CASE AccountNext /\ UNCHANGED transferVars
  <2>1. ASSUME NEW t \in Tellers, MutationSteps(t) PROVE [Rest!Next]_(Rest!vars) /\ OwnInv'
    BY <1>1, <1>3, <2>1, MutationRests
  <2>2. ASSUME NEW a \in Accounts, Open(a) \/ \E s \in {"ACTIVE", "BLOCKED"} : SetStatus(a, s)
        PROVE  [Rest!Next]_(Rest!vars) /\ OwnInv'
    <3>1. UNCHANGED accountVars
      BY <2>2 DEF Open, SetStatus
    <3> QED
      BY <1>1, <1>3, <2>2, <3>1, NobodysStep
  <2> QED
    BY <1>3, <2>1, <2>2 DEF AccountNext, MutationSteps
<1>4. CASE Restart
  BY <1>4, RestartRests
<1> QED
  BY <1>2, <1>3, <1>4 DEF BankStep, Next

----------------------------------------------------------------------------
(* The reset.                                                              *)

\* LOCK TABLE finds nobody in a transaction, and no row locked.
LEMMA FreeTables ==
  ASSUME ResetInv, TablesFree
  PROVE  /\ \A w \in Workers : /\ pc[w] \in {"idle", "begin", "mark", "done"}
                               /\ pc[w] \in {"begin", "mark"} => Transferring(w)
                               /\ Transferring(w) => pc[w] # "idle"
                               /\ snap[w] = NoSnap
         /\ \A t \in Tellers : tpc[t] \in {"idle", "read"} /\ tsnap[t] = NoRead
         /\ \A s \in Sessions : /\ \A a \in Accounts : accountLock[a] # s
                                /\ \A k \in Keys : transferLock[k] # s
<1>1. ASSUME NEW w \in Workers
      PROVE  /\ pc[w] \in {"idle", "begin", "mark", "done"}
             /\ pc[w] \in {"begin", "mark"} => Transferring(w)
             /\ Transferring(w) => pc[w] # "idle"
             /\ snap[w] = NoSnap
  <2>1. pc[w] \notin InTx /\ RequestInv(w)
    BY DEF TablesFree, ResetInv, OwnInv
  <2>2. CASE Rowless(w)
    BY <2>1, <2>2 DEF RequestInv, Rowless
  <2>3. CASE ~Rowless(w)
    <3>1. RestPc[w] = pc[w] /\ RestJob[w] = job[w]
      BY <2>3 DEF RestPc, RestJob
    <3>2. RestPc[w] \in Rest!Steps /\ Rest!LifeWorker(w)
      BY DEF ResetInv, Rest!IInv, Rest!TypeOK, Rest!TransferTypeOK, Rest!LedgerStatusInv
    <3>3. pc[w] \in {"begin", "mark"} => Transferring(w)
      BY <3>1, <3>2 DEF Rest!LifeWorker, Rest!BookingSteps, Transferring
    <3>4. Transferring(w) => pc[w] # "idle"
      BY <2>1 DEF RequestInv, Transferring, NoJob
    <3> QED
      BY <2>1, <3>1, <3>2, <3>3, <3>4 DEF RequestInv, Rest!Steps, Rest!InTx, InTx
  <2> QED
    BY <2>2, <2>3
<1>2. ASSUME NEW t \in Tellers PROVE tpc[t] \in {"idle", "read"} /\ tsnap[t] = NoRead
  <2>1. tpc[t] \notin {"update", "post"} /\ MutationInv(t)
    BY DEF TablesFree, ResetInv, OwnInv
  <2>2. RestTpc[t] \in {"idle", "read", "update", "post"}
    BY DEF ResetInv, Rest!IInv, Rest!TypeOK, Rest!AccountTypeOK
  <2> QED
    BY <2>1, <2>2 DEF RestTpc, Homeless, MutationInv
<1>3. ASSUME NEW w \in Workers
      PROVE  /\ \A a \in Accounts : accountLock[a] # w
             /\ \A k \in Keys : transferLock[k] # w
  <2>1. RestPc[w] \in {"idle", "begin", "mark", "done"}
    BY <1>1 DEF RestPc
  <2> QED
    BY <2>1 DEF ResetInv, Rest!HoldersInv, Rest!WorkerHolds, Rest!InTx
<1>4. ASSUME NEW t \in Tellers
      PROVE  /\ \A a \in Accounts : accountLock[a] # t
             /\ \A k \in Keys : transferLock[k] # t
  <2>1. RestTpc[t] \in {"idle", "read"}
    BY <1>2 DEF RestTpc
  <2> QED
    BY <2>1 DEF ResetInv, Rest!HoldersInv, Rest!TellerHolds
<1> QED
  BY <1>1, <1>2, <1>3, <1>4, CoreAssumption DEF CoreAssumption

\* Nothing is left in the tables.
Emptied ==
  /\ \A a \in Accounts : /\ accounts'[a] = [status |-> "ABSENT", balance |-> 0, version |-> 0]
                         /\ entries'[a] = <<>>
  /\ \A k \in Keys : transfers'[k] = Null

\* Truncate leaves the tables empty.
LEMMA TruncateEmpties == ASSUME Truncate PROVE Emptied
BY DEF Truncate, Emptied

\* Whoever was asking for a transfer or a deposit is out of the rest now; who
\* is left has asked for the failure of a transfer, and has had the answer.
Cleared ==
  /\ \A w \in Workers :
       \/ /\ Rowless(w)' /\ Transferring(w)
          /\ RestPc'[w] = "idle" /\ RestJob'[w] = NoJob
          /\ RestTries'[w] = 0 /\ RestResp'[w] = "none"
       \/ /\ ~Rowless(w)' /\ ~Transferring(w) /\ RestPc[w] \in {"idle", "done"}
          /\ RestPc'[w] = RestPc[w] /\ RestJob'[w] = RestJob[w]
          /\ RestTries'[w] = RestTries[w] /\ RestResp'[w] = RestResp[w]
          /\ RestJob[w].kind # "transfer"
  /\ \A t \in Tellers :
       /\ Homeless(t)' <=> tpc[t] = "read"
       /\ RestTpc'[t] = "idle"
       /\ \/ RestTjob'[t] = NoTJob /\ RestTtries'[t] = 0
          \/ RestTjob'[t] = RestTjob[t] /\ RestTtries'[t] = RestTtries[t]

\* So it is in every state in which the locks can be had.
LEMMA TruncateClears ==
  ASSUME ResetInv, Truncate
  PROVE  Cleared
<1>1. Emptied /\ TablesFree /\ UNCHANGED <<transferVars, accountVars>>
  BY TruncateEmpties DEF Truncate
<1>2. ASSUME NEW w \in Workers
      PROVE  \/ /\ Rowless(w)' /\ Transferring(w)
                /\ RestPc'[w] = "idle" /\ RestJob'[w] = NoJob
                /\ RestTries'[w] = 0 /\ RestResp'[w] = "none"
             \/ /\ ~Rowless(w)' /\ ~Transferring(w) /\ RestPc[w] \in {"idle", "done"}
                /\ RestPc'[w] = RestPc[w] /\ RestJob'[w] = RestJob[w]
                /\ RestTries'[w] = RestTries[w] /\ RestResp'[w] = RestResp[w]
                /\ RestJob[w].kind # "transfer"
  <2>1. Rowless(w)' <=> Transferring(w)
    <3>1. Transferring(w)' <=> Transferring(w)
      BY <1>1 DEF Transferring, transferVars
    <3>2. Transferring(w) => job[w].key \in Keys
      BY Named
    <3> QED
      BY <1>1, <3>1, <3>2 DEF Rowless, Emptied, transferVars
  <2>2. CASE Transferring(w)
    BY <2>1, <2>2 DEF RestPc, RestJob, RestTries, RestResp
  <2>3. CASE ~Transferring(w)
    <3>1. pc[w] \in {"idle", "done"} /\ ~Rowless(w) /\ job[w].kind # "transfer"
      BY <1>1, <2>3, FreeTables DEF Rowless, Transferring
    <3> QED
      BY <1>1, <2>1, <2>3, <3>1 DEF RestPc, RestJob, RestTries, RestResp, transferVars
  <2> QED
    BY <2>2, <2>3
<1>3. ASSUME NEW t \in Tellers
      PROVE  /\ Homeless(t)' <=> tpc[t] = "read"
             /\ RestTpc'[t] = "idle"
             /\ \/ RestTjob'[t] = NoTJob /\ RestTtries'[t] = 0
                \/ RestTjob'[t] = RestTjob[t] /\ RestTtries'[t] = RestTtries[t]
  <2>1. tpc[t] \in {"idle", "read"} /\ tpc'[t] = tpc[t] /\ tjob'[t] = tjob[t] /\ ttries'[t] = ttries[t]
    BY <1>1, FreeTables DEF accountVars
  <2>2. tpc[t] = "read" => tjob[t].account \in Accounts
    <3>1. CASE Homeless(t)
      BY <3>1 DEF ResetInv, OwnInv, MutationInv
    <3>2. CASE ~Homeless(t)
      BY <3>2 DEF ResetInv, Rest!IInv, Rest!TellerInv, RestTpc, RestTjob
    <3> QED
      BY <3>1, <3>2
  <2>3. Homeless(t)' <=> tpc[t] = "read"
    BY <1>1, <2>1, <2>2 DEF Homeless, Emptied
  <2>4. CASE tpc[t] = "read"
    BY <2>3, <2>4 DEF RestTpc, RestTjob, RestTtries
  <2>5. CASE tpc[t] = "idle"
    <3>1. ~Homeless(t) /\ ~Homeless(t)'
      BY <2>3, <2>5 DEF Homeless
    <3> QED
      BY <2>1, <2>3, <2>5, <3>1 DEF RestTpc, RestTjob, RestTtries
  <2> QED
    BY <2>1, <2>3, <2>4, <2>5
<1> QED
  BY <1>2, <1>3 DEF Cleared

\* The rest of the bank is a bank again, with nothing in it.
LEMMA TruncateRests ==
  ASSUME ResetInv, Truncate
  PROVE  Rest!IInv'
<1>1. /\ Emptied /\ Cleared /\ TablesFree
      /\ UNCHANGED <<accountLock, transferLock, transferVars, accountVars>>
  BY TruncateEmpties, TruncateClears DEF Truncate
<1>2. Rest!TypeOK
  BY DEF ResetInv, Rest!IInv
<1>3. Rest!DBTypeOK'
  <2>1. /\ accounts' = [a \in Accounts |-> [status |-> "ABSENT", balance |-> 0, version |-> 0]]
        /\ transfers' = [k \in Keys |-> Null] /\ entries' = [a \in Accounts |-> <<>>]
    BY DEF Truncate
  <2>2. [status |-> "ABSENT", balance |-> 0, version |-> 0] \in Rest!AccountRow
    BY DBAssumption DEF DBAssumption, Rest!AccountRow, Rest!AccountStatus, Rest!Cents
  <2>3. <<>> \in Seq(Rest!Entry) /\ Null \in Rest!Null2(Rest!TransferRow)
    BY DEF Rest!Null2
  <2> QED
    BY <1>1, <1>2, <2>1, <2>2, <2>3 DEF Rest!TypeOK, Rest!DBTypeOK
<1>4. Rest!TransferTypeOK'
  <2>1. /\ RestPc \in [Workers -> Rest!Steps] /\ RestJob \in [Workers -> Rest!Jobs]
        /\ RestTries \in [Workers -> 0 .. MaxRetries - 1] /\ RestResp \in [Workers -> Rest!Answers]
        /\ external \in BOOLEAN /\ snap \in [Workers -> [Accounts -> Rest!Reading]]
    BY <1>2 DEF Rest!TypeOK, Rest!TransferTypeOK
  <2>2. NoJob \in Rest!Jobs /\ 0 \in 0 .. MaxRetries - 1 /\ "none" \in Rest!Answers /\ "idle" \in Rest!Steps
    BY TransferAssumption DEF TransferAssumption, Rest!Jobs, Rest!NoJob, NoJob, Rest!Answers, Rest!Steps
  <2>3. RestPc' \in [Workers -> Rest!Steps]
    BY <1>1, <2>1, <2>2 DEF Cleared, RestPc
  <2>4. RestJob' \in [Workers -> Rest!Jobs]
    BY <1>1, <2>1, <2>2 DEF Cleared, RestJob
  <2>5. RestTries' \in [Workers -> 0 .. MaxRetries - 1]
    BY <1>1, <2>1, <2>2 DEF Cleared, RestTries
  <2>6. RestResp' \in [Workers -> Rest!Answers]
    BY <1>1, <2>1, <2>2 DEF Cleared, RestResp
  <2> QED
    BY <1>1, <2>1, <2>3, <2>4, <2>5, <2>6 DEF Rest!TransferTypeOK, transferVars
<1>5. Rest!AccountTypeOK'
  <2>1. /\ RestTpc \in [Tellers -> {"idle", "read", "update", "post"}]
        /\ RestTjob \in [Tellers -> [account : Rest!Null2(Accounts), delta : Int]]
        /\ RestTtries \in [Tellers -> 0 .. MutateRetries - 1]
        /\ tsnap \in [Tellers -> [balance : Rest!Cents, version : Nat]]
    BY <1>2 DEF Rest!TypeOK, Rest!AccountTypeOK
  <2>2. NoTJob \in [account : Rest!Null2(Accounts), delta : Int] /\ 0 \in 0 .. MutateRetries - 1
    BY AccountAssumption DEF AccountAssumption, NoTJob, Rest!Null2
  <2>3. RestTpc' \in [Tellers -> {"idle", "read", "update", "post"}]
    BY <1>1, <2>1 DEF Cleared, RestTpc
  <2>4. RestTjob' \in [Tellers -> [account : Rest!Null2(Accounts), delta : Int]]
    BY <1>1, <2>1, <2>2 DEF Cleared, RestTjob
  <2>5. RestTtries' \in [Tellers -> 0 .. MutateRetries - 1]
    BY <1>1, <2>1, <2>2 DEF Cleared, RestTtries
  <2> QED
    BY <1>1, <2>1, <2>3, <2>4, <2>5 DEF Rest!AccountTypeOK, accountVars
<1>6. Rest!RowsInv'
  BY <1>1 DEF Emptied, Rest!RowsInv
<1>7. Rest!BooksInv'
  <2>1. \A a \in Accounts : /\ entries'[a] = <<>> /\ Len(entries'[a]) = 0
                            /\ accounts'[a].balance = 0 /\ accounts'[a].version = 0
    BY <1>1 DEF Emptied
  <2>2. Rest!Chained(<<>>) /\ \A s : Rest!BalanceAt(s, 0) = 0
    BY DEF Rest!Chained, Rest!BalanceAt
  <2> QED
    BY <2>1, <2>2 DEF Rest!BooksInv, Rest!LedgerChain, Rest!VersionPerEntry
<1>8. ASSUME NEW w \in Workers PROVE Rest!WorkerInv(w)'
  <2>1. RestPc'[w] \in {"idle", "done"}
    BY <1>1 DEF Cleared
  <2>2. ASSUME NEW a \in Accounts PROVE Rest!ReadOf(snap'[w][a], accounts'[a])
    <3>1. snap'[w] = NoSnap /\ accounts'[a].version = 0 /\ accounts'[a].balance = 0
      BY <1>1, FreeTables DEF Emptied, transferVars
    <3> QED
      BY <3>1 DEF Rest!ReadOf, NoSnap, Unread
  <2> QED
    BY <2>1, <2>2 DEF Rest!WorkerInv, Rest!Working, Rest!Steps
<1>9. ASSUME NEW t \in Tellers PROVE Rest!TellerInv(t)'
  BY <1>1 DEF Cleared, Rest!TellerInv
<1> QED
  BY <1>3, <1>4, <1>5, <1>6, <1>7, <1>8, <1>9 DEF Rest!IInv, Rest!TypeOK

\* It has no transfers, no locks, and no one who waits.
LEMMA TruncateSettles ==
  ASSUME ResetInv, Truncate
  PROVE  Rest!LedgerStatusInv' /\ Rest!HoldersInv' /\ Rest!WaitingClientsInv'
<1>1. /\ Emptied /\ Cleared /\ TablesFree
      /\ UNCHANGED <<accountLock, transferLock>>
  BY TruncateEmpties, TruncateClears DEF Truncate
<1>2. ASSUME NEW k \in Keys PROVE Rest!LifeInv(k)'
  <2>1. \A a \in Accounts : Rest!Tally(k, a)' = <<0, 0>>
    BY <1>1, Rest!TallyEmptied, RestAssumptions DEF Emptied
  <2> QED
    BY <1>1, <2>1 DEF Emptied, Rest!LifeInv
<1>3. ASSUME NEW w \in Workers PROVE Rest!LifeWorker(w)' /\ Rest!RefusalInv(w)' /\ ~Rest!Transferring(w)'
  <2>1. /\ RestPc'[w] \in {"idle", "done"} /\ RestJob'[w].kind # "transfer"
        /\ RestPc'[w] # "done" => RestResp'[w] = "none"
    <3>1. Rest!LifeWorker(w)
      BY DEF ResetInv, Rest!LedgerStatusInv
    <3> QED
      BY <1>1, <3>1 DEF Cleared, NoJob, Rest!LifeWorker
  <2>2. ~Rest!Transferring(w)'
    BY <2>1 DEF Rest!Transferring
  <2>3. \A answers : ~Rest!AnswersFor(w, answers)'
    BY <2>2 DEF Rest!AnswersFor
  <2> QED
    BY <2>1, <2>2, <2>3 DEF Rest!LifeWorker, Rest!RefusalInv, Rest!InTx, Rest!BookingSteps,
       Rest!ReverseSteps
<1>4. Rest!LedgerStatusInv'
  BY <1>2, <1>3 DEF Rest!LedgerStatusInv
<1>5. Rest!HoldersInv'
  <2>1. \A s \in Sessions : /\ \A a \in Accounts : accountLock'[a] # s
                            /\ \A k \in Keys : transferLock'[k] # s
    BY <1>1, FreeTables
  <2> QED
    BY <2>1, CoreAssumption
    DEF CoreAssumption, Rest!HoldersInv, Rest!WorkerHolds, Rest!TellerHolds
<1>6. Rest!WaitingClientsInv'
  BY <1>1, <1>3 DEF Emptied, Rest!WaitingClientsInv, Rest!OnePerKey, Rest!FailedInv
<1> QED
  BY <1>4, <1>5, <1>6

\* And who has lost a row knows it, or will be told.
LEMMA TruncateOwn ==
  ASSUME ResetInv, Truncate
  PROVE  OwnInv'
<1>1. /\ Emptied /\ Cleared /\ TablesFree
      /\ UNCHANGED <<transferVars, accountVars>>
      /\ retired' = retired \cup {a \in Accounts : accounts[a].status # "ABSENT"}
  BY TruncateEmpties, TruncateClears DEF Truncate
<1>2. Functions'
  BY <1>1 DEF ResetInv, OwnInv, Functions, transferVars, accountVars
<1>3. ASSUME NEW w \in Workers PROVE RequestInv(w)'
  <2>1. /\ pc'[w] = pc[w] /\ job'[w] = job[w] /\ tries'[w] = tries[w] /\ resp'[w] = resp[w]
        /\ snap'[w] = NoSnap
    BY <1>1, FreeTables DEF transferVars
  <2>2. Rowless(w)' => pc[w] \in {"begin", "mark", "done"} /\ job[w].key \in Keys
    BY <1>1, FreeTables, Named DEF Cleared
  <2> QED
    BY <2>1, <2>2 DEF RequestInv, ResetInv, OwnInv
<1>4. ASSUME NEW t \in Tellers PROVE MutationInv(t)'
  <2>1. /\ tpc'[t] = tpc[t] /\ tjob'[t] = tjob[t] /\ tsnap'[t] = NoRead
        /\ Homeless(t)' <=> tpc[t] = "read"
    BY <1>1, FreeTables DEF accountVars, Cleared
  <2>2. CASE Homeless(t)
    BY <1>1, <2>1, <2>2 DEF MutationInv, ResetInv, OwnInv
  <2>3. CASE ~Homeless(t)
    BY <1>1, <2>1, <2>3 DEF MutationInv, ResetInv, Rest!IInv, Rest!TellerInv, RestTpc, RestTjob
  <2> QED
    BY <2>2, <2>3
<1> QED
  BY <1>2, <1>3, <1>4 DEF OwnInv

----------------------------------------------------------------------------
(* The invariant.                                                          *)

\* Nobody has asked for anything yet, so that the rest is all of the bank.
LEMMA ResetBegins ==
  ASSUME ResetInit
  PROVE  ResetInv /\ Rest!Init
<1>1. (\A w \in Workers : ~Rowless(w)) /\ (\A t \in Tellers : ~Homeless(t))
  BY DEF ResetInit, Init, TransferInit, AccountIdle, Rowless, Homeless, Transferring, NoJob
<1>2. Rest!TransferInit
  BY <1>1 DEF ResetInit, Init, TransferInit, Rest!TransferInit, RestPc, RestJob, RestTries,
     RestResp, NoJob, Rest!NoJob, NoSnap, Rest!NoSnap, Unread, Rest!Unread
<1>3. Rest!AccountIdle
  BY <1>1 DEF ResetInit, Init, AccountIdle, Rest!AccountIdle, RestTpc, RestTjob, RestTtries,
     NoTJob, Rest!NoTJob, NoRead, Rest!NoRead
<1>4. Rest!Init
  BY <1>2, <1>3 DEF ResetInit, Init, Rest!Init, OpeningRow, Rest!OpeningRow, OpeningEntries,
     Rest!OpeningEntries, Cents, Rest!Cents
<1>5. Rest!IInv
  BY <1>4, Rest!InitKeeps, RestAssumed, RestAssumptions
<1>6. Rest!LedgerStatusInv
  BY <1>4, <1>5, Rest!InitLife, RestAssumed, RestAssumptions
<1>7. Rest!WaitingClientsInv
  BY <1>4, Rest!InitWaits, RestAssumptions
<1>8. Rest!HoldersInv
  <2>1. \A s \in Sessions : s # Null
    BY DBAssumption DEF DBAssumption
  <2> QED
    BY <1>4, <2>1, CoreAssumption DEF CoreAssumption, Rest!Init, Rest!HoldersInv,
       Rest!WorkerHolds, Rest!TellerHolds
<1>9. OwnInv
  BY <1>1 DEF ResetInit, Init, TransferInit, AccountIdle, OwnInv, Functions, RequestInv, MutationInv
<1> QED
  BY <1>4, <1>5, <1>6, <1>7, <1>8, <1>9 DEF ResetInv

\* The reset keeps the invariant as the bank's own steps do.
LEMMA ResetKeeps ==
  ASSUME ResetInv, [ResetNext]_resetVars
  PROVE  ResetInv'
<1>1. CASE BankStep
  BY <1>1, BankRests, RestKeeps DEF ResetInv
<1>2. CASE Truncate
  BY <1>2, TruncateRests, TruncateSettles, TruncateOwn DEF ResetInv
<1>3. CASE UNCHANGED resetVars
  <2>1. UNCHANGED <<RestPc, RestJob, RestTries, RestResp, RestTpc, RestTjob, RestTtries>>
    BY <1>3 DEF resetVars, vars, dbVars, transferVars, accountVars, RestPc, RestJob, RestTries,
       RestResp, RestTpc, RestTjob, RestTtries, Rowless, Homeless, Transferring
  <2>2. UNCHANGED Rest!vars
    BY <1>3, <2>1 DEF resetVars, vars, dbVars, transferVars, accountVars, Rest!vars,
       Rest!dbVars, Rest!transferVars, Rest!accountVars
  <2>3. OwnInv'
    BY <1>3 DEF resetVars, vars, dbVars, transferVars, accountVars, ResetInv, OwnInv, Functions,
       RequestInv, MutationInv, Rowless, Homeless, Transferring
  <2> QED
    BY <2>2, <2>3, RestKeeps DEF ResetInv
<1> QED
  BY <1>1, <1>2, <1>3 DEF ResetNext

\* Whatever is truncated under whom, those who still have their rows are the
\* users of a bank that is right.
THEOREM ResetInvariant == ResetSpec => []ResetInv
<1> QED
  BY ResetBegins, ResetKeeps, PTL DEF ResetSpec

\* The books stay right across resets: entries chain up to the balance, and
\* no deposit read before a reset is written after it.
THEOREM ResetKeepsLedger == ResetSpec => []LedgerChain
<1>1. ResetInv => LedgerChain
  BY DEF ResetInv, Rest!IInv, Rest!BooksInv, Rest!LedgerChain, LedgerChain, Rest!Chained, Chained,
     Rest!BalanceAt, BalanceAt, Rest!Applied, Applied
<1> QED
  BY <1>1, ResetInvariant, PTL

\* A mutation about to be committed is not begun again in the same step.
LEMMA PostIsLast ==
  ASSUME ResetInv, BankStep, NEW t \in Tellers, tpc[t] = "post"
  PROVE  tpc'[t] # "read"
<1>1. tpc = [x \in Tellers |-> tpc[x]]
  BY DEF ResetInv, OwnInv, Functions
<1>2. ASSUME NEW u \in Tellers, MutationSteps(u) PROVE tpc'[t] # "read"
  <2>1. CASE u # t
    <3>1. tpc' = tpc \/ \E v : tpc' = [tpc EXCEPT ![u] = v]
      BY <1>2 DEF MutationSteps, Mutate, ProceedMutation, ReadBalance, UpdateBalance,
         PostMutation, AbortMutation, Finish, TGoto
    <3> QED
      BY <1>1, <2>1, <3>1
  <2>2. CASE u = t
    BY <1>1, <1>2, <2>2 DEF MutationSteps, Mutate, ProceedMutation, ReadBalance, UpdateBalance,
       PostMutation, AbortMutation, Finish, TGoto
  <2> QED
    BY <2>1, <2>2
<1>3. CASE UNCHANGED accountVars
  BY <1>3 DEF accountVars
<1>4. CASE AccountNext
  <2>1. CASE \E a \in Accounts : Open(a) \/ \E s \in {"ACTIVE", "BLOCKED"} : SetStatus(a, s)
    BY <1>3, <2>1 DEF Open, SetStatus
  <2> QED
    BY <1>2, <1>4, <2>1 DEF AccountNext, MutationSteps
<1>5. CASE Restart
  BY <1>5 DEF Restart, AccountRestart
<1> QED
  BY <1>3, <1>4, <1>5 DEF BankStep, Next

\* Nor is a movement committed over a row that changed since it was read, by
\* another request or by a reset.
THEOREM ResetLosesNoUpdate == ResetSpec => NoLostUpdate
<1>1. ASSUME ResetInv, BankStep, NEW a \in Accounts, Rest!WrittenByReader(a)
      PROVE  WrittenByReader(a)
  <2>1. ASSUME NEW w \in Workers, RestPc[w] \in {"book", "reverse"}, RestPc'[w] = "done"
        PROVE  pc[w] = RestPc[w] /\ pc'[w] = "done" /\ RestJob[w] = job[w]
    BY <2>1 DEF RestPc, RestJob
  <2>2. ASSUME NEW t \in Tellers, RestTpc[t] = "post", RestTpc'[t] = "idle"
        PROVE  tpc[t] = "post" /\ RestTjob[t] = tjob[t] /\ tpc'[t] = "idle"
    <3>1. tpc[t] = "post" /\ RestTjob[t] = tjob[t]
      BY <2>2 DEF RestTpc, RestTjob
    <3>2. ~Homeless(t)'
      BY <1>1, <3>1, PostIsLast DEF Homeless
    <3> QED
      BY <2>2, <3>1, <3>2 DEF RestTpc
  <2> QED
    BY <1>1, <2>1, <2>2 DEF Rest!WrittenByReader, WrittenByReader, Rest!IsRow, IsRow
<1>2. ASSUME ResetInv, BankStep, NEW a \in Accounts, Len(entries'[a]) > Len(entries[a])
      PROVE  WrittenByReader(a)
  <2>1. Rest!IInv /\ [Rest!Next]_(Rest!vars)
    BY <1>2, BankRests DEF ResetInv
  <2>2. Rest!WrittenByReader(a)
    BY <1>2, <2>1, Rest!WritersHaveRead, RestAssumptions
  <2> QED
    BY <1>1, <1>2, <2>2
<1>3. ASSUME ResetInv, Truncate, NEW a \in Accounts PROVE ~(Len(entries'[a]) > Len(entries[a]))
  <2>1. entries[a] \in Seq(Rest!Entry) /\ entries'[a] = <<>>
    BY <1>3 DEF Truncate, ResetInv, Rest!IInv, Rest!TypeOK, Rest!DBTypeOK
  <2> QED
    BY <2>1
<1>4. ResetInv /\ [ResetNext]_resetVars =>
        [\A a \in Accounts : Len(entries'[a]) > Len(entries[a]) => WrittenByReader(a)]_vars
  BY <1>2, <1>3 DEF ResetNext, resetVars
<1> QED
  BY <1>4, ResetInvariant, PTL DEF ResetSpec, NoLostUpdate

\* No booking goes on from a reading that a reset has made worthless.
THEOREM ResetBookingsAreCurrent == ResetSpec => []BookingCurrent
<1>1. ASSUME ResetInv, NEW w \in Workers, pc[w] = "book" PROVE SnapCurrent(w)
  <2>1. RestPc[w] = "book" /\ RestJob[w] = job[w]
    BY <1>1, InTxHasRow DEF InTx
  <2> QED
    BY <1>1, <2>1 DEF ResetInv, Rest!IInv, Rest!WorkerInv, Rest!Holds, SnapCurrent
<1>2. ResetInv => BookingCurrent
  BY <1>1 DEF BookingCurrent
<1> QED
  BY <1>2, ResetInvariant, PTL

\* A transfer's money moves at most once and returns at most once, whatever was
\* registered under its key before the reset.
THEOREM ResetTransfersBookOnce == ResetSpec => []BookedAtMostOnce
<1>1. ResetInv => Rest!BookedAtMostOnce
  BY Rest!TalliedOnce, RestAssumptions
  DEF ResetInv, Rest!LedgerStatusInv, Rest!BookedAtMostOnce
<1>2. Rest!BookedAtMostOnce => BookedAtMostOnce
  BY DEF Rest!BookedAtMostOnce, BookedAtMostOnce, Rest!Moves, Moves, Rest!Returns, Returns,
     Rest!Legs, Legs, Rest!Cardinality, Cardinality
<1> QED
  BY <1>1, <1>2, ResetInvariant, PTL

----------------------------------------------------------------------------
(* The answers.                                                            *)

\* PENDING or SETTLED is answered in the step that starts telling it.
Accepts(w) ==
  /\ pc[w] # "done" /\ pc'[w] = "done"
  /\ job'[w].kind = "transfer"
  /\ resp'[w] \in {"PENDING", "SETTLED"}

\* Only with the row before one's eyes, or with its lock, does a request get
\* there.
LEMMA AcceptsWithRow ==
  ASSUME ResetInv, BankStep, NEW w \in Workers, Accepts(w)
  PROVE  job'[w].key \in Keys /\ ~Rowless(w)'
<1>1. Standing /\ Functions
  BY BankStands DEF ResetInv, OwnInv
<1>2. ASSUME NEW answer, Answer(w, answer), answer \notin {"PENDING", "SETTLED"} PROVE FALSE
  BY <1>1, <1>2 DEF Answer, Functions, Accepts
<1>3. ASSUME NEW step, Goto(w, step) PROVE step = "done"
  BY <1>1, <1>3 DEF Goto, Functions, Accepts
<1>4. ASSUME NEW k \in Keys, NEW o \in Orders, AcquireExisting(w, k, o)
      PROVE  job'[w].key \in Keys /\ ~Rowless(w)'
  <2>1. job'[w].key = k /\ transfers'[k] # Null
    BY <1>1, <1>4 DEF AcquireExisting, dbVars, Job, Functions
  <2> QED
    BY <2>1 DEF Rowless
<1>5. CASE Submit(w)
  BY <1>2, <1>3, <1>4, <1>5 DEF Submit, RejectInvalid, AcquireNew, AcquireUnknown
<1>6. ASSUME UNCHANGED job, transfers[job[w].key] # Null
      PROVE  job'[w].key \in Keys /\ ~Rowless(w)'
  <2>1. Transferring(w)
    BY <1>6 DEF Accepts, Transferring
  <2> QED
    BY <1>1, <1>6, <2>1, Named DEF Standing, Rowless
<1>7. CASE LockTransfer(w)
  BY <1>2, <1>6, <1>7 DEF LockTransfer
<1>8. CASE Book(w)
  BY <1>6, <1>8, InTxHasRow DEF Book, InTx
<1>9. CASE ReadFirst(w) \/ ReadSecond(w) \/ LockFirst(w) \/ LockSecond(w) \/ MarkFailed(w) \/ Abort(w)
  BY <1>2, <1>3, <1>9 DEF ReadFirst, ReadSecond, LockFirst, LockSecond, LockAccount, Refuse,
     MarkFailed, Abort
<1>10. CASE UpdateFirst(w) \/ UpdateSecond(w)
  BY <1>2, <1>3, <1>10 DEF UpdateFirst, UpdateSecond, UpdateAccount, Conflict
<1>11. CASE Reverse(w) \/ Deliver(w)
  BY <1>2, <1>3, <1>11 DEF Reverse, Deliver
<1>12. CASE \E k \in Keys : FailBegin(w, k)
  BY <1>3, <1>12 DEF FailBegin
<1>13. ASSUME NEW v \in Workers \ {w}, UNCHANGED accountVars,
              Submit(v) \/ Proceed(v) \/ Abort(v) \/ \E k \in Keys : FailBegin(v, k)
       PROVE  FALSE
  BY <1>1, <1>13, RequestAlone DEF Alone, Accepts
<1>14. ASSUME UNCHANGED pc PROVE FALSE
  BY <1>14 DEF Accepts
<1>15. CASE TransferNext /\ UNCHANGED accountVars
  <2>1. ASSUME NEW k \in Keys, Settle(k) \/ FailUnbooked(k) PROVE FALSE
    BY <1>14, <2>1 DEF Settle, FailUnbooked, transferVars
  <2>2. ASSUME Proceed(w) PROVE job'[w].key \in Keys /\ ~Rowless(w)'
    BY <1>7, <1>8, <1>9, <1>10, <1>11, <2>2 DEF Proceed
  <2> QED
    BY <1>5, <1>9, <1>12, <1>13, <1>15, <2>1, <2>2 DEF TransferNext
<1>16. CASE AccountNext /\ UNCHANGED transferVars
  BY <1>14, <1>16 DEF transferVars
<1>17. CASE Restart
  BY <1>17 DEF Restart, TransferRestart, Accepts
<1> QED
  BY <1>15, <1>16, <1>17 DEF BankStep, Next

\* What is known of a row that a request among the rest has been told of.
AcceptedInv ==
  \A w \in Workers :
    AnswersFor(w, {"PENDING", "SETTLED"}) /\ ~Rowless(w) => Moves(job[w].key) = 1

\* What has been answered so holds of the rest, and so of the bank.
LEMMA AcceptedMoved == ASSUME ResetInv PROVE AcceptedInv
<1>1. SUFFICES ASSUME NEW w \in Workers, AnswersFor(w, {"PENDING", "SETTLED"}), ~Rowless(w)
               PROVE  Moves(job[w].key) = 1
  BY DEF AcceptedInv
<1>2. RestJob[w] = job[w] /\ RestResp[w] = resp[w] /\ Transferring(w) /\ job[w].key \in Keys
  BY <1>1, Named DEF RestJob, RestResp, AnswersFor
<1>3. Rest!AnswersFor(w, {"PENDING", "SETTLED"})
  BY <1>1, <1>2 DEF AnswersFor, Rest!AnswersFor, Transferring, Rest!Transferring
<1>4. /\ transfers[job[w].key] # Null
      /\ Rest!Moved(job[w].key) \/ Rest!Returned(job[w].key)
  BY <1>2, <1>3 DEF ResetInv, Rest!LedgerStatusInv, Rest!LifeWorker
<1>5. Rest!Moves(job[w].key) = 1
  BY <1>2, <1>4, Rest!MovesAndReturns, RestAssumptions DEF ResetInv
<1> QED
  BY <1>5 DEF Rest!Moves, Moves, Rest!Legs, Legs, Rest!Cardinality, Cardinality

\* Whoever is told PENDING or SETTLED while the bank is reset is told it of a
\* row that is there, whose money moved, once, at the moment it is decided.
THEOREM ResetAcceptsOnlyMoved == ResetSpec => AcceptedWhenAnswered
<1> DEFINE Told ==
      \A w \in Workers, k \in Keys :
        /\ pc[w] # "done" /\ pc'[w] = "done"
        /\ job'[w].kind = "transfer" /\ job'[w].key = k
        /\ resp'[w] \in {"PENDING", "SETTLED"}
        => transfers'[k] # Null /\ Moves(k)' = 1
<1>1. ASSUME ResetInv, AcceptedInv', BankStep, NEW w \in Workers, Accepts(w)
      PROVE  transfers'[job'[w].key] # Null /\ Moves(job[w].key)' = 1
  <2>1. job'[w].key \in Keys /\ ~Rowless(w)'
    BY <1>1, AcceptsWithRow
  <2>2. AnswersFor(w, {"PENDING", "SETTLED"})'
    BY <1>1 DEF Accepts, AnswersFor, Transferring
  <2>3. Moves(job[w].key)' = 1
    BY <1>1, <2>1, <2>2 DEF AcceptedInv
  <2> QED
    BY <2>1, <2>2, <2>3 DEF Rowless, AnswersFor
<1>2. ResetInv /\ AcceptedInv' /\ BankStep => Told
  <2>1. SUFFICES ASSUME ResetInv, AcceptedInv', BankStep, NEW w \in Workers, NEW k \in Keys,
                        pc[w] # "done", pc'[w] = "done", job'[w].kind = "transfer",
                        job'[w].key = k, resp'[w] \in {"PENDING", "SETTLED"}
                 PROVE  transfers'[k] # Null /\ Moves(k)' = 1
    OBVIOUS
  <2>2. transfers'[job'[w].key] # Null /\ Moves(job[w].key)' = 1
    BY <1>1, <2>1 DEF Accepts
  <2> QED
    BY <2>1, <2>2 DEF Moves, Legs
<1>3. Truncate => Told
  BY DEF Truncate, transferVars
<1>4. ResetInv /\ AcceptedInv' /\ [ResetNext]_resetVars => [Told]_resetVars
  BY <1>2, <1>3 DEF ResetNext
<1>5. ResetInv => AcceptedInv
  BY AcceptedMoved
<1> QED
  BY <1>4, <1>5, ResetInvariant, PTL DEF ResetSpec, AcceptedWhenAnswered

----------------------------------------------------------------------------
(* The refinement.                                                         *)

\* The atomic bank is seen from the tables alone, and is the same for the rest.
LEMMA SameAtomicBank ==
  /\ Rest!Atomic!Next <=> Atomic!Next
  /\ UNCHANGED Rest!Atomic!vars <=> UNCHANGED Atomic!vars
BY DEF Rest!Atomic!Next, Atomic!Next, Rest!Atomic!Register, Atomic!Register, Rest!Atomic!Enter,
   Atomic!Enter, Rest!Atomic!Move, Atomic!Move, Rest!Atomic!Book, Atomic!Book,
   Rest!Atomic!Reject, Atomic!Reject, Rest!Atomic!Settle, Atomic!Settle,
   Rest!Atomic!Reverse, Atomic!Reverse, Rest!Atomic!Adjust, Atomic!Adjust,
   Rest!OrderOf, OrderOf, Rest!PhaseOf, PhaseOf, Rest!Moves, Moves, Rest!Returns, Returns,
   Rest!Legs, Legs, Rest!Cardinality, Cardinality, Rest!Cents, Cents,
   Rest!Atomic!vars, Atomic!vars

\* The rest begins where the bank begins.
LEMMA SameAtomicStart == Rest!Atomic!Init <=> Atomic!Init
BY DEF Rest!Atomic!Init, Atomic!Init, Rest!OrderOf, OrderOf, Rest!PhaseOf, PhaseOf,
   Rest!Moves, Moves, Rest!Returns, Returns, Rest!Legs, Legs, Rest!Cardinality, Cardinality

\* Truncated tables are those of a bank that has forgotten everything.
LEMMA TruncateForgets == ASSUME Truncate PROVE Atomic!Forget
<1>1. Emptied
  BY TruncateEmpties
<1>2. \A a \in Accounts : accounts'[a].balance = 0
  BY <1>1 DEF Emptied
<1>3. \A k \in Keys : OrderOf(k)' = Null /\ PhaseOf(k)' = "none"
  BY <1>1 DEF Emptied, OrderOf, PhaseOf
<1> QED
  BY <1>2, <1>3 DEF Atomic!Forget

\* The services and their resets do to the tables, statement by statement and
\* crash by crash, what the atomic bank and its one-step reset do: to requests
\* on their way a reset is indivisible.
THEOREM ResetRefinement == ResetSpec => ImplementsResettableBank
<1>1. ResetInit => Atomic!Init
  BY ResetBegins, Rest!InitRefines, RestAssumptions, SameAtomicStart DEF ResetInv
<1>2. ResetInv => Rest!PhasesFit
  BY Rest!PhasesAreFit, RestAssumptions DEF ResetInv
<1>3. ASSUME ResetInv, ResetInv', Rest!PhasesFit, Rest!PhasesFit', BankStep
      PROVE  [Atomic!Next]_(Atomic!vars)
  <2>1. [Rest!Next]_(Rest!vars) /\ Rest!Sound
    BY <1>3, BankRests, RestAssumed DEF ResetInv, Rest!Sound
  <2>2. [Rest!Atomic!Next]_(Rest!Atomic!vars)
    BY <2>1, Rest!NextRefines, RestAssumptions
  <2> QED
    BY <2>2, SameAtomicBank
<1>4. UNCHANGED resetVars => UNCHANGED Atomic!vars
  BY DEF resetVars, vars, dbVars, Atomic!vars, OrderOf, PhaseOf, Moves, Returns, Legs
<1>5. ResetInv /\ ResetInv' /\ Rest!PhasesFit /\ Rest!PhasesFit' /\ [ResetNext]_resetVars
        => [Atomic!Next \/ Atomic!Forget]_(Atomic!vars)
  BY <1>3, <1>4, TruncateForgets DEF ResetNext
<1> QED
  BY <1>1, <1>2, <1>5, ResetInvariant, PTL
  DEF ResetSpec, ImplementsResettableBank, Atomic!ResettableSpec
=============================================================================
