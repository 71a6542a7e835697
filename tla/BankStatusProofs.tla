-------------------------- MODULE BankStatusProofs --------------------------
(***************************************************************************)
(* Proofs of what the rows say.  To clients of any kind: a transfer's      *)
(* money moves at most once and its status agrees with its entries; what   *)
(* the row locks are held for, and that the sessions never wait for one    *)
(* another in a circle.  To clients that wait for the answer before they   *)
(* repeat a key: a FAILED transfer has nothing moved, whoever is refused   *)
(* finds nothing moved, SETTLED and FAILED are final, and the services,    *)
(* seen from the tables, are the atomic bank.                              *)
(***************************************************************************)
EXTENDS BankProofs, BankStatus, FiniteSetTheorems, WellFoundedInduction

----------------------------------------------------------------------------
(* Counting entries.                                                       *)

\* The entries of one type that one transfer has in a ledger.
Naming(s, k, type) == {i \in DOMAIN s : s[i].transfer = k /\ s[i].type = type}

\* They are a finite set of positions.
LEMMA NamingFinite ==
  ASSUME NEW s \in Seq(Entry), NEW k, NEW type
  PROVE  IsFiniteSet(Naming(s, k, type)) /\ Cardinality(Naming(s, k, type)) \in Nat
<1>1. Len(s) \in Nat /\ DOMAIN s = 1 .. Len(s)
  OBVIOUS
<1>2. IsFiniteSet(1 .. Len(s))
  BY <1>1, FS_Interval
<1>3. Naming(s, k, type) \in SUBSET (1 .. Len(s))
  BY <1>1 DEF Naming
<1> QED
  BY <1>2, <1>3, FS_Subset, FS_CardinalityType

\* The entries of a ledger are entries.
LEMMA EntryAt ==
  ASSUME NEW s \in Seq(Entry), NEW i \in DOMAIN s
  PROVE  s[i] \in Entry /\ s[i].type \in {"CREDIT", "DEBIT"}
<1>1. s[i] \in Entry
  OBVIOUS
<1> QED
  BY <1>1 DEF Entry

\* One more entry counts once, for its transfer and its type.
LEMMA NamingAppend ==
  ASSUME NEW s \in Seq(Entry), NEW e \in Entry, NEW k, NEW type
  PROVE  Cardinality(Naming(Append(s, e), k, type)) =
           IF e.transfer = k /\ e.type = type THEN Cardinality(Naming(s, k, type)) + 1
           ELSE Cardinality(Naming(s, k, type))
<1> DEFINE t == Append(s, e)
           n == Len(s) + 1
<1>1. n \in Nat \ {0} /\ DOMAIN t = 1 .. n /\ DOMAIN s = 1 .. n - 1
      /\ t[n] = e /\ \A i \in 1 .. n - 1 : t[i] = s[i]
  OBVIOUS
<1>2. IsFiniteSet(Naming(s, k, type))
  BY NamingFinite
<1>3. Append(s, e) = t
  OBVIOUS
<1> HIDE DEF t, n
<1>4. \A i : i \in 1 .. n <=> i \in 1 .. n - 1 \/ i = n
  BY <1>1
<1>5. n \notin 1 .. n - 1
  BY <1>1
<1>6. \A i : i \in Naming(s, k, type) <=>
               i \in 1 .. n - 1 /\ t[i].transfer = k /\ t[i].type = type
  BY <1>1 DEF Naming
<1>7. \A i : i \in Naming(t, k, type) <=>
               (i \in 1 .. n - 1 \/ i = n) /\ t[i].transfer = k /\ t[i].type = type
  BY <1>1, <1>4 DEF Naming
<1>8. n \notin Naming(s, k, type)
  BY <1>5, <1>6
<1>9. CASE e.transfer = k /\ e.type = type
  <2>1. Naming(t, k, type) = Naming(s, k, type) \cup {n}
    BY <1>1, <1>6, <1>7, <1>9
  <2>2. Cardinality(Naming(s, k, type) \cup {n}) = Cardinality(Naming(s, k, type)) + 1
    BY <1>2, <1>8, FS_AddElement
  <2> QED
    BY <1>3, <1>9, <2>1, <2>2
<1>10. CASE ~(e.transfer = k /\ e.type = type)
  <2>1. Naming(t, k, type) = Naming(s, k, type)
    BY <1>1, <1>6, <1>7, <1>10
  <2> QED
    BY <1>3, <1>10, <2>1
<1> QED
  BY <1>9, <1>10

\* Legs counts them.
LEMMA LegsNaming ==
  ASSUME NEW k, NEW type, NEW a
  PROVE  Legs(k, type, a) = Cardinality(Naming(entries[a], k, type))
BY DEF Legs, Naming

\* The same after a step.
LEMMA LegsNamingPrime ==
  ASSUME NEW CONSTANT k, NEW CONSTANT type, NEW CONSTANT a
  PROVE  Legs(k, type, a)' = Cardinality(Naming(entries'[a], k, type))
BY DEF Legs, Naming

\* A tally is a pair of numbers.
LEMMA TallyType ==
  ASSUME TypeOK, NEW k, NEW a \in Accounts
  PROVE  Tally(k, a) \in Nat \X Nat
<1>1. entries[a] \in Seq(Entry)
  BY DEF TypeOK, DBTypeOK
<1> QED
  BY <1>1, NamingFinite, LegsNaming DEF Tally

\* An account's ledger names a transfer if that has a tally there.
LEMMA TallyNames ==
  ASSUME TypeOK, NEW k, NEW a \in Accounts
  PROVE  (\E i \in DOMAIN entries[a] : entries[a][i].transfer = k) <=> Tally(k, a) # <<0, 0>>
<1> DEFINE D == Naming(entries[a], k, "DEBIT")
           C == Naming(entries[a], k, "CREDIT")
<1>1. entries[a] \in Seq(Entry)
  BY DEF TypeOK, DBTypeOK
<1>2. \A i \in DOMAIN entries[a] : entries[a][i].type \in {"CREDIT", "DEBIT"}
  BY <1>1, EntryAt
<1>3. (\E i \in DOMAIN entries[a] : entries[a][i].transfer = k) <=> D # {} \/ C # {}
  BY <1>2 DEF Naming
<1>4. (Cardinality(D) = 0 <=> D = {}) /\ (Cardinality(C) = 0 <=> C = {})
  BY <1>1, NamingFinite, FS_EmptySet
<1>5. Tally(k, a) = <<Cardinality(D), Cardinality(C)>>
  BY LegsNaming DEF Tally
<1> HIDE DEF D, C
<1> QED
  BY <1>3, <1>4, <1>5

\* Booked asks whether any account has a tally.
LEMMA BookedTally ==
  ASSUME TypeOK, NEW k \in Keys
  PROVE  Booked(k) <=> \E a \in Accounts : Tally(k, a) # <<0, 0>>
BY TallyNames DEF Booked

\* An entry appended to a ledger adds to the tally it names.
LEMMA TallyAppend ==
  ASSUME TypeOK, NEW a \in Accounts, NEW e \in Entry, entries'[a] = Append(entries[a], e),
         NEW k
  PROVE  Tally(k, a)' = IF e.transfer # k THEN Tally(k, a)
                        ELSE IF e.type = "DEBIT" THEN <<Tally(k, a)[1] + 1, Tally(k, a)[2]>>
                        ELSE <<Tally(k, a)[1], Tally(k, a)[2] + 1>>
<1> DEFINE s == entries[a]
<1>1. s \in Seq(Entry) /\ e.type \in {"CREDIT", "DEBIT"}
  BY DEF TypeOK, DBTypeOK, Entry
<1>2. /\ Legs(k, "DEBIT", a) = Cardinality(Naming(s, k, "DEBIT"))
      /\ Legs(k, "CREDIT", a) = Cardinality(Naming(s, k, "CREDIT"))
  BY LegsNaming
<1>3. /\ Legs(k, "DEBIT", a)' = Cardinality(Naming(Append(s, e), k, "DEBIT"))
      /\ Legs(k, "CREDIT", a)' = Cardinality(Naming(Append(s, e), k, "CREDIT"))
  BY LegsNamingPrime
<1> HIDE DEF s
<1>4. \A type : Cardinality(Naming(Append(s, e), k, type)) =
                  IF e.transfer = k /\ e.type = type THEN Cardinality(Naming(s, k, type)) + 1
                  ELSE Cardinality(Naming(s, k, type))
  BY <1>1, NamingAppend
<1> QED
  BY <1>1, <1>2, <1>3, <1>4 DEF Tally

\* A ledger that stays keeps its tallies.
LEMMA TallySame ==
  ASSUME NEW a, NEW k, entries'[a] = entries[a]
  PROVE  Tally(k, a)' = Tally(k, a)
<1>1. \A type : Naming(entries'[a], k, type) = Naming(entries[a], k, type)
  OBVIOUS
<1> QED
  BY <1>1, LegsNaming, LegsNamingPrime DEF Tally

\* A ledger that is emptied has none.
LEMMA TallyEmptied ==
  ASSUME NEW a, NEW k, entries'[a] = <<>>
  PROVE  Tally(k, a)' = <<0, 0>>
<1>1. \A type : Naming(entries'[a], k, type) = {}
  BY DEF Naming
<1> QED
  BY <1>1, LegsNamingPrime, FS_EmptySet DEF Tally

\* A movement adds one leg to each of its accounts, for its own transfer.
LEMMA PostTallies ==
  ASSUME TypeOK, NEW d \in Accounts, NEW c \in Accounts, d # c, NEW k \in Keys,
         NEW n \in Cents \ {0}, NEW db \in Cents, NEW cb \in Cents,
         Post(d, db, c, cb, n, k), NEW l \in Keys, NEW a \in Accounts
  PROVE  Tally(l, a)' = IF l # k \/ a \notin {d, c} THEN Tally(l, a)
                        ELSE IF a = d THEN <<Tally(l, a)[1] + 1, Tally(l, a)[2]>>
                        ELSE <<Tally(l, a)[1], Tally(l, a)[2] + 1>>
<1> DEFINE de == [type |-> "DEBIT", amount |-> n, balanceAfter |-> db, transfer |-> k]
           ce == [type |-> "CREDIT", amount |-> n, balanceAfter |-> cb, transfer |-> k]
<1>1. /\ de \in Entry /\ de.type = "DEBIT" /\ de.transfer = k
      /\ ce \in Entry /\ ce.type = "CREDIT" /\ ce.transfer = k
  BY DEF Entry, Null2
<1>2. entries \in [Accounts -> Seq(Entry)]
  BY DEF TypeOK, DBTypeOK
<1>3. /\ entries'[d] = Append(entries[d], de)
      /\ entries'[c] = Append(entries[c], ce)
      /\ \A b \in Accounts \ {d, c} : entries'[b] = entries[b]
  BY <1>2 DEF Post, Append1
<1> HIDE DEF de, ce
<1>4. CASE a = d
  BY <1>1, <1>3, <1>4, TallyAppend
<1>5. CASE a = c
  BY <1>1, <1>3, <1>5, TallyAppend
<1>6. CASE a \notin {d, c}
  BY <1>3, <1>6, TallySame
<1> QED
  BY <1>4, <1>5, <1>6

\* A deposit or a withdrawal names no transfer.
LEMMA MutationTallies ==
  ASSUME Assumed, IInv, IInv', NEW t \in Tellers, PostMutation(t),
         NEW k \in Keys, NEW a \in Accounts
  PROVE  Tally(k, a)' = Tally(k, a)
<1>0. PICK b : b = tjob[t].account
  OBVIOUS
<1> DEFINE d == tjob[t].delta
           e == [type |-> IF d > 0 THEN "CREDIT" ELSE "DEBIT", amount |-> IF d > 0 THEN d ELSE -d,
                 balanceAfter |-> Sum64(t, tsnap[t]), transfer |-> Null]
<1>1. entries' = [entries EXCEPT ![b] = Append(entries[b], e)] /\ e.transfer = Null
  BY <1>0 DEF PostMutation, Append1
<1> HIDE DEF d, e
<1>2. b \in Accounts /\ entries \in [Accounts -> Seq(Entry)] /\ TypeOK /\ TypeOK'
  BY <1>0 DEF PostMutation, IInv, TellerInv, TypeOK, DBTypeOK
<1>3. CASE a # b
  BY <1>1, <1>2, <1>3, TallySame
<1>4. CASE a = b
  <2>1. entries'[a] = Append(entries[a], e)
    BY <1>1, <1>2, <1>4
  <2>2. e \in Entry
    <3>1. entries[a] \in Seq(Entry) /\ entries'[a] \in Seq(Entry)
      BY <1>2 DEF TypeOK, DBTypeOK
    <3>2. Len(entries[a]) + 1 \in DOMAIN entries'[a] /\ entries'[a][Len(entries[a]) + 1] = e
      BY <2>1, <3>1
    <3> QED
      BY <3>1, <3>2, EntryAt
  <2>3. Null # k
    BY DEF Assumed, DBAssumption
  <2> QED
    BY <1>1, <1>2, <2>1, <2>2, <2>3, TallyAppend
<1> QED
  BY <1>3, <1>4

----------------------------------------------------------------------------
(* What a step of s (Null: of none) may do to a transfer and its entries:  *)
(* nothing, unless no one else has locked its row, or nobody knows it yet. *)
Still(k) == transfers'[k] = transfers[k] /\ \A a \in Accounts : Tally(k, a)' = Tally(k, a)

HasMoved(k) == Moved(k) \/ Returned(k)

Advances(k, s) ==
  \/ transfers[k] = Null
  \/ /\ transferLock[k] \in {Null, s}
     /\ Kept(k)
     /\ HasMoved(k) => HasMoved(k)'

Lives(s) == \A k \in Keys : Still(k) \/ (Advances(k, s) /\ LifeInv(k)')

\* The sessions but s keep the transfer rows they have locked.
RowsHeld(s) ==
  \A k \in Keys, u \in Sessions \ {s} : transferLock[k] = u => transferLock'[k] = u

Elsewhere(s) ==
  \A v \in Workers \ {s} : pc'[v] = pc[v] /\ job'[v] = job[v] /\ resp'[v] = resp[v]

\* A transfer that stays is as it was.
LEMMA StillFacts ==
  ASSUME NEW k, Still(k)
  PROVE  /\ Unmoved(k)' <=> Unmoved(k)
         /\ Moved(k)' <=> Moved(k)
         /\ Returned(k)' <=> Returned(k)
         /\ LifeInv(k)' <=> LifeInv(k)
<1>1. /\ Unmoved(k)' <=> Unmoved(k)
      /\ Moved(k)' <=> Moved(k)
      /\ Returned(k)' <=> Returned(k)
  BY DEF Still, Unmoved, Moved, Returned, Tallied
<1> QED
  BY <1>1 DEF Still, LifeInv

\* Tables that stay keep every transfer.
LEMMA TablesStill ==
  ASSUME UNCHANGED <<transfers, entries>>, NEW k
  PROVE  Still(k)
BY TallySame DEF Still

\* A worker that does not move stays right about its transfer.
LEMMA OthersLive ==
  ASSUME Assumed, IInv, NEW s,
         Lives(s), RowsHeld(s), Elsewhere(s),
         NEW v \in Workers \ {s}, LifeWorker(v)
  PROVE  LifeWorker(v)'
<1>1. pc'[v] = pc[v] /\ job'[v] = job[v] /\ resp'[v] = resp[v]
  BY DEF Elsewhere
<1>2. v \in Sessions \ {s} /\ v # Null
  BY DEF Assumed, TransferAssumption, DBAssumption
<1>3. PICK k : k = job[v].key
  OBVIOUS
<1>4. ASSUME pc[v] \in InTx
      PROVE  transferLock'[k] = v /\ Still(k)
  <2>1. pc[v] \in Working
    BY <1>4 DEF InTx, Working, Steps
  <2>2. k \in Keys /\ transfers[k] # Null
    BY <1>3, <2>1, LiveFacts DEF IInv, RowOf
  <2>3. transferLock[k] = v
    BY <1>3, <1>4 DEF LifeWorker
  <2> QED
    BY <1>2, <2>2, <2>3 DEF Lives, RowsHeld, Advances
<1>5. ASSUME Transferring(v), resp[v] \in {"PENDING", "SETTLED"}
      PROVE  transfers'[k] # Null /\ HasMoved(k)'
  <2>1. job[v] \in Jobs /\ job[v].kind = "transfer"
    BY <1>5 DEF IInv, TypeOK, TransferTypeOK, Transferring
  <2>2. k \in Keys
    BY <1>3, <2>1 DEF Jobs, NoJob
  <2>3. transfers[k] # Null /\ HasMoved(k)
    BY <1>3, <1>5 DEF LifeWorker, AnswersFor, HasMoved
  <2>4. CASE Still(k)
    BY <2>3, <2>4, StillFacts DEF Still, HasMoved
  <2>5. CASE Advances(k, s)
    BY <2>3, <2>5 DEF Advances, Kept
  <2> QED
    BY <2>2, <2>4, <2>5 DEF Lives
<1>6. pc[v] \in BookingSteps \cup ReverseSteps => pc[v] \in InTx
  BY DEF BookingSteps, ReverseSteps, InTx
<1>7. pc[v] \in BookingSteps => transfers'[k].status = "PENDING" /\ Unmoved(k)'
  BY <1>3, <1>4, <1>6, StillFacts DEF LifeWorker, Still
<1>8. pc[v] \in ReverseSteps => transfers'[k].status = "PENDING" /\ Moved(k)'
  BY <1>3, <1>4, <1>6, StillFacts DEF LifeWorker, Still
<1>9. job'[v].key = k
  BY <1>1, <1>3
<1> QED
  BY <1>1, <1>3, <1>4, <1>5, <1>7, <1>8, <1>9 DEF LifeWorker, AnswersFor, Transferring, HasMoved

\* A step in which s alone moves.
LEMMA LifeStep ==
  ASSUME Assumed, IInv, LedgerStatusInv, NEW s,
         Lives(s), RowsHeld(s), Elsewhere(s),
         s \in Workers => LifeWorker(s)'
  PROVE  LedgerStatusInv'
<1>1. \A k \in Keys : LifeInv(k)'
  BY StillFacts DEF Lives, LedgerStatusInv
<1>2. \A v \in Workers : LifeWorker(v)'
  BY OthersLive DEF LedgerStatusInv
<1> QED
  BY <1>1, <1>2 DEF LedgerStatusInv

----------------------------------------------------------------------------
(* The steps that leave transfers and entries as they are.                 *)

\* Answering moves one worker, and gives its answer to no other.
LEMMA AnswerMoves ==
  ASSUME TypeOK, NEW w \in Workers, NEW answer, Answer(w, answer)
  PROVE  /\ pc'[w] = "done" /\ resp'[w] = answer
         /\ \A v \in Workers \ {w} : pc'[v] = pc[v] /\ resp'[v] = resp[v]
BY DEF Answer, Goto, TypeOK, TransferTypeOK

\* Goto moves one worker.
LEMMA GotoMoves ==
  ASSUME TypeOK, NEW w \in Workers, NEW step, Goto(w, step)
  PROVE  pc'[w] = step /\ \A v \in Workers \ {w} : pc'[v] = pc[v]
BY DEF Goto, TypeOK, TransferTypeOK

\* A request taken up is that of one worker.
LEMMA JobMoves ==
  ASSUME TypeOK, NEW w \in Workers, NEW j, job' = [job EXCEPT ![w] = j]
  PROVE  job'[w] = j /\ \A v \in Workers \ {w} : job'[v] = job[v]
BY DEF TypeOK, TransferTypeOK

\* The end of a transaction frees no row of another.
LEMMA ReleaseHolds ==
  ASSUME TypeOK, NEW s, ReleaseAll(s)
  PROVE  RowsHeld(s)
BY DEF ReleaseAll, Release, RowsHeld, TypeOK, DBTypeOK

\* A worker's step that leaves transfers and entries as they are.
LEMMA QuietLife ==
  ASSUME Assumed, IInv, LedgerStatusInv, NEW w \in Workers,
         UNCHANGED <<transfers, entries>>,
         UNCHANGED transferLock \/ ReleaseAll(w), Elsewhere(w), LifeWorker(w)'
  PROVE  LedgerStatusInv'
<1>1. RowsHeld(w)
  BY ReleaseHolds DEF RowsHeld, IInv
<1>2. Lives(w)
  BY TablesStill DEF Lives
<1> QED
  BY <1>1, <1>2, LifeStep

\* An answer that promises nothing is right.
LEMMA Harmless ==
  ASSUME NEW w \in Workers, pc'[w] = "done", resp'[w] \notin {"PENDING", "SETTLED"}
  PROVE  LifeWorker(w)'
BY DEF LifeWorker, AnswersFor, InTx, BookingSteps, ReverseSteps

\* The refusals at the door.
LEMMA RefusedLife ==
  ASSUME Assumed, IInv, LedgerStatusInv, NEW w \in Workers, NEW k \in Keys, NEW o \in Orders,
         RejectInvalid(w, k, o) \/ AcquireUnknown(w, k, o)
  PROVE  LedgerStatusInv'
<1>1. /\ UNCHANGED dbVars
      /\ job' = [job EXCEPT ![w] = Job("transfer", k, o)]
      /\ Answer(w, "REJECTED") \/ Answer(w, "ERROR")
  BY DEF RejectInvalid, AcquireUnknown
<1>2. LifeWorker(w)' /\ Elsewhere(w)
  BY <1>1, AnswerMoves, JobMoves, Harmless DEF Elsewhere, IInv
<1> QED
  BY <1>1, <1>2, QuietLife DEF dbVars

\* A repeated key is answered as its row stands: SETTLED means moved.
LEMMA AcquireExistingLife ==
  ASSUME Assumed, IInv, LedgerStatusInv, NEW w \in Workers, NEW k \in Keys, NEW o \in Orders,
         AcquireExisting(w, k, o)
  PROVE  LedgerStatusInv'
<1>1. /\ UNCHANGED dbVars /\ transfers[k] # Null /\ pc[w] = "idle"
      /\ job' = [job EXCEPT ![w] = Job("transfer", k, o)]
  BY DEF AcquireExisting, Fresh
<1>2. /\ job'[w].key = k /\ job'[w].kind = "transfer"
      /\ \A v \in Workers \ {w} : job'[v] = job[v]
  <2>1. job'[w] = Job("transfer", k, o) /\ \A v \in Workers \ {w} : job'[v] = job[v]
    BY <1>1, JobMoves DEF IInv
  <2> QED
    BY <2>1 DEF Job
<1>3. LifeInv(k) /\ LifeWorker(w)
  BY DEF LedgerStatusInv
<1>4. CASE Answer(w, "CONFLICT") \/ Answer(w, "REJECTED")
  <2>1. LifeWorker(w)' /\ Elsewhere(w)
    BY <1>2, <1>4, AnswerMoves, Harmless DEF Elsewhere, IInv
  <2> QED
    BY <1>1, <2>1, QuietLife DEF dbVars
<1>5. CASE transfers[k].status = "SETTLED" /\ Answer(w, "SETTLED")
  <2>1. pc'[w] = "done" /\ Elsewhere(w)
    BY <1>2, <1>5, AnswerMoves DEF Elsewhere, IInv
  <2>2. Moved(k)'
    BY <1>1, <1>3, <1>5, TablesStill, StillFacts DEF LifeInv, dbVars
  <2>3. transfers'[k] # Null
    BY <1>1 DEF dbVars
  <2>4. LifeWorker(w)'
    BY <1>2, <2>1, <2>2, <2>3 DEF LifeWorker, InTx, BookingSteps, ReverseSteps
  <2> QED
    BY <1>1, <2>1, <2>4, QuietLife DEF dbVars
<1>6. CASE Goto(w, "begin") /\ UNCHANGED <<snap, resp>>
  <2>1. pc'[w] = "begin" /\ resp'[w] = "none" /\ Elsewhere(w)
    BY <1>1, <1>2, <1>3, <1>6, GotoMoves DEF Elsewhere, IInv, LifeWorker
  <2>2. LifeWorker(w)'
    BY <1>2, <2>1 DEF LifeWorker, AnswersFor, InTx, BookingSteps, ReverseSteps
  <2> QED
    BY <1>1, <2>1, <2>2, QuietLife DEF dbVars
<1> QED
  BY <1>4, <1>5, <1>6 DEF AcquireExisting

\* A worker that leaves its transaction, or never was in one, and answers
\* nothing yet.
LEMMA BeforeTx ==
  ASSUME NEW w \in Workers, pc'[w] \in {"begin", "mark"}, job'[w].kind = "transfer",
         resp'[w] = "none"
  PROVE  LifeWorker(w)'
BY DEF LifeWorker, AnswersFor, InTx, BookingSteps, ReverseSteps

\* A transaction that goes on, with its row locked and the tables as they were.
LEMMA GoesOn ==
  ASSUME NEW w \in Workers, LifeWorker(w), UNCHANGED <<transfers, entries, transferLock>>,
         job'[w] = job[w], resp'[w] = resp[w],
         \/ pc[w] \in BookingSteps /\ pc'[w] \in BookingSteps
         \/ pc[w] \in ReverseSteps /\ pc'[w] \in ReverseSteps
  PROVE  LifeWorker(w)'
<1>1. PICK k : k = job[w].key
  OBVIOUS
<1>2. Still(k)
  BY TablesStill
<1>3. job'[w].key = k
  BY <1>1
<1> QED
  BY <1>1, <1>2, <1>3, StillFacts
  DEF LifeWorker, AnswersFor, Transferring, InTx, BookingSteps, ReverseSteps, Still

\* A row's order, and that its accounts differ.
LEMMA RowFacts ==
  ASSUME IInv, NEW k \in Keys, transfers[k] # Null
  PROVE  /\ transfers[k] \in TransferRow
         /\ transfers[k].from \in Accounts /\ transfers[k].to \in Accounts
         /\ transfers[k].from # transfers[k].to
         /\ transfers[k].amount \in Cents \ {0}
BY DEF IInv, RowsInv, TypeOK, DBTypeOK, Null2, TransferRow

\* The count of entries finds what has moved.
LEMMA BookedMeans ==
  ASSUME IInv, NEW k \in Keys, transfers[k] # Null
  PROVE  Booked(k) <=> ~Unmoved(k)
<1>1. Unmoved(k) <=> \A a \in Accounts : Tally(k, a) = <<0, 0>>
  BY RowFacts DEF Unmoved, Tallied
<1> QED
  BY <1>1, BookedTally DEF IInv

\* What the count of entries finds under the row's lock decides: booked means
\* moved, and a transfer that goes on to be booked has moved nothing.
LEMMA LockTransferLife ==
  ASSUME Assumed, IInv, LedgerStatusInv, NEW w \in Workers, LockTransfer(w)
  PROVE  LedgerStatusInv'
<1>1. PICK k : k = job[w].key
  OBVIOUS
<1>2. pc[w] = "begin" /\ UNCHANGED <<tables, accountLock, external, job, tries>>
  BY DEF LockTransfer
<1>3. k \in Keys /\ LifeWorker(w) /\ LifeInv(k) /\ TypeOK
  BY <1>1, <1>2, LiveFacts DEF LedgerStatusInv, IInv, Working, Steps
<1>4. job[w].kind = "transfer" /\ resp[w] = "none" /\ job'[w].key = k
  BY <1>1, <1>2, <1>3 DEF LifeWorker
<1>5. transfers[k] # Null => (Booked(k) <=> ~Unmoved(k))
  BY <1>3, BookedMeans
<1>6. CASE Answer(w, "ERROR") /\ UNCHANGED transferLock
  <2>1. LifeWorker(w)' /\ Elsewhere(w)
    BY <1>2, <1>3, <1>6, AnswerMoves, Harmless DEF Elsewhere
  <2> QED
    BY <1>2, <1>6, <2>1, QuietLife DEF tables
<1>7. CASE /\ transfers[k] # Null
           /\ transfers[k].status = "SETTLED" \/ (transfers[k].status = "PENDING" /\ Booked(k))
           /\ Answer(w, Done)
           /\ UNCHANGED transferLock
  <2>1. Moved(k)
    BY <1>3, <1>5, <1>7 DEF LifeInv
  <2>2. Moved(k)' /\ transfers'[k] # Null
    BY <1>2, <1>7, <2>1, TablesStill, StillFacts DEF tables
  <2>3. pc'[w] = "done" /\ Elsewhere(w)
    BY <1>2, <1>3, <1>7, AnswerMoves DEF Elsewhere
  <2>4. LifeWorker(w)'
    BY <1>4, <2>2, <2>3 DEF LifeWorker, InTx, BookingSteps, ReverseSteps
  <2> QED
    BY <1>2, <1>7, <2>3, <2>4, QuietLife DEF tables
<1>8. CASE Goto(w, "mark") /\ UNCHANGED <<transferLock, snap, resp>>
  <2>1. LifeWorker(w)' /\ Elsewhere(w)
    BY <1>2, <1>3, <1>4, <1>8, GotoMoves, BeforeTx DEF Elsewhere
  <2> QED
    BY <1>2, <1>8, <2>1, QuietLife DEF tables
<1>9. CASE /\ transfers[k] # Null /\ transferLock[k] = Null
           /\ transfers[k].status = "PENDING" /\ ~Booked(k)
           /\ transferLock' = [transferLock EXCEPT ![k] = w]
           /\ Goto(w, "read1")
           /\ UNCHANGED <<snap, resp>>
  <2>1. Unmoved(k)' /\ transfers'[k].status = "PENDING"
    BY <1>2, <1>5, <1>9, TablesStill, StillFacts DEF tables
  <2>2. pc'[w] = "read1" /\ Elsewhere(w)
    BY <1>2, <1>3, <1>9, GotoMoves DEF Elsewhere
  <2>3. transferLock'[k] = w /\ RowsHeld(w)
    <3>1. transferLock \in [Keys -> Null2(Sessions)] /\ Null \notin Sessions
      BY <1>3 DEF TypeOK, DBTypeOK, Assumed, DBAssumption
    <3> QED
      BY <1>3, <1>9, <3>1 DEF RowsHeld
  <2>4. LifeWorker(w)'
    BY <1>2, <1>4, <1>9, <2>1, <2>2, <2>3
    DEF LifeWorker, AnswersFor, InTx, BookingSteps, ReverseSteps
  <2>5. Lives(w)
    BY <1>2, TablesStill DEF Lives, tables
  <2> QED
    BY <2>2, <2>3, <2>4, <2>5, LifeStep
<1> QED
  BY <1>1, <1>6, <1>7, <1>8, <1>9 DEF LockTransfer

\* A transaction ends without a commit: an answer that promises nothing, or
\* another attempt, or markFailed.
LEMMA EndLife ==
  ASSUME Assumed, IInv, LedgerStatusInv, NEW w \in Workers,
         UNCHANGED <<transfers, entries, job>>, EndTx(w),
         \/ \E answer \in {"CONFLICT", "ERROR"} : Answer(w, answer)
         \/ /\ pc[w] \in BookingSteps
            /\ \E step \in {"begin", "mark"} : Goto(w, step)
            /\ UNCHANGED resp
  PROVE  LedgerStatusInv'
<1>1. CASE \E answer \in {"CONFLICT", "ERROR"} : Answer(w, answer)
  <2>1. LifeWorker(w)' /\ Elsewhere(w)
    BY <1>1, AnswerMoves, Harmless DEF Elsewhere, IInv
  <2> QED
    BY <2>1, QuietLife DEF EndTx
<1>2. CASE /\ pc[w] \in BookingSteps
           /\ \E step \in {"begin", "mark"} : Goto(w, step)
           /\ UNCHANGED resp
  <2>1. LifeWorker(w) /\ pc[w] # "done"
    BY <1>2 DEF LedgerStatusInv, BookingSteps
  <2>2. pc'[w] \in {"begin", "mark"} /\ Elsewhere(w)
    BY <1>2, GotoMoves DEF Elsewhere, IInv
  <2>3. job'[w].kind = "transfer" /\ resp'[w] = "none"
    BY <1>2, <2>1 DEF LifeWorker
  <2> QED
    BY <2>2, <2>3, BeforeTx, QuietLife DEF EndTx
<1> QED
  BY <1>1, <1>2

\* The next statement of a transaction that has written nothing.
LEMMA OnwardLife ==
  ASSUME Assumed, IInv, LedgerStatusInv, NEW w \in Workers, NEW step,
         UNCHANGED <<transfers, entries, transferLock, job, resp>>, Goto(w, step),
         \/ pc[w] \in BookingSteps /\ step \in BookingSteps
         \/ pc[w] \in ReverseSteps /\ step \in ReverseSteps
  PROVE  LedgerStatusInv'
<1>1. pc'[w] = step /\ Elsewhere(w)
  BY GotoMoves DEF Elsewhere, IInv
<1>2. LifeWorker(w)'
  BY <1>1, GoesOn DEF LedgerStatusInv
<1> QED
  BY <1>1, <1>2, QuietLife

\* The readings.
LEMMA ReadLife ==
  ASSUME Assumed, IInv, LedgerStatusInv, NEW w \in Workers, ReadFirst(w) \/ ReadSecond(w)
  PROVE  LedgerStatusInv'
<1>1. /\ pc[w] \in BookingSteps /\ UNCHANGED <<tables, job, resp>>
      /\ \/ Refuse(w)
         \/ /\ UNCHANGED transferLock
            /\ Goto(w, "read2") \/ Goto(w, "update1")
  BY DEF ReadFirst, ReadSecond, BookingSteps
<1>2. CASE Refuse(w)
  BY <1>1, <1>2, EndLife DEF Refuse, tables
<1>3. CASE UNCHANGED transferLock /\ (Goto(w, "read2") \/ Goto(w, "update1"))
  BY <1>1, <1>3, OnwardLife DEF BookingSteps, tables
<1> QED
  BY <1>1, <1>2, <1>3

\* The UPDATEs of a booking.
LEMMA UpdateLife ==
  ASSUME Assumed, IInv, LedgerStatusInv, NEW w \in Workers, UpdateFirst(w) \/ UpdateSecond(w)
  PROVE  LedgerStatusInv'
<1>1. /\ pc[w] \in BookingSteps /\ UNCHANGED <<tables, job>>
      /\ \/ EndTx(w) /\ Answer(w, "ERROR")
         \/ Conflict(w)
         \/ /\ UNCHANGED <<transferLock, resp>>
            /\ Goto(w, "update2") \/ Goto(w, "book")
  BY DEF UpdateFirst, UpdateSecond, UpdateAccount, BookingSteps
<1>2. CASE EndTx(w) /\ Answer(w, "ERROR")
  BY <1>1, <1>2, EndLife DEF tables
<1>3. CASE Conflict(w)
  BY <1>1, <1>3, EndLife DEF Conflict, tables
<1>4. CASE /\ UNCHANGED <<transferLock, resp>>
           /\ Goto(w, "update2") \/ Goto(w, "book")
  BY <1>1, <1>4, OnwardLife DEF BookingSteps, tables
<1> QED
  BY <1>1, <1>2, <1>3, <1>4

\* The SELECTs of a reversal.
LEMMA LockLife ==
  ASSUME Assumed, IInv, LedgerStatusInv, NEW w \in Workers, LockFirst(w) \/ LockSecond(w)
  PROVE  LedgerStatusInv'
<1>1. /\ pc[w] \in ReverseSteps /\ UNCHANGED <<tables, job, transferLock, resp>>
      /\ Goto(w, "lock2") \/ Goto(w, "reverse")
  BY DEF LockFirst, LockSecond, LockAccount, ReverseSteps
<1> QED
  BY <1>1, OnwardLife DEF ReverseSteps, tables

\* A rollback.
LEMMA AbortLife ==
  ASSUME Assumed, IInv, LedgerStatusInv, NEW w \in Workers, Abort(w)
  PROVE  LedgerStatusInv'
BY EndLife DEF Abort, tables

\* An answer delivered.
LEMMA DeliverLife ==
  ASSUME Assumed, IInv, LedgerStatusInv, NEW w \in Workers, Deliver(w)
  PROVE  LedgerStatusInv'
<1>1. /\ Goto(w, "idle") /\ UNCHANGED dbVars
      /\ job' = [job EXCEPT ![w] = NoJob] /\ resp' = [resp EXCEPT ![w] = "none"]
  BY DEF Deliver
<1>2. pc'[w] = "idle" /\ job'[w] = NoJob /\ resp'[w] = "none" /\ Elsewhere(w)
  BY <1>1, GotoMoves, JobMoves DEF Elsewhere, IInv, TypeOK, TransferTypeOK
<1>3. LifeWorker(w)'
  BY <1>2 DEF LifeWorker, AnswersFor, InTx, BookingSteps, ReverseSteps
<1> QED
  BY <1>1, <1>2, <1>3, QuietLife DEF dbVars

----------------------------------------------------------------------------
(* The steps that write a transfer's row or its entries.                   *)

\* The three states of a transfer's money exclude one another.
LEMMA OneState ==
  ASSUME NEW k, transfers[k].from \in Accounts, transfers[k].from # transfers[k].to
  PROVE  ~(Unmoved(k) /\ HasMoved(k)) /\ ~(Moved(k) /\ Returned(k))
<1>1. PICK f : f = transfers[k].from
  OBVIOUS
<1>2. /\ Unmoved(k) => Tally(k, f) = <<0, 0>>
      /\ Moved(k) => Tally(k, f) = <<1, 0>>
      /\ Returned(k) => Tally(k, f) = <<1, 1>>
  BY <1>1 DEF Unmoved, Moved, Returned, Tallied
<1>3. <<0, 0>> # <<1, 0>> /\ <<0, 0>> # <<1, 1>> /\ <<1, 0>> # <<1, 1>>
  OBVIOUS
<1> QED
  BY <1>2, <1>3 DEF HasMoved

\* They do so after a step.
LEMMA OneStatePrime ==
  ASSUME NEW CONSTANT k, transfers'[k].from \in Accounts, transfers'[k].from # transfers'[k].to
  PROVE  ~(Unmoved(k)' /\ HasMoved(k)') /\ ~(Moved(k)' /\ Returned(k)')
<1>1. PICK f : f = transfers'[k].from
  OBVIOUS
<1>2. /\ Unmoved(k)' => Tally(k, f)' = <<0, 0>>
      /\ Moved(k)' => Tally(k, f)' = <<1, 0>>
      /\ Returned(k)' => Tally(k, f)' = <<1, 1>>
  BY <1>1 DEF Unmoved, Moved, Returned, Tallied
<1>3. <<0, 0>> # <<1, 0>> /\ <<0, 0>> # <<1, 1>> /\ <<1, 0>> # <<1, 1>>
  OBVIOUS
<1> QED
  BY <1>2, <1>3 DEF HasMoved

----------------------------------------------------------------------------
(* What the steps that write do to the transfer under k.                   *)
From(k, status) == transfers[k] # Null /\ Kept(k) /\ transfers[k].status = status
To(k, status) == transfers'[k].status = status

ClaimedBy(k, s) ==
  /\ s \in Workers /\ job'[s].kind = "transfer" /\ job'[s].key = k
  /\ transfers[k] = Null /\ transfers'[k] \in TransferRow
  /\ transfers'[k].from # transfers'[k].to
  /\ To(k, "PENDING") /\ Unmoved(k)'
BookedBy(k, s) ==
  /\ s \in Workers /\ pc[s] = "book" /\ job[s].key = k /\ transferLock[k] = s
  /\ From(k, "PENDING") /\ (To(k, "PENDING") \/ To(k, "SETTLED"))
  /\ Unmoved(k) /\ Moved(k)'
MarkedBy(k, s) ==
  /\ s \in Workers /\ pc[s] = "mark" /\ job[s].key = k /\ transferLock[k] = Null
  /\ transfers[k] # Null /\ Kept(k)
  /\ transfers'[k] = [transfers[k] EXCEPT !.status = "FAILED"] /\ To(k, "FAILED")
  /\ \A a \in Accounts : Tally(k, a)' = Tally(k, a)
SettledNow(k) ==
  /\ transferLock[k] = Null
  /\ From(k, "PENDING") /\ To(k, "SETTLED") /\ Moved(k) /\ Moved(k)'
FailedNow(k) ==
  /\ transferLock[k] = Null
  /\ From(k, "PENDING") /\ To(k, "FAILED") /\ Unmoved(k) /\ Unmoved(k)'
ReversedBy(k, s) ==
  /\ s \in Workers /\ pc[s] = "reverse" /\ job[s].key = k /\ transferLock[k] = s
  /\ From(k, "PENDING") /\ To(k, "FAILED") /\ Moved(k) /\ Returned(k)'

Effect(k, s) ==
  \/ Still(k) \/ ClaimedBy(k, s) \/ BookedBy(k, s) \/ MarkedBy(k, s)
  \/ SettledNow(k) \/ FailedNow(k) \/ ReversedBy(k, s)

\* A row that keeps its order and its entries keeps its tallies.
LEMMA SameState ==
  ASSUME NEW k, transfers[k] # Null, Kept(k), \A a \in Accounts : Tally(k, a)' = Tally(k, a)
  PROVE  /\ Unmoved(k)' <=> Unmoved(k)
         /\ Moved(k)' <=> Moved(k)
         /\ Returned(k)' <=> Returned(k)
BY DEF Kept, SameOrder, Unmoved, Moved, Returned, Tallied

\* A status written into the row under k, or into none, moves no money.
LEMMA StatusEffect ==
  ASSUME Assumed, IInv, NEW k \in Keys, transfers[k] # Null, NEW st \in TransferStatus,
         transfers' = [transfers EXCEPT ![k].status = st], UNCHANGED entries
  PROVE  /\ Kept(k) /\ To(k, st) /\ transfers'[k] = [transfers[k] EXCEPT !.status = st]
         /\ \A a \in Accounts : Tally(k, a)' = Tally(k, a)
         /\ Unmoved(k)' <=> Unmoved(k)
         /\ Moved(k)' <=> Moved(k)
         /\ \A l \in Keys \ {k} : Still(l)
<1>1. \A l, a : Tally(l, a)' = Tally(l, a)
  BY TallySame
<1>2. /\ transfers'[k] = [transfers[k] EXCEPT !.status = st]
      /\ \A l \in Keys \ {k} : transfers'[l] = transfers[l]
  BY DEF IInv, TypeOK, DBTypeOK
<1>3. Kept(k) /\ To(k, st)
  BY StatusFacts DEF To
<1> QED
  BY <1>1, <1>2, <1>3, SameState DEF Still

\* Every effect leaves the row and the ledger in accord.
LEMMA EffectLives ==
  ASSUME Assumed, IInv, LedgerStatusInv, NEW s, NEW k \in Keys, Effect(k, s)
  PROVE  Still(k) \/ (Advances(k, s) /\ LifeInv(k)')
<1>1. LifeInv(k)
  BY DEF LedgerStatusInv
<1>2. CASE ClaimedBy(k, s)
  <2>1. /\ transfers'[k] # Null /\ transfers'[k].from \in Accounts
        /\ transfers'[k].from # transfers'[k].to
    BY <1>2 DEF ClaimedBy, Assumed, DBAssumption, TransferRow
  <2>2. ~Returned(k)'
    BY <1>2, <2>1, OneStatePrime DEF ClaimedBy, HasMoved
  <2> QED
    BY <1>2, <2>1, <2>2 DEF ClaimedBy, To, Advances, LifeInv
<1>3. ASSUME transfers[k] # Null, Kept(k)
      PROVE  /\ transfers'[k] # Null /\ transfers'[k].from \in Accounts
             /\ transfers'[k].from # transfers'[k].to
  BY <1>3, RowFacts DEF Kept, SameOrder
<1>4. CASE BookedBy(k, s)
  <2>1. ~HasMoved(k)
    BY <1>4, RowFacts, OneState DEF BookedBy, From
  <2>2. transfers'[k] # Null /\ ~Returned(k)'
    BY <1>3, <1>4, OneStatePrime DEF BookedBy, From
  <2> QED
    BY <1>4, <2>1, <2>2 DEF BookedBy, From, To, Advances, LifeInv
<1>5. CASE MarkedBy(k, s)
  <2>1. transfers'[k] # Null
    BY <1>3, <1>5 DEF MarkedBy
  <2> QED
    BY <1>1, <1>5, <2>1, SameState DEF MarkedBy, To, Advances, LifeInv, HasMoved
<1>6. CASE SettledNow(k)
  <2>1. transfers'[k] # Null /\ ~Returned(k)'
    BY <1>3, <1>6, OneStatePrime DEF SettledNow, From
  <2> QED
    BY <1>6, <2>1 DEF SettledNow, From, To, Advances, LifeInv, HasMoved
<1>7. CASE FailedNow(k)
  <2>1. ~HasMoved(k)
    BY <1>7, RowFacts, OneState DEF FailedNow, From
  <2>2. transfers'[k] # Null
    BY <1>3, <1>7 DEF FailedNow, From
  <2> QED
    BY <1>7, <2>1, <2>2 DEF FailedNow, From, To, Advances, LifeInv
<1>8. CASE ReversedBy(k, s)
  <2>1. transfers'[k] # Null
    BY <1>3, <1>8 DEF ReversedBy, From
  <2> QED
    BY <1>8, <2>1 DEF ReversedBy, From, To, Advances, LifeInv, HasMoved
<1> QED
  BY <1>2, <1>4, <1>5, <1>6, <1>7, <1>8 DEF Effect

\* So a step with such effects keeps what is known of every transfer.
LEMMA EffectsLive ==
  ASSUME Assumed, IInv, LedgerStatusInv, NEW s, \A k \in Keys : Effect(k, s)
  PROVE  Lives(s)
BY EffectLives DEF Lives

\* The claim of a key, which has no entries yet.
LEMMA AcquireNewEffect ==
  ASSUME Assumed, IInv, LedgerStatusInv, NEW w \in Workers, NEW k \in Keys, NEW o \in Orders,
         AcquireNew(w, k, o)
  PROVE  ClaimedBy(k, w) /\ \A l \in Keys \ {k} : Still(l)
<1> DEFINE row == [from |-> o.from, to |-> o.to, amount |-> o.amount, status |-> "PENDING"]
<1>1. transfers[k] = Null /\ transfers' = [transfers EXCEPT ![k] = row] /\ UNCHANGED entries
  BY DEF AcquireNew
<1>2. transfers'[k] = row /\ \A l \in Keys \ {k} : transfers'[l] = transfers[l]
  BY <1>1 DEF IInv, TypeOK, DBTypeOK
<1>3. \A l, a : Tally(l, a)' = Tally(l, a)
  BY <1>1, TallySame
<1>4. Unmoved(k)'
  BY <1>1, <1>3 DEF LedgerStatusInv, LifeInv, Unmoved, Tallied
<1>5. row \in TransferRow /\ row.status = "PENDING" /\ row.from # row.to
  <2>1. o.from \in Accounts /\ o.to \in Accounts /\ o.amount \in Cents \ {0}
    BY DEF AcquireNew, Valid, Assumed, TransferAssumption, DBAssumption, Cents
  <2>2. o.from # o.to
    BY DEF AcquireNew, Valid
  <2> QED
    BY <2>1, <2>2 DEF TransferRow, TransferStatus
<1>6. job'[w].kind = "transfer" /\ job'[w].key = k
  <2>1. job'[w] = Job("transfer", k, o)
    BY JobMoves DEF AcquireNew, IInv
  <2> QED
    BY <2>1 DEF Job
<1> QED
  BY <1>1, <1>2, <1>3, <1>4, <1>5, <1>6 DEF ClaimedBy, To, Still

\* A fresh claim: a row without entries, and a worker that is to book it.
LEMMA AcquireNewLife ==
  ASSUME Assumed, IInv, LedgerStatusInv, NEW w \in Workers, NEW k \in Keys, NEW o \in Orders,
         AcquireNew(w, k, o)
  PROVE  LedgerStatusInv'
<1>1. /\ pc[w] = "idle" /\ Goto(w, "begin")
      /\ job' = [job EXCEPT ![w] = Job("transfer", k, o)]
      /\ UNCHANGED <<transferLock, resp>>
  BY DEF AcquireNew, Fresh
<1>2. /\ pc'[w] = "begin" /\ resp'[w] = "none" /\ job'[w] = Job("transfer", k, o)
      /\ Elsewhere(w)
  BY <1>1, GotoMoves, JobMoves DEF Elsewhere, IInv, LedgerStatusInv, LifeWorker
<1>3. LifeWorker(w)'
  <2>1. job'[w].kind = "transfer"
    BY <1>2 DEF Job
  <2> QED
    BY <1>2, <2>1, BeforeTx
<1>4. Lives(w)
  BY AcquireNewEffect, EffectsLive DEF Effect
<1>5. RowsHeld(w)
  BY <1>1 DEF RowsHeld
<1> QED
  BY <1>2, <1>3, <1>4, <1>5, LifeStep

\* The commit of a booking moves the money of its transfer, and of no other.
LEMMA BookEffect ==
  ASSUME Assumed, IInv, LedgerStatusInv, NEW w \in Workers, Book(w),
         NEW k, k = job[w].key
  PROVE  k \in Keys /\ BookedBy(k, w) /\ \A l \in Keys \ {k} : Still(l)
<1>1. PICK f, t, n : f = job[w].from /\ t = job[w].to /\ n = job[w].amount
  OBVIOUS
<1>2. pc[w] = "book" /\ pc[w] \in Working /\ WorkerInv(w) /\ LifeWorker(w)
  BY DEF Book, Working, Steps, InTx, IInv, LedgerStatusInv
<1>3. /\ k \in Keys /\ f \in Accounts /\ t \in Accounts /\ f # t /\ n \in Cents \ {0}
      /\ transfers[k] # Null /\ transfers[k].from = f /\ transfers[k].to = t
  BY <1>1, <1>2, LiveFacts DEF RowOf, SameOrder
<1>4. transferLock[k] = w /\ transfers[k].status = "PENDING" /\ Unmoved(k)
  BY <1>1, <1>2 DEF LifeWorker, InTx, BookingSteps
<1>5. Post(f, FromNew(w), t, ToNew(w), n, k) /\ FromNew(w) \in Cents /\ ToNew(w) \in Cents
  BY <1>1, <1>2, BookAmounts DEF Book
<1>6. \A l \in Keys, a \in Accounts :
        Tally(l, a)' = IF l # k \/ a \notin {f, t} THEN Tally(l, a)
                       ELSE IF a = f THEN <<Tally(l, a)[1] + 1, Tally(l, a)[2]>>
                       ELSE <<Tally(l, a)[1], Tally(l, a)[2] + 1>>
  BY <1>3, <1>5, PostTallies DEF IInv
<1>7. /\ Kept(k)
      /\ To(k, "PENDING") \/ To(k, "SETTLED")
      /\ \A l \in Keys \ {k} : transfers'[l] = transfers[l]
  <2>1. transfers' = IF external THEN transfers ELSE [transfers EXCEPT ![k].status = "SETTLED"]
    BY <1>1 DEF Book
  <2>2. CASE external
    BY <1>3, <1>4, <2>1, <2>2, SameRows DEF To
  <2>3. CASE ~external
    <3>1. Kept(k) /\ To(k, "SETTLED")
      BY <1>3, <2>1, <2>3, StatusFacts DEF To, TransferStatus
    <3> QED
      BY <2>1, <2>3, <3>1 DEF IInv, TypeOK, DBTypeOK
  <2> QED
    BY <2>2, <2>3
<1>8. transfers'[k].from = f /\ transfers'[k].to = t
  BY <1>3, <1>7 DEF Kept, SameOrder
<1>9. \A a \in Accounts : Tally(k, a) = <<0, 0>>
  BY <1>3, <1>4 DEF Unmoved, Tallied
<1>10. Moved(k)'
  BY <1>3, <1>6, <1>8, <1>9 DEF Moved, Tallied
<1>11. \A l \in Keys \ {k} : Still(l)
  BY <1>6, <1>7 DEF Still
<1> QED
  BY <1>1, <1>2, <1>3, <1>4, <1>7, <1>10, <1>11 DEF BookedBy, From

\* Booked under the row's lock, or not at all.
LEMMA BookLife ==
  ASSUME Assumed, IInv, LedgerStatusInv, NEW w \in Workers, Book(w)
  PROVE  LedgerStatusInv'
<1>1. PICK k : k = job[w].key
  OBVIOUS
<1>2. PICK answer \in {Done, "ERROR"} : Answer(w, answer)
  BY DEF Book
<1>3. pc'[w] = "done" /\ UNCHANGED job /\ Elsewhere(w)
  BY <1>2, AnswerMoves DEF Book, Elsewhere, IInv
<1>4. k \in Keys /\ BookedBy(k, w) /\ \A l \in Keys \ {k} : Still(l)
  BY <1>1, BookEffect
<1>5. Moved(k)' /\ transfers'[k] # Null
  BY <1>4 DEF BookedBy, From, Kept
<1>6. job'[w].key = k
  BY <1>1, <1>3
<1>7. LifeWorker(w)'
  BY <1>3, <1>5, <1>6 DEF LifeWorker, InTx, BookingSteps, ReverseSteps
<1>8. Lives(w)
  BY <1>4, EffectsLive DEF Effect
<1>9. RowsHeld(w)
  BY ReleaseHolds DEF Book, EndTx, IInv
<1> QED
  BY <1>3, <1>7, <1>8, <1>9, LifeStep

\* What a reversal does: nothing, or it gives the money of its transfer back.
LEMMA ReverseEffect ==
  ASSUME Assumed, IInv, LedgerStatusInv, NEW w \in Workers, Reverse(w), ~UNCHANGED tables,
         NEW k, k = job[w].key
  PROVE  k \in Keys /\ ReversedBy(k, w) /\ \A l \in Keys \ {k} : Still(l)
<1>1. PICK f, t, n : f = job[w].from /\ t = job[w].to /\ n = job[w].amount
  OBVIOUS
<1>2. pc[w] = "reverse" /\ pc[w] \in Working /\ WorkerInv(w) /\ LifeWorker(w)
  BY DEF Reverse, Working, Steps, InTx, IInv, LedgerStatusInv
<1>3. /\ k \in Keys /\ f \in Accounts /\ t \in Accounts /\ f # t /\ n \in Cents \ {0}
      /\ transfers[k] # Null /\ transfers[k].from = f /\ transfers[k].to = t
  BY <1>1, <1>2, LiveFacts DEF RowOf, SameOrder
<1>4. transferLock[k] = w /\ transfers[k].status = "PENDING" /\ Moved(k)
  BY <1>1, <1>2 DEF LifeWorker, InTx, ReverseSteps
<1>5. /\ ToBack(w) >= 0 /\ BalanceCheck(FromBack(w))
      /\ Post(t, ToBack(w), f, FromBack(w), n, k)
      /\ transfers' = [transfers EXCEPT ![k].status = "FAILED"]
  BY <1>1 DEF Reverse
<1>6. ToBack(w) \in Cents /\ FromBack(w) \in Cents
  BY <1>2, <1>5, ReverseAmounts
<1>7. \A l \in Keys, a \in Accounts :
        Tally(l, a)' = IF l # k \/ a \notin {t, f} THEN Tally(l, a)
                       ELSE IF a = t THEN <<Tally(l, a)[1] + 1, Tally(l, a)[2]>>
                       ELSE <<Tally(l, a)[1], Tally(l, a)[2] + 1>>
  BY <1>3, <1>5, <1>6, PostTallies DEF IInv
<1>8. /\ Kept(k) /\ To(k, "FAILED")
      /\ \A l \in Keys \ {k} : transfers'[l] = transfers[l]
  <2>1. Kept(k) /\ To(k, "FAILED")
    BY <1>3, <1>5, StatusFacts DEF To, TransferStatus
  <2> QED
    BY <1>5, <2>1 DEF IInv, TypeOK, DBTypeOK
<1>9. transfers'[k].from = f /\ transfers'[k].to = t
  BY <1>3, <1>8 DEF Kept, SameOrder
<1>10. /\ Tally(k, f) = <<1, 0>> /\ Tally(k, t) = <<0, 1>>
       /\ \A a \in Accounts \ {f, t} : Tally(k, a) = <<0, 0>>
  BY <1>3, <1>4 DEF Moved, Tallied
<1>11. /\ Tally(k, f)' = <<1, 1>> /\ Tally(k, t)' = <<1, 1>>
       /\ \A a \in Accounts \ {f, t} : Tally(k, a)' = <<0, 0>>
  BY <1>3, <1>7, <1>10
<1>12. Returned(k)'
  BY <1>3, <1>9, <1>11 DEF Returned, Tallied
<1>13. \A l \in Keys \ {k} : Still(l)
  BY <1>7, <1>8 DEF Still
<1> QED
  BY <1>1, <1>2, <1>3, <1>4, <1>8, <1>12, <1>13 DEF ReversedBy, From

\* A reversal gives back what was booked, once.
LEMMA ReverseLife ==
  ASSUME Assumed, IInv, LedgerStatusInv, NEW w \in Workers, Reverse(w)
  PROVE  LedgerStatusInv'
<1>1. CASE UNCHANGED tables
  <2>1. UNCHANGED job /\ EndTx(w)
    BY DEF Reverse
  <2>2. PICK answer \in {"FAILED", "CONFLICT", "ERROR"} : Answer(w, answer)
    BY DEF Reverse
  <2>3. LifeWorker(w)' /\ Elsewhere(w)
    BY <2>1, <2>2, AnswerMoves, Harmless DEF Elsewhere, IInv
  <2> QED
    BY <1>1, <2>1, <2>3, QuietLife DEF EndTx, tables
<1>2. CASE ~UNCHANGED tables
  <2>1. PICK k : k = job[w].key
    OBVIOUS
  <2>2. PICK answer \in {"FAILED", "ERROR"} : Answer(w, answer)
    BY <1>2 DEF Reverse
  <2>3. LifeWorker(w)' /\ Elsewhere(w)
    BY <2>2, AnswerMoves, Harmless DEF Reverse, Elsewhere, IInv
  <2>4. k \in Keys /\ ReversedBy(k, w) /\ \A l \in Keys \ {k} : Still(l)
    BY <1>2, <2>1, ReverseEffect
  <2>5. Lives(w)
    BY <2>4, EffectsLive DEF Effect
  <2>6. RowsHeld(w)
    BY ReleaseHolds DEF Reverse, EndTx, IInv
  <2> QED
    BY <2>3, <2>5, <2>6, LifeStep
<1> QED
  BY <1>1, <1>2

\* markFailed writes one status, or none.
LEMMA MarkFailedEffect ==
  ASSUME Assumed, IInv, NEW w \in Workers, MarkFailed(w), ~UNCHANGED transfers,
         NEW k, k = job[w].key
  PROVE  k \in Keys /\ MarkedBy(k, w) /\ \A l \in Keys \ {k} : Still(l)
<1>1. /\ pc[w] = "mark" /\ transferLock[k] = Null /\ transfers[k] # Null
      /\ transfers' = [transfers EXCEPT ![k].status = "FAILED"] /\ UNCHANGED entries
  BY DEF MarkFailed
<1>2. k \in Keys
  BY <1>1, LiveFacts DEF IInv, Working, Steps
<1>3. "FAILED" \in TransferStatus
  BY DEF TransferStatus
<1> QED
  BY <1>1, <1>2, <1>3, StatusEffect DEF MarkedBy

\* markFailed, whatever it overwrites: that a FAILED row has nothing moved is a
\* matter of clients that wait, and no part of LedgerStatusInv.
LEMMA MarkFailedLife ==
  ASSUME Assumed, IInv, LedgerStatusInv, NEW w \in Workers, MarkFailed(w)
  PROVE  LedgerStatusInv'
<1>1. UNCHANGED <<entries, job, transferLock>> /\ Answer(w, "REJECTED")
  BY DEF MarkFailed
<1>2. LifeWorker(w)' /\ Elsewhere(w)
  BY <1>1, AnswerMoves, Harmless DEF Elsewhere, IInv
<1>3. CASE UNCHANGED transfers
  BY <1>1, <1>2, <1>3, QuietLife
<1>4. CASE ~UNCHANGED transfers
  <2>1. Lives(w)
    BY <1>4, MarkFailedEffect, EffectsLive DEF Effect
  <2>2. RowsHeld(w)
    BY <1>1 DEF RowsHeld
  <2> QED
    BY <1>2, <2>1, <2>2, LifeStep
<1> QED
  BY <1>3, <1>4

\* Settle, and Fail of a transfer without entries, write a status that agrees
\* with the entries counted under the row's lock.
LEMMA SettleEffect ==
  ASSUME Assumed, IInv, LedgerStatusInv, NEW k \in Keys, Settle(k)
  PROVE  SettledNow(k) /\ \A l \in Keys \ {k} : Still(l)
<1>1. /\ transfers[k] # Null /\ transferLock[k] = Null
      /\ transfers[k].status = "PENDING" /\ Booked(k)
      /\ transfers' = [transfers EXCEPT ![k].status = "SETTLED"] /\ UNCHANGED entries
  BY DEF Settle
<1>2. Moved(k)
  BY <1>1, BookedMeans DEF LedgerStatusInv, LifeInv
<1>3. "SETTLED" \in TransferStatus
  BY DEF TransferStatus
<1> QED
  BY <1>1, <1>2, <1>3, StatusEffect DEF SettledNow, From

\* Fail of a row without entries changes that row and nothing else.
LEMMA FailUnbookedEffect ==
  ASSUME Assumed, IInv, NEW k \in Keys, FailUnbooked(k)
  PROVE  FailedNow(k) /\ \A l \in Keys \ {k} : Still(l)
<1>1. /\ transfers[k] # Null /\ transferLock[k] = Null
      /\ transfers[k].status = "PENDING" /\ ~Booked(k)
      /\ transfers' = [transfers EXCEPT ![k].status = "FAILED"] /\ UNCHANGED entries
  BY DEF FailUnbooked
<1>2. Unmoved(k)
  BY <1>1, BookedMeans
<1>3. "FAILED" \in TransferStatus
  BY DEF TransferStatus
<1> QED
  BY <1>1, <1>2, <1>3, StatusEffect DEF FailedNow, From

\* The settlement client's single statements.
LEMMA SettlementLife ==
  ASSUME Assumed, IInv, LedgerStatusInv, NEW k \in Keys, Settle(k) \/ FailUnbooked(k)
  PROVE  LedgerStatusInv'
<1>1. UNCHANGED <<transferLock, pc, job, resp>>
  BY DEF Settle, FailUnbooked, transferVars
<1>2. Lives(Null)
  BY SettleEffect, FailUnbookedEffect, EffectsLive DEF Effect
<1>3. RowsHeld(Null) /\ Elsewhere(Null) /\ Null \notin Workers
  BY <1>1 DEF RowsHeld, Elsewhere, Assumed, DBAssumption, TransferAssumption
<1> QED
  BY <1>2, <1>3, LifeStep

\* Fail takes up a transfer whose money has moved.
LEMMA FailBeginLife ==
  ASSUME Assumed, IInv, LedgerStatusInv, NEW w \in Workers, NEW k \in Keys, FailBegin(w, k)
  PROVE  LedgerStatusInv'
<1>1. /\ pc[w] = "idle" /\ transfers[k] # Null /\ transferLock[k] = Null
      /\ transfers[k].status = "PENDING" /\ Booked(k)
      /\ transferLock' = [transferLock EXCEPT ![k] = w]
      /\ job' = [job EXCEPT ![w] = Job("fail", k, transfers[k])]
      /\ Goto(w, "lock1") /\ UNCHANGED <<transfers, entries, resp>>
  BY DEF FailBegin, tables
<1>2. Moved(k)
  BY <1>1, BookedMeans DEF LedgerStatusInv, LifeInv
<1>3. Moved(k)' /\ transfers'[k].status = "PENDING"
  BY <1>1, <1>2, TablesStill, StillFacts
<1>4. pc'[w] = "lock1" /\ Elsewhere(w)
  BY <1>1, GotoMoves, JobMoves DEF Elsewhere, IInv
<1>5. job'[w].kind = "fail" /\ job'[w].key = k
  <2>1. job'[w] = Job("fail", k, transfers[k])
    BY <1>1, JobMoves DEF IInv
  <2> QED
    BY <2>1 DEF Job
<1>6. transferLock'[k] = w /\ RowsHeld(w)
  <2>1. transferLock \in [Keys -> Null2(Sessions)] /\ Null \notin Sessions
    BY DEF IInv, TypeOK, DBTypeOK, Assumed, DBAssumption
  <2> QED
    BY <1>1, <2>1 DEF RowsHeld
<1>7. resp'[w] = "none"
  BY <1>1 DEF LedgerStatusInv, LifeWorker
<1>8. LifeWorker(w)'
  BY <1>3, <1>4, <1>5, <1>6, <1>7
  DEF LifeWorker, AnswersFor, Transferring, InTx, BookingSteps, ReverseSteps
<1>9. Lives(w)
  BY <1>1, TablesStill DEF Lives
<1> QED
  BY <1>4, <1>6, <1>8, <1>9, LifeStep

----------------------------------------------------------------------------
(* The account service, the restart and the start.                         *)

\* Deposits and withdrawals name no transfer, and lock no transfer's row.
LEMMA AccountStill ==
  ASSUME Assumed, IInv, IInv', AccountNext
  PROVE  \A k \in Keys : Still(k)
<1>1. CASE UNCHANGED <<transfers, entries>>
  BY <1>1, TablesStill
<1>2. ASSUME NEW t \in Tellers, PostMutation(t) PROVE \A k \in Keys : Still(k)
  BY <1>2, MutationTallies DEF PostMutation, Still
<1>3. ASSUME NEW a \in Accounts, Open(a) \/ \E st \in {"ACTIVE", "BLOCKED"} : SetStatus(a, st)
      PROVE  UNCHANGED <<transfers, entries>>
  BY <1>3 DEF Open, SetStatus
<1>4. ASSUME NEW t \in Tellers, \E a \in Accounts, d \in Deltas : Mutate(t, a, d)
      PROVE  UNCHANGED <<transfers, entries>>
  BY <1>4 DEF Mutate, dbVars
<1>5. ASSUME NEW t \in Tellers, ReadBalance(t) \/ UpdateBalance(t) \/ AbortMutation(t)
      PROVE  UNCHANGED <<transfers, entries>>
  BY <1>5 DEF ReadBalance, UpdateBalance, AbortMutation, dbVars, tables
<1> QED
  BY <1>1, <1>2, <1>3, <1>4, <1>5 DEF AccountNext, ProceedMutation

\* The account service takes no transfer's row from the worker that locked it.
LEMMA AccountHolds ==
  ASSUME IInv, AccountNext
  PROVE  \E s \in Tellers \cup {Null} : RowsHeld(s)
<1>1. CASE UNCHANGED transferLock
  BY <1>1 DEF RowsHeld
<1>2. ASSUME NEW t \in Tellers, ReleaseAll(t) PROVE RowsHeld(t)
  BY <1>2, ReleaseHolds DEF IInv
<1>3. ASSUME NEW a \in Accounts, Open(a) \/ \E st \in {"ACTIVE", "BLOCKED"} : SetStatus(a, st)
      PROVE  UNCHANGED transferLock
  BY <1>3 DEF Open, SetStatus
<1>4. ASSUME NEW t \in Tellers, \E a \in Accounts, d \in Deltas : Mutate(t, a, d)
      PROVE  UNCHANGED transferLock
  BY <1>4 DEF Mutate, dbVars
<1>5. ASSUME NEW t \in Tellers, ReadBalance(t) \/ UpdateBalance(t)
      PROVE  UNCHANGED transferLock
  BY <1>5 DEF ReadBalance, UpdateBalance, dbVars
<1>6. ASSUME NEW t \in Tellers, PostMutation(t) \/ AbortMutation(t)
      PROVE  ReleaseAll(t)
  BY <1>6 DEF PostMutation, AbortMutation
<1> QED
  BY <1>1, <1>2, <1>3, <1>4, <1>5, <1>6 DEF AccountNext, ProceedMutation

\* Deposits and withdrawals have no entries of a transfer and no lock on one.
LEMMA AccountLife ==
  ASSUME Assumed, IInv, IInv', LedgerStatusInv, AccountNext, UNCHANGED transferVars
  PROVE  LedgerStatusInv'
<1>1. PICK s \in Tellers \cup {Null} : RowsHeld(s)
  BY AccountHolds
<1>2. s \notin Workers /\ Elsewhere(s)
  BY DEF Elsewhere, transferVars, Assumed, DBAssumption, TransferAssumption, CoreAssumption
<1>3. Lives(s)
  BY AccountStill DEF Lives
<1> QED
  BY <1>1, <1>2, <1>3, LifeStep

\* A worker that serves no request.
LEMMA IdleLife ==
  ASSUME NEW w, pc'[w] = "idle", job'[w] = NoJob, resp'[w] = "none"
  PROVE  LifeWorker(w)'
BY DEF LifeWorker, AnswersFor, InTx, BookingSteps, ReverseSteps

\* A restart keeps what was committed, and nobody is in a transaction.
LEMMA RestartLife ==
  ASSUME LedgerStatusInv, Restart
  PROVE  LedgerStatusInv'
<1>1. \A k \in Keys : LifeInv(k)'
  BY TablesStill, StillFacts DEF Restart, tables, LedgerStatusInv
<1>2. ASSUME NEW w \in Workers PROVE LifeWorker(w)'
  <2>1. pc'[w] = "idle" /\ job'[w] = NoJob /\ resp'[w] = "none"
    BY DEF Restart, TransferRestart
  <2> QED
    BY <2>1, IdleLife
<1> QED
  BY <1>1, <1>2 DEF LedgerStatusInv

\* Nothing changes while nothing happens.
LEMMA StutterLife ==
  ASSUME Assumed, IInv, LedgerStatusInv, UNCHANGED vars
  PROVE  LedgerStatusInv'
<1>1. UNCHANGED <<transfers, entries, transferLock, pc, job, resp>>
  BY DEF vars, dbVars, transferVars
<1>2. Lives(Null) /\ RowsHeld(Null) /\ Elsewhere(Null)
  BY <1>1, TablesStill DEF Lives, RowsHeld, Elsewhere
<1>3. Null \notin Workers
  BY DEF Assumed, DBAssumption, TransferAssumption
<1> QED
  BY <1>2, <1>3, LifeStep

\* At the start there are deposits at most, and no transfer.
LEMMA InitLife ==
  ASSUME Assumed, IInv, Init
  PROVE  LedgerStatusInv
<1>1. ASSUME NEW k \in Keys, NEW a \in Accounts PROVE Tally(k, a) = <<0, 0>>
  <2>1. entries[a] = OpeningEntries(a)
    BY DEF Init
  <2>2. \A i \in DOMAIN OpeningEntries(a) : OpeningEntries(a)[i].transfer = Null
    BY DEF OpeningEntries
  <2>3. Null # k
    BY DEF Assumed, DBAssumption
  <2>4. \A type : Naming(entries[a], k, type) = {}
    BY <2>1, <2>2, <2>3 DEF Naming
  <2>5. \A type : Cardinality(Naming(entries[a], k, type)) = 0
    BY <2>4, FS_EmptySet
  <2> QED
    BY <2>5, LegsNaming DEF Tally
<1>2. ASSUME NEW k \in Keys PROVE LifeInv(k)
  BY <1>1 DEF Init, LifeInv
<1>3. ASSUME NEW w \in Workers PROVE LifeWorker(w)
  <2>1. pc[w] = "idle" /\ job[w] = NoJob /\ resp[w] = "none"
    BY DEF Init, TransferInit
  <2> QED
    BY <2>1 DEF LifeWorker, AnswersFor, InTx, BookingSteps, ReverseSteps
<1> QED
  BY <1>2, <1>3 DEF LedgerStatusInv

----------------------------------------------------------------------------
(* What the services do, all together.                                     *)

\* A request's next statement, whichever it is.
LEMMA ProceedLife ==
  ASSUME Assumed, IInv, LedgerStatusInv, NEW w \in Workers, Proceed(w)
  PROVE  LedgerStatusInv'
BY LockTransferLife, ReadLife, UpdateLife, BookLife, MarkFailedLife, LockLife, ReverseLife,
   DeliverLife
DEF Proceed

\* A request that arrives.
LEMMA SubmitLife ==
  ASSUME Assumed, IInv, LedgerStatusInv, NEW w \in Workers, Submit(w)
  PROVE  LedgerStatusInv'
BY RefusedLife, AcquireNewLife, AcquireExistingLife DEF Submit

\* A step of the transfer service.
LEMMA TransferNextLife ==
  ASSUME Assumed, IInv, LedgerStatusInv, TransferNext
  PROVE  LedgerStatusInv'
BY SubmitLife, ProceedLife, AbortLife, SettlementLife, FailBeginLife DEF TransferNext

\* Every step keeps what the status says of the money.
LEMMA NextLife ==
  ASSUME Assumed, IInv, IInv', LedgerStatusInv, [Next]_vars
  PROVE  LedgerStatusInv'
BY TransferNextLife, AccountLife, RestartLife, StutterLife DEF Next

\* What the row of a transfer and its entries say of each other, whatever the
\* clients, the settlement client and the crashes do.
THEOREM LedgerStatus == Spec => []LedgerStatusInv
<1>1. Init /\ IInv => LedgerStatusInv
  BY AllAssumed, InitLife
<1>2. IInv /\ IInv' /\ LedgerStatusInv /\ [Next]_vars => LedgerStatusInv'
  BY AllAssumed, NextLife
<1> QED
  BY <1>1, <1>2, Invariant, PTL DEF Spec

\* The counts that BookedAtMostOnce compares are the parts of the tallies.
LEMMA TalliedOnce ==
  ASSUME IInv, NEW k \in Keys, transfers[k] # Null, LifeInv(k)
  PROVE  LET from == transfers[k].from
             to == transfers[k].to
         IN /\ Moves(k) = Legs(k, "CREDIT", to)
            /\ Returns(k) = Legs(k, "DEBIT", to)
            /\ Returns(k) <= Moves(k) /\ Moves(k) <= 1
            /\ \A a \in Accounts \ {from, to} :
                 \A i \in DOMAIN entries[a] : entries[a][i].transfer # k
<1>1. PICK f, t : f = transfers[k].from /\ t = transfers[k].to
  OBVIOUS
<1>2. f \in Accounts /\ t \in Accounts /\ f # t
  BY <1>1, RowFacts
<1>3. \/ Tally(k, f) = <<0, 0>> /\ Tally(k, t) = <<0, 0>>
      \/ Tally(k, f) = <<1, 0>> /\ Tally(k, t) = <<0, 1>>
      \/ Tally(k, f) = <<1, 1>> /\ Tally(k, t) = <<1, 1>>
  BY <1>1, <1>2 DEF LifeInv, Unmoved, Moved, Returned, Tallied
<1>4. \A a \in Accounts \ {f, t} : Tally(k, a) = <<0, 0>>
  BY <1>1, <1>2 DEF LifeInv, Unmoved, Moved, Returned, Tallied
<1>5. ASSUME NEW a \in Accounts \ {f, t}, NEW i \in DOMAIN entries[a], entries[a][i].transfer = k
      PROVE  FALSE
  BY <1>4, <1>5, TallyNames DEF IInv
<1>6. /\ Moves(k) = Tally(k, f)[1] /\ Returns(k) = Tally(k, f)[2]
      /\ Legs(k, "DEBIT", t) = Tally(k, t)[1] /\ Legs(k, "CREDIT", t) = Tally(k, t)[2]
  BY <1>1 DEF Moves, Returns, Tally
<1> QED
  BY <1>1, <1>3, <1>5, <1>6

\* A transfer moves its money at most once and gives it back at most once,
\* with both legs each time, whatever its clients repeat.
THEOREM TransfersBookOnce == Spec => []BookedAtMostOnce
<1>1. IInv /\ LedgerStatusInv => BookedAtMostOnce
  BY TalliedOnce DEF LedgerStatusInv, BookedAtMostOnce
<1> QED
  BY <1>1, Invariant, LedgerStatus, PTL

----------------------------------------------------------------------------
(* What a step of the session s does to the locks, as the others see it:   *)
(* none comes to them, and where they are in their requests stays.         *)

NoneComes(s) ==
  /\ \A a \in Accounts, u \in Sessions \ {s} : accountLock'[a] = u => accountLock[a] = u
  /\ \A k \in Keys, u \in Sessions \ {s} : transferLock'[k] = u => transferLock[k] = u
  /\ \A v \in Workers \ {s} : pc'[v] = pc[v] /\ job'[v] = job[v]
  /\ \A t \in Tellers \ {s} : tpc'[t] = tpc[t] /\ tjob'[t] = tjob[t]

\* Then only the holdings of s are in question.
LEMMA HolderStep ==
  ASSUME Assumed, HoldersInv, NEW s, NoneComes(s),
         s \in Workers => WorkerHolds(s)',
         s \in Tellers => TellerHolds(s)'
  PROVE  HoldersInv'
<1>1. ASSUME NEW w \in Workers \ {s} PROVE WorkerHolds(w)'
  <2>1. w \in Sessions \ {s} /\ pc'[w] = pc[w] /\ job'[w] = job[w] /\ WorkerHolds(w)
    BY DEF NoneComes, HoldersInv, Assumed, TransferAssumption
  <2>2. FirstOf(job[w])' = FirstOf(job[w])
    BY <2>1 DEF FirstOf, InOrder
  <2> QED
    BY <2>1, <2>2 DEF NoneComes, WorkerHolds
<1>2. ASSUME NEW t \in Tellers \ {s} PROVE TellerHolds(t)'
  <2>1. t \in Sessions \ {s} /\ TellerHolds(t)
    BY DEF HoldersInv, Assumed, AccountAssumption
  <2> QED
    BY <2>1 DEF NoneComes, TellerHolds
<1> QED
  BY <1>1, <1>2 DEF HoldersInv

\* A session that ends its transaction holds nothing, and nobody gains by it.
LEMMA ReleaseLeaves ==
  ASSUME Assumed, TypeOK, NEW s \in Sessions, ReleaseAll(s)
  PROVE  /\ \A a \in Accounts : accountLock'[a] # s
         /\ \A k \in Keys : transferLock'[k] # s
         /\ \A a \in Accounts, u \in Sessions \ {s} : accountLock'[a] = u => accountLock[a] = u
         /\ \A k \in Keys, u \in Sessions \ {s} : transferLock'[k] = u => transferLock[k] = u
BY DEF ReleaseAll, Release, TypeOK, DBTypeOK, Null2, Assumed, DBAssumption

\* A worker outside a transaction holds nothing.
LEMMA OutsideTx ==
  ASSUME HoldersInv, NEW w \in Workers, pc[w] \notin InTx
  PROVE  /\ \A a \in Accounts : accountLock[a] # w
         /\ \A k \in Keys : transferLock[k] # w
BY DEF HoldersInv, WorkerHolds, InTx

----------------------------------------------------------------------------
(* The steps of a worker.                                                  *)

\* Where a worker goes, the others stay; and it keeps its request, or takes
\* up another.
LEMMA WorkerMoves ==
  ASSUME TypeOK, NEW w \in Workers, NEW step, NEW j,
         Goto(w, step), job' = [job EXCEPT ![w] = j] \/ job' = job, UNCHANGED accountVars
  PROVE  /\ pc'[w] = step
         /\ \A v \in Workers \ {w} : pc'[v] = pc[v] /\ job'[v] = job[v]
         /\ \A t \in Tellers : tpc'[t] = tpc[t] /\ tjob'[t] = tjob[t]
BY DEF Goto, TypeOK, TransferTypeOK, accountVars

\* Outside its transactions a worker may go anywhere without a lock.
LEMMA FreeStep ==
  ASSUME Assumed, TypeOK, HoldersInv, NEW w \in Workers, pc[w] \notin InTx,
         NEW step, NEW j, Goto(w, step), job' = [job EXCEPT ![w] = j] \/ job' = job,
         UNCHANGED <<accountLock, transferLock, accountVars>>
  PROVE  HoldersInv'
<1>1. WorkerHolds(w)'
  BY OutsideTx DEF WorkerHolds
<1>2. NoneComes(w)
  BY WorkerMoves DEF NoneComes
<1>3. w \notin Tellers
  BY DEF Assumed, CoreAssumption
<1> QED
  BY <1>1, <1>2, <1>3, HolderStep

\* The end of a transaction, wherever the worker goes from there.
LEMMA EndStep ==
  ASSUME Assumed, TypeOK, HoldersInv, NEW w \in Workers, EndTx(w),
         NEW step, Goto(w, step), UNCHANGED <<job, accountVars>>
  PROVE  HoldersInv'
<1>1. w \in Sessions /\ w \notin Tellers
  BY DEF Assumed, CoreAssumption
<1>2. WorkerHolds(w)'
  BY <1>1, ReleaseLeaves DEF WorkerHolds, EndTx
<1>3. NoneComes(w)
  BY <1>1, ReleaseLeaves, WorkerMoves DEF NoneComes, EndTx
<1> QED
  BY <1>1, <1>2, <1>3, HolderStep

\* The first statements of a transaction take no account.
LEMMA ReadStep ==
  ASSUME Assumed, TypeOK, HoldersInv, NEW w \in Workers,
         pc[w] \in {"read1", "read2"}, NEW step \in {"read2", "update1"}, Goto(w, step),
         UNCHANGED <<job, accountLock, transferLock, accountVars>>
  PROVE  HoldersInv'
<1>1. WorkerHolds(w)'
  BY WorkerMoves DEF WorkerHolds, HoldersInv, InTx
<1>2. NoneComes(w)
  BY WorkerMoves DEF NoneComes
<1>3. w \notin Tellers
  BY DEF Assumed, CoreAssumption
<1> QED
  BY <1>1, <1>2, <1>3, HolderStep

\* The transaction takes the transfer's row first.
LEMMA BeginStep ==
  ASSUME Assumed, TypeOK, HoldersInv, NEW w \in Workers, pc[w] \notin InTx,
         NEW k \in Keys, transferLock' = [transferLock EXCEPT ![k] = w],
         NEW step \in {"read1", "lock1"}, Goto(w, step),
         NEW j, job' = [job EXCEPT ![w] = j] \/ job' = job, job'[w].key = k,
         UNCHANGED <<accountLock, accountVars>>
  PROVE  HoldersInv'
<1>1. \A a \in Accounts : accountLock'[a] # w
  BY OutsideTx
<1>2. \A i \in Keys : transferLock'[i] = w => i = k
  BY OutsideTx DEF TypeOK, DBTypeOK
<1>3. pc'[w] = step
  BY WorkerMoves
<1>4. WorkerHolds(w)'
  BY <1>1, <1>2, <1>3 DEF WorkerHolds, InTx
<1>5. NoneComes(w)
  BY WorkerMoves DEF NoneComes, TypeOK, DBTypeOK
<1>6. w \notin Tellers
  BY DEF Assumed, CoreAssumption
<1> QED
  BY <1>4, <1>5, <1>6, HolderStep

\* Then the first account, which it goes on to hold alone.
LEMMA FirstStep ==
  ASSUME Assumed, TypeOK, HoldersInv, NEW w \in Workers, pc[w] \in {"update1", "lock1"},
         NEW a \in Accounts, a = FirstOf(job[w]), accountLock' = [accountLock EXCEPT ![a] = w],
         NEW step \in {"update2", "lock2"}, Goto(w, step),
         UNCHANGED <<job, transferLock, accountVars>>
  PROVE  HoldersInv'
<1>1. pc'[w] = step /\ FirstOf(job[w])' = a
  BY WorkerMoves DEF FirstOf, InOrder
<1>2. \A b \in Accounts : accountLock'[b] = w => b = a
  BY DEF HoldersInv, WorkerHolds, TypeOK, DBTypeOK
<1>3. WorkerHolds(w)'
  BY <1>1, <1>2 DEF WorkerHolds, HoldersInv, InTx
<1>4. NoneComes(w)
  BY WorkerMoves DEF NoneComes, TypeOK, DBTypeOK
<1>5. w \notin Tellers
  BY DEF Assumed, CoreAssumption
<1> QED
  BY <1>3, <1>4, <1>5, HolderStep

\* Then the second, and no more: what follows commits.
LEMMA SecondStep ==
  ASSUME Assumed, TypeOK, HoldersInv, NEW w \in Workers, pc[w] \in {"update2", "lock2"},
         NEW a \in Accounts, a = SecondOf(job[w]), accountLock' = [accountLock EXCEPT ![a] = w],
         NEW step \in {"book", "reverse"}, Goto(w, step),
         UNCHANGED <<job, transferLock, accountVars>>
  PROVE  HoldersInv'
<1>1. pc'[w] = step /\ a \in {job[w].from, job[w].to}
      /\ FirstOf(job[w]) \in {job[w].from, job[w].to}
  BY WorkerMoves DEF FirstOf, SecondOf
<1>2. \A b \in Accounts : accountLock'[b] = w => b \in {job[w].from, job[w].to}
  BY <1>1 DEF HoldersInv, WorkerHolds, TypeOK, DBTypeOK
<1>3. WorkerHolds(w)'
  BY <1>1, <1>2 DEF WorkerHolds, HoldersInv, InTx
<1>4. NoneComes(w)
  BY WorkerMoves DEF NoneComes, TypeOK, DBTypeOK
<1>5. w \notin Tellers
  BY DEF Assumed, CoreAssumption
<1> QED
  BY <1>3, <1>4, <1>5, HolderStep

\* The steps of a worker, by what they do with its transaction.
LEMMA WorkerHolders ==
  ASSUME Assumed, IInv, HoldersInv, NEW w \in Workers,
         Submit(w) \/ Proceed(w) \/ Abort(w), UNCHANGED accountVars
  PROVE  HoldersInv'
<1> TypeOK
  BY DEF IInv
<1>1. ASSUME Submit(w) PROVE HoldersInv'
  <2>1. PICK k \in Keys, o \in Orders :
          \/ RejectInvalid(w, k, o) \/ AcquireNew(w, k, o)
          \/ AcquireUnknown(w, k, o) \/ AcquireExisting(w, k, o)
    BY <1>1 DEF Submit
  <2>2. pc[w] \notin InTx
    BY <2>1 DEF RejectInvalid, AcquireNew, AcquireUnknown, AcquireExisting, Fresh, InTx
  <2>3. /\ UNCHANGED <<accountLock, transferLock>>
        /\ job' = [job EXCEPT ![w] = Job("transfer", k, o)]
        /\ Goto(w, "done") \/ Goto(w, "begin")
    BY <2>1 DEF RejectInvalid, AcquireNew, AcquireUnknown, AcquireExisting, Answer, dbVars
  <2> QED
    BY <2>2, <2>3, FreeStep
<1>2. ASSUME LockTransfer(w) PROVE HoldersInv'
  <2>1. PICK k : k = job[w].key
    OBVIOUS
  <2>2. pc[w] \notin InTx /\ job' = job /\ accountLock' = accountLock
    BY <1>2 DEF LockTransfer, InTx
  <2>3. CASE transferLock' = transferLock
    <3>1. Goto(w, "done") \/ Goto(w, "mark") \/ Goto(w, "read1")
      BY <1>2 DEF LockTransfer, Answer
    <3> QED
      BY <2>2, <2>3, <3>1, FreeStep
  <2>4. CASE transferLock' # transferLock
    <3>1. transferLock' = [transferLock EXCEPT ![k] = w] /\ Goto(w, "read1")
      BY <1>2, <2>1, <2>4 DEF LockTransfer
    <3>2. k \in Keys
      BY <1>2, <2>1 DEF LockTransfer, IInv, WorkerInv, Working, Steps, LiveJobs
    <3> QED
      BY <2>1, <2>2, <3>1, <3>2, BeginStep
  <2> QED
    BY <2>3, <2>4
<1>3. ASSUME ReadFirst(w) \/ ReadSecond(w) PROVE HoldersInv'
  <2>1. job' = job /\ pc[w] \in {"read1", "read2"}
    BY <1>3 DEF ReadFirst, ReadSecond
  <2>2. \/ EndTx(w) /\ Goto(w, "mark")
        \/ UNCHANGED <<accountLock, transferLock>> /\ (Goto(w, "read2") \/ Goto(w, "update1"))
    BY <1>3 DEF ReadFirst, ReadSecond, Refuse
  <2> QED
    BY <2>1, <2>2, EndStep, ReadStep
<1>4. ASSUME UpdateFirst(w) \/ LockFirst(w) PROVE HoldersInv'
  <2>1. PICK a : a = FirstOf(job[w])
    OBVIOUS
  <2>2. pc[w] \in {"update1", "lock1"} /\ job' = job
    BY <1>4 DEF UpdateFirst, LockFirst, UpdateAccount, LockAccount
  <2>3. a \in Accounts
    BY <2>1, <2>2 DEF IInv, WorkerInv, Working, Steps, InTx, LiveJobs, FirstOf
  <2>4. \/ EndTx(w) /\ (Goto(w, "begin") \/ Goto(w, "done"))
        \/ /\ accountLock' = [accountLock EXCEPT ![a] = w] /\ UNCHANGED transferLock
           /\ Goto(w, "update2") \/ Goto(w, "lock2")
    BY <1>4, <2>1 DEF UpdateFirst, LockFirst, UpdateAccount, LockAccount, Conflict, Answer
  <2> QED
    BY <2>1, <2>2, <2>3, <2>4, EndStep, FirstStep
<1>5. ASSUME UpdateSecond(w) \/ LockSecond(w) PROVE HoldersInv'
  <2>1. PICK a : a = SecondOf(job[w])
    OBVIOUS
  <2>2. pc[w] \in {"update2", "lock2"} /\ job' = job
    BY <1>5 DEF UpdateSecond, LockSecond, UpdateAccount, LockAccount
  <2>3. a \in Accounts
    BY <2>1, <2>2 DEF IInv, WorkerInv, Working, Steps, InTx, LiveJobs, SecondOf
  <2>4. \/ EndTx(w) /\ (Goto(w, "begin") \/ Goto(w, "done"))
        \/ /\ accountLock' = [accountLock EXCEPT ![a] = w] /\ UNCHANGED transferLock
           /\ Goto(w, "book") \/ Goto(w, "reverse")
    BY <1>5, <2>1 DEF UpdateSecond, LockSecond, UpdateAccount, LockAccount, Conflict, Answer
  <2> QED
    BY <2>1, <2>2, <2>3, <2>4, EndStep, SecondStep
<1>6. ASSUME Book(w) \/ Reverse(w) \/ Abort(w) PROVE HoldersInv'
  <2>1. EndTx(w) /\ Goto(w, "done") /\ job' = job
    BY <1>6 DEF Book, Reverse, Abort, Answer
  <2> QED
    BY <2>1, EndStep
<1>7. ASSUME MarkFailed(w) PROVE HoldersInv'
  <2>1. /\ pc[w] \notin InTx /\ UNCHANGED <<accountLock, transferLock, job>>
        /\ Goto(w, "done")
    BY <1>7 DEF MarkFailed, Answer, InTx
  <2> QED
    BY <2>1, FreeStep
<1>8. ASSUME Deliver(w) PROVE HoldersInv'
  <2>1. /\ pc[w] \notin InTx /\ UNCHANGED <<accountLock, transferLock>>
        /\ Goto(w, "idle") /\ job' = [job EXCEPT ![w] = NoJob]
    BY <1>8 DEF Deliver, InTx, dbVars
  <2> QED
    BY <2>1, FreeStep
<1> QED
  BY <1>1, <1>2, <1>3, <1>4, <1>5, <1>6, <1>7, <1>8 DEF Proceed

\* Fail of a booked transfer takes the transfer's row first as well.
LEMMA FailBeginHolders ==
  ASSUME Assumed, IInv, HoldersInv, NEW w \in Workers, NEW k \in Keys, FailBegin(w, k),
         UNCHANGED accountVars
  PROVE  HoldersInv'
<1>1. TypeOK /\ pc[w] \notin InTx /\ UNCHANGED accountLock
  BY DEF IInv, FailBegin, InTx, tables
<1>2. /\ transferLock' = [transferLock EXCEPT ![k] = w] /\ Goto(w, "lock1")
      /\ job' = [job EXCEPT ![w] = Job("fail", k, transfers[k])]
  BY DEF FailBegin
<1>3. job'[w].key = k
  BY <1>1, <1>2 DEF Job, TypeOK, TransferTypeOK
<1> QED
  BY <1>1, <1>2, <1>3, BeginStep

----------------------------------------------------------------------------
(* The steps of a teller, and of nobody.                                   *)

\* A step after which the sessions are where they were, with the same locks.
LEMMA SameHolders ==
  ASSUME Assumed, HoldersInv, UNCHANGED <<accountLock, transferLock, pc, job, tpc, tjob>>
  PROVE  HoldersInv'
BY DEF HoldersInv, WorkerHolds, TellerHolds, FirstOf, InOrder

\* A teller has an account only between its UPDATE and its commit.
LEMMA TellerHolders ==
  ASSUME Assumed, IInv, HoldersInv, NEW t \in Tellers,
         \/ \E a \in Accounts, d \in Deltas : Mutate(t, a, d)
         \/ ProceedMutation(t) \/ AbortMutation(t),
         UNCHANGED transferVars
  PROVE  HoldersInv'
<1>1. t \in Sessions /\ t \notin Workers /\ TypeOK /\ UNCHANGED <<pc, job>>
  BY DEF Assumed, CoreAssumption, IInv, transferVars
<1>2. \A v \in Tellers \ {t} : tpc'[v] = tpc[v] /\ tjob'[v] = tjob[v]
  BY <1>1 DEF Mutate, ProceedMutation, ReadBalance, UpdateBalance, PostMutation, AbortMutation,
              Finish, TGoto, TypeOK, AccountTypeOK
<1>3. CASE ReleaseAll(t)
  <2>1. TellerHolds(t)'
    BY <1>1, <1>3, ReleaseLeaves DEF TellerHolds
  <2>2. NoneComes(t)
    BY <1>1, <1>2, <1>3, ReleaseLeaves DEF NoneComes
  <2> QED
    BY <1>1, <2>1, <2>2, HolderStep
<1>4. CASE tpc[t] # "post" /\ UNCHANGED <<accountLock, transferLock>>
  <2>1. TellerHolds(t)'
    BY <1>4 DEF TellerHolds, HoldersInv
  <2>2. NoneComes(t)
    BY <1>1, <1>2, <1>4 DEF NoneComes
  <2> QED
    BY <1>1, <2>1, <2>2, HolderStep
<1>5. CASE /\ tpc[t] = "update" /\ TGoto(t, "post")
           /\ accountLock' = [accountLock EXCEPT ![tjob[t].account] = t]
           /\ UNCHANGED <<transferLock, tjob>>
  <2>1. \A a \in Accounts : accountLock'[a] = t => a = tjob[t].account
    BY <1>5 DEF HoldersInv, TellerHolds, IInv, TypeOK, DBTypeOK
  <2>2. TellerHolds(t)'
    BY <1>1, <1>5, <2>1 DEF TellerHolds, HoldersInv, TGoto, TypeOK, AccountTypeOK
  <2>3. NoneComes(t)
    BY <1>1, <1>2, <1>5 DEF NoneComes, TypeOK, DBTypeOK
  <2> QED
    BY <1>1, <2>2, <2>3, HolderStep
<1> QED
  BY <1>3, <1>4, <1>5
  DEF Mutate, ProceedMutation, ReadBalance, UpdateBalance, PostMutation, AbortMutation, dbVars

\* Every step keeps the locks with their reasons.
LEMMA NextHolders ==
  ASSUME Assumed, IInv, HoldersInv, [Next]_vars
  PROVE  HoldersInv'
<1>1. ASSUME TransferNext, UNCHANGED accountVars PROVE HoldersInv'
  <2>1. ASSUME NEW k \in Keys, Settle(k) \/ FailUnbooked(k) PROVE HoldersInv'
    BY <1>1, <2>1, SameHolders DEF Settle, FailUnbooked, transferVars, accountVars
  <2> QED
    BY <1>1, <2>1, WorkerHolders, FailBeginHolders DEF TransferNext
<1>2. ASSUME AccountNext, UNCHANGED transferVars PROVE HoldersInv'
  <2>1. ASSUME NEW a \in Accounts, Open(a) \/ \E s \in {"ACTIVE", "BLOCKED"} : SetStatus(a, s)
        PROVE  HoldersInv'
    BY <1>2, <2>1, SameHolders DEF Open, SetStatus, transferVars, accountVars
  <2> QED
    BY <1>2, <2>1, TellerHolders DEF AccountNext
<1>3. ASSUME Restart PROVE HoldersInv'
  BY <1>3 DEF Restart, HoldersInv, WorkerHolds, TellerHolds, Assumed, DBAssumption,
              TransferAssumption, AccountAssumption
<1>4. ASSUME UNCHANGED vars PROVE HoldersInv'
  BY <1>4, SameHolders DEF vars, dbVars, transferVars, accountVars
<1> QED
  BY <1>1, <1>2, <1>3, <1>4 DEF Next

\* Every row lock of a reachable state is held for the statement its holder
\* has got to: no lock is ever left behind.
THEOREM LocksHaveReasons == Spec => []HoldersInv
<1>1. Init => HoldersInv
  BY AllAssumed DEF Init, HoldersInv, WorkerHolds, TellerHolds, Assumed, DBAssumption,
                    TransferAssumption, AccountAssumption
<1>2. IInv /\ HoldersInv /\ [Next]_vars => HoldersInv'
  BY AllAssumed, NextHolders
<1> QED
  BY <1>1, <1>2, Invariant, PTL DEF Spec

----------------------------------------------------------------------------
(* Waiting in a circle.                                                    *)

\* A finite set of numbers that is not empty has a greatest one.
LEMMA Greatest ==
  ASSUME NEW N \in SUBSET Nat, IsFiniteSet(N), NEW A \in SUBSET N, A # {}
  PROVE  \E a \in A : \A b \in A : b <= a
<1> DEFINE Above(a) == {b \in A : a < b}
           T == {Above(a) : a \in A}
<1> \A a \in A : a \in Nat
  OBVIOUS
<1>1. T \subseteq FiniteSubsetsOf(N) /\ T # {}
  <2>1. FiniteSubsetsOf(N) = SUBSET N
    BY FS_FiniteSubsetsOfFinite
  <2>2. \A a \in A : Above(a) \in SUBSET N
    OBVIOUS
  <2>3. T \subseteq SUBSET N
    BY <2>2
  <2>4. T # {}
    OBVIOUS
  <2> QED
    BY <2>1, <2>3, <2>4
<1>2. IsWellFoundedOn(StrictSubsetOrdering(N), FiniteSubsetsOf(N))
  BY FS_StrictSubsetOrderingWellFounded
<1>3. PICK x \in T : \A y \in T : <<y, x>> \notin StrictSubsetOrdering(N)
  <2> HIDE DEF T
  <2> QED
    BY <1>1, <1>2, WFMin
<1>4. PICK a \in A : x = Above(a)
  BY <1>3
<1>5. ASSUME NEW b \in A, ~ b <= a PROVE FALSE
  <2>1. a \in Nat /\ b \in Nat /\ a < b
    BY <1>5
  <2>2. \A c \in A : b < c => a < c
    BY <2>1
  <2>3. b \in Above(a) /\ b \notin Above(b)
    BY <2>1
  <2>4. Above(b) \subseteq Above(a) /\ Above(b) # Above(a)
    BY <2>2, <2>3
  <2>5. <<Above(b), Above(a)>> \in StrictSubsetOrdering(N)
    BY <2>4 DEF StrictSubsetOrdering
  <2> QED
    BY <1>3, <1>4, <2>5
<1> QED
  BY <1>5

\* order() puts the smaller id first.
LEMMA FirstBelowSecond ==
  ASSUME Assumed, IInv, NEW w \in Workers, pc[w] \in Working
  PROVE  /\ FirstOf(job[w]) \in Accounts /\ SecondOf(job[w]) \in Accounts
         /\ FirstOf(job[w]) < SecondOf(job[w])
<1>1. PICK j : j = job[w]
  OBVIOUS
<1>2. j.from \in Accounts /\ j.to \in Accounts /\ j.from # j.to
  BY <1>1 DEF IInv, WorkerInv, LiveJobs
<1>3. j.from \in Nat /\ j.to \in Nat
  BY <1>2 DEF Assumed, DBAssumption
<1> QED
  BY <1>1, <1>2, <1>3 DEF FirstOf, SecondOf, InOrder

\* The accounts that sessions of S hold.
HeldIn(S) == {a \in Accounts : accountLock[a] \in S}

\* In a circle, whoever holds an account waits for one with a greater id.
LEMMA Climbing ==
  ASSUME Assumed, IInv, HoldersInv, NEW S \in SUBSET Sessions,
         \A s \in S : \E u \in S : WaitsFor(s, u),
         NEW a \in HeldIn(S)
  PROVE  \E b \in HeldIn(S) : a < b
<1>1. PICK s \in S : accountLock[a] = s
  BY DEF HeldIn
<1>2. PICK u \in S : WaitsFor(s, u)
  OBVIOUS
<1>3. a \in Accounts /\ s \in Workers \cup Tellers /\ Workers \cap Tellers = {}
  BY DEF HeldIn, Assumed, CoreAssumption
<1>4. s \in Workers
  BY <1>1, <1>2, <1>3 DEF WaitsFor, HoldersInv, TellerHolds
<1>5. pc[s] \in {"update2", "lock2"} /\ a = FirstOf(job[s])
  BY <1>1, <1>2, <1>3, <1>4 DEF WaitsFor, HoldersInv, WorkerHolds
<1>6. accountLock[SecondOf(job[s])] = u
  BY <1>2, <1>3, <1>4, <1>5 DEF WaitsFor
<1>7. SecondOf(job[s]) \in Accounts /\ a < SecondOf(job[s])
  BY <1>4, <1>5, FirstBelowSecond DEF Working, Steps, InTx
<1> QED
  BY <1>6, <1>7 DEF HeldIn

\* In a circle some account is held: who has a transfer's row and waits, waits
\* for an account.
LEMMA SomeAccountHeld ==
  ASSUME Assumed, IInv, HoldersInv, NEW S \in SUBSET Sessions, S # {},
         \A s \in S : \E u \in S : WaitsFor(s, u)
  PROVE  HeldIn(S) # {}
<1>1. Sessions = Workers \cup Tellers /\ Workers \cap Tellers = {}
  BY DEF Assumed, CoreAssumption
<1>2. ASSUME NEW s \in S, NEW u \in S, WaitsFor(s, u), ~(s \in Workers /\ pc[s] \in {"begin", "mark"})
      PROVE  HeldIn(S) # {}
  <2>1. CASE s \in Workers
    <3>1. pc[s] \in {"update1", "lock1", "update2", "lock2"}
      BY <1>1, <1>2, <2>1 DEF WaitsFor
    <3>2. FirstOf(job[s]) \in Accounts /\ SecondOf(job[s]) \in Accounts
      BY <2>1, <3>1, FirstBelowSecond DEF Working, Steps, InTx
    <3> QED
      BY <1>1, <1>2, <2>1, <3>1, <3>2 DEF WaitsFor, HeldIn
  <2>2. CASE s \in Tellers
    BY <1>1, <1>2, <2>2 DEF WaitsFor, HeldIn, IInv, TellerInv
  <2> QED
    BY <1>1, <2>1, <2>2
<1>3. PICK s \in S, u \in S : WaitsFor(s, u)
  OBVIOUS
<1>4. CASE s \in Workers /\ pc[s] \in {"begin", "mark"}
  <2>1. PICK k : k = job[s].key
    OBVIOUS
  <2>2. k \in Keys
    BY <1>4, <2>1 DEF IInv, WorkerInv, Working, Steps, LiveJobs
  <2>3. transferLock[k] = u
    BY <1>1, <1>3, <1>4, <2>1 DEF WaitsFor
  <2>4. u \in Workers /\ pc[u] \in InTx
    BY <1>1, <2>2, <2>3 DEF HoldersInv, WorkerHolds, TellerHolds
  <2>5. PICK v \in S : WaitsFor(u, v)
    OBVIOUS
  <2> QED
    BY <1>2, <2>4, <2>5 DEF InTx
<1> QED
  BY <1>2, <1>3, <1>4

\* Transfers, reversals, deposits and retries of the same keys never wait for
\* one another in a circle, however many run.  Without end, ever greater ids
\* could be waited for: the accounts are finitely many, as their UUIDs are.
THEOREM NoDeadlock == ASSUME IsFiniteSet(Accounts) PROVE Spec => []NoWaitCycle
<1>1. ASSUME IInv, HoldersInv, NEW S \in (SUBSET Sessions) \ {{}},
             \A s \in S : \E u \in S : WaitsFor(s, u)
      PROVE  FALSE
  <2>1. S \in SUBSET Sessions /\ S # {}
    OBVIOUS
  <2>2. HeldIn(S) # {} /\ \A a \in HeldIn(S) : \E b \in HeldIn(S) : a < b
    BY <1>1, <2>1, AllAssumed, SomeAccountHeld, Climbing
  <2>3. Accounts \in SUBSET Nat /\ HeldIn(S) \in SUBSET Accounts
    BY AllAssumed DEF Assumed, DBAssumption, HeldIn
  <2>4. PICK a \in HeldIn(S) : \A b \in HeldIn(S) : b <= a
    BY <2>2, <2>3, Greatest
  <2>5. PICK b \in HeldIn(S) : a < b
    BY <2>2
  <2>6. a \in Nat /\ b \in Nat /\ b <= a
    BY <2>3, <2>4
  <2> QED
    BY <2>5, <2>6
<1>2. IInv /\ HoldersInv => NoWaitCycle
  BY <1>1 DEF NoWaitCycle
<1> QED
  BY <1>2, Invariant, LocksHaveReasons, PTL

----------------------------------------------------------------------------
(* Every step has one of the effects on every transfer.                    *)

\* A step that leaves transfers and entries alone has none.
LEMMA NoEffect ==
  ASSUME UNCHANGED <<transfers, entries>>, NEW s
  PROVE  \A k \in Keys : Effect(k, s)
BY TablesStill DEF Effect

\* A request that arrives claims one row at most.
LEMMA SubmitEffects ==
  ASSUME Assumed, IInv, LedgerStatusInv, NEW w \in Workers, Submit(w)
  PROVE  \A k \in Keys : Effect(k, w)
<1>1. ASSUME NEW k \in Keys, NEW o \in Orders,
             RejectInvalid(w, k, o) \/ AcquireUnknown(w, k, o) \/ AcquireExisting(w, k, o)
      PROVE  UNCHANGED <<transfers, entries>>
  BY <1>1 DEF RejectInvalid, AcquireUnknown, AcquireExisting, dbVars
<1>2. ASSUME NEW k \in Keys, NEW o \in Orders, AcquireNew(w, k, o)
      PROVE  \A l \in Keys : Effect(l, w)
  BY <1>2, AcquireNewEffect DEF Effect
<1> QED
  BY <1>1, <1>2, NoEffect DEF Submit

\* A request's next statement books, marks or reverses its own row at most.
LEMMA ProceedEffects ==
  ASSUME Assumed, IInv, LedgerStatusInv, NEW w \in Workers, Proceed(w)
  PROVE  \A k \in Keys : Effect(k, w)
<1>1. PICK k : k = job[w].key
  OBVIOUS
<1>2. \/ LockTransfer(w) \/ ReadFirst(w) \/ ReadSecond(w) \/ UpdateFirst(w) \/ UpdateSecond(w)
      \/ LockFirst(w) \/ LockSecond(w) \/ Deliver(w)
      => UNCHANGED <<transfers, entries>>
  BY DEF LockTransfer, ReadFirst, ReadSecond, UpdateFirst, UpdateSecond, UpdateAccount,
         LockFirst, LockSecond, LockAccount, Deliver, tables, dbVars
<1>3. Book(w) => \A l \in Keys : Effect(l, w)
  BY <1>1, BookEffect DEF Effect
<1>4. MarkFailed(w) => \A l \in Keys : Effect(l, w)
  <2>1. MarkFailed(w) => UNCHANGED entries
    BY DEF MarkFailed
  <2> QED
    BY <1>1, <2>1, MarkFailedEffect, NoEffect DEF Effect
<1>5. Reverse(w) => \A l \in Keys : Effect(l, w)
  <2>1. UNCHANGED tables => \A l \in Keys : Effect(l, w)
    BY NoEffect DEF tables
  <2> QED
    BY <1>1, <2>1, ReverseEffect DEF Effect
<1> QED
  BY <1>2, <1>3, <1>4, <1>5, NoEffect DEF Proceed

\* The settlement client's statements, and a worker's that are no part of
\* serving a transfer.
LEMMA OtherEffects ==
  ASSUME Assumed, IInv, LedgerStatusInv, NEW s,
         \/ s \in Workers /\ (Abort(s) \/ \E k \in Keys : FailBegin(s, k))
         \/ \E k \in Keys : Settle(k) \/ FailUnbooked(k)
  PROVE  \A k \in Keys : Effect(k, s)
<1>1. ASSUME s \in Workers, Abort(s) \/ \E k \in Keys : FailBegin(s, k)
      PROVE  UNCHANGED <<transfers, entries>>
  BY <1>1 DEF Abort, FailBegin, tables
<1>2. ASSUME NEW k \in Keys, Settle(k) \/ FailUnbooked(k) PROVE \A l \in Keys : Effect(l, s)
  BY <1>2, SettleEffect, FailUnbookedEffect DEF Effect
<1> QED
  BY <1>1, <1>2, NoEffect

----------------------------------------------------------------------------
(* What the effects do to a transfer nobody else works for.                *)

\* What is settled or failed stays as it is: markFailed, which does not look,
\* only comes to transfers that have moved nothing.
LEMMA FinalStays ==
  ASSUME Assumed, IInv, LedgerStatusInv, WaitingClientsInv, NEW s, NEW k \in Keys, Effect(k, s),
         transfers[k] # Null, transfers[k].status # "PENDING"
  PROVE  transfers'[k] = transfers[k]
<1>1. CASE MarkedBy(k, s)
  <2>1. NothingMoved(k)
    BY <1>1 DEF MarkedBy, WaitingClientsInv, RefusalInv
  <2>2. transfers[k] \in TransferRow /\ ~Moved(k)
    BY <2>1, RowFacts, OneState DEF NothingMoved, HasMoved
  <2>3. transfers[k].status = "FAILED"
    BY <2>2 DEF LedgerStatusInv, LifeInv, TransferRow, TransferStatus
  <2> QED
    BY <1>1, <2>2, <2>3 DEF MarkedBy, TransferRow
<1> QED
  BY <1>1 DEF Effect, Still, ClaimedBy, BookedBy, SettledNow, FailedNow, ReversedBy, From

\* Money that has not moved, or is back, moves only by a booking.
LEMMA NothingMoves ==
  ASSUME Assumed, IInv, NEW s, NEW k \in Keys, Effect(k, s), transfers[k] # Null,
         NothingMoved(k), ~BookedBy(k, s)
  PROVE  NothingMoved(k)'
<1>1. ~Moved(k)
  BY RowFacts, OneState DEF NothingMoved, HasMoved
<1>2. CASE Still(k)
  BY <1>2, StillFacts DEF NothingMoved
<1>3. CASE MarkedBy(k, s)
  BY <1>3, SameState DEF MarkedBy, NothingMoved
<1>4. CASE FailedNow(k)
  BY <1>4 DEF FailedNow, NothingMoved
<1> QED
  BY <1>1, <1>2, <1>3, <1>4 DEF Effect, ClaimedBy, SettledNow, ReversedBy

\* A transfer that is FAILED after a step has nothing moved.
LEMMA FailedKeeps ==
  ASSUME Assumed, IInv, LedgerStatusInv, WaitingClientsInv, NEW s, NEW k \in Keys, Effect(k, s)
  PROVE  FailedInv(k)'
<1>1. CASE Still(k)
  BY <1>1, StillFacts DEF Still, WaitingClientsInv, FailedInv, NothingMoved
<1>2. CASE MarkedBy(k, s)
  <2>1. NothingMoved(k)
    BY <1>2 DEF MarkedBy, WaitingClientsInv, RefusalInv
  <2> QED
    BY <1>2, <2>1, SameState DEF MarkedBy, NothingMoved, FailedInv
<1>3. CASE FailedNow(k) \/ ReversedBy(k, s)
  BY <1>3 DEF FailedNow, ReversedBy, NothingMoved, FailedInv
<1>4. CASE ClaimedBy(k, s) \/ BookedBy(k, s) \/ SettledNow(k)
  BY <1>4 DEF ClaimedBy, BookedBy, SettledNow, To, FailedInv
<1> QED
  BY <1>1, <1>2, <1>3, <1>4 DEF Effect

\* A worker that does not move stays right to refuse: its key is its own.
LEMMA OthersRefuse ==
  ASSUME Assumed, IInv, LedgerStatusInv, WaitingClientsInv, OnePerKey',
         NEW s, \A k \in Keys : Effect(k, s), Elsewhere(s), external' = external,
         NEW v \in Workers \ {s}
  PROVE  RefusalInv(v)'
<1>1. pc'[v] = pc[v] /\ job'[v] = job[v] /\ resp'[v] = resp[v]
  BY DEF Elsewhere
<1>2. PICK k : k = job[v].key
  OBVIOUS
<1>3. RefusalInv(v) /\ LifeWorker(v)
  BY DEF WaitingClientsInv, LedgerStatusInv
<1>4. ASSUME Transferring(v) PROVE k \in Keys /\ ~BookedBy(k, s) /\ ~ClaimedBy(k, s)
  <2>1. job[v] \in Jobs /\ job[v].kind = "transfer"
    BY <1>4 DEF IInv, TypeOK, TransferTypeOK, Transferring
  <2>2. k \in Keys
    BY <1>2, <2>1 DEF Jobs, NoJob
  <2>3. ~BookedBy(k, s)
    <3>1. ASSUME BookedBy(k, s) PROVE s \in Workers /\ Transferring(s) /\ job[s].key = k
      BY <3>1 DEF BookedBy, LedgerStatusInv, LifeWorker, BookingSteps, Transferring
    <3> QED
      BY <1>2, <1>4, <3>1 DEF WaitingClientsInv, OnePerKey
  <2>4. ~ClaimedBy(k, s)
    <3>1. ASSUME ClaimedBy(k, s) PROVE s \in Workers /\ Transferring(s)' /\ job'[s].key = k
      BY <3>1 DEF ClaimedBy, Transferring
    <3>2. Transferring(v)' /\ job'[v].key = k
      BY <1>1, <1>2, <1>4 DEF Transferring
    <3> QED
      BY <3>1, <3>2 DEF OnePerKey
  <2> QED
    BY <2>2, <2>3, <2>4
<1>5. ASSUME Transferring(v), transfers'[k] # Null
      PROVE  transfers[k] # Null /\ (SameOrder(transfers'[k], job[v]) <=> SameOrder(transfers[k], job[v]))
  BY <1>4, <1>5 DEF Effect, Still, MarkedBy, SettledNow, FailedNow, ReversedBy, From, Kept, SameOrder
<1>6. pc[v] = "mark" => NothingMoved(k)'
  <2>1. pc[v] = "mark" => NothingMoved(k) /\ Transferring(v)
    BY <1>2, <1>3 DEF RefusalInv, LifeWorker, Transferring
  <2>2. pc[v] = "mark" => transfers[k] # Null
    BY <1>2, LiveFacts DEF IInv, RowOf, Working, Steps
  <2> QED
    BY <1>4, <2>1, <2>2, NothingMoves
<1>7. ASSUME AnswersFor(v, {"REJECTED"}), transfers'[k] # Null, SameOrder(transfers'[k], job[v])
      PROVE  NothingMoved(k)'
  <2>1. Transferring(v)
    BY <1>7 DEF AnswersFor
  <2>2. transfers[k] # Null /\ SameOrder(transfers[k], job[v])
    BY <1>5, <1>7, <2>1
  <2>3. NothingMoved(k)
    BY <1>2, <1>3, <1>7, <2>2 DEF RefusalInv
  <2> QED
    BY <1>4, <2>1, <2>2, <2>3, NothingMoves
<1>8. ASSUME external, AnswersFor(v, {"SETTLED"}) PROVE transfers'[k].status = "SETTLED"
  <2>1. Transferring(v) /\ transfers[k].status = "SETTLED"
    BY <1>2, <1>3, <1>8 DEF RefusalInv, AnswersFor
  <2>2. transfers[k] # Null
    BY <1>2, <1>3, <1>8 DEF LifeWorker, AnswersFor
  <2> QED
    BY <1>4, <2>1, <2>2, FinalStays
<1>9. job'[v].key = k
  BY <1>1, <1>2
<1> QED
  BY <1>1, <1>6, <1>7, <1>8, <1>9 DEF RefusalInv, AnswersFor, Transferring

\* A step in which s alone moves.
LEMMA WaitStep ==
  ASSUME Assumed, IInv, LedgerStatusInv, WaitingClientsInv, OnePerKey',
         NEW s, \A k \in Keys : Effect(k, s), Elsewhere(s), external' = external,
         s \in Workers => RefusalInv(s)'
  PROVE  WaitingClientsInv'
<1>1. \A k \in Keys : FailedInv(k)'
  BY FailedKeeps
<1>2. \A v \in Workers : RefusalInv(v)'
  BY OthersRefuse
<1> QED
  BY <1>1, <1>2 DEF WaitingClientsInv

----------------------------------------------------------------------------
(* The worker that moves.                                                  *)

\* A key stays the one of a single request, unless a second one takes it up.
LEMMA KeyStays ==
  ASSUME OnePerKey, NEW w \in Workers, Elsewhere(w),
         \/ job'[w] = job[w] \/ job'[w].kind # "transfer"
         \/ \A v \in Workers : Transferring(v) => job[v].key # job'[w].key
  PROVE  OnePerKey'
<1>1. ASSUME NEW v \in Workers \ {w}, job'[v].kind = "transfer", job'[w].kind = "transfer",
             job'[v].key = job'[w].key
      PROVE  FALSE
  BY <1>1 DEF OnePerKey, Elsewhere, Transferring
<1>2. ASSUME NEW u \in Workers \ {w}, NEW v \in Workers \ {w}, job'[u].kind = "transfer",
             job'[v].kind = "transfer", job'[u].key = job'[v].key
      PROVE  u = v
  BY <1>2 DEF OnePerKey, Elsewhere, Transferring
<1> QED
  BY <1>1, <1>2 DEF OnePerKey, Transferring

\* The client of a fresh key has no other request under it.
LEMMA FreshKey ==
  ASSUME ~ClientsOverlap, TypeOK, OnePerKey, NEW w \in Workers, NEW k, NEW o, Fresh(w, k),
         Elsewhere(w), job' = [job EXCEPT ![w] = Job("transfer", k, o)]
  PROVE  job'[w] = Job("transfer", k, o) /\ OnePerKey'
<1>1. job'[w] = Job("transfer", k, o)
  BY JobMoves
<1>2. job'[w].key = k
  BY <1>1 DEF Job
<1>3. \A v \in Workers : Transferring(v) => job[v].key # k
  BY DEF Fresh, Transferring
<1> QED
  BY <1>1, <1>2, <1>3, KeyStays

\* An answer that neither refuses nor calls a transfer settled.
LEMMA NoRefusal ==
  ASSUME NEW w, pc'[w] # "mark", resp'[w] # "REJECTED", external' => resp'[w] # "SETTLED"
  PROVE  RefusalInv(w)'
BY DEF RefusalInv, AnswersFor

\* A request that goes on, or ends without a word on its transfer.
LEMMA PlainWait ==
  ASSUME Assumed, IInv, LedgerStatusInv, WaitingClientsInv,
         NEW w \in Workers, \A k \in Keys : Effect(k, w), Elsewhere(w), external' = external,
         job'[w] = job[w] \/ job'[w].kind # "transfer",
         pc'[w] # "mark", resp'[w] # "REJECTED", external' => resp'[w] # "SETTLED"
  PROVE  WaitingClientsInv'
<1>1. OnePerKey'
  BY KeyStays DEF WaitingClientsInv
<1> QED
  BY <1>1, NoRefusal, WaitStep

\* Requests received: who is refused at the door has no row of that order, or
\* one that is FAILED, and who is told SETTLED has one that is.
LEMMA SubmitWaits ==
  ASSUME ~ClientsOverlap, Assumed, IInv, IInv', LedgerStatusInv, WaitingClientsInv,
         NEW w \in Workers, Submit(w)
  PROVE  WaitingClientsInv'
<1>1. PICK k \in Keys, o \in Orders :
        \/ RejectInvalid(w, k, o)
        \/ AcquireNew(w, k, o) \/ AcquireUnknown(w, k, o) \/ AcquireExisting(w, k, o)
  BY DEF Submit
<1>2. /\ Fresh(w, k) /\ pc[w] = "idle" /\ external' = external
      /\ job' = [job EXCEPT ![w] = Job("transfer", k, o)]
      /\ \/ \E answer \in Answers : Answer(w, answer)
         \/ Goto(w, "begin") /\ UNCHANGED resp
  BY <1>1 DEF RejectInvalid, AcquireNew, AcquireUnknown, AcquireExisting, Fresh, Answers
<1>3. TypeOK /\ OnePerKey /\ resp[w] = "none"
  BY <1>2 DEF IInv, WaitingClientsInv, LedgerStatusInv, LifeWorker
<1>4. Elsewhere(w)
  BY <1>2, <1>3, AnswerMoves, GotoMoves, JobMoves DEF Elsewhere
<1>5. job'[w] = Job("transfer", k, o) /\ OnePerKey'
  BY <1>2, <1>3, <1>4, FreshKey
<1>6. job'[w].key = k /\ \A row : SameOrder(row, job'[w]) <=> SameOrder(row, o)
  BY <1>5 DEF Job, SameOrder
<1>7. SUFFICES RefusalInv(w)'
  BY <1>2, <1>4, <1>5, SubmitEffects, WaitStep
<1>8. CASE RejectInvalid(w, k, o)
  <2>1. pc'[w] = "done" /\ resp'[w] = "REJECTED" /\ ~Valid(o)
    BY <1>3, <1>8, AnswerMoves DEF RejectInvalid
  <2>2. ASSUME transfers'[k] # Null PROVE ~SameOrder(transfers'[k], o)
    <3>1. transfers'[k].from # transfers'[k].to /\ transfers'[k].amount \in Cents \ {0}
      BY <2>2 DEF IInv, RowsInv, TypeOK, DBTypeOK, Null2, TransferRow
    <3>2. transfers'[k].amount > 0
      BY <3>1 DEF Cents, Assumed, DBAssumption
    <3> QED
      BY <2>1, <3>1, <3>2 DEF SameOrder, Valid
  <2> QED
    BY <1>6, <2>1, <2>2 DEF RefusalInv, AnswersFor
<1>9. CASE AcquireNew(w, k, o) \/ AcquireUnknown(w, k, o)
  <2>1. \/ Answer(w, "ERROR")
        \/ Goto(w, "begin") /\ UNCHANGED resp
    BY <1>9 DEF AcquireNew, AcquireUnknown
  <2>2. pc'[w] # "mark" /\ resp'[w] \notin {"REJECTED", "SETTLED"}
    BY <1>3, <2>1, AnswerMoves, GotoMoves
  <2> QED
    BY <2>2, NoRefusal
<1>10. CASE AcquireExisting(w, k, o)
  <2>1. UNCHANGED <<transfers, entries>> /\ transfers[k] # Null
    BY <1>10 DEF AcquireExisting, dbVars
  <2>2. CASE Answer(w, "CONFLICT") \/ (Goto(w, "begin") /\ UNCHANGED resp)
    <3>1. pc'[w] # "mark" /\ resp'[w] \notin {"REJECTED", "SETTLED"}
      BY <1>3, <2>2, AnswerMoves, GotoMoves
    <3> QED
      BY <3>1, NoRefusal
  <2>3. CASE transfers[k].status = "SETTLED" /\ Answer(w, "SETTLED")
    <3>1. pc'[w] = "done" /\ resp'[w] = "SETTLED"
      BY <1>3, <2>3, AnswerMoves
    <3> QED
      BY <1>6, <2>1, <2>3, <3>1 DEF RefusalInv, AnswersFor
  <2>4. CASE transfers[k].status = "FAILED" /\ Answer(w, "REJECTED")
    <3>1. pc'[w] = "done" /\ resp'[w] = "REJECTED"
      BY <1>3, <2>4, AnswerMoves
    <3>2. NothingMoved(k)'
      BY <2>1, <2>4, TablesStill, StillFacts DEF WaitingClientsInv, FailedInv, NothingMoved
    <3> QED
      BY <1>6, <3>1, <3>2 DEF RefusalInv, AnswersFor
  <2> QED
    BY <1>10, <2>2, <2>3, <2>4 DEF AcquireExisting
<1> QED
  BY <1>1, <1>8, <1>9, <1>10

\* A transaction that ends in markFailed has moved nothing.
LEMMA RefuseWaits ==
  ASSUME Assumed, IInv, LedgerStatusInv, WaitingClientsInv, NEW w \in Workers,
         UNCHANGED <<transfers, entries, external, job, resp>>, Goto(w, "mark"),
         pc[w] # "done", NothingMoved(job[w].key)
  PROVE  WaitingClientsInv'
<1>1. PICK k : k = job[w].key
  OBVIOUS
<1>2. pc'[w] = "mark" /\ resp'[w] = "none" /\ job'[w].key = k /\ Elsewhere(w)
  BY <1>1, GotoMoves DEF Elsewhere, IInv, LedgerStatusInv, LifeWorker
<1>3. NothingMoved(k)'
  BY <1>1, TablesStill, StillFacts DEF NothingMoved
<1>4. RefusalInv(w)'
  BY <1>2, <1>3 DEF RefusalInv, AnswersFor
<1>5. OnePerKey'
  BY <1>2, KeyStays DEF WaitingClientsInv
<1> QED
  BY <1>2, <1>4, <1>5, NoEffect, WaitStep

\* The row lock of attempt: it goes on to book, answers that it was booked, or
\* refuses a FAILED row, which has nothing moved.
LEMMA LockTransferWaits ==
  ASSUME Assumed, IInv, LedgerStatusInv, WaitingClientsInv, NEW w \in Workers, LockTransfer(w)
  PROVE  WaitingClientsInv'
<1>1. PICK k : k = job[w].key
  OBVIOUS
<1>2. pc[w] = "begin" /\ UNCHANGED <<transfers, entries, external, job>> /\ TypeOK
  BY DEF LockTransfer, tables, IInv
<1>3. k \in Keys /\ resp[w] = "none"
  BY <1>1, <1>2, LiveFacts DEF IInv, Working, Steps, LedgerStatusInv, LifeWorker
<1>4. CASE \/ Answer(w, "ERROR") \/ Answer(w, Done)
           \/ Goto(w, "read1") /\ UNCHANGED resp
  <2>1. /\ Elsewhere(w) /\ pc'[w] # "mark" /\ resp'[w] # "REJECTED"
        /\ external' => resp'[w] # "SETTLED"
    BY <1>2, <1>3, <1>4, AnswerMoves, GotoMoves DEF Elsewhere, Done
  <2> QED
    BY <1>2, <2>1, NoEffect, PlainWait
<1>5. CASE transfers[k] # Null /\ transfers[k].status = "FAILED" /\ Goto(w, "mark")
           /\ UNCHANGED resp
  <2>1. NothingMoved(k)
    BY <1>3, <1>5 DEF WaitingClientsInv, FailedInv
  <2> QED
    BY <1>1, <1>2, <1>5, <2>1, RefuseWaits
<1> QED
  BY <1>1, <1>4, <1>5 DEF LockTransfer

\* The statements of a booking before its commit: who is refused goes to
\* markFailed from a row that has moved nothing.
LEMMA BookingWaits ==
  ASSUME Assumed, IInv, LedgerStatusInv, WaitingClientsInv, NEW w \in Workers,
         ReadFirst(w) \/ ReadSecond(w) \/ UpdateFirst(w) \/ UpdateSecond(w)
  PROVE  WaitingClientsInv'
<1>1. /\ pc[w] \in BookingSteps /\ UNCHANGED <<transfers, entries, external, job>>
      /\ \/ Goto(w, "mark") /\ UNCHANGED resp
         \/ \E answer \in {"CONFLICT", "ERROR"} : Answer(w, answer)
         \/ /\ \E step \in {"read2", "update1", "update2", "book", "begin"} : Goto(w, step)
            /\ UNCHANGED resp
  BY DEF ReadFirst, ReadSecond, UpdateFirst, UpdateSecond, UpdateAccount, Conflict, Refuse,
         BookingSteps, tables
<1>2. pc[w] # "done" /\ resp[w] = "none" /\ NothingMoved(job[w].key) /\ TypeOK
  BY <1>1 DEF LedgerStatusInv, LifeWorker, BookingSteps, NothingMoved, IInv
<1>3. CASE Goto(w, "mark") /\ UNCHANGED resp
  BY <1>1, <1>2, <1>3, RefuseWaits
<1>4. CASE \E answer \in {"CONFLICT", "ERROR"} : Answer(w, answer)
  <2>1. Elsewhere(w) /\ pc'[w] # "mark" /\ resp'[w] \notin {"REJECTED", "SETTLED"}
    BY <1>1, <1>2, <1>4, AnswerMoves DEF Elsewhere
  <2> QED
    BY <1>1, <2>1, NoEffect, PlainWait
<1>5. CASE /\ \E step \in {"read2", "update1", "update2", "book", "begin"} : Goto(w, step)
           /\ UNCHANGED resp
  <2>1. Elsewhere(w) /\ pc'[w] # "mark" /\ resp'[w] \notin {"REJECTED", "SETTLED"}
    BY <1>1, <1>2, <1>5, GotoMoves DEF Elsewhere
  <2> QED
    BY <1>1, <2>1, NoEffect, PlainWait
<1> QED
  BY <1>1, <1>3, <1>4, <1>5

\* In external mode a booking is answered PENDING.
LEMMA BookWaits ==
  ASSUME Assumed, IInv, LedgerStatusInv, WaitingClientsInv, NEW w \in Workers, Book(w)
  PROVE  WaitingClientsInv'
<1>1. UNCHANGED <<external, job>> /\ TypeOK
  BY DEF Book, IInv
<1>2. PICK answer \in {Done, "ERROR"} : Answer(w, answer)
  BY DEF Book
<1>3. /\ Elsewhere(w) /\ pc'[w] # "mark" /\ resp'[w] # "REJECTED"
      /\ external' => resp'[w] # "SETTLED"
  BY <1>1, <1>2, AnswerMoves DEF Elsewhere, Done
<1>4. \A k \in Keys : Effect(k, w)
  BY ProceedEffects DEF Proceed
<1> QED
  BY <1>1, <1>3, <1>4, PlainWait

\* markFailed refuses for nothing moved, whether or not it gets through.
LEMMA MarkFailedWaits ==
  ASSUME Assumed, IInv, LedgerStatusInv, WaitingClientsInv, NEW w \in Workers, MarkFailed(w)
  PROVE  WaitingClientsInv'
<1>1. PICK k : k = job[w].key
  OBVIOUS
<1>2. pc[w] = "mark" /\ UNCHANGED <<external, job>> /\ Answer(w, "REJECTED") /\ TypeOK
  BY DEF MarkFailed, IInv
<1>3. k \in Keys /\ transfers[k] # Null /\ NothingMoved(k)
  BY <1>1, <1>2, LiveFacts DEF IInv, RowOf, Working, Steps, WaitingClientsInv, RefusalInv
<1>4. \A l \in Keys : Effect(l, w)
  BY ProceedEffects DEF Proceed
<1>5. ~BookedBy(k, w)
  BY <1>2 DEF BookedBy
<1>6. NothingMoved(k)'
  BY <1>3, <1>4, <1>5, NothingMoves
<1>7. Elsewhere(w) /\ pc'[w] = "done" /\ resp'[w] = "REJECTED" /\ job'[w].key = k
  BY <1>1, <1>2, AnswerMoves DEF Elsewhere
<1>8. RefusalInv(w)'
  BY <1>6, <1>7 DEF RefusalInv, AnswersFor
<1>9. OnePerKey'
  BY <1>2, <1>7, KeyStays DEF WaitingClientsInv
<1> QED
  BY <1>2, <1>4, <1>7, <1>8, <1>9, WaitStep

\* The settlement client's requests, rollbacks and deliveries promise nothing.
LEMMA ReversingWaits ==
  ASSUME Assumed, IInv, LedgerStatusInv, WaitingClientsInv, NEW w \in Workers,
         LockFirst(w) \/ LockSecond(w) \/ Reverse(w) \/ Abort(w)
  PROVE  WaitingClientsInv'
<1>1. /\ UNCHANGED <<external, job>> /\ TypeOK
      /\ \/ \E answer \in {"FAILED", "CONFLICT", "ERROR"} : Answer(w, answer)
         \/ /\ pc[w] # "done" /\ UNCHANGED resp
            /\ Goto(w, "lock2") \/ Goto(w, "reverse")
  BY DEF LockFirst, LockSecond, LockAccount, Reverse, Abort, IInv
<1>2. resp[w] = "none" \/ \E answer \in {"FAILED", "CONFLICT", "ERROR"} : Answer(w, answer)
  BY <1>1 DEF LedgerStatusInv, LifeWorker
<1>3. Elsewhere(w) /\ pc'[w] # "mark" /\ resp'[w] \notin {"REJECTED", "SETTLED"}
  BY <1>1, <1>2, AnswerMoves, GotoMoves DEF Elsewhere
<1>4. \A k \in Keys : Effect(k, w)
  BY ProceedEffects, OtherEffects DEF Proceed
<1> QED
  BY <1>1, <1>3, <1>4, PlainWait

\* Once the answer has arrived the client may use the key again.
LEMMA DeliverWaits ==
  ASSUME Assumed, IInv, LedgerStatusInv, WaitingClientsInv, NEW w \in Workers, Deliver(w)
  PROVE  WaitingClientsInv'
<1>1. /\ UNCHANGED <<transfers, entries, external>> /\ Goto(w, "idle")
      /\ job' = [job EXCEPT ![w] = NoJob] /\ resp' = [resp EXCEPT ![w] = "none"]
  BY DEF Deliver, dbVars
<1>2. pc'[w] = "idle" /\ job'[w] = NoJob /\ resp'[w] = "none" /\ Elsewhere(w)
  BY <1>1, GotoMoves, JobMoves DEF Elsewhere, IInv, TypeOK, TransferTypeOK
<1>3. job'[w].kind # "transfer"
  BY <1>2 DEF NoJob
<1> QED
  BY <1>1, <1>2, <1>3, NoEffect, PlainWait

\* Fail with a reversal ahead is no request of a customer.
LEMMA FailBeginWaits ==
  ASSUME Assumed, IInv, LedgerStatusInv, WaitingClientsInv, NEW w \in Workers, NEW k \in Keys,
         FailBegin(w, k)
  PROVE  WaitingClientsInv'
<1>1. /\ pc[w] = "idle" /\ Goto(w, "lock1") /\ UNCHANGED <<external, resp>> /\ TypeOK
      /\ job' = [job EXCEPT ![w] = Job("fail", k, transfers[k])]
  BY DEF FailBegin, IInv
<1>2. pc'[w] = "lock1" /\ resp'[w] = "none" /\ Elsewhere(w)
  BY <1>1, GotoMoves, JobMoves DEF Elsewhere, LedgerStatusInv, LifeWorker
<1>3. job'[w].kind # "transfer"
  <2>1. job'[w] = Job("fail", k, transfers[k])
    BY <1>1, JobMoves
  <2> QED
    BY <2>1 DEF Job
<1>4. \A l \in Keys : Effect(l, w)
  BY OtherEffects
<1> QED
  BY <1>1, <1>2, <1>3, <1>4, PlainWait

\* While no worker moves, nobody's key becomes another's.
LEMMA StillWaits ==
  ASSUME Assumed, IInv, LedgerStatusInv, WaitingClientsInv, UNCHANGED <<external, pc, job, resp>>,
         \A k \in Keys : Effect(k, Null)
  PROVE  WaitingClientsInv'
<1>1. Elsewhere(Null) /\ Null \notin Workers
  BY DEF Elsewhere, Assumed, DBAssumption, TransferAssumption
<1>2. OnePerKey'
  BY DEF WaitingClientsInv, OnePerKey, Transferring
<1> QED
  BY <1>1, <1>2, WaitStep

\* A restart leaves no request.
LEMMA RestartWaits ==
  ASSUME WaitingClientsInv, Restart
  PROVE  WaitingClientsInv'
<1>1. \A k \in Keys : FailedInv(k)'
  BY TablesStill, StillFacts
  DEF Restart, tables, WaitingClientsInv, FailedInv, NothingMoved, Still
<1>2. \A w \in Workers : pc'[w] = "idle" /\ job'[w] = NoJob /\ resp'[w] = "none"
  BY DEF Restart, TransferRestart
<1>3. \A w \in Workers : RefusalInv(w)'
  BY <1>2, NoRefusal
<1>4. OnePerKey'
  BY <1>2 DEF OnePerKey, Transferring, NoJob
<1> QED
  BY <1>1, <1>3, <1>4 DEF WaitingClientsInv

\* Nobody has asked for anything at first.
LEMMA InitWaits ==
  ASSUME Init
  PROVE  WaitingClientsInv
BY DEF Init, TransferInit, WaitingClientsInv, OnePerKey, FailedInv, RefusalInv, Transferring,
       AnswersFor, NoJob

\* A step of the transfer service with clients that wait for their answers.
LEMMA TransferNextWaits ==
  ASSUME ~ClientsOverlap, Assumed, IInv, IInv', LedgerStatusInv, WaitingClientsInv, TransferNext
  PROVE  WaitingClientsInv'
<1>1. ASSUME NEW w \in Workers, Proceed(w) PROVE WaitingClientsInv'
  BY <1>1, LockTransferWaits, BookingWaits, BookWaits, MarkFailedWaits, ReversingWaits,
     DeliverWaits
  DEF Proceed
<1>2. ASSUME NEW k \in Keys, Settle(k) \/ FailUnbooked(k) PROVE WaitingClientsInv'
  <2>1. UNCHANGED <<external, pc, job, resp>>
    BY <1>2 DEF Settle, FailUnbooked, transferVars
  <2>2. \A l \in Keys : Effect(l, Null)
    BY <1>2, OtherEffects
  <2> QED
    BY <2>1, <2>2, StillWaits
<1> QED
  BY <1>1, <1>2, SubmitWaits, ReversingWaits, FailBeginWaits DEF TransferNext

\* Every step, with clients that wait for their answers.
LEMMA NextWaits ==
  ASSUME ~ClientsOverlap, Assumed, IInv, IInv', LedgerStatusInv, WaitingClientsInv, [Next]_vars
  PROVE  WaitingClientsInv'
<1>1. CASE AccountNext /\ UNCHANGED transferVars
  BY <1>1, AccountStill, StillWaits DEF Effect, transferVars
<1>2. CASE UNCHANGED vars
  BY <1>2, NoEffect, StillWaits DEF vars, dbVars, transferVars
<1> QED
  BY <1>1, <1>2, TransferNextWaits, RestartWaits DEF Next

\* Everything that is known of the bank holds in every reachable state.
THEOREM BankIsSound == Spec => []BankInv
<1>1. Init => WaitingClientsInv
  BY InitWaits
<1>2. IInv /\ IInv' /\ LedgerStatusInv /\ LedgerStatusInv' /\ [Next]_vars
        /\ (~ClientsOverlap => WaitingClientsInv) => (~ClientsOverlap => WaitingClientsInv)'
  BY AllAssumed, NextWaits
<1> QED
  BY <1>1, <1>2, Invariant, LedgerStatus, LocksHaveReasons, PTL DEF Spec, BankInv

----------------------------------------------------------------------------
(* What that means for the counts, the answers and the status.             *)

\* Moves and Returns are the tally of the source.
LEMMA MovesAndReturns ==
  ASSUME IInv, NEW k \in Keys, transfers[k] # Null
  PROVE  /\ Unmoved(k) => Moves(k) = 0 /\ Returns(k) = 0
         /\ Moved(k) => Moves(k) = 1 /\ Returns(k) = 0
         /\ Returned(k) => Moves(k) = 1 /\ Returns(k) = 1
<1>1. PICK f : f = transfers[k].from
  OBVIOUS
<1>2. f \in Accounts /\ transfers[k].to # f
  BY <1>1, RowFacts
<1>3. /\ Unmoved(k) => Tally(k, f) = <<0, 0>>
      /\ Moved(k) => Tally(k, f) = <<1, 0>>
      /\ Returned(k) => Tally(k, f) = <<1, 1>>
  BY <1>1, <1>2 DEF Unmoved, Moved, Returned, Tallied
<1>4. Moves(k) = Tally(k, f)[1] /\ Returns(k) = Tally(k, f)[2]
  BY <1>1 DEF Moves, Returns, Tally
<1> QED
  BY <1>3, <1>4

\* The transfer a worker answers for is one of the bank's.
LEMMA AnsweredKey ==
  ASSUME TypeOK, NEW w \in Workers, Transferring(w)
  PROVE  job[w].key \in Keys
<1>1. job[w] \in Jobs /\ job[w].kind = "transfer"
  BY DEF TypeOK, TransferTypeOK, Transferring
<1> QED
  BY <1>1 DEF Jobs, NoJob

\* Whoever is told PENDING or SETTLED has had the money moved, by this request
\* or the one it repeats, whatever other requests repeat the key meanwhile.
THEOREM AcceptedHasMoved ==
  Spec => [](\A w \in Workers :
               AnswersFor(w, {"PENDING", "SETTLED"}) => Moves(job[w].key) = 1)
<1>1. ASSUME IInv, LedgerStatusInv, NEW w \in Workers, AnswersFor(w, {"PENDING", "SETTLED"})
      PROVE  Moves(job[w].key) = 1
  <2>1. job[w].key \in Keys
    BY <1>1, AnsweredKey DEF AnswersFor, IInv
  <2>2. transfers[job[w].key] # Null /\ (Moved(job[w].key) \/ Returned(job[w].key))
    BY <1>1 DEF LedgerStatusInv, LifeWorker
  <2> QED
    BY <1>1, <2>1, <2>2, MovesAndReturns
<1>2. IInv /\ LedgerStatusInv => \A w \in Workers :
        AnswersFor(w, {"PENDING", "SETTLED"}) => Moves(job[w].key) = 1
  BY <1>1
<1> QED
  BY <1>2, Invariant, LedgerStatus, PTL

\* If clients wait for their answers, an answer that accepts a transfer is
\* true, and in external mode SETTLED is told of settled rows only.
THEOREM AnswersAreTrue == ASSUME ~ClientsOverlap PROVE Spec => []AcceptedIsTrue
<1>1. IInv /\ BankInv
        /\ (\A w \in Workers : AnswersFor(w, {"PENDING", "SETTLED"}) => Moves(job[w].key) = 1)
        => AcceptedIsTrue
  BY DEF AcceptedIsTrue, BankInv, WaitingClientsInv, RefusalInv
<1> QED
  BY <1>1, Invariant, BankIsSound, AcceptedHasMoved, PTL

\* If clients wait for their answers, a FAILED transfer has nothing moved:
\* markFailed never overwrites what somebody else has booked.
THEOREM FailureMovesNothing == ASSUME ~ClientsOverlap PROVE Spec => []FailedMovedNothing
<1>1. BankInv => FailedMovedNothing
  BY MovesAndReturns
  DEF BankInv, WaitingClientsInv, FailedInv, NothingMoved, FailedMovedNothing
<1> QED
  BY <1>1, BankIsSound, PTL

\* If clients wait for their answers, whoever is refused finds nothing moved
\* under its key for its order.
THEOREM RefusalMovesNothing == ASSUME ~ClientsOverlap PROVE Spec => []RejectedMovedNothing
<1>1. ASSUME BankInv, NEW w \in Workers, AnswersFor(w, {"REJECTED"}),
             transfers[job[w].key] # Null, SameOrder(transfers[job[w].key], job[w])
      PROVE  Moves(job[w].key) = Returns(job[w].key)
  <2>1. IInv /\ job[w].key \in Keys
    BY <1>1, AnsweredKey DEF AnswersFor, BankInv, IInv
  <2>2. NothingMoved(job[w].key)
    BY <1>1 DEF BankInv, WaitingClientsInv, RefusalInv
  <2> QED
    BY <1>1, <2>1, <2>2, MovesAndReturns DEF NothingMoved
<1>2. BankInv => RejectedMovedNothing
  BY <1>1 DEF RejectedMovedNothing
<1> QED
  BY <1>2, BankIsSound, PTL

\* Every step of the bank has one of the effects.
LEMMA NextEffects ==
  ASSUME Assumed, IInv, IInv', LedgerStatusInv, [Next]_vars
  PROVE  \E s : \A k \in Keys : Effect(k, s)
<1>1. CASE TransferNext
  BY <1>1, SubmitEffects, ProceedEffects, OtherEffects DEF TransferNext
<1>2. CASE AccountNext
  BY <1>2, AccountStill DEF Effect
<1>3. CASE Restart \/ UNCHANGED vars
  <2>1. UNCHANGED <<transfers, entries>>
    BY <1>3 DEF Restart, tables, vars, dbVars
  <2> QED
    BY <2>1, NoEffect
<1> QED
  BY <1>1, <1>2, <1>3 DEF Next

\* If clients wait for their answers, a transfer that is SETTLED or FAILED
\* stays so.
THEOREM FinalStatus == ASSUME ~ClientsOverlap PROVE Spec => StatusFinal
<1>1. ASSUME BankInv, BankInv', [Next]_vars, NEW k \in Keys, transfers[k] # Null,
             transfers[k].status # "PENDING"
      PROVE  transfers'[k] = transfers[k]
  <2>1. IInv /\ IInv' /\ LedgerStatusInv /\ WaitingClientsInv
    BY <1>1 DEF BankInv
  <2>2. PICK s : Effect(k, s)
    BY <1>1, <2>1, AllAssumed, NextEffects
  <2> QED
    BY <1>1, <2>1, <2>2, AllAssumed, FinalStays
<1>2. BankInv /\ BankInv' /\ [Next]_vars =>
        \A k \in Keys : transfers[k] # Null /\ transfers[k].status # "PENDING" =>
          transfers'[k] = transfers[k]
  BY <1>1
<1> QED
  BY <1>2, BankIsSound, PTL DEF Spec, StatusFinal

----------------------------------------------------------------------------
(* The refinement of the atomic bank.                                      *)

\* The variables of the atomic bank.
Balances == [a \in Accounts |-> accounts[a].balance]
Asked    == [k \in Keys |-> OrderOf(k)]
Phased   == [k \in Keys |-> PhaseOf(k)]

----------------------------------------------------------------------------
(* The phase of a transfer.                                                *)

\* What the phase is, told from the status and from where the money is.
PhaseFits(k) ==
  LET row == transfers[k] IN
  /\ row = Null => PhaseOf(k) = "none"
  /\ row # Null /\ row.status = "PENDING" /\ Unmoved(k) => PhaseOf(k) = "registered"
  /\ row # Null /\ row.status = "PENDING" /\ Moved(k) => PhaseOf(k) = "booked"
  /\ row # Null /\ row.status = "SETTLED" /\ Moved(k) => PhaseOf(k) = "settled"
  /\ row # Null /\ row.status = "FAILED" /\ Unmoved(k) => PhaseOf(k) = "rejected"
  /\ row # Null /\ row.status = "FAILED" /\ Returned(k) => PhaseOf(k) = "reversed"

PhasesFit == \A k \in Keys : PhaseFits(k)

\* The phase that a row and its entries stand for is well defined.
LEMMA PhasesAreFit ==
  ASSUME IInv
  PROVE  PhasesFit
<1>1. SUFFICES ASSUME NEW k \in Keys PROVE PhaseFits(k)
  BY DEF PhasesFit
<1>2. PICK row, m, r : row = transfers[k] /\ m = Moves(k) /\ r = Returns(k)
  OBVIOUS
<1>3. PhaseOf(k) =
        CASE row = Null -> "none"
          [] row # Null /\ row.status = "PENDING" /\ <<m, r>> = <<0, 0>> -> "registered"
          [] row # Null /\ row.status = "PENDING" /\ <<m, r>> = <<1, 0>> -> "booked"
          [] row # Null /\ row.status = "SETTLED" /\ <<m, r>> = <<1, 0>> -> "settled"
          [] row # Null /\ row.status = "FAILED" /\ <<m, r>> = <<0, 0>> -> "rejected"
          [] row # Null /\ row.status = "FAILED" /\ <<m, r>> = <<1, 1>> -> "reversed"
          [] OTHER -> "corrupt"
  BY <1>2 DEF PhaseOf
<1>4. row # Null => /\ Unmoved(k) => m = 0 /\ r = 0
                    /\ Moved(k) => m = 1 /\ r = 0
                    /\ Returned(k) => m = 1 /\ r = 1
  BY <1>2, MovesAndReturns
<1>5. row = Null => PhaseOf(k) = "none"
  BY <1>3
<1>6. ASSUME row # Null, row.status = "PENDING", Unmoved(k) PROVE PhaseOf(k) = "registered"
  BY <1>3, <1>4, <1>6
<1>7. ASSUME row # Null, row.status = "PENDING", Moved(k) PROVE PhaseOf(k) = "booked"
  BY <1>3, <1>4, <1>7
<1>8. ASSUME row # Null, row.status = "SETTLED", Moved(k) PROVE PhaseOf(k) = "settled"
  BY <1>3, <1>4, <1>8
<1>9. ASSUME row # Null, row.status = "FAILED", Unmoved(k) PROVE PhaseOf(k) = "rejected"
  BY <1>3, <1>4, <1>9
<1>10. ASSUME row # Null, row.status = "FAILED", Returned(k) PROVE PhaseOf(k) = "reversed"
  BY <1>3, <1>4, <1>10
<1> QED
  BY <1>2, <1>5, <1>6, <1>7, <1>8, <1>9, <1>10 DEF PhaseFits

\* Every transfer is in one of those cases: none is corrupt.
LEMMA OneOfThePhases ==
  ASSUME IInv, LedgerStatusInv, WaitingClientsInv, NEW k \in Keys, transfers[k] # Null
  PROVE  \/ transfers[k].status = "PENDING" /\ (Unmoved(k) \/ Moved(k))
         \/ transfers[k].status = "SETTLED" /\ Moved(k)
         \/ transfers[k].status = "FAILED" /\ (Unmoved(k) \/ Returned(k))
<1>1. transfers[k].status \in {"PENDING", "SETTLED", "FAILED"}
  BY RowFacts DEF TransferRow, TransferStatus
<1> QED
  BY <1>1 DEF LedgerStatusInv, LifeInv, WaitingClientsInv, FailedInv, NothingMoved

\* A transfer that stays has the order and the phase it had.
LEMMA StillPhase ==
  ASSUME IInv, LedgerStatusInv, WaitingClientsInv, PhasesFit, PhasesFit',
         NEW k \in Keys, Still(k)
  PROVE  OrderOf(k)' = OrderOf(k) /\ PhaseOf(k)' = PhaseOf(k)
<1>1. PhaseFits(k) /\ PhaseFits(k)'
  BY DEF PhasesFit
<1>2. transfers'[k] = transfers[k]
  BY DEF Still
<1>3. OrderOf(k)' = OrderOf(k)
  BY <1>2 DEF OrderOf
<1> QED
  BY <1>1, <1>2, <1>3, StillFacts, OneOfThePhases DEF PhaseFits

\* A transfer that is kept has the order it had.
LEMMA KeptOrder ==
  ASSUME NEW k, transfers[k] # Null, Kept(k)
  PROVE  OrderOf(k)' = OrderOf(k)
BY DEF Kept, SameOrder, OrderOf

\* One transfer enters another phase.
LEMMA EntersPhase ==
  ASSUME NEW k \in Keys, NEW from, NEW to, PhaseOf(k) = from, PhaseOf(k)' = to,
         \A l \in Keys \ {k} : PhaseOf(l)' = PhaseOf(l)
  PROVE  Atomic!Enter(k, from, to)
<1>1. Phased[k] = from /\ Phased' = [Phased EXCEPT ![k] = to]
  BY DEF Phased
<1> QED
  BY <1>1 DEF Atomic!Enter, Phased

\* No order changes.
LEMMA OrdersStay ==
  ASSUME \A k \in Keys : OrderOf(k)' = OrderOf(k)
  PROVE  UNCHANGED Asked
BY DEF Asked

\* No balance changes.
LEMMA BalancesStay ==
  ASSUME \A a \in Accounts : accounts'[a].balance = accounts[a].balance
  PROVE  UNCHANGED Balances
BY DEF Balances

\* A step that adds no entry changes no balance.
LEMMA NoEntryNoBalance ==
  ASSUME Assumed, IInv, IInv', [Next]_vars, UNCHANGED entries
  PROVE  UNCHANGED Balances
<1>1. SUFFICES ASSUME NEW a \in Accounts PROVE accounts'[a].balance = accounts[a].balance
  BY BalancesStay
<1>2. Extended(a) /\ entries[a] \in Seq(Entry) /\ entries'[a] = entries[a]
  BY NextExtends DEF IInv, TypeOK, DBTypeOK
<1>3. ASSUME NEW e PROVE Append(entries[a], e) # entries[a]
  <2>1. Len(Append(entries[a], e)) = Len(entries[a]) + 1 /\ Len(entries[a]) \in Nat
    BY <1>2
  <2> QED
    BY <2>1
<1> QED
  BY <1>2, <1>3 DEF Extended

----------------------------------------------------------------------------
(* The steps of the atomic bank.                                           *)

\* What the refinement rests on.
Sound == Assumed /\ IInv /\ IInv' /\ LedgerStatusInv /\ WaitingClientsInv /\ PhasesFit /\ PhasesFit'

\* A step that writes no transfer and no entry is none.
LEMMA QuietRefines ==
  ASSUME Sound, [Next]_vars, UNCHANGED <<transfers, entries>>
  PROVE  UNCHANGED Atomic!vars
<1>1. \A k \in Keys : OrderOf(k)' = OrderOf(k) /\ PhaseOf(k)' = PhaseOf(k)
  BY TablesStill, StillPhase DEF Sound
<1>2. UNCHANGED Balances
  BY NoEntryNoBalance DEF Sound
<1> QED
  BY <1>1, <1>2 DEF Atomic!vars, Balances

\* A claim registers.
LEMMA ClaimRefines ==
  ASSUME Sound, [Next]_vars, UNCHANGED entries, NEW s, NEW k \in Keys, ClaimedBy(k, s),
         \A l \in Keys \ {k} : Still(l)
  PROVE  Atomic!Next
<1>1. PICK row : row = transfers'[k]
  OBVIOUS
<1>2. /\ transfers[k] = Null /\ row \in TransferRow /\ row # Null
      /\ row.from # row.to /\ row.status = "PENDING" /\ Unmoved(k)'
  BY <1>1 DEF ClaimedBy, To, Sound, Assumed, DBAssumption
<1>3. row.from \in Accounts /\ row.to \in Accounts /\ row.amount \in Cents \ {0}
  BY <1>2 DEF TransferRow
<1>4. \A l \in Keys \ {k} : OrderOf(l)' = OrderOf(l) /\ PhaseOf(l)' = PhaseOf(l)
  BY StillPhase DEF Sound
<1>5. PhaseOf(k) = "none" /\ PhaseOf(k)' = "registered"
  BY <1>1, <1>2 DEF Sound, PhasesFit, PhaseFits
<1>6. Atomic!Enter(k, "none", "registered")
  BY <1>4, <1>5, EntersPhase
<1>7. OrderOf(k)' = [from |-> row.from, to |-> row.to, amount |-> row.amount]
  BY <1>1, <1>2 DEF OrderOf
<1>8. Asked' = [Asked EXCEPT ![k] = [from |-> row.from, to |-> row.to, amount |-> row.amount]]
  BY <1>4, <1>7 DEF Asked
<1>9. UNCHANGED Balances
  BY NoEntryNoBalance DEF Sound
<1>10. Atomic!Register(k, row.from, row.to, row.amount)
  BY <1>2, <1>6, <1>8, <1>9 DEF Atomic!Register, Asked, Balances
<1> QED
  BY <1>3, <1>10 DEF Atomic!Next

\* A written status rejects or settles, or is nothing new.
LEMMA StatusRefines ==
  ASSUME Sound, [Next]_vars, UNCHANGED entries, NEW s, NEW k \in Keys,
         MarkedBy(k, s) \/ SettledNow(k) \/ FailedNow(k),
         \A l \in Keys \ {k} : Still(l)
  PROVE  Atomic!Next \/ UNCHANGED Atomic!vars
<1>1. \A l \in Keys \ {k} : OrderOf(l)' = OrderOf(l) /\ PhaseOf(l)' = PhaseOf(l)
  BY StillPhase DEF Sound
<1>2. UNCHANGED Balances
  BY NoEntryNoBalance DEF Sound
<1>3. transfers[k] # Null /\ Kept(k) /\ transfers'[k] # Null
  BY DEF MarkedBy, SettledNow, FailedNow, From, Kept
<1>4. UNCHANGED Asked
  BY <1>1, <1>3, KeptOrder, OrdersStay
<1>5. PhaseFits(k) /\ PhaseFits(k)'
  BY DEF Sound, PhasesFit
<1>6. ASSUME transfers[k].status = "PENDING", Unmoved(k), To(k, "FAILED"), Unmoved(k)'
      PROVE  Atomic!Next
  <2>1. PhaseOf(k) = "registered" /\ PhaseOf(k)' = "rejected"
    BY <1>3, <1>5, <1>6 DEF PhaseFits, To
  <2>2. Atomic!Reject(k)
    BY <1>1, <1>2, <1>4, <2>1, EntersPhase DEF Atomic!Reject, Asked, Balances
  <2> QED
    BY <2>2 DEF Atomic!Next
<1>7. CASE FailedNow(k)
  BY <1>6, <1>7 DEF FailedNow, From
<1>8. CASE SettledNow(k)
  <2>1. PhaseOf(k) = "booked" /\ PhaseOf(k)' = "settled"
    BY <1>3, <1>5, <1>8 DEF PhaseFits, SettledNow, From, To
  <2>2. Atomic!Settle(k)
    BY <1>1, <1>2, <1>4, <2>1, EntersPhase DEF Atomic!Settle, Asked, Balances
  <2> QED
    BY <2>2 DEF Atomic!Next
<1>9. CASE MarkedBy(k, s)
  <2>1. NothingMoved(k)
    BY <1>9 DEF MarkedBy, Sound, WaitingClientsInv, RefusalInv
  <2>2. CASE transfers[k].status = "PENDING"
    <3>1. Unmoved(k)
      BY <1>3, <2>1, <2>2 DEF NothingMoved, Sound, LedgerStatusInv, LifeInv
    <3>2. Unmoved(k)' /\ To(k, "FAILED")
      BY <1>9, <3>1, SameState DEF MarkedBy
    <3> QED
      BY <1>6, <2>2, <3>1, <3>2
  <2>3. CASE transfers[k].status # "PENDING"
    <3>1. transfers'[k] = transfers[k]
      BY <1>3, <1>9, <2>3, FinalStays DEF Effect, Sound
    <3>2. Still(k)
      BY <1>9, <3>1 DEF MarkedBy, Still
    <3>3. \A l \in Keys : OrderOf(l)' = OrderOf(l) /\ PhaseOf(l)' = PhaseOf(l)
      BY <1>1, <3>2, StillPhase DEF Sound
    <3> QED
      BY <1>2, <3>3 DEF Atomic!vars, Balances
  <2> QED
    BY <2>2, <2>3
<1> QED
  BY <1>7, <1>8, <1>9

\* The entries of a movement move the money.
LEMMA PostMoves ==
  ASSUME IInv, NEW d \in Accounts, NEW c \in Accounts, d # c, NEW n \in Cents, NEW k,
         NEW db \in Cents, db = accounts[d].balance - n,
         NEW cb \in Cents, cb = accounts[c].balance + n, MaxCents \in Nat,
         Post(d, db, c, cb, n, k)
  PROVE  Atomic!Move(d, c, n)
<1>1. accounts \in [Accounts -> AccountRow]
  BY DEF IInv, TypeOK, DBTypeOK
<1>2. /\ accounts[d].balance \in Nat /\ accounts[c].balance \in Nat /\ n \in Nat
      /\ db >= 0 /\ cb <= MaxCents
  BY <1>1 DEF AccountRow, Cents
<1>3. /\ accounts'[d] = Stored(accounts[d], db) /\ accounts'[c] = Stored(accounts[c], cb)
      /\ \A a \in Accounts \ {d, c} : accounts'[a] = accounts[a]
  BY <1>1 DEF Post
<1>4. /\ Balances[d] = accounts[d].balance /\ Balances[c] = accounts[c].balance
      /\ Balances'[d] = db /\ Balances'[c] = cb
      /\ \A a \in Accounts \ {d, c} : Balances'[a] = Balances[a]
  BY <1>3 DEF Balances, Stored
<1>5. Balances' = [Balances EXCEPT ![d] = @ - n, ![c] = @ + n]
  <2>1. Balances = [a \in Accounts |-> Balances[a]] /\ Balances' = [a \in Accounts |-> Balances'[a]]
    BY DEF Balances
  <2> QED
    BY <1>4, <2>1
<1>6. Balances[d] >= n /\ Balances[c] + n <= MaxCents
  BY <1>2, <1>4
<1> QED
  BY <1>5, <1>6 DEF Atomic!Move, Balances

\* The commit of a booking is Book of the atomic bank.
LEMMA BookRefines ==
  ASSUME Sound, NEW w \in Workers, Book(w)
  PROVE  Atomic!Next
<1>1. PICK k, f, t, n : k = job[w].key /\ f = job[w].from /\ t = job[w].to /\ n = job[w].amount
  OBVIOUS
<1>2. pc[w] = "book" /\ pc[w] \in Working /\ Assumed /\ IInv /\ LedgerStatusInv
  BY DEF Book, Working, Steps, InTx, Sound
<1>3. k \in Keys /\ BookedBy(k, w) /\ \A l \in Keys \ {k} : Still(l)
  BY <1>1, <1>2, BookEffect
<1>4. /\ f \in Accounts /\ t \in Accounts /\ f # t /\ n \in Cents \ {0}
      /\ transfers[k] # Null /\ SameOrder(transfers[k], job[w])
  BY <1>1, <1>2, LiveFacts DEF RowOf, IInv
<1>5. Atomic!Move(f, t, n)
  <2>1. /\ Post(f, FromNew(w), t, ToNew(w), n, k)
        /\ FromNew(w) \in Cents /\ FromNew(w) = accounts[f].balance - n
        /\ ToNew(w) \in Cents /\ ToNew(w) = accounts[t].balance + n
    BY <1>1, <1>2, BookAmounts DEF Book
  <2>2. MaxCents \in Nat
    BY <1>2 DEF Assumed, DBAssumption
  <2> QED
    BY <1>2, <1>4, <2>1, <2>2, PostMoves
<1>6. \A l \in Keys \ {k} : OrderOf(l)' = OrderOf(l) /\ PhaseOf(l)' = PhaseOf(l)
  BY <1>3, StillPhase DEF Sound
<1>7. UNCHANGED Asked
  BY <1>3, <1>6, KeptOrder, OrdersStay DEF BookedBy, From
<1>8. Asked[k].from = f /\ Asked[k].to = t /\ Asked[k].amount = n
  BY <1>1, <1>3, <1>4 DEF Asked, OrderOf, SameOrder
<1>9. PhaseOf(k) = "registered" /\ (PhaseOf(k)' = "booked" \/ PhaseOf(k)' = "settled")
  BY <1>3 DEF Sound, PhasesFit, PhaseFits, BookedBy, From, To, Kept
<1>10. Atomic!Enter(k, "registered", "booked") \/ Atomic!Enter(k, "registered", "settled")
  BY <1>3, <1>6, <1>9, EntersPhase
<1>11. Atomic!Move(Asked[k].from, Asked[k].to, Asked[k].amount)
  BY <1>5, <1>8 DEF Atomic!Move
<1>12. Atomic!Book(k)
  BY <1>7, <1>10, <1>11 DEF Atomic!Book, Asked
<1> QED
  BY <1>3, <1>12 DEF Atomic!Next

\* The commit of a reversal is Reverse of the atomic bank.
LEMMA ReverseRefines ==
  ASSUME Sound, NEW w \in Workers, Reverse(w), ~UNCHANGED tables
  PROVE  Atomic!Next
<1>1. PICK k, f, t, n : k = job[w].key /\ f = job[w].from /\ t = job[w].to /\ n = job[w].amount
  OBVIOUS
<1>2. pc[w] = "reverse" /\ pc[w] \in Working /\ Assumed /\ IInv /\ LedgerStatusInv
  BY DEF Reverse, Working, Steps, InTx, Sound
<1>3. k \in Keys /\ ReversedBy(k, w) /\ \A l \in Keys \ {k} : Still(l)
  BY <1>1, <1>2, ReverseEffect
<1>4. /\ f \in Accounts /\ t \in Accounts /\ f # t /\ n \in Cents \ {0}
      /\ transfers[k] # Null /\ SameOrder(transfers[k], job[w])
  BY <1>1, <1>2, LiveFacts DEF RowOf, IInv
<1>5. Atomic!Move(t, f, n)
  <2>1. ToBack(w) >= 0 /\ BalanceCheck(FromBack(w)) /\ Post(t, ToBack(w), f, FromBack(w), n, k)
    BY <1>1 DEF Reverse
  <2>2. /\ ToBack(w) \in Cents /\ ToBack(w) = accounts[t].balance - n
        /\ FromBack(w) \in Cents /\ FromBack(w) = accounts[f].balance + n
    BY <1>1, <1>2, <2>1, ReverseAmounts
  <2>3. MaxCents \in Nat
    BY <1>2 DEF Assumed, DBAssumption
  <2> QED
    BY <1>2, <1>4, <2>1, <2>2, <2>3, PostMoves
<1>6. \A l \in Keys \ {k} : OrderOf(l)' = OrderOf(l) /\ PhaseOf(l)' = PhaseOf(l)
  BY <1>3, StillPhase DEF Sound
<1>7. UNCHANGED Asked
  BY <1>3, <1>6, KeptOrder, OrdersStay DEF ReversedBy, From
<1>8. Asked[k].from = f /\ Asked[k].to = t /\ Asked[k].amount = n
  BY <1>1, <1>3, <1>4 DEF Asked, OrderOf, SameOrder
<1>9. PhaseOf(k) = "booked" /\ PhaseOf(k)' = "reversed"
  BY <1>3 DEF Sound, PhasesFit, PhaseFits, ReversedBy, From, To, Kept
<1>10. Atomic!Enter(k, "booked", "reversed")
  BY <1>3, <1>6, <1>9, EntersPhase
<1>11. Atomic!Move(Asked[k].to, Asked[k].from, Asked[k].amount)
  BY <1>5, <1>8 DEF Atomic!Move
<1>12. Atomic!Reverse(k)
  BY <1>7, <1>10, <1>11 DEF Atomic!Reverse, Asked
<1> QED
  BY <1>3, <1>12 DEF Atomic!Next

\* A deposit or a withdrawal adjusts.
LEMMA MutationRefines ==
  ASSUME Sound, NEW t \in Tellers, PostMutation(t)
  PROVE  Atomic!Next
<1>1. PICK a, d : a = tjob[t].account /\ d = tjob[t].delta
  OBVIOUS
<1>2. /\ tpc[t] = "post" /\ Assumed /\ IInv
      /\ accounts' = [accounts EXCEPT ![a] = Stored(@, Sum64(t, tsnap[t]))]
  BY <1>1 DEF PostMutation, Sound
<1>3. /\ a \in Accounts /\ d \in Int \ {0} /\ -MaxCents <= d /\ d <= MaxCents
      /\ Sum64(t, tsnap[t]) = accounts[a].balance + d /\ Sum64(t, tsnap[t]) \in Cents
  BY <1>1, <1>2, MutationAmounts
<1>4. \A k \in Keys : OrderOf(k)' = OrderOf(k) /\ PhaseOf(k)' = PhaseOf(k)
  <2>1. \A k \in Keys : Still(k)
    BY MutationTallies DEF PostMutation, Still, Sound
  <2> QED
    BY <2>1, StillPhase DEF Sound
<1>5. UNCHANGED <<Asked, Phased>>
  BY <1>4 DEF Asked, Phased
<1>6. /\ Balances[a] + d \in 0 .. MaxCents
      /\ Balances' = [Balances EXCEPT ![a] = Balances[a] + d]
  <2>1. accounts \in [Accounts -> AccountRow]
    BY <1>2 DEF IInv, TypeOK, DBTypeOK
  <2>2. Balances[a] = accounts[a].balance
    BY <1>3 DEF Balances
  <2>3. /\ accounts'[a].balance = accounts[a].balance + d
        /\ \A b \in Accounts \ {a} : accounts'[b] = accounts[b]
    BY <1>2, <1>3, <2>1 DEF Stored
  <2>4. Balances' = [Balances EXCEPT ![a] = Balances[a] + d]
    BY <2>2, <2>3 DEF Balances
  <2> QED
    BY <1>3, <2>2, <2>4 DEF Cents
<1>7. Atomic!Adjust(a, d)
  BY <1>5, <1>6 DEF Atomic!Adjust, Asked, Phased, Balances
<1>8. MaxCents \in Nat
  BY <1>2 DEF Assumed, DBAssumption
<1>9. CASE d > 0
  <2>1. d \in Cents \ {0}
    BY <1>3, <1>9 DEF Cents
  <2> QED
    BY <1>3, <1>7, <2>1 DEF Atomic!Next
<1>10. CASE d < 0
  <2>1. PICK n : n = -d
    OBVIOUS
  <2>2. n \in Cents \ {0} /\ -n = d
    BY <1>3, <1>8, <1>10, <2>1 DEF Cents
  <2>3. Atomic!Adjust(a, -n)
    BY <1>7, <2>2 DEF Atomic!Adjust
  <2> QED
    BY <1>3, <2>2, <2>3 DEF Atomic!Next
<1> QED
  BY <1>3, <1>9, <1>10

----------------------------------------------------------------------------
(* The steps of the services.                                              *)

\* A fresh claim is Register, every other arrival nothing.
LEMMA SubmitRefines ==
  ASSUME Sound, [Next]_vars, NEW w \in Workers, Submit(w)
  PROVE  Atomic!Next \/ UNCHANGED Atomic!vars
<1>1. ASSUME NEW k \in Keys, NEW o \in Orders,
             RejectInvalid(w, k, o) \/ AcquireUnknown(w, k, o) \/ AcquireExisting(w, k, o)
      PROVE  UNCHANGED <<transfers, entries>>
  BY <1>1 DEF RejectInvalid, AcquireUnknown, AcquireExisting, dbVars
<1>2. ASSUME NEW k \in Keys, NEW o \in Orders, AcquireNew(w, k, o)
      PROVE  Atomic!Next
  <2>1. UNCHANGED entries
    BY <1>2 DEF AcquireNew
  <2>2. ClaimedBy(k, w) /\ \A l \in Keys \ {k} : Still(l)
    BY <1>2, AcquireNewEffect DEF Sound
  <2> QED
    BY <2>1, <2>2, ClaimRefines
<1> QED
  BY <1>1, <1>2, QuietRefines DEF Submit

\* Of the statements of a request only commits are seen by the atomic bank.
LEMMA ProceedRefines ==
  ASSUME Sound, [Next]_vars, NEW w \in Workers, Proceed(w)
  PROVE  Atomic!Next \/ UNCHANGED Atomic!vars
<1>1. \/ LockTransfer(w) \/ ReadFirst(w) \/ ReadSecond(w) \/ UpdateFirst(w) \/ UpdateSecond(w)
      \/ LockFirst(w) \/ LockSecond(w) \/ Deliver(w)
      => UNCHANGED <<transfers, entries>>
  BY DEF LockTransfer, ReadFirst, ReadSecond, UpdateFirst, UpdateSecond, UpdateAccount,
         LockFirst, LockSecond, LockAccount, Deliver, tables, dbVars
<1>2. ASSUME MarkFailed(w) PROVE Atomic!Next \/ UNCHANGED Atomic!vars
  <2>1. PICK k : k = job[w].key
    OBVIOUS
  <2>2. UNCHANGED entries
    BY <1>2 DEF MarkFailed
  <2>3. CASE UNCHANGED transfers
    BY <2>2, <2>3, QuietRefines
  <2>4. CASE ~UNCHANGED transfers
    <3>1. k \in Keys /\ MarkedBy(k, w) /\ \A l \in Keys \ {k} : Still(l)
      BY <1>2, <2>1, <2>4, MarkFailedEffect DEF Sound
    <3> QED
      BY <2>2, <3>1, StatusRefines
  <2> QED
    BY <2>3, <2>4
<1>3. Reverse(w) /\ UNCHANGED tables => UNCHANGED <<transfers, entries>>
  BY DEF tables
<1> QED
  BY <1>1, <1>2, <1>3, QuietRefines, BookRefines, ReverseRefines DEF Proceed

\* Settle is Settle, and Fail of a row without entries is Reject.
LEMMA SettlementRefines ==
  ASSUME Sound, [Next]_vars, NEW k \in Keys, Settle(k) \/ FailUnbooked(k)
  PROVE  Atomic!Next \/ UNCHANGED Atomic!vars
<1>1. UNCHANGED entries
  BY DEF Settle, FailUnbooked
<1>2. SettledNow(k) \/ FailedNow(k)
  BY SettleEffect, FailUnbookedEffect DEF Sound
<1>3. \A l \in Keys \ {k} : Still(l)
  BY SettleEffect, FailUnbookedEffect DEF Sound
<1> QED
  BY <1>1, <1>2, <1>3, StatusRefines

\* The commit of a deposit or a withdrawal is Adjust.
LEMMA AccountRefines ==
  ASSUME Sound, [Next]_vars, AccountNext
  PROVE  Atomic!Next \/ UNCHANGED Atomic!vars
<1>1. ASSUME NEW a \in Accounts, Open(a) \/ \E st \in {"ACTIVE", "BLOCKED"} : SetStatus(a, st)
      PROVE  UNCHANGED <<transfers, entries>>
  BY <1>1 DEF Open, SetStatus
<1>2. ASSUME NEW t \in Tellers, \E a \in Accounts, d \in Deltas : Mutate(t, a, d)
      PROVE  UNCHANGED <<transfers, entries>>
  BY <1>2 DEF Mutate, dbVars
<1>3. ASSUME NEW t \in Tellers, ReadBalance(t) \/ UpdateBalance(t) \/ AbortMutation(t)
      PROVE  UNCHANGED <<transfers, entries>>
  BY <1>3 DEF ReadBalance, UpdateBalance, AbortMutation, dbVars, tables
<1> QED
  BY <1>1, <1>2, <1>3, QuietRefines, MutationRefines DEF AccountNext, ProceedMutation

\* Every step of the services is one of the atomic bank, or none.
LEMMA NextRefines ==
  ASSUME Sound, [Next]_vars
  PROVE  [Atomic!Next]_(Atomic!vars)
<1>1. CASE TransferNext
  <2>1. ASSUME NEW w \in Workers, Abort(w) \/ \E k \in Keys : FailBegin(w, k)
        PROVE  UNCHANGED <<transfers, entries>>
    BY <2>1 DEF Abort, FailBegin, tables
  <2> QED
    BY <1>1, <2>1, QuietRefines, SubmitRefines, ProceedRefines, SettlementRefines
    DEF TransferNext
<1>2. CASE Restart \/ UNCHANGED vars
  <2>1. UNCHANGED <<transfers, entries>>
    BY <1>2 DEF Restart, tables, vars, dbVars
  <2> QED
    BY <2>1, QuietRefines
<1> QED
  BY <1>1, <1>2, AccountRefines DEF Next

\* The tables at first are an initial state of the atomic bank.
LEMMA InitRefines ==
  ASSUME IInv, Init
  PROVE  Atomic!Init
<1>1. Balances \in [Accounts -> 0 .. MaxCents]
  BY DEF IInv, TypeOK, DBTypeOK, AccountRow, Cents, Balances
<1>2. \A k \in Keys : transfers[k] = Null
  BY DEF Init
<1>3. Asked = [k \in Keys |-> Null]
  BY <1>2 DEF Asked, OrderOf
<1>4. Phased = [k \in Keys |-> "none"]
  BY <1>2, PhasesAreFit DEF Phased, PhasesFit, PhaseFits
<1> QED
  BY <1>1, <1>3, <1>4 DEF Atomic!Init, Balances, Asked, Phased

\* If clients wait for their answers, then statement by statement and crash by
\* crash the services do to the tables what the atomic bank does.
THEOREM Refinement == ASSUME ~ClientsOverlap PROVE Spec => ImplementsAtomicBank
<1>1. IInv /\ Init => Atomic!Init
  BY InitRefines
<1>2. BankInv => PhasesFit
  BY PhasesAreFit DEF BankInv
<1>3. BankInv /\ BankInv' /\ PhasesFit /\ PhasesFit' /\ [Next]_vars => [Atomic!Next]_(Atomic!vars)
  BY AllAssumed, NextRefines DEF Sound, BankInv
<1> QED
  BY <1>1, <1>2, <1>3, Invariant, BankIsSound, PTL DEF Spec, ImplementsAtomicBank, Atomic!Spec
=============================================================================
