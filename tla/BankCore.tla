------------------------------ MODULE BankCore ------------------------------
(***************************************************************************)
(* The bank: the transfer service and the account service over one         *)
(* database, with the process that runs them stopping and starting.        *)
(***************************************************************************)
EXTENDS TransferService, AccountService

CONSTANTS
  Opening,    \* first deposit of each account; Null if not opened yet
  Restarts    \* may the process be restarted?

ASSUME CoreAssumption ==
  /\ Sessions = Workers \cup Tellers
  /\ Workers \cap Tellers = {}
  /\ Opening \in [Accounts -> Null2(Cents)]
  /\ Null \notin Cents
  /\ Restarts \in BOOLEAN

vars == <<dbVars, transferVars, accountVars>>

\* Accounts opened, and given their first deposit, before the clients come.
OpeningEntries(a) ==
  IF Opening[a] \in Cents \ {0}
  THEN <<[type |-> "CREDIT", amount |-> Opening[a],
          balanceAfter |-> Opening[a], transfer |-> Null]>>
  ELSE <<>>

OpeningRow(a) ==
  IF Opening[a] = Null THEN [status |-> "ABSENT", balance |-> 0, version |-> 0]
  ELSE [status |-> "ACTIVE", balance |-> Opening[a],
        version |-> IF Opening[a] = 0 THEN 0 ELSE 1]

Init ==
  /\ accounts = [a \in Accounts |-> OpeningRow(a)]
  /\ transfers = [k \in Keys |-> Null]
  /\ entries = [a \in Accounts |-> OpeningEntries(a)]
  /\ accountLock = [a \in Accounts |-> Null]
  /\ transferLock = [k \in Keys |-> Null]
  /\ TransferInit
  /\ AccountIdle

Restart ==
  /\ Restarts
  /\ TransferRestart
  /\ AccountRestart
  /\ accountLock' = [a \in Accounts |-> Null]
  /\ transferLock' = [k \in Keys |-> Null]
  /\ UNCHANGED tables

Next ==
  \/ TransferNext /\ UNCHANGED accountVars
  \/ AccountNext /\ UNCHANGED transferVars
  \/ Restart

Spec == Init /\ [][Next]_vars

\* The Go scheduler runs every goroutine, and PostgreSQL queues the sessions
\* that wait for a row, so a statement that can run again and again does run.
\* Requests need not arrive, fail or be cancelled.
Fairness ==
  /\ \A w \in Workers : SF_vars(Proceed(w) /\ UNCHANGED accountVars)
  /\ \A t \in Tellers : SF_vars(ProceedMutation(t) /\ UNCHANGED transferVars)

FairSpec == Spec /\ Fairness

TypeOK == DBTypeOK /\ TransferTypeOK /\ AccountTypeOK

----------------------------------------------------------------------------
\* The balance the first i entries of an account leave.
BalanceAt(s, i) == IF i = 0 THEN 0 ELSE s[i].balanceAfter
Applied(n, e) == IF e.type = "CREDIT" THEN n + e.amount ELSE n - e.amount
Chained(s) == \A i \in DOMAIN s : s[i].balanceAfter = Applied(BalanceAt(s, i-1), s[i])

\* ADR 0001, saldo = soma(lancamentos): every entry continues the one before
\* it, and the row holds what the last one left.
LedgerChain ==
  \A a \in Accounts :
    /\ Chained(entries[a])
    /\ accounts[a].balance = BalanceAt(entries[a], Len(entries[a]))

Legs(k, type, a) ==
  Cardinality({i \in DOMAIN entries[a] :
                 entries[a][i].transfer = k /\ entries[a][i].type = type})

\* How often the transfer under k moved its money, and gave it back.
Moves(k)   == Legs(k, "DEBIT", transfers[k].from)
Returns(k) == Legs(k, "CREDIT", transfers[k].from)

\* RNF1, RNF4, RNF7: each movement has both its legs, on the row's two
\* accounts and on no other; it happens at most once whatever the retries,
\* replays and crashes, and is given back at most once.
BookedAtMostOnce ==
  \A k \in Keys : transfers[k] # Null =>
    LET from == transfers[k].from
        to == transfers[k].to
    IN /\ Moves(k) = Legs(k, "CREDIT", to)
       /\ Returns(k) = Legs(k, "DEBIT", to)
       /\ Returns(k) <= Moves(k) /\ Moves(k) <= 1
       /\ \A a \in Accounts \ {from, to} :
            \A i \in DOMAIN entries[a] : entries[a][i].transfer # k

\* CA1 and RF9: whoever fails a transfer, no money stays moved.
FailedMovedNothing ==
  \A k \in Keys : transfers[k] # Null /\ transfers[k].status = "FAILED" =>
    Moves(k) = Returns(k)

Transferring(w) == job[w].kind = "transfer"
AnswersFor(w, answers) == Transferring(w) /\ resp[w] \in answers

\* ADR 0004, RNF4, ADR 0003: whoever is told PENDING or SETTLED has had the
\* money moved, by this request or by the one it repeats; and in external mode
\* SETTLED is told of settled rows only, whatever mode the process was in when
\* they were booked.  (In standalone mode it is what any booked row is told.)
AcceptedIsTrue ==
  \A w \in Workers :
    /\ AnswersFor(w, {"PENDING", "SETTLED"}) => Moves(job[w].key) = 1
    /\ external /\ AnswersFor(w, {"SETTLED"}) => transfers[job[w].key].status = "SETTLED"

\* CA1: whoever is told 400 about a transfer of theirs finds nothing moved
\* while that answer is on its way, whether or not markFailed got through.
RejectedMovedNothing ==
  \A w \in Workers :
    LET row == transfers[job[w].key] IN
    AnswersFor(w, {"REJECTED"}) /\ row # Null /\ SameOrder(row, job[w]) =>
      Moves(job[w].key) = Returns(job[w].key)

\* RF8, RF9: SETTLED and FAILED are final.
StatusFinal ==
  [][\A k \in Keys : transfers[k] # Null /\ transfers[k].status # "PENDING" =>
       transfers'[k] = transfers[k]]_vars

\* RNF5 and the projection of RNF3: an entry, once committed, stays where it
\* is, and no committed balance changes but with an entry of its own.
LedgerAppendOnly ==
  [][\A a \in Accounts :
       /\ Len(entries'[a]) >= Len(entries[a])
       /\ SubSeq(entries'[a], 1, Len(entries[a])) = entries[a]
       /\ accounts'[a].balance # accounts[a].balance =>
            Len(entries'[a]) = Len(entries[a]) + 1]_vars

\* What a session read of an account is the row as it now stands.
IsRow(read, a) == /\ read.balance = accounts[a].balance
                  /\ read.version = accounts[a].version

\* A booking, a reversal, a deposit or a withdrawal commits over the very row
\* of the account that its session has read.
WrittenByReader(a) ==
  \/ \E w \in Workers : /\ pc[w] \in {"book", "reverse"} /\ pc'[w] = "done"
                        /\ a \in {job[w].from, job[w].to} /\ IsRow(snap[w][a], a)
  \/ \E t \in Tellers : /\ tpc[t] = "post" /\ tpc'[t] = "idle"
                        /\ tjob[t].account = a /\ IsRow(tsnap[t], a)

\* RNF2, ADR 0001: no update is lost.  The balance a movement writes was
\* computed statements ago, and from a reading without a lock unless it is a
\* reversal's; whatever transfers, deposits and resets did in between, no
\* movement is committed over a row that has changed since it was read.
NoLostUpdate ==
  [][\A a \in Accounts : Len(entries'[a]) > Len(entries[a]) => WrittenByReader(a)]_vars

\* RNF6: booking, depositing and withdrawing leave a blocked account alone.
\* Reversals are for the settlement client and ignore the status.
BlockedUntouched ==
  [][\A a \in Accounts :
       accounts[a].status = "BLOCKED" /\ accounts'[a].balance # accounts[a].balance =>
         \E w \in Workers : pc[w] = "reverse" /\ pc'[w] = "done"]_vars

\* Spec v1.3.0 11.3: a PENDING row without entries leaves PENDING only by a
\* new call with its key.
UnbookedLeftToItsKey ==
  [][\A k \in Keys :
       /\ transfers[k] # Null /\ transfers[k].status = "PENDING" /\ ~Booked(k)
       /\ transfers'[k] # transfers[k]
       => \E w \in Workers : Transferring(w) /\ job[w].key = k]_vars

----------------------------------------------------------------------------
\* The session s is about to run a statement that waits for session u.
WaitsFor(s, u) ==
  \/ /\ s \in Workers
     /\ \/ pc[s] \in {"begin", "mark"} /\ transferLock[job[s].key] = u
        \/ pc[s] \in {"update1", "lock1"} /\ accountLock[FirstOf(job[s])] = u
        \/ pc[s] \in {"update2", "lock2"} /\ accountLock[SecondOf(job[s])] = u
  \/ s \in Tellers /\ tpc[s] = "update" /\ accountLock[tjob[s].account] = u

\* ADR 0001, the ordered access: bookings, reversals, deposits and retries of
\* the same keys never wait for one another in a circle.
NoWaitCycle ==
  \A S \in (SUBSET Sessions) \ {{}} : \E s \in S : \A u \in S : ~WaitsFor(s, u)

\* Fail has no retry: once reverse has its locks the versions it read still
\* stand, so errVersionConflict never surfaces as a 500.
ReverseNeverConflicts == \A w \in Workers : pc[w] = "reverse" => SnapCurrent(w)

\* What a booking is about to write is right when it commits: the rows it has
\* locked hold what it read.
BookingCurrent == \A w \in Workers : pc[w] = "book" => SnapCurrent(w)

\* Every request that was received is answered, however its versions collide.
RequestsEnd == \A w \in Workers : pc[w] # "idle" ~> pc[w] = "idle"
MutationsEnd == \A t \in Tellers : tpc[t] # "idle" ~> tpc[t] = "idle"

----------------------------------------------------------------------------
\* The atomic bank these services implement.
PhaseOf(k) ==
  LET row == transfers[k]
      moved == <<Moves(k), Returns(k)>>
  IN CASE row = Null -> "none"
       [] row # Null /\ row.status = "PENDING" /\ moved = <<0, 0>> -> "registered"
       [] row # Null /\ row.status = "PENDING" /\ moved = <<1, 0>> -> "booked"
       [] row # Null /\ row.status = "SETTLED" /\ moved = <<1, 0>> -> "settled"
       [] row # Null /\ row.status = "FAILED" /\ moved = <<0, 0>> -> "rejected"
       [] row # Null /\ row.status = "FAILED" /\ moved = <<1, 1>> -> "reversed"
       [] OTHER -> "corrupt"

OrderOf(k) ==
  IF transfers[k] = Null THEN Null
  ELSE [from |-> transfers[k].from, to |-> transfers[k].to, amount |-> transfers[k].amount]

Atomic == INSTANCE AtomicBank WITH
  Amounts <- Cents \ {0},
  balance <- [a \in Accounts |-> accounts[a].balance],
  order <- [k \in Keys |-> OrderOf(k)],
  phase <- [k \in Keys |-> PhaseOf(k)]

\* RNF1, RNF4, RNF7, RNF8 together: seen from the tables, statement by
\* statement and crash by crash, the services are the atomic bank.
ImplementsAtomicBank == Atomic!Spec
=============================================================================
