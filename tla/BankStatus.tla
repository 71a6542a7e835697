----------------------------- MODULE BankStatus -----------------------------
(***************************************************************************)
(* The inductive invariant behind what the status of a transfer says of    *)
(* its money.  The count of entries under the row lock makes a booking     *)
(* unique even when a client repeats a key before it was answered.  That   *)
(* markFailed, which looks at nothing, overwrites no booking takes a       *)
(* client that waits: one request per key is then beyond its claim.        *)
(***************************************************************************)
EXTENDS BankInvariant

\* The DEBIT and CREDIT entries of the transfer under k in the account a.
Tally(k, a) == <<Legs(k, "DEBIT", a), Legs(k, "CREDIT", a)>>

\* The money moved m times and came back r times, between the row's accounts
\* and in no other.
Tallied(k, m, r) ==
  \A a \in Accounts :
    Tally(k, a) = CASE a = transfers[k].from -> <<m, r>>
                    [] a = transfers[k].to -> <<r, m>>
                    [] OTHER -> <<0, 0>>

Unmoved(k)  == Tallied(k, 0, 0)
Moved(k)    == Tallied(k, 1, 0)
Returned(k) == Tallied(k, 1, 1)

\* What the row under k and the ledger say of each other.
LifeInv(k) ==
  /\ transfers[k] = Null => \A a \in Accounts : Tally(k, a) = <<0, 0>>
  /\ transfers[k] # Null =>
       /\ Unmoved(k) \/ Moved(k) \/ Returned(k)
       /\ transfers[k].status = "SETTLED" => Moved(k)
       /\ Returned(k) => transfers[k].status = "FAILED"

BookingSteps == {"read1", "read2", "update1", "update2", "book"}
ReverseSteps == {"lock1", "lock2", "reverse"}

\* A worker in a transaction has its transfer's row, and that is still PENDING
\* as it was found; whoever is answered PENDING or SETTLED was right.
LifeWorker(w) ==
  LET k == job[w].key IN
  /\ pc[w] \in InTx => transferLock[k] = w
  /\ pc[w] \in BookingSteps \cup {"begin", "mark"} => job[w].kind = "transfer"
  /\ pc[w] \in ReverseSteps => job[w].kind = "fail"
  /\ pc[w] \in BookingSteps => transfers[k].status = "PENDING" /\ Unmoved(k)
  /\ pc[w] \in ReverseSteps => transfers[k].status = "PENDING" /\ Moved(k)
  /\ pc[w] # "done" => resp[w] = "none"
  /\ AnswersFor(w, {"PENDING", "SETTLED"}) =>
       transfers[k] # Null /\ (Moved(k) \/ Returned(k))

LedgerStatusInv ==
  /\ \A k \in Keys : LifeInv(k)
  /\ \A w \in Workers : LifeWorker(w)

\* With clients that wait: a FAILED transfer has nothing moved.
NothingMoved(k) == Unmoved(k) \/ Returned(k)
FailedInv(k) ==
  transfers[k] # Null /\ transfers[k].status = "FAILED" => NothingMoved(k)

\* Nobody else works for a key whose request is about to be refused, or was.
RefusalInv(w) ==
  LET k == job[w].key IN
  /\ pc[w] = "mark" => NothingMoved(k)
  /\ AnswersFor(w, {"REJECTED"}) /\ transfers[k] # Null /\ SameOrder(transfers[k], job[w]) =>
       NothingMoved(k)
  /\ external /\ AnswersFor(w, {"SETTLED"}) => transfers[k].status = "SETTLED"

OnePerKey ==
  \A v, w \in Workers :
    Transferring(v) /\ Transferring(w) /\ job[v].key = job[w].key => v = w

WaitingClientsInv ==
  /\ OnePerKey
  /\ \A k \in Keys : FailedInv(k)
  /\ \A w \in Workers : RefusalInv(w)

\* A row lock has its reason: the statement its holder has got to.  A holder
\* that still wants an account wants one beyond the account it has.
WorkerHolds(w) ==
  /\ \A a \in Accounts : accountLock[a] = w =>
       \/ pc[w] \in {"update2", "lock2"} /\ a = FirstOf(job[w])
       \/ pc[w] \in {"book", "reverse"} /\ a \in {job[w].from, job[w].to}
  /\ \A k \in Keys : transferLock[k] = w => pc[w] \in InTx /\ job[w].key = k

TellerHolds(t) ==
  /\ \A a \in Accounts : accountLock[a] = t => tpc[t] = "post" /\ tjob[t].account = a
  /\ \A k \in Keys : transferLock[k] # t

HoldersInv ==
  /\ \A w \in Workers : WorkerHolds(w)
  /\ \A t \in Tellers : TellerHolds(t)

\* Everything that is known of a reachable state of the bank.
BankInv ==
  /\ IInv
  /\ LedgerStatusInv
  /\ HoldersInv
  /\ ~ClientsOverlap => WaitingClientsInv
=============================================================================
