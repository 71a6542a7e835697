------------------------------- MODULE BankDB -------------------------------
(***************************************************************************)
(* The PostgreSQL tables both services write, the row locks their          *)
(* transactions hold, and the ledger's append.                             *)
(*                                                                         *)
(* Isolation is READ COMMITTED, the pool's default: a statement sees what  *)
(* is committed when it starts, and a row another transaction has updated  *)
(* or selected FOR UPDATE makes an UPDATE or a SELECT FOR UPDATE of that   *)
(* row wait.  One SQL statement is one step of the session that runs it.   *)
(* The rows a transaction wrote are seen by others at its commit, so the   *)
(* variables hold committed rows only, and a transaction's own writes are  *)
(* applied, all of them, by the step that commits it.                      *)
(***************************************************************************)
EXTENDS Integers, Sequences, FiniteSets

CONSTANTS
  Accounts,     \* ids, ordered as order() orders the UUID strings
  Keys,         \* idempotency keys; UNIQUE, so one stands for its row's id
  Sessions,     \* database sessions: the goroutines that serve requests
  MaxCents,     \* largest int64 (small in the models)
  Null          \* no row, no holder, no transfer

VARIABLES
  accounts,     \* committed rows of table accounts
  transfers,    \* committed rows of table transfers, by idempotency key
  entries,      \* committed rows of table entries, of each account in
                \* the order its version column gave to their transactions
  accountLock,  \* the session whose open transaction has locked the row
  transferLock

dbVars == <<accounts, transfers, entries, accountLock, transferLock>>
tables == <<accounts, transfers, entries>>

Null2(S) == S \cup {Null}
AccountStatus  == {"ABSENT", "ACTIVE", "BLOCKED"}
TransferStatus == {"PENDING", "SETTLED", "FAILED"}
Cents == 0 .. MaxCents

AccountRow  == [status : AccountStatus, balance : Cents, version : Nat]
TransferRow == [from : Accounts, to : Accounts, amount : Cents \ {0},
                status : TransferStatus]
Entry == [type : {"CREDIT", "DEBIT"}, amount : Cents \ {0},
          balanceAfter : Cents, transfer : Null2(Keys)]

ASSUME DBAssumption ==
  /\ Accounts \subseteq Nat
  /\ MaxCents \in Nat
  /\ Null \notin Sessions \cup Keys
  /\ Null \notin TransferRow

DBTypeOK ==
  /\ accounts \in [Accounts -> AccountRow]
  /\ transfers \in [Keys -> Null2(TransferRow)]
  /\ entries \in [Accounts -> Seq(Entry)]
  /\ accountLock \in [Accounts -> Null2(Sessions)]
  /\ transferLock \in [Keys -> Null2(Sessions)]

----------------------------------------------------------------------------
\* int64 addition of two non-negative amounts of cents.
Wrap64(n) == IF n > MaxCents THEN n - 2 * (MaxCents + 1) ELSE n

\* Mutant of BalanceCheck: a table without the constraint.
Unchecked(n) == TRUE

\* CHECK (balance_cents >= 0)
BalanceCheck(n) == n >= 0

Unlocked(a) == accountLock[a] = Null

\* A transaction ends: its session's row locks are gone.
Release(locks, s) == [x \in DOMAIN locks |-> IF locks[x] = s THEN Null ELSE locks[x]]
ReleaseAll(s) ==
  /\ accountLock' = Release(accountLock, s)
  /\ transferLock' = Release(transferLock, s)

\* Mutant of Booked: the count is forgotten, only the status is looked at.
NeverBooked(k) == FALSE

\* SELECT count(*) FROM entries WHERE transfer_id = k, compared with 0.
Booked(k) == \E a \in Accounts : \E i \in DOMAIN entries[a] : entries[a][i].transfer = k

\* optimisticUpdate and Append, as they are seen once committed: the balance
\* computed from the snapshot is stored, the version bumped, and the entry
\* that records the movement carries that balance.
Stored(row, balance) ==
  [status |-> row.status, balance |-> balance, version |-> row.version + 1]
Append1(a, type, amount, balance, k) ==
  Append(entries[a], [type |-> type, amount |-> amount,
                      balanceAfter |-> balance, transfer |-> k])

\* Mutant of Post: the credited account's entry is forgotten.
PostOneLeg(debited, dBalance, credited, cBalance, amount, k) ==
  /\ accounts' = [accounts EXCEPT ![debited] = Stored(@, dBalance),
                                  ![credited] = Stored(@, cBalance)]
  /\ entries' = [entries EXCEPT ![debited] = Append1(debited, "DEBIT", amount, dBalance, k)]

\* Both legs of a movement, in one commit.
Post(debited, dBalance, credited, cBalance, amount, k) ==
  /\ accounts' = [accounts EXCEPT ![debited] = Stored(@, dBalance),
                                  ![credited] = Stored(@, cBalance)]
  /\ entries' = [entries EXCEPT
                   ![debited] = Append1(debited, "DEBIT", amount, dBalance, k),
                   ![credited] = Append1(credited, "CREDIT", amount, cBalance, k)]
=============================================================================
