# TLA+ verification of BankCore

BankCore (`src/`) is a Go service that keeps bank accounts, an append-only
ledger and transfers between accounts in PostgreSQL. What is hard about it is
concurrent: goroutines serve requests, a request is a short sequence of SQL
statements, and any of them may be interleaved with, refused by, or killed
between the statements of another. This directory models those statements, the
simulation runner that loads them, the locks they take, the lists their readers
page through, the settlement client that finishes their work and the desk that
decides who may ask for what; checks them with TLC on small instances; and
proves with TLAPS, for every instance, nearly every safety property the checks
ask for: the consistency of the ledger, what the status of a transfer says of
its money, that the services implement an atomic bank, which transactions may
deadlock, and what the runner, the pages and the tokens promise.

Contents: [the system](#1-the-system) ·
[the modules](#2-the-modules-and-the-code) ·
[what is abstracted](#3-what-is-abstracted) · [the runs](#4-the-runs) ·
[fairness](#5-fairness) · [the proofs](#6-the-proofs) ·
[where code and documents disagree](#7-where-the-code-and-its-documents-disagree) ·
[not modelled](#8-what-is-not-modelled) · [plan](#9-plan) ·
[running it](#10-running-it)

## 1. The system

| Component | State it keeps | Operations | Talks to |
|---|---|---|---|
| Transfer service, `internal/transfer` | table `transfers`; the mode (external or standalone), fixed at boot | `Transfer` = `acquire` (claim of the idempotency key, replay of it), `process` with `attempt` and its retries, `markFailed`; `Settle`; `Fail` with `reverse`; listings and counts | accounts (reads, optimistic updates), ledger (`Append`), the settlement client over HTTP, the simulation as its caller |
| Account service, `internal/account` | table `accounts`: status, balance, version | `Open`, `Deposit` and `Withdraw` through `mutate` and its retries, `SetStatus`, readings | ledger |
| Ledger, `internal/ledger` | table `entries` | `Append`, inside the caller's transaction; `List` | - |
| PostgreSQL with the migrations | rows, constraints, foreign keys, row and table locks | statements at READ COMMITTED, deadlock detector, `lock_timeout` | everyone |
| Simulation runner, `internal/simulation` | phase, run id, counters, cancel function and done channel of the current execution, under one mutex | `Start`, `Stop`, `Reset`, `Status`; the execution: `execute`, `dispatch`, `worker`, `transferWithRetry` | both services; `Reset` truncates their tables |
| Statistics, `internal/simulation/stats.go` | none | one read-only snapshot of several tables | PostgreSQL |
| Process, `cmd/api` | the HTTP server, the runner | boot (mode, seeds of the administrator and of the settlement credential), SIGTERM | all |
| Settlement boundary, `transfer/handler.go`, `auth/service_client.go`, `auth/middleware.go`, `auth/token.go` | table `service_clients`; tokens (stateless) | `EnsureServiceClient`, `CreateServiceClient`, `IssueServiceToken`, `Authenticate`, the paged list of what waits, settle and fail | the settlement client, Liquida, another program |
| Customers, `internal/auth` | table `customers` | `Register`, `Login`, `EnsureAdmin` | - |
| Money, configuration, HTTP helpers, API documentation | none | conversions, reading of the environment, encoding | - |

How they interact. A transfer is *claimed* (its key inserted, committed alone),
then *booked* (both balances, both entries and, in standalone mode, the final
status, in one transaction that is retried on a version conflict). In external
mode it stays PENDING until the settlement client settles or fails it; failing
it books the way back. Accounts are read without a lock and written with
`UPDATE ... WHERE version = $n`; the reversal alone locks them first, `FOR
UPDATE`. Nothing is shared in memory but the runner.

What is hard, and what makes each component correct:

* **Transfer.** Several calls may carry one key; a commit may succeed and its
  acknowledgement be lost; the process may die after the claim; `markFailed`
  runs after the rollback, in the request's context; settlements, failures and
  replays decide on one row. Correct: money moves at most once per key, both
  legs or none; SETTLED has moved, FAILED has not (or gave it back); both are
  final; what the caller is told is true.
* **Accounts and ledger.** Two packages write the same rows from stale
  readings. Correct: no update is lost, every balance is what the entries of
  the account say, entries never change, no balance leaves `0 .. 2^63-1`.
* **Locks.** Transfers in opposite directions, reversals, foreign key checks
  and a reset that locks three tables. Correct: circles are only those one
  can explain, PostgreSQL breaks them, and everyone ends.
* **Simulation.** Clients race with each other and with the end of an
  execution. Correct: one execution at a time, a reset never meets one,
  counters add up, a cancelled execution leaves no half-done transfer, and
  `Stop` returns.
* **Settlement.** Offset pages over a list its reader shortens, tokens that
  expire, secrets that change between boots, lost answers. Correct: only what
  has moved is listed, what a walk misses is bounded, the backlog drains.
* **Listings.** The same offsets under rows that come and go, ordered by
  `created_at`, which is when the inserting transaction *began*. Correct: what
  stays in the list is found, what is shown twice was pushed down by an arrival.
* **Front desk.** Replicas boot over one database and seed the same rows while
  customers register; the role of a request is the token's, not the row's; what
  the parser of amounts takes. Correct: seeding is idempotent and ends no boot,
  no token outlives its role, a service token owns nothing, an accepted amount is
  what its text says.

`PROJECT.json` lists the hazards line by line with the properties that cover them.

## 2. The modules and the code

| Module | Models | Built on |
|---|---|---|
| `AtomicBank` | what the services promise: a transfer's life cycle, money moving in one indivisible step | - |
| `BankDB` | the tables, the row locks, `ledger.Append`, the constraints | - |
| `TransferService` | `Transfer`, `Settle`, `Fail`, one action per statement | `BankDB` |
| `AccountService` | `Open`, `mutate`, `SetStatus` | `BankDB` |
| `BankCore` | both services over one database, with restarts; the properties; the refinement of `AtomicBank` | the two services |
| `BankInvariant`, `BankStatus` | the inductive invariants: of the books; of status, locks and waiting clients | `BankCore` |
| `BankProofs`, `BankStatusProofs` | the theorems about the bank (section 6) | the second on the first |
| `BankReset` | `BankCore` with the runner's `truncate`: requests meet empty tables; the refinement of `AtomicBank` with `Forget` | `BankCore` |
| `BankResetProofs` | the theorems about the bank under resets | `BankReset`, and an instance of `BankStatusProofs` |
| `Simulation` | the runner, its executions and `main`'s shutdown | - |
| `LockOrder` | the locks of every writing transaction, in order, with queue, detector and timeout | - |
| `SettlementFeed` | credential, tokens, paged list and the client that walks it | `AtomicBank` |
| `Listings` | the account statement and the lists of transfers by status, for the administrator and for an owner, paged while the bank goes on | - |
| `Money` | `ParseDecimal`, and what a text says | - |
| `FrontDesk` | boot and seeds of several replicas, `Register`, `Login`, tokens, service clients, the handlers' checks of owner, role and amount | `Money` |
| `SimulationProofs`, `LockProofs`, `SettlementProofs`, `ListingsProofs`, `FrontDeskProofs` | invariants and theorems of the module each is named after | that module |
| `MCBank`, `MCReset`, `MCSimulation`, `MCLocks`, `MCSettlement`, `MCListings`, `MCFrontDesk` | the small instances | |

**`BankDB`.** `accounts`, `transfers` (by key), `entries` (per account) hold
*committed* rows. `accountLock` and `transferLock` name the session whose open
transaction has the row. `Post` is both legs of a movement at their commit.

**`TransferService`.** A *worker* is the goroutine of a request; `pc` says
which statement comes next, `snap` what it has read, `tries` the attempts left,
`resp` what it will answer.

| `pc` | Code | Action |
|---|---|---|
| `idle` | a request arrives | `RejectInvalid`, `AcquireNew`, `AcquireUnknown` (account missing), `AcquireExisting` (replay, other order, FAILED) |
| `begin` | `attempt`: `SELECT ... FOR UPDATE` of the transfer, count of entries | `LockTransfer` |
| `read1`, `read2` | `readAccount` of both, in id order; balance, status and overflow checks | `ReadFirst`, `ReadSecond` with `Refuse` |
| `update1`, `update2` | `optimisticUpdate` of both, in id order | `UpdateFirst`, `UpdateSecond`, `Conflict` |
| `book` | entries, status, commit | `Book` |
| `mark` | `markFailed` | `MarkFailed` |
| - | `Settle`, and `Fail` of an unbooked row (a single lock each) | `Settle`, `FailUnbooked` |
| `lock1`, `lock2`, `reverse` | `Fail` with `reverse` | `FailBegin`, `LockFirst`, `LockSecond`, `Reverse` |
| any | context cancelled, connection lost, statement refused | `Abort` |
| `done` | the answer is on its way | `Deliver` |

A commit whose acknowledgement is lost is an outcome of the committing action:
the rows change and the answer is an error. `Restart` drops every session, its
locks and its answer, and keeps the committed rows; the mode may differ at the
next boot.

**`AccountService`.** A *teller* is the goroutine of a deposit or a
withdrawal: `Mutate`, `ReadBalance`, `UpdateBalance`, `PostMutation`,
`AbortMutation`. `Open` and `SetStatus` are single statements.

**`Simulation`.** `call` is where each caller of the runner is (the mutex is
held across statements only by `Reset`, variable `mu`); `exec` and `work` are
where the execution's goroutine and each worker are; closing the channel is the
step from `dispatch` to `drain`, `wg.Wait` is `AllOut`, the final phase `Judge`,
`close(done)` `CloseDone`. `Signal`, `Shutdown` and `Exit` are `main`.

**`LockOrder`.** A transaction is its list of locks, table locks (`Table`,
`Whole`) and row locks (`Row`), with PostgreSQL's conflict matrix restricted to
the modes used. `Grant` respects the queue; `Victim` is the detector,
`LockTimeout` that of the reset, `AfterLockFailure` the reset's bounded retry.

**`SettlementFeed`.** `Boot` seeds the credential, `Poll` asks for the next
page, `Settle` and `Fail` act on the queue, `SettleUnanswered` is the lost
answer, `Expire` and `Unauthorized` the token. The bank's own steps are those
of `AtomicBank` in external mode; `BankCore` is checked to implement it.
Liquida's side is modelled from `docs/handoff-liquida-v1.1.0.md`.

**`BankReset`.** `Truncate` empties the three tables between any two transactions
of the requests (`LOCK TABLE ... ACCESS EXCLUSIVE` waits for those that have
touched them; the waiting is `LockOrder`'s): after a claim and before its
booking, between two attempts, before the reversal. A request that goes on has
an id whose row is gone, and its key may be claimed again. Ids are random and never return, so an account
that is opened later is another account. What the sessions do afterwards are
`BankCore`'s actions, unchanged; the missing row is a case of each of them.

**`Listings`.** `clock` counts commits. `ClaimBegins` and `Begin` fix a
transaction's `now()`, `Claim`, `Book`, `Reverse` and `End` commit it. Of the
accounts only the order of their movements is kept. `walk` is the reader: what
he has seen, what of the first page's list he has not, what left and what
arrived since.

**`FrontDesk`.** `customers` maps addresses to roles and `clients` is the other
table; `boot` is where each replica is in `main.run`: `FindAdmin` and `AddAdmin`
are the two statements of `EnsureAdmin`, `FindClient` and `AddClient` those of
`EnsureServiceClient`, `BootFails` the database's error in any of them. `tokens`
are issued and not expired; `asked` is the last amount asked for and what became
of it. An id of a row is its address or client id: both are UNIQUE and no row is
ever deleted or changed.

**`Money`.** Texts are sequences of the characters the parser tells apart, and
an int64 has `Word` values, so that `reais*100+centavos` wraps as Go's does.
`SaysAnAmount` and `Said` read a text without the parser: its digits as one
number, scaled by the place of the point.

## 3. What is abstracted

* **One SQL statement is one step**, at READ COMMITTED, the pool's default. A
  transaction's own writes are applied by its commit step; until then others
  see its locks only. Statements that only write inside the transaction
  (entries, status) are part of the commit step: no other session can tell.
* **Locks.** In `TransferService` the claim is one step, foreign key checks
  included; how those checks wait is `LockOrder`'s subject.
  There `fail` always takes the accounts, as it does for a booked transfer; for an
  unbooked one `Fail` takes fewer locks than modelled. `Settle` and
  `FailUnbooked` are one step because they wait for a single row.
* **int64** is `Wrap64` with `MaxCents` for `2^63-1`: the sums wrap as Go's do.
* **Ids** of accounts are numbers, in the order `order()` gives the UUID
  strings. A key stands for the row it identifies (UNIQUE).
* **Simulation**: of a transfer only whether its row is claimed or ended;
  pacing and batch sizes are the scheduler's choice; `Forget` resets the
  bookkeeping of an execution that is over, to keep the state space small.
* **Bounds in guards**: `MaxEntries` (no new deposit or withdrawal once the
  account has that many entries; 0 where a run has no tellers), `MaxRuns` (executions per behaviour), `MaxRetries` and
  `MutateRetries` (3 in the code, 2 or 3 here), `MaxConflictAttempts` (5, 2
  here), `MaxResetAttempts` (3; 2 in `simulation`), `MaxResets`, `MaxTokens`
  (alive at a time), `MaxErrors` (boots the database fails). `MaxEntries` also
  bounds the statement of `Listings`.
* **Front desk.** A request goes to any replica that serves: which one matters to
  `Register` only. A request that is refused leaves no trace, but for the amount
  asked for.
* **Listings**: `now()` counts the commits before it; two transactions may have
  begun at one time, and their rows are then ordered by their ids. `Begin` is BEGIN
  and the lock of the transfer's row in one step: a `Fail` that began before the
  booking it waits for was committed is not among the behaviours. `End`
  has no `markFailed` over a settled row: here too the clients wait, as in
  `BankCore` with `ClientsOverlap` FALSE.

## 4. The runs

Checked as passing:

| Run | Instance | Distinct states | Properties, and what they show |
|---|---|---|---|
| `transfer_restarts` | 2 workers, 2 keys, orders in both directions and of two amounts, so that a key may come back with another order, both modes, restarts | 42 380 | `TypeOK` (no balance wraps or is negative), `BankInv` (all the invariants of the proofs), `BookedAtMostOnce`, `FailedMovedNothing`, `StatusFinal`, `LedgerAppendOnly`; `AcceptedIsTrue` and `RejectedMovedNothing` (what a caller is told is true while the answer travels); `NoWaitCycle`, `ReverseNeverConflicts`; and `ImplementsAtomicBank`: statement by statement and crash by crash the tables are the atomic bank |
| `reset` | 2 workers, 1 teller, 1 key with three orders, 1 reset, an account opened during the run, `FairResetSpec` | 52 406 | deposits and withdrawals race with bookings, reversals and a reset: `LedgerChain`, `BookingCurrent`, `NoLostUpdate` (no movement is committed over a row that changed since its session read it, whichever of booking, reversal, deposit and withdrawal it is; an UPDATE that does not compare the version breaks it), `ImplementsResettableBank` (a reset may take everything, and nothing else does), `AcceptedWhenAnswered`, `RequestsEnd`, `MutationsEnd` |
| `listings` | 3 transfers, 2 of them the customer's, pages of 1, 2 entries, 5 lists | 540 722 | `EntriesInOrder`, `WalkFindsWhatStays`, `RepeatsAreArrivals` |
| `simulation` | 1 client and `main`, 2 workers, 2 transfers, 1 account, 2 executions, `FairSpec` | 216 269 | `TypeOK`, `OneExecution`, `ResetAlone`, `CountersAddUp`, `CancelLeavesNoOrphan`, `IdleMeansEmpty` (the memory is cleared only when the tables were), `StopReturns`, `RunsEnd` |
| `lock_order` | 2 sessions, 2 accounts, a transfer in each direction, 3 reset attempts, `FairSpec` | 25 368 | `CirclesExplained` (the only circles are of a reset with a deposit or withdrawal, and of a reversal with the claim of a transfer), `TransferHoldersPass` (whoever holds the table of transfers never waits for a reset), `EveryoneEnds` |
| `settlement` | 3 transfers, pages of 1, 2 secrets, `FairSpec` | 35 152 | `TypeOK`, `ListedHaveMoved`, `WalkMissesAtMostWhatLeft`, `BacklogDrains` |
| `frontdesk` | 4 replicas (two with the same seeds, one without, one whose gate does not parse), 3 spellings of 2 addresses, 2 tokens at a time, 42 texts, 1 failed boot, a 12-bit int64 | 440 828 | `SeedIdempotent`, `TokenRoleCurrent`, `ServiceMovesNothing`, `AmountsExact` |

Checked as violated, each against one line of the documents (section 7):
`overlap`, `blocked`, `unbooked`, `transfers_deadlock`, `shutdown`.

Why these bounds are enough to be worth something. Every race of the bank is
between the statements of two requests on the same rows, so two workers on two
accounts meet all of them; a third party (a teller) adds the other package, and
restarts add the crashes. Two keys let a replay of one interleave with the
other; one reset is enough to fall between any two transactions of a request; orders in both directions with `MaxCents` 2 or 3 make insufficient
funds, overflow of the destination and a reversal that finds the money spent
all happen. Two or three attempts against a rival that may come back let
both the retry and its exhaustion occur. Two executions and two workers of two jobs
make `Start` meet the end of the previous execution and a job meet a cancel
after another. Two replicas with one seed race between its two statements, and
the one without seeds lets a customer take the address first; 999 reais wrap a
12-bit number to a positive one, 20 reais and 99 centavos to a negative one.
Pages of one row make every settlement shift a page
boundary. Where `SYMMETRY` is used (workers, keys) only safety is checked.
Every property has a mutant in `PROJECT.json`, a plausible bug of the code
(a dropped version bump, an unlocked reading, locks in role order, a channel
not closed, a reset that does not give up, ...) under which TLC finds the
property violated in the same instance, so no property holds vacuously.

`NoWaitCycle` is about the row locks of `BankCore` (bookings, reversals,
deposits), and holds; `TransfersNeverDeadlock` asks the same with the locks of
the foreign keys, and does not.

`ClientsOverlap` is a constant because of section 7: with FALSE a client sends
a key again only after the first call was answered or lost its connection, and
everything above holds; with TRUE two calls of one key may be under way
together, and `FailedMovedNothing` does not hold.

## 5. Fairness

* `BankCore` and `BankReset`: strong fairness of `Proceed(w)` and
  `ProceedMutation(t)`, and none of `Truncate`.
  PostgreSQL queues the sessions that wait for a row, and Go schedules every
  goroutine; a statement that can run again and again does run. No request
  need arrive, fail or be cancelled.
* `Simulation`: weak fairness of the steps of the goroutines while the process
  is alive. A goroutine that waits (for the mutex, the channel, `done`) is not
  enabled. No client need call, nobody need cancel.
* `LockOrder`: strong fairness of `Grant` and `NotFound`, weak of `Commit` (a
  transaction that has its locks ends) and of *some* victim of a standing
  deadlock (`deadlock_timeout`). Not of `LockTimeout`.
* `SettlementFeed`: weak fairness of `Boot` (the process is started again) and
  strong of `IssueServiceToken`, `Unauthorized`, `Poll` and `Settle(k)`: the
  client keeps polling and trying, and infinitely often a token lives long
  enough for a call: `SERVICE_JWT_TTL` is minutes, a call milliseconds.

## 6. The proofs

Every theorem holds for any accounts, keys, sessions, orders, retries, page sizes
and so on. The named `ASSUME`s of the modules say what kind of values the
constants are; where a theorem assumes more, the tables say so.

### The ledger: `BankProofs`

| Theorem | Statement |
|---|---|
| `Invariant` | `Spec => []IInv` |
| `TypeCorrect` | `Spec => []TypeOK`: in particular no balance is negative or wraps |
| `LedgerExplainsBalances` | `Spec => []LedgerChain`: the entries of an account chain up to the balance of its row |
| `LosesNoUpdate` | `Spec => NoLostUpdate`: a movement is committed only over the row, balance and version, that its session has read |
| `BookingsAreCurrent` | `Spec => []BookingCurrent`: what a booking is about to write is computed from rows that still stand |
| `ReversalsDoNotConflict` | `Spec => []ReverseNeverConflicts`: `reverse`, which has no retry, never needs one |
| `LedgerIsAppendOnly` | `Spec => LedgerAppendOnly` |

These hold with overlapping clients too: the ledger is right even when the
status of a transfer is not.

**The invariant.** `LedgerChain` is not inductive: a booking writes balances it
computed several statements ago, so one must know they are still right. `IInv`
adds why. (1) `VersionPerEntry`: the version of a row counts its entries, so it
grows with every change of the balance and a number is never used for two
balances. By itself it says nothing of lost updates: it would hold of an UPDATE that
compares no version. (2) `ReadOf`: whatever a request has read is an older row or the
present one; equal versions mean equal balances. (3) `Holds`: the UPDATE that
compares the version also takes the row lock (as does `FOR UPDATE`), and a row
with a holder is changed by its holder's commit only, so from that statement
on what was read is what stands: (1) to (3) are `NoLostUpdate`. (4) The arithmetic checked on the readings
(funds, overflow) therefore holds of the rows. `RowsInv` and the job parts of
`WorkerInv` say that the two accounts of a live request differ and are open.

### Status and locks: `BankStatusProofs`

| Theorem | Statement |
|---|---|
| `LedgerStatus` | `Spec => []LedgerStatusInv` |
| `TransfersBookOnce` | `Spec => []BookedAtMostOnce`, whatever keys the clients repeat |
| `LocksHaveReasons` | `Spec => []HoldersInv` |
| `NoDeadlock` | `Spec => []NoWaitCycle`, if `Accounts` is finite |

**`LedgerStatusInv`** says of each transfer which entries it has (none, moved,
moved and given back) and what its status may then be. What makes a booking
unique is the count of entries under the row's lock: `LifeWorker` says that
whoever is in a transaction has that lock and, in the steps of a booking or of a
reversal, that the row is still as the count and the status check found it.

**`NoDeadlock`.** `HoldersInv` gives every lock its reason, the statement its
holder has got to; so a holder who still wants an account wants one with a
greater id than the account he has, and whoever wants a transfer's row has no
account yet. In a circle the wanted accounts would climb for ever, while a finite
set has a greatest one. (Finitely many accounts, not finitely many sessions: the
table has finitely many rows.)

### Clients that wait, and the refinement: `BankStatusProofs`

| Theorem | Statement |
|---|---|
| `BankIsSound` | `Spec => []BankInv` |
| `AcceptedHasMoved` | who is answered PENDING or SETTLED has had the money moved exactly once; for all clients |
| `AnswersAreTrue` | `~ClientsOverlap`, `Spec => []AcceptedIsTrue` |
| `FailureMovesNothing` | `~ClientsOverlap`, `Spec => []FailedMovedNothing` |
| `RefusalMovesNothing` | `~ClientsOverlap`, `Spec => []RejectedMovedNothing` |
| `FinalStatus` | `~ClientsOverlap`, `Spec => StatusFinal` |
| `Refinement` | `~ClientsOverlap`, `Spec => ImplementsAtomicBank` |

`~ClientsOverlap` is a hypothesis because the run `overlap` refutes these
properties without it: a client that repeats a key before it has its answer may
have a booking overwritten by `markFailed`. With it, `OnePerKey` says that at most one request of
a key is beyond its claim, `RefusalInv` that a request about to mark its row
FAILED finds nothing moved, and `FailedInv` follows.

**`Refinement`** is proved step by step. The initial tables are those of a bank
where nothing was asked for. Of the steps, a claim is `Register`, the commit of a booking
is `Book` (in standalone mode with the final status), `Settle` is `Settle`,
`markFailed` and the failure of an unbooked row are `Reject`, the commit of a
reversal is `Reverse`, an opening or a mutation's commit is `Adjust`; every other
statement, an abort and a restart stutter. The phase of a transfer is computed
from its row and its entries, and `Effect` says what each step may do to a row
and its entries, so that the phases of the other transfers stand still. The
theorem is about the safety part; the abstract bank states no fairness.

### The bank under resets: `BankResetProofs`

| Theorem | Statement |
|---|---|
| `ResetInvariant` | `ResetSpec => []ResetInv` |
| `ResetKeepsLedger`, `ResetLosesNoUpdate`, `ResetBookingsAreCurrent` | `LedgerChain`, `NoLostUpdate`, `BookingCurrent` across every reset |
| `ResetTransfersBookOnce` | `BookedAtMostOnce` |
| `ResetAcceptsOnlyMoved` | `ResetSpec => AcceptedWhenAnswered` |
| `ResetRefinement` | `ResetSpec => ImplementsResettableBank` |

`IInv` is not kept by `Truncate`: it says that a live request has its row and its
accounts, and `truncate` takes them. Rather than weaken every lemma of the bank,
the proof maps the bank with resets to the bank without. A request for a
transfer whose row is gone (`Rowless`) and a deposit to an account that is gone
(`Homeless`) are shown as idle by the mapping `Rest`, an instance of
`BankStatusProofs`; every step of the bank is then a step of the rest or changes nothing there
(`BankRests`), and the lemmas of `BankProofs` and `BankStatusProofs` apply to
the rest as they stand. `ResetInv` is the bank's whole invariant, of
the rest, and `OwnInv` of those left out: a request without a row is at its
first statement, about to be marked, or answered, never in the middle of a transaction
(`RequestInv`), and a deposit without an account waits for one whose id is
`retired` (`MutationInv`), so that neither comes back with a row it had not
read. `Truncate` leaves in the rest only who is idle or has been answered,
because the locks it waits for are free of all who are in a transaction
(`TruncateClears`). Whoever is left out cannot have been told PENDING or
SETTLED when its row was not there, which is `AcceptedWhenAnswered`; the
abstract bank's phases are functions of the tables and so the same for the bank
and for its rest, and `Truncate` is `Forget`. The theorems rest on
`ResetAssumption` (clients that wait: the key stands for the row) and on ids
not being given twice, as UUIDs are not.

### The other components

| Theorem | Statement |
|---|---|
| `FrontDeskProofs!DeskInvariant` | `Spec => []DeskInv` |
| `TokensStayTrue`, `SettlementTokensMoveNothing`, `SeedsAreIdempotent` | `TokenRoleCurrent`, `ServiceMovesNothing`, `SeedIdempotent` |
| `OverflowIsSeen` | `ToCents`, for any width of an `int64` |
| `SimulationProofs!SimInvariant` | `Spec => []SimInv` |
| `TypesAreRight`, `OneAtATime`, `ResetsAlone`, `CountersComplete`, `StopsLeaveNoOrphan`, `IdleIsEmpty` | `TypeOK`, `OneExecution`, `ResetAlone`, `CountersAddUp`, `CancelLeavesNoOrphan`, `IdleMeansEmpty` |
| `LockProofs!LockInvariant` | `Spec => []LockInv` |
| `CirclesAreExplained` | `CirclesExplained`, if `Sessions` is finite |
| `TransfersPass` | `TransferHoldersPass` |
| `SettlementProofs!FeedInvariant` | `Spec => []FeedInv` |
| `ShownHaveMoved`, `WalksAreBounded` | `ListedHaveMoved`, `WalkMissesAtMostWhatLeft` |
| `PagesExist` | `TypeOK`, if there are keys |
| `ListingsProofs!Books`, `ListInvariant` | `Spec => []BooksInv`, `Spec => []ListInv` |
| `StatementsInOrder`, `WalksFindWhatStays`, `RepeatsHaveReasons` | `EntriesInOrder`, `WalkFindsWhatStays`, `RepeatsAreArrivals` |

**`DeskInv`.** Rows of customers and service clients only come, and a role is
given once. A token therefore stays true to its row, and what a boot has found or
added is there when it goes on.

**`SimInv`.** `RunInv` says that each job that was dispatched is with exactly one
worker or in exactly one counter, and that the claimed rows nobody works for are
as many as the exhausted ones; `RunnerInv` and `CallInv` relate the phase, the current
execution and the mutex to where the callers and the executions' goroutines are.
That no counter exceeds `Transfers` follows. The workers are finitely many
(`SimulationAssumption`): they are counted, and `wg.Wait` waits for all of them.

**`LockInv`.** Nobody has more locks than his transaction takes, and (`Apart`)
nobody has anything of `transfers` beside a reset that has begun: the first lock
of the one excludes the first of the other. For the circles every list of locks is shown
to climb, by tables and then by ids, except at two places: a deposit or withdrawal
takes `accounts` before `entries`, and the foreign keys of a claim take source
before destination. What these two want out of order only a reset, or a
reversal, can keep from them: the two explained pairs. In any other circle
everybody waits for somebody who wants a higher lock, and among finitely many
sessions one wants the highest.

**`FeedInv`, `ListInv`.** The bound on what a finished walk missed says nothing of
a walk on its way. The invariants do: of the rows that were there at the first
page, those that now stand before the next page's offset and were not
seen are no more than what has left. They are inductive because a row that leaves moves every
row behind it up by one place, so at most one more goes over that border,
and because the next page shows the rows between its own border and the next one.
`ListInv` asks this of any order of the rows, with the rows that arrive: what was
shown twice and what was seen and stands behind the border again are
together no more than what arrived. It needs that a row once gone from a list
never comes back (`Been`) and that the list's order is total (`ListsOrdered`), which follows
from ids being unique (`LedgerInv`). `EntriesInOrder` rests on
`created <= committed`. `PagesExist` asks for a key because the first page is
asked for even when there can be no transfer.

### The layout

Each proof module has lemmas on the operators (`ReleaseFacts`, `SnapFacts`,
`AppendChained`, `PostFacts`, `Movement`; `Positions`, `Ranks`; `Climbing`), lemmas on
frames (`OtherWorkers`, `OtherTellers`: a step that leaves a session's own
variables alone, and does not change a row it holds, keeps its part of the
invariant), then one lemma per action or kind of action, one that combines
them for `Next`, and the theorems. `CommitKeeps` carries the heart of the ledger's
argument, that a commit by a holder keeps the books.

### Left to TLC

* **Liveness** (`RequestsEnd`, `MutationsEnd`, `StopReturns`, `RunsEnd`,
  `EveryoneEnds`, `BacklogDrains`): it rests on fairness and on `ENABLED`, which
  are outside the prover's reach.
* **`AmountsExact`**: it is about what a text says, for texts of any length, and
  so by induction over data. Its arithmetic is proved apart: `OverflowIsSeen` says
  that the check of the wrapped sum (`money.go:46`) refuses what does not fit
  and nothing else, and a negative number of centavos.

## 7. Where the code and its documents disagree

| Run | Code | Document |
|---|---|---|
| `overlap` | `markFailed` (`transfer.go:264`) updates the row without a lock or a condition on its status. A call that was refused may overwrite the row after another call with the same key has booked it: FAILED, and the money moved. | `spec-v1.0.0.md:86`, ADR 0003:8 |
| `blocked` | `SetStatus` (`account.go:172`) leaves the version alone, so a booking that read the account ACTIVE moves its money after the block. | `spec-v1.0.0.md:66` |
| `unbooked` | `Fail` (`transfer.go:441`) makes a PENDING row without entries FAILED. | `spec-v1.3.0.md:232`, `:302`: only a new call with the key takes it out of PENDING |
| `transfers_deadlock` | `reverse` (`transfer.go:469`) locks by id `FOR UPDATE`; the foreign keys of the claim lock source first. With the greater id as source the two deadlock, and the victim answers 500. | ADR 0001:17 |
| `shutdown` | On SIGTERM `runner.Stop` runs before `srv.Shutdown` (`main.go:126`): a start served in between begins an execution nobody stops, and the process ends with claimed, unbooked transfers. | `spec-v1.3.0.md:252` |

Met while modelling, and not a run of their own:

* The answer to a replay follows the mode of the running process
  (`transfer.go:126`), not the row: a transfer booked in external mode and
  repeated after a restart in standalone mode is answered SETTLED while its
  row is PENDING (ADR 0003:8 says the original result). `AcceptedIsTrue` asks
  of the answer SETTLED that the row be settled in external mode only.
* Offset pages are called deterministic (`spec-v1.1.0.md:50`), yet a walk that
  settles as it goes skips rows. `WalkMissesAtMostWhatLeft` bounds how many and
  `BacklogDrains` shows that the next walk finds them.
* A reset whose commit succeeded and whose acknowledgement was lost answers 500
  with the tables empty (`simulation.go:234`).
* `spec-v1.2.0.md:30` says that the boot guarantees an ADMIN with `ADMIN_EMAIL`.
  `EnsureAdmin` (`auth.go:115`) asks for any row with the address, as RF13 (`:61`)
  has it: a customer who registered it first stays a customer and the boot goes
  on. (Making him an ADMIN would leave him tokens of his former role: the mutant
  of `TokenRoleCurrent`.) The address is taken as it is written, while `login`
  lowers it: an administrator seeded with a capital letter cannot log in.
* `ParseDecimal` refuses a sign in front and takes one behind the point
  (`money.go:39`): `10.+5` is 10.05, `10.-0` is 10.00. `AmountsExact` therefore
  reads it as a zero; `10.-5` is refused by the overflow check.
* `RNF10` (`spec-v1.1.0.md:67`) says a SETTLEMENT token opens no account. No
  route of `/accounts` asks for a role; the foreign key of `owner_id` refuses it,
  and the answer is 500 and not 403.
* `Start` and `Stop` answer with a `Status` taken under a second lock
  (`simulation.go:156`): it may be that of a newer run.

## 8. What is not modelled

* **Password hashes and JWT signatures** are libraries: a request with the wrong
  password, secret or signature is refused and changes nothing. All replicas
  share one `JWT_SECRET`.
* **`FormatCents`** is called by tests only.
* **`Status`, the contents of the statistics, `Get` of one transfer or account,
  the counts by status**: they read one snapshot and answer.
* **HTTP, the rest of the configuration, API documentation**: no state, or
  generated. Of the configuration there are the mode, the gate, the seeds, and
  the boot that ends at a gate that does not parse, as it does at any other value.
* **The duplicate account number** and `Open`'s retry: the numbers are random.
* **The connection pool**: no request holds a connection while it asks for
  another, so the pool only delays.
* **Deletion**: nothing in the program deletes a row but the reset, which leaves
  customers and service clients alone.

## 9. Plan

The order was: the bank and its abstract specification, the proofs of its ledger,
the runner, the locks, the settlement boundary, the reset over the bank, the
listings, the front desk; then the proofs of the bank's statuses and of its
refinement, those of every other component, and those of the bank under
resets. Nothing of it is left but what the prover does not reach (see *Left
to TLC*). Three sessions in `lock_order` were explored
once with symmetry (231 148 states): its safety properties hold there too, as
`LockProofs` has since shown for any number.

## 10. Running it

    tlc -config transfer_restarts.cfg MCBank
    tlc -config reset.cfg MCReset
    tlc -config listings.cfg MCListings
    tlc -config frontdesk.cfg MCFrontDesk
    tlc -config simulation.cfg MCSimulation
    tlc -config lock_order.cfg MCLocks
    tlc -config settlement.cfg MCSettlement
    tlapm BankProofs.tla
    tlapm BankStatusProofs.tla
    tlapm BankResetProofs.tla
    tlapm FrontDeskProofs.tla
    tlapm SimulationProofs.tla
    tlapm LockProofs.tla
    tlapm SettlementProofs.tla
    tlapm ListingsProofs.tla

`PROJECT.json` gives each run's module, configuration and properties, the mutants, and
for every definition the lines of `src/` it models.
