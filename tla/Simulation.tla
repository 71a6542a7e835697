----------------------------- MODULE Simulation -----------------------------
(***************************************************************************)
(* internal/simulation: the runner behind POST /simulation/start, stop and *)
(* reset, the load executions it starts, and the process's shutdown.       *)
(*                                                                         *)
(* Callers are the goroutines of HTTP requests.  An execution is a         *)
(* goroutine of its own, which seeds accounts, hands job numbers to its    *)
(* workers over an unbuffered channel, and waits for them.  Of a transfer  *)
(* only the row it claims and how it ends are kept: TransferService models *)
(* the rest.                                                               *)
(***************************************************************************)
EXTENDS Integers, FiniteSets

CONSTANTS
  Callers,              \* goroutines that call the runner: HTTP requests, and
  Main,                 \* main itself, when the process is told to stop
  Workers,              \* Config.Workers goroutines of an execution
  Transfers,            \* Config.Transfers
  Accounts,             \* Config.Accounts
  MaxConflictAttempts,
  MaxResetAttempts,
  MaxRuns,              \* bound: executions a behaviour may start
  Null

ASSUME SimulationAssumption ==
  /\ \A n \in {Transfers, Accounts, MaxConflictAttempts, MaxResetAttempts, MaxRuns} : n \in Nat \ {0}
  /\ IsFiniteSet(Workers)
  /\ Main \in Callers
  /\ Null \notin Callers

VARIABLES
  process,    \* what main is doing
  mu,         \* the caller that holds Runner.mu across steps
  phase,      \* Runner.phase
  current,    \* Runner.runID, as the number of the execution
  exec,       \* where each execution's goroutine is
  cancelled,  \* its context
  seeded,     \* accounts it has opened and funded
  next,       \* the next job dispatch will hand out
  work,       \* what each of its workers is at
  counters,   \* its counters; the runner's are those of `current`
  rows,       \* the transfer of each job in the database: claimed is PENDING
              \* without entries; ended is booked, or FAILED, or left as it was
              \* by a statement that failed
  call        \* what each caller is at

runnerVars == <<mu, phase, current>>
execVars == <<exec, cancelled, seeded, next, work, counters, rows>>
vars == <<process, runnerVars, execVars, call>>

Runs == 1 .. MaxRuns
Jobs == 1 .. Transfers
Phases == {"idle", "seeding", "running", "finished", "stopped"}
RowStates == {"none", "claimed", "ended"}
\* answered: accepted or rejected_insufficient, which is TransferService's say.
Counts(N) == [dispatched : N, answered : N, exhausted : N, errors : N]
NoCounts == [dispatched |-> 0, answered |-> 0, exhausted |-> 0, errors |-> 0]
Waiting == [at |-> "wait", job |-> 0, attempt |-> 0]
NoRows == [e \in Runs |-> [j \in Jobs |-> "none"]]
NoCall == [at |-> "idle", run |-> 0, attempt |-> 0]

Active == phase \in {"seeding", "running"}
AtWork == {"seed", "dispatch", "drain", "judge"}

TypeOK ==
  /\ process \in {"serving", "stopping", "shutdown", "exited"}
  /\ mu \in Callers \cup {Null}
  /\ phase \in Phases
  /\ current \in Runs \cup {0}
  /\ exec \in [Runs -> AtWork \cup {"none", "close", "over"}]
  /\ cancelled \in [Runs -> BOOLEAN]
  /\ seeded \in [Runs -> 0 .. Accounts]
  /\ next \in [Runs -> 1 .. Transfers + 1]
  /\ work \in [Runs -> [Workers -> [at : {"wait", "call", "claimed", "out"}, job : Jobs \cup {0},
                                    attempt : 0 .. MaxConflictAttempts]]]
  /\ counters \in [Runs -> Counts(0 .. Transfers)]
  /\ rows \in [Runs -> [Jobs -> RowStates]]
  /\ call \in [Callers -> [at : {"idle", "truncate", "clear", "wait"}, run : Runs \cup {0},
                           attempt : 0 .. MaxResetAttempts]]

Init ==
  /\ process = "serving"
  /\ mu = Null
  /\ phase = "idle"
  /\ current = 0
  /\ exec = [e \in Runs |-> "none"]
  /\ cancelled = [e \in Runs |-> FALSE]
  /\ seeded = [e \in Runs |-> 0]
  /\ next = [e \in Runs |-> 1]
  /\ work = [e \in Runs |-> [w \in Workers |-> Waiting]]
  /\ counters = [e \in Runs |-> NoCounts]
  /\ rows = NoRows
  /\ call = [c \in Callers |-> NoCall]

----------------------------------------------------------------------------
\* The calls.  mu is free for whoever locks and unlocks it within a step;
\* only Reset keeps it, while the tables are truncated.  A refusal changes
\* nothing and the status they all answer with only reads: neither is a step.
\* What a client calls after Shutdown was received before it.
Clients == Callers \ {Main}
At(c, place) == call[c].at = place
Return(c) == call' = [call EXCEPT ![c] = NoCall]

\* Bound: no action reads what an execution that is over has left behind, so
\* it is forgotten, together with that execution's memory, when another starts.
Forget(f, blank) == [e \in Runs |-> IF exec[e] = "over" THEN blank ELSE f[e]]

\* Mutant of MayBegin: Start and Reset do not ask whether a run is active.
BeginAnyway(c) == At(c, "idle") /\ mu = Null

\* Start and Reset, once they have mu: not while an execution is active.
MayBegin(c) == At(c, "idle") /\ mu = Null /\ ~Active

\* Start: a new execution with fresh counters.
Start(c) ==
  LET e == current + 1 IN
  /\ c \in Clients
  /\ MayBegin(c)
  /\ e \in Runs
  /\ phase' = "seeding"
  /\ current' = e
  /\ exec' = [exec EXCEPT ![e] = "seed"]
  /\ cancelled' = Forget(cancelled, FALSE)
  /\ seeded' = Forget(seeded, 0)
  /\ next' = Forget(next, 1)
  /\ work' = Forget(work, [w \in Workers |-> Waiting])
  /\ counters' = Forget(counters, NoCounts)
  /\ rows' = Forget(rows, [j \in Jobs |-> "none"])
  /\ UNCHANGED <<process, mu, call>>

\* Mutant of CancelRun: the phase is set to stopped there and then.
CancelAtOnce(c) ==
  /\ mu = Null
  /\ IF Active
     THEN /\ cancelled' = [cancelled EXCEPT ![current] = TRUE]
          /\ phase' = "stopped"
          /\ call' = [call EXCEPT ![c].at = "wait", ![c].run = current]
     ELSE UNCHANGED <<cancelled, phase, call>>

\* Stop under mu: the context is cancelled and the done channel of that
\* execution taken along; or there is nothing to stop.
CancelRun(c) ==
  /\ mu = Null
  /\ UNCHANGED phase
  /\ IF Active
     THEN /\ cancelled' = [cancelled EXCEPT ![current] = TRUE]
          /\ call' = [call EXCEPT ![c].at = "wait", ![c].run = current]
     ELSE UNCHANGED <<cancelled, call>>

Stop(c) ==
  /\ c \in Clients
  /\ At(c, "idle")
  /\ CancelRun(c)
  /\ UNCHANGED <<process, mu, current, exec, seeded, next, work, counters, rows>>

\* Stop's receive from done, which execute closes as it returns.
StopWaited(c) ==
  /\ At(c, "wait")
  /\ exec[call[c].run] = "over"
  /\ Return(c)
  /\ UNCHANGED <<process, runnerVars, execVars>>

\* Reset, which keeps mu.
ResetBegin(c) ==
  /\ c \in Clients
  /\ MayBegin(c)
  /\ mu' = c
  /\ call' = [call EXCEPT ![c].at = "truncate", ![c].attempt = 1]
  /\ UNCHANGED <<process, phase, current, execVars>>

\* Mutant of Truncate: the last attempt's failure is not returned.
TruncateOrNot(c) ==
  /\ At(c, "truncate")
  /\ rows' \in {rows, NoRows}
  /\ call' = [call EXCEPT ![c].at = "clear"]
  /\ UNCHANGED <<process, runnerVars, exec, cancelled, seeded, next, work, counters>>

\* One transaction of truncate: committed, or failed on a lock and tried
\* again, or failed for good.  A commit whose acknowledgement is lost is such
\* a failure, and the tables are empty.
Truncate(c) ==
  /\ At(c, "truncate")
  /\ \/ /\ rows' = NoRows
        /\ call' = [call EXCEPT ![c].at = "clear"]
        /\ UNCHANGED mu
     \/ /\ call[c].attempt < MaxResetAttempts
        /\ call' = [call EXCEPT ![c].attempt = @ + 1]
        /\ UNCHANGED <<mu, rows>>
     \/ /\ mu' = Null
        /\ Return(c)
        /\ rows' \in {rows, NoRows}
  /\ UNCHANGED <<process, phase, current, exec, cancelled, seeded, next, work, counters>>

\* Only then is the memory put back to what NewRunner made.  The number of
\* the last run is kept, for a new one to differ from it.
ClearMemory(c) ==
  /\ At(c, "clear")
  /\ mu' = Null
  /\ phase' = "idle"
  /\ Return(c)
  /\ UNCHANGED <<process, current, execVars>>

----------------------------------------------------------------------------
\* An execution's goroutine.
Step(e, from, to) ==
  /\ exec[e] = from
  /\ exec' = [exec EXCEPT ![e] = to]

\* setPhase takes mu.
SetPhase(p) == mu = Null /\ phase' = p

\* Mutant of SeedFails: execute returns without setPhase.
SeedFailsSilently(e) ==
  /\ Step(e, "seed", "close")
  /\ seeded[e] < Accounts
  /\ UNCHANGED <<process, runnerVars, cancelled, seeded, next, work, counters, rows, call>>

\* One account opened and given its deposit.
Seed(e) ==
  /\ exec[e] = "seed"
  /\ ~cancelled[e]
  /\ seeded[e] < Accounts
  /\ seeded' = [seeded EXCEPT ![e] = @ + 1]
  /\ UNCHANGED <<process, runnerVars, exec, cancelled, next, work, counters, rows, call>>

\* The context is cancelled, or a statement fails.
SeedFails(e) ==
  /\ Step(e, "seed", "close")
  /\ seeded[e] < Accounts
  /\ SetPhase("stopped")
  /\ UNCHANGED <<process, mu, current, cancelled, seeded, next, work, counters, rows, call>>

\* Seeded; nobody asks again whether the context is cancelled.
BeginRun(e) ==
  /\ Step(e, "seed", "dispatch")
  /\ seeded[e] = Accounts
  /\ SetPhase("running")
  /\ UNCHANGED <<process, mu, current, cancelled, seeded, next, work, counters, rows, call>>

\* Mutant of JobsLeft: one job too many.
JobsLeftOffByOne(e) == next[e] <= Transfers + 1

JobsLeft(e) == next[e] <= Transfers

\* The channel is unbuffered: a job is handed to a worker that waits for one,
\* which counts it and calls Transfer.  With the context cancelled too, select
\* may still choose to hand the job out.
Dispatch(e, w) ==
  /\ exec[e] = "dispatch"
  /\ JobsLeft(e)
  /\ work[e][w].at = "wait"
  /\ next' = [next EXCEPT ![e] = @ + 1]
  /\ work' = [work EXCEPT ![e][w] = [at |-> "call", job |-> next[e], attempt |-> 1]]
  /\ counters' = [counters EXCEPT ![e].dispatched = @ + 1]
  /\ UNCHANGED <<process, runnerVars, exec, cancelled, seeded, rows, call>>

\* dispatch returns, and run closes the channel.
DispatchOver(e) ==
  /\ Step(e, "dispatch", "drain")
  /\ ~JobsLeft(e) \/ cancelled[e]
  /\ UNCHANGED <<process, runnerVars, cancelled, seeded, next, work, counters, rows, call>>

\* Mutant of Closed: run forgets to close the channel.
LeftOpen(e) == FALSE

Closed(e) == exec[e] = "drain"

\* Mutant of Drained: without wg.Wait.
NotDrained(e) == TRUE

\* wg.Wait.
Drained(e) == \A w \in Workers : work[e][w].at = "out"
AllOut(e) ==
  /\ Step(e, "drain", "judge")
  /\ Drained(e)
  /\ UNCHANGED <<process, runnerVars, cancelled, seeded, next, work, counters, rows, call>>

\* The last phase.
Judge(e) ==
  /\ Step(e, "judge", "close")
  /\ SetPhase(IF counters[e].dispatched = Transfers THEN "finished" ELSE "stopped")
  /\ UNCHANGED <<process, mu, current, cancelled, seeded, next, work, counters, rows, call>>

CloseDone(e) ==
  /\ Step(e, "close", "over")
  /\ UNCHANGED <<process, runnerVars, cancelled, seeded, next, work, counters, rows, call>>

----------------------------------------------------------------------------
\* A worker of an execution.
Row(e, w) == rows[e][work[e][w].job]
Worker(e, w, from) == work[e][w].at = from
MarkRow(e, w, row) == rows' = [rows EXCEPT ![e][work[e][w].job] = row]

\* Transfer has returned for good: record counts the outcome, and the worker
\* is back at the channel.
Record(e, w, outcome) ==
  /\ counters' = [counters EXCEPT ![e][outcome] = @ + 1]
  /\ work' = [work EXCEPT ![e][w] = Waiting]

\* Transfer claims its key, or finds the row it claimed before.
Claim(e, w) ==
  /\ Worker(e, w, "call")
  /\ MarkRow(e, w, "claimed")
  /\ work' = [work EXCEPT ![e][w].at = "claimed"]
  /\ UNCHANGED <<process, runnerVars, exec, cancelled, seeded, next, counters, call>>

\* The claimed transfer is booked, or refused and marked failed.
Complete(e, w) ==
  /\ Worker(e, w, "claimed")
  /\ MarkRow(e, w, "ended")
  /\ Record(e, w, "answered")
  /\ UNCHANGED <<process, runnerVars, exec, cancelled, seeded, next, call>>

\* A 409: the same key again after a pause, or given up.
VersionConflict(e, w) ==
  /\ Worker(e, w, "claimed")
  /\ \/ /\ work[e][w].attempt < MaxConflictAttempts
        /\ work' = [work EXCEPT ![e][w].at = "call", ![e][w].attempt = @ + 1]
        /\ UNCHANGED counters
     \/ /\ work[e][w].attempt = MaxConflictAttempts
        /\ Record(e, w, "exhausted")
  /\ UNCHANGED <<process, runnerVars, exec, cancelled, seeded, next, rows, call>>

\* Mutant of Broken: Transfer is called with the execution's own context, and
\* Stop makes a statement of it fail.
BrokenByCancel(e, w) ==
  /\ work[e][w].at \in {"call", "claimed"}
  /\ IF cancelled[e] THEN UNCHANGED rows ELSE MarkRow(e, w, "ended")
  /\ Record(e, w, "errors")
  /\ UNCHANGED <<process, runnerVars, exec, cancelled, seeded, next, call>>

\* A statement of Transfer fails, with or without its commit done.  It is not
\* Stop that makes it fail: the call has a context that is never cancelled.
Broken(e, w) ==
  /\ work[e][w].at \in {"call", "claimed"}
  /\ MarkRow(e, w, "ended")
  /\ Record(e, w, "errors")
  /\ UNCHANGED <<process, runnerVars, exec, cancelled, seeded, next, call>>

\* The channel is closed and empty.
Leave(e, w) ==
  /\ Worker(e, w, "wait")
  /\ Closed(e)
  /\ work' = [work EXCEPT ![e][w].at = "out"]
  /\ UNCHANGED <<process, runnerVars, exec, cancelled, seeded, next, counters, rows, call>>

----------------------------------------------------------------------------
\* main on SIGTERM: runner.Stop(), then srv.Shutdown, then the end.
Signal ==
  /\ process = "serving"
  /\ process' = "stopping"
  /\ CancelRun(Main)
  /\ UNCHANGED <<mu, current, exec, seeded, next, work, counters, rows>>

Shutdown ==
  /\ process = "stopping"
  /\ At(Main, "idle")
  /\ process' = "shutdown"
  /\ UNCHANGED <<runnerVars, execVars, call>>

\* The last request was answered, or ten seconds have passed: run returns,
\* and every goroutine dies where it is.
Exit ==
  /\ process = "shutdown"
  /\ process' = "exited"
  /\ UNCHANGED <<runnerVars, execVars, call>>

\* What a call does by itself once it has begun.
Proceed(c) == StopWaited(c) \/ Truncate(c) \/ ClearMemory(c)
Execution(e) ==
  \/ Seed(e) \/ SeedFails(e) \/ BeginRun(e)
  \/ (\E w \in Workers : Dispatch(e, w)) \/ DispatchOver(e)
  \/ AllOut(e) \/ Judge(e) \/ CloseDone(e)
Serve(e, w) ==
  \/ Claim(e, w) \/ Complete(e, w) \/ VersionConflict(e, w)
  \/ Broken(e, w) \/ Leave(e, w)

Next ==
  \/ /\ process # "exited"
     /\ \/ \E c \in Callers : Start(c) \/ Stop(c) \/ ResetBegin(c) \/ Proceed(c)
        \/ \E e \in Runs : Execution(e) \/ \E w \in Workers : Serve(e, w)
        \/ Signal \/ Shutdown \/ Exit
  \/ process = "exited" /\ UNCHANGED vars

Spec == Init /\ [][Next]_vars

\* The scheduler runs every goroutine that can run, the ticker ticks and
\* statements return.  Nobody has to call.
Alive(A) == A /\ process # "exited"
Fairness ==
  /\ \A c \in Callers : WF_vars(Alive(Proceed(c)))
  /\ \A e \in Runs :
       /\ WF_vars(Alive(Execution(e)))
       /\ \A w \in Workers : WF_vars(Alive(Serve(e, w)))

FairSpec == Spec /\ Fairness

----------------------------------------------------------------------------
\* RF17: at most one execution is at work, the runner says so as long as it
\* is, and it is the one whose counters the runner shows.
OneExecution ==
  \A e \in Runs : exec[e] \in AtWork <=> Active /\ e = current

\* RF29 to RF31: while Reset truncates the tables, no execution is seeding
\* them or in the middle of a transfer.
ResetAlone ==
  \A c \in Callers : call[c].at \in {"truncate", "clear"} =>
    /\ \A e \in Runs : exec[e] \notin AtWork
    /\ \A e \in Runs, w \in Workers : work[e][w].at \in {"wait", "out"}

Recorded(n) == n.answered + n.exhausted + n.errors

\* RF20, CA27: every transfer that was dispatched is in one of the counters by
\* the time the phase says the run is over, and finished means all of them.
CountersAddUp ==
  phase \in {"finished", "stopped"} =>
    /\ counters[current].dispatched = Recorded(counters[current])
    /\ phase = "finished" => counters[current].dispatched = Transfers

\* The PENDING rows without entries that an execution leaves behind, when no
\* statement of theirs failed.
Orphans(e) == {j \in Jobs : rows[e][j] = "claimed"}

\* RNF17, CA26: Stop interrupts no transfer between the claim of its key and
\* its booking; the rows without entries are those whose versions collided in
\* every attempt.  Reset may have removed them since.
CancelLeavesNoOrphan ==
  \A e \in Runs : exec[e] \in {"close", "over"} =>
    Cardinality(Orphans(e)) \in {0, counters[e].exhausted}

\* RNF21 of spec v1.4.0: the memory is cleared after the tables and not without
\* them, and no worker of an older execution comes after it: an idle runner
\* has no transfer of any execution in the tables.
IdleMeansEmpty == phase = "idle" => rows = NoRows

\* RF19: Stop answers, whatever its execution was in the middle of.
StopReturns ==
  \A c \in Callers : At(c, "wait") ~> At(c, "idle") \/ process = "exited"

\* Every execution comes to an end and frees the runner.
RunsEnd == Active ~> (~Active \/ process = "exited")

\* RNF17 for the process: no transfer of a simulation is cut between its
\* claim and its booking by a shutdown that ran runner.Stop first.
ExitLeavesNoOrphan ==
  process = "exited" =>
    \A e \in Runs, w \in Workers :
      work[e][w].at \in {"call", "claimed"} => Row(e, w) # "claimed"
=============================================================================
