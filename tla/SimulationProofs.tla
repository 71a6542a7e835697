--------------------------- MODULE SimulationProofs ---------------------------
(***************************************************************************)
(* Proofs that the simulation's runner keeps to one execution at a time    *)
(* and that an execution's counters and rows account for every transfer,   *)
(* for any number of callers, workers, transfers and executions.           *)
(***************************************************************************)
EXTENDS Simulation, FiniteSetTheorems, TLAPS

\* The types, but for the bound of the counters: that one follows.
Slots == [at : {"wait", "call", "claimed", "out"}, job : Jobs \cup {0},
          attempt : 0 .. MaxConflictAttempts]
Calls == [at : {"idle", "truncate", "clear", "wait"}, run : Runs \cup {0},
          attempt : 0 .. MaxResetAttempts]
LooseTypeOK ==
  /\ process \in {"serving", "stopping", "shutdown", "exited"}
  /\ mu \in Callers \cup {Null}
  /\ phase \in Phases
  /\ current \in Runs \cup {0}
  /\ exec \in [Runs -> AtWork \cup {"none", "close", "over"}]
  /\ cancelled \in [Runs -> BOOLEAN]
  /\ seeded \in [Runs -> 0 .. Accounts]
  /\ next \in [Runs -> 1 .. Transfers + 1]
  /\ work \in [Runs -> [Workers -> Slots]]
  /\ counters \in [Runs -> Counts(Nat)]
  /\ rows \in [Runs -> [Jobs -> RowStates]]
  /\ call \in [Callers -> Calls]

\* The workers that have a job, and the rows without entries whose job nobody
\* has any more.
Busy(e) == {w \in Workers : work[e][w].at \in {"call", "claimed"}}
Abandoned(e) ==
  {j \in Jobs : rows[e][j] = "claimed" /\ \A w \in Busy(e) : work[e][w].job # j}

\* Each job that was dispatched is with one worker or in one counter; the rows
\* left behind are as many as the exhausted, until a reset takes them away.
RunInv(e) ==
  /\ e > current => exec[e] = "none" /\ counters[e] = NoCounts /\ Abandoned(e) = {}
  /\ exec[e] \notin {"dispatch", "drain"} => Busy(e) = {}
  /\ counters[e].dispatched = next[e] - 1
  /\ counters[e].dispatched = Recorded(counters[e]) + Cardinality(Busy(e))
  /\ \A w \in Busy(e) : work[e][w].job \in Jobs /\ work[e][w].job < next[e]
  /\ \A v, w \in Busy(e) : work[e][v].job = work[e][w].job => v = w
  /\ \A w \in Workers : work[e][w].at = "claimed" => Row(e, w) = "claimed"
  /\ \A j \in Jobs : rows[e][j] = "claimed" => j < next[e]
  /\ \/ Cardinality(Abandoned(e)) = counters[e].exhausted
     \/ exec[e] \notin AtWork /\ Abandoned(e) = {}

\* A caller that resets has mu, and no execution is active beside it.
CallInv(c) ==
  /\ call[c].at \in {"truncate", "clear"} => mu = c /\ ~Active
  /\ call[c].at = "clear" => rows = NoRows

RunnerInv ==
  /\ OneExecution
  /\ phase # "idle" => current \in Runs
  /\ phase = "finished" => counters[current].dispatched = Transfers
  /\ IdleMeansEmpty

SimInv ==
  /\ LooseTypeOK
  /\ RunnerInv
  /\ \A e \in Runs : RunInv(e)
  /\ \A c \in Callers : CallInv(c)

\* What is known of the constants.
Configured ==
  /\ Transfers \in Nat \ {0} /\ Accounts \in Nat \ {0} /\ MaxRuns \in Nat \ {0}
  /\ MaxConflictAttempts \in Nat \ {0} /\ MaxResetAttempts \in Nat \ {0}
  /\ IsFiniteSet(Workers)
  /\ Main \in Callers /\ Null \notin Callers

\* The assumption on the constants, under a name that can be left unexpanded.
LEMMA IsConfigured == Configured
BY SimulationAssumption DEF Configured

----------------------------------------------------------------------------
(* Counting.                                                               *)

\* The workers of an execution are finitely many, and so are its jobs.
LEMMA Finite ==
  ASSUME Configured, NEW e
  PROVE  /\ IsFiniteSet(Busy(e)) /\ Cardinality(Busy(e)) \in Nat
         /\ IsFiniteSet(Abandoned(e)) /\ Cardinality(Abandoned(e)) \in Nat
         /\ Busy(e)' \subseteq Workers /\ Abandoned(e)' \subseteq Jobs
         /\ IsFiniteSet(Jobs)
<1>1. IsFiniteSet(Jobs)
  BY FS_Interval DEF Configured, Jobs
<1>2. IsFiniteSet(Busy(e)) /\ IsFiniteSet(Abandoned(e))
  BY <1>1, FS_Subset DEF Configured, Busy, Abandoned
<1>3. Busy(e)' \subseteq Workers /\ Abandoned(e)' \subseteq Jobs
  BY DEF Busy, Abandoned
<1> QED
  BY <1>1, <1>2, <1>3, FS_CardinalityType

\* No counter passes the number of transfers.
LEMMA CountersBounded ==
  ASSUME Configured, LooseTypeOK, \A e \in Runs : RunInv(e)
  PROVE  TypeOK
<1>1. ASSUME NEW e \in Runs PROVE counters[e] \in Counts(0 .. Transfers)
  <2>1. counters[e] \in Counts(Nat) /\ next[e] \in 1 .. Transfers + 1
    BY DEF LooseTypeOK
  <2>2. PICK d, a, x, r \in Nat :
          counters[e] = [dispatched |-> d, answered |-> a, exhausted |-> x, errors |-> r]
    BY <2>1 DEF Counts
  <2>3. PICK b \in Nat : b = Cardinality(Busy(e))
    BY Finite
  <2>4. d = next[e] - 1 /\ d = a + x + r + b
    BY <2>2, <2>3 DEF RunInv, Recorded
  <2>5. d \in 0 .. Transfers /\ a \in 0 .. Transfers /\ x \in 0 .. Transfers /\ r \in 0 .. Transfers
    BY <2>1, <2>4 DEF Configured
  <2> QED
    BY <2>2, <2>5 DEF Counts
<1>2. counters \in [Runs -> Counts(0 .. Transfers)]
  BY <1>1 DEF LooseTypeOK
<1> QED
  BY <1>2 DEF LooseTypeOK, TypeOK, Slots, Calls

\* The counters of an execution are numbers.
LEMMA Numbers ==
  ASSUME Configured, LooseTypeOK, NEW e \in Runs
  PROVE  /\ counters[e].dispatched \in Nat /\ Recorded(counters[e]) \in Nat
         /\ Cardinality(Busy(e)) \in Nat /\ next[e] \in Nat
         /\ counters[e].exhausted \in Nat
<1>1. counters[e] \in Counts(Nat) /\ next[e] \in 1 .. Transfers + 1
  BY DEF LooseTypeOK
<1> QED
  BY <1>1, Finite DEF Counts, Recorded, Configured

\* One more dispatched.
LEMMA CountsDispatched ==
  ASSUME LooseTypeOK, NEW e \in Runs, counters' = [counters EXCEPT ![e].dispatched = @ + 1]
  PROVE  /\ counters' \in [Runs -> Counts(Nat)]
         /\ counters'[e].dispatched = counters[e].dispatched + 1
         /\ Recorded(counters'[e]) = Recorded(counters[e])
         /\ counters'[e].exhausted = counters[e].exhausted
         /\ \A f \in Runs \ {e} : counters'[f] = counters[f]
<1>1. counters \in [Runs -> Counts(Nat)]
  BY DEF LooseTypeOK
<1>2. /\ counters' \in [Runs -> Counts(Nat)]
      /\ \A f \in Runs \ {e} : counters'[f] = counters[f]
  BY <1>1 DEF Counts
<1>3. /\ counters'[e].dispatched = counters[e].dispatched + 1
      /\ counters'[e].answered = counters[e].answered
      /\ counters'[e].exhausted = counters[e].exhausted
      /\ counters'[e].errors = counters[e].errors
  BY <1>1 DEF Counts
<1> QED
  BY <1>2, <1>3 DEF Recorded

\* One more recorded.
LEMMA CountsRecorded ==
  ASSUME LooseTypeOK, NEW e \in Runs, NEW outcome \in {"answered", "exhausted", "errors"},
         counters' = [counters EXCEPT ![e][outcome] = @ + 1]
  PROVE  /\ counters' \in [Runs -> Counts(Nat)]
         /\ counters'[e].dispatched = counters[e].dispatched
         /\ Recorded(counters'[e]) = Recorded(counters[e]) + 1
         /\ counters'[e].exhausted =
              IF outcome = "exhausted" THEN counters[e].exhausted + 1 ELSE counters[e].exhausted
         /\ \A f \in Runs \ {e} : counters'[f] = counters[f]
<1>1. counters \in [Runs -> Counts(Nat)]
  BY DEF LooseTypeOK
<1>2. CASE outcome = "answered"
  BY <1>1, <1>2 DEF Counts, Recorded
<1>3. CASE outcome = "exhausted"
  BY <1>1, <1>3 DEF Counts, Recorded
<1>4. CASE outcome = "errors"
  BY <1>1, <1>4 DEF Counts, Recorded
<1> QED
  BY <1>2, <1>3, <1>4

----------------------------------------------------------------------------
(* Steps of one execution leave the others.                                *)

SameRun(e) ==
  /\ exec'[e] = exec[e] /\ next'[e] = next[e] /\ work'[e] = work[e]
  /\ counters'[e] = counters[e] /\ rows'[e] = rows[e]

\* What an execution is known of stays, while it does nothing.
LEMMA RunStays ==
  ASSUME NEW e \in Runs, RunInv(e), SameRun(e), current' = current \/ (current' = current + 1 /\ current \in Nat)
  PROVE  RunInv(e)'
<1>1. Busy(e)' = Busy(e) /\ Abandoned(e)' = Abandoned(e) /\ \A w \in Workers : Row(e, w)' = Row(e, w)
  BY DEF SameRun, Busy, Abandoned, Row
<1>2. e > current' => e > current
  BY DEF Runs
<1> QED
  BY <1>1, <1>2 DEF RunInv, SameRun

\* An execution at work is the current one, and no reset is under way.
LEMMA WorkIsActive ==
  ASSUME Configured, SimInv, NEW e \in Runs, exec[e] \in AtWork
  PROVE  /\ phase \in {"seeding", "running"} /\ e = current
         /\ \A c \in Callers : call[c].at \notin {"truncate", "clear"}
BY DEF SimInv, RunnerInv, OneExecution, Active, CallInv

\* A step of a worker of e, or of its dispatch, that keeps e's own account.
LEMMA WorkStep ==
  ASSUME Configured, SimInv, NEW e \in Runs, exec[e] \in AtWork,
         UNCHANGED <<process, runnerVars, exec, cancelled, seeded, call>>,
         LooseTypeOK', RunInv(e)', \A f \in Runs \ {e} : SameRun(f)
  PROVE  SimInv'
<1>1. current' = current /\ phase' = phase /\ mu' = mu
  BY DEF runnerVars
<1>2. \A f \in Runs : RunInv(f)'
  BY <1>1, RunStays DEF SimInv
<1>3. RunnerInv'
  BY <1>1, WorkIsActive DEF SimInv, RunnerInv, OneExecution, IdleMeansEmpty, Active
<1>4. \A c \in Callers : CallInv(c)'
  BY WorkIsActive DEF CallInv
<1> QED
  BY <1>2, <1>3, <1>4 DEF SimInv

----------------------------------------------------------------------------
(* The workers of an execution.                                            *)

\* One worker of e moves to another slot.
Moves(e, w, slot) ==
  /\ work' \in [Runs -> [Workers -> Slots]]
  /\ work'[e][w] = slot
  /\ \A v \in Workers \ {w} : work'[e][v] = work[e][v]
  /\ \A f \in Runs \ {e} : work'[f] = work[f]

\* An assignment to one slot of work is such a move.
LEMMA SlotSet ==
  ASSUME LooseTypeOK, NEW e \in Runs, NEW w \in Workers, NEW slot \in Slots,
         work' = [work EXCEPT ![e][w] = slot]
  PROVE  Moves(e, w, slot)
BY DEF LooseTypeOK, Moves

\* A row's new state.
LEMMA RowSet ==
  ASSUME LooseTypeOK, NEW e \in Runs, NEW w \in Workers, NEW j \in Jobs, j = work[e][w].job,
         NEW row \in RowStates, MarkRow(e, w, row)
  PROVE  /\ rows' \in [Runs -> [Jobs -> RowStates]] /\ rows'[e][j] = row
         /\ \A i \in Jobs \ {j} : rows'[e][i] = rows[e][i]
         /\ \A f \in Runs \ {e} : rows'[f] = rows[f]
BY DEF LooseTypeOK, MarkRow

\* What a worker with a job is known of; whoever has one belongs to an
\* execution at work.
LEMMA BusyFacts ==
  ASSUME Configured, SimInv, NEW e \in Runs, NEW w \in Busy(e), NEW j, j = work[e][w].job
  PROVE  /\ exec[e] \in {"dispatch", "drain"} /\ exec[e] \in AtWork
         /\ w \in Workers /\ j \in Jobs /\ j < next[e] /\ work[e][w] \in Slots
         /\ j \notin Abandoned(e)
         /\ \A v \in Busy(e) \ {w} : work[e][v].job # j
         /\ Cardinality(Abandoned(e)) = counters[e].exhausted
<1>1. exec[e] \in {"dispatch", "drain"} /\ w \in Workers
  BY DEF SimInv, RunInv, Busy
<1>2. exec[e] \in AtWork
  BY <1>1 DEF AtWork
<1>3. work[e][w] \in Slots
  BY <1>1 DEF SimInv, LooseTypeOK
<1> QED
  BY <1>1, <1>2, <1>3 DEF SimInv, RunInv, Abandoned

\* A worker that goes on with the job it has.
LEMMA StaysBusy ==
  ASSUME Configured, SimInv, NEW e \in Runs, NEW w \in Busy(e), NEW j, j = work[e][w].job,
         NEW slot, Moves(e, w, slot), slot.at \in {"call", "claimed"}, slot.job = j,
         \A i \in Jobs \ {j} : rows'[e][i] = rows[e][i]
  PROVE  Busy(e)' = Busy(e) /\ Abandoned(e)' = Abandoned(e)
<1>1. w \in Workers /\ j \in Jobs
  BY BusyFacts
<1>2. Busy(e)' = Busy(e)
  BY <1>1 DEF Busy, Moves
<1>3. \A v \in Busy(e) : work'[e][v].job = work[e][v].job
  BY <1>1 DEF Busy, Moves
<1>4. ASSUME NEW i \in Jobs PROVE i \in Abandoned(e)' <=> i \in Abandoned(e)
  BY <1>1, <1>2, <1>3 DEF Abandoned
<1> QED
  BY <1>2, <1>4, Finite DEF Abandoned

\* A worker that is done with its job.
LEMMA LeavesBusy ==
  ASSUME Configured, SimInv, NEW e \in Runs, NEW w \in Busy(e), NEW j, j = work[e][w].job,
         NEW slot, Moves(e, w, slot), slot.at = "wait",
         \A i \in Jobs \ {j} : rows'[e][i] = rows[e][i]
  PROVE  /\ Busy(e)' = Busy(e) \ {w} /\ Cardinality(Busy(e)') = Cardinality(Busy(e)) - 1
         /\ rows'[e][j] # "claimed" => Abandoned(e)' = Abandoned(e)
         /\ rows'[e][j] = "claimed" =>
              /\ Abandoned(e)' = Abandoned(e) \cup {j}
              /\ Cardinality(Abandoned(e)') = Cardinality(Abandoned(e)) + 1
<1>1. w \in Workers /\ j \in Jobs /\ j \notin Abandoned(e)
      /\ \A v \in Busy(e) \ {w} : work[e][v].job # j
  BY BusyFacts
<1>2. Busy(e)' = Busy(e) \ {w} /\ \A v \in Busy(e) \ {w} : work'[e][v].job = work[e][v].job
  BY <1>1 DEF Busy, Moves
<1>3. Cardinality(Busy(e) \ {w}) = Cardinality(Busy(e)) - 1
  BY FS_RemoveElement, Finite
<1>4. ASSUME NEW i \in Jobs \ {j} PROVE i \in Abandoned(e)' <=> i \in Abandoned(e)
  BY <1>1, <1>2 DEF Abandoned
<1>5. j \in Abandoned(e)' <=> rows'[e][j] = "claimed"
  BY <1>1, <1>2 DEF Abandoned
<1>6. Abandoned(e)' \subseteq Jobs /\ Abandoned(e) \subseteq Jobs
  BY Finite DEF Abandoned
<1>7. ASSUME rows'[e][j] # "claimed" PROVE Abandoned(e)' = Abandoned(e)
  <2>1. \A i \in Jobs : i \in Abandoned(e)' <=> i \in Abandoned(e)
    BY <1>1, <1>4, <1>5, <1>7
  <2> QED
    BY <1>6, <2>1
<1>8. rows'[e][j] = "claimed" => Abandoned(e)' = Abandoned(e) \cup {j}
  BY <1>1, <1>4, <1>5, <1>6
<1>9. Cardinality(Abandoned(e) \cup {j}) = Cardinality(Abandoned(e)) + 1
  BY <1>1, FS_AddElement, Finite
<1> QED
  BY <1>2, <1>3, <1>7, <1>8, <1>9

\* A job is handed out: its number is new, and so is its row.
LEMMA DispatchKeeps ==
  ASSUME Configured, SimInv, NEW e \in Runs, NEW w \in Workers, Dispatch(e, w)
  PROVE  SimInv'
<1>1. PICK j : j = next[e]
  OBVIOUS
<1>2. exec[e] = "dispatch" /\ exec[e] \in AtWork /\ j \in Jobs
  BY <1>1 DEF Dispatch, AtWork, JobsLeft, Jobs, SimInv, LooseTypeOK, Configured
<1>3. PICK slot \in Slots : slot = [at |-> "call", job |-> j, attempt |-> 1]
  <2>1. 1 \in 0 .. MaxConflictAttempts
    BY DEF Configured
  <2>2. [at |-> "call", job |-> j, attempt |-> 1] \in Slots
    BY <1>2, <2>1 DEF Slots
  <2> QED
    BY <2>2
<1>4. Moves(e, w, slot)
  BY <1>1, <1>3, SlotSet DEF Dispatch, SimInv
<1>5. w \notin Busy(e)
  BY DEF Dispatch, Busy
<1>6. Busy(e)' = Busy(e) \cup {w}
  BY <1>3, <1>4 DEF Busy, Moves
<1>7. Cardinality(Busy(e) \cup {w}) = Cardinality(Busy(e)) + 1
  BY <1>5, FS_AddElement, Finite
<1>8. \A v \in Busy(e) : work'[e][v] = work[e][v] /\ work[e][v].job \in Jobs /\ work[e][v].job < j
  BY <1>1, <1>4, <1>5 DEF Moves, Busy, SimInv, RunInv
<1>9. rows' = rows /\ \A i \in Jobs : rows[e][i] = "claimed" => i < j
  BY <1>1 DEF Dispatch, SimInv, RunInv
<1>10. j \in Nat /\ \A i \in Jobs : i < j => i # j
  BY <1>2 DEF Jobs
<1>11. Abandoned(e)' = Abandoned(e)
  BY <1>3, <1>4, <1>6, <1>8, <1>9, <1>10 DEF Abandoned, Moves
<1>12. /\ next'[e] = j + 1 /\ next' \in [Runs -> 1 .. Transfers + 1]
       /\ \A f \in Runs \ {e} : next'[f] = next[f]
  BY <1>1, <1>2 DEF Dispatch, SimInv, LooseTypeOK, Jobs, Configured
<1>13. /\ counters' \in [Runs -> Counts(Nat)]
       /\ counters'[e].dispatched = counters[e].dispatched + 1
       /\ Recorded(counters'[e]) = Recorded(counters[e])
       /\ counters'[e].exhausted = counters[e].exhausted
       /\ \A f \in Runs \ {e} : counters'[f] = counters[f]
  BY CountsDispatched DEF Dispatch, SimInv
<1>14. UNCHANGED <<process, runnerVars, exec, cancelled, seeded, call>>
  BY DEF Dispatch
<1>15. LooseTypeOK'
  BY <1>4, <1>9, <1>12, <1>13, <1>14 DEF SimInv, LooseTypeOK, Moves, runnerVars
<1>16. ASSUME NEW v \in Busy(e)', NEW u \in Busy(e)'
       PROVE  /\ work'[e][v].job \in Jobs /\ work'[e][v].job < j + 1
              /\ work'[e][u].job = work'[e][v].job => u = v
  BY <1>2, <1>3, <1>4, <1>5, <1>6, <1>8, <1>10 DEF Moves, Jobs, SimInv, RunInv
<1>17. ASSUME NEW v \in Workers, work'[e][v].at = "claimed" PROVE Row(e, v)' = "claimed"
  BY <1>3, <1>4, <1>9, <1>17 DEF Moves, Row, SimInv, RunInv
<1>18. \A i \in Jobs : rows'[e][i] = "claimed" => i < j + 1
  BY <1>9, <1>10 DEF Jobs
<1>19. PICK d, r, b \in Nat :
         d = counters[e].dispatched /\ r = Recorded(counters[e]) /\ b = Cardinality(Busy(e))
  BY Numbers DEF SimInv
<1>20. /\ counters'[e].dispatched = next'[e] - 1
       /\ counters'[e].dispatched = Recorded(counters'[e]) + Cardinality(Busy(e)')
  <2>1. d = j - 1 /\ d = r + b
    BY <1>1, <1>19 DEF SimInv, RunInv
  <2>2. d + 1 = (j + 1) - 1 /\ d + 1 = r + (b + 1)
    BY <1>10, <1>19, <2>1
  <2> QED
    BY <1>6, <1>7, <1>12, <1>13, <1>19, <2>2
<1>21. ~(e > current') /\ exec'[e] = "dispatch"
  BY <1>2, <1>14, WorkIsActive DEF Dispatch, runnerVars, Runs
<1>22. Cardinality(Abandoned(e)') = counters'[e].exhausted
  BY <1>2, <1>11, <1>13 DEF SimInv, RunInv
<1>23. RunInv(e)'
  BY <1>12, <1>16, <1>17, <1>18, <1>20, <1>21, <1>22 DEF RunInv
<1>24. \A f \in Runs \ {e} : SameRun(f)
  BY <1>4, <1>9, <1>12, <1>13, <1>14 DEF SameRun, Moves
<1> QED
  BY <1>2, <1>14, <1>15, <1>23, <1>24, WorkStep

\* What a step of a worker of e does to the rows: only its own may change.
OwnRow(e, j) ==
  /\ rows' \in [Runs -> [Jobs -> RowStates]]
  /\ \A i \in Jobs \ {j} : rows'[e][i] = rows[e][i]
  /\ \A f \in Runs \ {e} : rows'[f] = rows[f]

\* A worker that goes on with its job keeps everything accounted for.
LEMMA GoesOn ==
  ASSUME Configured, SimInv, NEW e \in Runs, NEW w \in Busy(e), NEW j, j = work[e][w].job,
         NEW slot \in Slots, Moves(e, w, slot), slot.at \in {"call", "claimed"}, slot.job = j,
         OwnRow(e, j), slot.at = "claimed" => rows'[e][j] = "claimed",
         UNCHANGED <<process, runnerVars, exec, cancelled, seeded, next, counters, call>>
  PROVE  SimInv'
<1>1. /\ exec[e] \in {"dispatch", "drain"} /\ exec[e] \in AtWork
      /\ w \in Workers /\ j \in Jobs /\ j < next[e]
      /\ Cardinality(Abandoned(e)) = counters[e].exhausted
  BY BusyFacts
<1>2. Busy(e)' = Busy(e) /\ Abandoned(e)' = Abandoned(e)
  BY StaysBusy DEF OwnRow
<1>3. \A v \in Busy(e) : work'[e][v].job = work[e][v].job
  BY <1>1 DEF Busy, Moves
<1>4. ASSUME NEW v \in Workers, work'[e][v].at = "claimed" PROVE Row(e, v)' = "claimed"
  <2>1. CASE v = w
    BY <1>4, <2>1 DEF Moves, Row
  <2>2. CASE v # w
    <3>1. work'[e][v] = work[e][v] /\ v \in Busy(e)
      BY <1>4, <2>2 DEF Moves, Busy
    <3>2. work[e][v].job \in Jobs \ {j}
      BY <2>2, <3>1, BusyFacts
    <3> QED
      BY <1>4, <3>1, <3>2 DEF Row, OwnRow, SimInv, RunInv
  <2> QED
    BY <2>1, <2>2
<1>5. \A i \in Jobs : rows'[e][i] = "claimed" => i < next[e]
  BY <1>1 DEF OwnRow, SimInv, RunInv
<1>6. /\ exec' = exec /\ next' = next /\ counters' = counters /\ current' = current
  BY DEF runnerVars
<1>7. RunInv(e)
  BY DEF SimInv
<1>8. ~(e > current)
  BY <1>1, WorkIsActive DEF Runs
<1>9. RunInv(e)'
  BY <1>1, <1>2, <1>3, <1>4, <1>5, <1>6, <1>7, <1>8 DEF RunInv
<1>10. LooseTypeOK' /\ \A f \in Runs \ {e} : SameRun(f)
  BY DEF SimInv, LooseTypeOK, Moves, OwnRow, SameRun, runnerVars
<1> QED
  BY <1>1, <1>9, <1>10, WorkStep

\* A job that is over is in one of the counters; the row it leaves is claimed
\* if and only if its attempts were exhausted.
LEMMA JobOver ==
  ASSUME Configured, SimInv, NEW e \in Runs, NEW w \in Busy(e), NEW j, j = work[e][w].job,
         NEW outcome \in {"answered", "exhausted", "errors"}, Record(e, w, outcome),
         OwnRow(e, j), rows'[e][j] = "claimed" <=> outcome = "exhausted",
         UNCHANGED <<process, runnerVars, exec, cancelled, seeded, next, call>>
  PROVE  SimInv'
<1>1. /\ exec[e] \in {"dispatch", "drain"} /\ exec[e] \in AtWork
      /\ w \in Workers /\ j \in Jobs /\ j < next[e]
      /\ Cardinality(Abandoned(e)) = counters[e].exhausted
  BY BusyFacts
<1>2. Waiting \in Slots /\ Waiting.at = "wait"
  BY DEF Waiting, Slots, Configured
<1>3. LooseTypeOK /\ RunInv(e)
  BY DEF SimInv
<1>4. Moves(e, w, Waiting)
  BY <1>1, <1>2, <1>3, SlotSet DEF Record
<1>5. /\ Busy(e)' = Busy(e) \ {w} /\ Cardinality(Busy(e)') = Cardinality(Busy(e)) - 1
      /\ rows'[e][j] # "claimed" => Abandoned(e)' = Abandoned(e)
      /\ rows'[e][j] = "claimed" => Cardinality(Abandoned(e)') = Cardinality(Abandoned(e)) + 1
  BY <1>2, <1>4, LeavesBusy DEF OwnRow
<1>6. /\ counters' \in [Runs -> Counts(Nat)]
      /\ counters'[e].dispatched = counters[e].dispatched
      /\ Recorded(counters'[e]) = Recorded(counters[e]) + 1
      /\ counters'[e].exhausted =
           IF outcome = "exhausted" THEN counters[e].exhausted + 1 ELSE counters[e].exhausted
      /\ \A f \in Runs \ {e} : counters'[f] = counters[f]
  BY <1>3, CountsRecorded DEF Record
<1>7. /\ exec' = exec /\ next' = next /\ current' = current
  BY DEF runnerVars
<1>8. Cardinality(Abandoned(e)') = counters'[e].exhausted
  BY <1>1, <1>5, <1>6
<1>9. counters'[e].dispatched = Recorded(counters'[e]) + Cardinality(Busy(e)')
  <2>1. PICK d, r, b \in Nat :
          d = counters[e].dispatched /\ r = Recorded(counters[e]) /\ b = Cardinality(Busy(e))
    BY <1>3, Numbers
  <2>2. d = r + b
    BY <1>3, <2>1 DEF RunInv
  <2>3. d = (r + 1) + (b - 1)
    BY <2>1, <2>2
  <2> QED
    BY <1>5, <1>6, <2>1, <2>3
<1>10. \A v \in Busy(e) \ {w} : work'[e][v] = work[e][v] /\ v \in Workers
  BY <1>4 DEF Moves, Busy
<1>11. ASSUME NEW v \in Workers, work'[e][v].at = "claimed" PROVE Row(e, v)' = "claimed"
  <2>1. v # w
    BY <1>2, <1>4, <1>11 DEF Moves
  <2>2. work'[e][v] = work[e][v] /\ v \in Busy(e)
    BY <1>4, <1>11, <2>1 DEF Moves, Busy
  <2>3. work[e][v].job \in Jobs \ {j}
    BY <2>1, <2>2, BusyFacts
  <2> QED
    BY <1>3, <1>11, <2>2, <2>3 DEF Row, OwnRow, RunInv
<1>12. \A i \in Jobs : rows'[e][i] = "claimed" => i < next[e]
  BY <1>1, <1>3 DEF OwnRow, RunInv
<1>13. ~(e > current)
  BY <1>1, WorkIsActive DEF Runs
<1>14. RunInv(e)'
  BY <1>1, <1>3, <1>5, <1>6, <1>7, <1>8, <1>9, <1>10, <1>11, <1>12, <1>13 DEF RunInv
<1>15. LooseTypeOK' /\ \A f \in Runs \ {e} : SameRun(f)
  BY <1>3, <1>4, <1>6 DEF LooseTypeOK, Moves, OwnRow, SameRun, runnerVars
<1> QED
  BY <1>1, <1>14, <1>15, WorkStep

\* A row claimed by a worker that was calling.
LEMMA ClaimKeeps ==
  ASSUME Configured, SimInv, NEW e \in Runs, NEW w \in Workers, Claim(e, w)
  PROVE  SimInv'
<1>1. w \in Busy(e)
  BY DEF Claim, Worker, Busy
<1>2. PICK j : j = work[e][w].job
  OBVIOUS
<1>3. j \in Jobs /\ work[e][w] \in Slots
  BY <1>1, <1>2, BusyFacts
<1>4. LooseTypeOK /\ "claimed" \in RowStates
  BY DEF SimInv, RowStates
<1>5. OwnRow(e, j) /\ rows'[e][j] = "claimed"
  BY <1>2, <1>3, <1>4, RowSet DEF Claim, OwnRow
<1>6. PICK slot : slot = [work[e][w] EXCEPT !.at = "claimed"]
  OBVIOUS
<1>7. slot \in Slots /\ slot.at = "claimed" /\ slot.job = j
  BY <1>2, <1>3, <1>6 DEF Slots
<1>8. work' = [work EXCEPT ![e][w] = slot]
  BY <1>4, <1>6 DEF Claim, LooseTypeOK
<1>9. Moves(e, w, slot)
  BY <1>4, <1>7, <1>8, SlotSet
<1>10. UNCHANGED <<process, runnerVars, exec, cancelled, seeded, next, counters, call>>
  BY DEF Claim
<1> QED
  BY <1>1, <1>2, <1>5, <1>7, <1>9, <1>10, GoesOn

\* An answer, or a statement that failed.
LEMMA EndKeeps ==
  ASSUME Configured, SimInv, NEW e \in Runs, NEW w \in Workers, Complete(e, w) \/ Broken(e, w)
  PROVE  SimInv'
<1>1. w \in Busy(e)
  BY DEF Complete, Broken, Worker, Busy
<1>2. PICK j : j = work[e][w].job
  OBVIOUS
<1>3. j \in Jobs
  BY <1>1, <1>2, BusyFacts
<1>4. LooseTypeOK /\ "ended" \in RowStates
  BY DEF SimInv, RowStates
<1>5. OwnRow(e, j) /\ rows'[e][j] = "ended"
  BY <1>2, <1>3, <1>4, RowSet DEF Complete, Broken, OwnRow
<1>6. PICK outcome \in {"answered", "errors"} : Record(e, w, outcome)
  BY DEF Complete, Broken
<1>7. UNCHANGED <<process, runnerVars, exec, cancelled, seeded, next, call>>
  BY DEF Complete, Broken
<1> QED
  BY <1>1, <1>2, <1>5, <1>6, <1>7, JobOver

\* A conflict, tried again or given up.
LEMMA ConflictKeeps ==
  ASSUME Configured, SimInv, NEW e \in Runs, NEW w \in Workers, VersionConflict(e, w)
  PROVE  SimInv'
<1>1. w \in Busy(e)
  BY DEF VersionConflict, Worker, Busy
<1>2. PICK j : j = work[e][w].job
  OBVIOUS
<1>3. j \in Jobs /\ work[e][w] \in Slots
  BY <1>1, <1>2, BusyFacts
<1>4. LooseTypeOK
  BY DEF SimInv
<1>5. rows' = rows /\ UNCHANGED <<process, runnerVars, exec, cancelled, seeded, next, call>>
  BY DEF VersionConflict
<1>6. OwnRow(e, j)
  BY <1>4, <1>5 DEF LooseTypeOK, OwnRow
<1>7. rows[e][j] = "claimed"
  BY <1>2 DEF VersionConflict, Worker, Row, SimInv, RunInv
<1>8. CASE /\ work[e][w].attempt < MaxConflictAttempts
           /\ work' = [work EXCEPT ![e][w].at = "call", ![e][w].attempt = @ + 1]
           /\ counters' = counters
  <2>1. PICK a : a = work[e][w].attempt
    OBVIOUS
  <2>2. a + 1 \in 0 .. MaxConflictAttempts
    BY <1>3, <1>8, <2>1 DEF Slots, Configured
  <2>3. PICK slot : slot = [work[e][w] EXCEPT !.at = "call", !.attempt = @ + 1]
    OBVIOUS
  <2>4. slot \in Slots /\ slot.at = "call" /\ slot.job = j
    BY <1>2, <1>3, <2>1, <2>2, <2>3 DEF Slots
  <2>5. work' = [work EXCEPT ![e][w] = slot]
    BY <1>4, <1>8, <2>3 DEF LooseTypeOK
  <2>6. Moves(e, w, slot)
    BY <1>4, <2>4, <2>5, SlotSet
  <2> QED
    BY <1>1, <1>2, <1>5, <1>6, <1>8, <2>4, <2>6, GoesOn
<1>9. CASE Record(e, w, "exhausted")
  BY <1>1, <1>2, <1>5, <1>6, <1>7, <1>9, JobOver
<1> QED
  BY <1>8, <1>9 DEF VersionConflict

\* A worker that has no job leaves.
LEMMA LeaveKeeps ==
  ASSUME Configured, SimInv, NEW e \in Runs, NEW w \in Workers, Leave(e, w)
  PROVE  SimInv'
<1>1. LooseTypeOK /\ RunInv(e) /\ exec[e] = "drain" /\ exec[e] \in AtWork
  BY DEF SimInv, Leave, Closed, AtWork
<1>2. work[e][w] \in Slots /\ work[e][w].at = "wait"
  BY <1>1 DEF LooseTypeOK, Leave, Worker
<1>3. PICK slot : slot = [work[e][w] EXCEPT !.at = "out"]
  OBVIOUS
<1>4. slot \in Slots /\ slot.at = "out"
  BY <1>2, <1>3 DEF Slots
<1>5. work' = [work EXCEPT ![e][w] = slot]
  BY <1>1, <1>3 DEF Leave, LooseTypeOK
<1>6. Moves(e, w, slot)
  BY <1>1, <1>4, <1>5, SlotSet
<1>7. UNCHANGED <<process, runnerVars, exec, cancelled, seeded, next, counters, rows, call>>
  BY DEF Leave
<1>8. Busy(e)' = Busy(e) /\ \A v \in Busy(e) : v # w
  BY <1>2, <1>4, <1>6 DEF Busy, Moves
<1>9. \A v \in Busy(e) : work'[e][v] = work[e][v]
  BY <1>6, <1>8 DEF Busy, Moves
<1>10. Abandoned(e)' = Abandoned(e)
  BY <1>7, <1>8, <1>9 DEF Abandoned
<1>11. \A v \in Workers : work'[e][v].at = "claimed" => Row(e, v)' = "claimed"
  BY <1>1, <1>4, <1>6, <1>7 DEF Moves, Row, RunInv
<1>12. RunInv(e)'
  BY <1>1, <1>7, <1>8, <1>9, <1>10, <1>11 DEF RunInv, runnerVars
<1>13. LooseTypeOK' /\ \A f \in Runs \ {e} : SameRun(f)
  BY <1>1, <1>6, <1>7 DEF LooseTypeOK, Moves, SameRun, runnerVars
<1> QED
  BY <1>1, <1>7, <1>12, <1>13, WorkStep

\* What a worker does.
LEMMA ServeKeeps ==
  ASSUME Configured, SimInv, NEW e \in Runs, NEW w \in Workers, Serve(e, w)
  PROVE  SimInv'
BY ClaimKeeps, EndKeeps, ConflictKeeps, LeaveKeeps DEF Serve

----------------------------------------------------------------------------
(* The goroutine of an execution.                                          *)

\* A step that touches neither an execution's account nor the runner, and by
\* which no caller comes to hold mu.
LEMMA QuietStep ==
  ASSUME Configured, SimInv, LooseTypeOK',
         UNCHANGED <<mu, phase, current, exec, next, work, counters, rows>>,
         \A c \in Callers : call'[c].at \in {"truncate", "clear"} => call'[c] = call[c]
  PROVE  SimInv'
<1>1. \A f \in Runs : RunInv(f) /\ SameRun(f)
  BY DEF SimInv, SameRun
<1>2. \A f \in Runs : RunInv(f)'
  BY <1>1, RunStays
<1>3. RunnerInv'
  BY DEF SimInv, RunnerInv, OneExecution, IdleMeansEmpty, Active
<1>4. \A c \in Callers : CallInv(c)'
  BY DEF SimInv, CallInv, Active
<1> QED
  BY <1>2, <1>3, <1>4 DEF SimInv

\* An execution moves on, and the phase with it.
LEMMA ExecStep ==
  ASSUME Configured, SimInv, NEW e \in Runs,
         NEW from \in {"seed", "dispatch", "drain", "judge", "close"},
         NEW to \in {"dispatch", "drain", "judge", "close", "over"}, Step(e, from, to),
         UNCHANGED <<process, mu, current, cancelled, seeded, next, work, counters, rows, call>>,
         phase' \in Phases, to \notin {"dispatch", "drain"} => Busy(e) = {},
         \/ /\ from \in AtWork /\ phase' # "idle" /\ (to \in AtWork <=> Active')
            /\ phase' = "finished" => counters[e].dispatched = Transfers
         \/ from \notin AtWork /\ to \notin AtWork /\ phase' = phase
  PROVE  SimInv'
<1>1. LooseTypeOK /\ RunInv(e)
  BY DEF SimInv
<1>2. /\ exec[e] = from /\ exec'[e] = to
      /\ \A f \in Runs \ {e} : exec'[f] = exec[f]
      /\ exec' \in [Runs -> AtWork \cup {"none", "close", "over"}]
  BY <1>1 DEF Step, LooseTypeOK, AtWork
<1>3. LooseTypeOK'
  BY <1>1, <1>2 DEF LooseTypeOK
<1>4. RunInv(e)'
  <2>1. Busy(e)' = Busy(e) /\ Abandoned(e)' = Abandoned(e) /\ \A w \in Workers : Row(e, w)' = Row(e, w)
    BY DEF Busy, Abandoned, Row
  <2>2. exec[e] # "none" /\ exec[e] \notin AtWork => exec'[e] \notin AtWork
    BY <1>2
  <2> QED
    BY <1>1, <1>2, <2>1, <2>2 DEF RunInv
<1>5. \A f \in Runs \ {e} : RunInv(f)'
  <2>1. \A f \in Runs \ {e} : SameRun(f) /\ RunInv(f)
    BY <1>2 DEF SameRun, SimInv
  <2> QED
    BY <2>1, RunStays
<1>6. RunnerInv' /\ \A c \in Callers : CallInv(c)'
  <2>1. CASE from \in AtWork
    <3>1. /\ phase \in {"seeding", "running"} /\ e = current
          /\ \A c \in Callers : call[c].at \notin {"truncate", "clear"}
      BY <1>2, <2>1, WorkIsActive
    <3>2. \A f \in Runs \ {e} : exec[f] \notin AtWork
      BY <3>1 DEF SimInv, RunnerInv, OneExecution
    <3>3. OneExecution'
      BY <1>2, <2>1, <3>1, <3>2 DEF OneExecution
    <3> QED
      BY <2>1, <3>1, <3>3 DEF RunnerInv, IdleMeansEmpty, CallInv
  <2>2. CASE from \notin AtWork
    <3>1. Active' = Active /\ phase' = phase
      BY <2>2 DEF Active
    <3>2. OneExecution'
      BY <1>2, <2>2, <3>1 DEF SimInv, RunnerInv, OneExecution
    <3> QED
      BY <3>1, <3>2 DEF SimInv, RunnerInv, IdleMeansEmpty, CallInv
  <2> QED
    BY <2>1, <2>2
<1> QED
  BY <1>3, <1>4, <1>5, <1>6 DEF SimInv

\* Every step of an execution's goroutine keeps the invariant.
LEMMA ExecutionKeeps ==
  ASSUME Configured, SimInv, NEW e \in Runs, Execution(e)
  PROVE  SimInv'
<1> USE DEF AtWork, Phases
<1>1. LooseTypeOK /\ RunInv(e)
  BY DEF SimInv
<1>2. exec[e] \notin {"dispatch", "drain"} => Busy(e) = {}
  BY <1>1 DEF RunInv
<1>3. CASE Seed(e)
  <2>1. seeded' \in [Runs -> 0 .. Accounts]
    BY <1>1, <1>3 DEF Seed, LooseTypeOK, Configured
  <2>2. LooseTypeOK'
    BY <1>1, <1>3, <2>1 DEF Seed, LooseTypeOK, runnerVars
  <2> QED
    BY <1>3, <2>2, QuietStep DEF Seed, runnerVars
<1>4. CASE SeedFails(e)
  BY <1>2, <1>4, ExecStep DEF SeedFails, SetPhase, Step, Active
<1>5. CASE BeginRun(e)
  BY <1>5, ExecStep DEF BeginRun, SetPhase, Step, Active
<1>6. CASE \E w \in Workers : Dispatch(e, w)
  BY <1>6, DispatchKeeps
<1>7. CASE DispatchOver(e)
  <2>1. exec[e] = "dispatch"
    BY <1>7 DEF DispatchOver, Step
  <2>2. Active /\ phase' = phase
    BY <1>7, <2>1, WorkIsActive DEF DispatchOver, runnerVars, Active
  <2> QED
    BY <1>7, <2>1, <2>2, ExecStep DEF DispatchOver, runnerVars, Active
<1>8. CASE AllOut(e)
  <2>1. exec[e] = "drain"
    BY <1>8 DEF AllOut, Step
  <2>2. Active /\ phase' = phase
    BY <1>8, <2>1, WorkIsActive DEF AllOut, runnerVars, Active
  <2>3. Busy(e) = {}
    BY <1>8 DEF AllOut, Drained, Busy
  <2> QED
    BY <1>8, <2>1, <2>2, <2>3, ExecStep DEF AllOut, runnerVars, Active
<1>9. CASE Judge(e)
  BY <1>2, <1>9, ExecStep DEF Judge, SetPhase, Step, Active
<1>10. CASE CloseDone(e)
  BY <1>1, <1>2, <1>10, ExecStep DEF CloseDone, Step, runnerVars, LooseTypeOK
<1> QED
  BY <1>3, <1>4, <1>5, <1>6, <1>7, <1>8, <1>9, <1>10 DEF Execution

----------------------------------------------------------------------------
(* The callers and main.                                                   *)

\* A caller that waits, is answered, or goes on to its next attempt.
LEMMA CallSet ==
  ASSUME LooseTypeOK, NEW c \in Callers, NEW new \in Calls, call' = [call EXCEPT ![c] = new]
  PROVE  /\ call' \in [Callers -> Calls] /\ call'[c] = new
         /\ \A d \in Callers \ {c} : call'[d] = call[d]
BY DEF LooseTypeOK

\* A call that returns.
LEMMA Returned ==
  ASSUME Configured, LooseTypeOK, NEW c \in Callers, Return(c)
  PROVE  /\ call' \in [Callers -> Calls] /\ call'[c].at = "idle"
         /\ \A d \in Callers \ {c} : call'[d] = call[d]
<1>1. NoCall \in Calls /\ NoCall.at = "idle"
  BY DEF NoCall, Calls, Configured
<1>2. call' = [call EXCEPT ![c] = NoCall]
  BY DEF Return
<1> QED
  BY <1>1, <1>2, CallSet

\* A cancelled context changes no account; whoever cancelled it waits.
LEMMA CancelKeeps ==
  ASSUME Configured, SimInv, NEW c \in Callers, CancelRun(c),
         process' \in {"serving", "stopping", "shutdown", "exited"},
         UNCHANGED <<mu, current, exec, seeded, next, work, counters, rows>>
  PROVE  SimInv'
<1>1. LooseTypeOK /\ phase' = phase
  BY DEF SimInv, CancelRun
<1>2. CASE Active
  <2>1. current \in Runs
    BY <1>2 DEF SimInv, RunnerInv, Active
  <2>2. call[c] \in Calls
    BY <1>1 DEF LooseTypeOK
  <2>3. PICK new : new = [call[c] EXCEPT !.at = "wait", !.run = current]
    OBVIOUS
  <2>4. new \in Calls /\ new.at = "wait"
    BY <2>1, <2>2, <2>3 DEF Calls
  <2>5. call' = [call EXCEPT ![c] = new]
    BY <1>1, <1>2, <2>3 DEF CancelRun, LooseTypeOK
  <2>6. /\ call' \in [Callers -> Calls] /\ call'[c] = new
        /\ \A d \in Callers \ {c} : call'[d] = call[d]
    BY <1>1, <2>4, <2>5, CallSet
  <2>7. cancelled' \in [Runs -> BOOLEAN]
    BY <1>1, <1>2 DEF CancelRun, LooseTypeOK
  <2>8. LooseTypeOK'
    BY <1>1, <2>6, <2>7 DEF LooseTypeOK
  <2>9. \A d \in Callers : call'[d].at \in {"truncate", "clear"} => call'[d] = call[d]
    BY <2>4, <2>6
  <2> QED
    BY <1>1, <2>8, <2>9, QuietStep
<1>3. CASE ~Active
  <2>1. UNCHANGED <<cancelled, call>>
    BY <1>3 DEF CancelRun
  <2>2. LooseTypeOK'
    BY <1>1, <2>1 DEF LooseTypeOK
  <2> QED
    BY <1>1, <2>1, <2>2, QuietStep
<1> QED
  BY <1>2, <1>3

\* Stop's answer.
LEMMA StopWaitedKeeps ==
  ASSUME Configured, SimInv, NEW c \in Callers, StopWaited(c)
  PROVE  SimInv'
<1>1. LooseTypeOK
  BY DEF SimInv
<1>2. /\ call' \in [Callers -> Calls] /\ call'[c].at = "idle"
      /\ \A d \in Callers \ {c} : call'[d] = call[d]
  BY <1>1, Returned DEF StopWaited
<1>3. UNCHANGED <<process, runnerVars, execVars>>
  BY DEF StopWaited
<1>4. LooseTypeOK'
  BY <1>1, <1>2, <1>3 DEF LooseTypeOK, runnerVars, execVars
<1> QED
  BY <1>2, <1>3, <1>4, QuietStep DEF runnerVars, execVars

\* An execution that is over, or has not begun, after what it left behind is
\* forgotten.
LEMMA Forgotten ==
  ASSUME Configured, NEW e \in Runs, exec'[e] \in {"seed", "over"}, ~(e > current'),
         next'[e] = 1, work'[e] = [w \in Workers |-> Waiting], counters'[e] = NoCounts,
         rows'[e] = [j \in Jobs |-> "none"]
  PROVE  RunInv(e)'
<1>1. Busy(e)' = {} /\ \A w \in Workers : work'[e][w].at = "wait"
  BY DEF Busy, Waiting
<1>2. Abandoned(e)' = {}
  BY DEF Abandoned
<1>3. Cardinality({}) = 0
  BY FS_EmptySet
<1>4. /\ counters'[e].dispatched = 0 /\ counters'[e].exhausted = 0
      /\ Recorded(counters'[e]) = 0
  BY DEF NoCounts, Recorded
<1> QED
  BY <1>1, <1>2, <1>3, <1>4 DEF RunInv

\* A new execution begins with nothing to its name.
LEMMA StartKeeps ==
  ASSUME Configured, SimInv, NEW c \in Callers, Start(c)
  PROVE  SimInv'
<1>1. LooseTypeOK /\ mu = Null /\ ~Active
  BY DEF SimInv, Start, MayBegin
<1>2. PICK e \in Runs : e = current + 1 /\ current \in Nat
  BY <1>1 DEF Start, LooseTypeOK, Runs
<1>3. \A f \in Runs : exec[f] \notin AtWork
  BY <1>1 DEF SimInv, RunnerInv, OneExecution
<1>4. exec[e] = "none" /\ counters[e] = NoCounts /\ Abandoned(e) = {} /\ RunInv(e)
  BY <1>2 DEF SimInv, RunInv
<1>5. /\ exec' \in [Runs -> AtWork \cup {"none", "close", "over"}] /\ exec'[e] = "seed"
      /\ \A f \in Runs \ {e} : exec'[f] = exec[f]
      /\ current' = e /\ phase' = "seeding" /\ UNCHANGED <<process, mu, call>>
  BY <1>1, <1>2 DEF Start, LooseTypeOK, AtWork
<1>6. /\ cancelled' = Forget(cancelled, FALSE) /\ seeded' = Forget(seeded, 0)
      /\ next' = Forget(next, 1) /\ counters' = Forget(counters, NoCounts)
      /\ work' = Forget(work, [w \in Workers |-> Waiting])
      /\ rows' = Forget(rows, [j \in Jobs |-> "none"])
  BY DEF Start
<1>7. LooseTypeOK'
  <2>1. /\ Waiting \in Slots /\ NoCounts \in Counts(Nat) /\ 1 \in 1 .. Transfers + 1
        /\ 0 \in 0 .. Accounts
    BY DEF Waiting, Slots, NoCounts, Counts, Configured
  <2>2. /\ cancelled' \in [Runs -> BOOLEAN] /\ seeded' \in [Runs -> 0 .. Accounts]
        /\ next' \in [Runs -> 1 .. Transfers + 1] /\ counters' \in [Runs -> Counts(Nat)]
    BY <1>1, <1>6, <2>1 DEF LooseTypeOK, Forget
  <2>3. work' \in [Runs -> [Workers -> Slots]]
    BY <1>1, <1>6, <2>1 DEF LooseTypeOK, Forget
  <2>4. rows' \in [Runs -> [Jobs -> RowStates]]
    BY <1>1, <1>6 DEF LooseTypeOK, Forget, RowStates
  <2> QED
    BY <1>1, <1>5, <2>2, <2>3, <2>4 DEF LooseTypeOK, Phases, Runs
<1>8. RunInv(e)'
  <2>1. next'[e] = next[e] /\ work'[e] = work[e] /\ counters'[e] = NoCounts /\ rows'[e] = rows[e]
    BY <1>4, <1>6 DEF Forget
  <2>2. Busy(e)' = Busy(e) /\ Abandoned(e)' = {} /\ \A w \in Workers : Row(e, w)' = Row(e, w)
    BY <1>4, <2>1 DEF Busy, Abandoned, Row
  <2>3. Cardinality({}) = 0 /\ NoCounts.exhausted = 0
    BY FS_EmptySet DEF NoCounts
  <2>4. ~(e > current') /\ Busy(e) = {}
    BY <1>4, <1>5 DEF RunInv, Runs
  <2> QED
    BY <1>4, <1>5, <2>1, <2>2, <2>3, <2>4 DEF RunInv
<1>9. ASSUME NEW f \in Runs \ {e} PROVE RunInv(f)'
  <2>1. CASE exec[f] = "over"
    <3>1. ~(f > current')
      BY <1>2, <1>5, <2>1 DEF SimInv, RunInv, Runs
    <3>2. /\ exec'[f] = "over" /\ next'[f] = 1 /\ work'[f] = [w \in Workers |-> Waiting]
          /\ counters'[f] = NoCounts /\ rows'[f] = [j \in Jobs |-> "none"]
      BY <1>5, <1>6, <2>1 DEF Forget
    <3> QED
      BY <3>1, <3>2, Forgotten
  <2>2. CASE exec[f] # "over"
    <3>1. SameRun(f)
      BY <1>5, <1>6, <2>2 DEF Forget, SameRun
    <3> QED
      BY <1>2, <1>5, <3>1, RunStays DEF SimInv
  <2> QED
    BY <2>1, <2>2
<1>10. RunnerInv'
  <2>1. \A f \in Runs : exec'[f] \in AtWork <=> f = e
    BY <1>3, <1>5 DEF AtWork
  <2> QED
    BY <1>5, <2>1 DEF RunnerInv, OneExecution, Active, IdleMeansEmpty
<1>11. \A d \in Callers : CallInv(d)'
  BY <1>1, <1>5 DEF SimInv, CallInv, Configured
<1> QED
  BY <1>7, <1>8, <1>9, <1>10, <1>11 DEF SimInv

\* Reset has mu, which nobody had, and no execution is active.
LEMMA ResetBeginKeeps ==
  ASSUME Configured, SimInv, NEW c \in Callers, ResetBegin(c)
  PROVE  SimInv'
<1>1. LooseTypeOK /\ mu = Null /\ ~Active /\ call[c] \in Calls
  BY DEF SimInv, ResetBegin, MayBegin, LooseTypeOK
<1>2. PICK new : new = [call[c] EXCEPT !.at = "truncate", !.attempt = 1]
  OBVIOUS
<1>3. 1 \in 0 .. MaxResetAttempts
  BY DEF Configured
<1>4. new \in Calls /\ new.at = "truncate"
  BY <1>1, <1>2, <1>3 DEF Calls
<1>5. call' = [call EXCEPT ![c] = new]
  BY <1>1, <1>2 DEF ResetBegin, LooseTypeOK
<1>6. /\ call' \in [Callers -> Calls] /\ call'[c] = new
      /\ \A d \in Callers \ {c} : call'[d] = call[d]
  BY <1>1, <1>4, <1>5, CallSet
<1>7. mu' = c /\ UNCHANGED <<process, phase, current, execVars>>
  BY DEF ResetBegin
<1>8. LooseTypeOK'
  BY <1>1, <1>6, <1>7 DEF LooseTypeOK, execVars
<1>9. \A f \in Runs : RunInv(f) /\ SameRun(f)
  BY <1>7 DEF SimInv, SameRun, execVars
<1>10. \A f \in Runs : RunInv(f)'
  BY <1>7, <1>9, RunStays
<1>11. RunnerInv'
  BY <1>7 DEF SimInv, RunnerInv, OneExecution, IdleMeansEmpty, Active, execVars
<1>12. \A d \in Callers \ {c} : call[d].at \notin {"truncate", "clear"}
  BY <1>1 DEF SimInv, CallInv, Configured
<1>13. \A d \in Callers : CallInv(d)'
  BY <1>1, <1>4, <1>6, <1>7, <1>12 DEF CallInv, Active
<1> QED
  BY <1>8, <1>10, <1>11, <1>13 DEF SimInv

\* While no execution is at work the tables may be emptied under them all.
LEMMA EmptiedRows ==
  ASSUME Configured, SimInv, NEW e \in Runs, exec[e] \notin AtWork, rows' \in {rows, NoRows},
         UNCHANGED <<exec, current, next, work, counters>>
  PROVE  RunInv(e)'
<1>1. RunInv(e)
  BY DEF SimInv
<1>2. CASE rows' = rows
  <2>1. SameRun(e)
    BY <1>2 DEF SameRun
  <2> QED
    BY <1>1, <2>1, RunStays
<1>3. CASE rows' = NoRows
  <2>1. Busy(e)' = {} /\ \A w \in Workers : work'[e][w].at # "claimed"
    BY <1>1 DEF RunInv, Busy, AtWork
  <2>2. Abandoned(e)' = {} /\ \A j \in Jobs : rows'[e][j] # "claimed"
    BY <1>3 DEF Abandoned, NoRows
  <2>3. Busy(e) = {}
    BY <1>1 DEF RunInv, AtWork
  <2> QED
    BY <1>1, <2>1, <2>2, <2>3 DEF RunInv
<1> QED
  BY <1>2, <1>3

\* A transaction of reset, however it ends.
LEMMA TruncateKeeps ==
  ASSUME Configured, SimInv, NEW c \in Callers, Truncate(c)
  PROVE  SimInv'
<1>1. LooseTypeOK /\ mu = c /\ ~Active /\ call[c] \in Calls
  BY DEF SimInv, Truncate, At, CallInv, LooseTypeOK
<1>2. UNCHANGED <<process, phase, current, exec, cancelled, seeded, next, work, counters>>
  BY DEF Truncate
<1>3. rows' \in {rows, NoRows} /\ mu' \in Callers \cup {Null}
  BY <1>1 DEF Truncate
<1>4. rows' \in [Runs -> [Jobs -> RowStates]]
  BY <1>1, <1>3 DEF LooseTypeOK, NoRows, RowStates
<1>5. \A f \in Runs : exec[f] \notin AtWork
  BY <1>1 DEF SimInv, RunnerInv, OneExecution
<1>6. \A f \in Runs : RunInv(f)'
  BY <1>2, <1>3, <1>5, EmptiedRows
<1>7. RunnerInv'
  BY <1>2, <1>3 DEF SimInv, RunnerInv, OneExecution, IdleMeansEmpty, Active
<1>8. \A d \in Callers \ {c} : call[d].at \notin {"truncate", "clear"}
  BY <1>1 DEF SimInv, CallInv
<1>9. /\ call' \in [Callers -> Calls]
      /\ \A d \in Callers \ {c} : call'[d] = call[d]
      /\ call'[c].at \in {"truncate", "clear"} => mu' = c
      /\ call'[c].at = "clear" => rows' = NoRows
  <2>1. CASE rows' = NoRows /\ call' = [call EXCEPT ![c].at = "clear"] /\ mu' = mu
    <3>1. PICK new : new = [call[c] EXCEPT !.at = "clear"]
      OBVIOUS
    <3>2. new \in Calls /\ call' = [call EXCEPT ![c] = new]
      BY <1>1, <2>1, <3>1 DEF Calls, LooseTypeOK
    <3> QED
      BY <1>1, <2>1, <3>2, CallSet
  <2>2. CASE /\ call[c].attempt < MaxResetAttempts
             /\ call' = [call EXCEPT ![c].attempt = @ + 1]
             /\ UNCHANGED <<mu, rows>>
    <3>1. PICK a : a = call[c].attempt
      OBVIOUS
    <3>2. a + 1 \in 0 .. MaxResetAttempts
      BY <1>1, <2>2, <3>1 DEF Calls, Configured
    <3>3. PICK new : new = [call[c] EXCEPT !.attempt = a + 1]
      OBVIOUS
    <3>4. new \in Calls /\ new.at = "truncate"
      BY <1>1, <3>2, <3>3 DEF Calls, Truncate, At
    <3>5. call' = [call EXCEPT ![c] = new]
      BY <1>1, <2>2, <3>1, <3>3 DEF LooseTypeOK
    <3> QED
      BY <1>1, <2>2, <3>4, <3>5, CallSet
  <2>3. CASE Return(c)
    BY <1>1, <2>3, Returned
  <2> QED
    BY <2>1, <2>2, <2>3 DEF Truncate
<1>10. \A d \in Callers : CallInv(d)'
  BY <1>1, <1>2, <1>8, <1>9 DEF CallInv, Active
<1>11. LooseTypeOK'
  BY <1>1, <1>2, <1>3, <1>4, <1>9 DEF LooseTypeOK
<1> QED
  BY <1>6, <1>7, <1>10, <1>11 DEF SimInv

\* The memory is cleared over empty tables.
LEMMA ClearMemoryKeeps ==
  ASSUME Configured, SimInv, NEW c \in Callers, ClearMemory(c)
  PROVE  SimInv'
<1>1. LooseTypeOK /\ mu = c /\ ~Active /\ rows = NoRows
  BY DEF SimInv, ClearMemory, At, CallInv
<1>2. mu' = Null /\ phase' = "idle" /\ UNCHANGED <<process, current, execVars>>
  BY DEF ClearMemory
<1>3. /\ call' \in [Callers -> Calls] /\ call'[c].at = "idle"
      /\ \A d \in Callers \ {c} : call'[d] = call[d]
  BY <1>1, Returned DEF ClearMemory
<1>4. LooseTypeOK'
  BY <1>1, <1>2, <1>3 DEF LooseTypeOK, execVars, Phases
<1>5. \A f \in Runs : RunInv(f) /\ SameRun(f)
  BY <1>2 DEF SimInv, SameRun, execVars
<1>6. \A f \in Runs : RunInv(f)'
  BY <1>2, <1>5, RunStays
<1>7. RunnerInv'
  BY <1>1, <1>2 DEF SimInv, RunnerInv, OneExecution, IdleMeansEmpty, Active, execVars
<1>8. \A d \in Callers : CallInv(d)'
  BY <1>1, <1>3 DEF SimInv, CallInv
<1> QED
  BY <1>4, <1>6, <1>7, <1>8 DEF SimInv

----------------------------------------------------------------------------
(* The invariant, and what follows from it.                                *)

\* The runner as NewRunner made it.
LEMMA InitSim == ASSUME Configured, Init PROVE SimInv
<1>1. LooseTypeOK
  <2>1. Waiting \in Slots /\ NoCounts \in Counts(Nat) /\ NoCall \in Calls
    BY DEF Waiting, Slots, NoCounts, Counts, NoCall, Calls, Configured
  <2> QED
    BY <2>1 DEF Init, LooseTypeOK, Phases, NoRows, RowStates, Configured, Runs
<1>2. ASSUME NEW e \in Runs PROVE RunInv(e)
  <2>1. Busy(e) = {} /\ Abandoned(e) = {} /\ \A w \in Workers : work[e][w].at # "claimed"
    BY DEF Init, Busy, Abandoned, Waiting, NoRows
  <2>2. Cardinality({}) = 0
    BY FS_EmptySet
  <2>3. /\ counters[e] = NoCounts /\ counters[e].dispatched = 0 /\ counters[e].exhausted = 0
        /\ Recorded(counters[e]) = 0
    BY DEF Init, NoCounts, Recorded
  <2>4. next[e] = 1 /\ exec[e] = "none" /\ \A j \in Jobs : rows[e][j] # "claimed"
    BY DEF Init, NoRows
  <2> QED
    BY <2>1, <2>2, <2>3, <2>4 DEF RunInv
<1>3. RunnerInv /\ \A c \in Callers : CallInv(c)
  BY DEF Init, RunnerInv, OneExecution, IdleMeansEmpty, Active, AtWork, CallInv, NoCall
<1> QED
  BY <1>1, <1>2, <1>3 DEF SimInv

\* Every step of the system keeps the invariant.
LEMMA NextSim ==
  ASSUME Configured, SimInv, [Next]_vars
  PROVE  SimInv'
<1>1. ASSUME UNCHANGED <<runnerVars, execVars, call>>,
             process' \in {"serving", "stopping", "shutdown", "exited"}
      PROVE  SimInv'
  <2>1. LooseTypeOK'
    BY <1>1 DEF SimInv, LooseTypeOK, runnerVars, execVars
  <2> QED
    BY <1>1, <2>1, QuietStep DEF runnerVars, execVars
<1>2. CASE Shutdown \/ Exit
  BY <1>1, <1>2 DEF Shutdown, Exit
<1>3. CASE UNCHANGED vars
  BY <1>1, <1>3 DEF vars, SimInv, LooseTypeOK
<1>4. CASE Signal
  <2>1. Main \in Callers /\ CancelRun(Main) /\ process' = "stopping"
    BY <1>4 DEF Configured, Signal
  <2> QED
    BY <1>4, <2>1, CancelKeeps DEF Signal
<1>5. ASSUME NEW c \in Callers, Stop(c) PROVE SimInv'
  <2>1. process' = process /\ LooseTypeOK
    BY <1>5 DEF Stop, SimInv
  <2> QED
    BY <1>5, <2>1, CancelKeeps DEF Stop, LooseTypeOK
<1>6. ASSUME NEW c \in Callers, Start(c) \/ ResetBegin(c) \/ Proceed(c) PROVE SimInv'
  BY <1>6, StartKeeps, ResetBeginKeeps, StopWaitedKeeps, TruncateKeeps, ClearMemoryKeeps DEF Proceed
<1>7. ASSUME NEW e \in Runs, Execution(e) \/ \E w \in Workers : Serve(e, w) PROVE SimInv'
  BY <1>7, ExecutionKeeps, ServeKeeps
<1> QED
  BY <1>2, <1>3, <1>4, <1>5, <1>6, <1>7 DEF Next

\* The invariant the others follow from.
THEOREM SimInvariant == Spec => []SimInv
<1>1. Init => SimInv
  BY InitSim, IsConfigured
<1>2. SimInv /\ [Next]_vars => SimInv'
  BY NextSim, IsConfigured
<1> QED
  BY <1>1, <1>2, PTL DEF Spec

\* Type correctness, with no counter above the number of transfers.
THEOREM TypesAreRight == Spec => []TypeOK
<1>1. SimInv => TypeOK
  BY CountersBounded, IsConfigured DEF SimInv
<1> QED
  BY <1>1, SimInvariant, PTL

\* RF17: Start never overlaps an execution, however the stops, the resets and
\* the end of the one before interleave with it.
THEOREM OneAtATime == Spec => []OneExecution
<1>1. SimInv => OneExecution
  BY DEF SimInv, RunnerInv
<1> QED
  BY <1>1, SimInvariant, PTL

\* RF29 to RF31: a reset never truncates under a seeding or a transfer.
THEOREM ResetsAlone == Spec => []ResetAlone
<1>1. ASSUME SimInv, NEW c \in Callers, call[c].at \in {"truncate", "clear"}
      PROVE  /\ \A e \in Runs : exec[e] \notin AtWork
             /\ \A e \in Runs, w \in Workers : work[e][w].at \in {"wait", "out"}
  <2>1. \A e \in Runs : exec[e] \notin AtWork
    BY <1>1 DEF SimInv, CallInv, RunnerInv, OneExecution
  <2>2. \A e \in Runs : Busy(e) = {}
    BY <1>1, <2>1 DEF SimInv, RunInv, AtWork
  <2>3. \A e \in Runs, w \in Workers : work[e][w] \in Slots
    BY <1>1 DEF SimInv, LooseTypeOK
  <2> QED
    BY <2>1, <2>2, <2>3 DEF Busy, Slots
<1>2. SimInv => ResetAlone
  BY <1>1 DEF ResetAlone
<1> QED
  BY <1>2, SimInvariant, PTL

\* RF20, CA27: no transfer that a run dispatched is lost to its counters, and
\* a finished run has dispatched them all.
THEOREM CountersComplete == Spec => []CountersAddUp
<1>1. ASSUME SimInv, phase \in {"finished", "stopped"}
      PROVE  /\ counters[current].dispatched = Recorded(counters[current])
             /\ phase = "finished" => counters[current].dispatched = Transfers
  <2>1. PICK e \in Runs : e = current
    BY <1>1 DEF SimInv, RunnerInv
  <2>2. exec[e] \notin AtWork
    BY <1>1 DEF SimInv, RunnerInv, OneExecution, Active
  <2>3. RunInv(e) /\ Busy(e) = {} /\ LooseTypeOK
    BY <1>1, <2>2 DEF SimInv, RunInv, AtWork
  <2>4. counters[e].dispatched = Recorded(counters[e]) + 0
    BY <2>3, FS_EmptySet DEF RunInv
  <2>5. Recorded(counters[e]) \in Nat
    BY <2>3, Numbers, IsConfigured
  <2> QED
    BY <1>1, <2>1, <2>4, <2>5 DEF SimInv, RunnerInv
<1>2. SimInv => CountersAddUp
  BY <1>1 DEF CountersAddUp
<1> QED
  BY <1>2, SimInvariant, PTL

\* RNF17, CA26: a run that came to its end, stopped or not, leaves rows without
\* entries for its exhausted transfers and for no others.
THEOREM StopsLeaveNoOrphan == Spec => []CancelLeavesNoOrphan
<1>1. ASSUME SimInv, NEW e \in Runs, exec[e] \in {"close", "over"}
      PROVE  Cardinality(Orphans(e)) \in {0, counters[e].exhausted}
  <2>1. RunInv(e) /\ Busy(e) = {}
    BY <1>1 DEF SimInv, RunInv
  <2>2. Orphans(e) = Abandoned(e)
    BY <2>1 DEF Orphans, Abandoned
  <2> QED
    BY <2>1, <2>2, FS_EmptySet DEF RunInv
<1>2. SimInv => CancelLeavesNoOrphan
  BY <1>1 DEF CancelLeavesNoOrphan
<1> QED
  BY <1>2, SimInvariant, PTL

\* RNF21: an idle runner has nothing in the tables.
THEOREM IdleIsEmpty == Spec => []IdleMeansEmpty
<1>1. SimInv => IdleMeansEmpty
  BY DEF SimInv, RunnerInv
<1> QED
  BY <1>1, SimInvariant, PTL
=============================================================================
