------------------------------ MODULE LockProofs ------------------------------
(***************************************************************************)
(* Proofs about the order of the locks: that the circles in which the      *)
(* transactions of the program can wait for one another are those of       *)
(* CirclesExplained, whatever the number of sessions, accounts and         *)
(* transfers, and that no reset stops who already has the transfers.       *)
(***************************************************************************)
EXTENDS LockOrder, FiniteSetTheorems, WellFoundedInduction, TLAPS

\* What is known of the constants.
Configured ==
  /\ Accounts \subseteq Nat
  /\ Keys \cap Accounts = {}
  /\ Ends \in [Keys -> Accounts \X Accounts]
  /\ \A k \in Keys : Ends[k][1] # Ends[k][2]
  /\ MaxResetAttempts \in Nat \ {0}
  /\ Null \notin Sessions \cup Accounts \cup Keys

\* The assumption on the constants, under a name that can be left unexpanded.
LEMMA IsConfigured == Configured
BY LockAssumption DEF Configured

Types ==
  /\ job \in [Sessions -> Jobs \cup {NoJob}]
  /\ got \in [Sessions -> Nat]
  /\ \A s \in Sessions : got[s] <= Len(Locks(job[s]))
  /\ attempt \in [Sessions -> 1 .. MaxResetAttempts]
  /\ rows \subseteq Accounts \cup Keys

----------------------------------------------------------------------------
(* The lists of locks.                                                     *)

\* How far along the order of the code a lock is: transfers, a transfer's row,
\* entries, accounts, then the accounts' rows by their ids.
Tier(l) ==
  IF l.table = "transfers" THEN IF l.row = Null THEN 0 ELSE 1
  ELSE IF l.table = "entries" THEN 2
  ELSE IF l.row = Null THEN 3 ELSE 4 + l.row

\* What a transaction is: its kind, and the list that goes with it.
LEMMA JobCases ==
  ASSUME NEW j \in Jobs
  PROVE  \/ j.kind = "claim"  /\ j.on \in Keys /\ Locks(j) = ClaimLocks(j.on)
         \/ j.kind = "book"   /\ j.on \in Keys /\ Locks(j) = BookLocks(j.on)
         \/ j.kind = "mark"   /\ j.on \in Keys /\ Locks(j) = MarkLocks(j.on)
         \/ j.kind = "settle" /\ j.on \in Keys /\ Locks(j) = SettleLocks(j.on)
         \/ j.kind = "fail"   /\ j.on \in Keys /\ Locks(j) = FailLocks(j.on)
         \/ j.kind = "mutate" /\ j.on \in Accounts /\ Locks(j) = MutateLocks(j.on)
         \/ j.kind = "status" /\ j.on \in Accounts /\ Locks(j) = StatusLocks(j.on)
         \/ j.kind = "open"   /\ j.on \in Accounts /\ Locks(j) = OpenLocks(j.on)
         \/ j.kind = "stats"  /\ Locks(j) = StatsLocks
         \/ j.kind = "reset"  /\ Locks(j) = ResetLocks
BY DEF Jobs, Job, Locks

\* order() is the ends of a transfer, the smaller id first.
LEMMA EndsOrdered ==
  ASSUME Configured, NEW k \in Keys
  PROVE  /\ First(k) \in Accounts /\ Second(k) \in Accounts
         /\ Ends[k][1] \in Accounts /\ Ends[k][2] \in Accounts
         /\ First(k) \in Nat /\ Second(k) \in Nat /\ First(k) < Second(k)
<1>1. Ends[k] \in Accounts \X Accounts
  BY DEF Configured
<1>2. PICK a, b \in Accounts : Ends[k] = <<a, b>>
  BY <1>1
<1>3. a \in Nat /\ b \in Nat /\ a # b
  BY <1>2 DEF Configured
<1>4. Ends[k][1] = a /\ Ends[k][2] = b
  BY <1>2
<1> QED
  BY <1>2, <1>3, <1>4 DEF First, Second

\* The tiers of a table and of a row.
LEMMA Tiers ==
  ASSUME Configured
  PROVE  /\ Tier(Table("transfers")) = 0 /\ Tier(Whole("transfers")) = 0
         /\ Tier(Table("entries")) = 2 /\ Tier(Whole("entries")) = 2
         /\ Tier(Table("accounts")) = 3 /\ Tier(Whole("accounts")) = 3
         /\ \A mode : \A k \in Keys : Tier(Row("transfers", k, mode)) = 1
         /\ \A mode : \A a \in Accounts : Tier(Row("accounts", a, mode)) = 4 + a /\ a \in Nat
BY DEF Configured, Tier, Table, Whole, Row

\* A list of locks is taken tier after tier, but for a mutation's last lock and
\* for the second account of a claim.
LEMMA Ladder ==
  ASSUME Configured, NEW j \in Jobs, NEW n \in Nat, NEW i \in 1 .. n, n + 1 <= Len(Locks(j)),
         ~ (j.kind = "mutate" /\ n = 2), ~ (j.kind = "claim" /\ n = 4)
  PROVE  Tier(Locks(j)[i]) < Tier(Locks(j)[n + 1])
<1> USE DEF ClaimLocks, BookLocks, MarkLocks, SettleLocks, FailLocks, MutateLocks, StatusLocks,
            OpenLocks, StatsLocks, ResetLocks
<1>1. CASE j.kind = "claim" /\ j.on \in Keys /\ Locks(j) = ClaimLocks(j.on)
  <2>1. Len(Locks(j)) = 5
    BY <1>1
  <2>2. n \in {1, 2, 3}
    BY <1>1, <2>1
  <2> QED
    BY <1>1, <2>1, <2>2, Tiers, EndsOrdered
<1>2. CASE j.on \in Keys /\ (Locks(j) = BookLocks(j.on) \/ Locks(j) = FailLocks(j.on))
  <2>1. Len(Locks(j)) = 6
    BY <1>2
  <2>2. n \in {1, 2, 3, 4, 5}
    BY <1>2, <2>1
  <2> QED
    BY <1>2, <2>1, <2>2, Tiers, EndsOrdered
<1>3. CASE j.on \in Keys /\ Locks(j) = MarkLocks(j.on)
  <2>1. n = 1
    BY <1>3
  <2> QED
    BY <1>3, <2>1, Tiers
<1>4. CASE j.on \in Keys /\ Locks(j) = SettleLocks(j.on)
  <2>1. n \in {1, 2}
    BY <1>4
  <2> QED
    BY <1>4, <2>1, Tiers
<1>5. CASE j.on \in Accounts /\ j.kind = "mutate" /\ Locks(j) = MutateLocks(j.on)
  <2>1. n = 1
    BY <1>5
  <2> QED
    BY <1>5, <2>1, Tiers
<1>6. CASE j.on \in Accounts /\ (Locks(j) = StatusLocks(j.on) \/ Locks(j) = OpenLocks(j.on))
  <2>1. n = 1
    BY <1>6
  <2> QED
    BY <1>6, <2>1, Tiers
<1>7. CASE Locks(j) = StatsLocks \/ Locks(j) = ResetLocks
  <2>1. Len(Locks(j)) = 3
    BY <1>7
  <2>2. n \in {1, 2}
    BY <2>1
  <2> QED
    BY <1>7, <2>2, Tiers
<1> QED
  BY <1>1, <1>2, <1>3, <1>4, <1>5, <1>6, <1>7, JobCases

\* A whole table is only a reset's, and a whole row of accounts only a
\* reversal's, or the last lock of who opens the account.
LEMMA Modes ==
  ASSUME Configured, NEW j \in Jobs, NEW i \in 1 .. Len(Locks(j)), NEW l, l = Locks(j)[i]
  PROVE  /\ Tier(l) \in Nat
         /\ l.mode = "exclusive" => j.kind = "reset"
         /\ l.table = "accounts" /\ l.row # Null /\ l.mode = "update" =>
              j.kind = "fail" \/ (j.kind = "open" /\ i = Len(Locks(j)))
<1> USE DEF ClaimLocks, BookLocks, MarkLocks, SettleLocks, FailLocks, MutateLocks, StatusLocks,
            OpenLocks, StatsLocks, ResetLocks
<1>1. CASE j.on \in Keys /\ Locks(j) = ClaimLocks(j.on)
  <2>1. i \in {1, 2, 3, 4, 5}
    BY <1>1
  <2> QED
    BY <1>1, <2>1, Tiers, EndsOrdered DEF Table, Row
<1>2. CASE j.on \in Keys /\ Locks(j) = BookLocks(j.on)
  <2>1. i \in {1, 2, 3, 4, 5, 6}
    BY <1>2
  <2> QED
    BY <1>2, <2>1, Tiers, EndsOrdered DEF Table, Row
<1>3. CASE j.on \in Keys /\ j.kind = "fail" /\ Locks(j) = FailLocks(j.on)
  <2>1. i \in {1, 2, 3, 4, 5, 6}
    BY <1>3
  <2> QED
    BY <1>3, <2>1, Tiers, EndsOrdered DEF Table, Row
<1>4. CASE j.on \in Keys /\ Locks(j) = MarkLocks(j.on)
  <2>1. i \in {1, 2}
    BY <1>4
  <2> QED
    BY <1>4, <2>1, Tiers DEF Table, Row
<1>5. CASE j.on \in Keys /\ Locks(j) = SettleLocks(j.on)
  <2>1. i \in {1, 2, 3}
    BY <1>5
  <2> QED
    BY <1>5, <2>1, Tiers DEF Table, Row
<1>6. CASE j.on \in Accounts /\ Locks(j) = MutateLocks(j.on)
  <2>1. i \in {1, 2, 3}
    BY <1>6
  <2> QED
    BY <1>6, <2>1, Tiers DEF Table, Row
<1>7. CASE j.on \in Accounts /\ Locks(j) = StatusLocks(j.on)
  <2>1. i \in {1, 2}
    BY <1>7
  <2> QED
    BY <1>7, <2>1, Tiers DEF Table, Row
<1>8. CASE j.on \in Accounts /\ j.kind = "open" /\ Locks(j) = OpenLocks(j.on)
  <2>1. i \in {1, 2} /\ Len(Locks(j)) = 2
    BY <1>8
  <2> QED
    BY <1>8, <2>1, Tiers DEF Table, Row
<1>9. CASE Locks(j) = StatsLocks
  <2>1. i \in {1, 2, 3}
    BY <1>9
  <2> QED
    BY <1>9, <2>1, Tiers DEF Table
<1>10. CASE j.kind = "reset" /\ Locks(j) = ResetLocks
  <2>1. i \in {1, 2, 3}
    BY <1>10
  <2> QED
    BY <1>10, <2>1, Tiers DEF Whole
<1> QED
  BY <1>1, <1>2, <1>3, <1>4, <1>5, <1>6, <1>7, <1>8, <1>9, <1>10, JobCases

\* Every list has a length.
LEMMA Lengths == ASSUME NEW j \in Jobs PROVE Len(Locks(j)) \in Nat
BY JobCases DEF ClaimLocks, BookLocks, MarkLocks, SettleLocks, FailLocks, MutateLocks,
     StatusLocks, OpenLocks, StatsLocks, ResetLocks

----------------------------------------------------------------------------
(* Waiting in a circle.                                                    *)

\* A session that waits has a transaction open, and a next lock in its list.
LEMMA WaitsForNext ==
  ASSUME Types, NEW s \in Sessions, Wants(s)
  PROVE  /\ job[s] \in Jobs /\ got[s] \in Nat /\ got[s] + 1 <= Len(Locks(job[s]))
         /\ got[s] + 1 \in 1 .. Len(Locks(job[s])) /\ Wanted(s) = Locks(job[s])[got[s] + 1]
<1>1. job[s] \in Jobs
  BY DEF Types, Wants, Open, Is, NoJob, Job
<1>2. PICK n \in Nat : n = Len(Locks(job[s]))
  BY <1>1, Lengths
<1>3. got[s] \in Nat /\ got[s] <= n /\ got[s] # n
  BY <1>2 DEF Types, Wants, Complete
<1>4. got[s] + 1 \in 1 .. n /\ got[s] + 1 <= n
  BY <1>2, <1>3
<1> QED
  BY <1>1, <1>2, <1>3, <1>4 DEF Wanted

\* What a session holds is in its list.
LEMMA HeldInList ==
  ASSUME Types, NEW s \in Sessions, NEW l \in Held(s), job[s] \in Jobs
  PROVE  \E i \in 1 .. got[s] : l = Locks(job[s])[i] /\ i \in 1 .. Len(Locks(job[s]))
<1>1. PICK i \in 1 .. got[s] : l = Locks(job[s])[i]
  BY DEF Held
<1>2. PICK n \in Nat : n = Len(Locks(job[s]))
  BY Lengths
<1>3. got[s] \in Nat /\ got[s] <= n
  BY <1>2 DEF Types
<1>4. i \in 1 .. n
  BY <1>3
<1> QED
  BY <1>1, <1>2, <1>4

\* A lock that is held, and one on the same thing that has to wait for it.
Blocks(l, m) == SameThing(l, m) /\ {l.mode, m.mode} \in Conflicts

\* What conflicts with a table's lock, and with a foreign key's.
LEMMA BlocksWhat ==
  ASSUME NEW l, NEW m, Blocks(l, m)
  PROVE  /\ l.table = m.table /\ l.row = m.row /\ Tier(l) = Tier(m)
         /\ m.mode = "access" => l.mode = "exclusive"
         /\ m.mode = "keyShare" => l.mode = "update"
<1>1. l.table = m.table /\ l.row = m.row
  BY DEF Blocks, SameThing
<1>2. ASSUME m.mode = "access" PROVE l.mode = "exclusive"
  BY <1>2 DEF Blocks, Conflicts
<1>3. ASSUME m.mode = "keyShare" PROVE l.mode = "update"
  BY <1>3 DEF Blocks, Conflicts
<1> QED
  BY <1>1, <1>2, <1>3 DEF Tier

\* In a circle that has neither pair, everybody waits for something further
\* along the order than all it holds.
LEMMA AllInOrder ==
  ASSUME Configured, Types, NEW S \in SUBSET Sessions, \A s \in S : Blockers(s) \cap S # {},
         ~ (Among(S, "reset") /\ Among(S, "mutate")), ~ (Among(S, "fail") /\ Among(S, "claim")),
         NEW u \in S
  PROVE  /\ Wants(u) /\ Tier(Wanted(u)) \in Nat
         /\ \A l \in Held(u) : Tier(l) < Tier(Wanted(u))
<1>1. \A s \in S : Wants(s) /\ s \in Sessions
  BY DEF Blockers
<1>2. PICK v \in S : v \in Holders(u) \cup Queued(u)
  BY <1>1 DEF Blockers
<1>3. PICK j \in Jobs, i \in Jobs : j = job[u] /\ i = job[v]
  BY <1>1, WaitsForNext
<1>4. PICK n \in Nat : n = got[u] /\ n + 1 <= Len(Locks(j)) /\ Wanted(u) = Locks(j)[n + 1]
                       /\ n + 1 \in 1 .. Len(Locks(j))
  BY <1>1, <1>3, WaitsForNext
<1>5. ASSUME v \in Holders(u)
      PROVE  \E p \in 1 .. Len(Locks(i)) : p <= got[v] /\ Blocks(Locks(i)[p], Wanted(u))
  <2>1. PICK l \in Held(v) : Blocks(l, Wanted(u))
    BY <1>5 DEF Holders, Blocks
  <2>2. PICK p \in 1 .. got[v] : l = Locks(i)[p] /\ p \in 1 .. Len(Locks(i))
    BY <1>1, <1>3, HeldInList
  <2>3. p <= got[v]
    BY <1>1, <2>2 DEF Types
  <2> QED
    BY <2>1, <2>2, <2>3
<1>6. ASSUME v \in Queued(u) PROVE i.kind = "reset" /\ Wanted(u) = Table(Wanted(u).table)
  <2>1. Wanted(v).mode = "exclusive" /\ Wanted(u) = Table(Wanted(u).table)
    BY <1>6 DEF Queued, Whole
  <2>2. got[v] + 1 \in 1 .. Len(Locks(i)) /\ Wanted(v) = Locks(i)[got[v] + 1]
    BY <1>1, <1>3, WaitsForNext
  <2> QED
    BY <2>1, <2>2, Modes
<1>7. ASSUME j.kind = "mutate", n = 2 PROVE FALSE
  <2>1. Wanted(u) = Table("entries")
    BY <1>3, <1>4, <1>7, JobCases DEF MutateLocks
  <2>2. i.kind = "reset"
    <3>1. CASE v \in Holders(u)
      <4>1. PICK p \in 1 .. Len(Locks(i)) : Blocks(Locks(i)[p], Wanted(u))
        BY <1>5, <3>1
      <4>2. Locks(i)[p].mode = "exclusive"
        BY <2>1, <4>1, BlocksWhat DEF Table
      <4> QED
        BY <4>2, Modes
    <3> QED
      BY <1>2, <1>6, <3>1
  <2> QED
    BY <1>3, <1>7, <2>2 DEF Among, Is
<1>8. ASSUME j.kind = "claim", n = 4 PROVE FALSE
  <2>1. PICK a \in Accounts : Wanted(u) = Row("accounts", a, "keyShare")
    BY <1>3, <1>4, <1>8, JobCases, EndsOrdered DEF ClaimLocks
  <2>2. a # Null /\ Wanted(u) # Table(Wanted(u).table)
    BY <2>1 DEF Configured, Row, Table
  <2>3. PICK p \in 1 .. Len(Locks(i)) : p <= got[v] /\ Blocks(Locks(i)[p], Wanted(u))
    BY <1>2, <1>5, <1>6, <2>2
  <2>4. /\ Locks(i)[p].table = "accounts" /\ Locks(i)[p].row # Null
        /\ Locks(i)[p].mode = "update"
    BY <2>1, <2>2, <2>3, BlocksWhat DEF Row
  <2>5. i.kind = "fail" \/ p = Len(Locks(i))
    BY <2>4, Modes
  <2>6. PICK m \in Nat : m = Len(Locks(i)) /\ got[v] \in Nat /\ got[v] + 1 <= m
    BY <1>1, <1>3, Lengths, WaitsForNext
  <2>7. p # m
    BY <2>3, <2>6
  <2> QED
    BY <1>3, <1>8, <2>5, <2>6, <2>7 DEF Among, Is
<1>9. ASSUME NEW l \in Held(u) PROVE Tier(l) < Tier(Wanted(u))
  <2>1. PICK p \in 1 .. n : l = Locks(j)[p]
    BY <1>3, <1>4 DEF Held
  <2> QED
    BY <1>4, <1>7, <1>8, <2>1, Ladder
<1> QED
  BY <1>1, <1>4, <1>9, Modes

\* A reset that waits for a whole table stands between those who queue behind
\* it and those it waits for.
Height(s) == 2 * Tier(Wanted(s)) + IF Wanted(s).mode = "exclusive" THEN 1 ELSE 0

\* So in a circle everybody waits for somebody higher up.
LEMMA Climbing ==
  ASSUME Configured, Types, NEW S \in SUBSET Sessions, \A s \in S : Blockers(s) \cap S # {},
         ~ (Among(S, "reset") /\ Among(S, "mutate")), ~ (Among(S, "fail") /\ Among(S, "claim")),
         NEW u \in S
  PROVE  Height(u) \in Nat /\ \E v \in S : Height(u) < Height(v)
<1>1. Wants(u) /\ \A s \in S : Tier(Wanted(s)) \in Nat
  BY AllInOrder
<1>2. PICK v \in S : v \in Holders(u) \cup Queued(u)
  BY <1>1 DEF Blockers
<1>3. PICK m, n \in Nat : m = Tier(Wanted(u)) /\ n = Tier(Wanted(v))
  BY <1>1
<1>4. CASE v \in Holders(u)
  <2>1. PICK l \in Held(v) : Blocks(l, Wanted(u))
    BY <1>4 DEF Holders, Blocks
  <2>2. Tier(l) = m /\ m < n
    BY <1>3, <2>1, BlocksWhat, AllInOrder
  <2>3. 2 * m + 1 < 2 * n
    BY <2>2
  <2> QED
    BY <1>3, <2>3 DEF Height
<1>5. CASE v \in Queued(u)
  <2>1. Wanted(v) = Whole(Wanted(u).table) /\ Wanted(u) = Table(Wanted(u).table)
    BY <1>5 DEF Queued
  <2>2. Wanted(v).mode = "exclusive" /\ Wanted(u).mode = "access" /\ m = n
    BY <1>3, <2>1 DEF Whole, Table, Tier
  <2>3. Height(u) = 2 * m + 0 /\ Height(v) = 2 * m + 1
    BY <1>3, <2>2 DEF Height
  <2> QED
    BY <2>3
<1> QED
  BY <1>2, <1>3, <1>4, <1>5 DEF Height

\* Among finitely many that is impossible.
LEMMA NobodyOnTop ==
  ASSUME Configured, Types, NEW S \in SUBSET Sessions, IsFiniteSet(S), S # {},
         \A s \in S : Blockers(s) \cap S # {}
  PROVE  (Among(S, "reset") /\ Among(S, "mutate")) \/ (Among(S, "fail") /\ Among(S, "claim"))
<1> SUFFICES ASSUME ~ (Among(S, "reset") /\ Among(S, "mutate")),
                    ~ (Among(S, "fail") /\ Among(S, "claim"))
             PROVE  FALSE
  OBVIOUS
<1> DEFINE Above(s) == {v \in S : Height(s) < Height(v)}
           T == {Above(s) : s \in S}
<1>1. \A s \in S : Height(s) \in Nat /\ \E v \in S : Height(s) < Height(v)
  BY Climbing
<1>2. T \subseteq FiniteSubsetsOf(S) /\ T # {}
  <2>1. FiniteSubsetsOf(S) = SUBSET S
    BY FS_FiniteSubsetsOfFinite
  <2>2. \A s \in S : Above(s) \in SUBSET S
    OBVIOUS
  <2>3. T \subseteq SUBSET S
    BY <2>2
  <2>4. T # {}
    OBVIOUS
  <2> QED
    BY <2>1, <2>3, <2>4
<1>3. IsWellFoundedOn(StrictSubsetOrdering(S), FiniteSubsetsOf(S))
  BY FS_StrictSubsetOrderingWellFounded
<1>4. PICK x \in T : \A y \in T : <<y, x>> \notin StrictSubsetOrdering(S)
  <2> HIDE DEF T
  <2> QED
    BY <1>2, <1>3, WFMin
<1>5. PICK s \in S : x = Above(s)
  BY <1>4
<1>6. PICK v \in S : Height(s) < Height(v)
  BY <1>1
<1>7. v \in Above(s) /\ v \notin Above(v)
  BY <1>1, <1>6
<1>8. \A w \in S : Height(v) < Height(w) => Height(s) < Height(w)
  BY <1>1, <1>6
<1>9. Above(v) \subseteq Above(s) /\ Above(v) # Above(s)
  BY <1>7, <1>8
<1>10. <<Above(v), Above(s)>> \in StrictSubsetOrdering(S)
  BY <1>9 DEF StrictSubsetOrdering
<1> QED
  BY <1>4, <1>5, <1>10

----------------------------------------------------------------------------
(* The invariant: who is past the transfers keeps a reset from its first   *)
(* lock, and the other way round.                                          *)

Apart ==
  \A s, u \in Sessions :
    s # u /\ HoldsTable(s, "transfers") /\ Is(u, "reset") => got[u] = 0

LockInv == Types /\ Apart

\* The whole of transfers is the first lock of a reset.
LEMMA ResetList ==
  ASSUME Types, NEW s \in Sessions, Is(s, "reset")
  PROVE  job[s] \in Jobs /\ Locks(job[s]) = ResetLocks /\ Len(Locks(job[s])) = 3
<1>1. job[s] \in Jobs
  BY DEF Types, Is, NoJob, Job
<1>2. Locks(job[s]) = ResetLocks
  BY <1>1 DEF Is, Locks
<1> QED
  BY <1>1, <1>2 DEF ResetLocks

\* Who takes anything of transfers begins with the table.
LEMMA TransfersFirst ==
  ASSUME NEW j \in Jobs, NEW i \in 1 .. Len(Locks(j)), Locks(j)[i].table = "transfers"
  PROVE  Locks(j)[1] \in {Table("transfers"), Whole("transfers")}
<1>1. ASSUME NEW a \in Accounts,
             \/ Locks(j) = MutateLocks(a)
             \/ Locks(j) = StatusLocks(a)
             \/ Locks(j) = OpenLocks(a)
      PROVE  FALSE
  <2> USE DEF MutateLocks, StatusLocks, OpenLocks
  <2>1. i \in {1, 2, 3}
    BY <1>1
  <2> QED
    BY <1>1, <2>1 DEF Table, Row
<1> QED
  BY <1>1, JobCases DEF ClaimLocks, BookLocks, MarkLocks, SettleLocks, FailLocks, StatsLocks,
                        ResetLocks

\* Whoever has any of transfers has its first lock, which is the table's.
LEMMA HasTable ==
  ASSUME Types, NEW s \in Sessions, HoldsTable(s, "transfers")
  PROVE  /\ job[s] \in Jobs /\ 1 \in 1 .. got[s]
         /\ \E l \in Held(s) : l \in {Table("transfers"), Whole("transfers")}
<1>1. PICK l \in Held(s) : l.table = "transfers"
  BY DEF HoldsTable
<1>2. job[s] # NoJob
  <2>1. ASSUME job[s] = NoJob PROVE FALSE
    <3>1. Locks(job[s]) = << >>
      BY <2>1 DEF Locks, NoJob, Job
    <3>2. got[s] \in Nat /\ got[s] <= 0
      BY <3>1 DEF Types
    <3> QED
      BY <1>1, <3>2 DEF Held
  <2> QED
    BY <2>1
<1>3. job[s] \in Jobs
  BY <1>2 DEF Types
<1>4. PICK i \in 1 .. got[s] : l = Locks(job[s])[i] /\ i \in 1 .. Len(Locks(job[s]))
  BY <1>1, <1>3, HeldInList
<1>5. 1 \in 1 .. got[s]
  BY <1>4 DEF Types
<1>6. Locks(job[s])[1] \in {Table("transfers"), Whole("transfers")}
  BY <1>1, <1>3, <1>4, TransfersFirst
<1> QED
  BY <1>3, <1>5, <1>6 DEF Held

\* The lock by which a session comes to transfers is the table's.
LEMMA ComesToTable ==
  ASSUME Types, NEW s \in Sessions, Wants(s), Wanted(s).table = "transfers",
         ~HoldsTable(s, "transfers")
  PROVE  Wanted(s) \in {Table("transfers"), Whole("transfers")}
<1>1. /\ job[s] \in Jobs /\ got[s] \in Nat
      /\ got[s] + 1 \in 1 .. Len(Locks(job[s])) /\ Wanted(s) = Locks(job[s])[got[s] + 1]
  BY WaitsForNext
<1>2. Locks(job[s])[1] \in {Table("transfers"), Whole("transfers")}
  BY <1>1, TransfersFirst
<1>3. got[s] = 0
  <2>1. ASSUME got[s] > 0 PROVE FALSE
    <3>1. Locks(job[s])[1] \in Held(s)
      BY <1>1, <2>1 DEF Held
    <3>2. Locks(job[s])[1].table = "transfers"
      BY <1>2 DEF Table, Whole
    <3> QED
      BY <3>1, <3>2 DEF HoldsTable
  <2> QED
    BY <1>1, <2>1
<1> QED
  BY <1>1, <1>2, <1>3

\* A reset that has any lock has the whole of transfers.
LEMMA ResetHas ==
  ASSUME Types, NEW s \in Sessions, Is(s, "reset"), got[s] # 0
  PROVE  Whole("transfers") \in Held(s) /\ HoldsTable(s, "transfers")
<1>1. 1 \in 1 .. got[s]
  BY DEF Types
<1>2. Locks(job[s])[1] = Whole("transfers")
  BY ResetList DEF ResetLocks
<1>3. Whole("transfers") \in Held(s)
  BY <1>1, <1>2 DEF Held
<1> QED
  BY <1>3 DEF HoldsTable, Whole

\* The whole table lets nobody else have it.
LEMMA WholeBlocks ==
  ASSUME NEW l \in {Table("transfers"), Whole("transfers")}
  PROVE  Blocks(Whole("transfers"), l) /\ Blocks(l, Whole("transfers"))
<1>1. {"exclusive", "access"} \in Conflicts /\ {"exclusive", "exclusive"} \in Conflicts
      /\ {"access", "exclusive"} \in Conflicts
  BY DEF Conflicts
<1>2. CASE l = Table("transfers")
  BY <1>1, <1>2 DEF Blocks, SameThing, Table, Whole
<1>3. CASE l = Whole("transfers")
  BY <1>1, <1>3 DEF Blocks, SameThing, Whole
<1> QED
  BY <1>2, <1>3

\* The others are where they were.
Others(s) == \A u \in Sessions \ {s} : job'[u] = job[u] /\ got'[u] = got[u]

\* Who does not move holds what he held.
LEMMA OthersHold ==
  ASSUME NEW s, Others(s), NEW u \in Sessions \ {s}
  PROVE  /\ HoldsTable(u, "transfers")' <=> HoldsTable(u, "transfers")
         /\ Is(u, "reset")' <=> Is(u, "reset")
<1>1. job'[u] = job[u] /\ got'[u] = got[u]
  BY DEF Others
<1>2. Held(u)' = Held(u)
  BY <1>1 DEF Held
<1> QED
  BY <1>1, <1>2 DEF HoldsTable, Is

\* Who has let go of everything is in nobody's way.
LEMMA LetGo ==
  ASSUME Apart, NEW s \in Sessions, Others(s), got'[s] = 0
  PROVE  Apart'
<1>1. ~HoldsTable(s, "transfers")'
  BY DEF HoldsTable, Held
<1>2. ASSUME NEW x \in Sessions, NEW y \in Sessions, x # y, HoldsTable(x, "transfers")', Is(y, "reset")'
      PROVE  got'[y] = 0
  BY <1>1, <1>2, OthersHold DEF Others, Apart
<1> QED
  BY <1>2 DEF Apart

\* Nor is who was granted a lock, which nobody held in a conflicting mode.
LEMMA GrantApart ==
  ASSUME LockInv, NEW s \in Sessions, Grant(s)
  PROVE  Apart'
<1>1. Types /\ Wants(s) /\ Holders(s) = {}
  BY DEF LockInv, Grant, Blockers
<1>2. job' = job /\ got'[s] = got[s] + 1 /\ got[s] \in Nat /\ Others(s)
  BY <1>1 DEF Grant, Types, Others
<1>3. Held(s)' = Held(s) \cup {Wanted(s)}
  <2>1. 1 .. got[s] + 1 = (1 .. got[s]) \cup {got[s] + 1}
    BY <1>2
  <2> QED
    BY <1>2, <2>1 DEF Held, Wanted
<1>4. \A u \in Sessions \ {s} : \A l \in Held(u) : ~Blocks(l, Wanted(s))
  BY <1>1 DEF Holders, Blocks
<1>5. ASSUME NEW y \in Sessions \ {s}, HoldsTable(s, "transfers")', Is(y, "reset")', got'[y] # 0
      PROVE  FALSE
  <2>1. Is(y, "reset") /\ got[y] # 0
    BY <1>2, <1>5, OthersHold DEF Others
  <2>2. ~HoldsTable(s, "transfers")
    BY <2>1 DEF LockInv, Apart
  <2>3. Wanted(s).table = "transfers"
    BY <1>3, <1>5, <2>2 DEF HoldsTable
  <2>4. Wanted(s) \in {Table("transfers"), Whole("transfers")}
    BY <1>1, <2>2, <2>3, ComesToTable
  <2>5. Whole("transfers") \in Held(y)
    BY <1>1, <2>1, ResetHas
  <2> QED
    BY <1>4, <2>4, <2>5, WholeBlocks
<1>6. ASSUME NEW x \in Sessions \ {s}, HoldsTable(x, "transfers")', Is(s, "reset")'
      PROVE  FALSE
  <2>1. HoldsTable(x, "transfers") /\ Is(s, "reset")
    BY <1>2, <1>6, OthersHold DEF Is
  <2>2. got[s] = 0
    BY <2>1 DEF LockInv, Apart
  <2>3. Wanted(s) = Whole("transfers")
    BY <1>1, <2>1, <2>2, ResetList DEF Wanted, ResetLocks
  <2>4. PICK l \in Held(x) : l \in {Table("transfers"), Whole("transfers")}
    BY <1>1, <2>1, HasTable
  <2> QED
    BY <1>4, <2>3, <2>4, WholeBlocks
<1>7. ASSUME NEW x \in Sessions \ {s}, NEW y \in Sessions \ {s}, x # y,
             HoldsTable(x, "transfers")', Is(y, "reset")'
      PROVE  got'[y] = 0
  BY <1>2, <1>7, OthersHold DEF Others, LockInv, Apart
<1> QED
  BY <1>5, <1>6, <1>7 DEF Apart

----------------------------------------------------------------------------
(* The steps.                                                              *)

\* Nothing is locked without a transaction.
LEMMA NoLocks == Len(Locks(NoJob)) = 0 /\ NoJob.kind = "none"
BY DEF Locks, NoJob, Job

\* A session that lets go of everything, keeping its job or ending it.
LEMMA LetsGo ==
  ASSUME Configured, LockInv, NEW s \in Sessions, NEW j \in Jobs \cup {NoJob},
         NEW n \in 1 .. MaxResetAttempts, job' = [job EXCEPT ![s] = j],
         got' = [got EXCEPT ![s] = 0], attempt' = [attempt EXCEPT ![s] = n],
         rows' \subseteq Accounts \cup Keys
  PROVE  LockInv'
<1>1. Types /\ Apart
  BY DEF LockInv
<1>2. Others(s) /\ got'[s] = 0 /\ job'[s] = j
  BY <1>1 DEF Types, Others
<1>3. /\ job' \in [Sessions -> Jobs \cup {NoJob}] /\ got' \in [Sessions -> Nat]
      /\ attempt' \in [Sessions -> 1 .. MaxResetAttempts]
  BY <1>1 DEF Types
<1>4. Len(Locks(j)) \in Nat
  BY Lengths, NoLocks
<1>5. \A u \in Sessions : got'[u] <= Len(Locks(job'[u]))
  BY <1>1, <1>2, <1>4 DEF Types, Others
<1> QED
  BY <1>1, <1>2, <1>3, <1>5, LetGo DEF LockInv, Types

\* The end of a transaction.
LEMMA EndedKeeps ==
  ASSUME Configured, LockInv, NEW s \in Sessions, Ended(s), rows' \subseteq Accounts \cup Keys
  PROVE  LockInv'
<1>1. 1 \in 1 .. MaxResetAttempts
  BY DEF Configured
<1> QED
  BY <1>1, LetsGo DEF Ended

\* A deadlock's victim, or a timeout: the reset tries again, the others end.
LEMMA LockFailureKeeps ==
  ASSUME Configured, LockInv, NEW s \in Sessions, AfterLockFailure(s)
  PROVE  LockInv'
<1>1. Types /\ rows' \subseteq Accounts \cup Keys
  BY DEF LockInv, Types, AfterLockFailure
<1>2. CASE Ended(s)
  BY <1>1, <1>2, EndedKeeps
<1>3. CASE /\ attempt[s] < MaxResetAttempts
           /\ attempt' = [attempt EXCEPT ![s] = @ + 1]
           /\ got' = [got EXCEPT ![s] = 0]
           /\ UNCHANGED job
  <2>1. PICK n : n = attempt[s] + 1
    OBVIOUS
  <2>2. n \in 1 .. MaxResetAttempts
    BY <1>1, <1>3, <2>1 DEF Types, Configured
  <2>3. job' = [job EXCEPT ![s] = job[s]] /\ job[s] \in Jobs \cup {NoJob}
    BY <1>1, <1>3 DEF Types
  <2> QED
    BY <1>1, <1>3, <2>1, <2>2, <2>3, LetsGo
<1> QED
  BY <1>2, <1>3 DEF AfterLockFailure

\* A transaction begins with no lock.
LEMMA BeginKeeps ==
  ASSUME Configured, LockInv, NEW s \in Sessions, Begin(s)
  PROVE  LockInv'
<1>1. Types /\ rows' = rows /\ attempt' = attempt /\ got' = got
  BY DEF LockInv, Begin
<1>2. PICK j \in Jobs : job' = [job EXCEPT ![s] = j]
  BY DEF Begin
<1>3. \A i \in Jobs : i.kind # "none"
  BY JobCases
<1>4. job[s] = NoJob
  BY <1>1, <1>3 DEF Begin, Open, Is, Types
<1>5. got[s] = 0
  BY <1>1, <1>4, NoLocks DEF Types
<1>6. /\ got' = [got EXCEPT ![s] = 0] /\ attempt' = [attempt EXCEPT ![s] = attempt[s]]
      /\ attempt[s] \in 1 .. MaxResetAttempts
  BY <1>1, <1>5 DEF Types
<1> QED
  BY <1>1, <1>2, <1>6, LetsGo DEF Types

\* A lock is granted.
LEMMA GrantKeeps ==
  ASSUME Configured, LockInv, NEW s \in Sessions, Grant(s)
  PROVE  LockInv'
<1>1. Types /\ job' = job /\ attempt' = attempt /\ rows' = rows
  BY DEF LockInv, Grant
<1>2. got[s] \in Nat /\ got[s] + 1 <= Len(Locks(job[s]))
  BY <1>1, WaitsForNext DEF Grant
<1>3. got' = [got EXCEPT ![s] = @ + 1]
  BY DEF Grant
<1>4. Types'
  BY <1>1, <1>2, <1>3 DEF Types
<1> QED
  BY <1>4, GrantApart DEF LockInv

\* What a commit leaves in the tables.
LEMMA CommitKeeps ==
  ASSUME Configured, LockInv, NEW s \in Sessions, Commit(s)
  PROVE  LockInv'
<1>1. Types /\ Ended(s)
  BY DEF LockInv, Commit
<1>2. job[s] \in Jobs
  BY <1>1, NoLocks DEF Commit, Open, Is, Types
<1>3. Is(s, "claim") \/ Is(s, "open") => job[s].on \in Accounts \cup Keys
  BY <1>2, JobCases DEF Is
<1>4. rows' \subseteq Accounts \cup Keys
  BY <1>1, <1>3 DEF Commit, Types
<1> QED
  BY <1>1, <1>4, EndedKeeps

\* Every step keeps the invariant.
LEMMA NextLocks ==
  ASSUME Configured, LockInv, [Next]_vars
  PROVE  LockInv'
<1>1. CASE UNCHANGED vars
  BY <1>1 DEF vars, LockInv, Types, Apart, HoldsTable, Held, Is
<1>2. ASSUME NEW s \in Sessions, NotFound(s) \/ Rollback(s) PROVE LockInv'
  <2>1. Ended(s) /\ rows' \subseteq Accounts \cup Keys
    BY <1>2 DEF NotFound, Rollback, LockInv, Types
  <2> QED
    BY <2>1, EndedKeeps
<1>3. ASSUME NEW s \in Sessions, Victim(s) \/ LockTimeout(s) PROVE LockInv'
  BY <1>3, LockFailureKeeps DEF Victim, LockTimeout
<1> QED
  BY <1>1, <1>2, <1>3, BeginKeeps, GrantKeeps, CommitKeeps DEF Next

\* Nobody has more locks than his transaction takes, and nobody has anything
\* of transfers beside a reset that has begun.
THEOREM LockInvariant == Spec => []LockInv
<1>1. Init => LockInv
  <2> SUFFICES ASSUME Init PROVE LockInv
    OBVIOUS
  <2>1. \A s \in Sessions : job[s] = NoJob /\ got[s] = 0 /\ attempt[s] = 1
    BY DEF Init
  <2>2. 1 \in 1 .. MaxResetAttempts
    BY IsConfigured DEF Configured
  <2>3. Types
    BY <2>1, <2>2, NoLocks DEF Init, Types
  <2>4. Apart
    BY <2>1 DEF Apart
  <2> QED
    BY <2>3, <2>4 DEF LockInv
<1>2. LockInv /\ [Next]_vars => LockInv'
  BY NextLocks, IsConfigured
<1> QED
  BY <1>1, <1>2, PTL DEF Spec

\* ADR 0001 and spec v1.4.0 6.2, made complete: whatever sessions wait for one
\* another in a circle, a reset and a mutation are among them, or a reversal
\* and a claim.  Sessions without end could each wait for the next.
THEOREM CirclesAreExplained == ASSUME IsFiniteSet(Sessions) PROVE Spec => []CirclesExplained
<1>1. ASSUME LockInv, NEW S \in SUBSET Sessions, Deadlocked(S)
      PROVE  \/ Among(S, "reset") /\ Among(S, "mutate")
             \/ Among(S, "fail") /\ Among(S, "claim")
  <2>1. S # {} /\ \A s \in S : Blockers(s) \cap S # {}
    BY <1>1 DEF Deadlocked, Circle
  <2>2. IsFiniteSet(S)
    BY FS_Subset
  <2> QED
    BY <1>1, <2>1, <2>2, NobodyOnTop, IsConfigured DEF LockInv
<1>2. LockInv => CirclesExplained
  BY <1>1 DEF CirclesExplained
<1> QED
  BY <1>2, LockInvariant, PTL

\* Spec v1.4.0 6.2: a transfer or a settlement that has begun never waits for a
\* reset: the reset waits with nothing in its hands.
THEOREM TransfersPass == Spec => []TransferHoldersPass
<1>1. ASSUME LockInv, NEW s \in Sessions, HoldsTable(s, "transfers"), ~Is(s, "reset"),
             NEW u \in Blockers(s), Is(u, "reset")
      PROVE  FALSE
  <2>1. Types /\ u \in Sessions /\ s # u /\ u \in Holders(s) \cup Queued(s)
    BY <1>1 DEF LockInv, Blockers, Holders, Queued
  <2>2. got[u] = 0
    BY <1>1, <2>1 DEF LockInv, Apart
  <2>3. u \notin Holders(s)
    <3>1. Held(u) = {}
      BY <2>2 DEF Held
    <3> QED
      BY <3>1 DEF Holders
  <2>4. Wanted(u) = Whole("transfers")
    BY <1>1, <2>1, <2>2, ResetList DEF Wanted, ResetLocks
  <2>5. u \notin Queued(s)
    BY <1>1, <2>4 DEF Queued, Whole
  <2> QED
    BY <2>1, <2>3, <2>5
<1>2. LockInv => TransferHoldersPass
  BY <1>1 DEF TransferHoldersPass, Among
<1> QED
  BY <1>2, LockInvariant, PTL
=============================================================================
