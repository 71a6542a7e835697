--------------------------- MODULE SettlementProofs ---------------------------
(***************************************************************************)
(* Proofs about the settlement boundary: that the client is only shown     *)
(* transfers whose money has moved, and that its walk of the pages, over a *)
(* list that changes under it, passes over no more of what waits than left *)
(* the list meanwhile, for any number of transfers and any page size.      *)
(***************************************************************************)
EXTENDS SettlementFeed, FiniteSetTheorems, TLAPS

\* What is known of the constants.
Configured ==
  /\ Keys \subseteq Nat /\ IsFiniteSet(Keys)
  /\ PageSize \in Nat \ {0}
  /\ Null \notin Secrets

\* The assumption on the constants, under a name that can be left unexpanded.
LEMMA IsConfigured == Configured
BY FeedAssumption DEF Configured

----------------------------------------------------------------------------
(* Positions in an ordered list.                                           *)

\* How many of the list B come before k.
Pos(B, k) == Cardinality({j \in B : j < k})

\* A list that the keys can make.
List(B) == B \subseteq Nat /\ IsFiniteSet(B)

\* A position is less than the length of the list, and no two rows share one.
LEMMA Positions ==
  ASSUME NEW B, List(B)
  PROVE  /\ Cardinality(B) \in Nat
         /\ \A k : Pos(B, k) \in Nat
         /\ \A k \in B : Pos(B, k) < Cardinality(B)
         /\ \A j, k \in B : Pos(B, j) = Pos(B, k) => j = k
<1>1. Cardinality(B) \in Nat
  BY FS_CardinalityType DEF List
<1>2. ASSUME NEW k PROVE IsFiniteSet({j \in B : j < k}) /\ Pos(B, k) \in Nat
  <2>1. IsFiniteSet({j \in B : j < k})
    BY FS_Subset DEF List
  <2> QED
    BY <2>1, FS_CardinalityType DEF Pos
<1>3. ASSUME NEW j \in B, NEW k \in B, j < k PROVE Pos(B, j) < Pos(B, k)
  <2> DEFINE J == {i \in B : i < j}
             K == {i \in B : i < k}
  <2>1. j \in Nat /\ k \in Nat /\ \A i \in B : i \in Nat
    BY DEF List
  <2>2. J \in SUBSET K /\ j \in K /\ j \notin J
    <3>1. \A i \in B : i < j => i < k
      BY <1>3, <2>1
    <3>2. ~ j < j
      BY <2>1
    <3> QED
      BY <1>3, <3>1, <3>2
  <2>3. IsFiniteSet(K) /\ Cardinality(J) \in Nat /\ Cardinality(K) \in Nat
    BY <1>2 DEF Pos
  <2>4. Cardinality(J) <= Cardinality(K) /\ Cardinality(K) # Cardinality(J)
    <3> HIDE DEF J, K
    <3> QED
      BY <2>2, <2>3, FS_Subset
  <2> QED
    BY <2>3, <2>4 DEF Pos
<1>4. ASSUME NEW j \in B, NEW k \in B, Pos(B, j) = Pos(B, k) PROVE j = k
  <2>1. j \in Nat /\ k \in Nat
    BY DEF List
  <2>2. Pos(B, j) \in Nat /\ Pos(B, k) \in Nat
    BY <1>2
  <2>3. ~ Pos(B, j) < Pos(B, k) /\ ~ Pos(B, k) < Pos(B, j)
    BY <1>4, <2>2
  <2>4. ~ j < k /\ ~ k < j
    BY <1>3, <2>3
  <2> QED
    BY <2>1, <2>4
<1>5. ASSUME NEW k \in B PROVE Pos(B, k) < Cardinality(B)
  <2> DEFINE K == {i \in B : i < k}
  <2>1. k \in Nat
    BY DEF List
  <2>2. K \in SUBSET B /\ k \notin K
    BY <2>1
  <2>3. Cardinality(K) <= Cardinality(B) /\ Cardinality(K) # Cardinality(B)
    <3> HIDE DEF K
    <3> QED
      BY <2>2, FS_Subset DEF List
  <2>4. Cardinality(K) \in Nat
    BY <1>2 DEF Pos
  <2> QED
    BY <1>1, <2>3, <2>4 DEF Pos
<1> QED
  BY <1>1, <1>2, <1>4, <1>5

\* Every position up to the length is taken.
LEMMA PositionsTaken ==
  ASSUME NEW B, List(B), NEW n \in Nat, n < Cardinality(B)
  PROVE  \E k \in B : Pos(B, k) = n
<1> DEFINE f == [k \in B |-> Pos(B, k)]
           T == 0 .. Cardinality(B) - 1
<1>1. Cardinality(B) \in Nat /\ Cardinality(B) > 0
  BY Positions
<1>2. IsFiniteSet(T) /\ Cardinality(T) = Cardinality(B)
  <2>1. PICK c \in Nat : c = Cardinality(B) /\ c > 0
    BY <1>1
  <2>2. PICK d \in Nat : d = c - 1
    BY <2>1
  <2>3. IsFiniteSet(0 .. d) /\ Cardinality(0 .. d) = d + 1
    <3>1. 0 \in Int /\ d \in Int /\ ~ 0 > d /\ d - 0 + 1 = d + 1
      OBVIOUS
    <3> QED
      BY <3>1, FS_Interval
  <2> QED
    BY <2>1, <2>2, <2>3
<1>3. f \in Injection(B, T)
  <2>1. \A k \in B : Pos(B, k) \in T
    BY <1>1, Positions
  <2> QED
    BY <2>1, Positions DEF Injection, IsInjective
<1>4. f \in Surjection(B, T)
  <2> HIDE DEF f, T
  <2> QED
    BY <1>2, <1>3, FS_Injection
<1>5. n \in T
  BY <1>1
<1> QED
  BY <1>4, <1>5 DEF Surjection

\* A page that is one row longer is full if and only if a row lies beyond the
\* page itself.
LEMMA NextPage ==
  ASSUME NEW B, List(B), NEW o \in Nat, NEW n \in Nat,
         NEW R, R = {k \in B : Pos(B, k) \in o .. o + (n + 1) - 1}
  PROVE  /\ Cardinality(R) > n => Cardinality(B) > o + n
         /\ ~ Cardinality(R) > n => \A k \in B : Pos(B, k) < o + n
<1> DEFINE f == [k \in R |-> Pos(B, k)]
<1>1. R \in SUBSET B /\ IsFiniteSet(R) /\ Cardinality(R) \in Nat
  <2>1. R \in SUBSET B
    OBVIOUS
  <2> QED
    BY <2>1, FS_Subset, FS_CardinalityType DEF List
<1>2. Cardinality(B) \in Nat /\ \A k \in B : Pos(B, k) \in Nat /\ Pos(B, k) < Cardinality(B)
  BY Positions
<1>3. ASSUME Cardinality(B) <= o + n PROVE Cardinality(R) <= n
  <2> DEFINE T == o .. o + n - 1
  <2>1. IsFiniteSet(T) /\ Cardinality(T) = n
    BY FS_Interval
  <2>2. f \in Injection(R, T)
    <3>1. \A k \in R : Pos(B, k) \in T
      BY <1>1, <1>2, <1>3
    <3> QED
      BY <1>1, <3>1, Positions DEF Injection, IsInjective
  <2> HIDE DEF f, T
  <2> QED
    BY <2>1, <2>2, FS_Injection
<1>4. ASSUME NEW k \in B, ~ Pos(B, k) < o + n PROVE Cardinality(R) > n
  <2> DEFINE T == o .. o + n
  <2>1. IsFiniteSet(T) /\ Cardinality(T) = n + 1
    BY FS_Interval
  <2>2. ASSUME NEW p \in T PROVE \E r \in R : Pos(B, r) = p
    <3>1. p \in Nat /\ p < Cardinality(B)
      BY <1>2, <1>4
    <3>2. PICK r \in B : Pos(B, r) = p
      BY <3>1, PositionsTaken
    <3>3. p \in o .. o + (n + 1) - 1
      OBVIOUS
    <3> QED
      BY <3>2, <3>3
  <2>3. \A r \in R : Pos(B, r) \in T
    OBVIOUS
  <2>4. f \in Surjection(R, T)
    BY <2>2, <2>3 DEF Surjection
  <2>5. n + 1 <= Cardinality(R)
    <3> HIDE DEF f, T
    <3> QED
      BY <1>1, <2>1, <2>4, FS_Surjection
  <2> QED
    BY <1>1, <2>5
<1> QED
  BY <1>1, <1>2, <1>3, <1>4

----------------------------------------------------------------------------
(* The invariant.                                                          *)

Loose ==
  /\ phase \in [Keys -> Bank!Phases]
  /\ up \in BOOLEAN
  /\ hash \in Secrets \cup {Null}
  /\ credential \in Secrets \cup {Null}
  /\ token \in {"none", "live", "expired"}
  /\ page \in Nat \ {0}
  /\ queue \subseteq Keys
  /\ unseen \subseteq Keys
  /\ left \in Nat

\* Those that can never be listed again.
Gone == {k \in Keys : phase[k] \in {"settled", "reversed"}}

\* Of the rows U of the list B, those that the pages before o passed over.
Passed(B, U, o) == {k \in U : Pos(B, k) < o}
Missed == IF page = 1 THEN unseen ELSE Passed(Backlog, unseen, Offset(page))

\* The walk has missed no more than left the list; what it has not seen yet is
\* all there; and it goes no further than the list is long.
WalkInv ==
  /\ unseen \subseteq Backlog
  /\ Cardinality(Missed) <= left
  /\ left <= Cardinality(Gone)
  /\ page = 1 \/ page <= Cardinality(Keys)

FeedInv == Loose /\ ListedHaveMoved /\ WalkInv

\* The list, and the rows of a page, as sets with positions.
LEMMA Backlogs ==
  ASSUME Configured, Loose
  PROVE  /\ Backlog = {k \in Keys : phase[k] = "booked"} /\ List(Backlog)
         /\ \A k \in Keys : Listable(k) <=> phase[k] = "booked"
         /\ \A n, o : Rows(n, o) = {k \in Backlog : Pos(Backlog, k) \in o .. o + n - 1}
         /\ Offset(page) \in Nat /\ IsFiniteSet(Gone) /\ Cardinality(Gone) \in Nat
<1>1. Backlog = {k \in Keys : phase[k] = "booked"}
      /\ \A k \in Keys : Listable(k) <=> phase[k] = "booked"
  BY DEF Backlog, Listable, Pending, HasEntries
<1>2. List(Backlog)
  <2>1. Backlog \in SUBSET Keys
    BY <1>1
  <2> QED
    BY <2>1, FS_Subset DEF Configured, List
<1>3. \A n, o : Rows(n, o) = {k \in Backlog : Pos(Backlog, k) \in o .. o + n - 1}
  BY DEF Rows, Position, Pos
<1>4. Offset(page) \in Nat
  <2>1. PICK p, n \in Nat : page = p + 1 /\ n = PageSize
    <3>1. page \in Nat /\ page # 0 /\ PageSize \in Nat
      BY DEF Loose, Configured
    <3>2. page - 1 \in Nat /\ page = (page - 1) + 1
      BY <3>1
    <3> QED
      BY <3>1, <3>2
  <2>2. page - 1 = p
    BY <2>1
  <2> QED
    BY <2>1, <2>2 DEF Offset
<1>5. IsFiniteSet(Gone) /\ Cardinality(Gone) \in Nat
  <2>1. Gone \in SUBSET Keys
    BY DEF Gone
  <2> QED
    BY <2>1, FS_Subset, FS_CardinalityType DEF Configured
<1> QED
  BY <1>1, <1>2, <1>3, <1>4, <1>5

\* What was missed is part of what was not seen.
LEMMA MissedFinite ==
  ASSUME Configured, Loose
  PROVE  IsFiniteSet(unseen) /\ IsFiniteSet(Missed) /\ Cardinality(Missed) \in Nat
         /\ Missed \subseteq unseen
<1>1. Missed \in SUBSET unseen /\ unseen \in SUBSET Keys
  BY DEF Missed, Passed, Loose
<1>2. IsFiniteSet(unseen)
  BY <1>1, FS_Subset DEF Configured
<1>3. IsFiniteSet(Missed)
  BY <1>1, <1>2, FS_Subset
<1> QED
  BY <1>1, <1>2, <1>3, FS_CardinalityType

\* A list that only grows moves no row to an earlier position.
LEMMA LaterInLonger ==
  ASSUME NEW B, NEW C, List(C), B \subseteq C, NEW k
  PROVE  Pos(B, k) <= Pos(C, k)
<1>1. {j \in B : j < k} \in SUBSET {j \in C : j < k}
  OBVIOUS
<1>2. IsFiniteSet({j \in C : j < k})
  BY FS_Subset DEF List
<1> QED
  BY <1>1, <1>2, FS_Subset DEF Pos

\* One row less moves the others forward by one at most.
LEMMA OneLess ==
  ASSUME NEW B, List(B), NEW k, NEW j
  PROVE  Pos(B, j) <= Pos(B \ {k}, j) + 1
<1> DEFINE A == {i \in B \ {k} : i < j}
           C == {i \in B : i < j}
<1>1. IsFiniteSet(C) /\ IsFiniteSet(A)
  BY FS_Subset DEF List
<1>2. C \in SUBSET (A \cup {k})
  OBVIOUS
<1>3. IsFiniteSet(A \cup {k}) /\ Cardinality(A \cup {k}) <= Cardinality(A) + 1
  <2>1. IsFiniteSet(A) /\ Cardinality(A) \in Nat
    BY <1>1, FS_CardinalityType
  <2> HIDE DEF A
  <2>2. /\ IsFiniteSet(A \cup {k})
        /\ Cardinality(A \cup {k}) = IF k \in A THEN Cardinality(A) ELSE Cardinality(A) + 1
    BY <2>1, FS_AddElement
  <2> QED
    BY <2>1, <2>2
<1>4. Cardinality(C) <= Cardinality(A \cup {k})
  <2> HIDE DEF A, C
  <2> QED
    BY <1>2, <1>3, FS_Subset
<1>5. Cardinality(A) \in Nat /\ Cardinality(C) \in Nat /\ Cardinality(A \cup {k}) \in Nat
  BY <1>1, <1>3, FS_CardinalityType
<1>6. Pos(B, j) = Cardinality(C) /\ Pos(B \ {k}, j) = Cardinality(A)
  BY DEF Pos
<1> HIDE DEF A, C
<1> QED
  BY <1>3, <1>4, <1>5, <1>6

\* So the pages before o pass over one row more at most.
LEMMA OneMorePassed ==
  ASSUME NEW B, List(B), NEW U, U \subseteq B, NEW k, NEW o \in Nat
  PROVE  Cardinality(Passed(B \ {k}, U \ {k}, o)) <= Cardinality(Passed(B, U, o)) + 1
<1> DEFINE P == Passed(B, U, o)
           Q == Passed(B \ {k}, U \ {k}, o)
<1>1. IsFiniteSet(P) /\ Cardinality(P) \in Nat
  <2>1. P \in SUBSET B
    BY DEF Passed
  <2> QED
    BY <2>1, FS_Subset, FS_CardinalityType DEF List
<1>2. List(B \ {k})
  BY FS_Subset DEF List
<1>3. ASSUME NEW j \in Q PROVE j \in B /\ (j \in P \/ Pos(B, j) = o)
  <2>1. j \in U /\ Pos(B \ {k}, j) < o
    BY DEF Passed
  <2>2. Pos(B, j) \in Nat /\ Pos(B \ {k}, j) \in Nat /\ Pos(B, j) <= Pos(B \ {k}, j) + 1
    BY <1>2, OneLess, Positions
  <2>3. Pos(B, j) < o \/ Pos(B, j) = o
    BY <2>1, <2>2
  <2> QED
    BY <2>1, <2>3 DEF Passed
<1>4. \E m : Q \in SUBSET (P \cup {m})
  <2>1. CASE \E m \in B : Pos(B, m) = o
    <3>1. PICK m \in B : Pos(B, m) = o
      BY <2>1
    <3>2. \A j \in Q : j \in P \/ j = m
      BY <1>3, <3>1, Positions
    <3> HIDE DEF P, Q
    <3> QED
      BY <3>2
  <2>2. CASE ~ \E m \in B : Pos(B, m) = o
    <3>1. \A j \in Q : j \in P
      BY <1>3, <2>2
    <3> HIDE DEF P, Q
    <3> QED
      BY <3>1
  <2> QED
    BY <2>1, <2>2
<1>5. PICK m : Q \in SUBSET (P \cup {m})
  BY <1>4
<1> HIDE DEF P, Q
<1>6. IsFiniteSet(P \cup {m}) /\ Cardinality(P \cup {m}) <= Cardinality(P) + 1
  BY <1>1, FS_AddElement
<1>7. IsFiniteSet(Q) /\ Cardinality(Q) <= Cardinality(P \cup {m})
  BY <1>5, <1>6, FS_Subset
<1>8. Cardinality(Q) \in Nat /\ Cardinality(P \cup {m}) \in Nat
  BY <1>6, <1>7, FS_CardinalityType
<1>9. Cardinality(Q) <= Cardinality(P) + 1
  BY <1>1, <1>6, <1>7, <1>8
<1> QED
  BY <1>9 DEF P, Q

----------------------------------------------------------------------------
(* The steps.                                                              *)

\* A step that takes no transfer off the list, and leaves the walk alone.
LEMMA NothingLeaves ==
  ASSUME Configured, FeedInv, Loose', UNCHANGED <<page, unseen, left>>, queue' \subseteq queue,
         \A k \in Keys : HasEntries(k) => phase'[k] = phase[k]
  PROVE  FeedInv'
<1>1. Loose /\ ListedHaveMoved /\ WalkInv
  BY DEF FeedInv
<1>2. Backlog \subseteq Backlog' /\ List(Backlog) /\ List(Backlog')
  <2>1. Backlog \subseteq Backlog'
    BY <1>1, Backlogs DEF HasEntries, Backlog, Listable, Pending
  <2>2. Backlog' \in SUBSET Keys
    BY DEF Backlog
  <2> QED
    BY <1>1, <2>1, <2>2, Backlogs, FS_Subset DEF Configured, List
<1>3. Cardinality(Gone) <= Cardinality(Gone')
  <2>1. Gone \in SUBSET Gone'
    BY DEF Gone, HasEntries
  <2>2. IsFiniteSet(Gone')
    <3>1. Gone' \in SUBSET Keys
      BY DEF Gone
    <3> QED
      BY <3>1, FS_Subset DEF Configured
  <2> QED
    BY <2>1, <2>2, FS_Subset
<1>4. Cardinality(Missed') <= Cardinality(Missed)
  <2>1. Missed' \in SUBSET Missed
    <3>1. CASE page = 1
      BY <3>1 DEF Missed
    <3>2. CASE page # 1
      <4>1. PICK o \in Nat : o = Offset(page) /\ o = Offset(page)'
        BY <1>1, Backlogs DEF Offset
      <4>2. ASSUME NEW k \in unseen, Pos(Backlog', k) < o PROVE Pos(Backlog, k) < o
        <5>1. Pos(Backlog, k) <= Pos(Backlog', k)
          BY <1>2, LaterInLonger
        <5>2. Pos(Backlog, k) \in Nat /\ Pos(Backlog', k) \in Nat
          BY <1>2, Positions
        <5> QED
          BY <4>1, <4>2, <5>1, <5>2
      <4> QED
        BY <3>2, <4>1, <4>2 DEF Missed, Passed
    <3> QED
      BY <3>1, <3>2
  <2> QED
    BY <1>1, <2>1, MissedFinite, FS_Subset
<1>5. Cardinality(Missed') \in Nat
  <2>1. Missed' \in SUBSET unseen
    BY DEF Missed, Passed
  <2> QED
    BY <1>1, <2>1, MissedFinite, FS_Subset, FS_CardinalityType
<1>6. /\ Cardinality(Missed) \in Nat /\ Cardinality(Gone) \in Nat /\ left \in Nat
      /\ Cardinality(Gone') \in Nat
  <2>1. Gone' \in SUBSET Keys
    BY DEF Gone
  <2> QED
    BY <1>1, <2>1, MissedFinite, Backlogs, FS_Subset, FS_CardinalityType DEF Loose, Configured
<1>7. left' <= Cardinality(Gone')
  BY <1>1, <1>3, <1>6 DEF WalkInv
<1>8. Cardinality(Missed') <= left'
  BY <1>1, <1>4, <1>5, <1>6 DEF WalkInv
<1>9. ListedHaveMoved'
  BY <1>1 DEF ListedHaveMoved, HasEntries, Loose
<1> QED
  BY <1>1, <1>2, <1>7, <1>8, <1>9 DEF FeedInv, WalkInv

\* A transfer leaves the list, for good.
LEMMA OneLeaves ==
  ASSUME Configured, FeedInv, NEW k \in Keys, phase[k] = "booked",
         NEW x \in {"settled", "reversed"}, phase' = [phase EXCEPT ![k] = x],
         unseen' = unseen \ {k}, left' = left + 1, queue' \subseteq queue,
         UNCHANGED <<page, authVars>>
  PROVE  FeedInv'
<1>1. Loose /\ ListedHaveMoved /\ WalkInv
  BY DEF FeedInv
<1>2. Loose'
  BY <1>1 DEF Loose, Bank!Phases, authVars
<1>3. phase'[k] = x /\ \A j \in Keys \ {k} : phase'[j] = phase[j]
  BY <1>1 DEF Loose
<1>4. Backlog' = Backlog \ {k}
  BY <1>1, <1>3, Backlogs DEF Backlog, Listable, Pending, HasEntries
<1>5. Gone' = Gone \cup {k} /\ k \notin Gone
  BY <1>3 DEF Gone
<1>6. Cardinality(Gone') = Cardinality(Gone) + 1
  BY <1>1, <1>5, Backlogs, FS_AddElement
<1>7. Cardinality(Missed') <= Cardinality(Missed) + 1 /\ Cardinality(Missed') \in Nat
  <2>1. CASE page = 1
    <3>1. Missed' = unseen \ {k} /\ Missed = unseen
      BY <2>1 DEF Missed
    <3>2. IsFiniteSet(unseen \ {k}) /\ Cardinality(unseen \ {k}) <= Cardinality(unseen)
      BY <1>1, MissedFinite, FS_Subset
    <3>3. Cardinality(unseen \ {k}) \in Nat /\ Cardinality(unseen) \in Nat
      BY <1>1, <3>2, MissedFinite, FS_CardinalityType
    <3> QED
      BY <3>1, <3>2, <3>3
  <2>2. CASE page # 1
    <3>1. PICK o \in Nat : o = Offset(page) /\ o = Offset(page)'
      BY <1>1, Backlogs DEF Offset
    <3>2. Missed = Passed(Backlog, unseen, o) /\ Missed' = Passed(Backlog \ {k}, unseen \ {k}, o)
      BY <1>4, <2>2, <3>1 DEF Missed
    <3>3. Missed' \in SUBSET unseen
      BY <3>2 DEF Passed
    <3>4. Cardinality(Missed') \in Nat
      BY <1>1, <3>3, MissedFinite, FS_Subset, FS_CardinalityType
    <3> QED
      BY <1>1, <3>2, <3>4, OneMorePassed, Backlogs DEF WalkInv
  <2> QED
    BY <2>1, <2>2
<1>8. Cardinality(Missed) \in Nat /\ Cardinality(Gone) \in Nat /\ left \in Nat
  BY <1>1, MissedFinite, Backlogs DEF Loose
<1>9. Cardinality(Missed') <= left' /\ left' <= Cardinality(Gone')
  BY <1>1, <1>6, <1>7, <1>8 DEF WalkInv
<1>10. unseen' \subseteq Backlog'
  BY <1>1, <1>4 DEF WalkInv
<1>11. ListedHaveMoved'
  BY <1>1, <1>3 DEF ListedHaveMoved, HasEntries, Loose
<1> QED
  BY <1>1, <1>2, <1>9, <1>10, <1>11 DEF FeedInv, WalkInv

\* The client asks for a page.  The rows before it that it has not seen stay
\* as many; those of the page are seen; and there is a next page only if the
\* list goes on behind it.
LEMMA PollKeeps ==
  ASSUME Configured, FeedInv, Poll
  PROVE  FeedInv'
<1>1. Loose /\ ListedHaveMoved /\ WalkInv
  BY DEF FeedInv
<1> DEFINE o == Offset(page)
           U == IF page = 1 THEN Backlog ELSE unseen
           R == {k \in Backlog : Pos(Backlog, k) \in o .. o + (PageSize + 1) - 1}
<1>2. PICK n \in Nat \ {0} : n = PageSize
  BY DEF Configured
<1>3. o \in Nat /\ (page = 1 => o = 0)
  BY <1>1, <1>2, Backlogs DEF Offset
<1>4. /\ queue' = queue \cup Listed(o)
      /\ unseen' = U \ Listed(o)
      /\ left' = IF page = 1 THEN 0 ELSE left
      /\ page' = IF HasNext(o) THEN page + 1 ELSE 1
      /\ phase' = phase /\ UNCHANGED authVars
  BY DEF Poll, bankVars
<1>5. List(Backlog) /\ Backlog \subseteq Keys /\ Backlog' = Backlog /\ Gone' = Gone
  <2>1. Backlog \subseteq Keys
    BY DEF Backlog
  <2> QED
    BY <1>1, <1>4, <2>1, Backlogs DEF Backlog, Listable, Pending, HasEntries, Gone
<1>6. Listed(o) = {k \in Backlog : Pos(Backlog, k) \in o .. o + n - 1} /\ Rows(PageSize + 1, o) = R
  BY <1>1, <1>2, Backlogs DEF Listed
<1>7. \A k : Pos(Backlog, k) \in Nat
  BY <1>5, Positions
<1>8. U \subseteq Backlog
  BY <1>1 DEF WalkInv
<1>9. \A k \in unseen' : k \in U /\ ~ Pos(Backlog, k) \in o .. o + n - 1
  BY <1>4, <1>6, <1>8
<1>10. IsFiniteSet(Passed(Backlog, U, o)) /\ Cardinality(Passed(Backlog, U, o)) \in Nat
       /\ Cardinality(Passed(Backlog, U, o)) <= left'
  <2>1. CASE page = 1
    <3>1. Passed(Backlog, U, o) = {}
      BY <1>3, <1>7, <2>1 DEF Passed
    <3> QED
      BY <1>4, <2>1, <3>1, FS_EmptySet
  <2>2. CASE page # 1
    <3>1. Passed(Backlog, U, o) = Missed
      BY <2>2 DEF Missed
    <3> QED
      BY <1>1, <1>4, <2>2, <3>1, MissedFinite DEF WalkInv
  <2> QED
    BY <2>1, <2>2
<1>11. /\ page' \in Nat \ {0} /\ (page' = 1 \/ page' <= Cardinality(Keys))
       /\ Missed' \in SUBSET Passed(Backlog, U, o)
  <2>1. CASE HasNext(o)
    <3>1. page' = page + 1 /\ page' # 1 /\ page' \in Nat \ {0}
      BY <1>1, <1>4, <2>1 DEF Loose
    <3>2. Cardinality(R) > n
      BY <1>2, <1>6, <2>1 DEF HasNext
    <3>3. Cardinality(Backlog) > o + n
      <4> HIDE DEF o
      <4> QED
        BY <1>2, <1>3, <1>5, <3>2, NextPage
    <3>4. PICK p \in Nat : p = page - 1 /\ page = p + 1
      BY <1>1 DEF Loose
    <3>5. o = p * n /\ Offset(page') = (p + 1) * n
      <4>1. page' - 1 = p + 1
        BY <3>1, <3>4
      <4> QED
        BY <1>2, <3>4, <4>1 DEF Offset
    <3>6. Offset(page') = o + n
      BY <3>5
    <3>7. o + n >= p + 1
      <4>1. PICK m \in Nat : n = m + 1
        <5>1. n - 1 \in Nat /\ n = (n - 1) + 1
          OBVIOUS
        <5> QED
          BY <5>1
      <4>2. o = p * m + p /\ p * m \in Nat
        BY <3>5, <4>1
      <4> HIDE DEF o
      <4> QED
        BY <4>1, <4>2
    <3>8. page' <= Cardinality(Keys)
      <4>1. Cardinality(Backlog) <= Cardinality(Keys) /\ Cardinality(Backlog) \in Nat
            /\ Cardinality(Keys) \in Nat
        BY <1>5, FS_Subset, FS_CardinalityType DEF Configured
      <4> HIDE DEF o
      <4> QED
        BY <1>3, <3>1, <3>3, <3>4, <3>7, <4>1
    <3>9. Missed' \in SUBSET Passed(Backlog, U, o)
      <4>1. Missed' = Passed(Backlog, unseen', o + n)
        BY <1>5, <3>1, <3>6 DEF Missed, Offset
      <4>2. ASSUME NEW k \in unseen', Pos(Backlog, k) < o + n
            PROVE  k \in U /\ Pos(Backlog, k) < o
        BY <1>3, <1>7, <1>9, <4>2
      <4> HIDE DEF o, U
      <4> QED
        BY <4>1, <4>2 DEF Passed
    <3> QED
      BY <3>1, <3>8, <3>9
  <2>2. CASE ~ HasNext(o)
    <3>1. page' = 1
      BY <1>4, <2>2
    <3>2. ~ Cardinality(R) > n
      BY <1>2, <1>6, <2>2 DEF HasNext
    <3>3. \A k \in Backlog : Pos(Backlog, k) < o + n
      <4> HIDE DEF o
      <4> QED
        BY <1>2, <1>3, <1>5, <3>2, NextPage
    <3>4. ASSUME NEW k \in unseen' PROVE k \in U /\ Pos(Backlog, k) < o
      BY <1>3, <1>7, <1>8, <1>9, <3>3
    <3>5. Missed' = unseen'
      BY <3>1 DEF Missed
    <3> HIDE DEF o, U
    <3> QED
      BY <3>1, <3>4, <3>5 DEF Passed
  <2> QED
    BY <2>1, <2>2
<1>12. Cardinality(Missed') <= left'
  <2>1. Cardinality(Missed') <= Cardinality(Passed(Backlog, U, o)) /\ Cardinality(Missed') \in Nat
    <3> HIDE DEF o, U
    <3> QED
      BY <1>10, <1>11, FS_Subset, FS_CardinalityType
  <2>2. left' \in Nat
    BY <1>1, <1>4 DEF Loose
  <2> HIDE DEF o, U
  <2> QED
    BY <1>10, <2>1, <2>2
<1>13. left' <= Cardinality(Gone') /\ left' \in Nat
  BY <1>1, <1>4, <1>5, Backlogs DEF WalkInv, Loose
<1>14. unseen' \subseteq Backlog' /\ queue' \subseteq Keys /\ unseen' \subseteq Keys
  <2>1. unseen' \subseteq Backlog /\ Listed(o) \subseteq Backlog
    BY <1>4, <1>6, <1>8
  <2> QED
    BY <1>1, <1>4, <1>5, <2>1 DEF Loose
<1>15. ListedHaveMoved'
  <2>1. ASSUME NEW k \in queue' PROVE HasEntries(k)'
    <3>1. k \in queue \/ k \in Backlog
      BY <1>4, <1>6
    <3> QED
      BY <1>1, <1>4, <3>1 DEF ListedHaveMoved, Backlog, Listable, HasEntries
  <2> QED
    BY <2>1 DEF ListedHaveMoved
<1>16. Loose'
  BY <1>1, <1>4, <1>11, <1>13, <1>14 DEF Loose, authVars
<1> QED
  BY <1>11, <1>12, <1>13, <1>14, <1>15, <1>16 DEF FeedInv, WalkInv

\* A settlement, of a row that is listed or of one that is not.
LEMMA SettleKeeps ==
  ASSUME Configured, FeedInv, NEW k \in Keys, SettleRow(k), Leave(k),
         queue' \subseteq queue, UNCHANGED <<page, authVars>>
  PROVE  FeedInv'
<1>1. Loose /\ WalkInv
  BY DEF FeedInv
<1>2. CASE Listable(k)
  <2>1. phase[k] = "booked" /\ phase' = [phase EXCEPT ![k] = "settled"]
    BY <1>1, <1>2, Backlogs DEF SettleRow, Bank!Settle, Bank!Enter
  <2>2. phase'[k] = "settled"
    BY <1>1, <2>1 DEF Loose
  <2>3. unseen' = unseen \ {k} /\ left' = left + 1
    BY <1>2, <2>2 DEF Leave
  <2> QED
    BY <2>1, <2>3, OneLeaves
<1>3. CASE ~ Listable(k)
  <2>1. UNCHANGED bankVars
    BY <1>3 DEF SettleRow
  <2>2. k \notin unseen
    BY <1>1, <1>3 DEF WalkInv, Backlog
  <2>3. unseen' = unseen /\ left' = left
    BY <1>3, <2>2 DEF Leave
  <2>4. Loose'
    BY <1>1, <2>1, <2>3 DEF Loose, bankVars, authVars
  <2> QED
    BY <2>1, <2>3, <2>4, NothingLeaves DEF bankVars
<1> QED
  BY <1>2, <1>3

\* An operator's failure of a booked transfer.
LEMMA FailKeeps ==
  ASSUME Configured, FeedInv, NEW k \in Keys, Fail(k)
  PROVE  FeedInv'
<1>1. Loose
  BY DEF FeedInv
<1>2. phase[k] = "booked" /\ phase' = [phase EXCEPT ![k] = "reversed"]
  BY DEF Fail, Bank!Reverse, Bank!Enter
<1>3. phase'[k] = "reversed" /\ Listable(k)
  BY <1>1, <1>2, Backlogs DEF Loose
<1>4. unseen' = unseen \ {k} /\ left' = left + 1
  BY <1>3 DEF Fail, Leave
<1> QED
  BY <1>2, <1>4, OneLeaves DEF Fail

\* What the customers do to a transfer before the client is shown it.
LEMMA CustomersKeep ==
  ASSUME Configured, FeedInv, NEW k \in Keys, Register(k) \/ Book(k) \/ Reject(k)
  PROVE  FeedInv'
<1>1. Loose
  BY DEF FeedInv
<1>2. \E x \in {"none", "registered"}, y \in {"registered", "booked", "rejected"} :
        phase[k] = x /\ phase' = [phase EXCEPT ![k] = y]
  <2>1. CASE Register(k)
    BY <2>1 DEF Register, Bank!Register, Bank!Enter
  <2>2. CASE Book(k)
    <3>1. PICK y \in {"booked", "settled"} :
            phase[k] = "registered" /\ phase' = [phase EXCEPT ![k] = y]
      BY <2>2 DEF Book, Bank!Book, Bank!Enter
    <3>2. y = "booked"
      BY <1>1, <2>2, <3>1 DEF Book, Loose
    <3> QED
      BY <3>1, <3>2
  <2>3. CASE Reject(k)
    BY <2>3 DEF Reject, Bank!Reject, Bank!Enter
  <2> QED
    BY <2>1, <2>2, <2>3
<1>3. UNCHANGED <<authVars, walkVars>>
  BY DEF Register, Book, Reject
<1>4. Loose'
  BY <1>1, <1>2, <1>3 DEF Loose, authVars, walkVars, Bank!Phases
<1>5. \A j \in Keys : HasEntries(j) => phase'[j] = phase[j]
  BY <1>1, <1>2 DEF HasEntries, Loose
<1> QED
  BY <1>3, <1>4, <1>5, NothingLeaves DEF walkVars

\* Boots, stops and tokens, and steps in which nothing happens.
LEMMA AuthKeeps ==
  ASSUME Configured, FeedInv,
         Boot \/ Stop \/ IssueServiceToken \/ Expire \/ Unauthorized \/ UNCHANGED vars
  PROVE  FeedInv'
<1>1. Loose
  BY DEF FeedInv
<1>2. UNCHANGED <<bankVars, walkVars>>
  BY DEF Boot, Stop, IssueServiceToken, Expire, Unauthorized, vars
<1>3. /\ up' \in BOOLEAN
      /\ hash' \in Secrets \cup {Null}
      /\ credential' \in Secrets \cup {Null}
      /\ token' \in {"none", "live", "expired"}
  <2>1. CASE Boot
    BY <1>1, <2>1 DEF Loose, Boot, EnsureServiceClient
  <2>2. CASE Stop
    BY <1>1, <2>2 DEF Loose, Stop
  <2>3. CASE IssueServiceToken \/ Expire \/ Unauthorized
    BY <1>1, <2>3 DEF Loose, IssueServiceToken, Expire, Unauthorized
  <2>4. CASE UNCHANGED vars
    BY <1>1, <2>4 DEF Loose, vars, authVars
  <2> QED
    BY <2>1, <2>2, <2>3, <2>4
<1>4. Loose'
  BY <1>1, <1>2, <1>3 DEF Loose, bankVars, walkVars
<1> QED
  BY <1>2, <1>4, NothingLeaves DEF bankVars, walkVars

\* Every step keeps the invariant.
LEMMA NextKeeps ==
  ASSUME Configured, FeedInv, [Next]_vars
  PROVE  FeedInv'
<1>1. CASE Boot \/ Stop \/ IssueServiceToken \/ Expire \/ Unauthorized \/ UNCHANGED vars
  BY <1>1, AuthKeeps
<1>2. CASE Poll
  BY <1>2, PollKeeps
<1>3. ASSUME NEW k \in Keys, Settle(k) \/ SettleUnanswered(k) PROVE FeedInv'
  <2>1. SettleRow(k) /\ Leave(k) /\ queue' \subseteq queue /\ UNCHANGED <<page, authVars>>
    BY <1>3 DEF Settle, SettleUnanswered
  <2> QED
    BY <2>1, SettleKeeps
<1>4. ASSUME NEW k \in Keys, Fail(k) PROVE FeedInv'
  BY <1>4, FailKeeps
<1>5. ASSUME NEW k \in Keys, Register(k) \/ Book(k) \/ Reject(k) PROVE FeedInv'
  BY <1>5, CustomersKeep
<1> QED
  BY <1>1, <1>2, <1>3, <1>4, <1>5 DEF Next

\* Nothing waits and nothing was asked for at first.
LEMMA InitKeeps ==
  ASSUME Configured, Init
  PROVE  FeedInv
<1>1. phase = [k \in Keys |-> "none"]
  BY DEF Init, Bank!Init
<1>2. Loose
  <2>1. phase \in [Keys -> Bank!Phases]
    BY <1>1 DEF Bank!Phases
  <2>2. page = 1 /\ page \in Nat \ {0} /\ left \in Nat
    BY DEF Init
  <2> QED
    BY <2>1, <2>2 DEF Init, Loose
<1>3. Missed = {} /\ Cardinality(Missed) = 0
  BY FS_EmptySet DEF Init, Missed
<1>4. Cardinality(Gone) \in Nat
  BY <1>2, Backlogs
<1> QED
  BY <1>2, <1>3, <1>4 DEF FeedInv, ListedHaveMoved, WalkInv, Init

----------------------------------------------------------------------------
(* The theorems.                                                           *)

\* The invariant holds of every state the bank and the client can get to,
\* whatever is booked, failed or restarted between two calls.
THEOREM FeedInvariant == Spec => []FeedInv
<1>1. Configured
  BY IsConfigured
<1>2. Init => FeedInv
  BY <1>1, InitKeeps
<1>3. FeedInv /\ [Next]_vars => FeedInv'
  BY <1>1, NextKeeps
<1> QED
  BY <1>2, <1>3, PTL DEF Spec

\* Whatever the client has been shown and not settled yet has had its money
\* moved (bookedFilter in ListForSettlement).
THEOREM ShownHaveMoved == Spec => []ListedHaveMoved
<1>1. FeedInv => ListedHaveMoved
  BY DEF FeedInv
<1> QED
  BY <1>1, FeedInvariant, PTL

\* A walk of the pages, from the first to the one that has no next, misses no
\* more of what waited all along than left the list while it went on.
THEOREM WalksAreBounded == Spec => []WalkMissesAtMostWhatLeft
<1>1. FeedInv => WalkMissesAtMostWhatLeft
  BY DEF FeedInv, WalkInv, Missed, WalkMissesAtMostWhatLeft
<1> QED
  BY <1>1, FeedInvariant, PTL

\* has_next never sends the client past the last page there can be, if there
\* can be a transfer at all: the first page is asked for in any case.
THEOREM PagesExist == ASSUME Keys # {} PROVE Spec => []TypeOK
<1>1. FeedInv => TypeOK
  <2>1. ASSUME FeedInv PROVE TypeOK
    <3>1. Loose /\ WalkInv /\ Configured
      BY <2>1, IsConfigured DEF FeedInv
    <3>2. Cardinality(Keys) \in Nat /\ Cardinality(Keys) # 0
      BY <3>1, FS_EmptySet, FS_CardinalityType DEF Configured
    <3>3. Cardinality(Gone) <= Cardinality(Keys) /\ Cardinality(Gone) \in Nat
      <4>1. Gone \in SUBSET Keys
        BY DEF Gone
      <4> QED
        BY <3>1, <4>1, FS_Subset, FS_CardinalityType DEF Configured
    <3>4. page \in 1 .. Cardinality(Keys) /\ left \in 0 .. Cardinality(Keys)
      BY <3>1, <3>2, <3>3 DEF Loose, WalkInv
    <3> QED
      BY <3>1, <3>4 DEF Loose, TypeOK
  <2> QED
    BY <2>1
<1> QED
  BY <1>1, FeedInvariant, PTL
=============================================================================
