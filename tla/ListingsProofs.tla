---------------------------- MODULE ListingsProofs ----------------------------
(***************************************************************************)
(* Proofs about the lists: that who reads one page by page, while rows     *)
(* come and go, finds what stays but for as many as left, and meets a row  *)
(* again only for one that came; and that an account's statement has its   *)
(* entries in the order of the transactions that followed one another.     *)
(***************************************************************************)
EXTENDS Listings, FiniteSetTheorems, TLAPS

\* What is known of the constants.
Configured ==
  /\ Keys \subseteq Nat \ {0} /\ IsFiniteSet(Keys)
  /\ PageSize \in Nat \ {0}
  /\ Mine \subseteq Keys
  /\ Lists \subseteq {"customer", "admin"} \X {"entries", "PENDING", "SETTLED", "FAILED"}

\* The assumption on the constants, under a name that can be left unexpanded.
LEMMA IsConfigured == Configured
BY ListingsAssumption DEF Configured

----------------------------------------------------------------------------
(* Ranks in a finite set of rows with an order.                            *)

\* R orders the rows B; the rank of a row is how many come before it.
Order(B, R) ==
  /\ IsFiniteSet(B)
  /\ \A x \in B : <<x, x>> \notin R
  /\ \A x, y \in B : x = y \/ <<x, y>> \in R \/ <<y, x>> \in R
  /\ \A x, y, z \in B : <<x, y>> \in R /\ <<y, z>> \in R => <<x, z>> \in R

Rank(B, R, x) == Cardinality({y \in B : <<y, x>> \in R})

\* Fewer rows are ordered as before.
LEMMA OrderOfFewer ==
  ASSUME NEW B, NEW R, Order(B, R), NEW C \in SUBSET B
  PROVE  Order(C, R)
BY FS_Subset DEF Order

\* A rank is less than the number of rows, and no two rows share one.
LEMMA Ranks ==
  ASSUME NEW B, NEW R, Order(B, R)
  PROVE  /\ Cardinality(B) \in Nat
         /\ \A x : Rank(B, R, x) \in Nat
         /\ \A x \in B : Rank(B, R, x) < Cardinality(B)
         /\ \A x, y \in B : Rank(B, R, x) = Rank(B, R, y) => x = y
<1>1. Cardinality(B) \in Nat
  BY FS_CardinalityType DEF Order
<1>2. ASSUME NEW x PROVE IsFiniteSet({y \in B : <<y, x>> \in R}) /\ Rank(B, R, x) \in Nat
  <2>1. IsFiniteSet({y \in B : <<y, x>> \in R})
    BY FS_Subset DEF Order
  <2> QED
    BY <2>1, FS_CardinalityType DEF Rank
<1>3. ASSUME NEW x \in B, NEW y \in B, <<x, y>> \in R PROVE Rank(B, R, x) < Rank(B, R, y)
  <2> DEFINE X == {z \in B : <<z, x>> \in R}
             Y == {z \in B : <<z, y>> \in R}
  <2>1. X \in SUBSET Y /\ x \in Y /\ x \notin X
    BY <1>3 DEF Order
  <2>2. IsFiniteSet(Y) /\ Cardinality(X) \in Nat /\ Cardinality(Y) \in Nat
    BY <1>2 DEF Rank
  <2>3. Cardinality(X) <= Cardinality(Y) /\ Cardinality(Y) # Cardinality(X)
    <3> HIDE DEF X, Y
    <3> QED
      BY <2>1, <2>2, FS_Subset
  <2> QED
    BY <2>2, <2>3 DEF Rank
<1>4. ASSUME NEW x \in B, NEW y \in B, Rank(B, R, x) = Rank(B, R, y) PROVE x = y
  <2>1. Rank(B, R, x) \in Nat /\ Rank(B, R, y) \in Nat
    BY <1>2
  <2>2. ~ Rank(B, R, x) < Rank(B, R, y) /\ ~ Rank(B, R, y) < Rank(B, R, x)
    BY <1>4, <2>1
  <2> QED
    BY <1>3, <2>2 DEF Order
<1>5. ASSUME NEW x \in B PROVE Rank(B, R, x) < Cardinality(B)
  <2> DEFINE X == {z \in B : <<z, x>> \in R}
  <2>1. X \in SUBSET B /\ x \notin X
    BY DEF Order
  <2>2. Cardinality(X) <= Cardinality(B) /\ Cardinality(X) # Cardinality(B)
    <3> HIDE DEF X
    <3> QED
      BY <2>1, FS_Subset DEF Order
  <2>3. Cardinality(X) \in Nat
    BY <1>2 DEF Rank
  <2> QED
    BY <1>1, <2>2, <2>3 DEF Rank
<1> QED
  BY <1>1, <1>2, <1>4, <1>5

\* Every rank up to the number of rows is taken.
LEMMA RanksTaken ==
  ASSUME NEW B, NEW R, Order(B, R), NEW n \in Nat, n < Cardinality(B)
  PROVE  \E x \in B : Rank(B, R, x) = n
<1> DEFINE f == [x \in B |-> Rank(B, R, x)]
           T == 0 .. Cardinality(B) - 1
<1>1. Cardinality(B) \in Nat /\ Cardinality(B) > 0
  BY Ranks
<1>2. IsFiniteSet(T) /\ Cardinality(T) = Cardinality(B)
  <2>1. PICK d \in Nat : Cardinality(B) = d + 1
    <3>1. Cardinality(B) - 1 \in Nat /\ Cardinality(B) = (Cardinality(B) - 1) + 1
      BY <1>1
    <3> QED
      BY <3>1
  <2>2. IsFiniteSet(0 .. d) /\ Cardinality(0 .. d) = d + 1
    <3>1. 0 \in Int /\ d \in Int /\ ~ 0 > d /\ d - 0 + 1 = d + 1
      OBVIOUS
    <3> QED
      BY <3>1, FS_Interval
  <2>3. Cardinality(B) - 1 = d
    BY <2>1
  <2> QED
    BY <2>1, <2>2, <2>3
<1>3. f \in Injection(B, T)
  <2>1. \A x \in B : Rank(B, R, x) \in T
    BY <1>1, Ranks
  <2> QED
    BY <2>1, Ranks DEF Injection, IsInjective
<1>4. f \in Surjection(B, T)
  <2> HIDE DEF f, T
  <2> QED
    BY <1>2, <1>3, FS_Injection
<1>5. n \in T
  BY <1>1
<1> QED
  BY <1>4, <1>5 DEF Surjection

\* A page that is not full is the last one.
LEMMA LastPage ==
  ASSUME NEW B, NEW R, Order(B, R), NEW o \in Nat, NEW n \in Nat \ {0},
         NEW P, P = {x \in B : Rank(B, R, x) \in o .. o + n - 1}, Cardinality(P) < n
  PROVE  \A x \in B : Rank(B, R, x) < o + n
<1> SUFFICES ASSUME NEW x \in B, ~ Rank(B, R, x) < o + n PROVE FALSE
  OBVIOUS
<1> DEFINE T == o .. o + n - 1
           f == [y \in P |-> Rank(B, R, y)]
<1>1. IsFiniteSet(P) /\ Cardinality(P) \in Nat
  <2>1. P \in SUBSET B
    OBVIOUS
  <2> QED
    BY <2>1, FS_Subset, FS_CardinalityType DEF Order
<1>2. Cardinality(B) \in Nat /\ Rank(B, R, x) \in Nat /\ Rank(B, R, x) < Cardinality(B)
  BY Ranks
<1>3. ASSUME NEW p \in T PROVE \E y \in P : Rank(B, R, y) = p
  <2>1. p \in Nat /\ p < Cardinality(B)
    BY <1>2
  <2>2. PICK y \in B : Rank(B, R, y) = p
    BY <2>1, RanksTaken
  <2> QED
    BY <2>2
<1>4. f \in Surjection(P, T)
  <2>1. \A y \in P : Rank(B, R, y) \in T
    OBVIOUS
  <2> QED
    BY <1>3, <2>1 DEF Surjection
<1>5. IsFiniteSet(T) /\ Cardinality(T) = n
  <2>1. o \in Int /\ o + n - 1 \in Int /\ ~ o > o + n - 1 /\ (o + n - 1) - o + 1 = n
    OBVIOUS
  <2> QED
    BY <2>1, FS_Interval
<1>6. n <= Cardinality(P)
  <2> HIDE DEF f, T
  <2> QED
    BY <1>1, <1>4, <1>5, FS_Surjection
<1> QED
  BY <1>1, <1>6

\* One row more moves the others back, and by one at most.
LEMMA OneMore ==
  ASSUME NEW B, NEW R, IsFiniteSet(B), NEW k, NEW x
  PROVE  /\ Rank(B \ {k}, R, x) \in Nat /\ Rank(B, R, x) \in Nat
         /\ Rank(B \ {k}, R, x) <= Rank(B, R, x)
         /\ Rank(B, R, x) <= Rank(B \ {k}, R, x) + 1
<1> DEFINE A == {y \in B \ {k} : <<y, x>> \in R}
           C == {y \in B : <<y, x>> \in R}
<1>1. IsFiniteSet(C) /\ IsFiniteSet(A)
  BY FS_Subset
<1>2. C \in SUBSET (A \cup {k}) /\ A \in SUBSET C
  OBVIOUS
<1>3. Rank(B, R, x) = Cardinality(C) /\ Rank(B \ {k}, R, x) = Cardinality(A)
  BY DEF Rank
<1> HIDE DEF A, C
<1>4. Cardinality(A) \in Nat /\ Cardinality(C) \in Nat /\ Cardinality(A) <= Cardinality(C)
  BY <1>1, <1>2, FS_Subset, FS_CardinalityType
<1>5. /\ IsFiniteSet(A \cup {k})
      /\ Cardinality(A \cup {k}) = IF k \in A THEN Cardinality(A) ELSE Cardinality(A) + 1
  BY <1>1, FS_AddElement
<1>6. Cardinality(C) <= Cardinality(A \cup {k})
  BY <1>2, <1>5, FS_Subset
<1> QED
  BY <1>3, <1>4, <1>5, <1>6

\* Of the rows U those ranked before o, and of the rows S those that are not.
Before(B, R, U, o) == {x \in U \cap B : Rank(B, R, x) < o}
After(B, R, S, o) == {x \in S \cap B : ~ Rank(B, R, x) < o}

\* Both are finite.
LEMMA Sides ==
  ASSUME NEW B, NEW R, IsFiniteSet(B), NEW U, NEW o
  PROVE  /\ IsFiniteSet(Before(B, R, U, o)) /\ Cardinality(Before(B, R, U, o)) \in Nat
         /\ IsFiniteSet(After(B, R, U, o)) /\ Cardinality(After(B, R, U, o)) \in Nat
<1>1. Before(B, R, U, o) \in SUBSET B /\ After(B, R, U, o) \in SUBSET B
  BY DEF Before, After
<1> QED
  BY <1>1, FS_Subset, FS_CardinalityType

\* A set of which all are in a finite one, but for one, is no larger by more.
LEMMA ButOne ==
  ASSUME NEW P, NEW Q, IsFiniteSet(P), \E m : Q \in SUBSET (P \cup {m})
  PROVE  IsFiniteSet(Q) /\ Cardinality(Q) <= Cardinality(P) + 1
<1>1. PICK m : Q \in SUBSET (P \cup {m})
  OBVIOUS
<1>2. /\ IsFiniteSet(P \cup {m}) /\ Cardinality(P) \in Nat
      /\ Cardinality(P \cup {m}) = IF m \in P THEN Cardinality(P) ELSE Cardinality(P) + 1
  BY FS_AddElement, FS_CardinalityType
<1>3. IsFiniteSet(Q) /\ Cardinality(Q) <= Cardinality(P \cup {m}) /\ Cardinality(Q) \in Nat
  BY <1>1, <1>2, FS_Subset, FS_CardinalityType
<1> QED
  BY <1>2, <1>3

\* When a row leaves, one more comes before the border at most, and none behind.
LEMMA WhenOneLeaves ==
  ASSUME NEW B, NEW R, Order(B, R), NEW k, NEW U, NEW S, NEW o \in Nat
  PROVE  /\ Cardinality(Before(B \ {k}, R, U \ {k}, o)) <= Cardinality(Before(B, R, U, o)) + 1
         /\ Cardinality(After(B \ {k}, R, S, o)) <= Cardinality(After(B, R, S, o))
<1>1. IsFiniteSet(B)
  BY DEF Order
<1>2. \A x : Rank(B \ {k}, R, x) \in Nat /\ Rank(B, R, x) \in Nat
             /\ Rank(B \ {k}, R, x) <= Rank(B, R, x) /\ Rank(B, R, x) <= Rank(B \ {k}, R, x) + 1
  BY <1>1, OneMore
<1>3. ASSUME NEW x \in Before(B \ {k}, R, U \ {k}, o)
      PROVE  x \in B /\ (x \in Before(B, R, U, o) \/ Rank(B, R, x) = o)
  BY <1>2 DEF Before
<1>4. \E m : Before(B \ {k}, R, U \ {k}, o) \in SUBSET (Before(B, R, U, o) \cup {m})
  <2>1. CASE \E m \in B : Rank(B, R, m) = o
    <3>1. PICK m \in B : Rank(B, R, m) = o
      BY <2>1
    <3>2. \A x \in Before(B \ {k}, R, U \ {k}, o) : x \in Before(B, R, U, o) \/ x = m
      BY <1>3, <3>1, Ranks
    <3> QED
      BY <3>2
  <2>2. CASE ~ \E m \in B : Rank(B, R, m) = o
    <3>1. \A x \in Before(B \ {k}, R, U \ {k}, o) : x \in Before(B, R, U, o)
      BY <1>3, <2>2
    <3> QED
      BY <3>1
  <2> QED
    BY <2>1, <2>2
<1>5. After(B \ {k}, R, S, o) \in SUBSET After(B, R, S, o)
  BY <1>2 DEF After
<1>6. IsFiniteSet(Before(B, R, U, o)) /\ IsFiniteSet(After(B, R, S, o))
  BY <1>1, Sides
<1> QED
  BY <1>4, <1>5, <1>6, ButOne, FS_Subset

\* When a row comes that is not one of S, one more of S goes behind the border
\* at most, and none before it.
LEMMA WhenOneComes ==
  ASSUME NEW B, NEW R, Order(B, R), NEW k, NEW U, NEW S, NEW o \in Nat, k \notin S, k \notin U
  PROVE  /\ Cardinality(Before(B, R, U, o)) <= Cardinality(Before(B \ {k}, R, U, o))
         /\ Cardinality(After(B, R, S, o)) <= Cardinality(After(B \ {k}, R, S, o)) + 1
<1>1. IsFiniteSet(B) /\ IsFiniteSet(B \ {k}) /\ Order(B \ {k}, R)
  BY OrderOfFewer, FS_Subset DEF Order
<1>2. \A x : Rank(B \ {k}, R, x) \in Nat /\ Rank(B, R, x) \in Nat
             /\ Rank(B \ {k}, R, x) <= Rank(B, R, x) /\ Rank(B, R, x) <= Rank(B \ {k}, R, x) + 1
  BY <1>1, OneMore
<1>3. ASSUME NEW x \in After(B, R, S, o)
      PROVE  x \in B /\ (x \in After(B \ {k}, R, S, o) \/ Rank(B, R, x) = o)
  BY <1>2 DEF After
<1>4. \E m : After(B, R, S, o) \in SUBSET (After(B \ {k}, R, S, o) \cup {m})
  <2>1. CASE \E m \in B : Rank(B, R, m) = o
    <3>1. PICK m \in B : Rank(B, R, m) = o
      BY <2>1
    <3>2. \A x \in After(B, R, S, o) : x \in After(B \ {k}, R, S, o) \/ x = m
      BY <1>3, <3>1, Ranks
    <3> QED
      BY <3>2
  <2>2. CASE ~ \E m \in B : Rank(B, R, m) = o
    <3>1. \A x \in After(B, R, S, o) : x \in After(B \ {k}, R, S, o)
      BY <1>3, <2>2
    <3> QED
      BY <3>1
  <2> QED
    BY <2>1, <2>2
<1>5. Before(B, R, U, o) \in SUBSET Before(B \ {k}, R, U, o)
  BY <1>2 DEF Before
<1>6. IsFiniteSet(Before(B \ {k}, R, U, o)) /\ IsFiniteSet(After(B \ {k}, R, S, o))
  BY <1>1, Sides
<1> QED
  BY <1>4, <1>5, <1>6, ButOne, FS_Subset

----------------------------------------------------------------------------
(* The invariant.                                                          *)

States == {"none", "PENDING", "SETTLED", "FAILED"}
Ids == Keys \cup {-k : k \in Keys}

Types ==
  /\ clock \in Nat
  /\ created \in [Keys -> Nat]
  /\ status \in [Keys -> States]
  /\ tx \in [Keys -> [at : {"none", "open", "read"}, began : Nat, version : Nat]]
  /\ ledger \in Seq([id : Ids, created : Nat, committed : Nat])

WalkTypes ==
  walk \in [list : Lists \cup {NoList}, page : Nat \ {0}, seen : SUBSET Ids,
            missing : SUBSET Ids, left : Nat, arrived : Nat, repeated : Nat]

\* An id is entered once; a booking that still has the version it read has not
\* been entered, and a transfer that was reversed is FAILED.
LedgerInv ==
  /\ \A i, j \in DOMAIN ledger : ledger[i].id = ledger[j].id => i = j
  /\ \A i \in DOMAIN ledger : ledger[i].created <= ledger[i].committed
  /\ \A k \in Keys : -k \in EntryIds => status[k] = "FAILED"

TxInv(k) ==
  /\ status[k] # "none" => created[k] > 0
  /\ tx[k].began <= clock /\ tx[k].version <= Len(ledger)
  /\ tx[k].at # "none" => status[k] = "PENDING"
  /\ tx[k].at = "read" /\ tx[k].version = Len(ledger) => ~Booked(k)

\* The rows a list has or has had, none of which comes to it again.
Been(list) ==
  IF list[2] = "PENDING" THEN {k \in Visible(list[1]) : status[k] # "none"} ELSE Rows(list)

\* The order of the list, as a set of pairs.
Sorted(list) == {p \in Rows(list) \X Rows(list) : Above(list, p[1], p[2])}

\* The rows before the page that is asked for next.
Border == (walk.page - 1) * PageSize
PassedOver == Before(Rows(walk.list), Sorted(walk.list), walk.missing, Border)
SeenBehind == After(Rows(walk.list), Sorted(walk.list), walk.seen, Border)

\* A walk has passed over no more than left, and what it met again and will yet
\* meet again is no more than came.
WalkInv ==
  /\ walk.list = NoList =>
       Cardinality(walk.missing) <= walk.left /\ walk.repeated <= walk.arrived
  /\ walk.list # NoList =>
       /\ walk.missing \subseteq Rows(walk.list) /\ walk.seen \subseteq Been(walk.list)
       /\ Cardinality(PassedOver) <= walk.left
       /\ walk.repeated + Cardinality(SeenBehind) <= walk.arrived

BooksInv == Types /\ LedgerInv /\ \A k \in Keys : TxInv(k)
ListInv == BooksInv /\ WalkTypes /\ WalkInv

----------------------------------------------------------------------------
(* The bank's own steps.                                                   *)

BankStep(k) ==
  \/ ClaimBegins(k) \/ Claim(k) \/ Begin(k) \/ Read(k)
  \/ Book(k) \/ Reverse(k) \/ Rollback(k) \/ End(k)

\* The fields of what a transaction is.
LEMMA NoTxIs == NoTx.at = "none" /\ NoTx.began = 0 /\ NoTx.version = 0
                /\ NoTx \in [at : {"none", "open", "read"}, began : Nat, version : Nat]
BY DEF NoTx

\* A step that enters nothing keeps the books.
LEMMA QuietBooks ==
  ASSUME Configured, BooksInv, NEW k \in Keys,
         ClaimBegins(k) \/ Claim(k) \/ Begin(k) \/ Read(k) \/ Rollback(k) \/ End(k)
  PROVE  BooksInv'
<1> DEFINE TxSet == [at : {"none", "open", "read"}, began : Nat, version : Nat]
<1>1. ledger' = ledger /\ clock' = clock
  BY DEF ClaimBegins, Claim, Begin, Read, Rollback, End
<1>2. Len(ledger) \in Nat /\ EntryIds' = EntryIds /\ (\A j \in Keys : Booked(j)' <=> Booked(j))
  BY <1>1 DEF BooksInv, Types, EntryIds, Booked
<1>3. /\ created' \in [Keys -> Nat]
      /\ \A j \in Keys : created[j] > 0 => created'[j] > 0
  <2>1. CASE ClaimBegins(k)
    BY <2>1 DEF BooksInv, Types, ClaimBegins
  <2>2. CASE created' = created
    BY <2>2 DEF BooksInv, Types
  <2> QED
    BY <2>1, <2>2 DEF Claim, Begin, Read, Rollback, End
<1>4. /\ status' \in [Keys -> States]
      /\ \A j \in Keys : status[j] = "FAILED" => status'[j] = "FAILED"
      /\ \A j \in Keys : j # k => status'[j] = status[j]
      /\ status'[k] # "none" => created[k] > 0
  <2>1. CASE Claim(k)
    BY <2>1 DEF BooksInv, Types, TxInv, Claim, States
  <2>2. CASE End(k)
    BY <2>2 DEF BooksInv, Types, TxInv, End, States
  <2>3. CASE status' = status
    BY <2>3 DEF BooksInv, Types, TxInv
  <2> QED
    BY <2>1, <2>2, <2>3 DEF ClaimBegins, Begin, Read, Rollback
<1>5. /\ tx' \in [Keys -> TxSet]
      /\ \A j \in Keys : j # k => tx'[j] = tx[j]
      /\ tx'[k].began <= clock /\ tx'[k].version <= Len(ledger)
      /\ tx'[k].at # "none" => status'[k] = "PENDING"
      /\ tx'[k].at = "read" /\ tx'[k].version = Len(ledger) => ~Booked(k)
  <2>1. CASE Begin(k)
    <3>1. PICK slot \in TxSet : /\ slot.at = "open" /\ slot.began = clock /\ slot.version = 0
                                /\ tx' = [tx EXCEPT ![k] = slot]
      <4>1. [at |-> "open", began |-> clock, version |-> 0] \in TxSet
        BY DEF BooksInv, Types
      <4> QED
        BY <2>1, <4>1 DEF Begin
    <3>2. tx'[k] = slot /\ \A j \in Keys : j # k => tx'[j] = tx[j]
      BY <3>1 DEF BooksInv, Types
    <3>3. tx' \in [Keys -> TxSet]
      BY <3>1 DEF BooksInv, Types
    <3>4. status'[k] = "PENDING" /\ clock \in Nat
      BY <2>1 DEF Begin, BooksInv, Types
    <3> QED
      BY <1>2, <3>1, <3>2, <3>3, <3>4
  <2>2. CASE Read(k)
    <3>1. PICK slot : slot = [tx[k] EXCEPT !.at = "read", !.version = Len(ledger)]
      OBVIOUS
    <3>2. tx[k] \in TxSet /\ tx[k].began <= clock /\ tx[k].at = "open"
      BY <2>2 DEF Read, BooksInv, Types, TxInv
    <3>3. /\ slot \in TxSet /\ slot.at = "read" /\ slot.began = tx[k].began
          /\ slot.version = Len(ledger)
      BY <1>2, <3>1, <3>2
    <3>4. tx' = [tx EXCEPT ![k] = slot]
      BY <2>2, <3>1 DEF Read, BooksInv, Types
    <3>5. tx'[k] = slot /\ (\A j \in Keys : j # k => tx'[j] = tx[j]) /\ tx' \in [Keys -> TxSet]
      BY <3>3, <3>4 DEF BooksInv, Types
    <3>6. ~Booked(k) /\ status'[k] = "PENDING"
      BY <2>2, <3>2 DEF Read, BooksInv, TxInv
    <3> QED
      BY <1>2, <3>2, <3>3, <3>5, <3>6
  <2>3. CASE Rollback(k)
    <3>1. tx'[k] = NoTx /\ (\A j \in Keys : j # k => tx'[j] = tx[j]) /\ tx' \in [Keys -> TxSet]
      BY <2>3, NoTxIs DEF Rollback, BooksInv, Types
    <3> QED
      BY <1>2, <3>1, NoTxIs DEF BooksInv, Types
  <2>4. CASE ClaimBegins(k) \/ Claim(k) \/ End(k)
    <3>1. tx' = tx /\ (tx[k].at # "none" => status'[k] = "PENDING")
      BY <2>4, NoTxIs DEF ClaimBegins, Claim, End, BooksInv, TxInv
    <3> QED
      BY <1>2, <3>1 DEF BooksInv, Types, TxInv
  <2> QED
    BY <2>1, <2>2, <2>3, <2>4
<1>6. Types'
  BY <1>1, <1>3, <1>4, <1>5 DEF BooksInv, Types
<1>7. LedgerInv'
  BY <1>1, <1>2, <1>4 DEF BooksInv, LedgerInv
<1>8. ASSUME NEW j \in Keys PROVE TxInv(j)'
  <2>1. CASE j = k
    BY <1>1, <1>2, <1>3, <1>4, <1>5, <2>1 DEF TxInv
  <2>2. CASE j # k
    BY <1>1, <1>2, <1>3, <1>4, <1>5, <2>2 DEF BooksInv, TxInv
  <2> QED
    BY <2>1, <2>2
<1> QED
  BY <1>6, <1>7, <1>8 DEF BooksInv

\* What an entry does to the account's.
LEMMA Entering ==
  ASSUME BooksInv, NEW e \in [id : Ids, created : Nat, committed : Nat],
         ledger' = Append(ledger, e), e.id \notin EntryIds
  PROVE  /\ Len(ledger) \in Nat /\ Len(ledger') = Len(ledger) + 1
         /\ \A i \in DOMAIN ledger : i \in DOMAIN ledger' /\ ledger'[i] = ledger[i]
         /\ Len(ledger) + 1 \in DOMAIN ledger' /\ ledger'[Len(ledger) + 1] = e
         /\ \A i \in DOMAIN ledger' : i \in DOMAIN ledger \/ i = Len(ledger) + 1
         /\ EntryIds' = EntryIds \cup {e.id}
         /\ \A i, j \in DOMAIN ledger' : ledger'[i].id = ledger'[j].id => i = j
<1>1. ledger \in Seq([id : Ids, created : Nat, committed : Nat])
  BY DEF BooksInv, Types
<1>2. /\ Len(ledger) \in Nat /\ Len(ledger') = Len(ledger) + 1
      /\ \A i \in DOMAIN ledger : i \in DOMAIN ledger' /\ ledger'[i] = ledger[i]
      /\ Len(ledger) + 1 \in DOMAIN ledger' /\ ledger'[Len(ledger) + 1] = e
      /\ \A i \in DOMAIN ledger' : i \in DOMAIN ledger \/ i = Len(ledger) + 1
  BY <1>1
<1>3. EntryIds' = EntryIds \cup {e.id}
  BY <1>2 DEF EntryIds
<1>4. \A i \in DOMAIN ledger : ledger[i].id # e.id
  BY DEF EntryIds
<1>5. ASSUME NEW i \in DOMAIN ledger', NEW j \in DOMAIN ledger', ledger'[i].id = ledger'[j].id
      PROVE  i = j
  BY <1>2, <1>4, <1>5 DEF BooksInv, LedgerInv
<1> QED
  BY <1>2, <1>3, <1>5

\* What Book and Reverse enter: an id that is not there yet.
LEMMA EnteredIs ==
  ASSUME Configured, BooksInv, NEW k \in Keys, Book(k) \/ Reverse(k)
  PROVE  \E e \in [id : Ids, created : Nat, committed : Nat] :
           /\ e.id \in {k, -k} /\ e.id \notin EntryIds
           /\ e.created <= e.committed /\ e.created = tx[k].began
           /\ ledger' = Append(ledger, e)
           /\ status[k] = "PENDING" /\ clock' = clock + 1 /\ created' = created
           /\ tx' = [tx EXCEPT ![k] = NoTx]
           /\ \E x \in {"PENDING", "SETTLED", "FAILED"} :
                status' = [status EXCEPT ![k] = x] /\ (e.id = -k => x = "FAILED")
<1>1. tx[k].at # "none" /\ status[k] = "PENDING" /\ tx[k].began <= clock
  BY DEF Book, Reverse, BooksInv, TxInv
<1>2. k \in Nat /\ k # 0
  BY DEF Configured
<1>3. tx[k].began \in Nat /\ clock \in Nat
  BY DEF BooksInv, Types
<1>4. ASSUME NEW id \in {k, -k}, id \notin EntryIds, NEW X \in SUBSET {"PENDING", "SETTLED", "FAILED"},
             id = -k => X = {"FAILED"}, Enter(k, id, X)
      PROVE  \E e \in [id : Ids, created : Nat, committed : Nat] :
               /\ e.id \in {k, -k} /\ e.id \notin EntryIds
               /\ e.created <= e.committed /\ e.created = tx[k].began
               /\ ledger' = Append(ledger, e)
               /\ status[k] = "PENDING" /\ clock' = clock + 1 /\ created' = created
               /\ tx' = [tx EXCEPT ![k] = NoTx]
               /\ \E x \in {"PENDING", "SETTLED", "FAILED"} :
                    status' = [status EXCEPT ![k] = x] /\ (e.id = -k => x = "FAILED")
  <2>1. PICK e : e = [id |-> id, created |-> tx[k].began, committed |-> clock]
    OBVIOUS
  <2>2. id \in Ids
    BY DEF Ids
  <2>3. /\ e \in [id : Ids, created : Nat, committed : Nat] /\ e.id = id
        /\ e.created = tx[k].began /\ e.committed = clock
    BY <1>3, <2>1, <2>2
  <2>4. PICK x \in X : status' = [status EXCEPT ![k] = x]
    BY <1>4 DEF Enter
  <2>5. x \in {"PENDING", "SETTLED", "FAILED"} /\ (e.id = -k => x = "FAILED")
    BY <1>4, <2>3, <2>4
  <2>6. ledger' = Append(ledger, e) /\ clock' = clock + 1 /\ created' = created
        /\ tx' = [tx EXCEPT ![k] = NoTx]
    BY <1>4, <2>1 DEF Enter
  <2> QED
    BY <1>1, <1>4, <2>3, <2>4, <2>5, <2>6
<1>5. CASE Book(k)
  <2>1. k \notin EntryIds
    BY <1>5 DEF Book, BooksInv, TxInv, Booked
  <2>2. k # -k
    BY <1>2
  <2> QED
    BY <1>4, <1>5, <2>1, <2>2 DEF Book
<1>6. CASE Reverse(k)
  <2>1. -k \notin EntryIds
    BY <1>1 DEF BooksInv, LedgerInv
  <2> QED
    BY <1>4, <1>6, <2>1 DEF Reverse
<1> QED
  BY <1>5, <1>6

\* An entry keeps the books.
LEMMA EntryBooks ==
  ASSUME Configured, BooksInv, NEW k \in Keys, Book(k) \/ Reverse(k)
  PROVE  BooksInv'
<1> DEFINE TxSet == [at : {"none", "open", "read"}, began : Nat, version : Nat]
<1>1. PICK e \in [id : Ids, created : Nat, committed : Nat] :
        /\ e.id \in {k, -k} /\ e.id \notin EntryIds
        /\ e.created <= e.committed
        /\ ledger' = Append(ledger, e)
        /\ status[k] = "PENDING" /\ clock' = clock + 1 /\ created' = created
        /\ tx' = [tx EXCEPT ![k] = NoTx]
        /\ \E x \in {"PENDING", "SETTLED", "FAILED"} :
             status' = [status EXCEPT ![k] = x] /\ (e.id = -k => x = "FAILED")
  BY EnteredIs
<1>2. PICK x \in {"PENDING", "SETTLED", "FAILED"} :
        status' = [status EXCEPT ![k] = x] /\ (e.id = -k => x = "FAILED")
  BY <1>1
<1>3. /\ Len(ledger) \in Nat /\ Len(ledger') = Len(ledger) + 1
      /\ \A i \in DOMAIN ledger : i \in DOMAIN ledger' /\ ledger'[i] = ledger[i]
      /\ ledger'[Len(ledger) + 1] = e
      /\ \A i \in DOMAIN ledger' : i \in DOMAIN ledger \/ i = Len(ledger) + 1
      /\ EntryIds' = EntryIds \cup {e.id}
      /\ \A i, j \in DOMAIN ledger' : ledger'[i].id = ledger'[j].id => i = j
  BY <1>1, Entering
<1>4. ledger' \in Seq([id : Ids, created : Nat, committed : Nat])
  BY <1>1 DEF BooksInv, Types
<1>5. status' \in [Keys -> States] /\ status'[k] = x /\ \A j \in Keys : j # k => status'[j] = status[j]
  BY <1>2 DEF BooksInv, Types, States
<1>6. tx' \in [Keys -> TxSet] /\ tx'[k] = NoTx /\ \A j \in Keys : j # k => tx'[j] = tx[j]
  BY <1>1, NoTxIs DEF BooksInv, Types
<1>7. Types'
  BY <1>1, <1>4, <1>5, <1>6 DEF BooksInv, Types
<1>8. \A j \in Keys : j \in Nat /\ j # 0
  BY DEF Configured
<1>9. ASSUME NEW j \in Keys, -j \in EntryIds' PROVE status'[j] = "FAILED"
  <2>1. CASE -j \in EntryIds
    <3>1. status[j] = "FAILED"
      BY <2>1 DEF BooksInv, LedgerInv
    <3> QED
      BY <1>1, <1>5, <3>1
  <2>2. CASE -j = e.id
    <3>1. e.id = -k /\ j = k
      BY <1>1, <1>8, <2>2
    <3> QED
      BY <1>2, <1>5, <3>1
  <2> QED
    BY <1>3, <1>9, <2>1, <2>2
<1>10. ASSUME NEW i \in DOMAIN ledger' PROVE ledger'[i].created <= ledger'[i].committed
  BY <1>1, <1>3 DEF BooksInv, LedgerInv
<1>11. LedgerInv'
  BY <1>3, <1>9, <1>10 DEF LedgerInv
<1>12. ASSUME NEW j \in Keys PROVE TxInv(j)'
  <2>1. CASE j = k
    <3>1. created'[k] > 0
      BY <1>1 DEF BooksInv, TxInv
    <3>2. tx'[k].began <= clock' /\ tx'[k].version <= Len(ledger') /\ tx'[k].at = "none"
      BY <1>1, <1>3, <1>6, NoTxIs DEF BooksInv, Types
    <3> QED
      BY <2>1, <3>1, <3>2 DEF TxInv
  <2>2. CASE j # k
    <3>1. TxInv(j) /\ tx[j].began \in Nat /\ tx[j].version \in Nat /\ clock \in Nat
      BY DEF BooksInv, Types
    <3>2. tx'[j].began <= clock' /\ tx'[j].version < Len(ledger')
      BY <1>1, <1>3, <1>6, <2>2, <3>1 DEF TxInv
    <3> QED
      BY <1>1, <1>3, <1>5, <1>6, <2>2, <3>1, <3>2 DEF TxInv
  <2> QED
    BY <2>1, <2>2
<1> QED
  BY <1>7, <1>11, <1>12 DEF BooksInv

\* The bank keeps its books.
LEMMA BankKeepsBooks ==
  ASSUME Configured, BooksInv, NEW k \in Keys, BankStep(k)
  PROVE  BooksInv'
BY QuietBooks, EntryBooks DEF BankStep

----------------------------------------------------------------------------
(* The lists.                                                              *)

\* The ids are finite in number.
LEMMA IdsFinite == ASSUME Configured PROVE IsFiniteSet(Ids)
<1> DEFINE N == {-k : k \in Keys}
           f == [k \in Keys |-> -k]
<1>1. f \in Surjection(Keys, N)
  BY DEF Surjection
<1>2. IsFiniteSet(N)
  <2> HIDE DEF f, N
  <2> QED
    BY <1>1, FS_Surjection DEF Configured
<1> QED
  BY <1>2, FS_Union DEF Ids, Configured

\* An entry is found by its id.
LEMMA EntryFacts ==
  ASSUME BooksInv
  PROVE  /\ \A x \in EntryIds : EntryOf(x) \in DOMAIN ledger /\ ledger[EntryOf(x)].id = x
         /\ \A i \in DOMAIN ledger : ledger[i].id \in EntryIds /\ EntryOf(ledger[i].id) = i
         /\ EntryIds \subseteq Ids
         /\ \A i \in DOMAIN ledger :
              ledger[i] \in [id : Ids, created : Nat, committed : Nat]
<1>1. ASSUME NEW x \in EntryIds
      PROVE  EntryOf(x) \in DOMAIN ledger /\ ledger[EntryOf(x)].id = x
  <2>1. \E i \in DOMAIN ledger : ledger[i].id = x
    BY DEF EntryIds
  <2> QED
    BY <2>1 DEF EntryOf
<1>2. ASSUME NEW i \in DOMAIN ledger
      PROVE  ledger[i].id \in EntryIds /\ EntryOf(ledger[i].id) = i
  <2>1. ledger[i].id \in EntryIds
    BY DEF EntryIds
  <2> QED
    BY <1>1, <2>1 DEF BooksInv, LedgerInv
<1>3. \A i \in DOMAIN ledger : ledger[i] \in [id : Ids, created : Nat, committed : Nat]
  <2> DEFINE E == [id : Ids, created : Nat, committed : Nat]
  <2>1. ledger \in Seq(E)
    BY DEF BooksInv, Types
  <2> HIDE DEF E
  <2>2. \A i \in DOMAIN ledger : ledger[i] \in E
    BY <2>1
  <2> QED
    BY <2>2 DEF E
<1>4. EntryIds \subseteq Ids
  BY <1>3 DEF EntryIds
<1> QED
  BY <1>1, <1>2, <1>3, <1>4

\* When the row x of a list was created.
At(list, x) == IF IsStatement(list) THEN ledger[EntryOf(x)].created ELSE created[x]

\* The rows of a list are ids, with times at which they were created.
LEMMA RowTimes ==
  ASSUME Configured, BooksInv, NEW list
  PROVE  /\ Rows(list) \subseteq Ids /\ IsFiniteSet(Rows(list))
         /\ \A x \in Rows(list) : At(list, x) \in Nat /\ x \in Int
         /\ \A x, y : Earlier(list, x, y) <=>
              At(list, x) < At(list, y) \/ (At(list, x) = At(list, y) /\ x < y)
<1>1. Visible(list[1]) \subseteq Keys /\ Keys \subseteq Ids
  BY DEF Visible, Configured, Ids
<1>2. Rows(list) \in SUBSET Ids
  BY <1>1, EntryFacts DEF Rows
<1>3. IsFiniteSet(Rows(list))
  BY <1>2, IdsFinite, FS_Subset
<1>4. ASSUME NEW x \in Rows(list) PROVE At(list, x) \in Nat
  <2>1. CASE IsStatement(list)
    <3>1. x \in EntryIds
      BY <2>1 DEF Rows
    <3>2. PICK i \in DOMAIN ledger : i = EntryOf(x)
      BY <3>1, EntryFacts
    <3>3. ledger[i] \in [id : Ids, created : Nat, committed : Nat]
      BY EntryFacts
    <3> QED
      BY <2>1, <3>2, <3>3 DEF At
  <2>2. CASE ~IsStatement(list)
    <3>1. x \in Keys
      BY <1>1, <2>2 DEF Rows
    <3> QED
      BY <2>2, <3>1 DEF At, BooksInv, Types
  <2> QED
    BY <2>1, <2>2
<1>5. \A x \in Ids : x \in Int
  BY DEF Ids, Configured
<1>6. \A x, y : Earlier(list, x, y) <=>
        At(list, x) < At(list, y) \/ (At(list, x) = At(list, y) /\ x < y)
  BY DEF Earlier, At
<1> QED
  BY <1>2, <1>3, <1>4, <1>5, <1>6

\* A list has an order, and Position counts from 1 in it.
LEMMA ListOrder ==
  ASSUME Configured, BooksInv, NEW list
  PROVE  /\ Order(Rows(list), Sorted(list))
         /\ \A x \in Rows(list) : Position(list, x) = 1 + Rank(Rows(list), Sorted(list), x)
<1> DEFINE B == Rows(list)
<1>1. \A x \in B : At(list, x) \in Nat /\ x \in Int
  BY RowTimes
<1>2. \A x, y \in B : <<x, y>> \in Sorted(list) <=> Above(list, x, y)
  BY DEF Sorted
<1>3. \/ \A x, y : Above(list, x, y) <=> Earlier(list, y, x)
      \/ \A x, y : Above(list, x, y) <=> Earlier(list, x, y)
  BY DEF Above
<1>4. \A x, y : Earlier(list, x, y) <=>
        At(list, x) < At(list, y) \/ (At(list, x) = At(list, y) /\ x < y)
  BY RowTimes
<1>5. \A x \in B : ~Above(list, x, x)
  BY <1>1, <1>3, <1>4
<1>6. \A x, y \in B : x = y \/ Above(list, x, y) \/ Above(list, y, x)
  BY <1>1, <1>3, <1>4
<1>7. \A x, y, z \in B : Earlier(list, x, y) /\ Earlier(list, y, z) => Earlier(list, x, z)
  BY <1>1, <1>4
<1>8. \A x, y, z \in B : Above(list, x, y) /\ Above(list, y, z) => Above(list, x, z)
  BY <1>3, <1>7
<1>9. Order(B, Sorted(list))
  <2>1. IsFiniteSet(B)
    BY RowTimes
  <2> HIDE DEF B
  <2> QED
    BY <1>2, <1>5, <1>6, <1>8, <2>1 DEF Order
<1>10. ASSUME NEW x \in B PROVE Position(list, x) = 1 + Rank(B, Sorted(list), x)
  <2>1. {y \in B : Above(list, y, x)} = {y \in B : <<y, x>> \in Sorted(list)}
    BY <1>2
  <2> QED
    BY <2>1 DEF Position, Rank
<1> QED
  BY <1>9, <1>10

\* Each list that may be asked for is ordered, and Position counts from 1.
ListsOrdered ==
  \A list \in Lists :
    /\ Order(Rows(list), Sorted(list))
    /\ \A x \in Rows(list) : Position(list, x) = 1 + Rank(Rows(list), Sorted(list), x)

\* What a step of the bank may do to a list: a row comes that was never there,
\* or one goes, and the others keep their order.
Changes(list) ==
  /\ \A x, y \in Rows(list) \cap Rows(list)' : Above(list, x, y)' <=> Above(list, x, y)
  /\ Been(list) \subseteq Been(list)' /\ Rows(list) \subseteq Been(list)
  /\ \/ Rows(list)' = Rows(list)
     \/ \E x \in Ids : x \notin Been(list) /\ Rows(list)' = Rows(list) \cup {x}
     \/ \E x \in Rows(list) : Rows(list)' = Rows(list) \ {x}

\* What a step does to rows and statuses.
LEMMA StatusMoves ==
  ASSUME Configured, BooksInv, NEW k \in Keys, BankStep(k)
  PROVE  /\ \A j \in Keys : j # k => status'[j] = status[j]
         /\ \/ status'[k] = status[k]
            \/ status[k] = "none" /\ status'[k] = "PENDING"
            \/ status[k] = "PENDING" /\ status'[k] \in {"SETTLED", "FAILED"}
         /\ \A j \in Keys : status[j] # "none" => created'[j] = created[j]
         /\ \/ ledger' = ledger
            \/ \E e \in [id : Ids, created : Nat, committed : Nat] :
                 e.id \notin EntryIds /\ ledger' = Append(ledger, e)
<1>1. CASE Book(k) \/ Reverse(k)
  <2>1. PICK e \in [id : Ids, created : Nat, committed : Nat] :
          /\ e.id \notin EntryIds /\ ledger' = Append(ledger, e)
          /\ status[k] = "PENDING" /\ created' = created
          /\ \E x \in {"PENDING", "SETTLED", "FAILED"} : status' = [status EXCEPT ![k] = x]
    BY <1>1, EnteredIs
  <2>2. PICK x \in {"PENDING", "SETTLED", "FAILED"} : status' = [status EXCEPT ![k] = x]
    BY <2>1
  <2>3. status'[k] = x /\ \A j \in Keys : j # k => status'[j] = status[j]
    BY <2>2 DEF BooksInv, Types
  <2> QED
    BY <2>1, <2>3
<1>2. CASE ClaimBegins(k)
  <2>1. status' = status /\ ledger' = ledger /\ created[k] = 0 /\ status[k] = "none"
    BY <1>2 DEF ClaimBegins, BooksInv, TxInv
  <2>2. \A j \in Keys : j # k => created'[j] = created[j]
    BY <1>2 DEF ClaimBegins, BooksInv, Types
  <2> QED
    BY <2>1, <2>2
<1>3. CASE Claim(k)
  BY <1>3 DEF Claim, BooksInv, Types
<1>4. CASE End(k)
  BY <1>4 DEF End, BooksInv, Types
<1>5. CASE Begin(k) \/ Read(k) \/ Rollback(k)
  BY <1>5 DEF Begin, Read, Rollback
<1> QED
  BY <1>1, <1>2, <1>3, <1>4, <1>5 DEF BankStep

\* So the statement only grows, by one entry, in the order of the entries'
\* transactions.
LEMMA StatementChanges ==
  ASSUME Configured, BooksInv, BooksInv', NEW k \in Keys, BankStep(k),
         NEW list, IsStatement(list)
  PROVE  Changes(list)
<1>1. Rows(list) = EntryIds /\ Rows(list)' = EntryIds' /\ Been(list) = EntryIds /\ Been(list)' = EntryIds'
  BY DEF Rows, Been, IsStatement
<1>2. CASE ledger' = ledger
  <2>1. EntryIds' = EntryIds /\ \A x : EntryOf(x)' = EntryOf(x)
    BY <1>2 DEF EntryIds, EntryOf
  <2>2. \A x, y : Above(list, x, y)' <=> Above(list, x, y)
    BY <1>2, <2>1 DEF Above, Earlier
  <2> QED
    BY <1>1, <2>1, <2>2 DEF Changes
<1>3. CASE \E e \in [id : Ids, created : Nat, committed : Nat] :
             e.id \notin EntryIds /\ ledger' = Append(ledger, e)
  <2>1. PICK e \in [id : Ids, created : Nat, committed : Nat] :
          e.id \notin EntryIds /\ ledger' = Append(ledger, e)
    BY <1>3
  <2>2. /\ \A i \in DOMAIN ledger : i \in DOMAIN ledger' /\ ledger'[i] = ledger[i]
        /\ EntryIds' = EntryIds \cup {e.id}
        /\ \A i, j \in DOMAIN ledger' : ledger'[i].id = ledger'[j].id => i = j
    BY <2>1, Entering
  <2>3. ASSUME NEW x \in EntryIds PROVE ledger'[EntryOf(x)'].created = ledger[EntryOf(x)].created
    <3>1. PICK i \in DOMAIN ledger : i = EntryOf(x) /\ ledger[i].id = x
      BY EntryFacts
    <3>2. i \in DOMAIN ledger' /\ ledger'[i] = ledger[i]
      BY <2>2
    <3>3. EntryOf(x)' \in DOMAIN ledger' /\ ledger'[EntryOf(x)'].id = x
      <4>1. \E j \in DOMAIN ledger' : ledger'[j].id = x
        BY <3>1, <3>2
      <4> QED
        BY <4>1 DEF EntryOf
    <3>4. EntryOf(x)' = i
      BY <2>2, <3>1, <3>2, <3>3
    <3> QED
      BY <3>1, <3>2, <3>4
  <2>4. \A x, y \in EntryIds : Above(list, x, y)' <=> Above(list, x, y)
    BY <2>3 DEF Above, Earlier
  <2>5. e.id \in Ids
    OBVIOUS
  <2> QED
    BY <1>1, <2>1, <2>2, <2>4, <2>5 DEF Changes
<1> QED
  BY <1>2, <1>3, StatusMoves

\* And a list of transfers follows the one status that changes.
LEMMA TransfersChange ==
  ASSUME Configured, BooksInv, BooksInv', NEW k \in Keys, BankStep(k),
         NEW list \in Lists, ~IsStatement(list)
  PROVE  Changes(list)
<1>1. PICK v \in SUBSET Keys, s \in {"PENDING", "SETTLED", "FAILED"} :
        v = Visible(list[1]) /\ s = list[2]
  <2>1. Visible(list[1]) \in SUBSET Keys
    BY DEF Visible, Configured
  <2>2. list[2] \in {"PENDING", "SETTLED", "FAILED"}
    BY DEF Configured, IsStatement
  <2> QED
    BY <2>1, <2>2
<1>2. /\ Rows(list) = {j \in v : status[j] = s} /\ Rows(list)' = {j \in v : status'[j] = s}
      /\ Been(list) = {j \in v : IF s = "PENDING" THEN status[j] # "none" ELSE status[j] = s}
      /\ Been(list)' = {j \in v : IF s = "PENDING" THEN status'[j] # "none" ELSE status'[j] = s}
  BY <1>1 DEF Rows, Been, Visible
<1>3. /\ \A j \in Keys : j # k => status'[j] = status[j]
      /\ \/ status'[k] = status[k]
         \/ status[k] = "none" /\ status'[k] = "PENDING"
         \/ status[k] = "PENDING" /\ status'[k] \in {"SETTLED", "FAILED"}
      /\ \A j \in Keys : status[j] # "none" => created'[j] = created[j]
  BY StatusMoves
<1>4. \A x, y \in Rows(list) : Above(list, x, y)' <=> Above(list, x, y)
  <2>1. \A x \in Rows(list) : created'[x] = created[x]
    BY <1>1, <1>2, <1>3
  <2> QED
    BY <2>1 DEF Above, Earlier
<1>5. Been(list) \subseteq Been(list)' /\ Rows(list) \subseteq Been(list)
  BY <1>1, <1>2, <1>3
<1>6. CASE k \notin v \/ status'[k] = status[k]
  <2>1. Rows(list)' = Rows(list)
    BY <1>1, <1>2, <1>3, <1>6
  <2> QED
    BY <1>4, <1>5, <2>1 DEF Changes
<1>7. CASE k \in v /\ status'[k] # status[k] /\ status'[k] = s
  <2>1. Rows(list)' = Rows(list) \cup {k} /\ k \notin Been(list) /\ k \in Ids
    BY <1>1, <1>2, <1>3, <1>7 DEF Ids
  <2> QED
    BY <1>4, <1>5, <2>1 DEF Changes
<1>8. CASE k \in v /\ status'[k] # status[k] /\ status'[k] # s
  <2>1. Rows(list)' = Rows(list) \ {k} /\ (k \in Rows(list) \/ Rows(list)' = Rows(list))
    BY <1>1, <1>2, <1>3, <1>8
  <2> QED
    BY <1>4, <1>5, <2>1 DEF Changes
<1> QED
  BY <1>6, <1>7, <1>8

----------------------------------------------------------------------------
(* The reader.                                                             *)

\* Ranks depend on the order of the rows that there are.
LEMMA SameSides ==
  ASSUME NEW B, NEW R, NEW Q, \A x, y \in B : <<x, y>> \in R <=> <<x, y>> \in Q, NEW U, NEW o
  PROVE  Before(B, R, U, o) = Before(B, Q, U, o) /\ After(B, R, U, o) = After(B, Q, U, o)
<1>1. ASSUME NEW x \in B PROVE Rank(B, R, x) = Rank(B, Q, x)
  <2>1. {y \in B : <<y, x>> \in R} = {y \in B : <<y, x>> \in Q}
    OBVIOUS
  <2> QED
    BY <2>1 DEF Rank
<1> QED
  BY <1>1 DEF Before, After

\* The pages before the next one, as a number of rows.
LEMMA Borders ==
  ASSUME Configured, NEW p \in Nat \ {0}
  PROVE  /\ (p - 1) * PageSize \in Nat /\ ((p + 1) - 1) * PageSize = (p - 1) * PageSize + PageSize
         /\ (1 - 1) * PageSize = 0
<1>1. PICK q, n \in Nat : q = p - 1 /\ p = q + 1 /\ n = PageSize
  BY DEF Configured
<1>2. (p + 1) - 1 = q + 1
  BY <1>1
<1>3. (q + 1) * n = q * n + n /\ q * n \in Nat /\ 0 * n = 0
  OBVIOUS
<1> QED
  BY <1>1, <1>2, <1>3

\* The reader's account of a change to the list is right.
LEMMA WatchedKeeps ==
  ASSUME Configured, ListsOrdered, ListsOrdered', WalkTypes, WalkInv, Watched,
         \A list \in Lists : Changes(list)
  PROVE  WalkTypes' /\ WalkInv'
<1>1. NoList \notin Lists
  <2>1. NoList[1] = "nobody" /\ \A list \in Lists : list[1] \in {"customer", "admin"}
    BY DEF NoList, Configured
  <2> QED
    BY <2>1
<1>2. CASE walk.list = NoList
  <2>1. walk' = walk
    BY <1>1, <1>2 DEF Watched
  <2> QED
    BY <1>2, <2>1 DEF WalkTypes, WalkInv
<1>3. CASE walk.list # NoList
  <2>1. PICK L \in Lists : L = walk.list
    BY <1>3 DEF WalkTypes
  <2> DEFINE B == Rows(L)
             C == Rows(L)'
             R == Sorted(L)
             Q == Sorted(L)'
             gone == B \ C
             new == C \ B
             U == walk.missing
             S == walk.seen
             o == Border
  <2>2. walk' = [walk EXCEPT !.missing = @ \ gone, !.left = @ + Cardinality(gone),
                             !.arrived = @ + Cardinality(new)]
    BY <1>3, <2>1 DEF Watched
  <2>3. /\ walk.page \in Nat \ {0} /\ U \subseteq Ids /\ S \subseteq Ids
        /\ walk.left \in Nat /\ walk.arrived \in Nat /\ walk.repeated \in Nat
    BY DEF WalkTypes
  <2>4. /\ walk'.list = L /\ walk'.page = walk.page /\ walk'.seen = S
        /\ walk'.missing = U \ gone /\ walk'.left = walk.left + Cardinality(gone)
        /\ walk'.arrived = walk.arrived + Cardinality(new) /\ walk'.repeated = walk.repeated
    BY <2>1, <2>2 DEF WalkTypes
  <2>5. o \in Nat /\ Border' = o
    BY <2>3, <2>4, Borders DEF Border
  <2>6. Order(B, R) /\ Order(C, Q)
    BY DEF ListsOrdered
  <2>7. IsFiniteSet(B) /\ IsFiniteSet(C)
    BY <2>6 DEF Order
  <2>8. \A x, y \in B \cap C : <<x, y>> \in R <=> <<x, y>> \in Q
    BY DEF Sorted, Changes
  <2>9. U \subseteq B /\ S \subseteq Been(L) /\ B \subseteq Been(L) /\ Been(L) \subseteq Been(L)'
    <3>1. U \subseteq B /\ S \subseteq Been(L)
      BY <1>3, <2>1 DEF WalkInv
    <3> QED
      BY <3>1 DEF Changes
  <2>10. PassedOver = Before(B, R, U, o) /\ SeenBehind = After(B, R, S, o)
    BY <2>1 DEF PassedOver, SeenBehind
  <2>11. PassedOver' = Before(C, Q, U \ gone, o) /\ SeenBehind' = After(C, Q, S, o)
    BY <2>4, <2>5 DEF PassedOver, SeenBehind
  <2>12. /\ Cardinality(Before(B, R, U, o)) \in Nat /\ Cardinality(After(B, R, S, o)) \in Nat
         /\ Cardinality(Before(C, Q, U \ gone, o)) \in Nat /\ Cardinality(After(C, Q, S, o)) \in Nat
    BY <2>7, Sides
  <2>13. /\ Cardinality(gone) \in Nat /\ Cardinality(new) \in Nat
         /\ Cardinality(Before(C, Q, U \ gone, o)) <= Cardinality(Before(B, R, U, o)) + Cardinality(gone)
         /\ Cardinality(After(C, Q, S, o)) <= Cardinality(After(B, R, S, o)) + Cardinality(new)
    <3>1. CASE C = B
      <4>1. gone = {} /\ new = {} /\ U \ gone = U
        BY <3>1
      <4>2. Before(B, R, U, o) = Before(C, Q, U, o) /\ After(B, R, S, o) = After(C, Q, S, o)
        <5>1. \A x, y \in B : <<x, y>> \in R <=> <<x, y>> \in Q
          BY <2>8, <3>1
        <5> HIDE DEF B, C, R, Q, U, S, o
        <5> QED
          BY <3>1, <5>1, SameSides
      <4>3. Cardinality({}) = 0
        BY FS_EmptySet
      <4> HIDE DEF B, C, R, Q, U, S, o, gone, new
      <4> QED
        BY <2>12, <4>1, <4>2, <4>3
    <3>2. CASE \E x \in Ids : x \notin Been(L) /\ C = B \cup {x}
      <4>1. PICK x : x \notin Been(L) /\ C = B \cup {x}
        BY <3>2
      <4>2. x \notin B /\ x \notin U /\ x \notin S
        BY <2>9, <4>1
      <4>3. gone = {} /\ new = {x} /\ U \ gone = U /\ C \ {x} = B
        BY <4>1, <4>2
      <4>4. /\ Cardinality(Before(C, Q, U, o)) <= Cardinality(Before(B, Q, U, o))
            /\ Cardinality(After(C, Q, S, o)) <= Cardinality(After(B, Q, S, o)) + 1
        <5> HIDE DEF B, C, R, Q, U, S, o
        <5> QED
          BY <2>5, <2>6, <4>2, <4>3, WhenOneComes
      <4>5. Before(B, R, U, o) = Before(B, Q, U, o) /\ After(B, R, S, o) = After(B, Q, S, o)
        <5>1. \A y, z \in B : <<y, z>> \in R <=> <<y, z>> \in Q
          BY <2>8, <4>1
        <5> HIDE DEF B, C, R, Q, U, S, o
        <5> QED
          BY <5>1, SameSides
      <4>6. Cardinality({}) = 0 /\ Cardinality({x}) = 1
        BY FS_EmptySet, FS_Singleton
      <4> HIDE DEF B, C, R, Q, U, S, o, gone, new
      <4> QED
        BY <2>12, <4>3, <4>4, <4>5, <4>6
    <3>3. CASE \E x \in B : C = B \ {x}
      <4>1. PICK x \in B : C = B \ {x}
        BY <3>3
      <4>2. gone = {x} /\ new = {}
        BY <4>1
      <4>3. /\ Cardinality(Before(C, R, U \ {x}, o)) <= Cardinality(Before(B, R, U, o)) + 1
            /\ Cardinality(After(C, R, S, o)) <= Cardinality(After(B, R, S, o))
        <5> HIDE DEF B, C, R, Q, U, S, o
        <5> QED
          BY <2>5, <2>6, <4>1, WhenOneLeaves
      <4>4. Before(C, R, U \ {x}, o) = Before(C, Q, U \ {x}, o) /\ After(C, R, S, o) = After(C, Q, S, o)
        <5>1. \A y, z \in C : <<y, z>> \in R <=> <<y, z>> \in Q
          BY <2>8, <4>1
        <5> HIDE DEF B, C, R, Q, U, S, o
        <5> QED
          BY <5>1, SameSides
      <4>5. Cardinality({}) = 0 /\ Cardinality({x}) = 1
        BY FS_EmptySet, FS_Singleton
      <4> HIDE DEF B, C, R, Q, U, S, o, gone, new
      <4> QED
        BY <2>12, <4>2, <4>3, <4>4, <4>5
    <3> QED
      BY <3>1, <3>2, <3>3 DEF Changes
  <2>14. walk' \in [list : Lists \cup {NoList}, page : Nat \ {0}, seen : SUBSET Ids,
                    missing : SUBSET Ids, left : Nat, arrived : Nat, repeated : Nat]
    <3>1. /\ walk.left + Cardinality(gone) \in Nat /\ walk.arrived + Cardinality(new) \in Nat
          /\ U \ gone \in SUBSET Ids
      BY <2>3, <2>13
    <3> HIDE DEF gone, new
    <3> QED
      BY <2>2, <3>1 DEF WalkTypes
  <2>15. WalkTypes'
    BY <2>14 DEF WalkTypes
  <2>16. /\ Cardinality(Before(B, R, U, o)) <= walk.left
         /\ walk.repeated + Cardinality(After(B, R, S, o)) <= walk.arrived
    BY <1>3, <2>10 DEF WalkInv
  <2>17. /\ Cardinality(Before(C, Q, U \ gone, o)) <= walk'.left
         /\ walk'.repeated + Cardinality(After(C, Q, S, o)) <= walk'.arrived
    <3> HIDE DEF B, C, R, Q, U, S, o, gone, new
    <3> QED
      BY <2>3, <2>4, <2>12, <2>13, <2>16
  <2>18. walk'.missing \subseteq C /\ walk'.seen \subseteq Been(L)'
    BY <2>4, <2>9
  <2> QED
    BY <1>3, <2>1, <2>4, <2>11, <2>15, <2>17, <2>18 DEF WalkInv
<1> QED
  BY <1>2, <1>3

\* Of the rows on a page those seen before had been behind its border; those
\* behind the next border still are, and the page's own are not.
LEMMA Turning ==
  ASSUME NEW B, NEW R, IsFiniteSet(B), NEW U, NEW S, NEW o \in Nat, NEW n \in Nat \ {0},
         \A x \in B : Rank(B, R, x) \in Nat,
         NEW P, \A x : x \in P <=> x \in B /\ Rank(B, R, x) \in o .. o + n - 1
  PROVE  /\ Cardinality(P) \in Nat /\ Cardinality(P \cap S) \in Nat
         /\ Cardinality(Before(B, R, U \ P, o + n)) <= Cardinality(Before(B, R, U, o))
         /\ Cardinality(P \cap S) + Cardinality(After(B, R, S \cup P, o + n))
              <= Cardinality(After(B, R, S, o))
<1> DEFINE X == P \cap S
           Y == After(B, R, S \cup P, o + n)
           Z == After(B, R, S, o)
<1>1. P \in SUBSET B /\ X \in SUBSET B
  OBVIOUS
<1>2. IsFiniteSet(Z) /\ IsFiniteSet(Y) /\ IsFiniteSet(X) /\ IsFiniteSet(P)
      /\ Cardinality(X) \in Nat /\ Cardinality(P) \in Nat
      /\ Cardinality(Y) \in Nat /\ Cardinality(Z) \in Nat
  <2> HIDE DEF X
  <2> QED
    BY <1>1, Sides, FS_Subset, FS_CardinalityType
<1>3. ASSUME NEW x \in X PROVE x \in Z /\ x \notin Y
  BY DEF After
<1>4. ASSUME NEW x \in Y PROVE x \in Z
  BY DEF After
<1>5. X \cap Y = {} /\ X \cup Y \in SUBSET Z
  <2> HIDE DEF X, Y, Z
  <2> QED
    BY <1>3, <1>4
<1>6. Cardinality(X) + Cardinality(Y) <= Cardinality(Z)
  <2> HIDE DEF X, Y, Z
  <2>1. IsFiniteSet(X \cup Y)
        /\ Cardinality(X \cup Y) = Cardinality(X) + Cardinality(Y) - Cardinality(X \cap Y)
    BY <1>2, FS_Union
  <2>2. Cardinality({}) = 0
    BY FS_EmptySet
  <2>3. Cardinality(X \cup Y) <= Cardinality(Z)
    BY <1>2, <1>5, FS_Subset
  <2>4. Cardinality(X \cup Y) = Cardinality(X) + Cardinality(Y) - 0
    BY <1>5, <2>1, <2>2
  <2> QED
    BY <1>2, <2>3, <2>4
<1>7. Before(B, R, U \ P, o + n) \in SUBSET Before(B, R, U, o)
  BY DEF Before
<1>8. Cardinality(Before(B, R, U \ P, o + n)) <= Cardinality(Before(B, R, U, o))
  BY <1>7, Sides, FS_Subset
<1> QED
  BY <1>2, <1>6, <1>8

\* Reading the next page.
LEMMA ReadKeeps ==
  ASSUME Configured, ListsOrdered, WalkTypes, WalkInv, NEW L \in Lists,
         Rows(L) \subseteq Ids, Rows(L) \subseteq Been(L), ReadPage(L)
  PROVE  WalkTypes' /\ WalkInv'
<1> DEFINE B == Rows(L)
           R == Sorted(L)
           first == walk.list = NoList
           p == IF first THEN 1 ELSE walk.page
           S == IF first THEN {} ELSE walk.seen
           U == IF first THEN B ELSE walk.missing
           P == Page(L, p)
           left == IF first THEN 0 ELSE walk.left
           arrived == IF first THEN 0 ELSE walk.arrived
           repeated == IF first THEN 0 ELSE walk.repeated
           o == (p - 1) * PageSize
           next == IF Cardinality(P) < PageSize THEN NoList ELSE L
<1>1. PICK n \in Nat \ {0} : n = PageSize
  BY DEF Configured
<1>2. /\ walk.list \in {NoList, L} /\ UNCHANGED bankVars
      /\ walk' = [list |-> next, page |-> p + 1, seen |-> S \cup P, missing |-> U \ P,
                  left |-> left, arrived |-> arrived,
                  repeated |-> repeated + Cardinality(P \cap S)]
  BY DEF ReadPage
<1>3. NoList # L
  <2>1. NoList[1] = "nobody" /\ L[1] \in {"customer", "admin"}
    BY DEF NoList, Configured
  <2> QED
    BY <2>1
<1>4. /\ p \in Nat \ {0} /\ S \subseteq Ids /\ left \in Nat /\ arrived \in Nat /\ repeated \in Nat
  BY DEF WalkTypes
<1>5. o \in Nat /\ ((p + 1) - 1) * PageSize = o + n /\ (first => o = 0)
  BY <1>1, <1>4, Borders
<1>6. Order(B, R) /\ IsFiniteSet(B) /\ (\A x \in B : Rank(B, R, x) \in Nat)
      /\ \A x \in B : Position(L, x) = 1 + Rank(B, R, x)
  BY Ranks DEF ListsOrdered, Order
<1>7. P = {x \in B : Rank(B, R, x) \in o .. o + n - 1}
  <2>1. ASSUME NEW x \in B
        PROVE  Position(L, x) - (p - 1) * PageSize \in 1 .. PageSize
               <=> Rank(B, R, x) \in o .. o + n - 1
    <3>1. PICK r \in Nat : r = Rank(B, R, x) /\ Position(L, x) = 1 + r
      BY <1>6
    <3>2. (1 + r) - o \in 1 .. n <=> r \in o .. o + n - 1
      <4> HIDE DEF o
      <4> QED
        BY <1>5
    <3> QED
      BY <1>1, <3>1, <3>2
  <2> QED
    BY <2>1 DEF Page
<1>8. U \subseteq B /\ S \subseteq Been(L)
  BY <1>2 DEF WalkInv
<1>9. /\ Cardinality(Before(B, R, U, o)) <= left
      /\ repeated + Cardinality(After(B, R, S, o)) <= arrived
  <2>1. CASE first
    <3>1. Before(B, R, U, o) = {} /\ After(B, R, S, o) = {}
      BY <1>5, <1>6, <2>1 DEF Before, After
    <3>2. Cardinality({}) = 0
      BY FS_EmptySet
    <3> QED
      BY <2>1, <3>1, <3>2
  <2>2. CASE ~first
    <3>1. walk.list = L /\ o = Border
      BY <1>2, <2>2 DEF Border
    <3> QED
      BY <2>2, <3>1 DEF WalkInv, PassedOver, SeenBehind
  <2> QED
    BY <2>1, <2>2
<1>10. /\ Cardinality(P) \in Nat /\ Cardinality(P \cap S) \in Nat
       /\ Cardinality(Before(B, R, U \ P, o + n)) <= Cardinality(Before(B, R, U, o))
       /\ Cardinality(P \cap S) + Cardinality(After(B, R, S \cup P, o + n))
            <= Cardinality(After(B, R, S, o))
  <2>1. IsFiniteSet(B) /\ (\A x \in B : Rank(B, R, x) \in Nat) /\ o \in Nat
    BY <1>5, <1>6
  <2>2. \A x : x \in P <=> x \in B /\ Rank(B, R, x) \in o .. o + n - 1
    BY <1>7
  <2> HIDE DEF B, R, U, S, P, o
  <2> QED
    BY <2>1, <2>2, Turning
<1>11. /\ Cardinality(Before(B, R, U, o)) \in Nat /\ Cardinality(After(B, R, S, o)) \in Nat
       /\ Cardinality(Before(B, R, U \ P, o + n)) \in Nat
       /\ Cardinality(After(B, R, S \cup P, o + n)) \in Nat
  <2> HIDE DEF B, R, U, S, P, o
  <2> QED
    BY <1>6, Sides
<1>12. /\ Cardinality(Before(B, R, U \ P, o + n)) <= left
       /\ repeated + Cardinality(P \cap S) + Cardinality(After(B, R, S \cup P, o + n)) <= arrived
       /\ repeated + Cardinality(P \cap S) <= arrived
  <2> HIDE DEF B, R, U, S, P, o, left, arrived, repeated
  <2> QED
    BY <1>4, <1>9, <1>10, <1>11
<1>13. P \subseteq B
  BY <1>7
<1>14. WalkTypes'
  <2>1. /\ next \in Lists \cup {NoList} /\ p + 1 \in Nat \ {0} /\ S \cup P \in SUBSET Ids
        /\ U \ P \in SUBSET Ids /\ repeated + Cardinality(P \cap S) \in Nat
    <3>1. next \in Lists \cup {NoList}
      OBVIOUS
    <3> HIDE DEF next, p, P, repeated
    <3> QED
      BY <1>4, <1>8, <1>10, <1>13, <3>1
  <2> HIDE DEF next, p, S, P, U, left, arrived, repeated
  <2> QED
    BY <1>2, <1>4, <2>1 DEF WalkTypes
<1>15. /\ walk'.list = next /\ walk'.page = p + 1 /\ walk'.seen = S \cup P
       /\ walk'.missing = U \ P /\ walk'.left = left /\ walk'.arrived = arrived
       /\ walk'.repeated = repeated + Cardinality(P \cap S)
  BY <1>2
<1>16. /\ Rows(L)' = B /\ Sorted(L)' = R /\ Been(L)' = Been(L)
  <2>1. /\ EntryIds' = EntryIds /\ \A x : EntryOf(x)' = EntryOf(x)
    BY <1>2 DEF EntryIds, EntryOf, bankVars
  <2>2. Rows(L)' = Rows(L)
    BY <1>2, <2>1 DEF Rows, bankVars
  <2>3. \A x, y : Above(L, x, y)' <=> Above(L, x, y)
    BY <1>2, <2>1 DEF Above, Earlier, bankVars
  <2>4. Sorted(L)' = Sorted(L)
    BY <2>2, <2>3 DEF Sorted
  <2>5. Been(L)' = Been(L)
    BY <1>2, <2>2 DEF Been, bankVars
  <2> QED
    BY <2>2, <2>4, <2>5
<1>17. CASE Cardinality(P) < PageSize
  <2>1. walk'.list = NoList
    BY <1>15, <1>17
  <2>2. \A x \in B : Rank(B, R, x) < o + n
    <3> HIDE DEF B, R, P, o
    <3> QED
      BY <1>1, <1>5, <1>6, <1>7, <1>17, LastPage
  <2>3. Before(B, R, U \ P, o + n) = U \ P
    BY <1>8, <2>2 DEF Before
  <2> QED
    BY <1>12, <1>14, <1>15, <2>1, <2>3 DEF WalkInv
<1>18. CASE ~ Cardinality(P) < PageSize
  <2>1. walk'.list = L
    BY <1>15, <1>18
  <2>2. Border' = o + n
    BY <1>5, <1>15 DEF Border
  <2>3. /\ PassedOver' = Before(B, R, U \ P, o + n)
        /\ SeenBehind' = After(B, R, S \cup P, o + n)
    BY <1>15, <1>16, <2>1, <2>2 DEF PassedOver, SeenBehind
  <2>4. U \ P \subseteq B /\ S \cup P \subseteq Been(L)
    BY <1>8, <1>13
  <2> QED
    BY <1>3, <1>12, <1>14, <1>15, <1>16, <2>1, <2>3, <2>4 DEF WalkInv
<1> QED
  BY <1>17, <1>18

----------------------------------------------------------------------------
(* Every step.                                                             *)

\* A step is the reader's or the bank's.
LEMMA Steps ==
  ASSUME [Next]_vars
  PROVE  \/ \E list \in Lists : ReadPage(list)
         \/ \E k \in Keys : BankStep(k) /\ Watched
         \/ UNCHANGED vars
BY DEF Next, Statement, AdminList, ListMine, BankStep

\* Who only reads, or does nothing, keeps the books.
LEMMA StillBooks ==
  ASSUME BooksInv, UNCHANGED bankVars
  PROVE  BooksInv'
BY DEF BooksInv, bankVars, Types, LedgerInv, TxInv, EntryIds, Booked

\* Every step keeps the books.
LEMMA NextBooks ==
  ASSUME Configured, BooksInv, [Next]_vars
  PROVE  BooksInv'
<1>1. (\E list \in Lists : ReadPage(list)) \/ UNCHANGED vars => UNCHANGED bankVars
  BY DEF ReadPage, vars
<1> QED
  BY <1>1, Steps, StillBooks, BankKeepsBooks

\* The reader keeps his account, whoever moves.
LEMMA NextWalk ==
  ASSUME Configured, BooksInv, BooksInv', ListsOrdered, ListsOrdered', WalkTypes, WalkInv,
         [Next]_vars
  PROVE  WalkTypes' /\ WalkInv'
<1>1. ASSUME NEW L \in Lists, ReadPage(L) PROVE WalkTypes' /\ WalkInv'
  <2>1. Rows(L) \subseteq Ids
    BY RowTimes
  <2>2. Rows(L) \subseteq Been(L)
    BY DEF Been, Rows, IsStatement
  <2> QED
    BY <1>1, <2>1, <2>2, ReadKeeps
<1>2. ASSUME NEW k \in Keys, BankStep(k), Watched PROVE WalkTypes' /\ WalkInv'
  <2>1. \A list \in Lists : Changes(list)
    BY <1>2, StatementChanges, TransfersChange
  <2> QED
    BY <1>2, <2>1, WatchedKeeps
<1>3. CASE UNCHANGED vars
  <2>1. walk' = walk /\ UNCHANGED bankVars
    BY <1>3 DEF vars
  <2>2. /\ EntryIds' = EntryIds /\ \A x : EntryOf(x)' = EntryOf(x)
    BY <2>1 DEF EntryIds, EntryOf, bankVars
  <2>3. \A list : Rows(list)' = Rows(list) /\ Been(list)' = Been(list)
    BY <2>1, <2>2 DEF Rows, Been, bankVars
  <2>4. \A list, x, y : Above(list, x, y)' <=> Above(list, x, y)
    BY <2>1, <2>2 DEF Above, Earlier, bankVars
  <2>5. \A list : Sorted(list)' = Sorted(list)
    BY <2>3, <2>4 DEF Sorted
  <2> QED
    BY <2>1, <2>3, <2>5 DEF WalkTypes, WalkInv, PassedOver, SeenBehind, Border
<1> QED
  BY <1>1, <1>2, <1>3, Steps

\* Nothing has happened and nobody reads at first.
LEMMA InitLists ==
  ASSUME Configured, Init
  PROVE  BooksInv /\ WalkTypes /\ WalkInv
<1>1. Types
  BY NoTxIs DEF Init, Types, States
<1>2. DOMAIN ledger = {} /\ Len(ledger) = 0 /\ EntryIds = {}
  BY DEF Init, EntryIds
<1>3. LedgerInv /\ \A k \in Keys : TxInv(k)
  BY <1>2, NoTxIs DEF Init, LedgerInv, TxInv
<1>4. WalkTypes
  BY DEF Init, WalkTypes, NoWalk
<1>5. WalkInv
  BY FS_EmptySet DEF Init, WalkInv, NoWalk
<1> QED
  BY <1>1, <1>3, <1>4, <1>5 DEF BooksInv

----------------------------------------------------------------------------
(* The theorems.                                                           *)

\* No entry is entered twice, whatever was read stands or is known not to, and
\* an entry's transaction began before it was committed.
THEOREM Books == Spec => []BooksInv
<1>1. Init => BooksInv
  BY IsConfigured, InitLists
<1>2. BooksInv /\ [Next]_vars => BooksInv'
  BY IsConfigured, NextBooks
<1> QED
  BY <1>1, <1>2, PTL DEF Spec

\* What the pages of a walk have passed over or shown twice is no more than
\* what left the list or came to it meanwhile, at every page.
THEOREM ListInvariant == Spec => []ListInv
<1>1. Init => WalkTypes /\ WalkInv
  BY IsConfigured, InitLists
<1>2. BooksInv => ListsOrdered
  BY IsConfigured, ListOrder DEF ListsOrdered
<1>3. BooksInv /\ BooksInv' /\ ListsOrdered /\ ListsOrdered' /\ (WalkTypes /\ WalkInv)
        /\ [Next]_vars => (WalkTypes /\ WalkInv)'
  BY IsConfigured, NextWalk
<1>4. BooksInv /\ (WalkTypes /\ WalkInv) => ListInv
  BY DEF ListInv
<1> QED
  BY <1>1, <1>2, <1>3, <1>4, Books, PTL DEF Spec

\* ledger.List by created_at: the statement shows an entry above those that
\* were committed before its transaction began.
THEOREM StatementsInOrder == Spec => []EntriesInOrder
<1>1. BooksInv => EntriesInOrder
  <2>1. ASSUME BooksInv, NEW i \in DOMAIN ledger, NEW j \in DOMAIN ledger,
               ledger[j].created > ledger[i].committed
        PROVE  Above(<<"customer", "entries">>, ledger[j].id, ledger[i].id)
    <3> DEFINE list == <<"customer", "entries">>
    <3>1. IsStatement(list)
      BY DEF IsStatement
    <3>2. EntryOf(ledger[i].id) = i /\ EntryOf(ledger[j].id) = j
      BY <2>1, EntryFacts
    <3>3. /\ ledger[i].created \in Nat /\ ledger[i].committed \in Nat /\ ledger[j].created \in Nat
          /\ ledger[i].created <= ledger[i].committed
      <4>1. \A x \in DOMAIN ledger : ledger[x] \in [id : Ids, created : Nat, committed : Nat]
        BY <2>1, EntryFacts
      <4>2. ledger[i].created <= ledger[i].committed
        BY <2>1 DEF BooksInv, LedgerInv
      <4> QED
        BY <4>1, <4>2
    <3>4. ledger[i].created < ledger[j].created
      BY <2>1, <3>3
    <3> QED
      BY <3>1, <3>2, <3>4 DEF Above, Earlier
  <2> QED
    BY <2>1 DEF EntriesInOrder
<1> QED
  BY <1>1, Books, PTL

\* RF5: who reads a list page by page finds every row that stays, but for as
\* many as left it meanwhile.
THEOREM WalksFindWhatStays == Spec => []WalkFindsWhatStays
<1>1. BooksInv => ListsOrdered
  BY IsConfigured, ListOrder DEF ListsOrdered
<1>2. ListInv /\ ListsOrdered => WalkFindsWhatStays
  <2>1. ASSUME ListInv, ListsOrdered PROVE WalkFindsWhatStays
    <3>1. CASE walk.list = NoList
      BY <2>1, <3>1 DEF ListInv, WalkInv, WalkFindsWhatStays
    <3>2. CASE walk.list # NoList
      <4>1. PICK L \in Lists : L = walk.list
        BY <2>1, <3>2 DEF ListInv, WalkTypes
      <4>2. walk.missing \subseteq Rows(L) /\ Cardinality(PassedOver) <= walk.left
        BY <2>1, <3>2, <4>1 DEF ListInv, WalkInv
      <4>3. Border \in Nat
        BY <2>1, IsConfigured, Borders DEF Border, ListInv, WalkTypes
      <4>4. ASSUME NEW x \in walk.missing
            PROVE  Position(L, x) <= Border <=> Rank(Rows(L), Sorted(L), x) < Border
        <5>1. x \in Rows(L) /\ Order(Rows(L), Sorted(L))
              /\ Position(L, x) = 1 + Rank(Rows(L), Sorted(L), x)
          BY <2>1, <4>2 DEF ListsOrdered
        <5>2. Rank(Rows(L), Sorted(L), x) \in Nat
          BY <5>1, Ranks
        <5> QED
          BY <4>3, <5>1, <5>2
      <4>5. {x \in walk.missing : Position(L, x) <= (walk.page - 1) * PageSize} = PassedOver
        BY <4>1, <4>2, <4>4 DEF PassedOver, Before, Border
      <4> QED
        BY <3>2, <4>1, <4>2, <4>5 DEF WalkFindsWhatStays
    <3> QED
      BY <3>1, <3>2
  <2> QED
    BY <2>1
<1> QED
  BY <1>1, <1>2, Books, ListInvariant, PTL

\* A row is shown to him again only for another one that came in above it.
THEOREM RepeatsHaveReasons == Spec => []RepeatsAreArrivals
<1>1. ListInv /\ ListsOrdered => RepeatsAreArrivals
  <2>1. ASSUME ListInv, ListsOrdered PROVE RepeatsAreArrivals
    <3>1. CASE walk.list = NoList
      BY <2>1, <3>1 DEF ListInv, WalkInv, RepeatsAreArrivals
    <3>2. CASE walk.list # NoList
      <4>1. PICK L \in Lists : L = walk.list
        BY <2>1, <3>2 DEF ListInv, WalkTypes
      <4>2. IsFiniteSet(Rows(L))
        BY <2>1 DEF ListsOrdered, Order
      <4>3. Cardinality(SeenBehind) \in Nat
        BY <4>1, <4>2, Sides DEF SeenBehind
      <4>4. walk.repeated \in Nat /\ walk.arrived \in Nat
            /\ walk.repeated + Cardinality(SeenBehind) <= walk.arrived
        BY <2>1, <3>2 DEF ListInv, WalkTypes, WalkInv
      <4> QED
        BY <4>3, <4>4 DEF RepeatsAreArrivals
    <3> QED
      BY <3>1, <3>2
  <2> QED
    BY <2>1
<1>2. BooksInv => ListsOrdered
  BY IsConfigured, ListOrder DEF ListsOrdered
<1> QED
  BY <1>1, <1>2, Books, ListInvariant, PTL
===============================================================================
