------------------------------ MODULE Listings ------------------------------
(***************************************************************************)
(* What the readers are shown: an account's statement (ledger.List) and    *)
(* the transfers of one status (ListByStatus, ListByStatusForOwner), page  *)
(* by page while the bank goes on.  Every list is ordered by created_at,   *)
(* which is when the transaction that inserted the row began, and not when *)
(* the row appeared, nor which balance came first.                         *)
(*                                                                         *)
(* All the transfers touch one account, whose statement is read; some of   *)
(* them touch an account of the customer who lists his transfers.  Of the  *)
(* money only the order of its movements is kept; TransferService has the  *)
(* rest.                                                                   *)
(***************************************************************************)
EXTENDS Integers, Sequences, FiniteSets

CONSTANTS
  Keys,       \* the transfers; of two ids inserted at one time the less is first
  Mine,       \* those that touch an account of the customer's
  PageSize,
  Lists,      \* what a reader may ask for: <<reader, rows>>
  MaxEntries  \* bound: entries of the account

ASSUME ListingsAssumption ==
  /\ Keys \subseteq Nat \ {0} /\ IsFiniteSet(Keys)
  /\ PageSize \in Nat \ {0}
  /\ MaxEntries \in Nat
  /\ Mine \subseteq Keys
  /\ Lists \subseteq {"customer", "admin"} \X {"entries", "PENDING", "SETTLED", "FAILED"}

VARIABLES
  clock,     \* counts the commits: nothing begins and commits at one time
  created,   \* when each transfer's claim began, 0 before
  status,    \* of its row; "none" until the claim commits
  tx,        \* the attempt to book it or to reverse it
  ledger,    \* the account's entries, in the order their balances follow
  walk       \* the reader

bankVars == <<clock, created, status, tx, ledger>>
vars == <<bankVars, walk>>

NoTx == [at |-> "none", began |-> 0, version |-> 0]
NoList == <<"nobody", "nothing">>
NoWalk == [list |-> NoList, page |-> 1, seen |-> {}, missing |-> {},
           left |-> 0, arrived |-> 0, repeated |-> 0]

Init ==
  /\ clock = 1
  /\ created = [k \in Keys |-> 0]
  /\ status = [k \in Keys |-> "none"]
  /\ tx = [k \in Keys |-> NoTx]
  /\ ledger = <<>>
  /\ walk = NoWalk

----------------------------------------------------------------------------
\* The rows of a list.  The entry of a booking has its key for an id, that of
\* a reversal the key's negative.
EntryIds == {ledger[i].id : i \in DOMAIN ledger}
EntryOf(id) == CHOOSE i \in DOMAIN ledger : ledger[i].id = id
IsStatement(list) == list[2] = "entries"
Visible(reader) == IF reader = "admin" THEN Keys ELSE Mine
Rows(list) ==
  IF IsStatement(list) THEN EntryIds ELSE {k \in Visible(list[1]) : status[k] = list[2]}

\* (created_at, id) of x is less than that of y.
Earlier(list, x, y) ==
  LET at(id) == IF IsStatement(list) THEN ledger[EntryOf(id)].created ELSE created[id]
  IN at(x) < at(y) \/ (at(x) = at(y) /\ x < y)

\* Mutant of Above: the statement in the order of the other lists.
AlwaysAscending(list, x, y) == Earlier(list, x, y)

\* ORDER BY: the statement newest first, transfers oldest first.
Above(list, x, y) == IF IsStatement(list) THEN Earlier(list, y, x) ELSE Earlier(list, x, y)

Position(list, x) == 1 + Cardinality({y \in Rows(list) : Above(list, y, x)})

\* Mutants of Page: the first page is number 0; one row more is fetched, to
\* see whether there is a next page, and shown.
PageFromZero(list, p) == {x \in Rows(list) : Position(list, x) - p * PageSize \in 1 .. PageSize}
PageAndOne(list, p) ==
  {x \in Rows(list) : Position(list, x) - (p - 1) * PageSize \in 1 .. PageSize + 1}

\* LIMIT pageSize OFFSET (page - 1) * pageSize
Page(list, p) == {x \in Rows(list) : Position(list, x) - (p - 1) * PageSize \in 1 .. PageSize}

\* The next page, from the first on until one is not full.
ReadPage(list) ==
  LET first == walk.list = NoList
      p == IF first THEN 1 ELSE walk.page
      seen == IF first THEN {} ELSE walk.seen
      got == Page(list, p)
  IN
  /\ walk.list \in {NoList, list}
  /\ walk' = [list |-> IF Cardinality(got) < PageSize THEN NoList ELSE list,
              page |-> p + 1,
              seen |-> seen \cup got,
              missing |-> (IF first THEN Rows(list) ELSE walk.missing) \ got,
              left |-> IF first THEN 0 ELSE walk.left,
              arrived |-> IF first THEN 0 ELSE walk.arrived,
              repeated |-> (IF first THEN 0 ELSE walk.repeated) + Cardinality(got \cap seen)]
  /\ UNCHANGED bankVars

\* The endpoints.
Statement    == <<"customer", "entries">> \in Lists /\ ReadPage(<<"customer", "entries">>)
AdminList(s) == <<"admin", s>> \in Lists /\ ReadPage(<<"admin", s>>)
ListMine(s)  == <<"customer", s>> \in Lists /\ ReadPage(<<"customer", s>>)

\* What the bank's step does to the list that is being read.
Watched ==
  \/ walk.list = NoList /\ UNCHANGED walk
  \/ \E list \in Lists :
       /\ walk.list = list
       /\ LET gone == Rows(list) \ Rows(list)'
              new == Rows(list)' \ Rows(list)
          IN walk' = [walk EXCEPT !.missing = @ \ gone,
                                  !.left = @ + Cardinality(gone),
                                  !.arrived = @ + Cardinality(new)]

----------------------------------------------------------------------------
\* The bank.
Booked(k) == k \in EntryIds

\* acquire: the INSERT begins, and commits.
ClaimBegins(k) ==
  /\ created[k] = 0
  /\ created' = [created EXCEPT ![k] = clock]
  /\ UNCHANGED <<clock, status, tx, ledger>>

Claim(k) ==
  /\ created[k] > 0
  /\ status[k] = "none"
  /\ status' = [status EXCEPT ![k] = "PENDING"]
  /\ UNCHANGED <<clock, created, tx, ledger>>

\* processOnce, or Fail of a booked transfer, begins: now() is fixed.
Begin(k) ==
  /\ status[k] = "PENDING"
  /\ tx[k] = NoTx
  /\ tx' = [tx EXCEPT ![k] = [at |-> "open", began |-> clock, version |-> 0]]
  /\ UNCHANGED <<clock, created, status, ledger>>

\* processOnce reads the account, and its version, only then.
Read(k) ==
  /\ tx[k].at = "open"
  /\ ~Booked(k)
  /\ tx' = [tx EXCEPT ![k].at = "read", ![k].version = Len(ledger)]
  /\ UNCHANGED <<clock, created, status, ledger>>

\* A transaction commits an entry.
Enter(k, id, statuses) ==
  /\ Len(ledger) < MaxEntries
  /\ ledger' = Append(ledger, [id |-> id, created |-> tx[k].began, committed |-> clock])
  /\ \E s \in statuses : status' = [status EXCEPT ![k] = s]
  /\ tx' = [tx EXCEPT ![k] = NoTx]
  /\ clock' = clock + 1
  /\ UNCHANGED created

\* The version still stands: booked, in either mode.
Book(k) ==
  /\ tx[k].at = "read"
  /\ tx[k].version = Len(ledger)
  /\ Enter(k, k, {"PENDING", "SETTLED"})

\* Fail with reverse, which has waited for the account's row to be free.
Reverse(k) ==
  /\ tx[k].at = "open"
  /\ Booked(k)
  /\ Enter(k, -k, {"FAILED"})

\* A version conflict or a failure; what follows is another transaction.
Rollback(k) ==
  /\ tx[k].at # "none"
  /\ tx' = [tx EXCEPT ![k] = NoTx]
  /\ UNCHANGED <<clock, created, status, ledger>>

\* markFailed of a transfer that was refused; Fail of one without entries.
\* Settle.
End(k) ==
  /\ status[k] = "PENDING"
  /\ tx[k] = NoTx
  /\ status' = [status EXCEPT ![k] = IF Booked(k) THEN "SETTLED" ELSE "FAILED"]
  /\ UNCHANGED <<clock, created, tx, ledger>>

Next ==
  \/ Statement
  \/ \E s \in {"PENDING", "SETTLED", "FAILED"} : AdminList(s) \/ ListMine(s)
  \/ \E k \in Keys :
       /\ \/ ClaimBegins(k) \/ Claim(k) \/ Begin(k) \/ Read(k)
          \/ Book(k) \/ Reverse(k) \/ Rollback(k) \/ End(k)
       /\ Watched

Spec == Init /\ [][Next]_vars

----------------------------------------------------------------------------
\* ledger.List by created_at: an entry whose transaction began after another
\* entry of the account was committed is listed above it.  (Of transactions
\* that overlapped, the list may contradict the balances.)
EntriesInOrder ==
  \A i, j \in DOMAIN ledger :
    ledger[j].created > ledger[i].committed =>
      Above(<<"customer", "entries">>, ledger[j].id, ledger[i].id)

\* RF5: of the rows that were in the list when the first page was read and
\* are there still, the pages passed over no more than have left the list
\* since.  Nothing leaves a statement, nor the SETTLED and the FAILED.
WalkFindsWhatStays ==
  LET passed == {x \in walk.missing : Position(walk.list, x) <= (walk.page - 1) * PageSize} IN
  IF walk.list = NoList THEN Cardinality(walk.missing) <= walk.left
  ELSE Cardinality(passed) <= walk.left

\* A row is shown again only because another one came in above it.
RepeatsAreArrivals == walk.repeated <= walk.arrived
=============================================================================
