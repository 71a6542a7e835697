--------------------------- MODULE SettlementFeed ---------------------------
(***************************************************************************)
(* The settlement boundary: the client's credential and its tokens, the    *)
(* paged list of what waits for settlement, and the client that walks it.  *)
(* The transfers live in the atomic bank, which BankCore implements, in    *)
(* external mode.  The client (Liquida) is another program, modelled from  *)
(* the contract it was given: it asks for page after page while has_next,  *)
(* puts what it sees in its queue, and settles from there, meanwhile.      *)
(***************************************************************************)
EXTENDS Integers, FiniteSets

CONSTANTS
  Accounts, Keys, MaxCents, Null,  \* keys in the order of (created_at, id)
  Asked,                           \* the order of each transfer
  PageSize,
  Secrets                          \* values SETTLEMENT_CLIENT_SECRET may have

ASSUME FeedAssumption ==
  /\ Keys \subseteq Nat /\ IsFiniteSet(Keys)
  /\ Asked \in [Keys -> [from : Accounts, to : Accounts, amount : 1 .. MaxCents]]
  /\ \A k \in Keys : Asked[k].from # Asked[k].to
  /\ PageSize \in Nat \ {0}
  /\ Null \notin Secrets

VARIABLES
  balance, order, phase,  \* the atomic bank
  up,          \* the process serves requests
  hash,        \* the secret whose hash service_clients holds
  credential,  \* the secret the client was given
  token,       \* the client's token: "none", "live", "expired"
  page,        \* the page the client asks for next
  queue,       \* what it has listed and not settled yet
  unseen,      \* listed nowhere since the walk began, and waiting since then
  left         \* how many have left the list since the walk began

bankVars == <<balance, order, phase>>
authVars == <<up, hash, credential, token>>
walkVars == <<page, queue, unseen, left>>
vars == <<bankVars, authVars, walkVars>>

Bank == INSTANCE AtomicBank WITH Amounts <- 1 .. MaxCents

\* has_next never sends the client past the last page there can be.
TypeOK ==
  /\ phase \in [Keys -> Bank!Phases]
  /\ up \in BOOLEAN
  /\ hash \in Secrets \cup {Null}
  /\ credential \in Secrets \cup {Null}
  /\ token \in {"none", "live", "expired"}
  /\ page \in 1 .. Cardinality(Keys)
  /\ queue \subseteq Keys
  /\ unseen \subseteq Keys
  /\ left \in 0 .. Cardinality(Keys)

Init ==
  /\ Bank!Init
  /\ up = FALSE
  /\ hash = Null
  /\ credential = Null
  /\ token = "none"
  /\ page = 1
  /\ queue = {}
  /\ unseen = {}
  /\ left = 0

----------------------------------------------------------------------------
\* Mutant of EnsureServiceClient: ON CONFLICT DO UPDATE.
OverwriteServiceClient(s) == s

\* EnsureServiceClient: the row that is there stays as it is.
EnsureServiceClient(s) == IF hash = Null THEN s ELSE hash

\* A boot, with whatever the environment says; the client is set up once,
\* with the first secret.
Boot ==
  /\ ~up
  /\ up' = TRUE
  /\ \E s \in Secrets :
       /\ hash' = EnsureServiceClient(s)
       /\ credential' = IF credential = Null THEN s ELSE credential
  /\ UNCHANGED <<token, bankVars, walkVars>>

Stop == up /\ up' = FALSE /\ UNCHANGED <<hash, credential, token, bankVars, walkVars>>

\* IssueServiceToken
IssueServiceToken ==
  /\ up
  /\ token = "none"
  /\ credential = hash
  /\ token' = "live"
  /\ UNCHANGED <<up, hash, credential, bankVars, walkVars>>

\* SERVICE_JWT_TTL.  A token outlives the process that signed it.
Expire == token = "live" /\ token' = "expired" /\ UNCHANGED <<up, hash, credential, bankVars, walkVars>>

\* Authenticate: 401, and the client drops the token.
Unauthorized ==
  /\ up
  /\ token = "expired"
  /\ token' = "none"
  /\ UNCHANGED <<up, hash, credential, bankVars, walkVars>>

Authorized == up /\ token = "live"

----------------------------------------------------------------------------
Pending(k) == phase[k] \in {"registered", "booked"}
HasEntries(k) == phase[k] \in {"booked", "settled", "reversed"}

\* Mutant of Listable: without bookedFilter.
AnyPending(k) == Pending(k)

\* The WHERE of ListForSettlement for PENDING.
Listable(k) == Pending(k) /\ HasEntries(k)
Backlog == {k \in Keys : Listable(k)}
Position(k) == Cardinality({j \in Backlog : j < k})

\* ORDER BY created_at, id LIMIT n OFFSET o
Rows(n, o) == {k \in Backlog : Position(k) \in o .. o + n - 1}

\* Mutant of HasNext: LIMIT pageSize.
HasNextOfPage(offset) == Cardinality(Rows(PageSize, offset)) > PageSize

\* Mutant of HasNext: a full page has a next one.
NextIfFull(offset) == Cardinality(Rows(PageSize + 1, offset)) >= PageSize

Listed(offset)  == Rows(PageSize, offset)
HasNext(offset) == Cardinality(Rows(PageSize + 1, offset)) > PageSize

\* settlementList
Offset(p) == (p - 1) * PageSize

\* The walk begins with page 1 and ends with the page that has no next.
Poll ==
  /\ Authorized
  /\ LET offset == Offset(page)
         missing == IF page = 1 THEN Backlog ELSE unseen
     IN /\ queue' = queue \cup Listed(offset)
        /\ unseen' = missing \ Listed(offset)
        /\ left' = IF page = 1 THEN 0 ELSE left
        /\ page' = IF HasNext(offset) THEN page + 1 ELSE 1
  /\ UNCHANGED <<bankVars, authVars>>

\* k may have left the list.
Leave(k) ==
  /\ unseen' = unseen \ {k}
  /\ left' = IF Listable(k) /\ phase'[k] # "booked" THEN left + 1 ELSE left

\* Settle: of a PENDING transfer with entries; the other answers, 409 of one
\* that failed or has no entries and 200 of one settled before, change nothing.
SettleRow(k) == IF Listable(k) THEN Bank!Settle(k) ELSE UNCHANGED bankVars

\* The client takes the answer, or never gets it and settles again.
Settle(k) ==
  /\ Authorized
  /\ k \in queue
  /\ SettleRow(k)
  /\ Leave(k)
  /\ queue' = queue \ {k}
  /\ UNCHANGED <<page, authVars>>

SettleUnanswered(k) ==
  /\ Authorized
  /\ k \in queue
  /\ SettleRow(k)
  /\ Leave(k)
  /\ UNCHANGED <<page, queue, authVars>>

\* An operator gives a transfer up.
Fail(k) ==
  /\ up
  /\ Bank!Reverse(k)
  /\ Leave(k)
  /\ UNCHANGED <<page, queue, authVars>>

\* What the bank's customers do.
Register(k) ==
  /\ up
  /\ Bank!Register(k, Asked[k].from, Asked[k].to, Asked[k].amount)
  /\ UNCHANGED <<authVars, walkVars>>

Book(k) ==
  /\ up
  /\ Bank!Book(k)
  /\ phase'[k] = "booked"
  /\ UNCHANGED <<authVars, walkVars>>

\* markFailed; or Fail of a row without entries.
Reject(k) == up /\ Bank!Reject(k) /\ UNCHANGED <<authVars, walkVars>>

Next ==
  \/ Boot \/ Stop \/ IssueServiceToken \/ Expire \/ Unauthorized \/ Poll
  \/ \E k \in Keys : \/ Settle(k) \/ SettleUnanswered(k) \/ Fail(k)
                     \/ Register(k) \/ Book(k) \/ Reject(k)

Spec == Init /\ [][Next]_vars

\* The process is started again, the client asks for tokens, and now and then
\* a token lives long enough for one call.
FairSpec ==
  /\ Spec
  /\ WF_vars(Boot)
  /\ SF_vars(IssueServiceToken) /\ SF_vars(Unauthorized)
  /\ SF_vars(Poll)
  /\ \A k \in Keys : SF_vars(Settle(k))

----------------------------------------------------------------------------
\* RF26, and spec v1.3.0 11.2: what ListForSettlement shows the client has had
\* its money moved, so TRANSFER_NOT_BOOKED is never answered to it.
ListedHaveMoved == \A k \in queue : HasEntries(k)

\* Offsets over a list that shrinks skip rows: a walk of the pages misses some
\* of what waited all along, but never more than were settled or failed
\* while it went on (ListForSettlement and has_next).
WalkMissesAtMostWhatLeft == page = 1 => Cardinality(unseen) <= left

\* Spec v1.1.0, has_next and FIFO order: whatever the pages skip, whatever
\* token expires and however often the process restarts, with whatever secret
\* in its environment, each booked transfer is settled or given up.
BacklogDrains == \A k \in Keys : phase[k] = "booked" ~> phase[k] # "booked"
=============================================================================
