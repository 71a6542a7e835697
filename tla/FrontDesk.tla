----------------------------- MODULE FrontDesk -----------------------------
(***************************************************************************)
(* Who may ask for what: the rows of customers and service_clients, the    *)
(* replicas that seed them while they boot (EnsureAdmin,                   *)
(* EnsureServiceClient), the tokens and the role they carry, and what the  *)
(* handlers make of a request before account.Service and transfer.Service  *)
(* get it: whose account it is and how much the text of the amount says.   *)
(* A request whose password or secret is wrong is refused and not          *)
(* modelled.                                                               *)
(***************************************************************************)
EXTENDS Money, FiniteSets

CONSTANTS
  Replicas,    \* the processes
  Env,         \* each replica's environment
  Lower,       \* strings.ToLower of the addresses
  ClientIds,   \* of service clients
  Accounts,
  Texts,       \* of amounts
  MaxTokens,   \* bound: tokens that have not expired
  MaxErrors,   \* bound: boots that the database fails
  None

Addresses == DOMAIN Lower

ASSUME FrontDeskAssumption ==
  /\ Lower \in [Addresses -> Addresses]
  /\ \A a \in Addresses : Lower[Lower[a]] = Lower[a]
  /\ Env \in [Replicas -> [admin : Addresses \cup {None}, client : ClientIds \cup {None},
                           gate : {"", "false", "true", "perhaps"}]]
  /\ Addresses \cap ClientIds = {}
  /\ None \notin Addresses \cup ClientIds \cup {"ADMIN", "CUSTOMER"}
  /\ MaxTokens \in Nat /\ MaxErrors \in Nat

VARIABLES
  customers,   \* the role of the row with an address; the row's id is the address
  clients,     \* the service clients
  owner,       \* of the accounts
  boot,        \* how far each replica is
  tokens,      \* issued and not expired
  asked,       \* the last amount asked for, with what became of it
  errors       \* boots that the database has failed

vars == <<customers, clients, owner, boot, tokens, asked, errors>>

NoRequest == [text |-> <<>>, cents |-> Invalid]

Init ==
  /\ customers = [a \in Addresses |-> None]
  /\ clients = {}
  /\ owner = [acc \in Accounts |-> None]
  /\ boot = [r \in Replicas |-> "down"]
  /\ tokens = {}
  /\ asked = NoRequest
  /\ errors = 0

----------------------------------------------------------------------------
\* config.Load: the gate is closed unless it is opened; what ParseBool does
\* not know ends the process.
Loads(r) == Env[r].gate \in {"", "false", "true"}
AllowPublicAdminRegister(r) == Env[r].gate = "true"

Seeding == {"findAdmin", "addAdmin", "findClient", "addClient"}

\* main.run from a point on: the seeds the environment asks for, and no other.
AfterAdmin(r) == IF Env[r].client # None THEN "findClient" ELSE "serving"
AfterConnect(r) == IF Env[r].admin # None THEN "findAdmin" ELSE AfterAdmin(r)

Goes(r, to) == boot' = [boot EXCEPT ![r] = to]

Boot(r) ==
  /\ boot[r] = "down"
  /\ Loads(r)
  /\ Goes(r, AfterConnect(r))
  /\ UNCHANGED <<customers, clients, owner, tokens, asked, errors>>

\* Mutant of FindAdmin: a customer who has the address is made an ADMIN.
FindAdminOrPromote(r) ==
  /\ boot[r] = "findAdmin"
  /\ Goes(r, IF customers[Env[r].admin] = None THEN "addAdmin" ELSE AfterAdmin(r))
  /\ customers' = [customers EXCEPT ![Env[r].admin] = IF @ = None THEN None ELSE "ADMIN"]
  /\ UNCHANGED <<clients, owner, tokens, asked, errors>>

\* EnsureAdmin: a row with the address, of either role, is enough.
FindAdmin(r) ==
  /\ boot[r] = "findAdmin"
  /\ Goes(r, IF customers[Env[r].admin] = None THEN "addAdmin" ELSE AfterAdmin(r))
  /\ UNCHANGED <<customers, clients, owner, tokens, asked, errors>>

\* Mutant of AddAdmin: a unique violation is an error like any other.
AddAdminOrFail(r) ==
  /\ boot[r] = "addAdmin"
  /\ IF customers[Env[r].admin] = None
     THEN customers' = [customers EXCEPT ![Env[r].admin] = "ADMIN"] /\ Goes(r, AfterAdmin(r))
     ELSE UNCHANGED customers /\ Goes(r, "down")
  /\ UNCHANGED <<clients, owner, tokens, asked, errors>>

\* Its INSERT: a row that came in since is not an error.
AddAdmin(r) ==
  /\ boot[r] = "addAdmin"
  /\ customers' = [customers EXCEPT ![Env[r].admin] = IF @ = None THEN "ADMIN" ELSE @]
  /\ Goes(r, AfterAdmin(r))
  /\ UNCHANGED <<clients, owner, tokens, asked, errors>>

\* EnsureServiceClient, with ON CONFLICT DO NOTHING.
FindClient(r) ==
  /\ boot[r] = "findClient"
  /\ Goes(r, IF Env[r].client \in clients THEN "serving" ELSE "addClient")
  /\ UNCHANGED <<customers, clients, owner, tokens, asked, errors>>

AddClient(r) ==
  /\ boot[r] = "addClient"
  /\ clients' = clients \cup {Env[r].client}
  /\ Goes(r, "serving")
  /\ UNCHANGED <<customers, owner, tokens, asked, errors>>

\* A seed's statement fails: so does the boot.
BootFails(r) ==
  /\ boot[r] \in Seeding
  /\ errors < MaxErrors
  /\ errors' = errors + 1
  /\ Goes(r, "down")
  /\ UNCHANGED <<customers, clients, owner, tokens, asked>>

\* SIGTERM, or a crash, of a replica that serves.
Stop(r) ==
  /\ boot[r] = "serving"
  /\ Goes(r, "down")
  /\ UNCHANGED <<customers, clients, owner, tokens, asked, errors>>

----------------------------------------------------------------------------
\* Requests, to any replica that serves; only Register depends on which.
Serving(r) == boot[r] = "serving"
SomeServes == "serving" \in Range(boot)

\* The address as register and login take it from the body.
Email(address) == Lower[address]

\* The middleware of /admin.
RequireRole(t, role) == t.role = role

\* POST /auth/register; an address that is taken is a conflict.
Register(r, address, role) ==
  LET email == Email(address) IN
  /\ Serving(r)
  /\ role \in {"", "CUSTOMER"} \/ AllowPublicAdminRegister(r)
  /\ customers[email] = None
  /\ customers' = [customers EXCEPT ![email] = IF role = "ADMIN" THEN "ADMIN" ELSE "CUSTOMER"]
  /\ asked' = NoRequest
  /\ UNCHANGED <<clients, owner, boot, tokens, errors>>

Issue(id, role) ==
  /\ tokens' = tokens \cup {[id |-> id, role |-> role]}
  /\ Cardinality(tokens') <= MaxTokens
  /\ asked' = NoRequest
  /\ UNCHANGED <<customers, clients, owner, boot, errors>>

\* POST /auth/login
Login(address) ==
  LET email == Email(address) IN
  /\ SomeServes
  /\ customers[email] # None
  /\ Issue(email, customers[email])

\* POST /auth/token
IssueServiceToken(id) ==
  /\ SomeServes
  /\ id \in clients
  /\ Issue(id, "SETTLEMENT")

\* ExpiresAt
Expire(t) ==
  /\ tokens' = tokens \ {t}
  /\ asked' = NoRequest
  /\ UNCHANGED <<customers, clients, owner, boot, errors>>

\* POST /admin/service-clients: RequireRole(ADMIN), and a random id.
CreateServiceClient(t, id) ==
  /\ SomeServes
  /\ RequireRole(t, "ADMIN")
  /\ id \notin clients
  /\ \A other \in Replicas : Env[other].client # id
  /\ clients' = clients \cup {id}
  /\ asked' = NoRequest
  /\ UNCHANGED <<customers, owner, boot, tokens, errors>>

\* Mutant of Open: the accounts have no foreign key to the customers.
OpenForAnyone(t, acc) ==
  /\ SomeServes
  /\ owner[acc] = None
  /\ owner' = [owner EXCEPT ![acc] = t.id]
  /\ asked' = NoRequest
  /\ UNCHANGED <<customers, clients, boot, tokens, errors>>

\* POST /accounts: any token will do; the foreign key asks for a customer.
Open(t, acc) ==
  /\ SomeServes
  /\ owner[acc] = None
  /\ t.id \in Addresses /\ customers[t.id] # None
  /\ owner' = [owner EXCEPT ![acc] = t.id]
  /\ asked' = NoRequest
  /\ UNCHANGED <<customers, clients, boot, tokens, errors>>

\* authorized of an account, authorizeSource of a transfer.
Authorized(t, acc) == owner[acc] # None /\ (t.role = "ADMIN" \/ owner[acc] = t.id)

Positive(parsed) == IF parsed.ok /\ parsed.value > 0 THEN parsed ELSE Invalid
Parsed == [text \in Texts |-> Positive(ParseDecimal(text))]

\* A deposit or a withdrawal (parseAmountOp), or a transfer (create).
Ask(t, acc, text) ==
  /\ SomeServes
  /\ Authorized(t, acc)
  /\ asked' = [text |-> text, cents |-> Parsed[text]]
  /\ UNCHANGED <<customers, clients, owner, boot, tokens, errors>>

Next ==
  \/ \E r \in Replicas :
       \/ Boot(r) \/ FindAdmin(r) \/ AddAdmin(r) \/ FindClient(r) \/ AddClient(r)
       \/ BootFails(r) \/ Stop(r)
       \/ \E a \in Addresses, role \in {"", "CUSTOMER", "ADMIN", "SETTLEMENT"} : Register(r, a, role)
  \/ \E a \in Addresses : Login(a)
  \/ \E id \in ClientIds : IssueServiceToken(id)
  \/ \E t \in tokens :
       \/ Expire(t)
       \/ \E id \in ClientIds : CreateServiceClient(t, id)
       \/ \E acc \in Accounts : Open(t, acc) \/ \E text \in Texts : Ask(t, acc, text)

Spec == Init /\ [][Next]_vars

----------------------------------------------------------------------------
\* ParseDecimal: an amount that was accepted is the one the text says, to the
\* centavo, a sign behind the point being read as a zero; and no text that
\* says a positive amount which fits is refused.
AmountsExact ==
  LET text == asked.text
      says == SaysAnAmount(text) /\ Said(text) \in 1 .. MaxInt
  IN /\ asked.cents.ok =>
          /\ SaysAnAmount(SignsAsZeros(text))
          /\ asked.cents.value = Said(SignsAsZeros(text))
     /\ says => asked.cents.ok

\* RNF12: whoever else boots, registers or has booted before, no boot is ended
\* by a seed, only by the database; and a replica that serves has its rows.
SeedIdempotent ==
  [][\A r \in Replicas :
       /\ boot[r] \in Seeding /\ boot'[r] = "down" => errors' = errors + 1
       /\ boot'[r] = "serving" =>
            /\ Env[r].admin # None => customers'[Env[r].admin] # None
            /\ Env[r].client # None => Env[r].client \in clients']_vars

\* RoleFrom and RequireRole trust the token for as long as it lives: its role
\* is still that of its subject's row.
TokenRoleCurrent ==
  \A t \in tokens :
    IF t.id \in Addresses THEN t.role = customers[t.id]
    ELSE t.role = "SETTLEMENT" /\ t.id \in clients

\* RNF10: a SETTLEMENT token opens no account, orders no transfer and reads no
\* statement, though no route says so: it can be the owner of nothing.
ServiceMovesNothing ==
  \A t \in tokens, acc \in Accounts :
    t.role = "SETTLEMENT" => owner[acc] # t.id /\ ~Authorized(t, acc)
=============================================================================
