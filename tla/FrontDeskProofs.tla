--------------------------- MODULE FrontDeskProofs ---------------------------
(***************************************************************************)
(* Proofs about who may ask for what, for every set of replicas, of their  *)
(* environments, of addresses and of credentials.                          *)
(***************************************************************************)
EXTENDS FrontDesk, TLAPS

\* What the environments and the addresses are known to be.
Configured ==
  /\ \A r \in Replicas : /\ Env[r].admin \in Addresses \cup {None}
                         /\ Env[r].client \in ClientIds \cup {None}
  /\ \A a \in Addresses : Lower[a] \in Addresses
  /\ Addresses \cap ClientIds = {}
  /\ None \notin Addresses \cup ClientIds \cup {"ADMIN", "CUSTOMER"}

\* The assumption on the constants, under a name that can be left unexpanded.
LEMMA IsConfigured == Configured
BY FrontDeskAssumption DEF Configured

Booting == {"down", "serving"} \cup Seeding

DeskTypeOK ==
  /\ customers \in [Addresses -> {None, "ADMIN", "CUSTOMER"}]
  /\ clients \subseteq ClientIds
  /\ owner \in [Accounts -> Addresses \cup {None}]
  /\ boot \in [Replicas -> Booting]
  /\ errors \in Nat

\* A token's subject has a row, and the row's role is the token's.
TokenInv(t) ==
  \/ t.id \in Addresses /\ customers[t.id] # None /\ t.role = customers[t.id]
  \/ t.id \in clients /\ t.role = "SETTLEMENT"

\* What a replica has seen to, at the point its boot has got to.
BootInv(r) ==
  /\ boot[r] \in {"findAdmin", "addAdmin"} => Env[r].admin # None
  /\ boot[r] \in {"findClient", "addClient"} => Env[r].client # None
  /\ boot[r] \in {"findClient", "addClient", "serving"} /\ Env[r].admin # None =>
       customers[Env[r].admin] # None
  /\ boot[r] = "serving" /\ Env[r].client # None => Env[r].client \in clients

\* The inductive invariant: roles are given once and no row goes, so that a
\* token and a boot may rely on what they have seen.
DeskInv ==
  /\ DeskTypeOK
  /\ \A t \in tokens : TokenInv(t)
  /\ \A r \in Replicas : BootInv(r)

----------------------------------------------------------------------------
(* Rows only come.                                                         *)

\* What every step may do to the rows that boots and tokens have seen.
RowsStay ==
  /\ \A a \in Addresses : customers[a] # None => customers'[a] = customers[a]
  /\ clients \subseteq clients'

\* Tokens that were issued stay good while the rows stay.
LEMMA TokensKeep ==
  ASSUME RowsStay, tokens' \subseteq tokens, \A t \in tokens : TokenInv(t)
  PROVE  \A t \in tokens' : TokenInv(t)'
BY DEF RowsStay, TokenInv

\* So does what a replica has seen to.
LEMMA BootKeeps ==
  ASSUME Configured, RowsStay, NEW r \in Replicas, boot'[r] = boot[r], BootInv(r)
  PROVE  BootInv(r)'
<1>1. Env[r].admin \in Addresses \cup {None}
  BY DEF Configured
<1> QED
  BY <1>1 DEF RowsStay, BootInv

\* A step that leaves the boots and the tokens alone.
LEMMA DeskStep ==
  ASSUME Configured, DeskInv, RowsStay, DeskTypeOK', boot' = boot,
         tokens' \subseteq tokens
  PROVE  DeskInv'
BY TokensKeep, BootKeeps DEF DeskInv

\* A step of one replica's boot.
LEMMA ReplicaStep ==
  ASSUME Configured, DeskInv, RowsStay, DeskTypeOK', tokens' = tokens,
         NEW r \in Replicas, \A q \in Replicas \ {r} : boot'[q] = boot[q], BootInv(r)'
  PROVE  DeskInv'
<1>1. \A t \in tokens' : TokenInv(t)'
  BY TokensKeep DEF DeskInv
<1>2. \A q \in Replicas \ {r} : BootInv(q)'
  BY BootKeeps DEF DeskInv
<1> QED
  BY <1>1, <1>2 DEF DeskInv

----------------------------------------------------------------------------
(* The steps of a boot.                                                    *)

\* The environment of a replica, and where it may go.
LEMMA BootFacts ==
  ASSUME Configured, DeskTypeOK, NEW r \in Replicas
  PROVE  /\ Env[r].admin \in Addresses \cup {None}
         /\ Env[r].client \in ClientIds \cup {None}
         /\ AfterAdmin(r) \in {"findClient", "serving"}
         /\ AfterConnect(r) \in {"findAdmin", "findClient", "serving"}
         /\ \A to \in Booting : Goes(r, to) =>
              /\ boot' \in [Replicas -> Booting] /\ boot'[r] = to
              /\ \A q \in Replicas \ {r} : boot'[q] = boot[q]
<1>1. Env[r].admin \in Addresses \cup {None} /\ Env[r].client \in ClientIds \cup {None}
  BY DEF Configured
<1>2. AfterAdmin(r) \in {"findClient", "serving"}
  BY DEF AfterAdmin
<1>3. AfterConnect(r) \in {"findAdmin", "findClient", "serving"}
  BY <1>2 DEF AfterConnect
<1>4. ASSUME NEW to \in Booting, Goes(r, to)
      PROVE  /\ boot' \in [Replicas -> Booting] /\ boot'[r] = to
             /\ \A q \in Replicas \ {r} : boot'[q] = boot[q]
  BY <1>4 DEF Goes, DeskTypeOK
<1> QED
  BY <1>1, <1>2, <1>3, <1>4

\* Behind the administrator's seed comes the credential's, if there is one.
LEMMA ArrivesAfterAdmin ==
  ASSUME NEW r \in Replicas, boot'[r] = AfterAdmin(r),
         Env[r].admin # None => customers'[Env[r].admin] # None
  PROVE  BootInv(r)'
BY DEF BootInv, AfterAdmin

\* What a boot does, statement by statement.
LEMMA BootSteps ==
  ASSUME Configured, DeskInv, NEW r \in Replicas,
         \/ Boot(r) \/ FindAdmin(r) \/ AddAdmin(r) \/ FindClient(r) \/ AddClient(r)
         \/ BootFails(r) \/ Stop(r)
  PROVE  DeskInv' /\ RowsStay
<1> DeskTypeOK /\ BootInv(r)
  BY DEF DeskInv
<1>1. CASE Boot(r)
  <2>1. boot'[r] = AfterConnect(r) /\ boot' \in [Replicas -> Booting]
        /\ \A q \in Replicas \ {r} : boot'[q] = boot[q]
    BY <1>1, BootFacts DEF Boot, Booting, Seeding
  <2>2. BootInv(r)'
    BY <1>1, <2>1 DEF BootInv, AfterConnect, AfterAdmin, Boot
  <2>3. RowsStay /\ DeskTypeOK' /\ tokens' = tokens
    BY <1>1, <2>1 DEF Boot, RowsStay, DeskTypeOK
  <2> QED
    BY <2>1, <2>2, <2>3, ReplicaStep
<1>2. CASE FindAdmin(r)
  <2>1. /\ boot' \in [Replicas -> Booting]
        /\ \A q \in Replicas \ {r} : boot'[q] = boot[q]
        /\ boot'[r] = IF customers[Env[r].admin] = None THEN "addAdmin" ELSE AfterAdmin(r)
    BY <1>2, BootFacts DEF FindAdmin, Booting, Seeding
  <2>2. BootInv(r)'
    <3>1. CASE customers[Env[r].admin] = None
      BY <1>2, <2>1, <3>1 DEF FindAdmin, BootInv
    <3>2. CASE customers[Env[r].admin] # None
      BY <1>2, <2>1, <3>2, ArrivesAfterAdmin DEF FindAdmin
    <3> QED
      BY <3>1, <3>2
  <2>3. RowsStay /\ DeskTypeOK' /\ tokens' = tokens
    BY <1>2, <2>1 DEF FindAdmin, RowsStay, DeskTypeOK
  <2> QED
    BY <2>1, <2>2, <2>3, ReplicaStep
<1>3. CASE AddAdmin(r)
  <2>1. /\ boot' \in [Replicas -> Booting]
        /\ \A q \in Replicas \ {r} : boot'[q] = boot[q]
        /\ boot'[r] = AfterAdmin(r)
    BY <1>3, BootFacts DEF AddAdmin, Booting, Seeding
  <2>2. Env[r].admin \in Addresses /\ "ADMIN" # None
    BY <1>3, BootFacts DEF AddAdmin, BootInv, Configured
  <2>3. customers'[Env[r].admin] # None /\ RowsStay /\ DeskTypeOK' /\ tokens' = tokens
    BY <1>3, <2>1, <2>2 DEF AddAdmin, RowsStay, DeskTypeOK
  <2>4. BootInv(r)'
    BY <2>1, <2>3, ArrivesAfterAdmin
  <2> QED
    BY <2>1, <2>3, <2>4, ReplicaStep
<1>4. CASE FindClient(r)
  <2>1. /\ boot' \in [Replicas -> Booting]
        /\ \A q \in Replicas \ {r} : boot'[q] = boot[q]
        /\ boot'[r] = IF Env[r].client \in clients THEN "serving" ELSE "addClient"
    BY <1>4, BootFacts DEF FindClient, Booting, Seeding
  <2>2. BootInv(r)'
    BY <1>4, <2>1 DEF FindClient, BootInv
  <2>3. RowsStay /\ DeskTypeOK' /\ tokens' = tokens
    BY <1>4, <2>1 DEF FindClient, RowsStay, DeskTypeOK
  <2> QED
    BY <2>1, <2>2, <2>3, ReplicaStep
<1>5. CASE AddClient(r)
  <2>1. /\ boot' \in [Replicas -> Booting]
        /\ \A q \in Replicas \ {r} : boot'[q] = boot[q]
        /\ boot'[r] = "serving"
    BY <1>5, BootFacts DEF AddClient, Booting, Seeding
  <2>2. Env[r].client \in ClientIds
    BY <1>5, BootFacts DEF AddClient, BootInv
  <2>3. BootInv(r)'
    BY <1>5, <2>1 DEF AddClient, BootInv
  <2>4. RowsStay /\ DeskTypeOK' /\ tokens' = tokens
    BY <1>5, <2>1, <2>2 DEF AddClient, RowsStay, DeskTypeOK
  <2> QED
    BY <2>1, <2>3, <2>4, ReplicaStep
<1>6. CASE BootFails(r) \/ Stop(r)
  <2>1. /\ boot' \in [Replicas -> Booting]
        /\ \A q \in Replicas \ {r} : boot'[q] = boot[q]
        /\ boot'[r] = "down"
    BY <1>6, BootFacts DEF BootFails, Stop, Booting, Seeding
  <2>2. BootInv(r)'
    BY <2>1 DEF BootInv
  <2>3. RowsStay /\ DeskTypeOK' /\ tokens' = tokens
    BY <1>6, <2>1 DEF BootFails, Stop, RowsStay, DeskTypeOK
  <2> QED
    BY <2>1, <2>2, <2>3, ReplicaStep
<1> QED
  BY <1>1, <1>2, <1>3, <1>4, <1>5, <1>6

----------------------------------------------------------------------------
(* The requests.                                                           *)

\* A registration adds a row where there was none.
LEMMA RegisterKeeps ==
  ASSUME Configured, DeskInv, NEW r, NEW address \in Addresses, NEW role,
         Register(r, address, role)
  PROVE  DeskInv' /\ RowsStay /\ boot' = boot
<1>1. PICK email \in Addresses : email = Email(address)
  BY DEF Email, Configured
<1>2. /\ customers[email] = None
      /\ customers' = [customers EXCEPT ![email] = IF role = "ADMIN" THEN "ADMIN" ELSE "CUSTOMER"]
      /\ UNCHANGED <<clients, owner, boot, tokens, errors>>
  BY <1>1 DEF Register
<1>3. RowsStay /\ DeskTypeOK'
  BY <1>1, <1>2 DEF RowsStay, DeskInv, DeskTypeOK
<1> QED
  BY <1>2, <1>3, DeskStep

\* A token that is issued says what its subject's row says.
LEMMA IssueKeeps ==
  ASSUME Configured, DeskInv,
         \/ \E a \in Addresses : Login(a)
         \/ \E id \in ClientIds : IssueServiceToken(id)
  PROVE  DeskInv' /\ RowsStay /\ boot' = boot
<1>1. PICK id, role : Issue(id, role) /\ TokenInv([id |-> id, role |-> role])
  <2>1. ASSUME NEW a \in Addresses, Login(a)
        PROVE  Issue(Email(a), customers[Email(a)])
               /\ TokenInv([id |-> Email(a), role |-> customers[Email(a)]])
    BY <2>1 DEF Login, TokenInv, Email, Configured
  <2>2. ASSUME NEW c \in ClientIds, IssueServiceToken(c)
        PROVE  Issue(c, "SETTLEMENT") /\ TokenInv([id |-> c, role |-> "SETTLEMENT"])
    BY <2>2 DEF IssueServiceToken, TokenInv
  <2> QED
    BY <2>1, <2>2
<1>2. /\ tokens' = tokens \cup {[id |-> id, role |-> role]}
      /\ UNCHANGED <<customers, clients, owner, boot, errors>>
  BY <1>1 DEF Issue
<1>3. RowsStay /\ DeskTypeOK'
  BY <1>2 DEF RowsStay, DeskInv, DeskTypeOK
<1>4. \A t \in tokens' : TokenInv(t)'
  BY <1>1, <1>2 DEF DeskInv, TokenInv
<1>5. \A r \in Replicas : BootInv(r)'
  BY <1>2 DEF DeskInv, BootInv
<1> QED
  BY <1>2, <1>3, <1>4, <1>5 DEF DeskInv

\* What a token's bearer asks for.
LEMMA BearerKeeps ==
  ASSUME Configured, DeskInv, NEW t \in tokens,
         \/ Expire(t)
         \/ \E id \in ClientIds : CreateServiceClient(t, id)
         \/ \E acc \in Accounts : Open(t, acc) \/ \E text \in Texts : Ask(t, acc, text)
  PROVE  DeskInv' /\ RowsStay /\ boot' = boot
<1>1. RowsStay /\ DeskTypeOK' /\ boot' = boot /\ tokens' \subseteq tokens
  <2>1. CASE Expire(t)
    BY <2>1 DEF Expire, RowsStay, DeskInv, DeskTypeOK
  <2>2. CASE \E id \in ClientIds : CreateServiceClient(t, id)
    BY <2>2 DEF CreateServiceClient, RowsStay, DeskInv, DeskTypeOK
  <2>3. CASE \E acc \in Accounts : Open(t, acc)
    BY <2>3 DEF Open, RowsStay, DeskInv, DeskTypeOK
  <2>4. CASE \E acc \in Accounts, text \in Texts : Ask(t, acc, text)
    BY <2>4 DEF Ask, RowsStay, DeskInv, DeskTypeOK
  <2> QED
    BY <2>1, <2>2, <2>3, <2>4
<1> QED
  BY <1>1, DeskStep

\* DeskInv is inductive, and no step takes a row away or changes its role.
LEMMA DeskNext ==
  ASSUME Configured, DeskInv, [Next]_vars
  PROVE  DeskInv' /\ RowsStay
<1>1. CASE UNCHANGED vars
  <2>1. RowsStay /\ DeskTypeOK' /\ boot' = boot /\ tokens' = tokens
    BY <1>1 DEF vars, RowsStay, DeskInv, DeskTypeOK
  <2> QED
    BY <2>1, DeskStep
<1> QED
  BY <1>1, BootSteps, RegisterKeeps, IssueKeeps, BearerKeeps DEF Next

----------------------------------------------------------------------------
(* What follows.                                                           *)

\* Roles, boots and tokens agree with the rows in every reachable state.
THEOREM DeskInvariant == Spec => []DeskInv
<1>1. Init => DeskInv
  BY DEF Init, DeskInv, DeskTypeOK, BootInv, Booting
<1>2. DeskInv /\ [Next]_vars => DeskInv'
  BY IsConfigured, DeskNext
<1> QED
  BY <1>1, <1>2, PTL DEF Spec

\* A token's role is its subject's for as long as the token lives, though
\* nothing looks at the rows again.
THEOREM TokensStayTrue == Spec => []TokenRoleCurrent
<1>1. DeskInv => TokenRoleCurrent
  BY IsConfigured DEF DeskInv, DeskTypeOK, TokenInv, TokenRoleCurrent, Configured
<1> QED
  BY <1>1, DeskInvariant, PTL

\* A settlement token owns nothing and may order nothing.
THEOREM SettlementTokensMoveNothing == Spec => []ServiceMovesNothing
<1>1. ASSUME DeskInv, NEW t \in tokens, NEW acc \in Accounts, t.role = "SETTLEMENT"
      PROVE  owner[acc] # t.id /\ ~Authorized(t, acc)
  <2>1. t.id \in ClientIds
    BY <1>1 DEF DeskInv, DeskTypeOK, TokenInv
  <2>2. t.id \notin Addresses \cup {None}
    BY <2>1, IsConfigured DEF Configured
  <2>3. owner[acc] \in Addresses \cup {None}
    BY <1>1 DEF DeskInv, DeskTypeOK
  <2> QED
    BY <1>1, <2>2, <2>3 DEF Authorized
<1>2. DeskInv => ServiceMovesNothing
  BY <1>1 DEF ServiceMovesNothing
<1> QED
  BY <1>2, DeskInvariant, PTL

\* However many replicas boot over one another, a seed ends no boot, and who
\* serves has its rows.
THEOREM SeedsAreIdempotent == Spec => SeedIdempotent
<1>1. ASSUME DeskInv, DeskInv', [Next]_vars, NEW r \in Replicas
      PROVE  /\ boot[r] \in Seeding /\ boot'[r] = "down" => errors' = errors + 1
             /\ boot'[r] = "serving" =>
                  /\ Env[r].admin # None => customers'[Env[r].admin] # None
                  /\ Env[r].client # None => Env[r].client \in clients'
  <2>1. BootInv(r)' /\ DeskTypeOK
    BY <1>1 DEF DeskInv
  <2>2. ASSUME boot[r] \in Seeding, boot'[r] = "down" PROVE errors' = errors + 1
    <3>1. boot' # boot
      BY <2>2 DEF Seeding
    <3>2. PICK q \in Replicas :
            \/ Boot(q) \/ FindAdmin(q) \/ AddAdmin(q) \/ FindClient(q) \/ AddClient(q)
            \/ BootFails(q) \/ Stop(q)
      BY <1>1, <3>1 DEF Next, vars, Register, Login, Issue, IssueServiceToken, Expire,
                        CreateServiceClient, Open, Ask
    <3>3. PICK to : Goes(q, to)
      BY <3>2 DEF Boot, FindAdmin, AddAdmin, FindClient, AddClient, BootFails, Stop
    <3>4. q = r /\ Goes(r, "down")
      BY <2>1, <2>2, <3>3 DEF Goes, DeskTypeOK, Seeding
    <3>5. AfterAdmin(r) # "down" /\ AfterConnect(r) # "down"
      BY DEF AfterAdmin, AfterConnect
    <3>6. BootFails(r)
      BY <2>1, <2>2, <3>2, <3>4, <3>5
      DEF Boot, FindAdmin, AddAdmin, FindClient, AddClient, Stop, Goes, DeskTypeOK, Seeding
    <3> QED
      BY <3>6 DEF BootFails
  <2> QED
    BY <2>1, <2>2 DEF BootInv
<1>2. DeskInv /\ DeskInv' /\ [Next]_vars =>
        [\A r \in Replicas :
           /\ boot[r] \in Seeding /\ boot'[r] = "down" => errors' = errors + 1
           /\ boot'[r] = "serving" =>
                /\ Env[r].admin # None => customers'[Env[r].admin] # None
                /\ Env[r].client # None => Env[r].client \in clients']_vars
  BY <1>1
<1> QED
  BY <1>2, DeskInvariant, PTL DEF Spec, SeedIdempotent

----------------------------------------------------------------------------
(* Amounts.                                                                 *)

\* What int64 arithmetic makes of a number is some whole words away from it,
\* and is an int64.
LEMMA Wraps ==
  ASSUME NEW n \in Int
  PROVE  /\ Wrap(n) \in -(Word \div 2) .. MaxInt
         /\ \E q \in Int : Wrap(n) = n - q * Word
<1> DEFINE half == Word \div 2
           m == n + half
           q == m \div Word
<1>1. Word \in Int /\ Word > 0 /\ half \in Int /\ Word = 2 * half
  BY MoneyAssumption
<1>2. m \in Int /\ q \in Int /\ m % Word \in 0 .. Word - 1
  BY <1>1
<1>3. m = q * Word + (m % Word)
  BY <1>1, <1>2
<1>4. Wrap(n) = (m % Word) - half
  BY DEF Wrap
<1>5. q * Word \in Int
  BY <1>1, <1>2
<1> HIDE DEF half, q
<1>6. Wrap(n) = n - q * Word
  BY <1>1, <1>2, <1>3, <1>4, <1>5
<1>7. Wrap(n) \in -half .. half - 1
  BY <1>1, <1>2, <1>4
<1> QED
  BY <1>2, <1>6, <1>7 DEF half, MaxInt

\* Less than a word apart and whole words apart is not apart.
LEMMA NoWordBetween ==
  ASSUME NEW q \in Int, NEW d \in Int, d = q * Word, -Word < d, d < Word
  PROVE  d = 0
<1>1. Word \in Int /\ Word > 0
  BY MoneyAssumption
<1>2. CASE q >= 1
  <2>1. q * Word >= Word
    BY <1>1, <1>2
  <2> QED
    BY <1>1, <2>1
<1>3. CASE q =< -1
  <2>1. q * Word =< -Word
    BY <1>1, <1>3
  <2> QED
    BY <1>1, <2>1
<1>4. CASE q = 0
  BY <1>1, <1>4
<1> QED
  BY <1>2, <1>3, <1>4

\* ParseDecimal's check of the sum: whatever the width of an int64, it refuses the
\* amounts that do not fit and no others, though it looks only at the wrapped
\* sum; and a sign behind the point is refused unless it is of zero.
THEOREM OverflowIsSeen ==
  ASSUME NEW reais \in 0 .. MaxInt, NEW centavos \in -99 .. 99
  PROVE  ToCents(reais, centavos) =
           IF centavos >= 0 /\ 100 * reais + centavos =< MaxInt
             THEN Parses(100 * reais + centavos) ELSE Invalid
<1> DEFINE sum == 100 * reais + centavos
           cents == Wrap(Wrap(reais * 100) + centavos)
<1>1. Word \in Int /\ Word >= 256 /\ Word \div 2 \in Int /\ Word = 2 * (Word \div 2)
      /\ MaxInt = Word \div 2 - 1 /\ MaxInt \in Int
  BY MoneyAssumption DEF MaxInt
<1>2. reais \in Int /\ centavos \in Int /\ sum \in Int /\ reais >= 0
  BY <1>1
<1>3. PICK p \in Int : Wrap(reais * 100) = reais * 100 - p * Word
  BY <1>2, Wraps
<1>4. Wrap(reais * 100) \in Int /\ Wrap(reais * 100) + centavos \in Int
  <2>1. reais * 100 \in Int
    BY <1>2
  <2>2. Wrap(reais * 100) \in -(Word \div 2) .. MaxInt
    BY <2>1, Wraps
  <2> QED
    BY <1>1, <1>2, <2>2
<1>5. PICK r \in Int : cents = (Wrap(reais * 100) + centavos) - r * Word
  BY <1>4, Wraps
<1>6. cents \in -(Word \div 2) .. MaxInt
  BY <1>4, Wraps
<1>7. PICK q \in Int : cents = sum - q * Word
  <2>1. p * Word \in Int /\ r * Word \in Int /\ (p + r) * Word = p * Word + r * Word
    BY <1>1
  <2>2. cents = sum - (p + r) * Word
    BY <1>2, <1>3, <1>5, <2>1
  <2> QED
    BY <2>2
<1> HIDE DEF sum, cents
<1>8. q * Word \in Int /\ cents \in Int
  BY <1>1, <1>6
<1>9. ToCents(reais, centavos) = IF cents < 0 \/ cents \div 100 # reais THEN Invalid ELSE Parses(cents)
  BY DEF ToCents, cents
<1>10. ASSUME centavos >= 0, sum =< MaxInt PROVE cents = sum
  <2>1. q * Word = sum - cents /\ sum >= 0
    BY <1>2, <1>7, <1>8, <1>10 DEF sum
  <2>2. q * Word < Word /\ -Word < q * Word
    BY <1>1, <1>2, <1>6, <1>8, <1>10, <2>1
  <2>3. q * Word = 0
    BY <1>1, <1>8, <2>2, NoWordBetween
  <2> QED
    BY <1>2, <1>8, <2>1, <2>3
<1>11. cents < 0 \/ cents \div 100 # reais <=> ~(centavos >= 0 /\ sum =< MaxInt)
  <2>1. ASSUME cents >= 0, cents \div 100 = reais PROVE centavos >= 0 /\ sum =< MaxInt
    <3>1. cents - 100 * reais \in 0 .. 99
      BY <1>2, <1>8, <2>1
    <3>2. q * Word = sum - cents
      BY <1>2, <1>7, <1>8
    <3>3. q * Word < Word /\ -Word < q * Word
      BY <1>1, <1>2, <1>8, <3>1, <3>2 DEF sum
    <3>4. q * Word = 0
      BY <1>1, <1>8, <3>3, NoWordBetween
    <3> QED
      BY <1>1, <1>2, <1>6, <1>8, <3>1, <3>2, <3>4 DEF sum
  <2>2. ASSUME centavos >= 0 PROVE sum >= 0 /\ sum \div 100 = reais
    BY <1>2, <2>2 DEF sum
  <2> QED
    BY <1>2, <1>8, <1>10, <2>1, <2>2
<1> QED
  BY <1>9, <1>10, <1>11 DEF sum
=============================================================================
