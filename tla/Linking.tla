------------------------------ MODULE Linking ------------------------------
(***************************************************************************)
(* Linking a brokerage through SnapTrade or a bank through Plaid: the      *)
(* credential the provider issues, the connection that keeps it, and the   *)
(* account and positions its syncs store, beside the owner's edits.        *)
(*                                                                         *)
(* Sources: backend/app/connections/{snaptrade,plaid,router,service}.py,   *)
(* the SnapTrade columns of backend/app/users/models.py.                   *)
(*                                                                         *)
(* One owner of one household, with the second factor on: who may link is  *)
(* not the subject.  A connection has one account.  Its transactions, and  *)
(* syncs of many connections, are BankSync's.                              *)
(***************************************************************************)
EXTENDS Tables

CONSTANTS
    Connection,       \* connection ids, each used once
    Authorization,    \* brokerage authorizations of the owner at SnapTrade
    PublicToken,      \* tokens Plaid Link returned to the owner
    Nickname,
    Security,         \* what may be held
    Worth,            \* the market value of positions together
    Portfolios,       \* what the provider may hold: [total, positions]
    Scenes,           \* what a behaviour is about: request kinds, portfolios, and the
                      \* authorization that is linked at its start, if any
    Mine              \* SnapTrade's credential of the owner (user id and secret)

VARIABLES
    issued,           \* credentials the providers have issued and will not issue again
    authorized,       \* authorizations the owner has given in the portal
    portal,           \* whether a portal URL was handed out
    portfolio,        \* what the provider holds now
    at,               \* at[r]: where request r is, and its local variables
    scene,
    lost              \* observer: credentials whose answer, or holder, was lost

provider == <<scene, issued, authorized, portal, portfolio>>
vars == <<session, provider, at, lost>>

None       == "none"
Credential == {Mine} \cup PublicToken   \* an access token is named by its public token
Link       == Authorization \cup PublicToken

-----------------------------------------------------------------------------
(* Rows.                                                                   *)

User          == <<"user">>
BankRow(k)    == <<"connection", k>>
Account(k)    == <<"account", k>>
Holding(k, x) == <<"holding", k, x>>

Rows == {User} \cup {BankRow(k) : k \in Connection} \cup {Account(k) : k \in Connection}
        \cup {Holding(k, x) : k \in Connection, x \in Security}

ASSUME RowAssumption == Row = Rows
ASSUME LinkAssumption ==
    /\ Authorization \cap PublicToken = {} /\ Mine \notin PublicToken
    /\ Worth \in [SUBSET Security -> Nat]
    /\ Portfolios \subseteq [total : Nat, positions : SUBSET Security]
    /\ \A s \in Scenes : /\ s.portfolios \subseteq Portfolios
                          /\ s.linked \in Authorization \cup {NoRow}
    /\ NoRow \notin Connection \cup Link /\ None \notin Credential

Held     == [held |-> TRUE]
Users    == [secret : {None, Mine}]
Banks    == [link : Link, credential : Credential, status : {"pending", "active", "error"}]
Accounts == [balance : Nat, nickname : Nickname \cup {None}, hidden : BOOLEAN]

ASSUME NoRowAssumption == NoRow \notin Users \cup Banks \cup Accounts \cup {Held}

ValueOK(x, v) ==
    v = NoRow \/ CASE x[1] = "user"       -> v \in Users
                   [] x[1] = "connection" -> v \in Banks
                   [] x[1] = "account"    -> v \in Accounts
                   [] x[1] = "holding"    -> v = Held

\* credential: what was issued to, or loaded by, the request; bank: the connection row as
\* loaded; known (observer): authorizations that had a connection when it began.
Idle == [pc |-> "idle", kind |-> "none", link |-> NoRow, credential |-> None,
         id |-> NoRow, bank |-> NoRow, balance |-> 0, positions |-> {}, known |-> {}]

TypeOK ==
    /\ DOMAIN db = Row /\ \A x \in Row : ValueOK(x, db[x])
    /\ \A r \in Req :
         /\ \A x \in DOMAIN held[r] : ValueOK(x, held[r][x])
         /\ \A x \in DOMAIN want[r] : ValueOK(x, want[r][x].was) /\ ValueOK(x, want[r][x].new)
         /\ at[r].pc \in {"idle", "register", "secret", "provider", "exchange", "find", "create",
                          "refresh", "balance", "positions", "failed", "load", "account", "holdings",
                          "status", "commit", "edit"}
         /\ at[r].kind \in {"none", "portal", "complete", "plaid", "sync", "edit"} /\ at[r].link \in Link \cup {NoRow}
         /\ at[r].credential \in Credential \cup {None}
         /\ at[r].id \in Connection \cup {NoRow} /\ ValueOK(<<"connection">>, at[r].bank)
         /\ at[r].balance \in Nat /\ at[r].positions \subseteq Security
         /\ at[r].known \subseteq Link
    /\ issued \subseteq Credential /\ lost \subseteq Credential
    /\ authorized \subseteq Authorization /\ portal \in BOOLEAN
    /\ portfolio \in Portfolios /\ scene \in Scenes

\* From nothing, or with a connection that is stored and not yet synced.
Init ==
    /\ scene \in Scenes
    /\ portfolio \in scene.portfolios
    /\ want = [r \in Req |-> Nothing]
    /\ held = [r \in Req |-> Nothing]
    /\ at = [r \in Req |-> Idle]
    /\ lost = {}
    /\ \/ /\ scene.linked = NoRow
          /\ db = [x \in Row |-> IF x = User THEN [secret |-> None] ELSE NoRow]
          /\ issued = {} /\ authorized = {} /\ portal = FALSE
       \/ /\ scene.linked # NoRow
          /\ \E k \in Connection :
                db = [x \in Row |-> IF x = User THEN [secret |-> Mine]
                                   ELSE IF x = BankRow(k)
                                     THEN [link |-> scene.linked, credential |-> Mine,
                                           status |-> "pending"]
                                   ELSE NoRow]
          /\ issued = {Mine} /\ authorized = {scene.linked} /\ portal = TRUE

Banked == {k \in Connection : db[BankRow(k)] # NoRow}
Linked == {db[BankRow(k)].link : k \in Banked}

Step(r, new) == at' = [at EXCEPT ![r] = new] /\ UNCHANGED <<provider, lost>>
Go(r, pc) == Step(r, [at[r] EXCEPT !.pc = pc])
End(r) == Step(r, Idle)

Begin(r, kind, new) ==
    /\ at[r].pc = "idle"
    /\ kind \in scene.kinds
    /\ Step(r, [new EXCEPT !.kind = kind, !.known = Linked])
    /\ UNCHANGED session

\* An UPDATE that is sent even if the modelled columns stay: as_of, last_synced_at.
Touch(x, was, new) == [y \in {x} |-> Change(was, new)]

-----------------------------------------------------------------------------
(* SnapTrade: the owner's credential.                                      *)

\* ensure_snaptrade_user goes by the user row that was loaded with the request.
BeginSnapTrade(r, kind, link) ==
    LET secret == db[User].secret IN
    Begin(r, kind, [Idle EXCEPT !.pc = IF secret = None THEN "register" ELSE "provider",
                                !.link = link, !.credential = secret])

Portal(r) == BeginSnapTrade(r, "portal", NoRow)

\* The authorization is whatever the body names: one the portal sent the owner back with, or
\* one that SnapTrade does not know.
Complete(r) == \E a \in Authorization : BeginSnapTrade(r, "complete", a)

\* register_snap_trade_user, once only; the secret is then to be stored.
Register(r) ==
    /\ at[r].pc = "register"
    /\ Mine \notin issued
    /\ issued' = issued \cup {Mine}
    /\ at' = [at EXCEPT ![r].pc = "secret", ![r].credential = Mine]
    /\ Pend(r, Becomes(User, [secret |-> None], [secret |-> Mine]))
    /\ UNCHANGED <<scene, authorized, portal, portfolio, lost>>

\* "User already exists but secret is missing": also when another request is just about
\* to store it, or has done so since this one loaded the user.
AlreadyRegistered(r) ==
    at[r].pc = "register" /\ Mine \in issued /\ End(r) /\ UNCHANGED session

\* Mutant: the secret is left to the request's last commit, which it may not reach.
KeepSecretLater(r) ==
    /\ at[r].pc = "secret"
    /\ \/ Store(r) /\ Go(r, "provider")
       \/ Rollback(r) /\ End(r)

\* It is committed before anything else is asked of SnapTrade.
KeepSecret(r) == at[r].pc = "secret" /\ Store(r) /\ Go(r, "provider")

\* create_portal_url.
OpenPortal(r) ==
    /\ at[r].pc = "provider" /\ at[r].kind = "portal"
    /\ portal' = TRUE
    /\ at' = [at EXCEPT ![r] = Idle]
    /\ UNCHANGED <<session, scene, issued, authorized, portfolio, lost>>

\* list_authorizations.  What it lists only tells the institution's name.
ListAuthorizations(r) ==
    /\ at[r].pc = "provider" /\ at[r].kind = "complete"
    /\ Go(r, "find")
    /\ UNCHANGED session

\* sync_connection of a connection that was loaded, or just stored.
Syncing(k, bank) == [Idle EXCEPT !.pc = "balance", !.kind = "sync", !.id = k, !.bank = bank]

\* Mutant: only connections that work are looked through.
FoundActive(r) == {k \in Banked : db[BankRow(k)].link = at[r].link /\ db[BankRow(k)].status = "active"}

\* The household's connections, their login ids decrypted.
Found(r) == {k \in Banked : db[BankRow(k)].link = at[r].link}

\* create_connection: the INSERT.  No key compares the authorization.
Create(r) ==
    \E k \in Connection :
        /\ db[BankRow(k)] = NoRow /\ \A q \in Req : at[q].id # k
        /\ LET bank == [link |-> at[r].link, credential |-> at[r].credential,
                        status |-> "pending"] IN
           /\ Pend(r, Becomes(BankRow(k), NoRow, bank))
           /\ Step(r, [at[r] EXCEPT !.pc = "create", !.id = k, !.bank = bank])

\* complete_snaptrade_connection: syncs the connection that is there, or creates one.
FindConnection(r) ==
    /\ at[r].pc = "find"
    /\ \/ Found(r) = {} /\ Create(r)
       \/ \E k \in Found(r) :
             /\ Step(r, Syncing(k, db[BankRow(k)]))
             /\ UNCHANGED session

Created(r) ==
    /\ at[r].pc = "create" /\ Store(r)
    /\ Step(r, [Idle EXCEPT !.pc = "refresh", !.kind = "sync", !.id = at[r].id])

\* The row is read again once it is committed.
Refresh(r) ==
    /\ at[r].pc = "refresh"
    /\ Step(r, Syncing(at[r].id, db[BankRow(at[r].id)]))
    /\ UNCHANGED session

-----------------------------------------------------------------------------
(* Plaid.                                                                  *)

ConnectPlaid(r) ==
    \E p \in PublicToken : Begin(r, "plaid", [Idle EXCEPT !.pc = "exchange", !.link = p])

\* exchange_public_token: a public token is exchanged once.
Exchange(r) ==
    LET p == at[r].link IN
    /\ at[r].pc = "exchange"
    /\ p \notin issued
    /\ \E k \in Connection :
         /\ db[BankRow(k)] = NoRow /\ \A q \in Req : at[q].id # k
         /\ LET bank == [link |-> p, credential |-> p, status |-> "pending"] IN
            /\ Pend(r, Becomes(BankRow(k), NoRow, bank))
            /\ at' = [at EXCEPT ![r] = [@ EXCEPT !.pc = "create", !.credential = p,
                                                 !.id = k, !.bank = bank]]
    /\ issued' = issued \cup {p}
    /\ UNCHANGED <<scene, authorized, portal, portfolio, lost>>

ExchangeFails(r) ==
    at[r].pc = "exchange" /\ at[r].link \in issued /\ End(r) /\ UNCHANGED session

-----------------------------------------------------------------------------
(* sync_connection, as far as one account and its positions go.            *)

\* POST /connections/{id}/sync and /plaid/{id}/reauth-complete.
Resync(r) ==
    \E k \in Banked :
        /\ at[r].pc = "idle" /\ "resync" \in scene.kinds
        /\ Step(r, Syncing(k, db[BankRow(k)]))
        /\ UNCHANGED session

Brokerage(r) == at[r].bank.link \in Authorization

\* fetch_snapshot: a list of accounts that is none, or has none of the authorization, is an
\* empty snapshot, which leaves account and positions as they are.
FetchNothing(r) ==
    at[r].pc = "balance" /\ Brokerage(r) /\ Go(r, "holdings") /\ UNCHANGED session

\* Of the account that is listed, a balance call that fails counts as 0 ...
FetchBalance(r) ==
    /\ at[r].pc = "balance"
    /\ at[r].bank.link \in PublicToken \cup authorized
    /\ \E balance \in {portfolio.total} \cup (IF Brokerage(r) THEN {0} ELSE {}) :
         Step(r, [at[r] EXCEPT !.balance = balance,
                               !.pc = IF Brokerage(r) THEN "positions" ELSE "load"])
    /\ UNCHANGED session

\* ... a positions call that fails as none; and a balance of 0 is their sum.
FetchPositions(r) ==
    /\ at[r].pc = "positions"
    /\ \E positions \in {portfolio.positions, {}} :
         Step(r, [at[r] EXCEPT !.pc = "load", !.positions = positions,
                               !.balance = IF @ = 0 THEN Worth[positions] ELSE @])
    /\ UNCHANGED session

\* Mutant: a status of its own.
FetchFailsAs(r) ==
    /\ at[r].pc \in {"balance", "positions"}
    /\ Pend(r, Becomes(BankRow(at[r].id), at[r].bank, [at[r].bank EXCEPT !.status = "failed"]))
    /\ Go(r, "failed")

\* A fetch that fails before or between: status "error", sent if it was not loaded as such.
FetchFails(r) ==
    /\ at[r].pc \in {"balance", "positions"}
    /\ Pend(r, Becomes(BankRow(at[r].id), at[r].bank, [at[r].bank EXCEPT !.status = "error"]))
    /\ Go(r, "failed")

Failed(r) == at[r].pc = "failed" /\ Store(r) /\ End(r)

\* Mutant: the account is written anew.
RenewedAccount(account, balance) == [balance |-> balance, nickname |-> None, hidden |-> FALSE]

\* The account as the sync leaves it.
SyncedAccount(account, balance) ==
    IF account = NoRow THEN [balance |-> balance, nickname |-> None, hidden |-> FALSE]
    ELSE [account EXCEPT !.balance = balance]

\* The account is loaded, and inserted or assigned to.
WriteAccount(r) ==
    LET x == Account(at[r].id) IN
    /\ at[r].pc = "load"
    /\ Pend(r, Becomes(x, db[x], SyncedAccount(db[x], at[r].balance)))
    /\ Step(r, [at[r] EXCEPT !.pc = "account", !.balance = 0])

\* _upsert_holdings: rows served are inserted or touched, the others deleted.
WriteHoldings(r) ==
    LET stored == {x \in Security : db[Holding(at[r].id, x)] # NoRow}
        row(x) == Holding(at[r].id, x)
        rows(S) == {row(x) : x \in S}
    IN  /\ at[r].pc = "account"
        /\ Clean(r)
        /\ Pend(r, [y \in rows(stored \cup at[r].positions) |->
                      Change(IF y \in rows(stored) THEN Held ELSE NoRow,
                             IF y \in rows(at[r].positions) THEN Held ELSE NoRow)])
        /\ Step(r, [at[r] EXCEPT !.pc = "holdings", !.positions = {}])

\* last_synced_at is always sent, the status if it was loaded as another.
WriteStatus(r) ==
    /\ at[r].pc = "holdings"
    /\ Clean(r)
    /\ Pend(r, Touch(BankRow(at[r].id), at[r].bank, [at[r].bank EXCEPT !.status = "active"]))
    /\ Go(r, "commit")

Commit(r) == at[r].pc = "commit" /\ Store(r) /\ End(r)

-----------------------------------------------------------------------------
(* PATCH /connections/accounts/{id}.                                       *)

Edit(r) ==
    \E k \in Connection :
        LET account == db[Account(k)] IN
        /\ account # NoRow
        /\ at[r].pc = "idle" /\ "edit" \in scene.kinds
        /\ \E n \in Nickname, h \in BOOLEAN :
             Pend(r, Becomes(Account(k), account, [account EXCEPT !.nickname = n, !.hidden = h]))
        /\ Step(r, [Idle EXCEPT !.pc = "edit", !.kind = "edit", !.id = k])

Edited(r) == at[r].pc = "edit" /\ Store(r) /\ End(r)

-----------------------------------------------------------------------------
(* Statements, the providers, the process.                                 *)

Sends(r) == Flush(r) /\ UNCHANGED <<provider, at, lost>>

\* A statement fails, or waits in a cycle: the request ends.
Breaks(r) == (FlushFails(r) \/ DeadlockVictim(r)) /\ End(r)

\* The owner authorizes a brokerage in the portal.
Authorize ==
    /\ portal
    /\ \E a \in Authorization : authorized' = authorized \cup {a}
    /\ UNCHANGED <<session, scene, issued, portal, portfolio, at, lost>>

Trade ==
    /\ \E p \in scene.portfolios \ {portfolio} : portfolio' = p
    /\ UNCHANGED <<session, scene, issued, authorized, portal, at, lost>>

\* A provider call that fails; register and exchange may have been carried out.
CallFails(r) ==
    /\ at[r].pc \in {"register", "exchange", "provider"}
    /\ \E S \in SUBSET (IF at[r].pc = "register" THEN {Mine}
                        ELSE IF at[r].pc = "exchange" THEN {at[r].link} ELSE {}) :
         /\ issued' = issued \cup S
         /\ lost' = lost \cup (S \ issued)
    /\ at' = [at EXCEPT ![r] = Idle]
    /\ UNCHANGED <<session, scene, authorized, portal, portfolio>>

Stored == ({db[User].secret} \cup {db[BankRow(k)].credential : k \in Banked}) \ {None}

\* The process dies: open transactions roll back, requests are gone.
Crash ==
    /\ want' = [r \in Req |-> Nothing]
    /\ held' = [r \in Req |-> Nothing]
    /\ at' = [r \in Req |-> Idle]
    /\ lost' = issued \ Stored
    /\ UNCHANGED <<db, provider>>

Work(r) ==
    \/ Register(r) \/ AlreadyRegistered(r) \/ KeepSecret(r)
    \/ OpenPortal(r) \/ ListAuthorizations(r) \/ FindConnection(r) \/ Created(r) \/ Refresh(r)
    \/ Exchange(r) \/ ExchangeFails(r) \/ CallFails(r)
    \/ FetchNothing(r) \/ FetchBalance(r) \/ FetchPositions(r) \/ FetchFails(r) \/ Failed(r)
    \/ WriteAccount(r) \/ WriteHoldings(r) \/ WriteStatus(r) \/ Commit(r)
    \/ Edited(r)
    \/ Sends(r) \/ Breaks(r)

Next ==
    \/ \E r \in Req : Portal(r) \/ Complete(r) \/ ConnectPlaid(r) \/ Resync(r) \/ Edit(r)
    \/ \E r \in Req : Work(r)
    \/ Authorize \/ Trade \/ Crash

Spec == Init /\ [][Next]_vars

-----------------------------------------------------------------------------
(* Properties.                                                             *)

\* A credential is issued once and for all.  Whatever requests overlap or fail, it is
\* stored, or on its way in a request, unless its answer was lost or the process died
\* with it; and what is stored is what the provider accepts.
CredentialsKept ==
    /\ \A c \in issued \ lost : c \in Stored \/ \E r \in Req : at[r].credential = c
    /\ Stored \subseteq issued

\* Completing an authorization that had a connection when the request began, however its
\* syncs went, adds no second one.
ConnectedOnce ==
    [][\A r \in Req : Created(r) => at[r].link \notin at[r].known]_vars

\* A sync and an edit of one account may overlap: the name and visibility the owner gave
\* change only by an edit, the balance only by a sync.
EditStands(k) ==
    LET was == db[Account(k)]
        now == db'[Account(k)]
    IN  was # NoRow =>
          /\ now # NoRow
          /\ <<was.nickname, was.hidden>> # <<now.nickname, now.hidden>> =>
                \E r \in Req : Edited(r) /\ at[r].id = k
          /\ was.balance # now.balance => \E r \in Req : Commit(r) /\ at[r].id = k

OwnersEditsStand == [][\A k \in Connection : EditStands(k)]_vars
=============================================================================
