--------------------------- MODULE LinkingProofs ---------------------------
(***************************************************************************)
(* Theorems about Linking, for any number of requests, connections,        *)
(* authorizations and public tokens.                                       *)
(***************************************************************************)
EXTENDS Linking, TLAPS

-----------------------------------------------------------------------------
(* The inductive invariant.                                                *)

Pc == {"idle", "register", "secret", "provider", "exchange", "find", "create", "refresh",
       "balance", "positions", "failed", "load", "account", "holdings", "commit", "edit"}

Local == [pc : Pc, kind : {"none", "portal", "complete", "plaid", "sync", "edit"},
          link : Link \cup {NoRow}, credential : Credential \cup {None},
          id : Connection \cup {NoRow}, bank : Banks \cup {NoRow}, balance : Nat,
          positions : SUBSET Security, known : SUBSET Link]

Shapes ==
    /\ DOMAIN want = Req /\ DOMAIN held = Req
    /\ at \in [Req -> Local]
    /\ issued \subseteq Credential
    /\ authorized \subseteq Authorization

\* What is stored fits together.
TablesOK ==
    /\ db[User] \in Users
    /\ db[User].secret = Mine => Mine \in issued
    /\ \A k \in Connection :
         /\ db[BankRow(k)] # NoRow =>
              /\ db[BankRow(k)] \in Banks
              /\ db[BankRow(k)].credential \in issued
              /\ db[BankRow(k)].link \in PublicToken =>
                   db[BankRow(k)].credential = db[BankRow(k)].link
         /\ db[Account(k)] # NoRow => db[Account(k)] \in Accounts /\ db[BankRow(k)] # NoRow

RowsOf(k) == {BankRow(k), Account(k)} \cup {Holding(k, x) : x \in Security}

\* The rows a request may have changed so far.
Scope(s) ==
    CASE s.pc = "secret" -> {User}
      [] s.pc \in {"create", "failed"} -> {BankRow(s.id)}
      [] s.pc \in {"account", "edit"} -> {Account(s.id)}
      [] s.pc \in {"holdings", "commit"} -> RowsOf(s.id)
      [] OTHER -> {}

ScopeOK(r) ==
    /\ DOMAIN want[r] \subseteq Scope(at[r]) /\ DOMAIN held[r] \subseteq Scope(at[r])
    /\ DOMAIN want[r] \cap DOMAIN held[r] = {}

\* The user row is changed by the one request that registers.
SecretOK(r) ==
    /\ at[r].pc = "secret" =>
         /\ at[r].credential = Mine /\ Mine \in issued /\ db[User].secret = None
         /\ User \in DOMAIN want[r] \cup DOMAIN held[r]
    /\ User \in DOMAIN want[r] =>
         want[r][User] = Change([secret |-> None], [secret |-> Mine])
    /\ User \in DOMAIN held[r] => held[r][User] = [secret |-> Mine]

Alike(a, b) == a.link = b.link /\ a.credential = b.credential

\* A connection is inserted by the request that made it up; others change its status.
BankOK(r) ==
    LET s == at[r]
        x == BankRow(s.id)
    IN  /\ s.pc = "create" =>
             /\ x \in DOMAIN want[r] \cup DOMAIN held[r]
             /\ x \in DOMAIN want[r] => want[r][x] = Change(NoRow, s.bank)
             /\ x \in DOMAIN held[r] => held[r][x] = s.bank
        /\ s.pc \in {"failed", "commit"} =>
             /\ x \in DOMAIN want[r] => /\ want[r][x].was \in Banks /\ want[r][x].new \in Banks
                                        /\ Alike(want[r][x].was, want[r][x].new)
             /\ x \in DOMAIN held[r] => held[r][x] \in Banks /\ Alike(held[r][x], db[x])
        /\ s.pc = "holdings" => x \notin DOMAIN want[r] \cup DOMAIN held[r]

SameEdits(a, b)  == a.nickname = b.nickname /\ a.hidden = b.hidden

\* An account is inserted or given a balance by a sync, and the rest by an edit.
AccountOK(r) ==
    LET s == at[r]
        x == Account(s.id)
    IN  /\ s.pc \in {"account", "edit"} /\ x \in DOMAIN want[r] =>
             /\ want[r][x].new \in Accounts
             /\ want[r][x].was # NoRow => /\ want[r][x].was \in Accounts
                                          /\ s.pc = "account" => SameEdits(want[r][x].was, want[r][x].new)
                                          /\ s.pc = "edit" => want[r][x].was.balance = want[r][x].new.balance
             /\ s.pc = "edit" => want[r][x].was # NoRow
        /\ s.pc \in {"account", "edit", "holdings", "commit"} /\ x \in DOMAIN held[r] =>
             /\ held[r][x] \in Accounts
             /\ db[x] # NoRow =>
                  /\ s.pc = "edit" => held[r][x].balance = db[x].balance
                  /\ s.pc # "edit" => SameEdits(held[r][x], db[x])
        /\ s.pc \in {"holdings", "commit"} => x \notin DOMAIN want[r]

Working == {"refresh", "balance", "positions", "failed", "load", "account", "holdings",
            "commit", "edit"}

\* What a request goes by.
LocalOK(r) ==
    LET s == at[r] IN
    /\ s.pc \in Working => s.id \in Connection /\ db[BankRow(s.id)] # NoRow
    /\ s.pc \in Working \ {"refresh", "edit"} => s.bank \in Banks
    /\ s.pc = "create" =>
         /\ s.id \in Connection /\ db[BankRow(s.id)] = NoRow
         /\ \A q \in Req \ {r} : at[q].id # s.id
         /\ s.bank \in Banks /\ s.bank.link = s.link /\ s.bank.credential = s.credential
         /\ s.credential \in issued
         /\ s.link \in PublicToken => s.credential = s.link
         /\ s.link \notin s.known
    /\ s.pc \notin Working \cup {"create"} => s.id = NoRow
    /\ s.pc \in {"provider", "find"} => s.credential = Mine /\ db[User].secret = Mine
    /\ s.pc \notin {"provider", "find", "secret", "create"} => s.credential = None
    /\ s.kind = "complete" => s.link \in Authorization
    /\ s.pc = "find" => s.kind = "complete"
    /\ s.pc = "exchange" => s.link \in PublicToken
    /\ s.known \subseteq Linked

RequestOK(r) == ScopeOK(r) /\ SecretOK(r) /\ BankOK(r) /\ AccountOK(r) /\ LocalOK(r)

OneRegisters == \A r, q \in Req : at[r].pc = "secret" /\ at[q].pc = "secret" => r = q

IInv ==
    /\ Shapes /\ TablesOK /\ OneRegisters /\ LocksExclude
    /\ \A r \in Req : RequestOK(r)

-----------------------------------------------------------------------------
(* Rows.                                                                   *)

LEMMA RowNames ==
    /\ \A k : User # BankRow(k) /\ User # Account(k)
    /\ \A k, x : User # Holding(k, x)
    /\ \A k, j : BankRow(k) # Account(j)
    /\ \A k, j, x : BankRow(k) # Holding(j, x) /\ Account(k) # Holding(j, x)
    /\ \A k, j : (BankRow(k) = BankRow(j) => k = j) /\ (Account(k) = Account(j) => k = j)
BY DEF User, BankRow, Account, Holding

LEMMA RowsAreRows ==
    /\ User \in Row
    /\ \A k \in Connection : BankRow(k) \in Row /\ Account(k) \in Row
BY RowAssumption DEF Rows

LEMMA NoRowIsNone ==
    /\ NoRow \notin Users /\ NoRow \notin Banks
    /\ NoRow \notin Connection /\ NoRow \notin Link /\ None \notin Credential
BY NoRowAssumption, LinkAssumption DEF Credential

PortfolioOK == scene \in Scenes /\ portfolio \in Portfolios

\* What a credential issued is: stored, or on its way, unless it was lost.
Kept == \A c \in issued \ lost : c \in Stored \/ \E r \in Req : at[r].credential = c

-----------------------------------------------------------------------------
(* What a step of one request leaves of the others.                        *)

\* What others may do to the rows a request goes by.
Grows ==
    /\ db[User].secret = Mine => db'[User] = db[User]
    /\ \A k \in Connection :
         /\ db[BankRow(k)] # NoRow => db'[BankRow(k)] # NoRow /\ Alike(db'[BankRow(k)], db[BankRow(k)])
         /\ db[Account(k)] # NoRow => db'[Account(k)] # NoRow

LEMMA GrowsLinked ==
    ASSUME Grows
    PROVE  Linked \subseteq Linked'
BY DEF Grows, Linked, Banked, Alike

LEMMA GrowsStored ==
    ASSUME Grows, TablesOK
    PROVE  Stored \subseteq Stored'
BY DEF Grows, Stored, Banked, Alike, TablesOK, Users

\* A request that does not move, while another changes no row it has locked.
LEMMA OtherKeeps ==
    ASSUME IInv, Grows, NEW q \in Req,
           at'[q] = at[q], want'[q] = want[q], held'[q] = held[q],
           issued \subseteq issued',
           \A x \in Row : x \in DOMAIN held[q] => db'[x] = db[x],
           at[q].pc = "secret" => db'[User] = db[User],
           at[q].pc = "create" =>
             /\ db'[BankRow(at[q].id)] = NoRow
             /\ \A p \in Req \ {q} : at'[p].id # at[q].id
    PROVE  RequestOK(q)'
<1> USE RowNames, RowsAreRows
<1>1. RequestOK(q) /\ at[q] \in Local
  BY DEF IInv, Shapes
<1>2. ScopeOK(q)'
  BY <1>1 DEF RequestOK, ScopeOK, Scope, RowsOf
<1>3. SecretOK(q)'
  BY <1>1 DEF RequestOK, SecretOK
<1>4. BankOK(q)'
  <2>1. at[q].pc \in {"failed", "commit"} /\ BankRow(at[q].id) \in DOMAIN held[q]
          => db'[BankRow(at[q].id)] = db[BankRow(at[q].id)]
    BY <1>1 DEF RequestOK, LocalOK, Working
  <2> QED BY <1>1, <2>1 DEF RequestOK, BankOK
<1>5. AccountOK(q)'
  <2>1. at[q].pc \in {"account", "edit", "holdings", "commit"} /\ Account(at[q].id) \in DOMAIN held[q]
          => db'[Account(at[q].id)] = db[Account(at[q].id)]
    BY <1>1 DEF RequestOK, LocalOK, Working
  <2> QED BY <1>1, <2>1 DEF RequestOK, AccountOK
<1>6. LocalOK(q)'
  <2>1. at[q].known \subseteq Linked'
    BY <1>1, GrowsLinked DEF RequestOK, LocalOK
  <2>2. at[q].pc \in Working => db'[BankRow(at[q].id)] # NoRow
    BY <1>1 DEF RequestOK, LocalOK, Grows
  <2>3. at[q].pc \in {"provider", "find"} => db'[User].secret = Mine
    BY <1>1 DEF RequestOK, LocalOK, Grows
  <2> QED BY <1>1, <2>1, <2>2, <2>3 DEF RequestOK, LocalOK
<1> QED BY <1>2, <1>3, <1>4, <1>5, <1>6 DEF RequestOK

-----------------------------------------------------------------------------
(* The two shapes of a step of a request: it does not store, or it does.   *)

\* Of the database sessions only r's changes, and it takes no row another has locked.
OnlySession(r) ==
    /\ db' = db
    /\ DOMAIN want' = Req /\ DOMAIN held' = Req
    /\ \A q \in Req \ {r} : /\ want'[q] = want[q] /\ held'[q] = held[q]
                            /\ DOMAIN held'[r] \cap DOMAIN held[q] = {}

\* Whatever a request reads and changes in its session: nobody else notices.
LEMMA SessionStep ==
    ASSUME IInv, Kept, NEW r \in Req, NEW new \in Local,
           at' = [at EXCEPT ![r] = new], OnlySession(r),
           issued \subseteq issued', issued' \subseteq Credential,
           authorized' \subseteq Authorization,
           RequestOK(r)',
           new.pc = "secret" => \A q \in Req \ {r} : at[q].pc # "secret",
           issued' \ lost' \subseteq (issued \ lost) \cup {new.credential},
           at[r].credential \in {None, new.credential} \cup Stored
    PROVE  IInv' /\ Kept'
<1> USE DEF IInv, OnlySession
<1>1. Shapes'
  BY DEF Shapes
<1>2. /\ at'[r] = new
      /\ \A q \in Req \ {r} : at'[q] = at[q] /\ want'[q] = want[q] /\ held'[q] = held[q]
  BY DEF Shapes
<1>3. TablesOK'
  BY DEF TablesOK
<1>4. OneRegisters'
  BY <1>2 DEF OneRegisters
<1>5. LocksExclude'
  BY <1>2 DEF LocksExclude
<1>6. Grows
  BY DEF Grows, Alike
<1>7. ASSUME NEW q \in Req \ {r} PROVE RequestOK(q)'
  <2>1. at[q].pc = "create" => new.id # at[q].id
    <3>1. RequestOK(q) /\ LocalOK(r)'
      BY DEF RequestOK
    <3> QED BY <3>1, <1>2, NoRowIsNone DEF RequestOK, LocalOK
  <2>2. at[q].pc = "create" =>
          /\ db'[BankRow(at[q].id)] = NoRow
          /\ \A p \in Req \ {q} : at'[p].id # at[q].id
    BY <1>2, <2>1 DEF RequestOK, LocalOK
  <2> QED BY <1>2, <1>6, <2>2, OtherKeeps
<1>8. Stored' = Stored
  BY DEF Stored, Banked
<1>9. Kept'
  <2> SUFFICES ASSUME NEW c \in issued' \ lost'
               PROVE  c \in Stored' \/ \E q \in Req : at'[q].credential = c
    BY DEF Kept
  <2>1. CASE c = new.credential
    BY <1>2, <2>1
  <2>2. CASE c \in issued \ lost
    <3>1. CASE c \in Stored
      BY <3>1, <1>8
    <3>2. ASSUME NEW q \in Req, at[q].credential = c
          PROVE  c \in Stored' \/ \E p \in Req : at'[p].credential = c
      <4>1. c # None
        BY NoRowIsNone DEF Shapes
      <4>2. CASE q = r
        BY <3>2, <4>1, <4>2, <1>2, <1>8
      <4>3. CASE q # r
        BY <3>2, <4>3, <1>2
      <4> QED BY <4>2, <4>3
    <3> QED BY <2>2, <3>1, <3>2 DEF Kept
  <2> QED BY <2>1, <2>2
<1> QED BY <1>1, <1>3, <1>4, <1>5, <1>7, <1>9

\* What a COMMIT changes, by what the request was doing.
LEMMA StoredRows ==
    ASSUME IInv, NEW r \in Req, Store(r)
    PROVE  /\ \A x \in Row : IF x \in DOMAIN held[r] THEN db'[x] = held[r][x] ELSE db'[x] = db[x]
           /\ DOMAIN want[r] = {}
           /\ IF at[r].pc = "secret" THEN db'[User] = [secret |-> Mine] ELSE db'[User] = db[User]
           /\ \A k \in Connection :
                \/ db'[BankRow(k)] = db[BankRow(k)]
                \/ at[r].id = k /\ at[r].pc = "create" /\ db'[BankRow(k)] = at[r].bank
                \/ /\ at[r].id = k /\ at[r].pc \in {"failed", "commit"}
                   /\ db'[BankRow(k)] \in Banks /\ Alike(db'[BankRow(k)], db[BankRow(k)])
           /\ \A k \in Connection :
                \/ db'[Account(k)] = db[Account(k)]
                \/ /\ at[r].id = k /\ at[r].pc \in {"account", "edit", "holdings", "commit"}
                   /\ db'[Account(k)] \in Accounts
                   /\ db[Account(k)] # NoRow =>
                        /\ at[r].pc = "edit" => db'[Account(k)].balance = db[Account(k)].balance
                        /\ at[r].pc # "edit" => SameEdits(db'[Account(k)], db[Account(k)])
           /\ at[r].pc = "create" => db'[BankRow(at[r].id)] = at[r].bank
<1> USE RowNames, RowsAreRows
<1>1. /\ RequestOK(r) /\ at[r] \in Local
      /\ \A x \in Row : IF x \in DOMAIN held[r] THEN db'[x] = held[r][x] ELSE db'[x] = db[x]
      /\ DOMAIN want[r] = {}
  BY DEF IInv, Shapes, Store, Clean, Nothing, Sees
<1>2. DOMAIN held[r] \subseteq Scope(at[r])
  BY <1>1 DEF RequestOK, ScopeOK
<1>3. IF at[r].pc = "secret" THEN db'[User] = [secret |-> Mine] ELSE db'[User] = db[User]
  <2>1. at[r].pc = "secret" => User \in DOMAIN held[r]
    BY <1>1 DEF RequestOK, SecretOK
  <2>2. User \in DOMAIN held[r] => at[r].pc = "secret"
    BY <1>2 DEF Scope, RowsOf
  <2> QED BY <1>1, <2>1, <2>2 DEF RequestOK, SecretOK
<1>4. at[r].pc = "create" => db'[BankRow(at[r].id)] = at[r].bank
  BY <1>1 DEF RequestOK, BankOK, LocalOK
<1>5. ASSUME NEW k \in Connection
      PROVE  \/ db'[BankRow(k)] = db[BankRow(k)]
             \/ at[r].id = k /\ at[r].pc = "create" /\ db'[BankRow(k)] = at[r].bank
             \/ /\ at[r].id = k /\ at[r].pc \in {"failed", "commit"}
                /\ db'[BankRow(k)] \in Banks /\ Alike(db'[BankRow(k)], db[BankRow(k)])
  <2>1. CASE BankRow(k) \notin DOMAIN held[r]
    BY <1>1, <2>1
  <2>2. CASE BankRow(k) \in DOMAIN held[r]
    <3>1. at[r].id = k /\ at[r].pc \in {"create", "failed", "holdings", "commit"}
      BY <1>2, <2>2 DEF Scope, RowsOf
    <3> QED BY <1>1, <2>2, <3>1, <1>4 DEF RequestOK, BankOK
  <2> QED BY <2>1, <2>2
<1>6. ASSUME NEW k \in Connection
      PROVE  \/ db'[Account(k)] = db[Account(k)]
             \/ /\ at[r].id = k /\ at[r].pc \in {"account", "edit", "holdings", "commit"}
                /\ db'[Account(k)] \in Accounts
                /\ db[Account(k)] # NoRow =>
                     /\ at[r].pc = "edit" => db'[Account(k)].balance = db[Account(k)].balance
                     /\ at[r].pc # "edit" => SameEdits(db'[Account(k)], db[Account(k)])
  <2>1. CASE Account(k) \notin DOMAIN held[r]
    BY <1>1, <2>1
  <2>2. CASE Account(k) \in DOMAIN held[r]
    <3>1. at[r].id = k /\ at[r].pc \in {"account", "edit", "holdings", "commit"}
      BY <1>2, <2>2 DEF Scope, RowsOf
    <3> QED BY <1>1, <2>2, <3>1 DEF RequestOK, AccountOK
  <2> QED BY <2>1, <2>2
<1> QED BY <1>1, <1>3, <1>4, <1>5, <1>6

LEMMA StoreGrows ==
    ASSUME IInv, NEW r \in Req, Store(r)
    PROVE  Grows
<1>1. RequestOK(r)
  BY DEF IInv
<1>2. db[User].secret = Mine => db'[User] = db[User]
  BY <1>1, StoredRows, NoRowIsNone DEF RequestOK, SecretOK, Credential
<1>3. ASSUME NEW k \in Connection, db[BankRow(k)] # NoRow
      PROVE  db'[BankRow(k)] # NoRow /\ Alike(db'[BankRow(k)], db[BankRow(k)])
  BY <1>1, <1>3, StoredRows, NoRowIsNone DEF RequestOK, LocalOK, Alike
<1>4. ASSUME NEW k \in Connection, db[Account(k)] # NoRow
      PROVE  db'[Account(k)] # NoRow
  BY <1>4, StoredRows, NoRowAssumption
<1> QED BY <1>2, <1>3, <1>4 DEF Grows

LEMMA StoreFits ==
    ASSUME IInv, NEW r \in Req, Store(r), issued' = issued
    PROVE  TablesOK'
<1> USE NoRowIsNone
<1>1. RequestOK(r) /\ at[r] \in Local /\ Grows
  BY StoreGrows DEF IInv, Shapes
<1>2. db'[User] \in Users /\ (db'[User].secret = Mine => Mine \in issued)
  BY <1>1, StoredRows DEF IInv, TablesOK, RequestOK, SecretOK, Users
<1>3. ASSUME NEW k \in Connection, db'[BankRow(k)] # NoRow
      PROVE  /\ db'[BankRow(k)] \in Banks
             /\ db'[BankRow(k)].credential \in issued
             /\ db'[BankRow(k)].link \in PublicToken =>
                  db'[BankRow(k)].credential = db'[BankRow(k)].link
  <2>1. CASE db'[BankRow(k)] = db[BankRow(k)]
    BY <1>3, <2>1 DEF IInv, TablesOK
  <2>2. CASE at[r].pc = "create" /\ db'[BankRow(k)] = at[r].bank
    BY <1>1, <2>2 DEF RequestOK, LocalOK
  <2>3. CASE /\ at[r].id = k /\ at[r].pc \in {"failed", "commit"}
             /\ db'[BankRow(k)] \in Banks /\ Alike(db'[BankRow(k)], db[BankRow(k)])
    BY <1>1, <2>3 DEF RequestOK, LocalOK, Working, IInv, TablesOK, Alike
  <2> QED BY <2>1, <2>2, <2>3, StoredRows
<1>4. ASSUME NEW k \in Connection, db'[Account(k)] # NoRow
      PROVE  db'[Account(k)] \in Accounts /\ db'[BankRow(k)] # NoRow
  <2>1. CASE db'[Account(k)] = db[Account(k)]
    BY <1>1, <1>4, <2>1 DEF IInv, TablesOK, Grows
  <2>2. CASE /\ at[r].id = k /\ at[r].pc \in {"account", "edit", "holdings", "commit"}
             /\ db'[Account(k)] \in Accounts
    BY <1>1, <2>2 DEF RequestOK, LocalOK, Working, Grows
  <2> QED BY <2>1, <2>2, StoredRows
<1> QED BY <1>2, <1>3, <1>4 DEF TablesOK

LEMMA CommitStep ==
    ASSUME IInv, Kept, NEW r \in Req, NEW new \in Local, Store(r),
           at' = [at EXCEPT ![r] = new], UNCHANGED provider, lost' = lost,
           new.pc \in {"idle", "provider", "refresh"}, LocalOK(r)',
           at[r].credential \in {None, new.credential} \cup Stored'
    PROVE  IInv' /\ Kept'
<1> USE DEF IInv, provider
<1>1. Shapes'
  BY DEF Shapes, Store
<1>2. /\ at'[r] = new
      /\ \A q \in Req \ {r} : at'[q] = at[q] /\ held'[q] = held[q]
      /\ \A q \in Req : want'[q] = want[q]
      /\ DOMAIN held'[r] = {} /\ DOMAIN want[r] = {}
  BY StoredRows DEF Shapes, Store, Nothing
<1>3. TablesOK'
  BY StoreFits
<1>4. OneRegisters'
  BY <1>2 DEF OneRegisters
<1>5. LocksExclude'
  BY <1>2 DEF LocksExclude
<1>6. Grows
  BY StoreGrows
<1>7. RequestOK(r)'
  BY <1>2 DEF RequestOK, ScopeOK, SecretOK, BankOK, AccountOK
<1>8. ASSUME NEW q \in Req \ {r} PROVE RequestOK(q)'
  <2>1. \A x \in Row : x \in DOMAIN held[q] => db'[x] = db[x]
    BY StoredRows DEF LocksExclude
  <2>2. at[q].pc = "secret" => db'[User] = db[User]
    BY StoredRows DEF OneRegisters
  <2>3. at[q].pc = "create" =>
          /\ db'[BankRow(at[q].id)] = NoRow
          /\ \A p \in Req \ {q} : at'[p].id # at[q].id
    <3>1. at[q].pc = "create" =>
            /\ at[q].id \in Connection /\ db[BankRow(at[q].id)] = NoRow
            /\ \A p \in Req \ {q} : at[p].id # at[q].id
      BY DEF RequestOK, LocalOK
    <3>2. at[q].pc = "create" => db'[BankRow(at[q].id)] = NoRow
      BY <3>1, StoredRows
    <3>3. at[q].pc = "create" => new.id # at[q].id
      BY <1>2, <3>1, <3>2, NoRowIsNone DEF LocalOK, Working
    <3> QED BY <1>2, <3>1, <3>2, <3>3
  <2> QED BY <1>2, <1>6, <2>1, <2>2, <2>3, OtherKeeps
<1>9. Stored \subseteq Stored'
  BY <1>6, GrowsStored
<1>10. Kept'
  <2> SUFFICES ASSUME NEW c \in issued \ lost
               PROVE  c \in Stored' \/ \E q \in Req : at'[q].credential = c
    BY DEF Kept
  <2>1. CASE c \in Stored
    BY <2>1, <1>9
  <2>2. ASSUME NEW q \in Req, at[q].credential = c
        PROVE  c \in Stored' \/ \E p \in Req : at'[p].credential = c
    <3>1. c # None
      BY NoRowIsNone DEF Shapes
    <3>2. CASE q = r
      BY <2>2, <3>1, <3>2, <1>2
    <3>3. CASE q # r
      BY <2>2, <3>3, <1>2
    <3> QED BY <3>2, <3>3
  <2> QED BY <2>1, <2>2 DEF Kept
<1> QED BY <1>1, <1>3, <1>4, <1>5, <1>7, <1>8, <1>10

Free == Pc \ {"secret", "create", "failed", "account", "edit", "holdings", "commit"}

LEMMA Sessions ==
    ASSUME IInv, NEW r \in Req
    PROVE  /\ UNCHANGED session => OnlySession(r)
           /\ \A W : Pend(r, W) => OnlySession(r) /\ want'[r] = W /\ held'[r] = held[r]
           /\ Rollback(r) => OnlySession(r) /\ DOMAIN want'[r] = {} /\ DOMAIN held'[r] = {}
BY DEF IInv, Shapes, LocksExclude, OnlySession, session, Pend, Rollback, Nothing

\* A request that holds nothing, before and after.
LEMMA FreeStep ==
    ASSUME IInv, Kept, NEW r \in Req, NEW new \in Local,
           at' = [at EXCEPT ![r] = new], UNCHANGED session,
           at[r].pc \in Free, new.pc \in Free, LocalOK(r)',
           issued \subseteq issued', issued' \subseteq Credential,
           authorized' \subseteq Authorization,
           issued' \ lost' \subseteq (issued \ lost) \cup {new.credential},
           at[r].credential \in {None, new.credential} \cup Stored
    PROVE  IInv' /\ Kept'
<1>1. at'[r] = new /\ want'[r] = want[r] /\ held'[r] = held[r]
  BY DEF IInv, Shapes, session
<1>2. DOMAIN want[r] = {} /\ DOMAIN held[r] = {}
  BY DEF IInv, RequestOK, ScopeOK, Scope, Free
<1>3. RequestOK(r)'
  BY <1>1, <1>2 DEF RequestOK, ScopeOK, SecretOK, BankOK, AccountOK, Free, Pc
<1> QED BY <1>3, Sessions, SessionStep DEF Free

\* A failed request: what it had changed is gone, what it knew is stored or was not there.
LEMMA GiveUp ==
    ASSUME IInv, Kept, NEW r \in Req,
           at' = [at EXCEPT ![r] = Idle], Rollback(r),
           UNCHANGED <<provider, lost>>, at[r].credential \in {None} \cup Stored
    PROVE  IInv' /\ Kept'
<1>1. Idle \in Local
  BY DEF Idle, Local, Pc
<1>2. at'[r] = Idle
  BY DEF IInv, Shapes
<1>3. OnlySession(r) /\ DOMAIN want'[r] = {} /\ DOMAIN held'[r] = {}
  BY Sessions
<1>4. RequestOK(r)'
  BY <1>2, <1>3, NoRowIsNone
     DEF RequestOK, ScopeOK, SecretOK, BankOK, AccountOK, LocalOK, Idle, Working
<1> QED BY <1>1, <1>3, <1>4, SessionStep DEF provider, Idle, IInv, Shapes

-----------------------------------------------------------------------------
(* Requests that arrive, and calls of the providers.                       *)

LEMMA IdleOK ==
    /\ Idle \in Local
    /\ Idle.pc = "idle" /\ Idle.credential = None /\ Idle.id = NoRow /\ Idle.known = {}
BY DEF Idle, Local, Pc

\* What a request starts with: the credential it loaded, or none.
LEMMA BeginOK ==
    ASSUME IInv, Kept, NEW r \in Req, NEW kind \in {"portal", "complete", "plaid"},
           NEW new \in Local, Begin(r, kind, new),
           new.pc \in {"register", "provider", "exchange"},
           new.pc = "provider" => new.credential = Mine /\ db[User].secret = Mine,
           new.pc # "provider" => new.credential = None,
           kind = "complete" => new.link \in Authorization,
           new.pc = "exchange" => new.link \in PublicToken,
           new.id = NoRow
    PROVE  IInv' /\ Kept'
<1> DEFINE begun == [new EXCEPT !.kind = kind, !.known = Linked]
<1>1. Linked \in SUBSET Link
  BY DEF IInv, TablesOK, Linked, Banked, Banks
<1>2. /\ begun \in Local
      /\ begun.pc = new.pc /\ begun.credential = new.credential /\ begun.link = new.link
      /\ begun.id = NoRow /\ begun.kind = kind /\ begun.known = Linked
  BY <1>1 DEF Local
<1>3. /\ at' = [at EXCEPT ![r] = begun] /\ UNCHANGED <<session, provider, lost>>
      /\ at[r].pc = "idle" /\ at[r].credential = None
  BY DEF Begin, Step, IInv, RequestOK, LocalOK
<1> HIDE DEF begun
<1>4. Linked' = Linked /\ db' = db /\ at'[r] = begun
  BY <1>3 DEF IInv, Shapes, Linked, Banked, session
<1>5. LocalOK(r)'
  BY <1>2, <1>4 DEF LocalOK, Working
<1> QED BY <1>2, <1>3, <1>5, FreeStep DEF Free, Pc, provider, IInv, Shapes

LEMMA BeginStep ==
    ASSUME IInv, Kept, NEW r \in Req,
           Portal(r) \/ Complete(r) \/ ConnectPlaid(r)
    PROVE  IInv' /\ Kept'
<1>1. ASSUME NEW kind \in {"portal", "complete"}, NEW link \in Authorization \cup {NoRow},
             kind = "complete" => link \in Authorization, BeginSnapTrade(r, kind, link)
      PROVE  IInv' /\ Kept'
  <2> DEFINE secret == db[User].secret
             new == [Idle EXCEPT !.pc = IF secret = None THEN "register" ELSE "provider",
                                 !.link = link, !.credential = secret]
  <2>1. secret \in {None, Mine}
    BY DEF IInv, TablesOK, Users
  <2>2. /\ new \in Local /\ new.pc = (IF secret = None THEN "register" ELSE "provider")
        /\ new.credential = secret /\ new.link = link /\ new.id = NoRow
    BY <1>1, <2>1 DEF Idle, Local, Pc, Credential, Link
  <2>3. Begin(r, kind, new)
    BY <1>1 DEF BeginSnapTrade
  <2> HIDE DEF new
  <2>4. new.pc \in {"register", "provider", "exchange"} /\ new.pc # "exchange"
    BY <2>2
  <2>5. /\ new.pc = "provider" => new.credential = Mine /\ db[User].secret = Mine
        /\ new.pc # "provider" => new.credential = None
    BY <2>1, <2>2
  <2> QED BY <1>1, <2>2, <2>3, <2>4, <2>5, BeginOK
<1>2. CASE ConnectPlaid(r)
  <2>1. PICK p \in PublicToken : Begin(r, "plaid", [Idle EXCEPT !.pc = "exchange", !.link = p])
    BY <1>2 DEF ConnectPlaid
  <2> DEFINE new == [Idle EXCEPT !.pc = "exchange", !.link = p]
  <2>2. /\ new \in Local /\ new.pc = "exchange" /\ new.credential = None
        /\ new.link = p /\ new.id = NoRow
    BY DEF Idle, Local, Pc, Credential, Link
  <2> QED BY <2>1, <2>2, BeginOK
<1> QED BY <1>1, <1>2 DEF Portal, Complete, IInv, Shapes

LEMMA ProviderStep ==
    ASSUME IInv, Kept, NEW r \in Req,
           AlreadyRegistered(r) \/ OpenPortal(r) \/ ListAuthorizations(r) \/ ExchangeFails(r)
    PROVE  IInv' /\ Kept'
<1>1. at[r] \in Local /\ LocalOK(r)
  BY DEF IInv, Shapes, RequestOK
<1>2. CASE AlreadyRegistered(r) \/ OpenPortal(r) \/ ExchangeFails(r)
  <2>1. /\ at' = [at EXCEPT ![r] = Idle] /\ UNCHANGED <<session, issued, authorized, lost>>
        /\ at[r].pc \in {"register", "provider", "exchange"}
    BY <1>2 DEF AlreadyRegistered, OpenPortal, ExchangeFails, End, Step, provider
  <2>2. at[r].credential \in {None} \cup Stored
    BY <1>1, <2>1, NoRowIsNone DEF LocalOK, Stored, Credential
  <2>3. LocalOK(r)'
    BY <2>1, IdleOK DEF LocalOK, Working, IInv, Shapes, Idle
  <2> QED BY <2>1, <2>2, <2>3, IdleOK, FreeStep DEF Free, Pc, IInv, Shapes
<1>3. CASE ListAuthorizations(r)
  <2> DEFINE new == [at[r] EXCEPT !.pc = "find"]
  <2>1. /\ at' = [at EXCEPT ![r] = new] /\ UNCHANGED <<session, issued, authorized, lost>>
        /\ at[r].pc = "provider" /\ at[r].kind = "complete"
    BY <1>3 DEF ListAuthorizations, Go, Step, provider
  <2>2. /\ new \in Local /\ new.pc = "find" /\ new.kind = "complete" /\ new.id = at[r].id
        /\ new.credential = at[r].credential /\ new.link = at[r].link /\ new.known = at[r].known
    BY <1>1, <2>1 DEF Local, Pc
  <2> HIDE DEF new
  <2>3. at'[r] = new /\ Linked' = Linked /\ db' = db
    BY <2>1 DEF IInv, Shapes, Linked, Banked, session
  <2>4. LocalOK(r)'
    BY <1>1, <2>1, <2>2, <2>3 DEF LocalOK, Working
  <2> QED BY <2>1, <2>2, <2>4, FreeStep DEF Free, Pc, IInv, Shapes
<1> QED BY <1>2, <1>3

LEMMA CallFailsStep ==
    ASSUME IInv, Kept, NEW r \in Req, CallFails(r)
    PROVE  IInv' /\ Kept'
<1>1. at[r] \in Local /\ LocalOK(r)
  BY DEF IInv, Shapes, RequestOK
<1>2. PICK S \in SUBSET (IF at[r].pc = "register" THEN {Mine}
                         ELSE IF at[r].pc = "exchange" THEN {at[r].link} ELSE {}) :
        issued' = issued \cup S /\ lost' = lost \cup (S \ issued)
  BY DEF CallFails
<1>3. /\ at' = [at EXCEPT ![r] = Idle] /\ UNCHANGED <<session, authorized>>
      /\ at[r].pc \in {"register", "provider", "exchange"}
  BY DEF CallFails
<1>4. S \subseteq Credential
  BY <1>1, <1>2 DEF LocalOK, Credential
<1>5. at[r].credential \in {None} \cup Stored
  BY <1>1, <1>3, NoRowIsNone DEF LocalOK, Stored, Credential
<1>6. LocalOK(r)'
  BY <1>3, IdleOK DEF LocalOK, Working, IInv, Shapes, Idle
<1> QED BY <1>2, <1>3, <1>4, <1>5, <1>6, IdleOK, FreeStep DEF Free, Pc, IInv, Shapes

\* A sync of a connection that is there.
LEMMA SyncingOK ==
    ASSUME IInv, NEW k \in Banked
    PROVE  /\ Syncing(k, db[BankRow(k)]) \in Local
           /\ k \in Connection /\ db[BankRow(k)] \in Banks
           /\ Syncing(k, db[BankRow(k)]).pc = "balance"
           /\ Syncing(k, db[BankRow(k)]).kind = "sync"
           /\ Syncing(k, db[BankRow(k)]).id = k
           /\ Syncing(k, db[BankRow(k)]).bank = db[BankRow(k)]
           /\ Syncing(k, db[BankRow(k)]).credential = None
           /\ Syncing(k, db[BankRow(k)]).known = {}
<1>1. k \in Connection /\ db[BankRow(k)] \in Banks
  BY DEF IInv, TablesOK, Banked
<1> QED BY <1>1 DEF Syncing, Idle, Local, Pc

LEMMA ResyncStep ==
    ASSUME IInv, Kept, NEW r \in Req, NEW k \in Banked,
           at' = [at EXCEPT ![r] = Syncing(k, db[BankRow(k)])],
           UNCHANGED <<session, provider, lost>>, at[r].pc \in {"idle", "find", "refresh"}
    PROVE  IInv' /\ Kept'
<1>1. at'[r] = Syncing(k, db[BankRow(k)]) /\ db' = db
  BY DEF IInv, Shapes, session
<1>2. LocalOK(r)'
  BY <1>1, SyncingOK DEF LocalOK, Working, Banked
<1>3. at[r].credential \in {None} \cup Stored
  BY NoRowIsNone DEF IInv, RequestOK, LocalOK, Stored, Credential
<1> QED BY <1>2, <1>3, SyncingOK, FreeStep DEF Free, Pc, provider, IInv, Shapes

LEMMA FetchStep ==
    ASSUME IInv, Kept, PortfolioOK, NEW r \in Req, FetchBalance(r) \/ FetchPositions(r)
    PROVE  IInv' /\ Kept'
<1>1. at[r] \in Local /\ LocalOK(r)
  BY DEF IInv, Shapes, RequestOK
<1>2. portfolio.total \in Nat /\ portfolio.positions \in SUBSET Security
      /\ \A S \in SUBSET Security : Worth[S] \in Nat
  BY LinkAssumption DEF PortfolioOK
<1>3. PICK pc \in {"positions", "load"}, balance \in Nat, positions \in SUBSET Security :
        at' = [at EXCEPT ![r] = [at[r] EXCEPT !.pc = pc, !.balance = balance,
                                              !.positions = positions]]
  <2>1. ASSUME NEW balance \in {portfolio.total} \cup (IF Brokerage(r) THEN {0} ELSE {}),
               NEW pc \in {"positions", "load"}
        PROVE  [at[r] EXCEPT !.balance = balance, !.pc = pc]
                 = [at[r] EXCEPT !.pc = pc, !.balance = balance, !.positions = at[r].positions]
    BY <1>1 DEF Local
  <2>2. CASE FetchBalance(r)
    <3>1. PICK balance \in {portfolio.total} \cup (IF Brokerage(r) THEN {0} ELSE {}) :
            at' = [at EXCEPT ![r] = [at[r] EXCEPT !.balance = balance,
                     !.pc = IF Brokerage(r) THEN "positions" ELSE "load"]]
      BY <2>2 DEF FetchBalance, Step
    <3>2. balance \in Nat /\ at[r].positions \in SUBSET Security
      BY <1>1, <1>2 DEF Local
    <3>3. at' = [at EXCEPT ![r] = [at[r] EXCEPT !.pc = IF Brokerage(r) THEN "positions" ELSE "load",
                                                !.balance = balance, !.positions = at[r].positions]]
      BY <2>1, <3>1
    <3> QED BY <3>2, <3>3
  <2>3. ASSUME NEW positions \in SUBSET Security, NEW balance \in Nat
        PROVE  [at[r] EXCEPT !.pc = "load", !.positions = positions, !.balance = balance]
                 = [at[r] EXCEPT !.pc = "load", !.balance = balance, !.positions = positions]
    BY <1>1 DEF Local
  <2>4. CASE FetchPositions(r)
    <3>1. PICK positions \in {portfolio.positions, {}} :
            at' = [at EXCEPT ![r] = [at[r] EXCEPT !.pc = "load", !.positions = positions,
                     !.balance = IF @ = 0 THEN Worth[positions] ELSE @]]
      BY <2>4 DEF FetchPositions, Step
    <3> DEFINE balance == IF at[r].balance = 0 THEN Worth[positions] ELSE at[r].balance
    <3>2. balance \in Nat /\ positions \in SUBSET Security
      BY <1>1, <1>2 DEF Local
    <3>3. at' = [at EXCEPT ![r] = [at[r] EXCEPT !.pc = "load", !.positions = positions,
                                                !.balance = balance]]
      BY <1>1, <3>1 DEF Local
    <3> HIDE DEF balance
    <3>4. at' = [at EXCEPT ![r] = [at[r] EXCEPT !.pc = "load", !.balance = balance,
                                                !.positions = positions]]
      BY <2>3, <3>2, <3>3
    <3> QED BY <3>2, <3>4
  <2> QED BY <2>2, <2>4
<1> DEFINE new == [at[r] EXCEPT !.pc = pc, !.balance = balance, !.positions = positions]
<1>4. /\ new \in Local /\ new.pc = pc
      /\ new.kind = at[r].kind /\ new.link = at[r].link /\ new.credential = at[r].credential
      /\ new.id = at[r].id /\ new.bank = at[r].bank /\ new.known = at[r].known
  BY <1>1 DEF Local, Pc
<1>5. /\ at' = [at EXCEPT ![r] = new] /\ UNCHANGED <<session, provider, lost>>
      /\ at[r].pc \in {"balance", "positions"}
  BY <1>3 DEF FetchBalance, FetchPositions, Step
<1> HIDE DEF new
<1>6. at'[r] = new /\ Linked' = Linked /\ db' = db
  BY <1>5 DEF IInv, Shapes, Linked, Banked, session
<1>7. LocalOK(r)'
  BY <1>1, <1>4, <1>5, <1>6 DEF LocalOK, Working
<1> QED BY <1>1, <1>4, <1>5, <1>7, FreeStep DEF Free, Pc, provider, IInv, Shapes, LocalOK

-----------------------------------------------------------------------------
(* Changes are pending.                                                    *)

LEMMA BecomesOK ==
    ASSUME NEW x, NEW was, NEW to, was # to
    PROVE  DOMAIN Becomes(x, was, to) = {x} /\ Becomes(x, was, to)[x] = Change(was, to)
BY DEF Becomes, Changes

\* The rows that are pending when a credential is to be stored.
LEMMA PendingRows ==
    /\ \A k : \A b \in Banks :
         /\ DOMAIN Becomes(BankRow(k), NoRow, b) = {BankRow(k)}
         /\ Becomes(BankRow(k), NoRow, b)[BankRow(k)] = Change(NoRow, b)
    /\ DOMAIN Becomes(User, [secret |-> None], [secret |-> Mine]) = {User}
    /\ Becomes(User, [secret |-> None], [secret |-> Mine])[User]
         = Change([secret |-> None], [secret |-> Mine])
<1>1. ASSUME NEW k, NEW b \in Banks
      PROVE  /\ DOMAIN Becomes(BankRow(k), NoRow, b) = {BankRow(k)}
             /\ Becomes(BankRow(k), NoRow, b)[BankRow(k)] = Change(NoRow, b)
  BY NoRowIsNone DEF Becomes, Changes
<1>2. /\ DOMAIN Becomes(User, [secret |-> None], [secret |-> Mine]) = {User}
      /\ Becomes(User, [secret |-> None], [secret |-> Mine])[User]
           = Change([secret |-> None], [secret |-> Mine])
  <2>1. None # Mine
    BY NoRowIsNone DEF Credential
  <2>2. [secret |-> None] # [secret |-> Mine]
    BY <2>1
  <2> QED BY <2>2 DEF Becomes, Changes
<1> QED BY <1>1, <1>2

LEMMA FreeHoldsNothing ==
    ASSUME IInv, NEW r \in Req, at[r].pc \in Free
    PROVE  DOMAIN held[r] = {}
BY DEF IInv, RequestOK, ScopeOK, Scope, Free

LEMMA RegisterStep ==
    ASSUME IInv, Kept, NEW r \in Req, Register(r)
    PROVE  IInv' /\ Kept'
<1> DEFINE new == [at[r] EXCEPT !.pc = "secret", !.credential = Mine]
           W == Becomes(User, [secret |-> None], [secret |-> Mine])
<1>1. at[r] \in Local /\ LocalOK(r)
  BY DEF IInv, Shapes, RequestOK
<1>2. at[r].pc = "register" /\ Mine \notin issued /\ issued' = issued \cup {Mine}
      /\ Pend(r, W) /\ UNCHANGED <<authorized, lost>>
  BY DEF Register
<1>3. at' = [at EXCEPT ![r] = new]
  BY <1>1 DEF Register, Local
<1>4. /\ new \in Local /\ new.pc = "secret" /\ new.credential = Mine
      /\ new.kind = at[r].kind /\ new.link = at[r].link /\ new.id = at[r].id
      /\ new.known = at[r].known
  BY <1>1 DEF Local, Pc, Credential
<1> HIDE DEF new
<1>5. DOMAIN W = {User} /\ W[User] = Change([secret |-> None], [secret |-> Mine])
  BY PendingRows
<1> HIDE DEF W
<1>6. want'[r] = W /\ DOMAIN held'[r] = {} /\ OnlySession(r)
  <2>1. DOMAIN held[r] = {}
    BY <1>2, FreeHoldsNothing DEF Free, Pc
  <2> QED BY <1>2, <2>1, Sessions
<1>7. at'[r] = new /\ db' = db /\ Linked' = Linked
  BY <1>3, <1>6 DEF IInv, Shapes, Linked, Banked, OnlySession
<1>8. db[User].secret = None
  BY <1>2 DEF IInv, TablesOK, Users
<1>9. RequestOK(r)'
  BY <1>1, <1>2, <1>4, <1>5, <1>6, <1>7, <1>8, RowNames, NoRowIsNone
     DEF RequestOK, ScopeOK, Scope, SecretOK, BankOK, AccountOK, LocalOK, Working
<1>10. \A q \in Req \ {r} : at[q].pc # "secret"
  BY <1>2 DEF IInv, RequestOK, SecretOK
<1>11. Mine \in Credential /\ issued \subseteq Credential /\ authorized \subseteq Authorization
  BY DEF Credential, IInv, Shapes
<1>12. at[r].credential = None
  BY <1>1, <1>2 DEF LocalOK
<1> QED BY <1>2, <1>3, <1>4, <1>6, <1>9, <1>10, <1>11, <1>12, SessionStep

\* A connection that no other request knows of.
LEMMA InsertStep ==
    ASSUME IInv, Kept, NEW r \in Req, NEW k \in Connection, NEW new \in Local,
           db[BankRow(k)] = NoRow, \A q \in Req : at[q].id # k,
           at[r].pc \in Free, at' = [at EXCEPT ![r] = new],
           Pend(r, Becomes(BankRow(k), NoRow, new.bank)),
           new.pc = "create", new.id = k, new.bank \in Banks,
           new.bank.link = new.link, new.bank.credential = new.credential,
           new.link \in PublicToken => new.credential = new.link,
           new.link \notin new.known, new.known \subseteq Linked,
           new.kind = "complete" => new.link \in Authorization,
           issued' = issued \cup {new.credential}, new.credential \in Credential,
           UNCHANGED <<authorized, lost>>,
           at[r].credential \in {None, new.credential}
    PROVE  IInv' /\ Kept'
<1> DEFINE W == Becomes(BankRow(k), NoRow, new.bank)
<1>1. DOMAIN W = {BankRow(k)} /\ W[BankRow(k)] = Change(NoRow, new.bank)
  BY PendingRows
<1> HIDE DEF W
<1>2. /\ want'[r] = W /\ DOMAIN held'[r] = {} /\ OnlySession(r)
  <2>1. Pend(r, W)
    BY DEF W
  <2>2. DOMAIN held[r] = {}
    BY FreeHoldsNothing
  <2> QED BY <2>1, <2>2, Sessions
<1>3. /\ at'[r] = new /\ db' = db /\ Linked' = Linked
      /\ \A q \in Req \ {r} : at'[q] = at[q]
  BY <1>2 DEF IInv, Shapes, Linked, Banked, OnlySession
<1> USE RowNames, NoRowIsNone
<1>5. LocalOK(r)'
  BY <1>3 DEF LocalOK, Working
<1>4. RequestOK(r)'
  BY <1>1, <1>2, <1>3, <1>5 DEF RequestOK, ScopeOK, Scope, SecretOK, BankOK, AccountOK
<1> QED BY <1>2, <1>4, SessionStep DEF IInv, Shapes

LEMMA CreateStep ==
    ASSUME IInv, Kept, NEW r \in Req, at[r].pc = "find", Found(r) = {}, Create(r)
    PROVE  IInv' /\ Kept'
<1>1. at[r] \in Local /\ LocalOK(r)
  BY DEF IInv, Shapes, RequestOK
<1>2. PICK k \in Connection :
        LET bank == [link |-> at[r].link, credential |-> at[r].credential, status |-> "pending"]
        IN  /\ db[BankRow(k)] = NoRow /\ \A q \in Req : at[q].id # k
            /\ Pend(r, Becomes(BankRow(k), NoRow, bank))
            /\ Step(r, [at[r] EXCEPT !.pc = "create", !.id = k, !.bank = bank])
  BY DEF Create
<1> DEFINE bank == [link |-> at[r].link, credential |-> at[r].credential, status |-> "pending"]
           new == [at[r] EXCEPT !.pc = "create", !.id = k, !.bank = bank]
<1>3. /\ at[r].link \in Authorization /\ at[r].credential = Mine
      /\ db[User].secret = Mine /\ Mine \in issued
      /\ at[r].known \subseteq Linked /\ at[r].link \notin PublicToken
  BY <1>1, LinkAssumption DEF LocalOK, IInv, TablesOK
<1>4. bank \in Banks /\ bank.link = at[r].link /\ bank.credential = Mine
  BY <1>3 DEF Banks, Link, Credential
<1>5. /\ new \in Local /\ new.pc = "create" /\ new.id = k /\ new.bank = bank
      /\ new.link = at[r].link /\ new.credential = Mine /\ new.known = at[r].known
      /\ new.kind = at[r].kind
  BY <1>1, <1>3, <1>4 DEF Local, Pc
<1>6. at[r].link \notin at[r].known
  BY <1>3 DEF Found, Linked
<1>7. /\ at' = [at EXCEPT ![r] = new] /\ Pend(r, Becomes(BankRow(k), NoRow, bank))
      /\ UNCHANGED <<issued, authorized, lost>>
  BY <1>2 DEF Step, provider
<1> HIDE DEF bank, new
<1>8. issued' = issued \cup {new.credential} /\ at[r].pc \in Free /\ Mine \in Credential
      /\ (new.kind = "complete" => new.link \in Authorization)
  BY <1>3, <1>5, <1>7 DEF Free, Pc, Credential
<1>9. /\ Pend(r, Becomes(BankRow(k), NoRow, new.bank))
      /\ new.bank \in Banks /\ new.bank.link = new.link /\ new.bank.credential = new.credential
      /\ new.link \notin PublicToken /\ new.link \notin new.known /\ new.known \subseteq Linked
      /\ new.credential \in Credential /\ at[r].credential \in {None, new.credential}
  BY <1>3, <1>4, <1>5, <1>6, <1>7, <1>8
<1> QED BY <1>2, <1>5, <1>7, <1>8, <1>9, InsertStep

LEMMA ExchangeStep ==
    ASSUME IInv, Kept, NEW r \in Req, Exchange(r)
    PROVE  IInv' /\ Kept'
<1>1. at[r] \in Local /\ LocalOK(r) /\ at[r].pc = "exchange"
  BY DEF IInv, Shapes, RequestOK, Exchange
<1> DEFINE p == at[r].link
           bank == [link |-> p, credential |-> p, status |-> "pending"]
<1>2. PICK k \in Connection :
        /\ db[BankRow(k)] = NoRow /\ \A q \in Req : at[q].id # k
        /\ Pend(r, Becomes(BankRow(k), NoRow, bank))
        /\ at' = [at EXCEPT ![r] = [at[r] EXCEPT !.pc = "create", !.credential = p,
                                                 !.id = k, !.bank = bank]]
  BY DEF Exchange, IInv, Shapes
<1> DEFINE new == [at[r] EXCEPT !.pc = "create", !.credential = p, !.id = k, !.bank = bank]
<1>3. p \in PublicToken /\ p \notin issued /\ at[r].known \subseteq Linked
  BY <1>1 DEF LocalOK, Exchange
<1>4. bank \in Banks /\ bank.link = p /\ bank.credential = p
  BY <1>3 DEF Banks, Link, Credential
<1>5. /\ new \in Local /\ new.pc = "create" /\ new.id = k /\ new.bank = bank
      /\ new.link = p /\ new.credential = p /\ new.known = at[r].known
      /\ new.kind = at[r].kind
  BY <1>1, <1>3, <1>4 DEF Local, Pc, Credential
<1>6. p \notin Linked
  BY <1>3 DEF Linked, Banked, IInv, TablesOK
<1>7. /\ issued' = issued \cup {p} /\ UNCHANGED <<authorized, lost>>
      /\ at[r].credential = None /\ p \in Credential /\ at[r].pc \in Free
  BY <1>1, <1>3 DEF Exchange, LocalOK, Credential, Free, Pc
<1>8. at[r].kind = "complete" => p \in Authorization
  BY <1>1 DEF LocalOK
<1>9. at' = [at EXCEPT ![r] = new]
  BY <1>2
<1> HIDE DEF bank, new, p
<1>10. /\ Pend(r, Becomes(BankRow(k), NoRow, new.bank))
       /\ new.bank \in Banks /\ new.bank.link = new.link /\ new.bank.credential = new.credential
       /\ new.credential = new.link /\ new.link \notin new.known /\ new.known \subseteq Linked
       /\ new.kind = "complete" => new.link \in Authorization
       /\ issued' = issued \cup {new.credential}
       /\ new.credential \in Credential /\ at[r].credential \in {None, new.credential}
  BY <1>2, <1>3, <1>4, <1>5, <1>6, <1>7, <1>8
<1> QED BY <1>2, <1>5, <1>7, <1>9, <1>10, InsertStep

LEMMA FindStep ==
    ASSUME IInv, Kept, NEW r \in Req, FindConnection(r) \/ Refresh(r) \/ Resync(r)
    PROVE  IInv' /\ Kept'
<1>1. CASE at[r].pc = "find" /\ Found(r) = {} /\ Create(r)
  BY <1>1, CreateStep
<1>2. ASSUME NEW k \in Banked, at[r].pc \in {"idle", "find", "refresh"},
             Step(r, Syncing(k, db[BankRow(k)])), UNCHANGED session
      PROVE  IInv' /\ Kept'
  BY <1>2, ResyncStep DEF Step
<1>3. at[r].pc = "refresh" => at[r].id \in Banked
  BY DEF IInv, RequestOK, LocalOK, Working, Banked
<1> QED BY <1>1, <1>2, <1>3 DEF FindConnection, Refresh, Resync, Found

\* A sync that goes on with its connection.
LEMMA GoesOn ==
    ASSUME IInv, NEW r \in Req, NEW new \in Local, at' = [at EXCEPT ![r] = new],
           db' = db, at[r].pc \in Working \ {"refresh", "edit"},
           new.pc \in Working \ {"refresh", "edit"},
           new.kind = at[r].kind, new.link = at[r].link, new.credential = at[r].credential,
           new.id = at[r].id, new.bank = at[r].bank, new.known = at[r].known
    PROVE  LocalOK(r)' /\ at'[r] = new /\ at[r].credential = None
<1>1. at'[r] = new /\ Linked' = Linked /\ LocalOK(r)
  BY DEF IInv, Shapes, Linked, Banked, RequestOK
<1>2. LocalOK(r)'
  BY <1>1 DEF LocalOK, Working
<1> QED BY <1>1, <1>2 DEF LocalOK, Working

\* A snapshot that is empty.
LEMMA FetchNothingStep ==
    ASSUME IInv, Kept, NEW r \in Req, FetchNothing(r)
    PROVE  IInv' /\ Kept'
<1> DEFINE new == [at[r] EXCEPT !.pc = "holdings"]
<1>1. at[r] \in Local /\ at[r].pc = "balance"
  BY DEF IInv, Shapes, FetchNothing
<1>2. at' = [at EXCEPT ![r] = new] /\ UNCHANGED <<session, provider, lost>>
  BY DEF FetchNothing, Go, Step
<1>3. /\ new \in Local /\ new.pc = "holdings"
      /\ new.kind = at[r].kind /\ new.link = at[r].link /\ new.credential = at[r].credential
      /\ new.id = at[r].id /\ new.bank = at[r].bank /\ new.known = at[r].known
  BY <1>1 DEF Local, Pc
<1> HIDE DEF new
<1>4. DOMAIN want[r] = {} /\ DOMAIN held[r] = {}
  BY <1>1 DEF IInv, RequestOK, ScopeOK, Scope
<1>5. db' = db /\ want' = want /\ held' = held /\ OnlySession(r)
  BY <1>2, Sessions DEF session
<1>6. LocalOK(r)' /\ at'[r] = new /\ at[r].credential = None
  BY <1>1, <1>2, <1>3, <1>5, GoesOn DEF Working
<1>7. RequestOK(r)'
  BY <1>3, <1>4, <1>5, <1>6 DEF RequestOK, ScopeOK, SecretOK, BankOK, AccountOK
<1> QED BY <1>2, <1>3, <1>5, <1>6, <1>7, SessionStep DEF provider, IInv, Shapes

LEMMA PendStep ==
    ASSUME IInv, Kept, NEW r \in Req, NEW new \in Local, NEW W, Pend(r, W),
           at' = [at EXCEPT ![r] = new], UNCHANGED <<provider, lost>>,
           at[r].credential = None,
           new.pc \in {"failed", "account", "holdings", "commit", "edit"},
           ScopeOK(r)', BankOK(r)', AccountOK(r)', LocalOK(r)'
    PROVE  IInv' /\ Kept'
<1>1. OnlySession(r) /\ at'[r] = new
  BY Sessions DEF IInv, Shapes
<1>2. User \notin Scope(new)
  BY RowNames DEF Scope, RowsOf
<1>3. SecretOK(r)'
  BY <1>1, <1>2 DEF ScopeOK, SecretOK
<1>4. RequestOK(r)'
  BY <1>3 DEF RequestOK
<1> QED BY <1>1, <1>4, SessionStep DEF provider, IInv, Shapes

LEMMA BecomesOnly ==
    ASSUME NEW x, NEW was, NEW to
    PROVE  /\ DOMAIN Becomes(x, was, to) \subseteq {x}
           /\ x \in DOMAIN Becomes(x, was, to) =>
                /\ Becomes(x, was, to)[x].was = was
                /\ Becomes(x, was, to)[x].new = to
BY DEF Becomes, Changes, Change

LEMMA FetchFailsStep ==
    ASSUME IInv, Kept, NEW r \in Req, FetchFails(r)
    PROVE  IInv' /\ Kept'
<1> DEFINE new == [at[r] EXCEPT !.pc = "failed"]
           to == [at[r].bank EXCEPT !.status = "error"]
           W == Becomes(BankRow(at[r].id), at[r].bank, to)
<1>1. at[r] \in Local /\ LocalOK(r) /\ at[r].pc \in {"balance", "positions"}
  BY DEF IInv, Shapes, RequestOK, FetchFails
<1>2. Pend(r, W) /\ at' = [at EXCEPT ![r] = new] /\ UNCHANGED <<provider, lost>>
  BY DEF FetchFails, Go, Step
<1>3. /\ new \in Local /\ new.pc = "failed"
      /\ new.kind = at[r].kind /\ new.link = at[r].link /\ new.credential = at[r].credential
      /\ new.id = at[r].id /\ new.bank = at[r].bank /\ new.known = at[r].known
  BY <1>1 DEF Local, Pc
<1>4. at[r].bank \in Banks /\ to \in Banks /\ Alike(at[r].bank, to)
  BY <1>1 DEF LocalOK, Working, Banks, Alike
<1>5. /\ DOMAIN W \subseteq {BankRow(at[r].id)}
      /\ BankRow(at[r].id) \in DOMAIN W =>
           W[BankRow(at[r].id)].was = at[r].bank /\ W[BankRow(at[r].id)].new = to
  BY BecomesOnly
<1> HIDE DEF new, to, W
<1>6. want'[r] = W /\ DOMAIN held'[r] = {} /\ db' = db
  BY <1>1, <1>2, FreeHoldsNothing, Sessions DEF Free, Pc, OnlySession
<1>7. LocalOK(r)' /\ at'[r] = new /\ at[r].credential = None
  BY <1>1, <1>2, <1>3, <1>6, GoesOn DEF Working
<1>8. ScopeOK(r)'
  BY <1>3, <1>5, <1>6, <1>7 DEF ScopeOK, Scope
<1>9. BankOK(r)'
  BY <1>3, <1>4, <1>5, <1>6, <1>7 DEF BankOK
<1>10. AccountOK(r)'
  BY <1>3, <1>6, <1>7 DEF AccountOK
<1> QED BY <1>2, <1>3, <1>7, <1>8, <1>9, <1>10, PendStep

LEMMA WriteAccountStep ==
    ASSUME IInv, Kept, NEW r \in Req, WriteAccount(r)
    PROVE  IInv' /\ Kept'
<1> DEFINE x == Account(at[r].id)
           new == [at[r] EXCEPT !.pc = "account", !.balance = 0]
           to == SyncedAccount(db[x], at[r].balance)
           W == Becomes(x, db[x], to)
<1>1. at[r] \in Local /\ LocalOK(r) /\ at[r].pc = "load"
  BY DEF IInv, Shapes, RequestOK, WriteAccount
<1>2. Pend(r, W) /\ at' = [at EXCEPT ![r] = new] /\ UNCHANGED <<provider, lost>>
  BY DEF WriteAccount, Step
<1>3. /\ new \in Local /\ new.pc = "account"
      /\ new.kind = at[r].kind /\ new.link = at[r].link /\ new.credential = at[r].credential
      /\ new.id = at[r].id /\ new.bank = at[r].bank /\ new.known = at[r].known
  BY <1>1 DEF Local, Pc
<1>4. /\ to \in Accounts
      /\ db[x] # NoRow => db[x] \in Accounts /\ SameEdits(db[x], to)
  <2>1. at[r].balance \in Nat /\ at[r].id \in Connection
    BY <1>1 DEF Local, LocalOK, Working
  <2>2. db[x] # NoRow => db[x] \in Accounts
    BY <2>1 DEF IInv, TablesOK
  <2>3. CASE db[x] = NoRow
    BY <2>1, <2>3 DEF SyncedAccount, Accounts
  <2>4. CASE db[x] # NoRow
    <3>1. to = [db[x] EXCEPT !.balance = at[r].balance]
      BY <2>4 DEF SyncedAccount
    <3> HIDE DEF to, x
    <3> QED BY <2>1, <2>2, <2>4, <3>1 DEF Accounts, SameEdits
  <2> QED BY <2>3, <2>4
<1>5. DOMAIN W \subseteq {x} /\ (x \in DOMAIN W => W[x].was = db[x] /\ W[x].new = to)
  BY BecomesOnly
<1> HIDE DEF new, to, W
<1>6. want'[r] = W /\ DOMAIN held'[r] = {} /\ db' = db
  BY <1>1, <1>2, FreeHoldsNothing, Sessions DEF Free, Pc, OnlySession
<1>7. LocalOK(r)' /\ at'[r] = new /\ at[r].credential = None
  BY <1>1, <1>2, <1>3, <1>6, GoesOn DEF Working
<1>8. ScopeOK(r)'
  BY <1>3, <1>5, <1>6, <1>7 DEF ScopeOK, Scope
<1>9. BankOK(r)'
  BY <1>3, <1>7 DEF BankOK
<1>10. AccountOK(r)'
  BY <1>3, <1>4, <1>5, <1>6, <1>7 DEF AccountOK
<1> QED BY <1>2, <1>3, <1>7, <1>8, <1>9, <1>10, PendStep

LEMMA WriteHoldingsStep ==
    ASSUME IInv, Kept, NEW r \in Req, WriteHoldings(r)
    PROVE  IInv' /\ Kept'
<1> DEFINE new == [at[r] EXCEPT !.pc = "holdings", !.positions = {}]
<1>1. /\ at[r] \in Local /\ RequestOK(r) /\ at[r].pc = "account" /\ DOMAIN want[r] = {}
      /\ at[r].id \in Connection
  BY DEF IInv, Shapes, RequestOK, WriteHoldings, Clean, Nothing, LocalOK, Working
<1>2. PICK W : /\ Pend(r, W)
               /\ DOMAIN W \subseteq {Holding(at[r].id, x) : x \in Security}
  <2> DEFINE stored == {x \in Security : db[Holding(at[r].id, x)] # NoRow}
             row(x) == Holding(at[r].id, x)
             rows(S) == {row(x) : x \in S}
             W == [y \in rows(stored \cup at[r].positions) |->
                     Change(IF y \in rows(stored) THEN Held ELSE NoRow,
                            IF y \in rows(at[r].positions) THEN Held ELSE NoRow)]
  <2>1. Pend(r, W)
    BY DEF WriteHoldings
  <2>2. DOMAIN W \subseteq {Holding(at[r].id, x) : x \in Security}
    BY <1>1 DEF Local
  <2> QED BY <2>1, <2>2
<1>3. /\ new \in Local /\ new.pc = "holdings"
      /\ new.kind = at[r].kind /\ new.link = at[r].link /\ new.credential = at[r].credential
      /\ new.id = at[r].id /\ new.bank = at[r].bank /\ new.known = at[r].known
  BY <1>1 DEF Local, Pc
<1>4. at' = [at EXCEPT ![r] = new] /\ UNCHANGED <<provider, lost>>
  BY DEF WriteHoldings, Step
<1> HIDE DEF new
<1>5. want'[r] = W /\ held'[r] = held[r] /\ db' = db
  BY <1>2, Sessions DEF OnlySession
<1>6. LocalOK(r)' /\ at'[r] = new /\ at[r].credential = None
  BY <1>1, <1>3, <1>4, <1>5, GoesOn DEF Working
<1>7. /\ DOMAIN held[r] \subseteq {Account(at[r].id)}
      /\ BankRow(at[r].id) \notin DOMAIN W /\ Account(at[r].id) \notin DOMAIN W
  BY <1>1, <1>2, RowNames DEF RequestOK, ScopeOK, Scope
<1>8. ScopeOK(r)'
  BY <1>2, <1>3, <1>5, <1>6, <1>7 DEF ScopeOK, Scope, RowsOf
<1>9. BankOK(r)'
  BY <1>3, <1>5, <1>6, <1>7, RowNames DEF BankOK
<1>10. AccountOK(r)'
  BY <1>1, <1>3, <1>5, <1>6, <1>7 DEF RequestOK, AccountOK
<1> QED BY <1>2, <1>3, <1>4, <1>6, <1>8, <1>9, <1>10, PendStep

LEMMA WriteStatusStep ==
    ASSUME IInv, Kept, NEW r \in Req, WriteStatus(r)
    PROVE  IInv' /\ Kept'
<1> DEFINE x == BankRow(at[r].id)
           new == [at[r] EXCEPT !.pc = "commit"]
           to == [at[r].bank EXCEPT !.status = "active"]
           W == Touch(x, at[r].bank, to)
<1>1. at[r] \in Local /\ RequestOK(r) /\ LocalOK(r) /\ at[r].pc = "holdings"
  BY DEF IInv, Shapes, RequestOK, WriteStatus
<1>2. Pend(r, W) /\ at' = [at EXCEPT ![r] = new] /\ UNCHANGED <<provider, lost>>
  BY DEF WriteStatus, Go, Step
<1>3. /\ new \in Local /\ new.pc = "commit"
      /\ new.kind = at[r].kind /\ new.link = at[r].link /\ new.credential = at[r].credential
      /\ new.id = at[r].id /\ new.bank = at[r].bank /\ new.known = at[r].known
  BY <1>1 DEF Local, Pc
<1>4. at[r].bank \in Banks /\ to \in Banks /\ Alike(at[r].bank, to)
  BY <1>1 DEF LocalOK, Working, Banks, Alike
<1>5. DOMAIN W = {x} /\ W[x].was = at[r].bank /\ W[x].new = to
  BY DEF Touch, Change
<1> HIDE DEF new, to, W
<1>6. want'[r] = W /\ held'[r] = held[r] /\ db' = db
  BY <1>2, Sessions DEF OnlySession
<1>7. LocalOK(r)' /\ at'[r] = new /\ at[r].credential = None
  BY <1>1, <1>2, <1>3, <1>6, GoesOn DEF Working
<1>8. DOMAIN held[r] \subseteq RowsOf(at[r].id) /\ x \notin DOMAIN held[r]
  BY <1>1 DEF RequestOK, ScopeOK, Scope, BankOK
<1>9. ScopeOK(r)'
  BY <1>3, <1>5, <1>6, <1>7, <1>8 DEF ScopeOK, Scope, RowsOf
<1>10. BankOK(r)'
  BY <1>3, <1>4, <1>5, <1>6, <1>7, <1>8 DEF BankOK
<1>11. AccountOK(r)'
  BY <1>1, <1>3, <1>5, <1>6, <1>7, RowNames DEF RequestOK, AccountOK
<1> QED BY <1>2, <1>3, <1>7, <1>9, <1>10, <1>11, PendStep

LEMMA EditStep ==
    ASSUME IInv, Kept, NEW r \in Req, Edit(r)
    PROVE  IInv' /\ Kept'
<1>1. PICK k \in Connection, n \in Nickname, h \in BOOLEAN :
        /\ db[Account(k)] # NoRow /\ at[r].pc = "idle"
        /\ Pend(r, Becomes(Account(k), db[Account(k)],
                           [db[Account(k)] EXCEPT !.nickname = n, !.hidden = h]))
        /\ Step(r, [Idle EXCEPT !.pc = "edit", !.kind = "edit", !.id = k])
  BY DEF Edit
<1> DEFINE x == Account(k)
           was == db[x]
           to == [was EXCEPT !.nickname = n, !.hidden = h]
           new == [Idle EXCEPT !.pc = "edit", !.kind = "edit", !.id = k]
           W == Becomes(x, was, to)
<1>2. was \in Accounts /\ was # NoRow /\ db[BankRow(k)] # NoRow
  BY <1>1 DEF IInv, TablesOK
<1>3. to \in Accounts /\ was.balance = to.balance
  <2> HIDE DEF x
  <2> QED BY <1>2 DEF Accounts
<1>4. /\ new \in Local /\ new.pc = "edit" /\ new.kind = "edit" /\ new.id = k
      /\ new.credential = None /\ new.known = {}
  BY DEF Idle, Local, Pc
<1>5. Pend(r, W) /\ at' = [at EXCEPT ![r] = new] /\ UNCHANGED <<provider, lost>>
  BY <1>1 DEF Step
<1>6. DOMAIN W \subseteq {x} /\ (x \in DOMAIN W => W[x].was = was /\ W[x].new = to)
  BY BecomesOnly
<1> HIDE DEF new, to, was, W
<1>7. want'[r] = W /\ DOMAIN held'[r] = {} /\ db' = db
  BY <1>1, <1>5, FreeHoldsNothing, Sessions DEF Free, Pc, OnlySession
<1>8. at'[r] = new /\ at[r].credential = None
  BY <1>1, <1>5 DEF IInv, Shapes, RequestOK, LocalOK
<1>9. LocalOK(r)'
  BY <1>2, <1>4, <1>7, <1>8 DEF LocalOK, Working
<1>10. ScopeOK(r)'
  BY <1>4, <1>6, <1>7, <1>8 DEF ScopeOK, Scope
<1>11. BankOK(r)'
  BY <1>4, <1>8 DEF BankOK
<1>12. AccountOK(r)'
  BY <1>2, <1>3, <1>4, <1>6, <1>7, <1>8 DEF AccountOK
<1> QED BY <1>4, <1>5, <1>8, <1>9, <1>10, <1>11, <1>12, PendStep

-----------------------------------------------------------------------------
(* Statements.                                                             *)

LEMMA SentSecret ==
    ASSUME NEW now \in Users
    PROVE  Sent(Change([secret |-> None], [secret |-> Mine]), now) = [secret |-> Mine]
<1>1. None # Mine /\ now # NoRow /\ [secret |-> Mine] # NoRow
  <2>1. [secret |-> Mine] \in Users
    BY DEF Users
  <2> QED BY <2>1, NoRowIsNone DEF Credential
<1>2. DOMAIN now = {"secret"}
  BY DEF Users
<1> QED BY <1>1, <1>2 DEF Sent, Change

LEMMA SentBank ==
    ASSUME NEW change, change.was \in Banks, change.new \in Banks,
           Alike(change.was, change.new), NEW now \in Banks
    PROVE  Sent(change, now) \in Banks /\ Alike(Sent(change, now), now)
<1>1. Sent(change, now) = [f \in {"link", "credential", "status"} |->
                             IF change.was[f] = change.new[f] THEN now[f] ELSE change.new[f]]
  BY NoRowIsNone DEF Sent, Banks
<1> DEFINE sent == Sent(change, now)
           status == IF change.was.status = change.new.status THEN now.status ELSE change.new.status
<1>2. status \in {"pending", "active", "error"}
  BY DEF Banks
<1>3. sent = [link |-> now.link, credential |-> now.credential, status |-> status]
  BY <1>1 DEF Alike
<1> HIDE DEF status
<1> QED BY <1>2, <1>3 DEF Banks, Alike

LEMMA SentAccount ==
    ASSUME NEW change, change.was \in Accounts, change.new \in Accounts, NEW now \in Accounts
    PROVE  /\ Sent(change, now) \in Accounts
           /\ SameEdits(change.was, change.new) => SameEdits(Sent(change, now), now)
           /\ change.was.balance = change.new.balance => Sent(change, now).balance = now.balance
<1>1. Sent(change, now) = [f \in {"balance", "nickname", "hidden"} |->
                             IF change.was[f] = change.new[f] THEN now[f] ELSE change.new[f]]
  BY NoRowAssumption DEF Sent, Accounts
<1> DEFINE value(f) == IF change.was[f] = change.new[f] THEN now[f] ELSE change.new[f]
<1>2. /\ value("balance") \in Nat /\ value("nickname") \in Nickname \cup {None}
      /\ value("hidden") \in BOOLEAN
  BY DEF Accounts
<1>3. Sent(change, now) = [balance |-> value("balance"), nickname |-> value("nickname"),
                           hidden |-> value("hidden")]
  BY <1>1
<1>4. Sent(change, now) \in Accounts
  <2> HIDE DEF value
  <2> QED BY <1>2, <1>3 DEF Accounts
<1> QED BY <1>3, <1>4 DEF SameEdits

LEMMA ScopesAreRows ==
    ASSUME IInv, NEW r \in Req
    PROVE  Scope(at[r]) \subseteq Row
<1>1. LocalOK(r)
  BY DEF IInv, RequestOK
<1> QED BY <1>1, RowAssumption DEF Scope, RowsOf, LocalOK, Working, Rows

LEMMA FlushStep ==
    ASSUME IInv, Kept, NEW r \in Req, Sends(r)
    PROVE  IInv' /\ Kept'
<1> USE RowNames
<1>1. at[r] \in Local /\ RequestOK(r)
  BY DEF IInv, Shapes
<1>2. PICK row \in DOMAIN want[r] :
        /\ ~ Locked(r, row)
        /\ ~ Clash(want[r][row], Sees(r)[row])
        /\ held' = [held EXCEPT ![r] =
                      [x \in DOMAIN held[r] \cup {row} |->
                         IF x = row THEN Sent(want[r][row], Sees(r)[row]) ELSE held[r][x]]]
        /\ want' = [want EXCEPT ![r] = [x \in DOMAIN want[r] \ {row} |-> want[r][x]]]
        /\ db' = db
  BY DEF Sends, Flush, IInv, Shapes
<1> DEFINE now == db[row]
           sent == Sent(want[r][row], now)
<1>3. row \in Row /\ row \notin DOMAIN held[r] /\ row \in Scope(at[r])
  BY <1>1, ScopesAreRows DEF RequestOK, ScopeOK
<1>4. Sees(r)[row] = now
  BY <1>3 DEF Sees
<1>5. /\ DOMAIN held'[r] = DOMAIN held[r] \cup {row} /\ held'[r][row] = sent
      /\ \A x \in DOMAIN held[r] : held'[r][x] = held[r][x]
      /\ DOMAIN want'[r] = DOMAIN want[r] \ {row}
      /\ \A x \in DOMAIN want'[r] : want'[r][x] = want[r][x]
      /\ \A q \in Req \ {r} : want'[q] = want[q] /\ held'[q] = held[q]
  BY <1>2, <1>3, <1>4 DEF IInv, Shapes
<1>6. OnlySession(r)
  <2>1. DOMAIN want' = Req /\ DOMAIN held' = Req
    BY <1>2 DEF IInv, Shapes
  <2>2. \A q \in Req \ {r} : DOMAIN held'[r] \cap DOMAIN held[q] = {}
    BY <1>2, <1>5 DEF IInv, LocksExclude, Locked
  <2> QED BY <1>2, <1>5, <2>1, <2>2 DEF OnlySession
<1>7. ~ Clash(want[r][row], now) /\ at' = at /\ UNCHANGED <<provider, lost>>
  BY <1>2, <1>4 DEF Sends
<1> HIDE DEF now, sent
<1>8. ScopeOK(r)'
  BY <1>1, <1>3, <1>5, <1>7 DEF RequestOK, ScopeOK
<1>9. SecretOK(r)'
  <2>1. row = User => sent = [secret |-> Mine]
    BY <1>1, SentSecret DEF RequestOK, SecretOK, IInv, TablesOK, sent, now
  <2> QED BY <1>1, <1>2, <1>5, <1>7, <2>1 DEF RequestOK, SecretOK, provider
<1>10. BankOK(r)'
  <2> DEFINE x == BankRow(at[r].id)
  <2>1. at[r].pc = "create" /\ row = x => sent = at[r].bank
    BY <1>1 DEF RequestOK, BankOK, LocalOK, sent, now, Sent, Change
  <2>2. at[r].pc \in {"failed", "commit"} /\ row = x => sent \in Banks /\ Alike(sent, now)
    <3> SUFFICES ASSUME at[r].pc \in {"failed", "commit"}, row = x
                 PROVE  sent \in Banks /\ Alike(sent, now)
      OBVIOUS
    <3>1. now \in Banks
      BY <1>1 DEF RequestOK, LocalOK, Working, IInv, TablesOK, now
    <3>2. /\ want[r][row].was \in Banks /\ want[r][row].new \in Banks
          /\ Alike(want[r][row].was, want[r][row].new)
      BY <1>1 DEF RequestOK, BankOK
    <3> QED BY <3>1, <3>2, SentBank DEF sent
  <2>3. at[r].pc = "holdings" => row # x
    BY <1>1 DEF RequestOK, BankOK
  <2> QED BY <1>1, <1>2, <1>5, <1>7, <2>1, <2>2, <2>3 DEF RequestOK, BankOK, now
<1>11. AccountOK(r)'
  <2> DEFINE x == Account(at[r].id)
  <2>1. ASSUME at[r].pc \in {"account", "edit"}, row = x
        PROVE  /\ sent \in Accounts
               /\ now # NoRow => /\ at[r].pc = "edit" => sent.balance = now.balance
                                 /\ at[r].pc # "edit" => SameEdits(sent, now)
    <3>1. /\ want[r][row].new \in Accounts
          /\ want[r][row].was # NoRow =>
               /\ want[r][row].was \in Accounts
               /\ at[r].pc = "account" => SameEdits(want[r][row].was, want[r][row].new)
               /\ at[r].pc = "edit" => want[r][row].was.balance = want[r][row].new.balance
      BY <1>1, <2>1 DEF RequestOK, AccountOK
    <3>2. now # NoRow => now \in Accounts
      BY <1>1, <2>1 DEF RequestOK, LocalOK, Working, IInv, TablesOK, now
    <3>3. CASE now = NoRow
      BY <3>1, <3>3 DEF sent, Sent
    <3>4. CASE now # NoRow
      <4>1. want[r][row].was # NoRow
        BY <1>7, <3>4 DEF Clash
      <4> QED BY <2>1, <3>1, <3>2, <3>4, <4>1, SentAccount DEF sent
    <3> QED BY <3>3, <3>4
  <2>2. at[r].pc \in {"holdings", "commit"} => row # x
    BY <1>1 DEF RequestOK, AccountOK
  <2> QED BY <1>1, <1>2, <1>5, <1>7, <2>1, <2>2 DEF RequestOK, AccountOK, now
<1>12. LocalOK(r)'
  <2>1. Linked' = Linked
    BY <1>2 DEF Linked, Banked
  <2> QED BY <1>1, <1>2, <1>7, <2>1 DEF RequestOK, LocalOK, provider
<1>13. RequestOK(r)'
  BY <1>8, <1>9, <1>10, <1>11, <1>12 DEF RequestOK
<1>14. at' = [at EXCEPT ![r] = at[r]]
  BY <1>7 DEF IInv, Shapes
<1>15. at[r].pc = "secret" => \A q \in Req \ {r} : at[q].pc # "secret"
  BY DEF IInv, OneRegisters
<1> QED BY <1>1, <1>6, <1>7, <1>13, <1>14, <1>15, SessionStep DEF provider, IInv, Shapes

\* Neither the secret nor a new connection clashes or waits: no other request has the row.
LEMMA NewRowsAreFree ==
    ASSUME IInv, NEW r \in Req, at[r].pc \in {"secret", "create"}
    PROVE  ~ FlushFails(r) /\ ~ DeadlockVictim(r)
<1> USE RowNames
<1>1. at[r] \in Local /\ RequestOK(r)
  BY DEF IInv, Shapes
<1>2. ~ FlushFails(r)
  <2> SUFFICES ASSUME NEW row \in DOMAIN want[r], Clash(want[r][row], Sees(r)[row])
               PROVE  FALSE
    BY DEF FlushFails
  <2>1. Sees(r)[row] = db[row]
    BY <1>1, ScopesAreRows DEF Sees, RequestOK, ScopeOK
  <2>2. CASE at[r].pc = "secret"
    <3>1. row = User /\ want[r][row].was = [secret |-> None] /\ db[User] # NoRow
      BY <1>1, <2>2, NoRowIsNone
         DEF RequestOK, ScopeOK, Scope, SecretOK, Change, IInv, TablesOK
    <3>2. [secret |-> None] # NoRow
      <4>1. [secret |-> None] \in Users
        BY DEF Users
      <4> QED BY <4>1, NoRowIsNone
    <3> QED BY <2>1, <3>1, <3>2 DEF Clash
  <2>3. CASE at[r].pc = "create"
    <3>1. row = BankRow(at[r].id) /\ want[r][row].was = NoRow /\ db[row] = NoRow
      BY <1>1, <2>3 DEF RequestOK, ScopeOK, Scope, BankOK, LocalOK, Change
    <3> QED BY <2>1, <3>1 DEF Clash
  <2> QED BY <2>2, <2>3
<1>3. ~ DeadlockVictim(r)
  <2> SUFFICES ASSUME NEW p \in Req, BlockedBy(r, p) PROVE FALSE
    <3> SUFFICES ASSUME \A p \in Req : ~ BlockedBy(r, p) PROVE ~ DeadlockVictim(r)
      OBVIOUS
    <3> SUFFICES ASSUME DeadlockVictim(r) PROVE FALSE
      OBVIOUS
    <3>1. PICK S \in SUBSET Req : S = {}
      OBVIOUS
    <3>2. \A q \in S \cup {r}, p \in Req : ~ BlockedBy(q, p)
      BY <3>1
    <3>3. r \in S
      BY <3>2 DEF DeadlockVictim
    <3> QED BY <3>1, <3>3
  <2>1. PICK row \in DOMAIN want[r] : row \in DOMAIN held[p] /\ p # r
    BY DEF BlockedBy
  <2>2. row \in Scope(at[r]) /\ row \in Scope(at[p])
    BY <1>1, <2>1 DEF IInv, RequestOK, ScopeOK
  <2>3. CASE at[r].pc = "secret"
    <3>1. at[p].pc = "secret"
      BY <2>2, <2>3 DEF Scope, RowsOf
    <3> QED BY <2>1, <2>3, <3>1 DEF IInv, OneRegisters
  <2>4. CASE at[r].pc = "create"
    <3>1. at[p].id = at[r].id
      BY <2>2, <2>4 DEF Scope, RowsOf
    <3> QED BY <1>1, <2>1, <2>4, <3>1 DEF RequestOK, LocalOK
  <2> QED BY <2>3, <2>4
<1> QED BY <1>2, <1>3

LEMMA BreakStep ==
    ASSUME IInv, Kept, NEW r \in Req, Breaks(r)
    PROVE  IInv' /\ Kept'
<1>1. at[r] \in Local /\ LocalOK(r)
  BY DEF IInv, Shapes, RequestOK
<1>2. at[r].pc \notin {"secret", "create"}
  BY NewRowsAreFree DEF Breaks
<1>3. at[r].credential \in {None} \cup Stored
  BY <1>1, <1>2, NoRowIsNone DEF LocalOK, Stored, Credential
<1>4. Rollback(r) /\ at' = [at EXCEPT ![r] = Idle] /\ UNCHANGED <<provider, lost>>
  BY DEF Breaks, FlushFails, DeadlockVictim, End, Step
<1> QED BY <1>3, <1>4, GiveUp

-----------------------------------------------------------------------------
(* Commits.                                                                *)

LEMMA EndStep ==
    ASSUME IInv, Kept, NEW r \in Req, Failed(r) \/ Commit(r) \/ Edited(r)
    PROVE  IInv' /\ Kept'
<1>1. LocalOK(r) /\ at[r].pc \in {"failed", "commit", "edit"}
  BY DEF IInv, RequestOK, Failed, Commit, Edited
<1>2. Store(r) /\ at' = [at EXCEPT ![r] = Idle] /\ UNCHANGED provider /\ lost' = lost
  BY DEF Failed, Commit, Edited, End, Step
<1>3. at'[r] = Idle
  BY <1>2 DEF IInv, Shapes
<1>4. LocalOK(r)'
  BY <1>3, IdleOK DEF LocalOK, Working, Idle
<1>5. at[r].credential = None
  BY <1>1 DEF LocalOK
<1> QED BY <1>2, <1>4, <1>5, IdleOK, CommitStep

LEMMA KeepSecretStep ==
    ASSUME IInv, Kept, NEW r \in Req, KeepSecret(r)
    PROVE  IInv' /\ Kept'
<1> DEFINE new == [at[r] EXCEPT !.pc = "provider"]
<1>1. at[r] \in Local /\ RequestOK(r) /\ at[r].pc = "secret"
  BY DEF IInv, Shapes, KeepSecret
<1>2. Store(r) /\ at' = [at EXCEPT ![r] = new] /\ UNCHANGED provider /\ lost' = lost
  BY DEF KeepSecret, Go, Step
<1>3. /\ new \in Local /\ new.pc = "provider"
      /\ new.kind = at[r].kind /\ new.link = at[r].link /\ new.credential = at[r].credential
      /\ new.id = at[r].id /\ new.known = at[r].known
  BY <1>1 DEF Local, Pc
<1> HIDE DEF new
<1>4. at'[r] = new
  BY <1>2 DEF IInv, Shapes
<1>5. Linked \subseteq Linked' /\ db'[User] = [secret |-> Mine]
  BY <1>1, <1>2, StoreGrows, GrowsLinked, StoredRows
<1>6. LocalOK(r)'
  BY <1>1, <1>3, <1>4, <1>5 DEF LocalOK, RequestOK, SecretOK, Working
<1> QED BY <1>2, <1>3, <1>6, CommitStep

LEMMA CreatedStep ==
    ASSUME IInv, Kept, NEW r \in Req, Created(r)
    PROVE  IInv' /\ Kept' /\ at[r].link \notin at[r].known
<1> DEFINE new == [Idle EXCEPT !.pc = "refresh", !.kind = "sync", !.id = at[r].id]
<1>1. at[r] \in Local /\ LocalOK(r) /\ at[r].pc = "create"
  BY DEF IInv, Shapes, RequestOK, Created
<1>2. Store(r) /\ at' = [at EXCEPT ![r] = new] /\ UNCHANGED provider /\ lost' = lost
  BY DEF Created, Step
<1>3. at[r].id \in Connection /\ at[r].bank \in Banks
  BY <1>1 DEF LocalOK
<1>4. /\ new \in Local /\ new.pc = "refresh" /\ new.kind = "sync" /\ new.id = at[r].id
      /\ new.credential = None /\ new.known = {}
  BY <1>3 DEF Idle, Local, Pc
<1> HIDE DEF new
<1>5. at'[r] = new
  BY <1>2 DEF IInv, Shapes
<1>6. db'[BankRow(at[r].id)] = at[r].bank /\ db'[BankRow(at[r].id)] # NoRow
  BY <1>1, <1>2, <1>3, StoredRows, NoRowIsNone
<1>7. LocalOK(r)'
  BY <1>3, <1>4, <1>5, <1>6 DEF LocalOK, Working
<1>8. at[r].credential \in Stored'
  BY <1>1, <1>3, <1>6, NoRowIsNone DEF Stored, Banked, LocalOK, Banks
<1> QED BY <1>1, <1>2, <1>4, <1>7, <1>8, CommitStep DEF LocalOK

-----------------------------------------------------------------------------
(* All steps.                                                              *)

LEMMA CrashStep ==
    ASSUME IInv, Kept, Crash
    PROVE  IInv' /\ Kept'
<1> USE DEF Crash, provider
<1>1. /\ \A r \in Req : /\ at'[r] = Idle
                        /\ DOMAIN want'[r] = {} /\ DOMAIN held'[r] = {}
      /\ DOMAIN want' = Req /\ DOMAIN held' = Req /\ db' = db /\ issued' = issued
  BY DEF Nothing
<1>2. Shapes'
  BY <1>1, IdleOK DEF IInv, Shapes
<1>3. TablesOK' /\ Stored' = Stored
  BY <1>1 DEF IInv, TablesOK, Stored, Banked
<1>4. OneRegisters' /\ LocksExclude'
  BY <1>1, IdleOK DEF OneRegisters, LocksExclude
<1>5. ASSUME NEW r \in Req PROVE RequestOK(r)'
  BY <1>1, IdleOK
     DEF RequestOK, ScopeOK, SecretOK, BankOK, AccountOK, LocalOK, Idle, Working
<1>6. Kept'
  BY <1>1, <1>3 DEF Kept
<1> QED BY <1>2, <1>3, <1>4, <1>5, <1>6 DEF IInv

\* Steps that leave the requests and the tables alone.
LEMMA OutsideStep ==
    ASSUME IInv, Kept, UNCHANGED <<session, issued, at, lost>>,
           authorized' \subseteq Authorization
    PROVE  IInv' /\ Kept'
<1> USE DEF session
<1>1. Shapes' /\ TablesOK' /\ OneRegisters' /\ LocksExclude' /\ Stored' = Stored /\ Linked' = Linked
  BY DEF IInv, Shapes, TablesOK, OneRegisters, LocksExclude, Stored, Linked, Banked
<1>2. ASSUME NEW r \in Req PROVE RequestOK(r)'
  <2>1. RequestOK(r)
    BY DEF IInv
  <2> QED BY <1>1, <2>1 DEF RequestOK, ScopeOK, SecretOK, BankOK, AccountOK, LocalOK
<1>3. Kept'
  BY <1>1 DEF Kept
<1> QED BY <1>1, <1>2, <1>3 DEF IInv

LEMMA NextStep ==
    ASSUME IInv, Kept, PortfolioOK, [Next]_vars
    PROVE  IInv' /\ Kept'
<1>1. CASE UNCHANGED vars
  BY <1>1, OutsideStep DEF vars, provider, IInv, Shapes
<1>2. ASSUME NEW r \in Req, Portal(r) \/ Complete(r) \/ ConnectPlaid(r) \/ Resync(r) \/ Edit(r)
      PROVE  IInv' /\ Kept'
  BY <1>2, BeginStep, FindStep, EditStep
<1>3. ASSUME NEW r \in Req, Work(r)
      PROVE  IInv' /\ Kept'
  <2>1. CASE Register(r) \/ KeepSecret(r) \/ Created(r) \/ Exchange(r)
    BY <2>1, RegisterStep, KeepSecretStep, CreatedStep, ExchangeStep
  <2>2. CASE \/ AlreadyRegistered(r) \/ OpenPortal(r) \/ ListAuthorizations(r)
             \/ ExchangeFails(r) \/ CallFails(r) \/ FindConnection(r) \/ Refresh(r)
    BY <2>2, ProviderStep, CallFailsStep, FindStep
  <2>3. CASE FetchNothing(r) \/ FetchBalance(r) \/ FetchPositions(r) \/ FetchFails(r)
    BY <2>3, FetchNothingStep, FetchStep, FetchFailsStep
  <2>4. CASE WriteAccount(r) \/ WriteHoldings(r) \/ WriteStatus(r)
    BY <2>4, WriteAccountStep, WriteHoldingsStep, WriteStatusStep
  <2>5. CASE Failed(r) \/ Commit(r) \/ Edited(r)
    BY <2>5, EndStep
  <2>6. CASE Sends(r) \/ Breaks(r)
    BY <2>6, FlushStep, BreakStep
  <2> QED BY <1>3, <2>1, <2>2, <2>3, <2>4, <2>5, <2>6 DEF Work
<1>4. CASE Authorize \/ Trade
  <2>1. UNCHANGED <<session, issued, at, lost>> /\ authorized' \subseteq Authorization
    BY <1>4 DEF Authorize, Trade, IInv, Shapes
  <2> QED BY <2>1, OutsideStep
<1>5. CASE Crash
  BY <1>5, CrashStep
<1> QED BY <1>1, <1>2, <1>3, <1>4, <1>5 DEF Next

LEMMA PortfolioStays ==
    ASSUME PortfolioOK, [Next]_vars
    PROVE  PortfolioOK'
<1>1. CASE UNCHANGED <<scene, portfolio>>
  BY <1>1 DEF PortfolioOK
<1>2. CASE Trade
  BY <1>2, LinkAssumption DEF PortfolioOK, Trade
<1>3. CASE UNCHANGED vars
  BY <1>1, <1>3 DEF vars, provider
<1>4. ASSUME NEW r \in Req, Portal(r) \/ Complete(r) \/ ConnectPlaid(r) \/ Resync(r) \/ Edit(r)
      PROVE  PortfolioOK'
  BY <1>1, <1>4 DEF Portal, Complete, BeginSnapTrade, ConnectPlaid, Begin, Resync, Edit, Step, provider
<1>5. ASSUME NEW r \in Req, Work(r)
      PROVE  PortfolioOK'
  <2>1. CASE Register(r) \/ OpenPortal(r) \/ Exchange(r) \/ CallFails(r)
    BY <1>1, <2>1 DEF Register, OpenPortal, Exchange, CallFails
  <2>2. CASE \/ AlreadyRegistered(r) \/ KeepSecret(r) \/ ListAuthorizations(r) \/ Created(r)
             \/ ExchangeFails(r) \/ Failed(r) \/ Commit(r) \/ Edited(r) \/ Sends(r) \/ Breaks(r)
    BY <1>1, <2>2 DEF AlreadyRegistered, KeepSecret, ListAuthorizations, Created,
         ExchangeFails, Failed, Commit, Edited, Sends, Breaks, End, Go, Step, provider
  <2>3. CASE \/ FindConnection(r) \/ Refresh(r) \/ FetchNothing(r)
             \/ FetchBalance(r) \/ FetchPositions(r) \/ FetchFails(r)
    BY <1>1, <2>3 DEF FindConnection, Create, Refresh, FetchNothing, FetchBalance,
         FetchPositions, FetchFails, Go, Step, provider
  <2>4. CASE WriteAccount(r) \/ WriteHoldings(r) \/ WriteStatus(r)
    BY <1>1, <2>4 DEF WriteAccount, WriteHoldings, WriteStatus, Go, Step, provider
  <2> QED BY <1>5, <2>1, <2>2, <2>3, <2>4 DEF Work
<1>6. CASE Authorize \/ Crash
  BY <1>1, <1>6 DEF Authorize, Crash, provider
<1> QED BY <1>2, <1>3, <1>4, <1>5, <1>6 DEF Next

LEMMA Starts ==
    ASSUME Init
    PROVE  IInv /\ Kept /\ PortfolioOK
<1> USE RowNames, RowsAreRows, NoRowIsNone
<1>1. /\ \A r \in Req : /\ at[r] = Idle
                        /\ DOMAIN want[r] = {} /\ DOMAIN held[r] = {}
      /\ DOMAIN want = Req /\ DOMAIN held = Req /\ lost = {}
  BY DEF Init, Nothing
<1>2. scene \in Scenes /\ portfolio \in Portfolios
  BY LinkAssumption DEF Init
<1>3. CASE /\ db = [x \in Row |-> IF x = User THEN [secret |-> None] ELSE NoRow]
           /\ issued = {} /\ authorized = {}
  <2>1. TablesOK
    BY <1>3 DEF TablesOK, Users, Credential
  <2> QED BY <1>1, <1>2, <1>3, <2>1, IdleOK
       DEF IInv, Shapes, OneRegisters, LocksExclude, Kept, PortfolioOK, Init,
           RequestOK, ScopeOK, SecretOK, BankOK, AccountOK, LocalOK, Idle, Working
<1>4. ASSUME NEW k \in Connection, scene.linked # NoRow,
             db = [x \in Row |-> IF x = User THEN [secret |-> Mine]
                                 ELSE IF x = BankRow(k)
                                   THEN [link |-> scene.linked, credential |-> Mine,
                                         status |-> "pending"]
                                 ELSE NoRow],
             issued = {Mine}, authorized = {scene.linked}
      PROVE  IInv /\ Kept /\ PortfolioOK
  <2>1. scene.linked \in Authorization
    BY <1>2, <1>4, LinkAssumption
  <2>2. TablesOK
    BY <1>4, <2>1, LinkAssumption DEF TablesOK, Users, Banks, Credential, Link
  <2>3. Mine \in Stored
    BY <1>4 DEF Stored, Credential
  <2>4. Shapes
    BY <1>1, <1>4, <2>1, IdleOK DEF Shapes, Init, Credential
  <2> QED BY <1>1, <1>2, <1>4, <2>2, <2>3, <2>4, IdleOK
       DEF IInv, OneRegisters, LocksExclude, Kept, PortfolioOK,
           RequestOK, ScopeOK, SecretOK, BankOK, AccountOK, LocalOK, Idle, Working
<1> QED BY <1>3, <1>4 DEF Init

LEMMA Holds == Spec => [](IInv /\ Kept /\ PortfolioOK)
<1>1. Init => IInv /\ Kept /\ PortfolioOK
  BY Starts
<1>2. (IInv /\ Kept /\ PortfolioOK) /\ [Next]_vars => (IInv /\ Kept /\ PortfolioOK)'
  BY NextStep, PortfolioStays
<1> QED BY <1>1, <1>2, PTL DEF Spec

-----------------------------------------------------------------------------
(* Types.  IInv has those of what a request goes by; positions only come   *)
(* and go, and no other step goes by them.                                 *)

HoldingRow == {Holding(k, x) : k \in Connection, x \in Security}

HoldingOK(v) == v \in {NoRow, Held}

HoldingsOK ==
    /\ DOMAIN db = Row
    /\ \A y \in HoldingRow : HoldingOK(db[y])
    /\ \A r \in Req : \A y \in HoldingRow :
         /\ y \in DOMAIN held[r] => HoldingOK(held[r][y])
         /\ y \in DOMAIN want[r] => HoldingOK(want[r][y].was) /\ HoldingOK(want[r][y].new)

ObserverOK == lost \subseteq Credential /\ portal \in BOOLEAN

\* The pending changes of a request that has no position in them, or writes them.
NoHolding(W) == DOMAIN W \cap HoldingRow = {}

FitsHoldings(W) ==
    \A y \in HoldingRow \cap DOMAIN W : HoldingOK(W[y].was) /\ HoldingOK(W[y].new)

LEMMA OthersAreNoHoldings ==
    ASSUME NEW k, NEW was, NEW to
    PROVE  /\ NoHolding(Becomes(User, was, to))
           /\ NoHolding(Becomes(BankRow(k), was, to)) /\ NoHolding(Touch(BankRow(k), was, to))
           /\ NoHolding(Becomes(Account(k), was, to))
<1>1. User \notin HoldingRow /\ BankRow(k) \notin HoldingRow /\ Account(k) \notin HoldingRow
  BY RowNames DEF HoldingRow
<1>2. /\ DOMAIN Becomes(User, was, to) \subseteq {User}
      /\ DOMAIN Becomes(BankRow(k), was, to) \subseteq {BankRow(k)}
      /\ DOMAIN Becomes(Account(k), was, to) \subseteq {Account(k)}
      /\ DOMAIN Touch(BankRow(k), was, to) = {BankRow(k)}
  BY BecomesOnly DEF Touch
<1> QED BY <1>1, <1>2 DEF NoHolding

\* What a step does to the sessions: at most one of these, of one request.
SessionSteps(r) ==
    \/ UNCHANGED session
    \/ \E W : Pend(r, W) /\ FitsHoldings(W)
    \/ Flush(r) \/ Rollback(r) \/ Store(r)

LEMMA WritesHoldings ==
    ASSUME NEW r \in Req, WriteHoldings(r)
    PROVE  \E W : Pend(r, W) /\ FitsHoldings(W)
<1> DEFINE stored == {x \in Security : db[Holding(at[r].id, x)] # NoRow}
           row(x) == Holding(at[r].id, x)
           rows(S) == {row(x) : x \in S}
           W == [y \in rows(stored \cup at[r].positions) |->
                   Change(IF y \in rows(stored) THEN Held ELSE NoRow,
                          IF y \in rows(at[r].positions) THEN Held ELSE NoRow)]
<1>1. Pend(r, W)
  BY DEF WriteHoldings
<1>2. FitsHoldings(W)
  BY DEF FitsHoldings, HoldingOK, Change
<1> QED BY <1>1, <1>2

LEMMA StepsOfSessions ==
    ASSUME [Next]_vars
    PROVE  (\E r \in Req : SessionSteps(r)) \/ UNCHANGED session \/ Crash
<1>1. ASSUME NEW W, NoHolding(W) PROVE FitsHoldings(W)
  BY <1>1 DEF NoHolding, FitsHoldings
<1>2. CASE UNCHANGED vars
  BY <1>2 DEF vars
<1>3. ASSUME NEW r \in Req, Portal(r) \/ Complete(r) \/ ConnectPlaid(r) \/ Resync(r) \/ Edit(r)
      PROVE  SessionSteps(r)
  <2>1. CASE Edit(r)
    BY <1>1, <2>1, OthersAreNoHoldings DEF Edit, SessionSteps
  <2> QED BY <1>3, <2>1
       DEF SessionSteps, Portal, Complete, BeginSnapTrade, ConnectPlaid, Begin, Resync
<1>4. ASSUME NEW r \in Req, Work(r)
      PROVE  SessionSteps(r)
  <2>1. CASE Register(r)
    BY <1>1, <2>1, OthersAreNoHoldings DEF Register, SessionSteps
  <2>2. CASE Exchange(r)
    BY <1>1, <2>2, OthersAreNoHoldings DEF Exchange, SessionSteps
  <2>3. CASE FindConnection(r)
    BY <1>1, <2>3, OthersAreNoHoldings DEF FindConnection, Create, SessionSteps
  <2>4. CASE FetchFails(r)
    BY <1>1, <2>4, OthersAreNoHoldings DEF FetchFails, SessionSteps
  <2>5. CASE WriteAccount(r)
    BY <1>1, <2>5, OthersAreNoHoldings DEF WriteAccount, SessionSteps
  <2>6. CASE WriteStatus(r)
    BY <1>1, <2>6, OthersAreNoHoldings DEF WriteStatus, SessionSteps
  <2>7. CASE WriteHoldings(r)
    BY <2>7, WritesHoldings DEF SessionSteps
  <2>8. CASE Sends(r) \/ Breaks(r)
    BY <2>8 DEF Sends, Breaks, FlushFails, DeadlockVictim, SessionSteps
  <2>9. CASE KeepSecret(r) \/ Created(r) \/ Failed(r) \/ Commit(r) \/ Edited(r)
    BY <2>9 DEF KeepSecret, Created, Failed, Commit, Edited, SessionSteps
  <2>10. CASE \/ AlreadyRegistered(r) \/ OpenPortal(r) \/ ListAuthorizations(r)
              \/ ExchangeFails(r) \/ CallFails(r) \/ Refresh(r) \/ FetchNothing(r)
              \/ FetchBalance(r) \/ FetchPositions(r)
    BY <2>10 DEF AlreadyRegistered, OpenPortal, ListAuthorizations, ExchangeFails, CallFails,
       Refresh, FetchNothing, FetchBalance, FetchPositions, SessionSteps
  <2> QED BY <1>4, <2>1, <2>2, <2>3, <2>4, <2>5, <2>6, <2>7, <2>8, <2>9, <2>10 DEF Work
<1>5. CASE Authorize \/ Trade
  BY <1>5 DEF Authorize, Trade
<1> QED BY <1>2, <1>3, <1>4, <1>5 DEF Next

\* An UPDATE of a position sends what was assigned.
LEMMA SentHolding ==
    ASSUME NEW change, HoldingOK(change.was), HoldingOK(change.new),
           NEW now, HoldingOK(now)
    PROVE  HoldingOK(Sent(change, now))
<1>1. CASE now = NoRow \/ change.new = NoRow
  BY <1>1 DEF HoldingOK, Sent
<1>2. CASE now # NoRow /\ change.new # NoRow
  <2>1. now = Held /\ change.new = Held
    BY <1>2 DEF HoldingOK
  <2>2. DOMAIN now = {"held"} /\ now["held"] = TRUE /\ change.new["held"] = TRUE
    BY <2>1 DEF Held
  <2>3. Sent(change, now) = [f \in DOMAIN now |->
                               IF change.was[f] = change.new[f] THEN now[f] ELSE change.new[f]]
    BY <1>2 DEF Sent
  <2>4. Sent(change, now) = [f \in {"held"} |-> TRUE]
    BY <2>2, <2>3
  <2> QED BY <2>4 DEF HoldingOK, Held
<1> QED BY <1>1, <1>2

LEMMA HoldingsStay ==
    ASSUME IInv, HoldingsOK, [Next]_vars
    PROVE  HoldingsOK'
<1> USE DEF HoldingsOK
<1>1. DOMAIN want = Req /\ DOMAIN held = Req /\ HoldingRow \subseteq Row
  BY RowAssumption DEF IInv, Shapes, HoldingRow, Rows
<1>2. CASE UNCHANGED session
  BY <1>2 DEF session
<1>3. CASE Crash
  BY <1>3 DEF Crash, Nothing
<1>4. ASSUME NEW r \in Req, NEW W, Pend(r, W), FitsHoldings(W)
      PROVE  HoldingsOK'
  BY <1>1, <1>4 DEF Pend, FitsHoldings
<1>5. ASSUME NEW r \in Req, Flush(r)
      PROVE  HoldingsOK'
  <2>1. PICK row \in DOMAIN want[r] :
          /\ held' = [held EXCEPT ![r] =
                        [x \in DOMAIN held[r] \cup {row} |->
                           IF x = row THEN Sent(want[r][row], Sees(r)[row]) ELSE held[r][x]]]
          /\ want' = [want EXCEPT ![r] = [x \in DOMAIN want[r] \ {row} |-> want[r][x]]]
          /\ db' = db
    BY <1>1, <1>5 DEF Flush
  <2>2. row \in HoldingRow => HoldingOK(Sent(want[r][row], Sees(r)[row]))
    <3>1. row \in HoldingRow => HoldingOK(Sees(r)[row])
      BY <1>1 DEF Sees
    <3> QED BY <3>1, SentHolding
  <2>3. \A y \in HoldingRow :
          /\ y \in DOMAIN held'[r] => HoldingOK(held'[r][y])
          /\ y \in DOMAIN want'[r] => HoldingOK(want'[r][y].was) /\ HoldingOK(want'[r][y].new)
    BY <1>1, <2>1, <2>2
  <2>4. \A q \in Req \ {r} : held'[q] = held[q] /\ want'[q] = want[q]
    BY <1>1, <2>1
  <2> QED BY <2>1, <2>3, <2>4
<1>6. ASSUME NEW r \in Req, Rollback(r)
      PROVE  HoldingsOK'
  BY <1>1, <1>6 DEF Rollback, Nothing
<1>7. ASSUME NEW r \in Req, Store(r)
      PROVE  HoldingsOK'
  BY <1>1, <1>7 DEF Store, Sees, Nothing
<1> QED BY <1>2, <1>3, <1>4, <1>5, <1>6, <1>7, StepsOfSessions DEF SessionSteps

LEMMA ObserverStays ==
    ASSUME IInv, ObserverOK, [Next]_vars
    PROVE  ObserverOK'
<1> USE DEF ObserverOK
<1>1. CASE UNCHANGED <<portal, lost>>
  BY <1>1
<1>2. CASE UNCHANGED vars
  BY <1>1, <1>2 DEF vars, provider
<1>3. ASSUME NEW r \in Req, CallFails(r)
      PROVE  ObserverOK'
  <2>1. at[r].pc = "exchange" => at[r].link \in Credential
    BY DEF IInv, RequestOK, LocalOK, Credential
  <2>2. PICK S \in SUBSET Credential : lost' = lost \cup (S \ issued)
    BY <1>3, <2>1 DEF CallFails, Credential
  <2>3. portal' = portal
    BY <1>3 DEF CallFails
  <2> QED BY <2>2, <2>3
<1>4. CASE Crash
  <2>1. lost' \subseteq Credential
    BY <1>4 DEF Crash, IInv, Shapes
  <2>2. portal' = portal
    BY <1>4 DEF Crash, provider
  <2> QED BY <2>1, <2>2
<1>5. ASSUME NEW r \in Req, OpenPortal(r)
      PROVE  ObserverOK'
  BY <1>5 DEF OpenPortal
<1>6. ASSUME NEW r \in Req, Portal(r) \/ Complete(r) \/ ConnectPlaid(r) \/ Resync(r) \/ Edit(r)
      PROVE  UNCHANGED <<portal, lost>>
  BY <1>6 DEF Portal, Complete, BeginSnapTrade, ConnectPlaid, Begin, Resync, Edit, Step, provider
<1>7. ASSUME NEW r \in Req, Work(r)
      PROVE  ObserverOK'
  <2>1. CASE \/ AlreadyRegistered(r) \/ KeepSecret(r) \/ ListAuthorizations(r) \/ Created(r)
             \/ ExchangeFails(r) \/ Failed(r) \/ Commit(r) \/ Edited(r) \/ Sends(r) \/ Breaks(r)
    BY <1>1, <2>1 DEF AlreadyRegistered, KeepSecret, ListAuthorizations, Created,
         ExchangeFails, Failed, Commit, Edited, Sends, Breaks, End, Go, Step, provider
  <2>2. CASE \/ FindConnection(r) \/ Refresh(r) \/ FetchNothing(r)
             \/ FetchBalance(r) \/ FetchPositions(r) \/ FetchFails(r)
    BY <1>1, <2>2 DEF FindConnection, Create, Refresh, FetchNothing, FetchBalance,
         FetchPositions, FetchFails, Go, Step, provider
  <2>3. CASE WriteAccount(r) \/ WriteHoldings(r) \/ WriteStatus(r)
    BY <1>1, <2>3 DEF WriteAccount, WriteHoldings, WriteStatus, Go, Step, provider
  <2>4. CASE Register(r) \/ Exchange(r)
    BY <1>1, <2>4 DEF Register, Exchange
  <2> QED BY <1>3, <1>5, <1>7, <2>1, <2>2, <2>3, <2>4 DEF Work
<1>8. CASE Authorize \/ Trade
  BY <1>1, <1>8 DEF Authorize, Trade
<1> QED BY <1>1, <1>2, <1>4, <1>6, <1>7, <1>8 DEF Next

LEMMA StartsTyped ==
    ASSUME Init
    PROVE  HoldingsOK /\ ObserverOK
<1>1. HoldingRow \subseteq Row /\ User \notin HoldingRow /\ \A k : BankRow(k) \notin HoldingRow
  BY RowNames, RowAssumption DEF HoldingRow, Rows
<1>2. DOMAIN db = Row /\ \A y \in HoldingRow : db[y] = NoRow
  BY <1>1 DEF Init
<1>3. \A r \in Req : DOMAIN want[r] = {} /\ DOMAIN held[r] = {}
  BY DEF Init, Nothing
<1>4. lost = {} /\ portal \in BOOLEAN
  BY DEF Init
<1> QED BY <1>2, <1>3, <1>4 DEF HoldingsOK, HoldingOK, ObserverOK

\* The tables and sessions are typed: each kind of row by what is known of it.
LEMMA RowsAreTyped ==
    ASSUME IInv, HoldingsOK
    PROVE  /\ \A x \in Row : ValueOK(x, db[x])
           /\ \A r \in Req :
                /\ \A x \in DOMAIN held[r] : ValueOK(x, held[r][x])
                /\ \A x \in DOMAIN want[r] : ValueOK(x, want[r][x].was) /\ ValueOK(x, want[r][x].new)
<1> USE RowNames, RowAssumption DEF HoldingsOK
<1>1. /\ \A v \in Users : ValueOK(User, v)
      /\ \A k : /\ \A v \in Banks : ValueOK(BankRow(k), v)
                /\ \A v \in Accounts : ValueOK(Account(k), v)
      /\ \A y \in HoldingRow : \A v : HoldingOK(v) => ValueOK(y, v)
      /\ \A x : ValueOK(x, NoRow)
  <2>1. /\ User[1] = "user"
        /\ \A k : BankRow(k)[1] = "connection" /\ Account(k)[1] = "account"
        /\ \A k, x : Holding(k, x)[1] = "holding"
    BY DEF User, BankRow, Account, Holding
  <2>2. \A y \in HoldingRow : y[1] = "holding"
    BY <2>1 DEF HoldingRow
  <2> QED BY <2>1, <2>2 DEF ValueOK, HoldingOK
<1>2. ASSUME NEW x \in Row PROVE ValueOK(x, db[x])
  <2>1. CASE x = User
    BY <1>1, <2>1 DEF IInv, TablesOK
  <2>2. ASSUME NEW k \in Connection, x = BankRow(k) \/ x = Account(k) PROVE ValueOK(x, db[x])
    BY <1>1, <2>2 DEF IInv, TablesOK
  <2>3. CASE x \in HoldingRow
    BY <1>1, <2>3
  <2> QED BY <2>1, <2>2, <2>3 DEF Rows, HoldingRow
<1>3. ASSUME NEW r \in Req
      PROVE  /\ \A x \in DOMAIN held[r] : ValueOK(x, held[r][x])
             /\ \A x \in DOMAIN want[r] : ValueOK(x, want[r][x].was) /\ ValueOK(x, want[r][x].new)
  <2> DEFINE s == at[r]
             typed(x) == /\ x \in DOMAIN held[r] => ValueOK(x, held[r][x])
                         /\ x \in DOMAIN want[r] =>
                              ValueOK(x, want[r][x].was) /\ ValueOK(x, want[r][x].new)
  <2>1. RequestOK(r)
    BY DEF IInv
  <2>2. typed(User)
    <3>1. [secret |-> None] \in Users /\ [secret |-> Mine] \in Users
      BY DEF Users
    <3> QED BY <1>1, <2>1, <3>1 DEF RequestOK, SecretOK, Change
  <2>3. s.pc \in {"create", "failed", "holdings", "commit"} => typed(BankRow(s.id))
    BY <1>1, <2>1 DEF RequestOK, BankOK, LocalOK, Change
  <2>4. s.pc \in {"account", "edit", "holdings", "commit"} => typed(Account(s.id))
    BY <1>1, <2>1 DEF RequestOK, AccountOK
  <2>5. \A y \in HoldingRow : typed(y)
    BY <1>1
  <2>6. s.pc \in {"holdings", "commit"} => s.id \in Connection
    BY <2>1 DEF RequestOK, LocalOK, Working
  <2>7. ASSUME NEW x \in Scope(s) PROVE typed(x)
    <3>1. CASE s.pc = "secret"
      BY <2>2, <2>7, <3>1 DEF Scope
    <3>2. CASE s.pc \in {"create", "failed"}
      BY <2>3, <2>7, <3>2 DEF Scope
    <3>3. CASE s.pc \in {"account", "edit"}
      BY <2>4, <2>7, <3>3 DEF Scope
    <3>4. CASE s.pc \in {"holdings", "commit"}
      <4>1. x = BankRow(s.id) \/ x = Account(s.id) \/ x \in HoldingRow
        BY <2>6, <2>7, <3>4 DEF Scope, RowsOf, HoldingRow
      <4> QED BY <2>3, <2>4, <2>5, <3>4, <4>1
    <3> QED BY <2>7, <3>1, <3>2, <3>3, <3>4 DEF Scope
  <2>8. DOMAIN held[r] \subseteq Scope(s) /\ DOMAIN want[r] \subseteq Scope(s)
    BY <2>1 DEF RequestOK, ScopeOK
  <2> QED BY <2>7, <2>8
<1> QED BY <1>2, <1>3

-----------------------------------------------------------------------------
(* Theorems.                                                               *)

\* What is stored, in a session and in a request has its shape at all times: in particular
\* a flush that merges an UPDATE into a row another request stored leaves a whole row.
THEOREM TypeCorrect == Spec => []TypeOK
<1>1. Init => HoldingsOK /\ ObserverOK
  BY StartsTyped
<1>2. IInv /\ HoldingsOK /\ ObserverOK /\ [Next]_vars => (HoldingsOK /\ ObserverOK)'
  BY HoldingsStay, ObserverStays
<1>3. IInv /\ PortfolioOK /\ HoldingsOK /\ ObserverOK => TypeOK
  <2> SUFFICES ASSUME IInv, PortfolioOK, HoldingsOK, ObserverOK PROVE TypeOK
    OBVIOUS
  <2>1. ASSUME NEW r \in Req
        PROVE  /\ at[r].pc \in {"idle", "register", "secret", "provider", "exchange", "find", "create",
                          "refresh", "balance", "positions", "failed", "load", "account", "holdings",
                          "status", "commit", "edit"}
               /\ at[r].kind \in {"none", "portal", "complete", "plaid", "sync", "edit"}
               /\ at[r].link \in Link \cup {NoRow}
               /\ at[r].credential \in Credential \cup {None}
               /\ at[r].id \in Connection \cup {NoRow} /\ ValueOK(<<"connection">>, at[r].bank)
               /\ at[r].balance \in Nat /\ at[r].positions \subseteq Security
               /\ at[r].known \subseteq Link
    <3>1. at[r] \in Local
      BY DEF IInv, Shapes
    <3>2. ValueOK(<<"connection">>, at[r].bank)
      BY <3>1 DEF Local, ValueOK
    <3> QED BY <3>1, <3>2 DEF Local, Pc
  <2>2. DOMAIN db = Row
    BY DEF HoldingsOK
  <2> QED BY <2>1, <2>2, RowsAreTyped DEF TypeOK, IInv, Shapes, ObserverOK, PortfolioOK
<1> QED BY <1>1, <1>2, <1>3, Holds, PTL DEF Spec

\* ensure_snaptrade_user and exchange_public_token: what the provider issued once is stored,
\* or with the request that received it, unless the answer or the process was lost.
THEOREM CredentialsAreKept == Spec => []CredentialsKept
<1>1. IInv /\ Kept => CredentialsKept
  <2>1. IInv => Stored \subseteq issued
    BY NoRowIsNone DEF IInv, TablesOK, Stored, Banked, Users
  <2> QED BY <2>1 DEF CredentialsKept, Kept
<1> QED BY <1>1, Holds, PTL

\* complete_snaptrade_connection and connect_plaid never add a connection of a link that
\* had one when the request began.
THEOREM NoSecondConnection == Spec => ConnectedOnce
<1>1. IInv /\ Kept => [\A r \in Req : Created(r) => at[r].link \notin at[r].known]_vars
  BY CreatedStep
<1> QED BY <1>1, Holds, PTL DEF ConnectedOnce

LEMMA PendsStoreNothing ==
    /\ \A r, W : Pend(r, W) => db' = db
    /\ \A r : Flush(r) \/ Rollback(r) => db' = db
BY DEF Pend, Flush, Rollback

LEMMA OnlyCommitsStore ==
    ASSUME [Next]_vars
    PROVE  \/ db' = db
           \/ \E r \in Req : /\ Store(r)
                             /\ KeepSecret(r) \/ Created(r) \/ Failed(r) \/ Commit(r) \/ Edited(r)
<1>1. CASE UNCHANGED vars
  BY <1>1 DEF vars, session
<1>2. ASSUME NEW r \in Req, Portal(r) \/ Complete(r) \/ ConnectPlaid(r) \/ Resync(r) \/ Edit(r)
      PROVE  db' = db
  <2>1. CASE Portal(r) \/ Complete(r) \/ ConnectPlaid(r) \/ Resync(r)
    BY <2>1 DEF Portal, Complete, BeginSnapTrade, ConnectPlaid, Begin, Resync, session
  <2>2. CASE Edit(r)
    BY <2>2 DEF Edit, Pend
  <2> QED BY <1>2, <2>1, <2>2
<1>3. ASSUME NEW r \in Req, Work(r)
      PROVE  db' = db \/ (Store(r) /\ (KeepSecret(r) \/ Created(r) \/ Failed(r) \/ Commit(r) \/ Edited(r)))
  <2>1. CASE OpenPortal(r) \/ CallFails(r) \/ AlreadyRegistered(r) \/ ListAuthorizations(r)
             \/ ExchangeFails(r) \/ Refresh(r) \/ FetchNothing(r)
             \/ FetchBalance(r) \/ FetchPositions(r)
    BY <2>1 DEF OpenPortal, CallFails, AlreadyRegistered, ListAuthorizations,
         ExchangeFails, Refresh, FetchNothing, FetchBalance, FetchPositions, session
  <2>2. CASE KeepSecret(r) \/ Created(r) \/ Failed(r) \/ Commit(r) \/ Edited(r)
    BY <2>2 DEF KeepSecret, Created, Failed, Commit, Edited
  <2>3. CASE Sends(r) \/ Breaks(r)
    BY <2>3, PendsStoreNothing DEF Sends, Breaks, FlushFails, DeadlockVictim
  <2>4. CASE Register(r)
    BY <2>4 DEF Register, Pend
  <2>5. CASE Exchange(r)
    BY <2>5 DEF Exchange, Pend
  <2>6. CASE FindConnection(r)
    BY <2>6 DEF FindConnection, Create, Pend, session
  <2>7. CASE FetchFails(r)
    BY <2>7 DEF FetchFails, Pend
  <2>8. CASE WriteAccount(r)
    BY <2>8 DEF WriteAccount, Pend
  <2>9. CASE WriteHoldings(r)
    BY <2>9 DEF WriteHoldings, Pend
  <2>10. CASE WriteStatus(r)
    BY <2>10 DEF WriteStatus, Pend
  <2> QED BY <1>3, <2>1, <2>2, <2>3, <2>4, <2>5, <2>6, <2>7, <2>8, <2>9, <2>10 DEF Work
<1>4. CASE Authorize \/ Trade \/ Crash
  BY <1>4 DEF Authorize, Trade, Crash, session
<1> QED BY <1>1, <1>2, <1>3, <1>4 DEF Next

\* _upsert_account and PATCH /accounts/{id} of one account, however they overlap: neither
\* undoes what the other commits.
THEOREM EditsStand == Spec => OwnersEditsStand
<1>1. ASSUME IInv, [Next]_vars, NEW k \in Connection
      PROVE  EditStands(k)
  <2>1. CASE db'[Account(k)] = db[Account(k)]
    BY <2>1 DEF EditStands
  <2>2. ASSUME NEW r \in Req, Store(r), db'[Account(k)] # db[Account(k)], db[Account(k)] # NoRow,
               KeepSecret(r) \/ Created(r) \/ Failed(r) \/ Commit(r) \/ Edited(r)
        PROVE  EditStands(k)
    <3>1. /\ at[r].id = k /\ at[r].pc \in {"account", "edit", "holdings", "commit"}
          /\ db'[Account(k)] \in Accounts
          /\ at[r].pc = "edit" => db'[Account(k)].balance = db[Account(k)].balance
          /\ at[r].pc # "edit" => SameEdits(db'[Account(k)], db[Account(k)])
      BY <1>1, <2>2, StoredRows
    <3>2. db'[Account(k)] # NoRow
      BY <3>1, NoRowAssumption
    <3>3. CASE Edited(r)
      <4>1. at[r].pc = "edit"
        BY <3>3 DEF Edited
      <4> QED BY <3>1, <3>2, <3>3, <4>1 DEF EditStands
    <3>4. CASE Commit(r)
      <4>1. at[r].pc # "edit"
        BY <3>4 DEF Commit
      <4> QED BY <3>1, <3>2, <3>4, <4>1 DEF EditStands, SameEdits
    <3>5. CASE KeepSecret(r) \/ Created(r) \/ Failed(r)
      BY <3>1, <3>5 DEF KeepSecret, Created, Failed
    <3> QED BY <2>2, <3>3, <3>4, <3>5
  <2>3. CASE db[Account(k)] = NoRow
    BY <2>3 DEF EditStands
  <2>4. \/ db' = db
        \/ \E r \in Req : /\ Store(r)
                          /\ KeepSecret(r) \/ Created(r) \/ Failed(r) \/ Commit(r) \/ Edited(r)
    BY <1>1, OnlyCommitsStore
  <2>5. CASE db' = db
    BY <2>1, <2>5
  <2>6. ASSUME NEW r \in Req, Store(r),
               KeepSecret(r) \/ Created(r) \/ Failed(r) \/ Commit(r) \/ Edited(r)
        PROVE  EditStands(k)
    BY <2>1, <2>2, <2>3, <2>6
  <2> QED BY <2>4, <2>5, <2>6
<1>2. IInv /\ [Next]_vars => [\A k \in Connection : EditStands(k)]_vars
  BY <1>1
<1> QED BY <1>2, Holds, PTL DEF Spec, OwnersEditsStand
=============================================================================
