------------------------------ MODULE BankSync ------------------------------
(***************************************************************************)
(* Bank synchronisation: requests that pull a provider's snapshot and      *)
(* upsert it into PostgreSQL, one database session each, interleaved at    *)
(* every await of the single asyncio process.                              *)
(*                                                                         *)
(* Sources: backend/app/connections/{service,router,provider,models}.py,   *)
(* backend/app/notifications/service.py and the lines of                   *)
(* backend/app/account/service.py that delete a household.                 *)
(*                                                                         *)
(* The database runs READ COMMITTED: a SELECT sees the last commit, a      *)
(* written row stays locked until its transaction ends, an INSERT waits    *)
(* for an uncommitted row of the same key and fails on a committed one.    *)
(* The ORM writes only the columns that differ from what it loaded.        *)
(*                                                                         *)
(* A connection has one bank account here: the account loop of             *)
(* _apply_snapshot repeats the same statements for each.                   *)
(***************************************************************************)
EXTENDS Naturals, FiniteSets

CONSTANTS
    Conn,         \* bank connections, each of which may come to exist once
    Req,          \* request slots: sessions that may be open at one time
    Kinds,        \* Kinds[csv]: the request kinds a model allows if csv are the CSV imports
    MaxVersion,   \* bound on how often the bank's data changes
    Feed,         \* Feed[v] is the snapshot the bank serves at version v
    Balance,      \* what an account row's provider fields can hold
    Txn,          \* transaction external ids
    Security,     \* holding external ids
    NoRow,        \* no account row
    NoConn,       \* no connection
    MayCrash,     \* whether the process may die and restart
    MayWipe       \* connections whose household may be deleted

AllKinds == {"resync", "mine", "nightly", "connect", "import"}
Version  == 1..MaxVersion
Snapshot == [balance : Balance, txns : SUBSET Txn, holdings : SUBSET Security]

ASSUME FeedAssumption ==
    /\ MaxVersion \in Nat /\ MaxVersion > 0
    /\ Feed \in [Version -> Snapshot]
ASSUME ConstAssumption ==
    /\ Kinds \in [SUBSET Conn -> SUBSET AllKinds]
    /\ NoRow \notin Balance
    /\ NoConn \notin Conn
    /\ MayCrash \in BOOLEAN /\ MayWipe \subseteq Conn

VARIABLES
    bank,      \* bank[c]: the version the bank serves now; 0 for a CSV import, which has none
    status,    \* BankConnection.status, "none" before and "deleted" after the row
    balance,   \* the account row's provider fields, or NoRow
    ledger,    \* the external ids of the account's transaction rows
    enriched,  \* those that have a transaction_enrichments row
    holdings,  \* the external ids of the account's holding rows
    notified,  \* the sync_complete notifications, as <<connection, version>>
    req,       \* what each request has read and how far it is
    history    \* observer: versions whose rows were committed

rows == <<balance, ledger, enriched, holdings, history>>
db   == <<status, rows, notified>>
vars == <<bank, status, balance, ledger, enriched, holdings, notified, req, history>>

StoredStatus == {"pending", "active", "error"}
Status       == StoredStatus \cup {"none", "deleted"}
Pc           == {"idle", "next", "fetch", "load", "account", "txns", "holdings",
                 "commit", "notify"}

Live    == {c \in Conn : status[c] \in StoredStatus}
CsvConn == {c \in Conn : bank[c] = 0}

\* The sync of one connection: the version fetched, what was loaded of the account,
\* its transactions and its holdings, and (once it has failed) the new transactions
\* that were left without enrichment.
Sync == [conn : Conn \cup {NoConn}, snap : Version \cup {0},
         balance : Balance \cup {NoRow}, txns : SUBSET Txn,
         holdings : SUBSET Security, bare : SUBSET Txn]

NoSync == [conn |-> NoConn, snap |-> 0, balance |-> NoRow, txns |-> {},
           holdings |-> {}, bare |-> {}]

\* todo: connections of a batch still to come;  cur: the sync under way;  left: syncs
\* of this session that failed after their flush and were not rolled back;  status:
\* what the session loaded;  stale (observer): connections others wrote since then.
Request == [pc : Pc, kind : AllKinds \cup {"none"}, todo : SUBSET Conn, cur : Sync,
            left : SUBSET Sync, status : [Conn -> Status], stale : SUBSET Conn]

Idle == [pc |-> "idle", kind |-> "none", todo |-> {}, cur |-> NoSync, left |-> {},
         status |-> [c \in Conn |-> "none"], stale |-> {}]

TypeOK ==
    /\ bank     \in [Conn -> Version \cup {0}]
    /\ status   \in [Conn -> Status]
    /\ balance  \in [Conn -> Balance \cup {NoRow}]
    /\ ledger   \in [Conn -> SUBSET Txn]
    /\ enriched \in [Conn -> SUBSET Txn]
    /\ holdings \in [Conn -> SUBSET Security]
    /\ notified \in SUBSET (Conn \X Version)
    /\ req      \in [Req -> Request]
    /\ history  \in [Conn -> SUBSET Version]

Init ==
    /\ \E csv \in SUBSET Conn :
          /\ Kinds[csv] # {}
          /\ bank = [c \in Conn |-> IF c \in csv THEN 0 ELSE 1]
    /\ status   = [c \in Conn |-> "none"]
    /\ balance  = [c \in Conn |-> NoRow]
    /\ ledger   = [c \in Conn |-> {}]
    /\ enriched = [c \in Conn |-> {}]
    /\ holdings = [c \in Conn |-> {}]
    /\ notified = {}
    /\ req      = [r \in Req |-> Idle]
    /\ history  = [c \in Conn |-> {}]

-----------------------------------------------------------------------------
(* What a sync writes, and what an open transaction therefore holds locked. *)

\* SQLAlchemy emits no UPDATE for an account whose fields are as loaded.
WritesAccount(s) == s.balance # Feed[s.snap].balance
\* Mutant: the "already stored" test inverted.
NewTxnsInverted(s) == Feed[s.snap].txns \cap s.txns
\* The rows the session adds: those of the snapshot it did not find.
NewTxns(s)     == Feed[s.snap].txns \ s.txns
NewHoldings(s) == Feed[s.snap].holdings \ s.holdings
\* Mutant: positions no longer served are kept.
GoneHoldingsKept(s) == {}
\* Found and no longer served: deleted.  Found and served: updated, as_of changes.
GoneHoldings(s) == s.holdings \ Feed[s.snap].holdings
KeptHoldings(s) == s.holdings \cap Feed[s.snap].holdings

Cur(r) == req[r].cur
At(r)  == Cur(r).conn

\* The syncs of r's open transaction whose writes have reached a given stage, for c.
Flushed(r, c, stages) ==
    {s \in req[r].left \cup (IF req[r].pc \in stages THEN {Cur(r)} ELSE {}) : s.conn = c}

HoldsAccount(r, c) == \E s \in Flushed(r, c, {"txns", "holdings", "commit"}) : WritesAccount(s)
HeldTxns(r, c)     == UNION {NewTxns(s) : s \in Flushed(r, c, {"holdings", "commit"})}
HeldHoldings(r, c) == UNION {NewHoldings(s) \cup s.holdings : s \in Flushed(r, c, {"commit"})}
HoldsRows(r, c)    == HoldsAccount(r, c) \/ HeldTxns(r, c) # {} \/ HeldHoldings(r, c) # {}

\* r's next statement waits for a row that q has written.
BlockedBy(r, q) ==
    /\ q # r
    /\ \/ /\ req[r].pc = "account"
          /\ WritesAccount(Cur(r))
          /\ HoldsAccount(q, At(r))
       \/ /\ req[r].pc = "txns"
          /\ HeldTxns(q, At(r)) \cap NewTxns(Cur(r)) # {}
       \/ /\ req[r].pc = "holdings"
          /\ HeldHoldings(q, At(r)) \cap (NewHoldings(Cur(r)) \cup Cur(r).holdings) # {}
Blocked(r) == \E q \in Req : BlockedBy(r, q)

Step(r, new) == req' = [req EXCEPT ![r] = new]

\* r commits changes to the connections C: what others loaded of them is old.
StepAndPublish(r, C, new) ==
    req' = [q \in Req |->
              IF q = r THEN new
              ELSE [req[q] EXCEPT !.stale = @ \cup
                                    (C \cap (req[q].todo \cup {At(q)}))]]

\* COMMIT of the rows that the syncs S have flushed.
Of(S, c) == {s \in S : s.conn = c}
\* Mutant: the stored transactions are replaced by the new ones.
CommitRowsReplacing(S) ==
    /\ balance' = [c \in Conn |->
                     IF \E s \in Of(S, c) : WritesAccount(s)
                       THEN Feed[(CHOOSE s \in Of(S, c) : WritesAccount(s)).snap].balance
                       ELSE balance[c]]
    /\ ledger' = [c \in Conn |-> IF Of(S, c) = {} THEN ledger[c]
                                 ELSE UNION {NewTxns(s) : s \in Of(S, c)}]
    /\ UNCHANGED <<enriched, holdings, history>>

CommitRows(S) ==
    /\ balance' = [c \in Conn |->
                     IF \E s \in Of(S, c) : WritesAccount(s)
                       THEN Feed[(CHOOSE s \in Of(S, c) : WritesAccount(s)).snap].balance
                       ELSE balance[c]]
    /\ ledger' = [c \in Conn |-> ledger[c] \cup UNION {NewTxns(s) : s \in Of(S, c)}]
    /\ enriched' = [c \in Conn |->
                      enriched[c] \cup UNION {NewTxns(s) \ s.bare : s \in Of(S, c)}]
    /\ holdings' = [c \in Conn |->
                      (holdings[c] \cup UNION {NewHoldings(s) : s \in Of(S, c)})
                         \ UNION {GoneHoldings(s) : s \in Of(S, c)}]
    /\ history' = [c \in Conn |-> history[c] \cup {s.snap : s \in Of(S, c)}]

ConnsOf(S) == {s.conn : s \in S}

-----------------------------------------------------------------------------
(* Starting a request.                                                     *)

Begin(r, k, S) ==
    /\ req[r].pc = "idle"
    /\ k \in Kinds[CsvConn]
    /\ S # {}
    /\ Step(r, [Idle EXCEPT !.pc = "next", !.kind = k, !.todo = S,
                            !.status = [c \in Conn |->
                                          IF c \in S THEN status[c] ELSE "none"]])
    /\ UNCHANGED <<bank, db>>

\* POST /connections/{id}/sync and /plaid/{id}/reauth-complete.
Resync(r, c) == c \in Live \ CsvConn /\ Begin(r, "resync", {c})

\* POST /connections/sync-mine: every connection of the user but CSV imports.
SyncMine(r) == Begin(r, "mine", Live \ CsvConn)

\* POST /ops/sync-all: whatever is active or in error, CSV imports included.
SyncAll(r) == Begin(r, "nightly", {c \in Conn : status[c] \in {"active", "error"}})

\* Mutant: a connection counts as active as soon as it is stored.
CreateRowActive(r, c, new) ==
    /\ req[r].pc = "idle"
    /\ status[c] = "none"
    /\ new.kind \in Kinds[CsvConn]
    /\ status' = [status EXCEPT ![c] = "active"]
    /\ Step(r, [new EXCEPT !.cur.conn = c, !.status = [@ EXCEPT ![c] = "active"]])
    /\ UNCHANGED <<bank, rows, notified>>

\* create_connection commits the row, pending, before anything is fetched.
CreateRow(r, c, new) ==
    /\ req[r].pc = "idle"
    /\ status[c] = "none"
    /\ new.kind \in Kinds[CsvConn]
    /\ status' = [status EXCEPT ![c] = "pending"]
    /\ Step(r, [new EXCEPT !.cur.conn = c, !.status = [@ EXCEPT ![c] = "pending"]])
    /\ UNCHANGED <<bank, rows, notified>>

Connect(r, c) ==
    c \notin CsvConn /\ CreateRow(r, c, [Idle EXCEPT !.pc = "fetch", !.kind = "connect"])

\* The parsed file is the snapshot: nothing is fetched.
ImportCsv(r, c) ==
    /\ c \in CsvConn
    /\ \E v \in Version :
         CreateRow(r, c, [Idle EXCEPT !.pc = "load", !.kind = "import", !.cur.snap = v])

-----------------------------------------------------------------------------
(* sync_connection and _apply_snapshot, one step per database round trip.  *)

PickConnection(r) ==
    /\ req[r].pc = "next"
    /\ \E c \in req[r].todo :
         Step(r, [req[r] EXCEPT !.pc = "fetch", !.cur = [NoSync EXCEPT !.conn = c],
                                !.todo = @ \ {c}])
    /\ UNCHANGED <<bank, db>>

\* The request as it goes on to its next connection, or ends.
Onward(q) ==
    IF q.todo = {} /\ q.left = {} THEN Idle
    ELSE [q EXCEPT !.pc = "next", !.cur = NoSync]

\* A failed flush ends the request: its session can do nothing more, so what is
\* left of a batch is never tried.
Abort(r) == Step(r, Idle) /\ UNCHANGED <<bank, db>>

\* The provider's answer is fixed here; it is applied some awaits later.
FetchOk(r) ==
    /\ req[r].pc = "fetch"
    /\ At(r) \notin CsvConn
    /\ Step(r, [req[r] EXCEPT !.pc = "load", !.cur.snap = bank[At(r)]])
    /\ UNCHANGED <<bank, db>>

\* Mutant: a failed fetch writes a status the schema does not know.
FetchFailsFailed(r) ==
    /\ req[r].pc = "fetch"
    /\ status' = [status EXCEPT ![At(r)] = "failed"]
    /\ Step(r, Onward(req[r]))
    /\ UNCHANGED <<bank, rows, notified>>

\* Mutant: a failed fetch is tried again, without end.
FetchFailsRetries(r) ==
    /\ req[r].pc = "fetch"
    /\ At(r) \in Live
    /\ status' = [status EXCEPT ![At(r)] =
                    IF @ = "error" THEN "pending" ELSE "error"]
    /\ UNCHANGED <<bank, rows, notified, req>>

\* The except branch of sync_connection: status = "error", COMMIT (of whatever the
\* session had flushed), raise.  No UPDATE is sent when the loaded status is "error"
\* already; one that finds the row deleted fails the flush.
FetchFails(r) ==
    LET c == At(r)
        sent == req[r].status[c] # "error"
        left == req[r].left
    IN  /\ req[r].pc = "fetch"
        /\ IF sent /\ c \notin Live THEN Abort(r)
           ELSE /\ status' = IF sent THEN [status EXCEPT ![c] = "error"] ELSE status
                /\ CommitRows(left)
                /\ StepAndPublish(r, ConnsOf(left) \cup (IF sent THEN {c} ELSE {}),
                                  Onward([req[r] EXCEPT !.left = {}]))
                /\ UNCHANGED <<bank, notified>>

\* SELECT the connection's accounts.
LoadAccount(r) ==
    /\ req[r].pc = "load"
    /\ Step(r, [req[r] EXCEPT !.pc = "account", !.cur.balance = balance[At(r)]])
    /\ UNCHANGED <<bank, db>>

\* INSERT or UPDATE the account, then SELECT its transactions' external ids (that
\* SELECT flushes the UPDATE first).  The INSERT may meet a committed row or no
\* connection, the UPDATE no row.
WriteAccount(r) ==
    LET c == At(r)
        fails == /\ WritesAccount(Cur(r))
                 /\ c \notin Live \/ (Cur(r).balance = NoRow /\ balance[c] # NoRow)
    IN  /\ req[r].pc = "account"
        /\ ~ Blocked(r)
        /\ IF fails THEN Abort(r)
           ELSE /\ Step(r, [req[r] EXCEPT !.pc = "txns", !.cur.txns = ledger[c]])
                /\ UNCHANGED <<bank, db>>

\* INSERT the transactions that were not found; the SELECT of the holdings flushes
\* them.  An uncommitted row of the same key is waited for, a committed one is an
\* IntegrityError, and so is an account that is gone.
WriteTransactions(r) ==
    LET c == At(r)
        fails == /\ NewTxns(Cur(r)) # {}
                 /\ c \notin Live \/ ledger[c] \cap NewTxns(Cur(r)) # {}
    IN  /\ req[r].pc = "txns"
        /\ ~ Blocked(r)
        /\ IF fails THEN Abort(r)
           ELSE /\ Step(r, [req[r] EXCEPT !.pc = "holdings", !.cur.holdings = holdings[c]])
                /\ UNCHANGED <<bank, db>>

\* _upsert_holdings.  A row to update that is gone fails the flush; a row to
\* delete that is gone does not.
WriteHoldings(r) ==
    LET c == At(r)
        fails == \/ NewHoldings(Cur(r)) # {} /\ c \notin Live
                 \/ NewHoldings(Cur(r)) \cap holdings[c] # {}
                 \/ ~ KeptHoldings(Cur(r)) \subseteq holdings[c]
    IN  /\ req[r].pc = "holdings"
        /\ ~ Blocked(r)
        /\ IF fails THEN Abort(r)
           ELSE Step(r, [req[r] EXCEPT !.pc = "commit"]) /\ UNCHANGED <<bank, db>>

\* PostgreSQL cancels a statement that waits, through others, for its own transaction.
DeadlockVictim(r) ==
    /\ \A S \in SUBSET Req :
         (\A q \in S \cup {r}, p \in Req : BlockedBy(q, p) => p \in S) => r \in S
    /\ Abort(r)

\* enrich_transactions fails with an error of the database (see Enrichment) ...
EnrichFails(r) ==
    /\ req[r].pc = "commit"
    /\ NewTxns(Cur(r)) # {}
    /\ Abort(r)

\* ... or raises without one (an answer of the LLM that does not parse, a duplicate
\* embedding).  sync-mine counts the failure and goes on with the same session: what
\* was flushed stays in its open transaction.
EnrichRaises(r) ==
    /\ req[r].pc = "commit"
    /\ req[r].kind = "mine"
    /\ \E bare \in (SUBSET NewTxns(Cur(r))) \ {{}} :
         Step(r, Onward([req[r] EXCEPT !.left = @ \cup {[Cur(r) EXCEPT !.bare = bare]}]))
    /\ UNCHANGED <<bank, db>>

\* sync-mine records a security event at its end, and commits.
RecordSyncMine(r) ==
    /\ req[r].pc = "next"
    /\ req[r].todo = {}
    /\ CommitRows(req[r].left)
    /\ StepAndPublish(r, ConnsOf(req[r].left), Idle)
    /\ UNCHANGED <<bank, status, notified>>

\* Mutant: the commit revives a connection that was deleted meanwhile.
CommitUnguarded(r) ==
    /\ req[r].pc = "commit"
    /\ status' = [status EXCEPT ![At(r)] = "active"]
    /\ CommitRows({Cur(r)})
    /\ StepAndPublish(r, {At(r)}, Onward(req[r]))
    /\ UNCHANGED <<bank, notified>>

\* Mutant: only a first sync sets the status, an error is never cleared.
CommitKeepsError(r) ==
    LET c == At(r)
        S == req[r].left \cup {Cur(r)}
    IN  /\ req[r].pc = "commit"
        /\ c \in Live
        /\ status' = IF req[r].status[c] # "pending" THEN status
                     ELSE [status EXCEPT ![c] = "active"]
        /\ CommitRows(S)
        /\ StepAndPublish(r, ConnsOf(S),
                          IF req[r].kind = "nightly"
                            THEN [req[r] EXCEPT !.pc = "notify", !.left = {}]
                            ELSE Onward([req[r] EXCEPT !.left = {}]))
        /\ UNCHANGED <<bank, notified>>

\* status = "active" and last_synced_at, then COMMIT.  The status column is sent
\* only when the loaded value differs; last_synced_at always is, so a deleted row
\* fails the flush.
Commit(r) ==
    LET c == At(r)
        S == req[r].left \cup {Cur(r)}
    IN  /\ req[r].pc = "commit"
        /\ c \in Live
        /\ status' = IF req[r].status[c] = "active" THEN status
                     ELSE [status EXCEPT ![c] = "active"]
        /\ CommitRows(S)
        /\ StepAndPublish(r, ConnsOf(S),
                          IF req[r].kind = "nightly"
                            THEN [req[r] EXCEPT !.pc = "notify", !.left = {}]
                            ELSE Onward([req[r] EXCEPT !.left = {}]))
        /\ UNCHANGED <<bank, notified>>

CommitGone(r) == req[r].pc = "commit" /\ At(r) \notin Live /\ Abort(r)

\* sync_all_connections tells the household's members, if any are left, in a second
\* transaction.
Notify(r) ==
    /\ req[r].pc = "notify"
    /\ notified' = IF At(r) \in Live THEN notified \cup {<<At(r), Cur(r).snap>>}
                   ELSE notified
    /\ Step(r, Onward(req[r]))
    /\ UNCHANGED <<bank, status, rows>>

-----------------------------------------------------------------------------
(* The world around the requests.                                          *)

BankPublishes(c) ==
    /\ c \notin CsvConn /\ bank[c] + 1 \in Version
    /\ bank' = [bank EXCEPT ![c] = @ + 1]
    /\ UNCHANGED <<db, req>>

\* wipe_user deletes the household: the connection goes with all its rows, once
\* no open transaction holds one of them.
WipeHousehold(c) ==
    /\ c \in Live \cap MayWipe
    /\ \A r \in Req : ~ HoldsRows(r, c)
    /\ status'   = [status EXCEPT ![c] = "deleted"]
    /\ balance'  = [balance EXCEPT ![c] = NoRow]
    /\ ledger'   = [ledger EXCEPT ![c] = {}]
    /\ enriched' = [enriched EXCEPT ![c] = {}]
    /\ holdings' = [holdings EXCEPT ![c] = {}]
    /\ UNCHANGED <<bank, notified, req, history>>

\* The process dies: open transactions roll back, requests are gone.
Crash ==
    /\ MayCrash
    /\ req' = [r \in Req |-> Idle]
    /\ UNCHANGED <<bank, db>>

Start(r) ==
    \/ SyncMine(r)
    \/ SyncAll(r)
    \/ \E c \in Conn : Resync(r, c) \/ Connect(r, c) \/ ImportCsv(r, c)

Work(r) ==
    \/ PickConnection(r)
    \/ FetchOk(r)
    \/ FetchFails(r)
    \/ LoadAccount(r)
    \/ WriteAccount(r)
    \/ WriteTransactions(r)
    \/ WriteHoldings(r)
    \/ DeadlockVictim(r)
    \/ EnrichFails(r)
    \/ EnrichRaises(r)
    \/ RecordSyncMine(r)
    \/ Commit(r)
    \/ CommitGone(r)
    \/ Notify(r)

Next ==
    \/ \E r \in Req : Start(r) \/ Work(r)
    \/ \E c \in Conn : BankPublishes(c) \/ WipeHousehold(c)
    \/ Crash

Spec == Init /\ [][Next]_vars

\* The event loop resumes every request whose await is over and provider calls
\* time out; PostgreSQL queues the waiters of a row lock, so none starves.
FairSpec == Spec /\ \A r \in Req : SF_vars(Work(r))

-----------------------------------------------------------------------------
(* Properties.                                                             *)

\* The transactions stored for a connection are exactly those of the snapshots whose
\* rows were committed: none lost to a sync that ran beside another, none left behind
\* by one that failed, crashed or raced the deletion of the household.
LedgerIsUnionOfImports ==
    \A c \in Live : ledger[c] = UNION {Feed[v].txns : v \in history[c]}

\* What the user sees of a connection came from committed snapshots: it is active only
\* after one, the account row exists exactly from the first on, and its balance and
\* holdings are among those some committed snapshot carried.
ShownIsImported ==
    \A c \in Live :
        /\ status[c] = "active" => history[c] # {}
        /\ balance[c] = NoRow <=> history[c] = {}
        /\ balance[c] # NoRow => \E v \in history[c] : balance[c] = Feed[v].balance
        /\ holdings[c] \subseteq UNION {Feed[v].holdings : v \in history[c]}

\* A sync that nobody overlapped (no other request wrote the connection since this one
\* loaded it) leaves the connection active with the account, the holdings and at
\* least the transactions of its snapshot, and never takes it back to an older one.
CleanCommitMirrorsBank ==
    [][\A r \in Req :
         Commit(r) /\ At(r) \notin req[r].stale =>
            LET c == At(r)
                snapshot == Feed[Cur(r).snap] IN
            /\ status'[c] = "active"
            /\ balance'[c] = snapshot.balance
            /\ holdings'[c] = snapshot.holdings
            /\ snapshot.txns \subseteq ledger'[c]
            /\ \A v \in history[c] : v <= Cur(r).snap]_vars

\* The stored transactions behave as ImportLog says: whole snapshots only, atomically,
\* into an open connection; closed once and for all.
Log == INSTANCE ImportLog WITH
         phase <- [c \in Conn |-> IF status[c] = "none" THEN "new"
                                  ELSE IF status[c] = "deleted" THEN "closed"
                                  ELSE "open"]
ImplementsImportLog == Log!Spec

\* Every request ends, however syncs wait for one another's rows.
SyncEnds == \A r \in Req : req[r].pc # "idle" ~> req[r].pc = "idle"

\* "Every synced transaction gets a transaction_enrichments row".
StoredIsEnriched == \A c \in Live : ledger[c] \subseteq enriched[c]
=============================================================================
