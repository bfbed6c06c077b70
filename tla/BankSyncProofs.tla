--------------------------- MODULE BankSyncProofs ---------------------------
(***************************************************************************)
(* What holds of BankSync for any number of connections, requests,         *)
(* snapshots and transactions: the types, that the ledger is the union of  *)
(* the committed snapshots, that BankSync implements ImportLog, and what   *)
(* the user is shown of a connection.                                      *)
(*                                                                         *)
(* IInv says what a session may rely on between its round trips whatever   *)
(* the others do.  The transactions it found are still stored, since rows  *)
(* only disappear with their connection; and a connection for which it     *)
(* has flushed a new transaction cannot disappear, since the row is locked.*)
(*                                                                         *)
(* ReadInv, inductive with IInv, says how what a session has loaded        *)
(* compares with what is stored: it is the same for a connection nobody    *)
(* else has written meanwhile, and what lasts (a stored account row, a     *)
(* version the bank has served) does so for every connection.              *)
(***************************************************************************)
EXTENDS BankSync, TLAPS

Working == {"fetch", "load", "account", "txns", "holdings", "commit", "notify"}
Fetched == Working \ {"fetch"}

\* A request q while the connections' statuses are st and their ledgers led.
ReqInv(q, st, led) ==
    /\ q.pc \in Working => q.cur.conn \in Conn
    /\ q.pc \in Fetched => q.cur.snap \in Version
    /\ q.pc \in {"txns", "holdings", "commit"} /\ st[q.cur.conn] # "deleted"
          => q.cur.txns \subseteq led[q.cur.conn]
    /\ q.pc \in {"holdings", "commit"} /\ NewTxns(q.cur) # {}
          => st[q.cur.conn] \in StoredStatus
    /\ \A s \in q.left :
          /\ s.conn \in Conn
          /\ st[s.conn] \in StoredStatus
          /\ s.snap \in Version
          /\ NewTxns(s) # {}
          /\ s.txns \subseteq led[s.conn]

\* A connection that was never stored, or is gone, has no rows.
NoRows ==
    \A c \in Conn :
        /\ status[c] \in {"none", "deleted"} => ledger[c] = {}
        /\ status[c] = "none" => history[c] = {}

IInv ==
    /\ TypeOK
    /\ NoRows
    /\ LedgerIsUnionOfImports
    /\ \A r \in Req : ReqInv(req[r], status, ledger)

-----------------------------------------------------------------------------
(* Facts about values.                                                     *)

\* What the session did not find, together with what it found, is at least the
\* snapshot: the union a commit makes does not depend on what was found.
LEMMA NewTxnsFill ==
    ASSUME NEW s \in Sync, s.snap \in Version, NEW L, s.txns \subseteq L
    PROVE  L \cup NewTxns(s) = L \cup Feed[s.snap].txns
BY DEF NewTxns

\* Typing of the values the actions assign.
LEMMA IdleType == Idle \in Request /\ NoSync \in Sync
BY DEF Idle, NoSync, Request, Sync, Pc, AllKinds, Status

\* A request keeps its invariant when connections are not brought back from deletion,
\* none that is stored disappears, and the ledgers grow.
LEMMA Frame ==
    ASSUME NEW q \in Request, NEW q2,
           q2.pc = q.pc, q2.cur = q.cur, q2.left = q.left,
           NEW st, NEW led, NEW st2, NEW led2,
           ReqInv(q, st, led),
           \A c \in Conn : st2[c] # "deleted" => st[c] # "deleted",
           \A c \in Conn : st[c] \in StoredStatus => st2[c] \in StoredStatus,
           \A c \in Conn : led[c] \subseteq led2[c]
    PROVE  ReqInv(q2, st2, led2)
<1>1. /\ q2.pc \in Working => q2.cur.conn \in Conn
      /\ q2.pc \in Fetched => q2.cur.snap \in Version
  BY DEF ReqInv
<1>2. q2.pc \in {"txns", "holdings", "commit"} => q2.cur.conn \in Conn
  BY <1>1 DEF Working
<1>3. q2.pc \in {"txns", "holdings", "commit"} /\ st2[q2.cur.conn] # "deleted"
          => q2.cur.txns \subseteq led2[q2.cur.conn]
  <2> SUFFICES ASSUME q2.pc \in {"txns", "holdings", "commit"}, st2[q2.cur.conn] # "deleted"
               PROVE  q2.cur.txns \subseteq led2[q2.cur.conn]
    OBVIOUS
  <2>1. q2.cur.txns \subseteq led[q2.cur.conn]
    BY <1>2 DEF ReqInv
  <2> QED BY <1>2, <2>1
<1>4. q2.pc \in {"holdings", "commit"} /\ NewTxns(q2.cur) # {}
          => st2[q2.cur.conn] \in StoredStatus
  BY <1>2 DEF ReqInv
<1>5. ASSUME NEW s \in q2.left
      PROVE  /\ s.conn \in Conn
             /\ st2[s.conn] \in StoredStatus
             /\ s.snap \in Version
             /\ NewTxns(s) # {}
             /\ s.txns \subseteq led2[s.conn]
  <2>1. /\ s.conn \in Conn /\ st[s.conn] \in StoredStatus /\ s.snap \in Version
        /\ NewTxns(s) # {} /\ s.txns \subseteq led[s.conn]
    BY DEF ReqInv
  <2> QED BY <2>1
<1> QED BY <1>1, <1>3, <1>4, <1>5 DEF ReqInv

\* The request as it goes on keeps only what it had flushed.
LEMMA OnwardOk ==
    ASSUME NEW q \in Request, NEW st, NEW led,
           \A s \in q.left : /\ s.conn \in Conn
                             /\ st[s.conn] \in StoredStatus
                             /\ s.snap \in Version
                             /\ NewTxns(s) # {}
                             /\ s.txns \subseteq led[s.conn]
    PROVE  Onward(q) \in Request /\ ReqInv(Onward(q), st, led)
<1>1. CASE q.todo = {} /\ q.left = {}
  BY <1>1, IdleType DEF Onward, ReqInv, Idle, Working, Fetched
<1>2. CASE ~(q.todo = {} /\ q.left = {})
  <2>1. Onward(q) = [q EXCEPT !.pc = "next", !.cur = NoSync]
    BY <1>2 DEF Onward
  <2>2. Onward(q) \in Request
    BY <2>1, IdleType DEF Request, Pc
  <2>3. Onward(q).pc = "next" /\ Onward(q).left = q.left
    BY <2>1 DEF Request
  <2> QED BY <2>2, <2>3 DEF ReqInv, Working, Fetched
<1> QED BY <1>1, <1>2

-----------------------------------------------------------------------------
(* The three shapes of a step.                                             *)

\* A step that only moves one request on.
LEMMA LocalStep ==
    ASSUME IInv, NEW r \in Req, NEW new \in Request,
           ReqInv(new, status, ledger), Step(r, new), UNCHANGED <<bank, db>>
    PROVE  IInv'
<1>1. TypeOK'
  BY DEF IInv, TypeOK, Step, db, rows
<1>2. NoRows' /\ LedgerIsUnionOfImports'
  BY DEF IInv, NoRows, LedgerIsUnionOfImports, Live, db, rows
<1>3. \A q \in Req : ReqInv(req'[q], status, ledger)
  BY DEF IInv, TypeOK, Step
<1> QED BY <1>1, <1>2, <1>3 DEF IInv, db, rows

\* What COMMIT does to the rows of the connections of S.
Committable(S) ==
    \A s \in S : /\ s.conn \in Conn
                 /\ status[s.conn] \in StoredStatus
                 /\ s.snap \in Version
                 /\ s.txns \subseteq ledger[s.conn]

LEMMA CommitRowsEffect ==
    ASSUME TypeOK, NEW S \in SUBSET Sync, Committable(S), CommitRows(S)
    PROVE  /\ balance'  \in [Conn -> Balance \cup {NoRow}]
           /\ ledger'   \in [Conn -> SUBSET Txn]
           /\ enriched' \in [Conn -> SUBSET Txn]
           /\ holdings' \in [Conn -> SUBSET Security]
           /\ history'  \in [Conn -> SUBSET Version]
           /\ \A c \in Conn :
                LET I == {s.snap : s \in Of(S, c)} IN
                /\ I \subseteq Version
                /\ I # {} => status[c] \in StoredStatus
                /\ ledger'[c] = ledger[c] \cup UNION {Feed[i].txns : i \in I}
                /\ history'[c] = history[c] \cup I
<1>1. ASSUME NEW v \in Version
      PROVE  /\ Feed[v].balance \in Balance
             /\ Feed[v].txns \in SUBSET Txn
             /\ Feed[v].holdings \in SUBSET Security
  BY FeedAssumption DEF Snapshot
<1>2. ASSUME NEW s \in S
      PROVE  /\ s.snap \in Version
             /\ NewTxns(s) \in SUBSET Txn
             /\ NewTxns(s) \ s.bare \in SUBSET Txn
             /\ NewHoldings(s) \in SUBSET Security
             /\ ledger[s.conn] \cup NewTxns(s) = ledger[s.conn] \cup Feed[s.snap].txns
  BY <1>1 DEF Committable, NewTxns, NewHoldings
<1>3. \A c \in Conn : Of(S, c) \subseteq S
  BY DEF Of
<1>4. balance' \in [Conn -> Balance \cup {NoRow}]
  <2>1. ASSUME NEW c \in Conn, \E s \in Of(S, c) : WritesAccount(s)
        PROVE  Feed[(CHOOSE s \in Of(S, c) : WritesAccount(s)).snap].balance \in Balance
    <3> DEFINE s == CHOOSE s \in Of(S, c) : WritesAccount(s)
    <3>1. s \in Of(S, c)
      BY <2>1
    <3>2. s.snap \in Version
      BY <3>1, <1>2, <1>3
    <3> QED BY <3>2, <1>1
  <2> QED BY <2>1 DEF CommitRows, TypeOK
<1>5. ASSUME NEW c \in Conn
      PROVE  /\ UNION {NewTxns(s) : s \in Of(S, c)} \in SUBSET Txn
             /\ UNION {NewTxns(s) \ s.bare : s \in Of(S, c)} \in SUBSET Txn
             /\ UNION {NewHoldings(s) : s \in Of(S, c)} \in SUBSET Security
             /\ {s.snap : s \in Of(S, c)} \subseteq Version
  BY <1>2, <1>3
<1>6. /\ ledger'   \in [Conn -> SUBSET Txn]
      /\ enriched' \in [Conn -> SUBSET Txn]
      /\ history'  \in [Conn -> SUBSET Version]
  BY <1>5 DEF CommitRows, TypeOK
<1>7. holdings' \in [Conn -> SUBSET Security]
  BY <1>5 DEF CommitRows, TypeOK
<1>8. ASSUME NEW c \in Conn
      PROVE  ledger'[c] = ledger[c] \cup UNION {Feed[i].txns : i \in {s.snap : s \in Of(S, c)}}
  <2>1. ledger'[c] = ledger[c] \cup UNION {NewTxns(s) : s \in Of(S, c)}
    BY DEF CommitRows
  <2>2. \A s \in Of(S, c) : ledger[c] \cup NewTxns(s) = ledger[c] \cup Feed[s.snap].txns
    BY <1>2 DEF Of
  <2> QED BY <2>1, <2>2
<1>9. ASSUME NEW c \in Conn, {s.snap : s \in Of(S, c)} # {}
      PROVE  status[c] \in StoredStatus
  BY <1>9 DEF Of, Committable
<1>10. \A c \in Conn : history'[c] = history[c] \cup {s.snap : s \in Of(S, c)}
  BY DEF CommitRows
<1> QED BY <1>4, <1>5, <1>6, <1>7, <1>8, <1>9, <1>10

\* Statuses may change, but nothing is stored or deleted.
SameLife ==
    \A c \in Conn : status'[c] = status[c] \/ {status[c], status'[c]} \subseteq StoredStatus

\* A step that commits what the session had flushed.
LEMMA CommitStep ==
    ASSUME IInv, NEW r \in Req, NEW new \in Request, NEW C \in SUBSET Conn,
           NEW S \in SUBSET Sync, Committable(S), CommitRows(S),
           status' \in [Conn -> Status], SameLife,
           StepAndPublish(r, C, new), new.pc \in {"idle", "next", "notify"}, new.left = {},
           new.pc = "notify" => new.cur.conn \in Conn /\ new.cur.snap \in Version,
           UNCHANGED <<bank, notified>>
    PROVE  IInv'
<1>1. /\ balance'  \in [Conn -> Balance \cup {NoRow}]
      /\ ledger'   \in [Conn -> SUBSET Txn]
      /\ enriched' \in [Conn -> SUBSET Txn]
      /\ holdings' \in [Conn -> SUBSET Security]
      /\ history'  \in [Conn -> SUBSET Version]
  BY CommitRowsEffect DEF IInv
<1>2. ASSUME NEW c \in Conn
      PROVE  \E I \in SUBSET Version :
                /\ I # {} => status[c] \in StoredStatus
                /\ ledger'[c] = ledger[c] \cup UNION {Feed[i].txns : i \in I}
                /\ history'[c] = history[c] \cup I
  BY CommitRowsEffect DEF IInv
<1>3. ASSUME NEW q \in Req
      PROVE  /\ req'[q] \in Request
             /\ q # r => /\ req'[q].pc = req[q].pc
                         /\ req'[q].cur = req[q].cur
                         /\ req'[q].left = req[q].left
             /\ q = r => req'[q] = new
  <2>1. req[q] \in Request
    BY DEF IInv, TypeOK
  <2>2. CASE q = r
    BY <2>2 DEF StepAndPublish
  <2>3. CASE q # r
    <3> DEFINE X == req[q].stale \cup (C \cap (req[q].todo \cup {At(q)}))
    <3>1. req'[q] = [req[q] EXCEPT !.stale = X]
      BY <2>3 DEF StepAndPublish
    <3>2. X \subseteq Conn
      BY <2>1 DEF Request
    <3> QED BY <2>1, <2>3, <3>1, <3>2 DEF Request
  <2> QED BY <2>2, <2>3
<1>4. req' \in [Req -> Request]
  BY <1>3 DEF StepAndPublish
<1>5. TypeOK'
  BY <1>1, <1>4 DEF IInv, TypeOK
<1>6. \A c \in Conn : ledger[c] \subseteq ledger'[c]
  BY <1>2
<1>7. NoRows'
  <2> SUFFICES ASSUME NEW c \in Conn
               PROVE  /\ status'[c] \in {"none", "deleted"} => ledger'[c] = {}
                      /\ status'[c] = "none" => history'[c] = {}
    BY DEF NoRows
  <2>1. status'[c] \in {"none", "deleted"} => status[c] = status'[c]
    BY DEF SameLife, StoredStatus
  <2>2. PICK I \in SUBSET Version :
                /\ I # {} => status[c] \in StoredStatus
                /\ ledger'[c] = ledger[c] \cup UNION {Feed[i].txns : i \in I}
                /\ history'[c] = history[c] \cup I
    BY <1>2
  <2>3. status[c] \in {"none", "deleted"} => I = {}
    BY <2>2 DEF StoredStatus
  <2> QED BY <2>1, <2>2, <2>3 DEF IInv, NoRows
<1>8. LedgerIsUnionOfImports'
  <2> SUFFICES ASSUME NEW c \in Conn, status'[c] \in StoredStatus
               PROVE  ledger'[c] = UNION {Feed[v].txns : v \in history'[c]}
    BY DEF LedgerIsUnionOfImports, Live
  <2>1. status[c] \in StoredStatus
    BY DEF SameLife
  <2>2. ledger[c] = UNION {Feed[v].txns : v \in history[c]}
    BY <2>1 DEF IInv, LedgerIsUnionOfImports, Live
  <2>3. PICK I \in SUBSET Version :
                /\ ledger'[c] = ledger[c] \cup UNION {Feed[i].txns : i \in I}
                /\ history'[c] = history[c] \cup I
    BY <1>2
  <2> QED BY <2>2, <2>3
<1>9. ASSUME NEW q \in Req
      PROVE  ReqInv(req'[q], status', ledger')
  <2>1. CASE q = r
    BY <2>1, <1>3 DEF ReqInv, Working, Fetched
  <2>2. CASE q # r
    <3>1. req[q] \in Request /\ ReqInv(req[q], status, ledger)
      BY DEF IInv, TypeOK
    <3>2. \A c \in Conn : /\ status'[c] # "deleted" => status[c] # "deleted"
                          /\ status[c] \in StoredStatus => status'[c] \in StoredStatus
      BY DEF SameLife, StoredStatus
    <3> QED BY <2>2, <1>3, <1>6, <3>1, <3>2, Frame
  <2> QED BY <2>1, <2>2
<1> QED BY <1>5, <1>7, <1>8, <1>9 DEF IInv

\* ... and in the terms of ImportLog it is an import.
LEMMA CommitImports ==
    ASSUME TypeOK, NEW S \in SUBSET Sync, Committable(S), CommitRows(S), SameLife,
           status' \in [Conn -> Status]
    PROVE  Log!Next
<1> DEFINE v == [c \in Conn |-> {s.snap : s \in Of(S, c)}]
<1>1. v \in [Conn -> SUBSET (1..MaxVersion)]
  BY CommitRowsEffect DEF Version
<1>2. \A c \in Conn : v[c] # {} => status[c] \in StoredStatus
  BY CommitRowsEffect
<1>3. ledger' = [c \in Conn |-> ledger[c] \cup UNION {Feed[i].txns : i \in v[c]}]
  <2>1. ledger' \in [Conn -> SUBSET Txn]
    BY CommitRowsEffect
  <2>2. \A c \in Conn : ledger'[c] = ledger[c] \cup UNION {Feed[i].txns : i \in v[c]}
    BY CommitRowsEffect
  <2> QED BY <2>1, <2>2
<1>4. Log!Import(v)
  BY <1>2, <1>3 DEF Log!Import, SameLife, StoredStatus
<1> QED BY <1>1, <1>4 DEF Log!Next

-----------------------------------------------------------------------------
(* The actions.                                                            *)

\* Where the stored transactions are left alone, ImportLog stutters or opens.
LogStep == Log!Next \/ UNCHANGED <<status, ledger>>

LEMMA AbortStep ==
    ASSUME IInv, NEW r \in Req, Abort(r)
    PROVE  IInv' /\ LogStep
<1>1. ReqInv(Idle, status, ledger)
  BY DEF ReqInv, Idle, Working, Fetched
<1>2. IInv'
  BY <1>1, IdleType, LocalStep DEF Abort
<1> QED BY <1>2 DEF Abort, LogStep, db, rows

LEMMA BeginStep ==
    ASSUME IInv, NEW r \in Req, NEW k, NEW S \in SUBSET Conn, Begin(r, k, S)
    PROVE  IInv' /\ LogStep
<1> DEFINE new == [Idle EXCEPT !.pc = "next", !.kind = k, !.todo = S,
                               !.status = [c \in Conn |->
                                             IF c \in S THEN status[c] ELSE "none"]]
<1>1. /\ new \in Request
      /\ new.pc = "next" /\ new.left = {}
  <2>1. k \in AllKinds
    BY ConstAssumption DEF Begin, CsvConn
  <2>2. [c \in Conn |-> IF c \in S THEN status[c] ELSE "none"] \in [Conn -> Status]
    BY DEF IInv, TypeOK, Status
  <2> QED BY <2>1, <2>2, IdleType DEF Request, Pc, Idle
<1>2. ReqInv(new, status, ledger)
  BY <1>1 DEF ReqInv, Working, Fetched
<1>3. Step(r, new) /\ UNCHANGED <<bank, db>>
  BY DEF Begin
<1>4. IInv'
  BY <1>1, <1>2, <1>3, LocalStep
<1> QED BY <1>3, <1>4 DEF LogStep, db, rows

LEMMA CreateStep ==
    ASSUME IInv, NEW r \in Req, NEW c \in Conn, NEW new \in Request, CreateRow(r, c, new),
           new.pc \in {"fetch", "load"}, new.left = {}, new.cur \in Sync,
           new.pc = "load" => new.cur.snap \in Version
    PROVE  IInv' /\ LogStep
<1> DEFINE new2 == [new EXCEPT !.cur.conn = c, !.status = [@ EXCEPT ![c] = "pending"]]
<1>1. status[c] = "none" /\ status' = [status EXCEPT ![c] = "pending"]
  BY DEF CreateRow
<1>2. req' = [req EXCEPT ![r] = new2]
  BY DEF CreateRow, Step
<1>3. /\ new2 \in Request
      /\ new2.pc = new.pc /\ new2.left = {}
      /\ new2.cur.conn = c /\ new2.cur.snap = new.cur.snap
  <2>1. [new.cur EXCEPT !.conn = c] \in Sync
    BY DEF Sync
  <2>2. [new.status EXCEPT ![c] = "pending"] \in [Conn -> Status]
    BY DEF Request, Status, StoredStatus
  <2>3. new2 = [new EXCEPT !.cur = [new.cur EXCEPT !.conn = c],
                           !.status = [new.status EXCEPT ![c] = "pending"]]
    BY DEF Request
  <2> QED BY <2>1, <2>2, <2>3 DEF Request, Sync
<1>4. UNCHANGED <<bank, balance, ledger, enriched, holdings, history, notified>>
  BY DEF CreateRow, rows
<1>5. /\ status' \in [Conn -> Status]
      /\ req' \in [Req -> Request]
  BY <1>1, <1>2, <1>3 DEF IInv, TypeOK, Status, StoredStatus
<1>6. TypeOK'
  BY <1>4, <1>5 DEF IInv, TypeOK
<1>7. \A d \in Conn : d # c => status'[d] = status[d]
  BY <1>1 DEF IInv, TypeOK
<1>8. status'[c] = "pending" /\ ledger[c] = {} /\ history[c] = {}
  BY <1>1 DEF IInv, TypeOK, NoRows
<1>9. NoRows'
  BY <1>4, <1>7, <1>8 DEF IInv, NoRows
<1>10. LedgerIsUnionOfImports'
  BY <1>4, <1>7, <1>8 DEF IInv, LedgerIsUnionOfImports, Live
<1>11. ASSUME NEW q \in Req
       PROVE  ReqInv(req'[q], status', ledger')
  <2>1. CASE q = r
    <3>1. req'[q] = new2
      BY <2>1, <1>2 DEF IInv, TypeOK
    <3> QED BY <3>1, <1>3 DEF ReqInv, Working, Fetched
  <2>2. CASE q # r
    <3>1. req'[q] = req[q] /\ req[q] \in Request /\ ReqInv(req[q], status, ledger)
      BY <2>2, <1>2 DEF IInv, TypeOK
    <3>2. \A d \in Conn : /\ status'[d] # "deleted" => status[d] # "deleted"
                          /\ status[d] \in StoredStatus => status'[d] \in StoredStatus
                          /\ ledger[d] \subseteq ledger'[d]
      BY <1>1, <1>4, <1>7 DEF StoredStatus
    <3> QED BY <3>1, <3>2, Frame
  <2> QED BY <2>1, <2>2
<1>12. Log!Open(c)
  BY <1>1, <1>4, <1>7, <1>8 DEF Log!Open, IInv, TypeOK
<1>13. LogStep
  BY <1>12 DEF LogStep, Log!Next
<1> QED BY <1>6, <1>9, <1>10, <1>11, <1>13 DEF IInv

LEMMA StartStep ==
    ASSUME IInv, NEW r \in Req, Start(r)
    PROVE  IInv' /\ LogStep
<1>1. Live \subseteq Conn
  BY DEF Live
<1>2. CASE SyncMine(r)
  BY <1>1, <1>2, BeginStep DEF SyncMine
<1>3. CASE SyncAll(r)
  BY <1>3, BeginStep DEF SyncAll
<1>4. ASSUME NEW c \in Conn, Resync(r, c)
      PROVE  IInv' /\ LogStep
  BY <1>4, BeginStep DEF Resync
<1>5. ASSUME NEW c \in Conn, Connect(r, c)
      PROVE  IInv' /\ LogStep
  <2> DEFINE new == [Idle EXCEPT !.pc = "fetch", !.kind = "connect"]
  <2>1. new \in Request /\ new.pc = "fetch" /\ new.left = {} /\ new.cur \in Sync
    BY IdleType DEF Request, Pc, AllKinds, Idle
  <2>2. CreateRow(r, c, new)
    BY <1>5 DEF Connect
  <2> QED BY <2>1, <2>2, CreateStep
<1>6. ASSUME NEW c \in Conn, ImportCsv(r, c)
      PROVE  IInv' /\ LogStep
  <2>1. PICK v \in Version :
          CreateRow(r, c, [Idle EXCEPT !.pc = "load", !.kind = "import", !.cur.snap = v])
    BY <1>6 DEF ImportCsv
  <2> DEFINE new == [Idle EXCEPT !.pc = "load", !.kind = "import", !.cur.snap = v]
  <2>2. [NoSync EXCEPT !.snap = v] \in Sync /\ [NoSync EXCEPT !.snap = v].snap = v
    BY IdleType DEF Sync
  <2>3. new = [Idle EXCEPT !.pc = "load", !.kind = "import", !.cur = [NoSync EXCEPT !.snap = v]]
    BY DEF Idle
  <2>4. /\ new \in Request /\ new.pc = "load" /\ new.left = {}
        /\ new.cur \in Sync /\ new.cur.snap = v
    BY <2>2, <2>3, IdleType DEF Request, Pc, AllKinds, Idle
  <2> QED BY <2>1, <2>4, CreateStep
<1> QED BY <1>2, <1>3, <1>4, <1>5, <1>6 DEF Start

\* What may be assumed of the request whose action is taken.
LEMMA ReqFacts ==
    ASSUME IInv, NEW r \in Req
    PROVE  /\ req[r] \in Request /\ Cur(r) \in Sync
           /\ ReqInv(req[r], status, ledger)
           /\ \A s \in req[r].left : /\ s.conn \in Conn
                                     /\ status[s.conn] \in StoredStatus
                                     /\ s.snap \in Version
                                     /\ NewTxns(s) # {}
                                     /\ s.txns \subseteq ledger[s.conn]
BY DEF IInv, TypeOK, Request, Cur, ReqInv

\* A request that moves on with another current sync.
LEMMA MoveStep ==
    ASSUME IInv, NEW r \in Req, NEW pc \in Pc, NEW cur \in Sync,
           NEW todo \in SUBSET Conn,
           Step(r, [req[r] EXCEPT !.pc = pc, !.cur = cur, !.todo = todo]),
           UNCHANGED <<bank, db>>,
           pc \in Working => cur.conn \in Conn,
           pc \in Fetched => cur.snap \in Version,
           pc \in {"txns", "holdings", "commit"} /\ status[cur.conn] # "deleted"
              => cur.txns \subseteq ledger[cur.conn],
           pc \in {"holdings", "commit"} /\ NewTxns(cur) # {}
              => status[cur.conn] \in StoredStatus
    PROVE  IInv' /\ LogStep
<1> DEFINE new == [req[r] EXCEPT !.pc = pc, !.cur = cur, !.todo = todo]
<1>1. /\ new \in Request
      /\ new.pc = pc /\ new.cur = cur /\ new.left = req[r].left
  BY ReqFacts DEF Request
<1>2. ReqInv(new, status, ledger)
  BY <1>1, ReqFacts DEF ReqInv
<1>3. IInv'
  BY <1>1, <1>2, LocalStep
<1> QED BY <1>3 DEF LogStep, db, rows

LEMMA PickStep ==
    ASSUME IInv, NEW r \in Req, PickConnection(r)
    PROVE  IInv' /\ LogStep
<1>1. PICK c \in req[r].todo :
        Step(r, [req[r] EXCEPT !.pc = "fetch", !.cur = [NoSync EXCEPT !.conn = c],
                               !.todo = @ \ {c}])
  BY DEF PickConnection
<1>2. c \in Conn /\ req[r].todo \ {c} \in SUBSET Conn /\ req[r] \in Request
  BY ReqFacts DEF Request
<1> DEFINE cur == [NoSync EXCEPT !.conn = c]
<1>3. cur \in Sync /\ cur.conn = c
  BY <1>2, IdleType DEF Sync
<1>4. [req[r] EXCEPT !.pc = "fetch", !.cur = cur, !.todo = @ \ {c}]
        = [req[r] EXCEPT !.pc = "fetch", !.cur = cur, !.todo = req[r].todo \ {c}]
  BY <1>2 DEF Request
<1>5. Step(r, [req[r] EXCEPT !.pc = "fetch", !.cur = cur, !.todo = req[r].todo \ {c}])
  BY <1>1, <1>4 DEF Step
<1>6. UNCHANGED <<bank, db>>
  BY DEF PickConnection
<1>7. "fetch" \in Pc /\ "fetch" \notin Fetched
  BY DEF Pc, Fetched
<1> HIDE DEF cur
<1> QED BY <1>2, <1>3, <1>5, <1>6, <1>7, MoveStep

LEMMA FetchOkStep ==
    ASSUME IInv, NEW r \in Req, FetchOk(r)
    PROVE  IInv' /\ LogStep
<1>1. req[r] \in Request /\ Cur(r) \in Sync /\ At(r) \in Conn /\ bank[At(r)] \in Version
  BY ReqFacts DEF FetchOk, ReqInv, Working, At, Cur, IInv, TypeOK, CsvConn
<1> DEFINE cur == [Cur(r) EXCEPT !.snap = bank[At(r)]]
<1>2. cur \in Sync /\ cur.conn = At(r) /\ cur.snap \in Version
  BY <1>1 DEF Sync, At
<1>3. [req[r] EXCEPT !.pc = "load", !.cur.snap = bank[At(r)]]
        = [req[r] EXCEPT !.pc = "load", !.cur = cur, !.todo = req[r].todo]
  BY <1>1 DEF Request, Cur
<1>4. Step(r, [req[r] EXCEPT !.pc = "load", !.cur = cur, !.todo = req[r].todo])
  BY <1>3 DEF FetchOk
<1>5. UNCHANGED <<bank, db>> /\ req[r].todo \in SUBSET Conn
  BY <1>1 DEF FetchOk, Request
<1> QED BY <1>1, <1>2, <1>4, <1>5, MoveStep DEF Pc

LEMMA LoadAccountStep ==
    ASSUME IInv, NEW r \in Req, LoadAccount(r)
    PROVE  IInv' /\ LogStep
<1>1. /\ req[r] \in Request /\ Cur(r) \in Sync /\ At(r) \in Conn
      /\ Cur(r).snap \in Version /\ balance[At(r)] \in Balance \cup {NoRow}
  BY ReqFacts DEF LoadAccount, ReqInv, Working, Fetched, At, Cur, IInv, TypeOK
<1> DEFINE cur == [Cur(r) EXCEPT !.balance = balance[At(r)]]
<1>2. cur \in Sync /\ cur.conn = At(r) /\ cur.snap \in Version
  BY <1>1 DEF Sync, At
<1>3. [req[r] EXCEPT !.pc = "account", !.cur.balance = balance[At(r)]]
        = [req[r] EXCEPT !.pc = "account", !.cur = cur, !.todo = req[r].todo]
  BY <1>1 DEF Request, Cur
<1>4. Step(r, [req[r] EXCEPT !.pc = "account", !.cur = cur, !.todo = req[r].todo])
  BY <1>3 DEF LoadAccount
<1>5. UNCHANGED <<bank, db>> /\ req[r].todo \in SUBSET Conn
  BY <1>1 DEF LoadAccount, Request
<1> QED BY <1>1, <1>2, <1>4, <1>5, MoveStep DEF Pc

LEMMA WriteAccountStep ==
    ASSUME IInv, NEW r \in Req, WriteAccount(r)
    PROVE  IInv' /\ LogStep
<1>1. /\ req[r] \in Request /\ Cur(r) \in Sync /\ At(r) \in Conn
      /\ Cur(r).snap \in Version /\ ledger[At(r)] \in SUBSET Txn
  BY ReqFacts DEF WriteAccount, ReqInv, Working, Fetched, At, Cur, IInv, TypeOK
<1> DEFINE cur == [Cur(r) EXCEPT !.txns = ledger[At(r)]]
<1>2. /\ cur \in Sync /\ cur.conn = At(r) /\ cur.snap \in Version
      /\ cur.txns = ledger[At(r)]
  BY <1>1 DEF Sync, At
<1>3. [req[r] EXCEPT !.pc = "txns", !.cur.txns = ledger[At(r)]]
        = [req[r] EXCEPT !.pc = "txns", !.cur = cur, !.todo = req[r].todo]
  BY <1>1 DEF Request, Cur
<1>4. \/ Abort(r)
      \/ /\ Step(r, [req[r] EXCEPT !.pc = "txns", !.cur = cur, !.todo = req[r].todo])
         /\ UNCHANGED <<bank, db>>
  BY <1>3 DEF WriteAccount
<1>5. req[r].todo \in SUBSET Conn
  BY <1>1 DEF Request
<1> QED BY <1>1, <1>2, <1>4, <1>5, MoveStep, AbortStep DEF Pc

LEMMA WriteTransactionsStep ==
    ASSUME IInv, NEW r \in Req, WriteTransactions(r)
    PROVE  IInv' /\ LogStep
<1>1. /\ req[r] \in Request /\ Cur(r) \in Sync /\ At(r) \in Conn
      /\ Cur(r).snap \in Version /\ holdings[At(r)] \in SUBSET Security
      /\ status[At(r)] # "deleted" => Cur(r).txns \subseteq ledger[At(r)]
  BY ReqFacts DEF WriteTransactions, ReqInv, Working, Fetched, At, Cur, IInv, TypeOK
<1> DEFINE cur == [Cur(r) EXCEPT !.holdings = holdings[At(r)]]
<1>2. /\ cur \in Sync /\ cur.conn = At(r) /\ cur.snap = Cur(r).snap
      /\ cur.txns = Cur(r).txns
  BY <1>1 DEF Sync, At
<1>3. [req[r] EXCEPT !.pc = "holdings", !.cur.holdings = holdings[At(r)]]
        = [req[r] EXCEPT !.pc = "holdings", !.cur = cur, !.todo = req[r].todo]
  BY <1>1 DEF Request, Cur
<1>4. \/ Abort(r)
      \/ /\ Step(r, [req[r] EXCEPT !.pc = "holdings", !.cur = cur, !.todo = req[r].todo])
         /\ UNCHANGED <<bank, db>>
         /\ NewTxns(Cur(r)) # {} => At(r) \in Live
  BY <1>3 DEF WriteTransactions
<1>5. req[r].todo \in SUBSET Conn /\ NewTxns(cur) = NewTxns(Cur(r))
  BY <1>1, <1>2 DEF Request, NewTxns
<1> QED BY <1>1, <1>2, <1>4, <1>5, MoveStep, AbortStep DEF Pc, Live

LEMMA WriteHoldingsStep ==
    ASSUME IInv, NEW r \in Req, WriteHoldings(r)
    PROVE  IInv' /\ LogStep
<1>1. /\ req[r] \in Request /\ Cur(r) \in Sync /\ At(r) \in Conn
      /\ Cur(r).snap \in Version
      /\ status[At(r)] # "deleted" => Cur(r).txns \subseteq ledger[At(r)]
      /\ NewTxns(Cur(r)) # {} => status[At(r)] \in StoredStatus
  BY ReqFacts DEF WriteHoldings, ReqInv, Working, Fetched, At, Cur
<1>2. [req[r] EXCEPT !.pc = "commit"]
        = [req[r] EXCEPT !.pc = "commit", !.cur = Cur(r), !.todo = req[r].todo]
  BY <1>1 DEF Request, Cur
<1>3. \/ Abort(r)
      \/ /\ Step(r, [req[r] EXCEPT !.pc = "commit", !.cur = Cur(r), !.todo = req[r].todo])
         /\ UNCHANGED <<bank, db>>
  BY <1>2 DEF WriteHoldings
<1>4. req[r].todo \in SUBSET Conn
  BY <1>1 DEF Request
<1> QED BY <1>1, <1>3, <1>4, MoveStep, AbortStep DEF Pc, At

LEMMA EnrichRaisesStep ==
    ASSUME IInv, NEW r \in Req, EnrichRaises(r)
    PROVE  IInv' /\ LogStep
<1>1. PICK bare \in (SUBSET NewTxns(Cur(r))) \ {{}} :
        Step(r, Onward([req[r] EXCEPT !.left = @ \cup {[Cur(r) EXCEPT !.bare = bare]}]))
  BY DEF EnrichRaises
<1>2. /\ req[r] \in Request /\ Cur(r) \in Sync /\ At(r) \in Conn
      /\ Cur(r).snap \in Version
      /\ status[At(r)] # "deleted" => Cur(r).txns \subseteq ledger[At(r)]
      /\ NewTxns(Cur(r)) # {} => status[At(r)] \in StoredStatus
  BY ReqFacts DEF EnrichRaises, ReqInv, Working, Fetched, At, Cur
<1> DEFINE kept == [Cur(r) EXCEPT !.bare = bare]
           q    == [req[r] EXCEPT !.left = req[r].left \cup {kept}]
<1>3. NewTxns(Cur(r)) # {} /\ bare \in SUBSET Txn
  BY <1>1, <1>2, FeedAssumption DEF NewTxns, Snapshot
<1>4. /\ kept \in Sync /\ kept.conn = At(r) /\ kept.snap = Cur(r).snap
      /\ kept.txns = Cur(r).txns
  BY <1>2, <1>3 DEF Sync, At
<1>5. NewTxns(kept) = NewTxns(Cur(r))
  BY <1>4 DEF NewTxns
<1>6. q \in Request /\ q.left = req[r].left \cup {kept}
  BY <1>2, <1>4 DEF Request
<1>7. /\ kept.conn \in Conn
      /\ status[kept.conn] \in StoredStatus
      /\ kept.snap \in Version
      /\ NewTxns(kept) # {}
      /\ kept.txns \subseteq ledger[kept.conn]
  BY <1>2, <1>3, <1>4, <1>5 DEF StoredStatus
<1>8. \A s \in q.left : /\ s.conn \in Conn
                        /\ status[s.conn] \in StoredStatus
                        /\ s.snap \in Version
                        /\ NewTxns(s) # {}
                        /\ s.txns \subseteq ledger[s.conn]
  BY <1>6, <1>7, ReqFacts
<1>9. Onward(q) \in Request /\ ReqInv(Onward(q), status, ledger)
  BY <1>6, <1>8, OnwardOk
<1>10. Step(r, Onward(q)) /\ UNCHANGED <<bank, db>>
  BY <1>1, <1>2 DEF EnrichRaises, Request
<1>11. IInv'
  BY <1>9, <1>10, LocalStep
<1> QED BY <1>10, <1>11 DEF LogStep, db, rows

\* The request as it goes on after a commit, with nothing left to commit.
LEMMA CommittedOnward ==
    ASSUME NEW q \in Request
    PROVE  LET new == Onward([q EXCEPT !.left = {}]) IN
           new \in Request /\ new.left = {} /\ new.pc \in {"idle", "next"}
<1> DEFINE p == [q EXCEPT !.left = {}]
<1>1. p \in Request /\ p.left = {}
  BY DEF Request
<1>2. CASE p.todo = {}
  BY <1>1, <1>2, IdleType DEF Onward, Idle
<1>3. CASE p.todo # {}
  BY <1>1, <1>3, IdleType DEF Onward, Request, Pc
<1> QED BY <1>2, <1>3

LEMMA FetchFailsStep ==
    ASSUME IInv, NEW r \in Req, FetchFails(r)
    PROVE  IInv' /\ LogStep
<1> DEFINE c    == At(r)
           sent == req[r].status[c] # "error"
           S    == req[r].left
           C    == ConnsOf(S) \cup (IF sent THEN {c} ELSE {})
           new  == Onward([req[r] EXCEPT !.left = {}])
<1>1. req[r] \in Request /\ c \in Conn
  BY ReqFacts DEF FetchFails, ReqInv, Working, At, Cur
<1>2. CASE sent /\ c \notin Live
  BY <1>2, AbortStep DEF FetchFails
<1>3. CASE ~(sent /\ c \notin Live)
  <2>1. /\ status' = IF sent THEN [status EXCEPT ![c] = "error"] ELSE status
        /\ CommitRows(S)
        /\ StepAndPublish(r, C, new)
        /\ UNCHANGED <<bank, notified>>
    BY <1>3 DEF FetchFails
  <2>2. S \in SUBSET Sync /\ Committable(S)
    BY ReqFacts DEF Request, Committable
  <2>3. C \in SUBSET Conn
    BY <1>1, <2>2 DEF ConnsOf, Committable
  <2>4. status' \in [Conn -> Status] /\ SameLife
    BY <2>1, <1>1, <1>3 DEF IInv, TypeOK, Status, SameLife, Live, StoredStatus
  <2>5. new \in Request /\ new.left = {} /\ new.pc \in {"idle", "next"}
    BY <1>1, CommittedOnward
  <2>6. TypeOK
    BY DEF IInv
  <2> HIDE DEF S, C, new
  <2>7. IInv'
    BY <2>1, <2>2, <2>3, <2>4, <2>5, CommitStep
  <2>8. Log!Next
    BY <2>1, <2>2, <2>4, <2>6, CommitImports
  <2> QED BY <2>7, <2>8 DEF LogStep
<1> QED BY <1>2, <1>3

LEMMA RecordSyncMineStep ==
    ASSUME IInv, NEW r \in Req, RecordSyncMine(r)
    PROVE  IInv' /\ LogStep
<1> DEFINE S == req[r].left
<1>1. S \in SUBSET Sync /\ Committable(S) /\ ConnsOf(S) \in SUBSET Conn
  BY ReqFacts DEF Request, Committable, ConnsOf
<1>2. /\ CommitRows(S) /\ StepAndPublish(r, ConnsOf(S), Idle)
      /\ UNCHANGED <<bank, notified>> /\ UNCHANGED status
  BY DEF RecordSyncMine
<1>3. status' \in [Conn -> Status] /\ SameLife /\ TypeOK
  BY <1>2 DEF IInv, TypeOK, SameLife
<1>4. Idle \in Request /\ Idle.pc = "idle" /\ Idle.left = {}
  BY IdleType DEF Idle
<1> HIDE DEF S
<1>5. IInv'
  BY <1>1, <1>2, <1>3, <1>4, CommitStep
<1>6. Log!Next
  BY <1>1, <1>2, <1>3, CommitImports
<1> QED BY <1>5, <1>6 DEF LogStep

LEMMA CommitActionStep ==
    ASSUME IInv, NEW r \in Req, Commit(r)
    PROVE  IInv' /\ LogStep
<1> DEFINE c   == At(r)
           S   == req[r].left \cup {Cur(r)}
           new == IF req[r].kind = "nightly"
                    THEN [req[r] EXCEPT !.pc = "notify", !.left = {}]
                    ELSE Onward([req[r] EXCEPT !.left = {}])
<1>1. /\ req[r] \in Request /\ Cur(r) \in Sync /\ c \in Conn
      /\ Cur(r).snap \in Version
      /\ c \in Live
      /\ Cur(r).txns \subseteq ledger[c]
  BY ReqFacts DEF Commit, ReqInv, Working, Fetched, At, Cur, Live, StoredStatus
<1>2. /\ status' = IF req[r].status[c] = "active" THEN status
                   ELSE [status EXCEPT ![c] = "active"]
      /\ CommitRows(S)
      /\ StepAndPublish(r, ConnsOf(S), new)
      /\ UNCHANGED <<bank, notified>>
  BY DEF Commit
<1>3. S \in SUBSET Sync /\ Committable(S)
  BY <1>1, ReqFacts DEF Request, Committable, At, Live
<1>4. ConnsOf(S) \in SUBSET Conn
  BY <1>3 DEF ConnsOf, Committable
<1>5. status' \in [Conn -> Status] /\ SameLife /\ TypeOK
  BY <1>1, <1>2 DEF IInv, TypeOK, Status, SameLife, Live, StoredStatus
<1>6. /\ new \in Request /\ new.left = {} /\ new.pc \in {"idle", "next", "notify"}
      /\ new.pc = "notify" => new.cur.conn \in Conn /\ new.cur.snap \in Version
  <2>1. CASE req[r].kind = "nightly"
    BY <2>1, <1>1 DEF Request, Pc, At, Cur
  <2>2. CASE req[r].kind # "nightly"
    BY <2>2, <1>1, CommittedOnward
  <2> QED BY <2>1, <2>2
<1> HIDE DEF S, new
<1>7. IInv'
  BY <1>2, <1>3, <1>4, <1>5, <1>6, CommitStep
<1>8. Log!Next
  BY <1>2, <1>3, <1>5, CommitImports
<1> QED BY <1>7, <1>8 DEF LogStep

\* A step that leaves the connections and their rows alone.
LEMMA QuietStep ==
    ASSUME IInv, UNCHANGED <<status, rows>>,
           bank' \in [Conn -> Version \cup {0}], notified' \in SUBSET (Conn \X Version),
           req' \in [Req -> Request],
           \A q \in Req : ReqInv(req'[q], status, ledger)
    PROVE  IInv' /\ LogStep
<1>1. TypeOK' /\ NoRows' /\ LedgerIsUnionOfImports'
  BY DEF IInv, TypeOK, NoRows, LedgerIsUnionOfImports, Live, rows
<1>2. \A q \in Req : ReqInv(req[q], status, ledger)'
  BY DEF rows
<1> QED BY <1>1, <1>2 DEF IInv, LogStep, rows

LEMMA NotifyStep ==
    ASSUME IInv, NEW r \in Req, Notify(r)
    PROVE  IInv' /\ LogStep
<1>1. /\ req[r] \in Request /\ At(r) \in Conn /\ Cur(r).snap \in Version
      /\ Onward(req[r]) \in Request /\ ReqInv(Onward(req[r]), status, ledger)
  BY ReqFacts, OnwardOk DEF Notify, ReqInv, Working, Fetched, At, Cur
<1>2. notified' \in SUBSET (Conn \X Version)
  BY <1>1 DEF Notify, IInv, TypeOK
<1>3. \A q \in Req : req'[q] = IF q = r THEN Onward(req[r]) ELSE req[q]
  BY DEF Notify, Step, IInv, TypeOK
<1>4. req' \in [Req -> Request] /\ \A q \in Req : ReqInv(req'[q], status, ledger)
  BY <1>1, <1>3 DEF Notify, Step, IInv, TypeOK
<1>5. UNCHANGED <<status, rows>> /\ bank' \in [Conn -> Version \cup {0}]
  BY DEF Notify, IInv, TypeOK
<1> QED BY <1>2, <1>4, <1>5, QuietStep

LEMMA CrashStep ==
    ASSUME IInv, Crash
    PROVE  IInv' /\ LogStep
<1>1. ReqInv(Idle, status, ledger)
  BY DEF ReqInv, Idle, Working, Fetched
<1> QED BY <1>1, IdleType, QuietStep DEF Crash, IInv, TypeOK, db

LEMMA PublishStep ==
    ASSUME IInv, NEW c \in Conn, BankPublishes(c)
    PROVE  IInv' /\ LogStep
<1>1. bank' \in [Conn -> Version \cup {0}]
  BY DEF BankPublishes, IInv, TypeOK
<1> QED BY <1>1, QuietStep DEF BankPublishes, IInv, TypeOK, db

\* The household goes: no session has flushed a transaction of the connection, since
\* the deletion waits for the locked rows.
LEMMA WipeStep ==
    ASSUME IInv, NEW c \in Conn, WipeHousehold(c)
    PROVE  IInv' /\ LogStep
<1>1. /\ status[c] \in StoredStatus
      /\ status' = [status EXCEPT ![c] = "deleted"]
      /\ ledger' = [ledger EXCEPT ![c] = {}]
      /\ req' = req /\ history' = history
  BY DEF WipeHousehold, Live
<1>2. TypeOK'
  BY DEF WipeHousehold, IInv, TypeOK, Status
<1>3. /\ status'[c] = "deleted" /\ ledger'[c] = {}
      /\ \A d \in Conn : d # c => status'[d] = status[d] /\ ledger'[d] = ledger[d]
  BY <1>1 DEF IInv, TypeOK
<1>4. NoRows' /\ LedgerIsUnionOfImports'
  BY <1>1, <1>3 DEF IInv, NoRows, LedgerIsUnionOfImports, Live, StoredStatus
<1>5. ASSUME NEW q \in Req
      PROVE  ReqInv(req[q], status', ledger')
  <2>1. ReqInv(req[q], status, ledger) /\ HeldTxns(q, c) = {}
    BY DEF IInv, WipeHousehold, HoldsRows
  <2>2. ASSUME NEW s \in req[q].left
        PROVE  s.conn # c
    <3>1. NewTxns(s) # {}
      BY <2>1 DEF ReqInv
    <3> QED BY <2>1, <3>1 DEF HeldTxns, Flushed
  <2>3. req[q].pc \in {"holdings", "commit"} /\ NewTxns(req[q].cur) # {}
          => req[q].cur.conn # c
    BY <2>1 DEF HeldTxns, Flushed, Cur
  <2>4. /\ req[q].pc \in Working => req[q].cur.conn \in Conn
        /\ req[q].pc \in Fetched => req[q].cur.snap \in Version
    BY <2>1 DEF ReqInv
  <2>5. req[q].pc \in {"txns", "holdings", "commit"} /\ status'[req[q].cur.conn] # "deleted"
          => req[q].cur.txns \subseteq ledger'[req[q].cur.conn]
    BY <2>1, <2>4, <1>3 DEF ReqInv, Working
  <2>6. req[q].pc \in {"holdings", "commit"} /\ NewTxns(req[q].cur) # {}
          => status'[req[q].cur.conn] \in StoredStatus
    BY <2>1, <2>3, <2>4, <1>3 DEF ReqInv, Working
  <2>7. \A s \in req[q].left : /\ s.conn \in Conn
                               /\ status'[s.conn] \in StoredStatus
                               /\ s.snap \in Version
                               /\ NewTxns(s) # {}
                               /\ s.txns \subseteq ledger'[s.conn]
    BY <2>1, <2>2, <1>3 DEF ReqInv
  <2> QED BY <2>4, <2>5, <2>6, <2>7 DEF ReqInv
<1>6. IInv'
  BY <1>1, <1>2, <1>4, <1>5 DEF IInv
<1>7. Log!Close(c)
  BY <1>1, <1>3 DEF Log!Close, StoredStatus, IInv, TypeOK
<1> QED BY <1>6, <1>7 DEF LogStep, Log!Next

LEMMA WorkStep ==
    ASSUME IInv, NEW r \in Req, Work(r)
    PROVE  IInv' /\ LogStep
<1>1. CASE DeadlockVictim(r) \/ EnrichFails(r) \/ CommitGone(r)
  BY <1>1, AbortStep DEF DeadlockVictim, EnrichFails, CommitGone
<1> QED BY <1>1, PickStep, FetchOkStep, FetchFailsStep, LoadAccountStep, WriteAccountStep,
           WriteTransactionsStep, WriteHoldingsStep, EnrichRaisesStep,
           RecordSyncMineStep, CommitActionStep, NotifyStep DEF Work

-----------------------------------------------------------------------------
(* The theorems.                                                           *)

LEMMA InitInv == Init => IInv
<1> SUFFICES ASSUME Init PROVE IInv
  OBVIOUS
<1>1. TypeOK
  BY IdleType, FeedAssumption DEF Init, TypeOK, Status, Version
<1>2. NoRows /\ LedgerIsUnionOfImports
  BY DEF Init, NoRows, LedgerIsUnionOfImports, Live, StoredStatus
<1>3. \A r \in Req : ReqInv(req[r], status, ledger)
  BY DEF Init, ReqInv, Idle, Working, Fetched
<1> QED BY <1>1, <1>2, <1>3 DEF IInv

LEMMA NextInv == IInv /\ [Next]_vars => IInv' /\ LogStep
<1> SUFFICES ASSUME IInv, [Next]_vars PROVE IInv' /\ LogStep
  OBVIOUS
<1>1. CASE UNCHANGED vars
  BY <1>1, QuietStep DEF vars, rows, IInv, TypeOK
<1>2. ASSUME NEW r \in Req, Start(r) \/ Work(r)
      PROVE  IInv' /\ LogStep
  BY <1>2, StartStep, WorkStep
<1>3. ASSUME NEW c \in Conn, BankPublishes(c) \/ WipeHousehold(c)
      PROVE  IInv' /\ LogStep
  BY <1>3, PublishStep, WipeStep
<1> QED BY <1>1, <1>2, <1>3, CrashStep DEF Next

LEMMA Inductive == Spec => []IInv
BY InitInv, NextInv, PTL DEF Spec

\* Every variable keeps its type, whatever requests overlap, fail or die.
THEOREM TypeCorrect == Spec => []TypeOK
<1>1. IInv => TypeOK
  BY DEF IInv
<1> QED BY <1>1, Inductive, PTL

\* No overlap of syncs, no failure after a flush and no deletion of a household
\* leaves a connection with a transaction too few or too many.
THEOREM LedgerCorrect == Spec => []LedgerIsUnionOfImports
<1>1. IInv => LedgerIsUnionOfImports
  BY DEF IInv
<1> QED BY <1>1, Inductive, PTL

\* Bank synchronisation implements the import log: each commit of a session is one
\* atomic import of whole snapshots into open connections.
THEOREM Refinement == Spec => ImplementsImportLog
<1>1. Init => Log!Init
  BY DEF Init, Log!Init
<1>2. IInv /\ [Next]_vars => [Log!Next]_(Log!logVars)
  BY NextInv DEF LogStep, Log!logVars
<1> QED BY <1>1, <1>2, Inductive, PTL DEF Spec, ImplementsImportLog, Log!Spec
-----------------------------------------------------------------------------
(* What requests have read.                                                *)

\* Connections a request is to sync or is syncing.
Ahead(r) == req[r].todo \cup {c \in {At(r)} : req[r].pc \in Working}

\* The connections a request has dealt with are not those ahead of it.
OnceEach(r) ==
    LET q == req[r] IN
    /\ q.pc = "idle" => q.todo = {} /\ q.left = {}
    /\ q.pc = "next" => q.cur = NoSync
    /\ \A c \in Ahead(r) : status[c] # "none"
    /\ q.pc \in Working => At(r) \notin q.todo
    /\ \A s \in q.left : s.conn \notin Ahead(r)

\* What was found and served stays so: a stored account row, a version of the bank.
Lasting(s, pcs, pc) ==
    /\ pc \in pcs \cup {"load"} /\ bank[s.conn] # 0 => s.snap <= bank[s.conn]
    /\ pc \in pcs /\ status[s.conn] \in StoredStatus /\ s.balance # NoRow =>
         balance[s.conn] # NoRow

Loaded == {"account", "txns", "holdings", "commit"}

LastingOK(r) ==
    /\ Lasting(Cur(r), Loaded, req[r].pc)
    /\ \A s \in req[r].left : Lasting(s, Loaded, "commit")

\* What it read of a connection that nobody else has written since is what is stored.
ReadOK(r) ==
    LET q == req[r] IN
    \A c \in Ahead(r) \ q.stale :
        status[c] \in StoredStatus =>
            /\ c \in q.todo \/ q.pc # "notify" => q.status[c] = status[c]
            /\ c \notin q.todo =>
                 /\ q.pc \in Loaded \cup {"load"} => \A v \in history[c] : v <= q.cur.snap
                 /\ q.pc \in Loaded => q.cur.balance = balance[c]
                 /\ q.pc \in {"holdings", "commit"} => q.cur.holdings = holdings[c]

\* Nothing is stored of a connection that is not; the bank has served what was committed.
NothingYet == \A c \in Conn : status[c] = "none" => balance[c] = NoRow /\ holdings[c] = {}
Served     == \A c \in Conn : bank[c] # 0 => \A v \in history[c] : v <= bank[c]

ReadInv ==
    /\ ShownIsImported /\ NothingYet /\ Served
    /\ \A r \in Req : OnceEach(r) /\ LastingOK(r) /\ ReadOK(r)

LEMMA WhatIsRead ==
    ASSUME IInv, ReadInv, NEW r \in Req
    PROVE  /\ req[r] \in Request /\ Cur(r) \in Sync /\ ReqInv(req[r], status, ledger)
           /\ OnceEach(r) /\ LastingOK(r) /\ ReadOK(r)
           /\ req[r].todo \subseteq Conn /\ Ahead(r) \subseteq Conn
<1>1. /\ req[r] \in Request /\ Cur(r) \in Sync /\ ReqInv(req[r], status, ledger)
      /\ OnceEach(r) /\ LastingOK(r) /\ ReadOK(r)
  BY ReqFacts DEF ReadInv
<1>2. req[r].todo \subseteq Conn
  BY <1>1 DEF Request
<1> QED BY <1>1, <1>2 DEF Ahead, ReqInv, At, Cur

\* Connections are not deleted and stored again, nor do stored account rows go.
Keeps ==
    \A c \in Conn :
        /\ status[c] # "none" => status'[c] # "none"
        /\ status'[c] \in StoredStatus /\ status[c] # "none" => status[c] \in StoredStatus
        /\ bank'[c] # 0 => bank[c] # 0 /\ bank[c] <= bank'[c]
        /\ status'[c] \in StoredStatus /\ balance[c] # NoRow => balance'[c] # NoRow

\* What is stored of a connection stays as it is.
Untouched(c) ==
    /\ status'[c] = status[c] /\ balance'[c] = balance[c]
    /\ holdings'[c] = holdings[c] /\ history'[c] = history[c]

\* Whoever is told that what it read is old, and has only that changed.
LEMMA OthersRead ==
    ASSUME IInv, IInv', ReadInv, Keeps, NEW q \in Req,
           req'[q].pc = req[q].pc, req'[q].cur = req[q].cur, req'[q].todo = req[q].todo,
           req'[q].left = req[q].left, req'[q].status = req[q].status,
           req[q].stale \subseteq req'[q].stale,
           \A c \in Ahead(q) \ req'[q].stale : status'[c] \in StoredStatus => Untouched(c)
    PROVE  OnceEach(q)' /\ LastingOK(q)' /\ ReadOK(q)'
<1>1. /\ ReqInv(req[q], status, ledger) /\ OnceEach(q) /\ LastingOK(q) /\ ReadOK(q)
      /\ req[q].todo \subseteq Conn /\ Ahead(q) \subseteq Conn /\ Ahead(q)' = Ahead(q)
  BY WhatIsRead DEF Ahead, At, Cur
<1>2. OnceEach(q)'
  BY <1>1 DEF OnceEach, Keeps, At, Cur
<1>3. \A s \in req[q].left : Lasting(s, Loaded, "commit")'
  <2> TAKE s \in req[q].left
  <2>1. s.conn \in Conn /\ status[s.conn] \in StoredStatus /\ Lasting(s, Loaded, "commit")
        /\ s.snap \in Version /\ bank[s.conn] \in Version \cup {0} /\ bank'[s.conn] \in Version \cup {0}
    BY <1>1 DEF ReqInv, LastingOK, IInv, TypeOK
  <2> QED BY <2>1, FeedAssumption DEF Lasting, Keeps, StoredStatus, Version
<1>4. Lasting(Cur(q), Loaded, req[q].pc)'
  <2>1. CASE req[q].pc \in Loaded \cup {"load"}
    <3>1. /\ At(q) \in Conn /\ status[At(q)] # "none" /\ Cur(q).snap \in Version
          /\ bank[At(q)] \in Version \cup {0} /\ bank'[At(q)] \in Version \cup {0}
      BY <1>1, <2>1 DEF ReqInv, OnceEach, Ahead, Working, Fetched, Loaded, At, Cur, IInv, TypeOK
    <3>2. Lasting(Cur(q), Loaded, req[q].pc) /\ Cur(q)' = Cur(q) /\ Cur(q).conn = At(q)
      BY <1>1 DEF LastingOK, Cur, At
    <3> QED BY <3>1, <3>2, FeedAssumption DEF Lasting, Keeps, Version
  <2>2. CASE req[q].pc \notin Loaded \cup {"load"}
    BY <2>2 DEF Lasting
  <2> QED BY <2>1, <2>2
<1>5. ReadOK(q)'
  <2> SUFFICES ASSUME NEW c \in Ahead(q) \ req'[q].stale, status'[c] \in StoredStatus
               PROVE  /\ c \in req[q].todo \/ req[q].pc # "notify" => req[q].status[c] = status'[c]
                      /\ c \notin req[q].todo =>
                           /\ req[q].pc \in Loaded \cup {"load"} =>
                                \A v \in history'[c] : v <= req[q].cur.snap
                           /\ req[q].pc \in Loaded => req[q].cur.balance = balance'[c]
                           /\ req[q].pc \in {"holdings", "commit"} =>
                                req[q].cur.holdings = holdings'[c]
    BY <1>1 DEF ReadOK
  <2>1. Untouched(c) /\ c \in Ahead(q) \ req[q].stale
    OBVIOUS
  <2>2. status[c] \in StoredStatus
    BY <2>1 DEF Untouched
  <2> QED BY <1>1, <2>1, <2>2 DEF ReadOK, Untouched
<1> QED BY <1>2, <1>3, <1>4, <1>5 DEF LastingOK

\* A step of one request that writes no connection and no row.
LEMMA LocalReads ==
    ASSUME IInv, IInv', ReadInv, NEW r \in Req, NEW new, Step(r, new),
           UNCHANGED <<bank, status, rows>>,
           OnceEach(r)', LastingOK(r)', ReadOK(r)'
    PROVE  ReadInv'
<1>1. ShownIsImported' /\ NothingYet' /\ Served'
  BY DEF ReadInv, ShownIsImported, NothingYet, Served, Live, rows
<1>2. ASSUME NEW q \in Req \ {r} PROVE OnceEach(q)' /\ LastingOK(q)' /\ ReadOK(q)'
  <2>1. req'[q] = req[q]
    BY DEF Step, IInv, TypeOK
  <2>2. Keeps /\ \A c \in Conn : Untouched(c)
    BY DEF Keeps, Untouched, rows, IInv, TypeOK, Version
  <2>3. Ahead(q) \subseteq Conn
    BY WhatIsRead
  <2> QED BY <2>1, <2>2, <2>3, OthersRead
<1> QED BY <1>1, <1>2 DEF ReadInv

\* A request that has ended has nothing ahead of it.
LEMMA IdleReads ==
    ASSUME NEW r \in Req, req'[r] = Idle
    PROVE  OnceEach(r)' /\ LastingOK(r)' /\ ReadOK(r)'
<1>1. Ahead(r)' = {}
  BY DEF Ahead, Idle, Working
<1> QED BY <1>1 DEF OnceEach, LastingOK, Lasting, ReadOK, Idle, Working, Loaded, Cur

LEMMA AbortReads ==
    ASSUME IInv, IInv', ReadInv, NEW r \in Req, Abort(r)
    PROVE  ReadInv'
<1>1. req'[r] = Idle /\ Step(r, Idle) /\ UNCHANGED <<bank, db>>
  BY DEF Abort, Step, IInv, TypeOK
<1> QED BY <1>1, IdleReads, LocalReads DEF db

LEMMA BeginReads ==
    ASSUME IInv, IInv', ReadInv, NEW r \in Req, NEW k, NEW S \in SUBSET Live, Begin(r, k, S)
    PROVE  ReadInv'
<1> DEFINE new == [Idle EXCEPT !.pc = "next", !.kind = k, !.todo = S,
                               !.status = [c \in Conn |->
                                             IF c \in S THEN status[c] ELSE "none"]]
<1>1. /\ new.pc = "next" /\ new.left = {} /\ new.todo = S /\ new.cur = NoSync
      /\ \A c \in S : new.status[c] = status[c]
  BY DEF Idle, Live
<1>2. Step(r, new) /\ UNCHANGED <<bank, db>>
  BY DEF Begin
<1> HIDE DEF new
<1>3. req'[r] = new
  BY <1>2 DEF Step, IInv, TypeOK
<1>4. Ahead(r)' = S /\ \A c \in S : status'[c] = status[c] /\ status[c] # "none"
  BY <1>1, <1>2, <1>3 DEF Ahead, Working, Live, StoredStatus, db
<1>5. OnceEach(r)' /\ LastingOK(r)' /\ ReadOK(r)'
  BY <1>1, <1>3, <1>4 DEF OnceEach, LastingOK, Lasting, ReadOK, Working, Loaded, Cur
<1> QED BY <1>2, <1>5, LocalReads DEF db

LEMMA CreateReads ==
    ASSUME IInv, IInv', ReadInv, NEW r \in Req, NEW c \in Conn, NEW new \in Request, CreateRow(r, c, new),
           new.pc \in {"fetch", "load"}, new.left = {}, new.todo = {}, new.cur \in Sync,
           new.pc = "load" => bank[c] = 0
    PROVE  ReadInv'
<1> DEFINE new2 == [new EXCEPT !.cur.conn = c, !.status = [@ EXCEPT ![c] = "pending"]]
<1>1. /\ status[c] = "none" /\ status' = [status EXCEPT ![c] = "pending"]
      /\ req' = [req EXCEPT ![r] = new2]
      /\ UNCHANGED <<bank, balance, ledger, enriched, holdings, history, notified>>
  BY DEF CreateRow, Step, rows
<1>2. /\ req'[r] = new2 /\ new2.pc = new.pc /\ new2.left = {} /\ new2.todo = {}
      /\ new2.cur.conn = c /\ new2.status[c] = "pending"
  BY <1>1 DEF IInv, TypeOK, Request, Sync
<1> HIDE DEF new2
<1>3. /\ status'[c] = "pending" /\ \A d \in Conn \ {c} : status'[d] = status[d]
      /\ balance[c] = NoRow /\ holdings[c] = {} /\ history[c] = {}
  BY <1>1 DEF IInv, TypeOK, NoRows, ReadInv, NothingYet
<1>4. ShownIsImported' /\ NothingYet' /\ Served'
  BY <1>1, <1>3 DEF ReadInv, ShownIsImported, NothingYet, Served, Live
<1>5. Ahead(r)' = {c}
  BY <1>2 DEF Ahead, At, Cur, Working
<1>6. OnceEach(r)' /\ LastingOK(r)' /\ ReadOK(r)'
  BY <1>1, <1>2, <1>3, <1>5 DEF OnceEach, LastingOK, Lasting, ReadOK, Working, Loaded, At, Cur
<1>7. ASSUME NEW q \in Req \ {r} PROVE OnceEach(q)' /\ LastingOK(q)' /\ ReadOK(q)'
  <2>1. req'[q] = req[q]
    BY <1>1 DEF IInv, TypeOK
  <2>2. Ahead(q) \subseteq Conn \ {c}
    BY <1>1, WhatIsRead DEF OnceEach
  <2>3. Keeps
    BY <1>1, <1>3 DEF Keeps, IInv, TypeOK, Version, StoredStatus
  <2>4. \A d \in Conn \ {c} : Untouched(d)
    BY <1>1, <1>3 DEF Untouched
  <2> QED BY <2>1, <2>2, <2>3, <2>4, OthersRead
<1> QED BY <1>4, <1>6, <1>7 DEF ReadInv

LEMMA StartReads ==
    ASSUME IInv, IInv', ReadInv, NEW r \in Req, Start(r)
    PROVE  ReadInv'
<1>1. CASE SyncMine(r)
  BY <1>1, BeginReads DEF SyncMine
<1>2. CASE SyncAll(r)
  <2>1. {c \in Conn : status[c] \in {"active", "error"}} \in SUBSET Live
    BY DEF Live, StoredStatus
  <2> QED BY <1>2, <2>1, BeginReads DEF SyncAll
<1>3. ASSUME NEW c \in Conn, Resync(r, c)
      PROVE  ReadInv'
  BY <1>3, BeginReads DEF Resync
<1>4. ASSUME NEW c \in Conn, Connect(r, c)
      PROVE  ReadInv'
  <2> DEFINE new == [Idle EXCEPT !.pc = "fetch", !.kind = "connect"]
  <2>1. /\ new \in Request /\ new.pc = "fetch" /\ new.left = {} /\ new.todo = {}
        /\ new.cur \in Sync
    BY IdleType DEF Request, Pc, AllKinds, Idle
  <2>2. CreateRow(r, c, new)
    BY <1>4 DEF Connect
  <2> QED BY <2>1, <2>2, CreateReads
<1>5. ASSUME NEW c \in Conn, ImportCsv(r, c)
      PROVE  ReadInv'
  <2>1. /\ c \in CsvConn
        /\ \E v \in Version :
             CreateRow(r, c, [Idle EXCEPT !.pc = "load", !.kind = "import", !.cur.snap = v])
    BY <1>5 DEF ImportCsv
  <2>2. PICK v \in Version :
          CreateRow(r, c, [Idle EXCEPT !.pc = "load", !.kind = "import", !.cur.snap = v])
    BY <2>1
  <2> DEFINE new == [Idle EXCEPT !.pc = "load", !.kind = "import", !.cur.snap = v]
  <2>3. [NoSync EXCEPT !.snap = v] \in Sync
    BY IdleType DEF Sync
  <2>4. new = [Idle EXCEPT !.pc = "load", !.kind = "import", !.cur = [NoSync EXCEPT !.snap = v]]
    BY DEF Idle
  <2>5. /\ new \in Request /\ new.pc = "load" /\ new.left = {} /\ new.todo = {} /\ new.cur \in Sync
    BY <2>3, <2>4, IdleType DEF Request, Pc, AllKinds, Idle
  <2>6. bank[c] = 0
    BY <2>1 DEF CsvConn
  <2> QED BY <2>2, <2>5, <2>6, CreateReads
<1> QED BY <1>1, <1>2, <1>3, <1>4, <1>5 DEF Start

\* A request that moves on within the sync of one connection.
LEMMA MoveReads ==
    ASSUME IInv, IInv', ReadInv, NEW r \in Req, NEW pc \in Working, NEW cur \in Sync,
           req[r].pc \in Working, cur.conn = At(r),
           Step(r, [req[r] EXCEPT !.pc = pc, !.cur = cur]), UNCHANGED <<bank, db>>,
           Lasting(cur, Loaded, pc),
           At(r) \notin req[r].stale /\ status[At(r)] \in StoredStatus =>
             /\ pc # "notify" => req[r].status[At(r)] = status[At(r)]
             /\ pc \in Loaded \cup {"load"} => \A v \in history[At(r)] : v <= cur.snap
             /\ pc \in Loaded => cur.balance = balance[At(r)]
             /\ pc \in {"holdings", "commit"} => cur.holdings = holdings[At(r)]
    PROVE  ReadInv'
<1> DEFINE new == [req[r] EXCEPT !.pc = pc, !.cur = cur]
<1>1. /\ new.pc = pc /\ new.cur = cur /\ new.todo = req[r].todo /\ new.left = req[r].left
      /\ new.status = req[r].status /\ new.stale = req[r].stale /\ req'[r] = new
  BY WhatIsRead DEF Request, Step, IInv, TypeOK
<1> HIDE DEF new
<1>2. /\ UNCHANGED <<bank, status, balance, holdings, history>>
      /\ At(r)' = At(r) /\ Cur(r)' = cur /\ Ahead(r)' = Ahead(r)
  BY <1>1 DEF db, rows, Ahead, At, Cur
<1>3. OnceEach(r) /\ LastingOK(r) /\ ReadOK(r)
  BY WhatIsRead
<1>4. OnceEach(r)'
  BY <1>1, <1>2, <1>3 DEF OnceEach, Working
<1>5. LastingOK(r)'
  BY <1>1, <1>2, <1>3 DEF LastingOK, Lasting
<1>6. ReadOK(r)'
  BY <1>1, <1>2, <1>3 DEF ReadOK, Ahead, Working
<1> QED BY <1>4, <1>5, <1>6, LocalReads DEF db

LEMMA PickReads ==
    ASSUME IInv, IInv', ReadInv, NEW r \in Req, PickConnection(r)
    PROVE  ReadInv'
<1>1. PICK c \in req[r].todo :
        Step(r, [req[r] EXCEPT !.pc = "fetch", !.cur = [NoSync EXCEPT !.conn = c],
                               !.todo = @ \ {c}])
  BY DEF PickConnection
<1> DEFINE new == [req[r] EXCEPT !.pc = "fetch", !.cur = [NoSync EXCEPT !.conn = c],
                                 !.todo = @ \ {c}]
<1>2. /\ new.pc = "fetch" /\ new.cur.conn = c /\ new.todo = req[r].todo \ {c}
      /\ new.left = req[r].left /\ new.status = req[r].status /\ new.stale = req[r].stale
      /\ req'[r] = new /\ req[r].pc = "next"
  BY <1>1, WhatIsRead, IdleType DEF PickConnection, Request, Sync, Step, IInv, TypeOK
<1> HIDE DEF new
<1>3. /\ UNCHANGED <<bank, db>> /\ UNCHANGED <<status, balance, holdings, history>>
      /\ Ahead(r)' = Ahead(r) /\ At(r)' = c
  BY <1>2 DEF PickConnection, db, rows, Ahead, At, Cur, Working
<1>4. OnceEach(r) /\ LastingOK(r) /\ ReadOK(r) /\ Ahead(r) = req[r].todo
  BY <1>2, WhatIsRead DEF Ahead, Working
<1>5. OnceEach(r)' /\ LastingOK(r)' /\ ReadOK(r)'
  BY <1>2, <1>3, <1>4 DEF OnceEach, LastingOK, Lasting, ReadOK, Working, Loaded, At, Cur
<1> QED BY <1>1, <1>3, <1>5, LocalReads DEF db

LEMMA FetchOkReads ==
    ASSUME IInv, IInv', ReadInv, NEW r \in Req, FetchOk(r)
    PROVE  ReadInv'
<1>1. /\ req[r] \in Request /\ Cur(r) \in Sync /\ At(r) \in Conn /\ bank[At(r)] \in Version
      /\ req[r].pc = "fetch" /\ At(r) \notin req[r].todo /\ At(r) \in Ahead(r)
  BY WhatIsRead DEF FetchOk, ReqInv, OnceEach, Ahead, Working, At, Cur, IInv, TypeOK, CsvConn
<1> DEFINE cur == [Cur(r) EXCEPT !.snap = bank[At(r)]]
<1>2. cur \in Sync /\ cur.conn = At(r) /\ cur.snap = bank[At(r)]
  BY <1>1 DEF Sync, At
<1>3. [req[r] EXCEPT !.pc = "load", !.cur.snap = bank[At(r)]]
        = [req[r] EXCEPT !.pc = "load", !.cur = cur]
  BY <1>1 DEF Request, Cur
<1>4. Step(r, [req[r] EXCEPT !.pc = "load", !.cur = cur]) /\ UNCHANGED <<bank, db>>
  BY <1>3 DEF FetchOk
<1>5. Lasting(cur, Loaded, "load")
  BY <1>1, <1>2, FeedAssumption DEF Lasting, Loaded, Version
<1>6. \A v \in history[At(r)] : v <= cur.snap
  BY <1>1, <1>2 DEF ReadInv, Served, Version
<1>7. At(r) \notin req[r].stale /\ status[At(r)] \in StoredStatus =>
        req[r].status[At(r)] = status[At(r)]
  BY <1>1, WhatIsRead DEF ReadOK
<1> HIDE DEF cur
<1> QED BY <1>1, <1>2, <1>4, <1>5, <1>6, <1>7, MoveReads DEF Working, Loaded

LEMMA LoadAccountReads ==
    ASSUME IInv, IInv', ReadInv, NEW r \in Req, LoadAccount(r)
    PROVE  ReadInv'
<1>1. /\ req[r] \in Request /\ Cur(r) \in Sync /\ At(r) \in Conn /\ balance[At(r)] \in Balance \cup {NoRow}
      /\ req[r].pc = "load" /\ At(r) \notin req[r].todo /\ At(r) \in Ahead(r)
  BY WhatIsRead DEF LoadAccount, ReqInv, OnceEach, Ahead, Working, At, Cur, IInv, TypeOK
<1> DEFINE cur == [Cur(r) EXCEPT !.balance = balance[At(r)]]
<1>2. cur \in Sync /\ cur.conn = At(r) /\ cur.snap = Cur(r).snap /\ cur.balance = balance[At(r)]
  BY <1>1 DEF Sync, At
<1>3. [req[r] EXCEPT !.pc = "account", !.cur.balance = balance[At(r)]]
        = [req[r] EXCEPT !.pc = "account", !.cur = cur]
  BY <1>1 DEF Request, Cur
<1>4. Step(r, [req[r] EXCEPT !.pc = "account", !.cur = cur]) /\ UNCHANGED <<bank, db>>
  BY <1>3 DEF LoadAccount
<1>5. Lasting(cur, Loaded, "account")
  BY <1>1, <1>2, WhatIsRead DEF LastingOK, Lasting, Loaded, At
<1>6. At(r) \notin req[r].stale /\ status[At(r)] \in StoredStatus =>
        /\ req[r].status[At(r)] = status[At(r)]
        /\ \A v \in history[At(r)] : v <= cur.snap
  BY <1>1, <1>2, WhatIsRead DEF ReadOK, Cur
<1> HIDE DEF cur
<1> QED BY <1>1, <1>2, <1>4, <1>5, <1>6, MoveReads DEF Working, Loaded

LEMMA WriteReads ==
    ASSUME IInv, IInv', ReadInv, NEW r \in Req,
           WriteAccount(r) \/ WriteTransactions(r) \/ WriteHoldings(r)
    PROVE  ReadInv'
<1>1. /\ req[r] \in Request /\ Cur(r) \in Sync /\ At(r) \in Conn
      /\ ledger[At(r)] \in SUBSET Txn /\ holdings[At(r)] \in SUBSET Security
      /\ req[r].pc \in {"account", "txns", "holdings"}
      /\ At(r) \notin req[r].todo /\ At(r) \in Ahead(r)
  BY WhatIsRead DEF WriteAccount, WriteTransactions, WriteHoldings, ReqInv, OnceEach, Ahead,
                    Working, At, Cur, IInv, TypeOK
<1>2. /\ Lasting(Cur(r), Loaded, req[r].pc)
      /\ At(r) \notin req[r].stale /\ status[At(r)] \in StoredStatus =>
           /\ req[r].status[At(r)] = status[At(r)]
           /\ \A v \in history[At(r)] : v <= Cur(r).snap
           /\ Cur(r).balance = balance[At(r)]
           /\ req[r].pc = "holdings" => Cur(r).holdings = holdings[At(r)]
  BY <1>1, WhatIsRead DEF LastingOK, ReadOK, Loaded, Cur
<1>3. ASSUME NEW pc \in Loaded, NEW cur \in Sync, cur.conn = At(r), cur.snap = Cur(r).snap,
             cur.balance = Cur(r).balance,
             pc = "holdings" => cur.holdings = holdings[At(r)],
             pc = "commit" => cur.holdings = Cur(r).holdings /\ req[r].pc = "holdings",
             Step(r, [req[r] EXCEPT !.pc = pc, !.cur = cur]), UNCHANGED <<bank, db>>
      PROVE  ReadInv'
  <2>1. Lasting(cur, Loaded, pc)
    BY <1>1, <1>2, <1>3 DEF Lasting, Loaded, At
  <2> QED BY <1>1, <1>2, <1>3, <2>1, MoveReads DEF Working, Loaded
<1>4. CASE WriteAccount(r)
  <2> DEFINE cur == [Cur(r) EXCEPT !.txns = ledger[At(r)]]
  <2>1. /\ cur \in Sync /\ cur.conn = At(r) /\ cur.snap = Cur(r).snap
        /\ cur.balance = Cur(r).balance
    BY <1>1 DEF Sync, At
  <2>2. [req[r] EXCEPT !.pc = "txns", !.cur.txns = ledger[At(r)]]
          = [req[r] EXCEPT !.pc = "txns", !.cur = cur]
    BY <1>1 DEF Request, Cur
  <2>3. \/ Abort(r)
        \/ Step(r, [req[r] EXCEPT !.pc = "txns", !.cur = cur]) /\ UNCHANGED <<bank, db>>
    BY <1>4, <2>2 DEF WriteAccount
  <2> HIDE DEF cur
  <2> QED BY <1>3, <2>1, <2>3, AbortReads DEF Loaded
<1>5. CASE WriteTransactions(r)
  <2> DEFINE cur == [Cur(r) EXCEPT !.holdings = holdings[At(r)]]
  <2>1. /\ cur \in Sync /\ cur.conn = At(r) /\ cur.snap = Cur(r).snap
        /\ cur.balance = Cur(r).balance /\ cur.holdings = holdings[At(r)]
    BY <1>1 DEF Sync, At
  <2>2. [req[r] EXCEPT !.pc = "holdings", !.cur.holdings = holdings[At(r)]]
          = [req[r] EXCEPT !.pc = "holdings", !.cur = cur]
    BY <1>1 DEF Request, Cur
  <2>3. \/ Abort(r)
        \/ Step(r, [req[r] EXCEPT !.pc = "holdings", !.cur = cur]) /\ UNCHANGED <<bank, db>>
    BY <1>5, <2>2 DEF WriteTransactions
  <2> HIDE DEF cur
  <2> QED BY <1>3, <2>1, <2>3, AbortReads DEF Loaded
<1>6. CASE WriteHoldings(r)
  <2>1. [req[r] EXCEPT !.pc = "commit"] = [req[r] EXCEPT !.pc = "commit", !.cur = Cur(r)]
    BY <1>1 DEF Request, Cur
  <2>2. \/ Abort(r)
        \/ Step(r, [req[r] EXCEPT !.pc = "commit", !.cur = Cur(r)]) /\ UNCHANGED <<bank, db>>
    BY <1>6, <2>1 DEF WriteHoldings
  <2>3. req[r].pc = "holdings" /\ Cur(r).conn = At(r)
    BY <1>6 DEF WriteHoldings, At
  <2> QED BY <1>1, <1>3, <2>2, <2>3, AbortReads DEF Loaded
<1> QED BY <1>4, <1>5, <1>6

\* The request as it goes on: what is ahead of it was read, and is as it was.
LEMMA OnwardReads ==
    ASSUME NEW r \in Req, NEW q \in Request, req'[r] = Onward(q), req[r].pc # "idle",
           OnceEach(r), ReadOK(r),
           q.todo = req[r].todo, q.status = req[r].status, q.stale = req[r].stale,
           \A s \in q.left : s.conn \notin q.todo /\ Lasting(s, Loaded, "commit")',
           \A c \in q.todo : status[c] # "none" => Untouched(c)
    PROVE  OnceEach(r)' /\ LastingOK(r)' /\ ReadOK(r)'
<1>1. CASE q.todo = {} /\ q.left = {}
  <2>1. req'[r] = Idle
    BY <1>1 DEF Onward
  <2> QED BY <2>1 DEF OnceEach, LastingOK, Lasting, ReadOK, Ahead, Idle, Working, Loaded, Cur
<1>2. CASE ~(q.todo = {} /\ q.left = {})
  <2> DEFINE new == [q EXCEPT !.pc = "next", !.cur = NoSync]
  <2>1. /\ new.pc = "next" /\ new.cur = NoSync /\ new.todo = q.todo /\ new.left = q.left
        /\ new.status = q.status /\ new.stale = q.stale /\ req'[r] = new
    BY <1>2 DEF Onward, Request
  <2> HIDE DEF new
  <2>2. Ahead(r)' = q.todo /\ q.todo \subseteq Ahead(r)
    BY <2>1 DEF Ahead, Working
  <2>3. \A c \in q.todo : status[c] # "none" /\ Untouched(c)
    BY <2>2 DEF OnceEach
  <2>4. OnceEach(r)'
    BY <2>1, <2>2, <2>3 DEF OnceEach, Untouched, Working
  <2>5. LastingOK(r)'
    BY <2>1 DEF LastingOK, Lasting, Loaded, Cur
  <2>6. ReadOK(r)'
    BY <2>1, <2>2, <2>3 DEF ReadOK, Untouched
  <2> QED BY <2>4, <2>5, <2>6
<1> QED BY <1>1, <1>2

LEMMA EnrichRaisesReads ==
    ASSUME IInv, IInv', ReadInv, NEW r \in Req, EnrichRaises(r)
    PROVE  ReadInv'
<1>1. PICK bare \in (SUBSET NewTxns(Cur(r))) \ {{}} :
        Step(r, Onward([req[r] EXCEPT !.left = @ \cup {[Cur(r) EXCEPT !.bare = bare]}]))
  BY DEF EnrichRaises
<1> DEFINE kept == [Cur(r) EXCEPT !.bare = bare]
           q    == [req[r] EXCEPT !.left = req[r].left \cup {kept}]
<1>2. /\ req[r] \in Request /\ Cur(r) \in Sync /\ Cur(r).snap \in Version
      /\ OnceEach(r) /\ LastingOK(r) /\ ReadOK(r)
      /\ req[r].pc = "commit"
  BY WhatIsRead DEF EnrichRaises, ReqInv, Fetched, Working, Cur
<1>3. bare \in SUBSET Txn
  BY <1>1, <1>2, FeedAssumption DEF NewTxns, Snapshot
<1>4. /\ kept \in Sync /\ kept.conn = At(r) /\ kept.snap = Cur(r).snap
      /\ kept.balance = Cur(r).balance
  BY <1>2, <1>3 DEF Sync, At
<1>5. /\ q \in Request /\ q.left = req[r].left \cup {kept} /\ q.todo = req[r].todo
      /\ q.status = req[r].status /\ q.stale = req[r].stale
  BY <1>2, <1>4 DEF Request
<1>6. UNCHANGED <<bank, status, balance, holdings, history>>
  BY DEF EnrichRaises, db, rows
<1>7. Step(r, Onward(q)) /\ req'[r] = Onward(q)
  BY <1>1, <1>2 DEF Step, IInv, TypeOK, Request
<1> HIDE DEF q, kept
<1>8. \A s \in q.left : s.conn \notin q.todo /\ Lasting(s, Loaded, "commit")'
  <2>1. At(r) \notin req[r].todo /\ \A s \in req[r].left : s.conn \notin req[r].todo
    BY <1>2 DEF OnceEach, Ahead, Working
  <2>2. \A s \in req[r].left : Lasting(s, Loaded, "commit")
    BY <1>2 DEF LastingOK
  <2>3. Lasting(kept, Loaded, "commit")
    BY <1>2, <1>4 DEF LastingOK, Lasting, At
  <2> QED BY <1>4, <1>5, <1>6, <2>1, <2>2, <2>3 DEF Lasting
<1>9. OnceEach(r)' /\ LastingOK(r)' /\ ReadOK(r)'
  BY <1>2, <1>5, <1>6, <1>7, <1>8, OnwardReads DEF Untouched
<1> QED BY <1>7, <1>9, LocalReads DEF EnrichRaises, db

LEMMA NotifyReads ==
    ASSUME IInv, IInv', ReadInv, NEW r \in Req, Notify(r)
    PROVE  ReadInv'
<1>1. /\ req[r] \in Request /\ OnceEach(r) /\ LastingOK(r) /\ ReadOK(r)
  BY WhatIsRead
<1>2. /\ req[r].pc = "notify" /\ Step(r, Onward(req[r])) /\ req'[r] = Onward(req[r])
      /\ UNCHANGED <<bank, status, rows>>
  BY DEF Notify, Step, IInv, TypeOK
<1>3. UNCHANGED <<bank, status, balance, holdings, history>>
  BY <1>2 DEF rows
<1>4. \A s \in req[r].left : s.conn \notin req[r].todo /\ Lasting(s, Loaded, "commit")'
  BY <1>1, <1>3 DEF OnceEach, LastingOK, Lasting, Ahead
<1>5. OnceEach(r)' /\ LastingOK(r)' /\ ReadOK(r)'
  BY <1>1, <1>2, <1>3, <1>4, OnwardReads DEF Untouched
<1> QED BY <1>2, <1>5, LocalReads

LEMMA CrashReads ==
    ASSUME IInv, IInv', ReadInv, Crash
    PROVE  ReadInv'
<1>1. ShownIsImported' /\ NothingYet' /\ Served'
  BY DEF Crash, ReadInv, ShownIsImported, NothingYet, Served, Live, db, rows
<1>2. \A r \in Req : OnceEach(r)' /\ LastingOK(r)' /\ ReadOK(r)'
  BY IdleReads DEF Crash
<1> QED BY <1>1, <1>2 DEF ReadInv

LEMMA PublishReads ==
    ASSUME IInv, IInv', ReadInv, NEW c \in Conn, BankPublishes(c)
    PROVE  ReadInv'
<1>1. /\ bank[c] # 0 /\ bank' = [bank EXCEPT ![c] = @ + 1]
      /\ UNCHANGED <<status, balance, holdings, history, req>>
  BY DEF BankPublishes, CsvConn, db, rows
<1>2. \A d \in Conn : bank[d] \in Nat /\ (bank'[d] = bank[d] \/ (d = c /\ bank'[d] = bank[d] + 1))
  BY <1>1 DEF IInv, TypeOK, Version
<1>3. ShownIsImported' /\ NothingYet'
  BY <1>1 DEF ReadInv, ShownIsImported, NothingYet, Live
<1>4. Served'
  BY <1>1, <1>2 DEF ReadInv, Served, IInv, TypeOK, Version
<1>5. ASSUME NEW q \in Req PROVE OnceEach(q)' /\ LastingOK(q)' /\ ReadOK(q)'
  <2>1. Keeps /\ \A d \in Conn : Untouched(d)
    BY <1>1, <1>2 DEF Keeps, Untouched
  <2>2. Ahead(q) \subseteq Conn
    BY WhatIsRead
  <2> QED BY <1>1, <2>1, <2>2, OthersRead
<1> QED BY <1>3, <1>4, <1>5 DEF ReadInv

\* A deleted connection is shown to nobody and may be read as one likes.
LEMMA WipeReads ==
    ASSUME IInv, IInv', ReadInv, NEW c \in Conn, WipeHousehold(c)
    PROVE  ReadInv'
<1>1. /\ status' = [status EXCEPT ![c] = "deleted"]
      /\ balance' = [balance EXCEPT ![c] = NoRow]
      /\ holdings' = [holdings EXCEPT ![c] = {}]
      /\ UNCHANGED <<bank, history, req>>
      /\ status[c] \in StoredStatus
  BY DEF WipeHousehold, Live
<1>2. /\ status'[c] = "deleted"
      /\ \A d \in Conn \ {c} : status'[d] = status[d] /\ Untouched(d)
  BY <1>1 DEF IInv, TypeOK, Untouched
<1>3. ShownIsImported' /\ NothingYet' /\ Served'
  BY <1>1, <1>2 DEF ReadInv, ShownIsImported, NothingYet, Served, Live, StoredStatus, Untouched
<1>4. Keeps
  BY <1>1, <1>2 DEF Keeps, Untouched, StoredStatus, IInv, TypeOK, Version
<1>5. ASSUME NEW q \in Req PROVE OnceEach(q)' /\ LastingOK(q)' /\ ReadOK(q)'
  <2>1. \A d \in Ahead(q) \ req'[q].stale : status'[d] \in StoredStatus => Untouched(d)
    BY <1>2, WhatIsRead DEF StoredStatus
  <2> QED BY <1>1, <1>4, <2>1, OthersRead
<1> QED BY <1>3, <1>5 DEF ReadInv

\* A step that commits what a session has flushed: of a connection it leaves alone it
\* changes nothing, and whoever reads one it writes is told.
LEMMA CommitReads ==
    ASSUME IInv, IInv', ReadInv, NEW r \in Req, NEW new, NEW C \in SUBSET Conn,
           NEW S \in SUBSET Sync, Committable(S), CommitRows(S), ConnsOf(S) \subseteq C,
           SameLife, \A c \in Conn \ C : status'[c] = status[c],
           \A c \in Conn : status'[c] = "active" => status[c] = "active" \/ Of(S, c) # {},
           \A s \in S : Lasting(s, Loaded, "commit"),
           StepAndPublish(r, C, new), UNCHANGED <<bank, notified>>,
           OnceEach(r)', LastingOK(r)', ReadOK(r)'
    PROVE  ReadInv'
<1>1. ASSUME NEW c \in Conn
      PROVE  /\ history'[c] = history[c] \cup {s.snap : s \in Of(S, c)}
             /\ holdings'[c] \subseteq
                  holdings[c] \cup UNION {Feed[s.snap].holdings : s \in Of(S, c)}
             /\ \/ balance'[c] = balance[c] /\ \A s \in Of(S, c) : ~ WritesAccount(s)
                \/ \E s \in Of(S, c) : balance'[c] = Feed[s.snap].balance
  <2>1. history'[c] = history[c] \cup {s.snap : s \in Of(S, c)}
    BY DEF CommitRows
  <2>2. holdings'[c] \subseteq holdings[c] \cup UNION {Feed[s.snap].holdings : s \in Of(S, c)}
    <3>1. holdings'[c] \subseteq holdings[c] \cup UNION {NewHoldings(s) : s \in Of(S, c)}
      BY DEF CommitRows
    <3>2. \A s \in Of(S, c) : NewHoldings(s) \subseteq Feed[s.snap].holdings
      BY DEF NewHoldings
    <3> QED BY <3>1, <3>2
  <2>3. CASE \A s \in Of(S, c) : ~ WritesAccount(s)
    <3>1. balance'[c] = balance[c]
      BY <2>3 DEF CommitRows
    <3> QED BY <2>1, <2>2, <2>3, <3>1
  <2>4. CASE \E s \in Of(S, c) : WritesAccount(s)
    <3> DEFINE w == CHOOSE s \in Of(S, c) : WritesAccount(s)
    <3>1. w \in Of(S, c)
      BY <2>4
    <3>2. balance'[c] = Feed[w.snap].balance
      BY <2>4 DEF CommitRows
    <3> HIDE DEF w
    <3> QED BY <2>1, <2>2, <3>1, <3>2
  <2> QED BY <2>3, <2>4
<1>2. ASSUME NEW s \in S
      PROVE  /\ s.conn \in Conn /\ status[s.conn] \in StoredStatus /\ s.snap \in Version
             /\ Feed[s.snap].balance \in Balance
             /\ bank[s.conn] # 0 => s.snap <= bank[s.conn]
             /\ s.balance # NoRow => balance[s.conn] # NoRow
  BY FeedAssumption DEF Committable, Snapshot, Lasting, Loaded
<1>3. ASSUME NEW c \in Conn \ C
      PROVE  Of(S, c) = {} /\ Untouched(c)
  <2>1. Of(S, c) = {}
    BY DEF Of, ConnsOf
  <2> QED BY <2>1 DEF CommitRows, Untouched
<1>4. ShownIsImported'
  <2> SUFFICES ASSUME NEW c \in Conn, status'[c] \in StoredStatus
               PROVE  /\ status'[c] = "active" => history'[c] # {}
                      /\ balance'[c] = NoRow <=> history'[c] = {}
                      /\ balance'[c] # NoRow => \E v \in history'[c] : balance'[c] = Feed[v].balance
                      /\ holdings'[c] \subseteq UNION {Feed[v].holdings : v \in history'[c]}
    BY DEF ShownIsImported, Live
  <2>1. /\ status[c] = "active" => history[c] # {}
        /\ balance[c] = NoRow <=> history[c] = {}
        /\ balance[c] # NoRow => \E v \in history[c] : balance[c] = Feed[v].balance
        /\ holdings[c] \subseteq UNION {Feed[v].holdings : v \in history[c]}
    BY DEF SameLife, ReadInv, ShownIsImported, Live
  <2>2. CASE Of(S, c) = {}
    BY <1>1, <2>1, <2>2
  <2>3. CASE Of(S, c) # {}
    <3>1. PICK s \in Of(S, c) : TRUE
      BY <2>3
    <3>2. s \in S /\ s.conn = c /\ s.snap \in history'[c]
      BY <1>1, <3>1 DEF Of
    <3>3. holdings'[c] \subseteq UNION {Feed[v].holdings : v \in history'[c]}
      BY <1>1, <2>1
    <3>4. \E v \in history'[c] : balance'[c] = Feed[v].balance /\ balance'[c] # NoRow
      <4>1. CASE balance'[c] = balance[c] /\ \A t \in Of(S, c) : ~ WritesAccount(t)
        <5>1. s.balance = Feed[s.snap].balance
          BY <3>1, <4>1 DEF WritesAccount
        <5>2. balance[c] # NoRow
          BY <1>2, <3>2, <5>1, ConstAssumption
        <5> QED BY <1>1, <2>1, <4>1, <5>2
      <4>2. CASE \E t \in Of(S, c) : balance'[c] = Feed[t.snap].balance
        <5>1. PICK t \in Of(S, c) : balance'[c] = Feed[t.snap].balance
          BY <4>2
        <5>2. t \in S /\ t.snap \in history'[c]
          BY <1>1 DEF Of
        <5> QED BY <1>2, <5>1, <5>2, ConstAssumption
      <4> QED BY <1>1, <4>1, <4>2
    <3> QED BY <3>2, <3>3, <3>4
  <2> QED BY <2>2, <2>3
<1>5. NothingYet'
  <2> SUFFICES ASSUME NEW c \in Conn, status'[c] = "none"
               PROVE  balance'[c] = NoRow /\ holdings'[c] = {}
    BY DEF NothingYet
  <2>1. status[c] = "none"
    BY DEF SameLife, StoredStatus
  <2>2. Of(S, c) = {}
    BY <1>2, <2>1 DEF Of, StoredStatus
  <2> QED BY <2>1, <2>2 DEF CommitRows, ReadInv, NothingYet
<1>6. Served'
  <2> SUFFICES ASSUME NEW c \in Conn, bank[c] # 0, NEW v \in history'[c]
               PROVE  v <= bank[c]
    BY DEF Served
  <2>1. \A s \in Of(S, c) : s \in S /\ s.conn = c
    BY DEF Of
  <2> QED BY <1>1, <1>2, <2>1 DEF ReadInv, Served
<1>7. Keeps
  <2> SUFFICES ASSUME NEW c \in Conn
               PROVE  /\ status[c] # "none" => status'[c] # "none"
                      /\ status'[c] \in StoredStatus /\ status[c] # "none" =>
                           status[c] \in StoredStatus
                      /\ bank'[c] # 0 => bank[c] # 0 /\ bank[c] <= bank'[c]
                      /\ status'[c] \in StoredStatus /\ balance[c] # NoRow => balance'[c] # NoRow
    BY DEF Keeps
  <2>1. bank'[c] # 0 => bank[c] # 0 /\ bank[c] <= bank'[c]
    BY DEF IInv, TypeOK, Version
  <2>2. balance[c] # NoRow => balance'[c] # NoRow
    <3>1. \A s \in Of(S, c) : s \in S
      BY DEF Of
    <3> QED BY <1>1, <1>2, <3>1, ConstAssumption
  <2> QED BY <2>1, <2>2 DEF SameLife, StoredStatus
<1>8. ASSUME NEW q \in Req \ {r} PROVE OnceEach(q)' /\ LastingOK(q)' /\ ReadOK(q)'
  <2> DEFINE X == req[q].stale \cup (C \cap (req[q].todo \cup {At(q)}))
  <2>1. req'[q] = [req[q] EXCEPT !.stale = X] /\ req[q] \in Request /\ Ahead(q) \subseteq Conn
    BY WhatIsRead DEF StepAndPublish
  <2>2. /\ req'[q].pc = req[q].pc /\ req'[q].cur = req[q].cur /\ req'[q].todo = req[q].todo
        /\ req'[q].left = req[q].left /\ req'[q].status = req[q].status /\ req'[q].stale = X
    BY <2>1 DEF Request
  <2>3. \A c \in Ahead(q) \ req'[q].stale : Untouched(c)
    BY <1>3, <2>1, <2>2 DEF Ahead
  <2> QED BY <1>7, <2>2, <2>3, OthersRead
<1> QED BY <1>4, <1>5, <1>6, <1>8 DEF ReadInv

\* What an open session has flushed may be committed.
LEMMA FlushedReads ==
    ASSUME IInv, ReadInv, NEW r \in Req
    PROVE  LET S == req[r].left IN
           /\ S \in SUBSET Sync /\ Committable(S) /\ ConnsOf(S) \in SUBSET Conn
           /\ ConnsOf(S) \cap Ahead(r) = {}
           /\ \A s \in S : Lasting(s, Loaded, "commit")
<1>1. /\ req[r] \in Request /\ ReqInv(req[r], status, ledger) /\ OnceEach(r) /\ LastingOK(r)
  BY WhatIsRead
<1> QED BY <1>1 DEF Request, ReqInv, Committable, ConnsOf, OnceEach, LastingOK

\* Of a connection no committed sync is of, nothing changes but perhaps its status.
LEMMA UncommittedRows ==
    ASSUME NEW S, CommitRows(S), NEW c \in Conn, c \notin ConnsOf(S)
    PROVE  balance'[c] = balance[c] /\ holdings'[c] = holdings[c] /\ history'[c] = history[c]
<1>1. Of(S, c) = {}
  BY DEF Of, ConnsOf
<1> QED BY <1>1 DEF CommitRows

\* The request that committed goes on to what is ahead of it, which it left alone.
LEMMA CommittedOnwardReads ==
    ASSUME IInv, ReadInv, NEW r \in Req, req[r].pc # "idle",
           req'[r] = Onward([req[r] EXCEPT !.left = {}]),
           \A c \in req[r].todo : Untouched(c)
    PROVE  OnceEach(r)' /\ LastingOK(r)' /\ ReadOK(r)'
<1> DEFINE q == [req[r] EXCEPT !.left = {}]
<1>1. /\ q \in Request /\ q.todo = req[r].todo /\ q.status = req[r].status
      /\ q.stale = req[r].stale /\ q.left = {}
      /\ OnceEach(r) /\ ReadOK(r)
  BY WhatIsRead DEF Request
<1> HIDE DEF q
<1>2. req'[r] = Onward(q)
  BY DEF q
<1> QED BY <1>1, <1>2, OnwardReads

LEMMA FetchFailsReads ==
    ASSUME IInv, IInv', ReadInv, NEW r \in Req, FetchFails(r)
    PROVE  ReadInv'
<1> DEFINE c    == At(r)
           sent == req[r].status[c] # "error"
           S    == req[r].left
           C    == ConnsOf(S) \cup (IF sent THEN {c} ELSE {})
           new  == Onward([req[r] EXCEPT !.left = {}])
<1>1. /\ req[r] \in Request /\ c \in Conn /\ req[r].pc = "fetch" /\ OnceEach(r)
      /\ req[r].todo \subseteq Conn
  BY WhatIsRead DEF FetchFails, ReqInv, Working, At, Cur
<1>2. CASE sent /\ c \notin Live
  BY <1>2, AbortReads DEF FetchFails
<1>3. CASE ~(sent /\ c \notin Live)
  <2>1. /\ status' = IF sent THEN [status EXCEPT ![c] = "error"] ELSE status
        /\ CommitRows(S)
        /\ StepAndPublish(r, C, new)
        /\ UNCHANGED <<bank, notified>>
    BY <1>3 DEF FetchFails
  <2>2. /\ S \in SUBSET Sync /\ Committable(S) /\ C \in SUBSET Conn
        /\ C \cap req[r].todo = {} /\ \A s \in S : Lasting(s, Loaded, "commit")
    BY <1>1, FlushedReads DEF OnceEach, Ahead, Working
  <2>3. /\ SameLife /\ \A d \in Conn \ C : status'[d] = status[d]
        /\ \A d \in Conn : status'[d] = "active" => status[d] = "active"
    BY <2>1, <1>1, <1>3 DEF IInv, TypeOK, Status, SameLife, Live, StoredStatus
  <2>4. \A d \in Conn \ C : Untouched(d)
    BY <2>1, <2>3, UncommittedRows DEF Untouched
  <2>5. req'[r] = new
    BY <2>1 DEF StepAndPublish
  <2>6. OnceEach(r)' /\ LastingOK(r)' /\ ReadOK(r)'
    BY <1>1, <2>2, <2>4, <2>5, CommittedOnwardReads
  <2>7. ConnsOf(S) \subseteq C
    OBVIOUS
  <2> HIDE DEF S, C, new
  <2> QED BY <2>1, <2>2, <2>3, <2>6, <2>7, CommitReads
<1> QED BY <1>2, <1>3

LEMMA RecordSyncMineReads ==
    ASSUME IInv, IInv', ReadInv, NEW r \in Req, RecordSyncMine(r)
    PROVE  ReadInv'
<1> DEFINE S == req[r].left
<1>1. /\ CommitRows(S) /\ StepAndPublish(r, ConnsOf(S), Idle)
      /\ UNCHANGED <<bank, notified>> /\ UNCHANGED status
  BY DEF RecordSyncMine
<1>2. /\ S \in SUBSET Sync /\ Committable(S) /\ ConnsOf(S) \in SUBSET Conn
      /\ \A s \in S : Lasting(s, Loaded, "commit")
  BY FlushedReads
<1>3. OnceEach(r)' /\ LastingOK(r)' /\ ReadOK(r)'
  BY <1>1, IdleReads DEF StepAndPublish
<1>4. SameLife
  BY <1>1 DEF SameLife
<1> HIDE DEF S
<1> QED BY <1>1, <1>2, <1>3, <1>4, CommitReads

LEMMA CommitActionReads ==
    ASSUME IInv, IInv', ReadInv, NEW r \in Req, Commit(r)
    PROVE  ReadInv'
<1> DEFINE c   == At(r)
           S   == req[r].left \cup {Cur(r)}
           new == IF req[r].kind = "nightly"
                    THEN [req[r] EXCEPT !.pc = "notify", !.left = {}]
                    ELSE Onward([req[r] EXCEPT !.left = {}])
<1>1. /\ req[r] \in Request /\ Cur(r) \in Sync /\ c \in Conn /\ Cur(r).conn = c
      /\ Cur(r).snap \in Version /\ status[c] \in StoredStatus
      /\ req[r].pc = "commit" /\ c \notin req[r].todo
      /\ Cur(r).txns \subseteq ledger[c] /\ Lasting(Cur(r), Loaded, "commit")
      /\ OnceEach(r) /\ ReadOK(r) /\ req[r].todo \subseteq Conn
  BY WhatIsRead DEF Commit, Live, ReqInv, OnceEach, LastingOK, Working, Fetched, At, Cur,
                    StoredStatus
<1>2. /\ status' = IF req[r].status[c] = "active" THEN status
                   ELSE [status EXCEPT ![c] = "active"]
      /\ CommitRows(S)
      /\ StepAndPublish(r, ConnsOf(S), new)
      /\ UNCHANGED <<bank, notified>>
  BY DEF Commit
<1>3. S \in SUBSET Sync /\ Committable(S) /\ \A s \in S : Lasting(s, Loaded, "commit")
  BY <1>1, FlushedReads DEF Committable
<1>4. ConnsOf(S) \in SUBSET Conn /\ ConnsOf(S) \cap req[r].todo = {} /\ c \in ConnsOf(S)
  BY <1>1, FlushedReads DEF ConnsOf, OnceEach, Ahead
<1>5. /\ SameLife /\ \A d \in Conn \ ConnsOf(S) : status'[d] = status[d]
      /\ \A d \in Conn : status'[d] = "active" => status[d] = "active" \/ d = c
      /\ Of(S, c) # {}
  BY <1>1, <1>2, <1>4 DEF IInv, TypeOK, SameLife, StoredStatus, Of
<1>6. \A d \in Conn \ ConnsOf(S) : Untouched(d)
  BY <1>2, <1>5, UncommittedRows DEF Untouched
<1>7. req'[r] = new
  BY <1>2 DEF StepAndPublish
<1>8. OnceEach(r)' /\ LastingOK(r)' /\ ReadOK(r)'
  <2>1. CASE req[r].kind = "nightly"
    <3>1. /\ req'[r].pc = "notify" /\ req'[r].left = {} /\ req'[r].cur = req[r].cur
          /\ req'[r].todo = req[r].todo /\ req'[r].status = req[r].status
          /\ req'[r].stale = req[r].stale
      BY <1>1, <1>7, <2>1 DEF Request
    <3>2. Ahead(r)' = Ahead(r) /\ Ahead(r) = req[r].todo \cup {c} /\ At(r)' = c /\ Cur(r)' = Cur(r)
      BY <1>1, <3>1 DEF Ahead, Working, At, Cur
    <3>3. \A d \in req[r].todo : Untouched(d)
      BY <1>1, <1>4, <1>6
    <3>4. status'[c] # "none"
      BY <1>1, <1>5 DEF SameLife, StoredStatus
    <3>5. OnceEach(r)'
      BY <1>1, <3>1, <3>2, <3>3, <3>4 DEF OnceEach, Untouched
    <3>6. LastingOK(r)'
      BY <3>1 DEF LastingOK, Lasting, Loaded
    <3>7. ReadOK(r)'
      BY <1>1, <3>1, <3>2, <3>3 DEF ReadOK, Untouched, Loaded
    <3> QED BY <3>5, <3>6, <3>7
  <2>2. CASE req[r].kind # "nightly"
    <3>1. req'[r] = Onward([req[r] EXCEPT !.left = {}]) /\ \A d \in req[r].todo : Untouched(d)
      BY <1>1, <1>4, <1>6, <1>7, <2>2
    <3> QED BY <1>1, <3>1, CommittedOnwardReads
  <2> QED BY <2>1, <2>2
<1> HIDE DEF S, new
<1>9. \A d \in Conn : status'[d] = "active" => status[d] = "active" \/ Of(S, d) # {}
  BY <1>5
<1> QED BY <1>2, <1>3, <1>4, <1>5, <1>8, <1>9, CommitReads

LEMMA WorkReads ==
    ASSUME IInv, IInv', ReadInv, NEW r \in Req, Work(r)
    PROVE  ReadInv'
<1>1. CASE DeadlockVictim(r) \/ EnrichFails(r) \/ CommitGone(r)
  BY <1>1, AbortReads DEF DeadlockVictim, EnrichFails, CommitGone
<1> QED BY <1>1, PickReads, FetchOkReads, FetchFailsReads, LoadAccountReads, WriteReads,
           EnrichRaisesReads, RecordSyncMineReads, CommitActionReads, NotifyReads DEF Work

\* A sync that nobody overlapped: what its session loaded is what is stored, and of
\* the connection there is nothing else it commits.
LEMMA CleanCommit ==
    ASSUME IInv, ReadInv, NEW r \in Req, Commit(r), At(r) \notin req[r].stale
    PROVE  LET c == At(r)
               snapshot == Feed[Cur(r).snap] IN
           /\ status'[c] = "active"
           /\ balance'[c] = snapshot.balance
           /\ holdings'[c] = snapshot.holdings
           /\ snapshot.txns \subseteq ledger'[c]
           /\ \A v \in history[c] : v <= Cur(r).snap
<1> DEFINE c == At(r)
           S == req[r].left \cup {Cur(r)}
           snapshot == Feed[Cur(r).snap]
<1>1. /\ Cur(r) \in Sync /\ c \in Conn /\ Cur(r).conn = c /\ Cur(r).snap \in Version
      /\ status[c] \in StoredStatus /\ req[r].pc = "commit" /\ c \notin req[r].todo
      /\ c \in Ahead(r) /\ Cur(r).txns \subseteq ledger[c] /\ ReadOK(r)
  BY WhatIsRead DEF Commit, Live, ReqInv, OnceEach, Ahead, Working, Fetched, At, Cur,
                    StoredStatus
<1>2. /\ req[r].status[c] = status[c] /\ \A v \in history[c] : v <= Cur(r).snap
      /\ Cur(r).balance = balance[c] /\ Cur(r).holdings = holdings[c]
  BY <1>1 DEF ReadOK, Loaded, Cur
<1>3. /\ status' = IF req[r].status[c] = "active" THEN status
                   ELSE [status EXCEPT ![c] = "active"]
      /\ CommitRows(S)
  BY DEF Commit
<1>4. Of(S, c) = {Cur(r)}
  BY <1>1, FlushedReads DEF Of, ConnsOf
<1>5. status'[c] = "active"
  BY <1>1, <1>2, <1>3 DEF IInv, TypeOK
<1>6. balance'[c] = snapshot.balance
  <2>1. CASE WritesAccount(Cur(r))
    <3>1. (CHOOSE s \in Of(S, c) : WritesAccount(s)) = Cur(r)
      BY <1>4, <2>1
    <3> QED BY <1>1, <1>3, <1>4, <2>1, <3>1 DEF CommitRows
  <2>2. CASE ~ WritesAccount(Cur(r))
    <3>1. balance'[c] = balance[c]
      BY <1>1, <1>3, <1>4, <2>2 DEF CommitRows
    <3> QED BY <1>2, <2>2, <3>1 DEF WritesAccount
  <2> QED BY <2>1, <2>2
<1>7. holdings'[c] = (holdings[c] \cup NewHoldings(Cur(r))) \ GoneHoldings(Cur(r))
  BY <1>1, <1>3, <1>4 DEF CommitRows
<1>8. holdings'[c] = snapshot.holdings
  BY <1>2, <1>7 DEF NewHoldings, GoneHoldings
<1>9. ledger'[c] = ledger[c] \cup NewTxns(Cur(r))
  BY <1>1, <1>3, <1>4 DEF CommitRows
<1>10. snapshot.txns \subseteq ledger'[c]
  BY <1>1, <1>9 DEF NewTxns
<1> QED BY <1>2, <1>5, <1>6, <1>8, <1>10

LEMMA InitReads == Init => ReadInv
<1> SUFFICES ASSUME Init PROVE ReadInv
  OBVIOUS
<1>1. ShownIsImported /\ NothingYet /\ Served
  BY DEF Init, ShownIsImported, NothingYet, Served, Live, StoredStatus
<1>2. ASSUME NEW r \in Req PROVE OnceEach(r) /\ LastingOK(r) /\ ReadOK(r)
  <2>1. req[r] = Idle
    BY DEF Init
  <2>2. Ahead(r) = {}
    BY <2>1 DEF Ahead, Idle, Working
  <2> QED BY <2>1, <2>2 DEF OnceEach, LastingOK, Lasting, ReadOK, Idle, Working, Loaded, Cur
<1> QED BY <1>1, <1>2 DEF ReadInv

LEMMA NextReads == IInv /\ IInv' /\ ReadInv /\ [Next]_vars => ReadInv'
<1> SUFFICES ASSUME IInv, IInv', ReadInv, [Next]_vars PROVE ReadInv'
  OBVIOUS
<1>1. CASE UNCHANGED vars
  BY <1>1 DEF ReadInv, ShownIsImported, NothingYet, Served, Live, OnceEach, LastingOK,
              Lasting, ReadOK, Ahead, At, Cur, vars
<1>2. ASSUME NEW r \in Req, Start(r) \/ Work(r)
      PROVE  ReadInv'
  BY <1>2, StartReads, WorkReads
<1>3. ASSUME NEW c \in Conn, BankPublishes(c) \/ WipeHousehold(c)
      PROVE  ReadInv'
  BY <1>3, PublishReads, WipeReads
<1> QED BY <1>1, <1>2, <1>3, CrashReads DEF Next

LEMMA ReadsInductive == Spec => []ReadInv
<1>1. Init => ReadInv
  BY InitReads
<1>2. IInv /\ IInv' /\ ReadInv /\ [Next]_vars => ReadInv'
  BY NextReads
<1> QED BY <1>1, <1>2, Inductive, PTL DEF Spec

\* What the user is shown of a stored connection came from committed snapshots, however
\* many sessions have loaded it, failed after a flush, or raced the household's deletion.
THEOREM ShownCorrect == Spec => []ShownIsImported
<1>1. ReadInv => ShownIsImported
  BY DEF ReadInv
<1> QED BY <1>1, ReadsInductive, PTL

\* A sync no other request overlapped makes the connection mirror its snapshot, and
\* never takes it back to an older one.
THEOREM CleanCommitCorrect == Spec => CleanCommitMirrorsBank
<1>1. IInv /\ ReadInv =>
        [\A r \in Req :
           Commit(r) /\ At(r) \notin req[r].stale =>
              LET c == At(r)
                  snapshot == Feed[Cur(r).snap] IN
              /\ status'[c] = "active"
              /\ balance'[c] = snapshot.balance
              /\ holdings'[c] = snapshot.holdings
              /\ snapshot.txns \subseteq ledger'[c]
              /\ \A v \in history[c] : v <= Cur(r).snap]_vars
  BY CleanCommit
<1> QED BY <1>1, Inductive, ReadsInductive, PTL DEF CleanCommitMirrorsBank
=============================================================================
