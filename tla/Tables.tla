------------------------------- MODULE Tables -------------------------------
(***************************************************************************)
(* Database sessions: what an AsyncSession of SQLAlchemy does with rows of *)
(* PostgreSQL under READ COMMITTED.  One session per request.              *)
(*                                                                         *)
(* Sources: backend/app/core/database.py, and the unique keys of the       *)
(* models; the rest is the behaviour of SQLAlchemy and PostgreSQL that the *)
(* code relies on.                                                         *)
(*                                                                         *)
(* A row is a record of columns, or NoRow.  A change is first pending in   *)
(* the session (want), is sent by a flush, which locks the row until the   *)
(* transaction ends (held), and is seen by others when it is stored (db).  *)
(***************************************************************************)
EXTENDS Naturals, FiniteSets

CONSTANTS
    Req,      \* requests, each with its session
    Row,      \* the rows that may exist, named by their unique key
    NoRow

VARIABLES db, want, held

session == <<db, want, held>>

Nothing == [row \in {} |-> NoRow]

\* A pending change: what the session loaded, and what it is to become.
Change(was, new) == [was |-> was, new |-> new]

\* The changes to rows, from what the session loaded to new[row]; none where they agree.
Changes(rows, was, new) ==
    [row \in {x \in rows : was[x] # new[x]} |-> Change(was[row], new[row])]

\* The change of one row.
Becomes(row, was, new) ==
    Changes({row}, [x \in {row} |-> was], [x \in {row} |-> new])

\* What a SELECT by session r finds.
Sees(r) == [row \in Row |-> IF row \in DOMAIN held[r] THEN held[r][row] ELSE db[row]]

Clean(r) == want[r] = Nothing

\* Only the columns that differ from what was loaded are sent.
Sent(change, now) ==
    IF now = NoRow \/ change.new = NoRow THEN change.new
    ELSE [f \in DOMAIN now |->
            IF change.was[f] = change.new[f] THEN now[f] ELSE change.new[f]]

\* An INSERT whose key is taken (IntegrityError), an UPDATE whose row is gone
\* (StaleDataError).  A DELETE that finds nothing is no error.
Clash(change, now) ==
    \/ change.was = NoRow /\ now # NoRow
    \/ change.was # NoRow /\ now = NoRow /\ change.new # NoRow

Locked(r, row) == \E q \in Req \ {r} : row \in DOMAIN held[q]

\* A flush sends one pending change; which is next is up to the unit of work.
Flush(r) ==
    \E row \in DOMAIN want[r] :
        LET change == want[r][row] IN
        /\ ~ Locked(r, row)
        /\ ~ Clash(change, Sees(r)[row])
        /\ held' = [held EXCEPT ![r] =
                      [x \in DOMAIN @ \cup {row} |->
                         IF x = row THEN Sent(change, Sees(r)[row]) ELSE @[x]]]
        /\ want' = [want EXCEPT ![r] = [x \in DOMAIN @ \ {row} |-> @[x]]]
        /\ UNCHANGED db

\* The session is closed without a commit.
Rollback(r) ==
    /\ want' = [want EXCEPT ![r] = Nothing]
    /\ held' = [held EXCEPT ![r] = Nothing]
    /\ UNCHANGED db

\* The statement fails, and the request with it.
FlushFails(r) ==
    /\ \E row \in DOMAIN want[r] :
         ~ Locked(r, row) /\ Clash(want[r][row], Sees(r)[row])
    /\ Rollback(r)

BlockedBy(r, q) == q # r /\ DOMAIN want[r] \cap DOMAIN held[q] # {}

\* PostgreSQL cancels a statement that waits, through others, for its own transaction.
DeadlockVictim(r) ==
    /\ \A S \in SUBSET Req :
         (\A q \in S \cup {r}, p \in Req : BlockedBy(q, p) => p \in S) => r \in S
    /\ Rollback(r)

\* Pending changes of session r.
Pend(r, changes) ==
    /\ want' = [want EXCEPT ![r] = changes]
    /\ UNCHANGED <<db, held>>

\* COMMIT, when everything is flushed.
Store(r) ==
    /\ Clean(r)
    /\ db'   = Sees(r)
    /\ held' = [held EXCEPT ![r] = Nothing]
    /\ UNCHANGED want

\* No row is locked by two sessions.
LocksExclude ==
    \A r, q \in Req : r # q => DOMAIN held[r] \cap DOMAIN held[q] = {}
=============================================================================
