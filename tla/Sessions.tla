------------------------------ MODULE Sessions ------------------------------
(***************************************************************************)
(* The sessions of one user: refresh tokens that are issued at sign-in,    *)
(* exchanged, revoked one by one or all at once, by concurrent requests.   *)
(*                                                                         *)
(* Sources: backend/app/auth/{service,router,password_reset}.py.           *)
(*                                                                         *)
(* row is what is committed.  A write that meets a row another transaction *)
(* is writing waits for that to commit, so a transaction's writes and its  *)
(* commit are one step, whose guard and values come from earlier ones.     *)
(***************************************************************************)
EXTENDS FiniteSets

CONSTANTS
    Token, Req, NoToken

ASSUME TokenAssumption == NoToken \notin Token

VARIABLES
    row,           \* row[t]: the row of auth_sessions with the hash of t
    parent,        \* observer: the token t was issued for
    swept,         \* observer: the tokens a revocation of all sessions revoked
    req            \* the requests

tables == <<row, parent, swept>>
server == <<tables, req>>

Kind == {"none", "login", "refresh", "logout", "all"}
Pc   == {"idle", "find", "insert", "update", "snapshot", "revoke", "done"}

\* todo: the sessions a revocation of all has found.  answer, ok: the response.
\* known, reused (observers): the tokens there were when a revocation of all came, and
\* whether the token presented was revoked when the request came.
Request == [pc : Pc, kind : Kind, token : Token \cup {NoToken}, todo : SUBSET Token,
            answer : Token \cup {NoToken}, ok : BOOLEAN,
            known : SUBSET Token, reused : BOOLEAN]

Idle == [pc |-> "idle", kind |-> "none", token |-> NoToken, todo |-> {},
         answer |-> NoToken, ok |-> FALSE, known |-> {}, reused |-> FALSE]

ServerTypeOK ==
    /\ row \in [Token -> {"none", "active", "expired", "revoked"}]
    /\ parent \in [Token -> Token \cup {NoToken}]
    /\ swept \subseteq Token
    /\ req \in [Req -> Request]

ServerInit ==
    /\ row = [t \in Token |-> "none"]
    /\ parent = [t \in Token |-> NoToken]
    /\ swept = {}
    /\ req = [r \in Req |-> Idle]

Issued == {t \in Token : row[t] # "none"}
Active == {t \in Token : row[t] = "active"}

\* revoked_at is null.
Unrevoked == {t \in Token : row[t] \in {"active", "expired"}}

Step(r, new) == req' = [req EXCEPT ![r] = new]
Goto(r, pc)  == Step(r, [req[r] EXCEPT !.pc = pc])
Refuse(r)    == Step(r, [req[r] EXCEPT !.pc = "done", !.ok = FALSE, !.answer = NoToken])

-----------------------------------------------------------------------------
(* Requests arrive.                                                        *)

Arrive(r, new) == req[r].pc = "idle" /\ Step(r, new)

Present(r, kind, t) ==
    Arrive(r, [Idle EXCEPT !.pc = "find", !.kind = kind, !.token = t,
                           !.reused = t # NoToken /\ row[t] = "revoked"])

\* The password is compared at once; the session is inserted later.
BeginLogin(r)      == Arrive(r, [Idle EXCEPT !.pc = "insert", !.kind = "login"])
BeginRefresh(r, t) == Present(r, "refresh", t)
BeginLogout(r, t)  == Present(r, "logout", t)

\* logout-all, or the confirmation of a password reset.
BeginAll(r) == Arrive(r, [Idle EXCEPT !.pc = "snapshot", !.kind = "all", !.known = Issued])

-----------------------------------------------------------------------------
(* Sign-in, exchange and logout.                                           *)

\* Mutant: a revoked session is as good as any.
FindAny(r) ==
    LET t == req[r].token IN
    /\ req[r].pc = "find"
    /\ IF t # NoToken /\ row[t] \in {"active", "revoked"} THEN Goto(r, "update")
                                                          ELSE Refuse(r)
    /\ UNCHANGED tables

\* _find_active_session.  Logout asks twice; the second answer comes from the session's
\* identity map and is the first's.
Find(r) ==
    LET t == req[r].token IN
    /\ req[r].pc = "find"
    /\ IF t # NoToken /\ row[t] = "active" THEN Goto(r, "update") ELSE Refuse(r)
    /\ UNCHANGED tables

\* issue_token_pair inserts a session.  rotate_refresh_token has written revoked_at of
\* the one it found first, whatever its row holds by now.
Issue(r) ==
    /\ \/ req[r].pc = "insert"
       \/ req[r].pc = "update" /\ req[r].kind = "refresh"
    /\ \E new \in Token \ Issued :
         /\ row' = [t \in Token |-> IF t = new THEN "active"
                                    ELSE IF t = req[r].token THEN "revoked"
                                    ELSE row[t]]
         /\ parent' = [parent EXCEPT ![new] = req[r].token]
         /\ Step(r, [req[r] EXCEPT !.pc = "done", !.ok = TRUE, !.answer = new])
    /\ UNCHANGED swept

\* revoke_session.
Revoke(r) ==
    /\ req[r].pc = "update" /\ req[r].kind = "logout"
    /\ row' = [row EXCEPT ![req[r].token] = "revoked"]
    /\ Step(r, [req[r] EXCEPT !.pc = "done", !.ok = TRUE])
    /\ UNCHANGED <<parent, swept>>

-----------------------------------------------------------------------------
(* Revocation of all sessions.                                             *)

\* revoke_all_sessions is one UPDATE: it sees the rows that are committed when it starts.
Snapshot(r) ==
    /\ req[r].pc = "snapshot"
    /\ Step(r, [req[r] EXCEPT !.pc = "revoke", !.todo = Unrevoked])
    /\ UNCHANGED tables

\* Mutant: a session that is being exchanged or given up is left to that request.
RevokeIdle(r) ==
    /\ req[r].pc = "revoke"
    /\ LET found == {t \in req[r].todo \cap Unrevoked :
                        \A q \in Req : req[q].pc = "update" => req[q].token # t}
       IN  /\ row' = [t \in Token |-> IF t \in found THEN "revoked" ELSE row[t]]
           /\ swept' = swept \cup found
    /\ Step(r, [req[r] EXCEPT !.pc = "done", !.ok = TRUE])
    /\ UNCHANGED parent

\* The UPDATE waits for those being written, and leaves out what was revoked meanwhile.
RevokeAll(r) ==
    /\ req[r].pc = "revoke"
    /\ LET found == req[r].todo \cap Unrevoked
       IN  /\ row' = [t \in Token |-> IF t \in found THEN "revoked" ELSE row[t]]
           /\ swept' = swept \cup found
    /\ Step(r, [req[r] EXCEPT !.pc = "done", !.ok = TRUE])
    /\ UNCHANGED parent

-----------------------------------------------------------------------------
(* Surroundings.                                                           *)

\* 30 days pass.
Expire(t) ==
    /\ row[t] = "active"
    /\ row' = [row EXCEPT ![t] = "expired"]
    /\ UNCHANGED <<parent, swept, req>>

\* The process or the connection fails: what is not committed is rolled back, and what
\* is was not heard of.
Drop(r) ==
    /\ req[r].pc # "idle" /\ (req[r].pc = "done" => req[r].ok)
    /\ Refuse(r)
    /\ UNCHANGED tables

Serve(r) == Find(r) \/ Issue(r) \/ Revoke(r) \/ Snapshot(r) \/ RevokeAll(r)

-----------------------------------------------------------------------------
(* Properties.                                                             *)

Swept(r) == req[r].kind = "all" /\ req[r].pc = "done" /\ req[r].ok

\* Whoever is told that all sessions were revoked finds every refresh token that was
\* issued before the request dead, whatever exchanges, logouts and revocations overlap.
KnownTokensDie == \A r \in Req : Swept(r) => req[r].known \cap Active = {}

\* "Reuse of a revoked token fails": a token presented after its exchange, its logout or a
\* revocation of all was committed gets nothing, however many requests present it.
ReuseFails == \A r \in Req : req[r].reused => req[r].answer = NoToken

\* "logout-all revokes every session for the user": an exchange does not carry a session
\* that was there before the request across it.
LogoutAllEndsSessions ==
    \A r \in Req : Swept(r) => \A t \in Active : parent[t] \notin req[r].known
=============================================================================
