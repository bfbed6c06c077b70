--------------------------- MODULE ApiClientProofs ---------------------------
(***************************************************************************)
(* Theorems about Sessions and ApiClient, for any number of tokens and     *)
(* requests.                                                               *)
(***************************************************************************)
EXTENDS ApiClient, TLAPS

USE TokenAssumption DEF vars, server, device, tables

-----------------------------------------------------------------------------
(* Types.                                                                  *)

\* A step of one request leaves the others alone.
LEMMA StepType ==
    ASSUME req \in [Req -> Request], NEW r \in Req, NEW new \in Request, Step(r, new)
    PROVE  /\ req' \in [Req -> Request]
           /\ req'[r] = new
           /\ \A q \in Req : q # r => req'[q] = req[q]
BY DEF Step

LEMMA IdleType == Idle \in Request
BY DEF Idle, Request, Kind, Pc

\* The requests that arrive, and the ways a request moves on, are requests.
LEMMA ArriveTypes ==
    ASSUME NEW t \in Token \cup {NoToken}, NEW kind \in Kind, NEW reused \in BOOLEAN,
           NEW known \in SUBSET Token
    PROVE  /\ [Idle EXCEPT !.pc = "insert", !.kind = "login"] \in Request
           /\ [Idle EXCEPT !.pc = "find", !.kind = kind, !.token = t, !.reused = reused]
                 \in Request
           /\ [Idle EXCEPT !.pc = "snapshot", !.kind = "all", !.known = known] \in Request
BY DEF Idle, Request, Kind, Pc

LEMMA MoveTypes ==
    ASSUME NEW s \in Request
    PROVE  /\ [s EXCEPT !.pc = "update"] \in Request
           /\ [s EXCEPT !.pc = "done", !.ok = FALSE, !.answer = NoToken] \in Request
           /\ [s EXCEPT !.pc = "done", !.ok = TRUE] \in Request
           /\ \A t \in Token : [s EXCEPT !.pc = "done", !.ok = TRUE, !.answer = t] \in Request
           /\ \A found \in SUBSET Token : [s EXCEPT !.pc = "revoke", !.todo = found] \in Request
BY DEF Request, Kind, Pc

-----------------------------------------------------------------------------
(* The server.                                                             *)

\* What a request may rely on, where w is the table of sessions.
\* What it may do follows from its kind.
Shape(s) ==
    /\ s.pc = "insert" => s.kind = "login"
    /\ s.pc \in {"find", "update"} => s.kind \in {"refresh", "logout"}
    /\ s.pc \in {"snapshot", "revoke"} => s.kind = "all"

\* A revocation of all finds, and at last has revoked, all that was there when it came.
Covers(s, w) ==
    /\ \A t \in s.known : w[t] # "none"
    /\ s.pc = "revoke" => \A t \in s.known : w[t] # "revoked" => t \in s.todo
    /\ s.kind = "all" /\ s.pc = "done" /\ s.ok => \A t \in s.known : w[t] = "revoked"

\* A token that was revoked stays so, and is not found.
Refused(s, w) ==
    s.reused => /\ s.token \in Token /\ w[s.token] = "revoked"
                /\ s.pc \in {"find", "done"} /\ s.answer = NoToken

ServerOK(s, w) == Shape(s) /\ Covers(s, w) /\ Refused(s, w)

SInv == ServerTypeOK /\ \A r \in Req : ServerOK(req[r], row)

\* Sessions are neither deleted nor made valid again.
Later(v, w) == \A t \in Token : /\ v[t] # "none" => w[t] # "none"
                                /\ v[t] = "revoked" => w[t] = "revoked"

LEMMA ServerMove ==
    ASSUME SInv, NEW r \in Req, NEW new \in Request, Step(r, new),
           row' \in [Token -> {"none", "active", "expired", "revoked"}],
           parent' \in [Token -> Token \cup {NoToken}], swept' \subseteq Token,
           Later(row, row'), ServerOK(req'[r], row')
    PROVE  SInv'
<1>1. ServerTypeOK /\ req \in [Req -> Request] /\ \A q \in Req : ServerOK(req[q], row)
  BY DEF SInv, ServerTypeOK
<1>2. req' \in [Req -> Request] /\ \A q \in Req : q # r => req'[q] = req[q]
  BY <1>1, StepType
<1>3. ServerTypeOK'
  BY <1>1, <1>2 DEF ServerTypeOK
<1>4. ASSUME NEW q \in Req PROVE ServerOK(req[q], row)'
  <2>1. CASE q = r
    BY <2>1
  <2>2. CASE q # r
    <3>1. req'[q] = req[q] /\ req[q] \in Request /\ ServerOK(req[q], row)
      BY <1>1, <1>2, <2>2
    <3>2. req[q].known \subseteq Token
      BY <3>1 DEF Request
    <3>3. Shape(req[q])
      BY <3>1 DEF ServerOK
    <3>4. Covers(req[q], row')
      BY <3>1, <3>2 DEF ServerOK, Covers, Later
    <3>5. Refused(req[q], row')
      BY <3>1 DEF ServerOK, Refused, Later
    <3> QED BY <3>1, <3>3, <3>4, <3>5 DEF ServerOK
  <2> QED BY <2>1, <2>2
<1> QED BY <1>3, <1>4 DEF SInv

\* The table stays as it is.
LEMMA ServerStay ==
    ASSUME SInv, NEW r \in Req, NEW new \in Request, Step(r, new), UNCHANGED tables,
           ServerOK(new, row)
    PROVE  SInv'
<1>1. ServerTypeOK /\ req'[r] = new
  BY StepType DEF SInv, ServerTypeOK
<1>2. Later(row, row') /\ ServerOK(req'[r], row')
  BY <1>1 DEF Later
<1> QED BY <1>1, <1>2, ServerMove DEF ServerTypeOK

LEMMA IdleOK == ServerOK(Idle, row)
BY DEF ServerOK, Shape, Covers, Refused, Idle

\* Requests that arrive.
LEMMA ServerArrive ==
    ASSUME SInv, NEW r \in Req, UNCHANGED tables,
           \/ BeginLogin(r) \/ BeginAll(r)
           \/ \E t \in Token \cup {NoToken} : BeginRefresh(r, t) \/ BeginLogout(r, t)
    PROVE  SInv'
<1> row \in [Token -> {"none", "active", "expired", "revoked"}]
  BY DEF SInv, ServerTypeOK
<1>1. CASE BeginLogin(r)
  <2> DEFINE new == [Idle EXCEPT !.pc = "insert", !.kind = "login"]
  <2>1. new \in Request /\ Step(r, new)
    BY <1>1, ArriveTypes DEF BeginLogin, Arrive, Kind
  <2>2. ServerOK(new, row)
    BY DEF ServerOK, Shape, Covers, Refused, Idle
  <2> QED BY <2>1, <2>2, ServerStay
<1>2. CASE BeginAll(r)
  <2> DEFINE new == [Idle EXCEPT !.pc = "snapshot", !.kind = "all", !.known = Issued]
  <2>1. new \in Request /\ Step(r, new)
    <3>1. Issued \in SUBSET Token /\ "all" \in Kind /\ TRUE \in BOOLEAN
      BY DEF Issued, Kind
    <3> QED BY <1>2, <3>1, ArriveTypes DEF BeginAll, Arrive
  <2>2. ServerOK(new, row)
    BY DEF ServerOK, Shape, Covers, Refused, Idle, Issued
  <2> QED BY <2>1, <2>2, ServerStay
<1>3. ASSUME NEW t \in Token \cup {NoToken}, NEW kind \in {"refresh", "logout"},
             Present(r, kind, t)
      PROVE  SInv'
  <2> DEFINE reused == t # NoToken /\ row[t] = "revoked"
             new == [Idle EXCEPT !.pc = "find", !.kind = kind, !.token = t,
                                 !.reused = reused]
  <2>1. new \in Request /\ Step(r, new)
    <3>1. kind \in Kind /\ reused \in BOOLEAN
      BY DEF Kind
    <3>2. new \in Request
      <4> HIDE DEF reused
      <4> QED BY <3>1, ArriveTypes
    <3> QED BY <1>3, <3>2 DEF Present, Arrive
  <2>2. /\ new.pc = "find" /\ new.kind = kind /\ new.token = t /\ new.reused = reused
        /\ new.answer = NoToken /\ new.known = {}
    BY DEF Idle
  <2>3. ServerOK(new, row)
    <3> HIDE DEF new
    <3> QED BY <2>2 DEF ServerOK, Shape, Covers, Refused
  <2> QED BY <2>1, <2>3, ServerStay
<1> QED BY <1>1, <1>2, <1>3 DEF BeginRefresh, BeginLogout

LEMMA ServerDeliver ==
    ASSUME SInv, NEW r \in Req, Step(r, Idle), UNCHANGED tables
    PROVE  SInv'
BY IdleType, IdleOK, ServerStay

LEMMA ServerFind ==
    ASSUME SInv, NEW r \in Req, Find(r) \/ Drop(r)
    PROVE  SInv'
<1> req[r] \in Request /\ ServerOK(req[r], row)
  BY DEF SInv, ServerTypeOK
<1>1. ASSUME Refuse(r), req[r].pc # "idle", UNCHANGED tables PROVE SInv'
  <2> DEFINE new == [req[r] EXCEPT !.pc = "done", !.ok = FALSE, !.answer = NoToken]
  <2>1. new \in Request
    BY MoveTypes
  <2>2. /\ new.pc = "done" /\ new.ok = FALSE /\ new.answer = NoToken
        /\ new.known = req[r].known /\ new.reused = req[r].reused /\ new.token = req[r].token
    BY DEF Request
  <2>3. ServerOK(new, row)
    <3> HIDE DEF new
    <3> QED BY <2>2 DEF ServerOK, Shape, Covers, Refused
  <2> QED BY <1>1, <2>1, <2>3, ServerStay DEF Refuse
<1>2. ASSUME Goto(r, "update"), req[r].pc = "find", row[req[r].token] = "active",
             UNCHANGED tables
      PROVE  SInv'
  <2> DEFINE new == [req[r] EXCEPT !.pc = "update"]
  <2>1. new \in Request
    BY MoveTypes
  <2>2. /\ new.pc = "update" /\ new.kind = req[r].kind
        /\ new.known = req[r].known /\ new.reused = req[r].reused
    BY DEF Request
  <2>3. ServerOK(new, row)
    <3> HIDE DEF new
    <3> QED BY <1>2, <2>2 DEF ServerOK, Shape, Covers, Refused
  <2> QED BY <1>2, <2>1, <2>3, ServerStay DEF Goto
<1> QED BY <1>1, <1>2 DEF Find, Drop

LEMMA ServerIssue ==
    ASSUME SInv, NEW r \in Req, Issue(r)
    PROVE  SInv'
<1>1. /\ req[r] \in Request /\ ServerOK(req[r], row)
      /\ row \in [Token -> {"none", "active", "expired", "revoked"}]
      /\ parent \in [Token -> Token \cup {NoToken}] /\ swept \subseteq Token
  BY DEF SInv, ServerTypeOK
<1>2. PICK new \in Token \ Issued :
        /\ row' = [t \in Token |-> IF t = new THEN "active"
                                   ELSE IF t = req[r].token THEN "revoked" ELSE row[t]]
        /\ parent' = [parent EXCEPT ![new] = req[r].token]
        /\ Step(r, [req[r] EXCEPT !.pc = "done", !.ok = TRUE, !.answer = new])
  BY DEF Issue
<1> DEFINE s == [req[r] EXCEPT !.pc = "done", !.ok = TRUE, !.answer = new]
<1>3. s \in Request
  BY <1>1, MoveTypes
<1>4. req'[r] = s
  BY <1>2, <1>3, StepType DEF SInv, ServerTypeOK
<1>5. s.pc = "done" /\ s.kind = req[r].kind /\ s.known = req[r].known /\ s.reused = req[r].reused
  BY <1>1 DEF Request
<1>6. Later(row, row')
  BY <1>1, <1>2 DEF Later, Issued
<1>7. req[r].kind # "all" /\ req[r].known \subseteq Token /\ ~ req[r].reused
  BY <1>1 DEF Issue, ServerOK, Shape, Refused, Request
<1>8. ServerOK(s, row')
  <2> HIDE DEF s
  <2> QED BY <1>1, <1>5, <1>6, <1>7 DEF ServerOK, Shape, Covers, Refused, Later
<1>9. /\ row' \in [Token -> {"none", "active", "expired", "revoked"}]
      /\ parent' \in [Token -> Token \cup {NoToken}] /\ swept' \subseteq Token
  BY <1>1, <1>2 DEF Issue, Request
<1>10. Step(r, s) /\ ServerOK(req'[r], row')
  BY <1>2, <1>4, <1>8
<1> HIDE DEF s
<1> QED
  BY <1>3, <1>6, <1>9, <1>10, ServerMove

LEMMA ServerRevoke ==
    ASSUME SInv, NEW r \in Req, Revoke(r)
    PROVE  SInv'
<1> DEFINE s == [req[r] EXCEPT !.pc = "done", !.ok = TRUE]
<1>1. /\ req[r] \in Request /\ ServerOK(req[r], row)
      /\ row \in [Token -> {"none", "active", "expired", "revoked"}]
      /\ parent \in [Token -> Token \cup {NoToken}] /\ swept \subseteq Token
  BY DEF SInv, ServerTypeOK
<1>2. row' = [row EXCEPT ![req[r].token] = "revoked"] /\ Step(r, s) /\ UNCHANGED <<parent, swept>>
  BY DEF Revoke
<1>3. s \in Request
  BY <1>1, MoveTypes
<1>4. req'[r] = s
  BY <1>2, <1>3, StepType DEF SInv, ServerTypeOK
<1>5. s.pc = "done" /\ s.kind = req[r].kind /\ s.known = req[r].known /\ s.reused = req[r].reused
  BY <1>1 DEF Request
<1>6. Later(row, row')
  BY <1>1, <1>2 DEF Later
<1>7. req[r].kind # "all" /\ req[r].known \subseteq Token /\ ~ req[r].reused
  BY <1>1 DEF Revoke, ServerOK, Shape, Refused, Request
<1>8. ServerOK(s, row')
  <2> HIDE DEF s
  <2> QED BY <1>1, <1>5, <1>6, <1>7 DEF ServerOK, Shape, Covers, Refused, Later
<1>9. /\ row' \in [Token -> {"none", "active", "expired", "revoked"}]
      /\ parent' \in [Token -> Token \cup {NoToken}] /\ swept' \subseteq Token
  BY <1>1, <1>2
<1> HIDE DEF s
<1> QED
  BY <1>2, <1>3, <1>4, <1>6, <1>8, <1>9, ServerMove

LEMMA ServerSnapshot ==
    ASSUME SInv, NEW r \in Req, Snapshot(r)
    PROVE  SInv'
<1> DEFINE s == [req[r] EXCEPT !.pc = "revoke", !.todo = Unrevoked]
<1>1. /\ req[r] \in Request /\ ServerOK(req[r], row)
      /\ row \in [Token -> {"none", "active", "expired", "revoked"}]
  BY DEF SInv, ServerTypeOK
<1>2. s \in Request
  BY <1>1, MoveTypes DEF Unrevoked
<1>3. /\ s.pc = "revoke" /\ s.kind = req[r].kind /\ s.todo = Unrevoked
      /\ s.known = req[r].known /\ s.reused = req[r].reused
  BY <1>1 DEF Request
<1>4. req[r].pc = "snapshot" /\ req[r].known \subseteq Token
  BY <1>1 DEF Snapshot, Request
<1>5. ServerOK(s, row)
  <2> HIDE DEF s
  <2> QED BY <1>1, <1>3, <1>4 DEF ServerOK, Shape, Covers, Refused, Unrevoked
<1> QED
  BY <1>2, <1>5, ServerStay DEF Snapshot

LEMMA ServerRevokeAll ==
    ASSUME SInv, NEW r \in Req, RevokeAll(r)
    PROVE  SInv'
<1> DEFINE s == [req[r] EXCEPT !.pc = "done", !.ok = TRUE]
           found == req[r].todo \cap Unrevoked
<1>1. /\ req[r] \in Request /\ ServerOK(req[r], row)
      /\ row \in [Token -> {"none", "active", "expired", "revoked"}]
      /\ parent \in [Token -> Token \cup {NoToken}] /\ swept \subseteq Token
  BY DEF SInv, ServerTypeOK
<1>2. /\ row' = [t \in Token |-> IF t \in found THEN "revoked" ELSE row[t]]
      /\ swept' = swept \cup found /\ parent' = parent /\ Step(r, s)
  BY DEF RevokeAll
<1>3. s \in Request
  BY <1>1, MoveTypes
<1>4. req'[r] = s
  BY <1>2, <1>3, StepType DEF SInv, ServerTypeOK
<1>5. s.pc = "done" /\ s.kind = req[r].kind /\ s.known = req[r].known /\ s.reused = req[r].reused
  BY <1>1 DEF Request
<1>6. Later(row, row')
  BY <1>1, <1>2 DEF Later
<1>7. req[r].pc = "revoke" /\ req[r].known \subseteq Token /\ ~ req[r].reused
  BY <1>1 DEF RevokeAll, ServerOK, Refused, Request
<1>8. \A t \in req[r].known : row'[t] = "revoked"
  BY <1>1, <1>2, <1>7 DEF ServerOK, Covers, Unrevoked
<1>9. ServerOK(s, row')
  <2> HIDE DEF s
  <2> QED BY <1>5, <1>7, <1>8 DEF ServerOK, Shape, Covers, Refused
<1>10. /\ row' \in [Token -> {"none", "active", "expired", "revoked"}]
       /\ parent' \in [Token -> Token \cup {NoToken}] /\ swept' \subseteq Token
  BY <1>1, <1>2 DEF Unrevoked
<1> HIDE DEF s
<1> QED
  BY <1>2, <1>3, <1>4, <1>6, <1>9, <1>10, ServerMove

LEMMA ServerExpire ==
    ASSUME SInv, NEW t \in Token, Expire(t)
    PROVE  SInv'
<1>1. /\ row \in [Token -> {"none", "active", "expired", "revoked"}]
      /\ row' = [row EXCEPT ![t] = "expired"] /\ row[t] = "active"
      /\ UNCHANGED <<parent, swept, req>>
  BY DEF SInv, ServerTypeOK, Expire
<1>2. Later(row, row')
  BY <1>1 DEF Later
<1>3. \A u \in Token : row'[u] # "revoked" => row[u] # "revoked"
  BY <1>2 DEF Later
<1>4. ServerTypeOK'
  BY <1>1 DEF SInv, ServerTypeOK
<1>5. ASSUME NEW q \in Req PROVE ServerOK(req[q], row')
  <2> ServerOK(req[q], row) /\ req[q].known \subseteq Token
    BY DEF SInv, ServerTypeOK, Request
  <2> QED BY <1>2, <1>3 DEF ServerOK, Covers, Refused, Later
<1> QED
  BY <1>1, <1>4, <1>5 DEF SInv

\* What changes the server, and what leaves it as it is.
LEMMA ServerInv ==
    ASSUME SInv, store \in Token \cup {NoToken}, [Next]_vars
    PROVE  SInv'
<1>1. ASSUME NEW r \in Req, Answered(r) \/ Login(r) \/ Logout(r) \/ Elsewhere(r)
      PROVE  SInv'
  BY <1>1, ServerArrive DEF Answered, Login, Logout, Elsewhere
<1>2. ASSUME NEW r \in Req, Refreshed(r) \/ LoggedIn(r) \/ LoggedOut(r) \/ Ignored(r)
      PROVE  SInv'
  BY <1>2, ServerDeliver DEF Refreshed, LoggedIn, LoggedOut, Ignored, Deliver
<1>3. ASSUME NEW r \in Req, Serve(r) \/ Drop(r)
      PROVE  SInv'
  BY <1>3, ServerFind, ServerIssue, ServerRevoke, ServerSnapshot, ServerRevokeAll DEF Serve
<1>4. ASSUME NEW t \in Token, Expire(t)
      PROVE  SInv'
  BY <1>4, ServerExpire
<1>5. ASSUME UNCHANGED server
      PROVE  SInv'
  BY <1>5 DEF SInv, ServerTypeOK
<1> QED
  BY <1>1, <1>2, <1>3, <1>4, <1>5 DEF Next, Send, Restart, AccessExpires

-----------------------------------------------------------------------------
(* What a step changes, in the terms of the device.                        *)

LEMMA Arrival ==
    ASSUME SInv, NEW r \in Req, BeginLogin(r) \/ BeginAll(r)
    PROVE  /\ \A q \in Req : q # r => req'[q] = req[q]
           /\ req'[r].answer = NoToken /\ req'[r].token = NoToken
<1>1. req \in [Req -> Request]
  BY DEF SInv, ServerTypeOK
<1>2. CASE BeginLogin(r)
  BY <1>1, <1>2 DEF BeginLogin, Arrive, Step, Idle
<1>3. CASE BeginAll(r)
  BY <1>1, <1>3 DEF BeginAll, Arrive, Step, Idle
<1> QED
  BY <1>2, <1>3

LEMMA Presentation ==
    ASSUME SInv, NEW r \in Req, BeginRefresh(r, store) \/ BeginLogout(r, store)
    PROVE  /\ \A q \in Req : q # r => req'[q] = req[q]
           /\ req'[r].answer = NoToken /\ req'[r].token = store
<1>1. ASSUME NEW kind, Present(r, kind, store)
      PROVE  /\ \A q \in Req : q # r => req'[q] = req[q]
             /\ req'[r].answer = NoToken /\ req'[r].token = store
  BY <1>1 DEF SInv, ServerTypeOK, Present, Arrive, Step, Idle
<1> QED
  BY <1>1 DEF BeginRefresh, BeginLogout

LEMMA Delivery ==
    ASSUME SInv, NEW r \in Req, Step(r, Idle)
    PROVE  /\ \A q \in Req : q # r => req'[q] = req[q]
           /\ req'[r].answer = NoToken /\ req'[r].token = NoToken
BY DEF SInv, ServerTypeOK, Step, Idle

\* A request of the server changes no token and no other answer, brings new answers
\* only, and revokes nothing but the token it presents and what it sweeps.
LEMMA Service ==
    ASSUME SInv, NEW r \in Req, Serve(r) \/ Drop(r)
    PROVE  /\ \A q \in Req : req'[q].token = req[q].token
           /\ \A q \in Req : q # r => req'[q].answer = req[q].answer
           /\ \/ req'[r].answer \in {req[r].answer, NoToken}
              \/ /\ req'[r].answer \in Token \ Issued
                 /\ row'[req'[r].answer] = "active"
           /\ Later(row, row')
           /\ swept \subseteq swept'
           /\ \A t \in Token : row'[t] = "revoked" =>
                row[t] = "revoked" \/ t \in swept' \/ t = req[r].token
<1>1. /\ req \in [Req -> Request] /\ req[r] \in Request
      /\ row \in [Token -> {"none", "active", "expired", "revoked"}]
  BY DEF SInv, ServerTypeOK
<1>2. ASSUME Find(r) \/ Snapshot(r) \/ Drop(r)
      PROVE  /\ UNCHANGED tables
             /\ \A q \in Req : req'[q].token = req[q].token
             /\ \A q \in Req : q # r => req'[q].answer = req[q].answer
             /\ req'[r].answer \in {req[r].answer, NoToken}
  <2>0. UNCHANGED tables /\ (Refuse(r) \/ Goto(r, "update") \/ Snapshot(r))
    BY <1>2 DEF Find, Snapshot, Drop
  <2>1. CASE Refuse(r)
    <3>1. /\ req'[r] = [req[r] EXCEPT !.pc = "done", !.ok = FALSE, !.answer = NoToken]
          /\ \A q \in Req : q # r => req'[q] = req[q]
      BY <1>1, <2>1 DEF Refuse, Step
    <3>2. req'[r].token = req[r].token /\ req'[r].answer = NoToken
      BY <1>1, <3>1 DEF Request
    <3> QED
      BY <2>0, <3>1, <3>2
  <2>2. CASE Goto(r, "update")
    <3>1. /\ req'[r] = [req[r] EXCEPT !.pc = "update"]
          /\ \A q \in Req : q # r => req'[q] = req[q]
      BY <1>1, <2>2 DEF Goto, Step
    <3>2. req'[r].token = req[r].token /\ req'[r].answer = req[r].answer
      BY <1>1, <3>1 DEF Request
    <3> QED
      BY <2>0, <3>1, <3>2
  <2>3. CASE Snapshot(r)
    BY <1>1, <2>3 DEF Snapshot, Step, Request
  <2> QED
    BY <2>0, <2>1, <2>2, <2>3
<1>3. ASSUME Revoke(r) \/ RevokeAll(r)
      PROVE  /\ \A q \in Req : req'[q].token = req[q].token
             /\ \A q \in Req : req'[q].answer = req[q].answer
  <2>1. Step(r, [req[r] EXCEPT !.pc = "done", !.ok = TRUE])
    BY <1>3 DEF Revoke, RevokeAll
  <2> QED
    BY <1>1, <2>1 DEF Step, Request
<1>4. CASE Revoke(r)
  BY <1>1, <1>3, <1>4 DEF Revoke, Later
<1>5. CASE RevokeAll(r)
  BY <1>1, <1>3, <1>5 DEF RevokeAll, Later, Unrevoked
<1>6. CASE Issue(r)
  <2>1. PICK new \in Token \ Issued :
          /\ row' = [t \in Token |-> IF t = new THEN "active"
                                     ELSE IF t = req[r].token THEN "revoked" ELSE row[t]]
          /\ Step(r, [req[r] EXCEPT !.pc = "done", !.ok = TRUE, !.answer = new])
    BY <1>6 DEF Issue
  <2>2. /\ \A q \in Req : req'[q].token = req[q].token
        /\ \A q \in Req : q # r => req'[q].answer = req[q].answer
        /\ req'[r].answer = new
    BY <1>1, <2>1 DEF Step, Request
  <2> QED
    BY <1>1, <1>6, <2>1, <2>2 DEF Issue, Later, Issued
<1> QED
  BY <1>2, <1>4, <1>5, <1>6 DEF Serve, Later

-----------------------------------------------------------------------------
(* The device.                                                             *)

\* A token is presented by a call that waits, or was by an app that was killed.
Presented(r) ==
    req[r].token # NoToken =>
       /\ row[req[r].token] # "none"
       /\ call[r] \in {"refresh", "logout"} \/ req[r].token \in cut

\* A token on its way to the app is new to it, and to every other request.
Fresh(r) ==
    req[r].answer # NoToken =>
       /\ row[req[r].answer] # "none"
       /\ row[req[r].answer] = "revoked" => req[r].answer \in swept
       /\ store # req[r].answer
       /\ \A q \in Req : req[q].token # req[r].answer
       /\ \A q \in Req : q # r => req[q].answer # req[r].answer

DInv ==
    /\ store # NoToken => row[store] # "none"
    /\ StoredTokenLives
    /\ \A r \in Req : Presented(r) /\ Fresh(r)

Inv == SInv /\ TypeOK /\ DInv

LEMMA InitInv == Init => Inv
<1> SUFFICES ASSUME Init PROVE Inv
  OBVIOUS
<1>1. \A r \in Req : req[r] = Idle
  BY DEF Init, ServerInit
<1>2. ServerTypeOK
  BY IdleType DEF Init, ServerInit, ServerTypeOK
<1>3. SInv
  BY <1>1, <1>2, IdleOK DEF SInv
<1>4. TypeOK
  BY <1>2 DEF Init, TypeOK, CallPc
<1>5. DInv
  BY <1>1 DEF Init, DInv, StoredTokenLives, Presented, Fresh, Idle
<1> QED
  BY <1>3, <1>4, <1>5 DEF Inv

\* The types of what the device holds.
LEMMA DeviceTypes ==
    ASSUME Inv, SInv', [Next]_vars
    PROVE  TypeOK'
<1> ServerTypeOK' /\ \A r \in Req : req[r] \in Request
  BY DEF Inv, SInv, ServerTypeOK
<1> USE DEF TypeOK, CallPc, Inv
<1>1. ASSUME NEW r \in Req, Send(r) \/ Answered(r) \/ Login(r) \/ Logout(r) \/ Elsewhere(r)
      PROVE  TypeOK'
  BY <1>1 DEF Send, Answered, Login, Logout, Elsewhere, Wait
<1>2. ASSUME NEW r \in Req, Refreshed(r) \/ LoggedIn(r) \/ LoggedOut(r) \/ Ignored(r)
      PROVE  TypeOK'
  <2> req[r].answer \in Token \cup {NoToken}
    BY DEF Request
  <2> QED
    BY <1>2 DEF Refreshed, LoggedIn, LoggedOut, Ignored, Deliver, SetTokens, Clear
<1>3. CASE Restart
  BY <1>3 DEF Restart
<1>4. CASE UNCHANGED <<device, call>>
  BY <1>4
<1>5. CASE AccessExpires
  BY <1>5 DEF AccessExpires
<1> QED
  BY <1>1, <1>2, <1>3, <1>4, <1>5 DEF Next

\* A step of the server.
LEMMA DeviceService ==
    ASSUME Inv, NEW r \in Req, Serve(r) \/ Drop(r), UNCHANGED <<device, call>>
    PROVE  DInv'
<1>1. SInv /\ TypeOK /\ DInv
  BY DEF Inv
<1>2. /\ \A q \in Req : req[q].token \in Token \cup {NoToken}
                     /\ req[q].answer \in Token \cup {NoToken}
      /\ store \in Token \cup {NoToken}
  BY <1>1 DEF TypeOK, ServerTypeOK, Request
<1>3. /\ \A q \in Req : req'[q].token = req[q].token
      /\ \A q \in Req : q # r => req'[q].answer = req[q].answer
      /\ \/ req'[r].answer \in {req[r].answer, NoToken}
         \/ /\ req'[r].answer \in Token \ Issued
            /\ row'[req'[r].answer] = "active"
      /\ Later(row, row')
      /\ swept \subseteq swept'
      /\ \A t \in Token : row'[t] = "revoked" =>
           row[t] = "revoked" \/ t \in swept' \/ t = req[r].token
  BY <1>1, Service
<1>4. (store # NoToken => row[store] # "none")'
  BY <1>1, <1>2, <1>3 DEF DInv, Later
<1>5. StoredTokenLives'
  BY <1>1, <1>2, <1>3 DEF DInv, StoredTokenLives, Presented
<1>6. ASSUME NEW q \in Req PROVE Presented(q)'
  BY <1>1, <1>2, <1>3 DEF DInv, Presented, Later
<1>7. ASSUME NEW q \in Req PROVE Fresh(q)'
  <2>1. CASE req'[q].answer = req[q].answer
    <3>1. ASSUME NEW p \in Req, p # q, req[q].answer # NoToken
          PROVE  req'[p].answer # req[q].answer
      BY <1>1, <1>2, <1>3, <3>1 DEF DInv, Fresh, Issued
    <3> QED
      BY <1>1, <1>2, <1>3, <2>1, <3>1 DEF DInv, Fresh, Later
  <2>2. CASE q = r /\ req'[q].answer \in Token \ Issued /\ row'[req'[q].answer] = "active"
    BY <1>1, <1>2, <1>3, <2>2 DEF DInv, Presented, Fresh, Issued
  <2> QED
    BY <1>3, <2>1, <2>2 DEF Fresh
<1> QED
  BY <1>4, <1>5, <1>6, <1>7 DEF DInv

\* Time passes on the server.
LEMMA DeviceExpire ==
    ASSUME Inv, NEW t \in Token, Expire(t), UNCHANGED <<device, call>>
    PROVE  DInv'
<1>1. /\ row \in [Token -> {"none", "active", "expired", "revoked"}] /\ DInv
      /\ store \in Token \cup {NoToken}
      /\ \A q \in Req : req[q].token \in Token \cup {NoToken}
                     /\ req[q].answer \in Token \cup {NoToken}
  BY DEF Inv, TypeOK, ServerTypeOK, Request
<1>2. /\ \A u \in Token : (row'[u] = "none" <=> row[u] = "none")
                       /\ (row'[u] = "revoked" <=> row[u] = "revoked")
      /\ UNCHANGED <<swept, req>>
  BY <1>1 DEF Expire
<1> QED
  BY <1>1, <1>2 DEF DInv, StoredTokenLives, Presented, Fresh

\* A call is made, or meets a 401.
LEMMA DeviceCall ==
    ASSUME Inv, NEW r \in Req,
           Send(r) \/ Answered(r) \/ Login(r) \/ Logout(r) \/ Elsewhere(r)
    PROVE  DInv'
<1>1. SInv /\ TypeOK /\ DInv /\ call \in [Req -> CallPc]
  BY DEF Inv, TypeOK
<1>2. CASE Send(r)
  BY <1>1, <1>2 DEF Send, Wait, DInv, StoredTokenLives, Presented, Fresh
<1>3. CASE Login(r) \/ Elsewhere(r)
  <2>1. /\ \A q \in Req : q # r => req'[q] = req[q]
        /\ req'[r].answer = NoToken /\ req'[r].token = NoToken
        /\ UNCHANGED <<tables, device>>
        /\ call[r] = "idle" /\ \A q \in Req : q # r => call'[q] = call[q]
    BY <1>1, <1>3, Arrival DEF Login, Elsewhere, Wait
  <2> QED
    BY <1>1, <2>1 DEF DInv, StoredTokenLives, Presented, Fresh
<1>4. CASE Answered(r) \/ Logout(r)
  <2>1. /\ \A q \in Req : q # r => req'[q] = req[q]
        /\ req'[r].answer = NoToken /\ req'[r].token = store
        /\ UNCHANGED <<tables, device>>
        /\ call[r] \in {"idle", "sent"} /\ call'[r] \in {"refresh", "logout"}
        /\ \A q \in Req : q # r => call'[q] = call[q]
    BY <1>1, <1>4, Presentation DEF Answered, Logout, Wait
  <2> QED
    BY <1>1, <2>1 DEF DInv, StoredTokenLives, Presented, Fresh
<1> QED
  BY <1>2, <1>3, <1>4

\* A response is delivered: the app keeps its token only if the call did not present one.
LEMMA DeviceDeliver ==
    ASSUME Inv, NEW r \in Req,
           Refreshed(r) \/ LoggedIn(r) \/ LoggedOut(r) \/ Ignored(r)
    PROVE  DInv'
<1>1. SInv /\ TypeOK /\ DInv /\ call \in [Req -> CallPc]
      /\ req[r].answer \in Token \cup {NoToken} /\ store \in Token \cup {NoToken}
  BY DEF Inv, TypeOK, ServerTypeOK, Request
<1>2. /\ \A q \in Req : q # r => req'[q] = req[q]
      /\ req'[r].answer = NoToken /\ req'[r].token = NoToken
      /\ UNCHANGED <<tables, cut>>
      /\ \A q \in Req : q # r => call'[q] = call[q]
  BY <1>1, Delivery DEF Refreshed, LoggedIn, LoggedOut, Ignored, Deliver
<1>3. \/ store' = NoToken
      \/ req[r].answer # NoToken /\ store' = req[r].answer
      \/ store' = store /\ call[r] \notin {"refresh", "logout"}
  BY DEF Refreshed, LoggedIn, LoggedOut, Ignored, Deliver, SetTokens, Clear
<1>4. (store # NoToken => row[store] # "none")'
  BY <1>1, <1>2, <1>3 DEF DInv, Fresh
<1>5. StoredTokenLives'
  BY <1>1, <1>2, <1>3 DEF DInv, Fresh, StoredTokenLives
<1>6. ASSUME NEW q \in Req PROVE Presented(q)'
  BY <1>1, <1>2 DEF DInv, Presented
<1>7. ASSUME NEW q \in Req PROVE Fresh(q)'
  BY <1>1, <1>2, <1>3 DEF DInv, Fresh
<1> QED
  BY <1>4, <1>5, <1>6, <1>7 DEF DInv

\* The app is killed.
LEMMA DeviceRestart ==
    ASSUME Inv, Restart
    PROVE  DInv'
<1>1. DInv /\ call \in [Req -> CallPc] /\ store \in Token \cup {NoToken}
      /\ \A r \in Req : req[r].token \in Token \cup {NoToken}
  BY DEF Inv, TypeOK, ServerTypeOK, Request
<1>2. \A r \in Req : call[r] \in {"refresh", "logout"} /\ req[r].token # NoToken
                        => req[r].token \in cut'
  BY <1>1 DEF Restart
<1>3. cut \subseteq cut' /\ UNCHANGED <<server, store>>
  BY DEF Restart
<1>4. StoredTokenLives'
  BY <1>1, <1>2, <1>3 DEF DInv, StoredTokenLives
<1>5. \A r \in Req : Presented(r)'
  BY <1>1, <1>2, <1>3 DEF DInv, Presented
<1>6. \A r \in Req : Fresh(r)'
  BY <1>1, <1>3 DEF DInv, Fresh
<1> QED
  BY <1>1, <1>3, <1>4, <1>5, <1>6 DEF DInv

LEMMA Inductive == Inv /\ [Next]_vars => Inv'
<1> SUFFICES ASSUME Inv, [Next]_vars PROVE Inv'
  OBVIOUS
<1>1. SInv'
  BY ServerInv DEF Inv, TypeOK
<1>2. TypeOK'
  BY <1>1, DeviceTypes
<1>3. ASSUME UNCHANGED <<server, store, call, cut>> PROVE DInv'
  BY <1>3 DEF Inv, DInv, StoredTokenLives, Presented, Fresh
<1>4. ASSUME AccessExpires PROVE DInv'
  BY <1>3, <1>4 DEF AccessExpires
<1>5. DInv'
  BY <1>3, <1>4, DeviceService, DeviceExpire, DeviceCall, DeviceDeliver, DeviceRestart
  DEF Next, Inv
<1> QED
  BY <1>1, <1>2, <1>5 DEF Inv

-----------------------------------------------------------------------------
(* Theorems.                                                               *)

LEMMA Invariance == Spec => []Inv
BY InitInv, Inductive, PTL DEF Spec

\* Every variable keeps its type, for any number of tokens and requests.
THEOREM SessionTypes == Spec => []TypeOK
BY Invariance, PTL DEF Inv

\* What one revocation of all knew is dead when it reports success.
THEOREM RevocationIsComplete == Spec => []KnownTokensDie
<1>1. Inv => KnownTokensDie
  BY DEF Inv, SInv, ServerOK, Covers, KnownTokensDie, Swept, Active
<1> QED
  BY <1>1, Invariance, PTL

\* A revoked token is never exchanged again.
THEOREM RevokedTokensFail == Spec => []ReuseFails
<1>1. Inv => ReuseFails
  BY DEF Inv, SInv, ServerOK, Refused, ReuseFails
<1> QED
  BY <1>1, Invariance, PTL

\* A running app does not keep a token it has spent, however many of its calls overlap.
THEOREM StoredTokenIsGood == Spec => []StoredTokenLives
BY Invariance, PTL DEF Inv, DInv
=============================================================================
