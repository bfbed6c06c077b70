----------------------------- MODULE Households -----------------------------
(***************************************************************************)
(* Households, membership and the deletion of accounts: invitations and    *)
(* confirmed deletions as concurrent database sessions.                    *)
(*                                                                         *)
(* Sources: backend/app/households/{service,models}.py and                 *)
(* backend/app/account/service.py.                                         *)
(*                                                                         *)
(* A session writes its rows when the ORM flushes, which locks them until  *)
(* the transaction ends; the tables below hold what is committed.          *)
(***************************************************************************)
EXTENDS Naturals, FiniteSets

CONSTANTS
    User, House, Req,
    NoUser, NoHouse,
    MaxCode        \* bound on the deletion codes one user asks for

ASSUME CodeAssumption == MaxCode \in Nat
ASSUME NobodyAssumption == NoUser \notin User /\ NoHouse \notin House

VARIABLES
    users,         \* the rows of users
    houses,        \* the rows of households
    role,          \* role[h][u]: the membership of u in h, "none" if there is no row
    code,          \* code[u]: the deletion code last sent to u, 0 before the first
    used,          \* users and households that ever existed: ids are not reused
    req            \* the sessions

tables == <<users, houses, role, code, used>>
vars   == <<tables, req>>

Role == {"none", "member", "owner"}

\* A deletion flushes one household at a time: op is what it decided for house, heir
\* who is to be promoted.  left, closed, heirs: what it has flushed.  stale (observer):
\* memberships changed since it read the user's.
Session == [pc : {"idle", "lock", "memberships", "others", "flush", "finish", "invitee", "insert"},
            user : User \cup {NoUser}, code : 0..MaxCode,
            todo : SUBSET House, loaded : [House -> Role],
            house : House \cup {NoHouse}, op : {"none", "leave", "close"},
            heir : User \cup {NoUser},
            left : SUBSET House, closed : SUBSET House,
            heirs : [House -> User \cup {NoUser}], stale : BOOLEAN]

Idle == [pc |-> "idle", user |-> NoUser, code |-> 0, todo |-> {},
         loaded |-> [h \in House |-> "none"], house |-> NoHouse, op |-> "none",
         heir |-> NoUser, left |-> {}, closed |-> {},
         heirs |-> [h \in House |-> NoUser], stale |-> FALSE]

TypeOK ==
    /\ users  \subseteq User
    /\ houses \subseteq House
    /\ role \in [House -> [User -> Role]]
    /\ code \in [User -> 0..MaxCode]
    /\ used \subseteq User \cup House
    /\ req  \in [Req -> Session]

Init ==
    /\ users  = {}
    /\ houses = {}
    /\ role = [h \in House |-> [u \in User |-> "none"]]
    /\ code = [u \in User |-> 0]
    /\ used = {}
    /\ req  = [r \in Req |-> Idle]

Members(h) == {u \in User : role[h][u] # "none"}

Step(r, new) == req' = [req EXCEPT ![r] = new]
Abort(r)     == Step(r, Idle) /\ UNCHANGED tables

\* Memberships change under session s.
Overtaken(s) ==
    IF s.pc \in {"others", "flush", "finish"} THEN [s EXCEPT !.stale = TRUE] ELSE s

\* r commits a change of memberships.
StepAndPublish(r) ==
    req' = [q \in Req |-> IF q = r THEN Idle ELSE Overtaken(req[q])]

-----------------------------------------------------------------------------
(* Rows and locks.                                                         *)

\* The membership rows r has written: its user's, and the heir's where one was named.
Locked(r) ==
    {x \in req[r].left \X User : x[2] \in {req[r].user, req[r].heirs[x[1]]}}
       \cup req[r].closed \X User

\* The membership rows r's next statements write.
Wanted(r) ==
    CASE req[r].pc = "flush" /\ req[r].op = "leave" ->
           {<<req[r].house, u>> : u \in {req[r].user, req[r].heir} \ {NoUser}}
      [] req[r].pc = "flush" /\ req[r].op = "close" ->
           {<<req[r].house, u>> : u \in Members(req[r].house)}
      [] req[r].pc = "finish" ->
           {<<h, req[r].user>> : h \in {g \in House : role[g][req[r].user] # "none"}}
      [] req[r].pc = "insert" -> {<<req[r].house, req[r].heir>>}
      [] OTHER -> {}

Holding == {"memberships", "others", "flush", "finish"}

\* ... or the row of a deletion code, which a confirmation locks first: another one
\* needs the same row, and the deletion of the user cascades to all of the user's.
BlockedBy(r, q) ==
    /\ q # r
    /\ \/ Wanted(r) \cap Locked(q) # {}
       \/ /\ req[q].pc \in Holding /\ req[q].user = req[r].user
          /\ \/ req[r].pc = "lock" /\ req[q].code = req[r].code
             \/ req[r].pc = "finish"
Blocked(r) == \E q \in Req : BlockedBy(r, q)

-----------------------------------------------------------------------------
(* Accounts, households, invitations.                                      *)

Found(u, h) ==
    /\ h \notin used
    /\ houses' = houses \cup {h}
    /\ role' = [role EXCEPT ![h][u] = "owner"]
    /\ req' = [q \in Req |-> Overtaken(req[q])]
    /\ UNCHANGED code

\* Registration creates the account and a personal household.
Register(u, h) ==
    /\ u \notin used
    /\ users' = users \cup {u}
    /\ used'  = used \cup {u, h}
    /\ Found(u, h)

CreateHousehold(u, h) ==
    /\ u \in users
    /\ used' = used \cup {h}
    /\ Found(u, h)
    /\ UNCHANGED users

\* invite_member: the owner's membership is read first ...
BeginInvite(r, u, h, invitee) ==
    /\ req[r].pc = "idle"
    /\ u \in users
    /\ role[h][u] = "owner"
    /\ Step(r, [Idle EXCEPT !.pc = "invitee", !.user = u, !.house = h, !.heir = invitee])
    /\ UNCHANGED tables

\* ... then the invitee and their membership ...
FindInvitee(r) ==
    /\ req[r].pc = "invitee"
    /\ IF req[r].heir \in users /\ role[req[r].house][req[r].heir] = "none"
         THEN Step(r, [req[r] EXCEPT !.pc = "insert"]) /\ UNCHANGED tables
         ELSE Abort(r)

\* Mutant: the row carries a role the code does not know.
InsertMemberAs(r) ==
    /\ req[r].pc = "insert"
    /\ ~ Blocked(r)
    /\ role' = [role EXCEPT ![req[r].house][req[r].heir] = "invitee"]
    /\ StepAndPublish(r)
    /\ UNCHANGED <<users, houses, code, used>>

\* ... and the row is inserted, which needs its user and its household to be there.
InsertMember(r) ==
    LET h == req[r].house
        u == req[r].heir
    IN  /\ req[r].pc = "insert"
        /\ ~ Blocked(r)
        /\ IF h \in houses /\ u \in users /\ role[h][u] = "none"
             THEN /\ role' = [role EXCEPT ![h][u] = "member"]
                  /\ StepAndPublish(r)
                  /\ UNCHANGED <<users, houses, code, used>>
             ELSE Abort(r)

-----------------------------------------------------------------------------
(* Deletion of an account.                                                 *)

\* request_deletion: the open code is consumed, which waits for a confirmation that
\* holds it, and a new one is created.
RequestDeletion(u) ==
    /\ u \in users
    /\ code[u] < MaxCode
    /\ \A q \in Req : ~ (req[q].pc \in Holding /\ req[q].user = u /\ req[q].code = code[u])
    /\ code' = [code EXCEPT ![u] = @ + 1]
    /\ UNCHANGED <<users, houses, role, used, req>>

\* confirm_deletion with the right code: the open challenge is read ...
Confirm(r, u) ==
    /\ req[r].pc = "idle"
    /\ u \in users
    /\ code[u] > 0
    /\ Step(r, [Idle EXCEPT !.pc = "lock", !.user = u, !.code = code[u]])
    /\ UNCHANGED tables

\* ... and its attempt counter flushed: of two confirmations with one code the second
\* waits here, and fails when the first has deleted the row with its user.
LockCode(r) ==
    /\ req[r].pc = "lock"
    /\ ~ Blocked(r)
    /\ IF req[r].user \in users
         THEN Step(r, [req[r] EXCEPT !.pc = "memberships"]) /\ UNCHANGED tables
         ELSE Abort(r)

\* The household that comes next, or the user when there is none.
Onward(todo) == IF todo = {} THEN "finish" ELSE "others"

\* wipe_user: SELECT the user's memberships.
ReadMemberships(r) ==
    LET mine == {h \in House : role[h][req[r].user] # "none"} IN
    /\ req[r].pc = "memberships"
    /\ Step(r, [req[r] EXCEPT !.pc = Onward(mine), !.todo = mine,
                              !.loaded = [h \in House |-> role[h][req[r].user]]])
    /\ UNCHANGED tables

\* Mutant: a household stays on the list.
ReadOthersAgain(r) ==
    /\ req[r].pc = "others"
    /\ \E h \in req[r].todo :
         LET others == Members(h) \ {req[r].user} IN
         Step(r, [req[r] EXCEPT !.pc = "flush", !.house = h, !.heir = NoUser,
                                !.op = IF others = {} THEN "close" ELSE "leave"])
    /\ UNCHANGED tables

\* Mutant: whoever leaves names an owner.
ReadOthersAlwaysHands(r) ==
    /\ req[r].pc = "others"
    /\ \E h \in req[r].todo :
         LET others == Members(h) \ {req[r].user}
             decided(op, heir) ==
                Step(r, [req[r] EXCEPT !.pc = "flush", !.todo = @ \ {h}, !.house = h,
                                       !.op = op, !.heir = heir])
         IN  \/ others = {} /\ decided("close", NoUser)
             \/ \E heir \in others :
                  decided("leave", IF role[h][heir] = "owner" THEN NoUser ELSE heir)
    /\ UNCHANGED tables

\* SELECT the others of the next household.  Without others it is to be deleted; an
\* owner hands it to the first of them, in whatever order the database lists them.
\* Nothing is sent for an heir who is an owner already.
ReadOthers(r) ==
    /\ req[r].pc = "others"
    /\ \E h \in req[r].todo :
         LET others == Members(h) \ {req[r].user}
             decided(op, heir) ==
                Step(r, [req[r] EXCEPT !.pc = "flush", !.todo = @ \ {h}, !.house = h,
                                       !.op = op, !.heir = heir])
         IN  \/ others = {} /\ decided("close", NoUser)
             \/ /\ others # {} /\ req[r].loaded[h] # "owner"
                /\ decided("leave", NoUser)
             \/ /\ req[r].loaded[h] = "owner"
                /\ \E heir \in others :
                     decided("leave", IF role[h][heir] = "owner" THEN NoUser ELSE heir)
    /\ UNCHANGED tables

\* Mutant: ownership is not handed on.
FlushForgetsHeir(r) ==
    /\ req[r].pc = "flush"
    /\ ~ Blocked(r)
    /\ IF req[r].op = "close"
         THEN Step(r, [req[r] EXCEPT !.pc = Onward(req[r].todo),
                                     !.closed = @ \cup {req[r].house}])
         ELSE Step(r, [req[r] EXCEPT !.pc = Onward(req[r].todo),
                                     !.left = @ \cup {req[r].house}])
    /\ UNCHANGED tables

\* The household's changes are flushed.  An UPDATE of a membership that is gone
\* fails; a DELETE of one does not.
Flush(r) ==
    LET h == req[r].house
        heir == req[r].heir
        next == Onward(req[r].todo)
    IN  /\ req[r].pc = "flush"
        /\ ~ Blocked(r)
        /\ \/ /\ req[r].op = "close"
              /\ Step(r, [req[r] EXCEPT !.pc = next, !.closed = @ \cup {h}])
              /\ UNCHANGED tables
           \/ /\ req[r].op = "leave"
              /\ heir # NoUser => role[h][heir] # "none"
              /\ Step(r, [req[r] EXCEPT !.pc = next, !.left = @ \cup {h},
                                        !.heirs = [@ EXCEPT ![h] = heir]])
              /\ UNCHANGED tables
           \/ /\ req[r].op = "leave"
              /\ heir # NoUser /\ role[h][heir] = "none"
              /\ Abort(r)

\* Mutant: memberships are not deleted with their user.
FinishKeepsMemberships(r) ==
    LET s == req[r] IN
    /\ s.pc = "finish"
    /\ ~ Blocked(r)
    /\ users'  = users \ {s.user}
    /\ houses' = houses \ s.closed
    /\ role' = [h \in House |-> [x \in User |->
                  IF h \in s.closed \/ (x = s.user /\ h \in s.left) THEN "none"
                  ELSE IF x = s.heirs[h] THEN "owner"
                  ELSE role[h][x]]]
    /\ StepAndPublish(r)
    /\ UNCHANGED <<code, used>>

\* DELETE the user, which takes every membership along, and COMMIT.
Finish(r) ==
    LET s == req[r] IN
    /\ s.pc = "finish"
    /\ ~ Blocked(r)
    /\ users'  = users \ {s.user}
    /\ houses' = houses \ s.closed
    /\ role' = [h \in House |-> [x \in User |->
                  IF x = s.user \/ h \in s.closed THEN "none"
                  ELSE IF x = s.heirs[h] THEN "owner"
                  ELSE role[h][x]]]
    /\ StepAndPublish(r)
    /\ UNCHANGED <<code, used>>

\* PostgreSQL cancels a statement that waits, through others, for its own transaction.
DeadlockVictim(r) ==
    /\ \A S \in SUBSET Req :
         (\A q \in S \cup {r}, p \in Req : BlockedBy(q, p) => p \in S) => r \in S
    /\ Abort(r)

-----------------------------------------------------------------------------

Work(r) ==
    \/ FindInvitee(r) \/ InsertMember(r)
    \/ LockCode(r) \/ ReadMemberships(r) \/ ReadOthers(r) \/ Flush(r) \/ Finish(r)
    \/ DeadlockVictim(r)

Next ==
    \/ \E u \in User, h \in House : Register(u, h) \/ CreateHousehold(u, h)
    \/ \E u \in User : RequestDeletion(u)
    \/ \E r \in Req, u \in User : Confirm(r, u)
    \/ \E r \in Req, u \in User, h \in House, i \in User : BeginInvite(r, u, h, i)
    \/ \E r \in Req : Work(r)

Spec == Init /\ [][Next]_vars

\* The event loop resumes every request; PostgreSQL queues those who wait for a row.
FairSpec == Spec /\ \A r \in Req : SF_vars(Work(r))

-----------------------------------------------------------------------------
(* Properties.                                                             *)

\* The step by which r's deletion takes effect.
Wiped(r) ==
    /\ req[r].pc = "finish" /\ req'[r].pc = "idle"
    /\ req[r].user \in users \ users'

\* A membership joins an account and a household that exist: whoever is invited while
\* their account, or the household, is being deleted leaves no row behind.
MembersExist ==
    \A h \in House, u \in User : role[h][u] # "none" => h \in houses /\ u \in users

\* A deletion that no other change of memberships overlapped hands each household of
\* the user on to exactly one owner if others are left in it, and takes it along if not.
CleanWipeHandsOver ==
    [][\A r \in Req :
         LET u == req[r].user
         IN  Wiped(r) /\ ~ req[r].stale =>
               \A h \in houses :
                  LET others == Members(h) \ {u} IN
                  /\ h \notin houses' <=> (role[h][u] # "none" /\ others = {})
                  /\ role[h][u] = "owner" /\ others # {} =>
                        \E heir \in others : role'[h][heir] = "owner"]_vars

\* A household never has two owners, whoever leaves it at the same time and however
\* often a user confirms: ownership moves only with the deletion of the one who has it.
OneOwnerAtMost ==
    \A h \in House : \A u, v \in User :
       role[h][u] = "owner" /\ role[h][v] = "owner" => u = v

\* Every request ends, whoever waits for whom.
RequestEnds == \A r \in Req : req[r].pc # "idle" ~> req[r].pc = "idle"

\* "Transfer ownership so the shared household stays usable": a deletion that takes an
\* owner from a household it knew of leaves it an owner, or without members.
TransferKeepsOwner ==
    [][\A r \in Req, h \in House :
         Wiped(r) /\ req[r].loaded[h] # "none" /\ role[h][req[r].user] = "owner"
         /\ Members(h)' # {} => \E u \in User : role'[h][u] = "owner"]_vars
=============================================================================
