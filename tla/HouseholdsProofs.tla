-------------------------- MODULE HouseholdsProofs --------------------------
(***************************************************************************)
(* Proofs about Households: types, memberships that join what exists, and  *)
(* ownership that is never duplicated, for any number of users, households *)
(* and sessions.                                                           *)
(***************************************************************************)
EXTENDS Households, TLAPS

USE NobodyAssumption, CodeAssumption

-----------------------------------------------------------------------------
(* The inductive invariant.                                                *)

\* From the SELECT of the memberships to the COMMIT.
Reading == {"others", "flush", "finish"}

\* What a session may rely on.  A deletion holds the row of its code, so no other
\* session can have deleted its user; what it loaded as owned is owned, unless the
\* household is gone; an heir it has flushed is locked, so is still a member.
SessionOK(s) ==
    /\ s.pc # "idle" => s.user \in User
    /\ s.pc \in {"invitee", "insert"} => s.house \in House /\ s.heir \in User
    /\ s.pc \in Holding => s.user \in users
    /\ s.pc = "flush" =>
         /\ s.house \in House
         /\ s.heir # NoUser => /\ s.heir # s.user
                               /\ s.loaded[s.house] = "owner"
    /\ \A h \in House :
         /\ s.pc \in Reading /\ s.loaded[h] # "none" => h \in used
         /\ s.pc \in Reading /\ s.loaded[h] = "owner" =>
               h \notin houses \/ role[h][s.user] = "owner"
         /\ s.heirs[h] # NoUser =>
               /\ s.pc \in Reading
               /\ h \in s.left
               /\ s.loaded[h] = "owner"
               /\ s.heirs[h] # s.user
               /\ role[h][s.heirs[h]] # "none"

\* A household that one session hands to an heir is not closed by another.
Apart(s, t) == \A h \in s.left : s.heirs[h] # NoUser => h \notin t.closed

Existed == users \subseteq used /\ houses \subseteq used

IInv ==
    /\ TypeOK
    /\ Existed
    /\ MembersExist
    /\ OneOwnerAtMost
    /\ \A r \in Req : SessionOK(req[r])
    /\ \A r, q \in Req : r # q => Apart(req[r], req[q])

-----------------------------------------------------------------------------
(* Idle sessions and steps that only move a session on.                    *)

LEMMA IdleOK ==
    /\ Idle \in Session
    /\ SessionOK(Idle)
    /\ \A s \in Session : Apart(Idle, s) /\ Apart(s, Idle)
BY DEF Idle, Session, SessionOK, Apart, Reading, Holding, Role

LEMMA InitInv == Init => IInv
<1> SUFFICES ASSUME Init PROVE IInv
  OBVIOUS
<1>1. TypeOK
  BY IdleOK DEF Init, TypeOK, Role
<1>2. Existed /\ MembersExist /\ OneOwnerAtMost
  BY DEF Init, Existed, MembersExist, OneOwnerAtMost
<1>3. \A r \in Req : req[r] = Idle
  BY DEF Init
<1> QED
  BY <1>1, <1>2, <1>3, IdleOK DEF IInv

LEMMA LocalStep ==
    ASSUME IInv, NEW r \in Req, NEW new \in Session,
           Step(r, new), UNCHANGED tables,
           SessionOK(new),
           \A q \in Req \ {r} : Apart(new, req[q]) /\ Apart(req[q], new)
    PROVE  IInv'
<1> USE DEF Step, tables
<1>1. TypeOK'
  BY DEF IInv, TypeOK
<1>2. (Existed /\ MembersExist /\ OneOwnerAtMost)'
  BY DEF IInv, Existed, MembersExist, OneOwnerAtMost
<1>3. \A q \in Req : req'[q] = IF q = r THEN new ELSE req[q]
  BY DEF IInv, TypeOK
<1>4. \A q \in Req : SessionOK(req[q])' 
  <2> SUFFICES ASSUME NEW q \in Req PROVE SessionOK(req[q])'
    OBVIOUS
  <2>1. CASE q = r
    BY <1>3, <2>1 DEF SessionOK
  <2>2. CASE q # r
    BY <1>3, <2>2 DEF IInv, SessionOK
  <2> QED BY <2>1, <2>2
<1>5. \A p, q \in Req : p # q => Apart(req[p], req[q])'
  <2> SUFFICES ASSUME NEW p \in Req, NEW q \in Req, p # q PROVE Apart(req'[p], req'[q])
    BY DEF Apart
  <2> QED BY <1>3 DEF IInv
<1> QED BY <1>1, <1>2, <1>4, <1>5 DEF IInv

LEMMA AbortStep ==
    ASSUME IInv, NEW r \in Req, Abort(r)
    PROVE  IInv'
<1>1. \A q \in Req \ {r} : Apart(Idle, req[q]) /\ Apart(req[q], Idle)
  BY IdleOK DEF IInv, TypeOK
<1> QED BY <1>1, IdleOK, LocalStep DEF Abort

\* Typing of the values a session takes on.
LEMMA Moves ==
    ASSUME NEW s \in Session,
           NEW p \in {"idle", "lock", "memberships", "others", "flush", "finish",
                      "invitee", "insert"}
    PROVE  [s EXCEPT !.pc = p] \in Session
BY DEF Session

LEMMA Confirms ==
    ASSUME NEW s \in Session, NEW u \in User, NEW k \in 0..MaxCode
    PROVE  [s EXCEPT !.pc = "lock", !.user = u, !.code = k] \in Session
BY DEF Session

LEMMA Invites ==
    ASSUME NEW s \in Session, NEW u \in User, NEW h \in House, NEW i \in User
    PROVE  [s EXCEPT !.pc = "invitee", !.user = u, !.house = h, !.heir = i] \in Session
BY DEF Session

LEMMA Marks ==
    ASSUME NEW s \in Session
    PROVE  [s EXCEPT !.stale = TRUE] \in Session
BY DEF Session

\* A session moves on and flushes nothing.
LEMMA QuietStep ==
    ASSUME IInv, NEW r \in Req, NEW new \in Session,
           Step(r, new), UNCHANGED tables,
           SessionOK(new),
           new.left = req[r].left, new.closed = req[r].closed, new.heirs = req[r].heirs
    PROVE  IInv'
<1>1. \A q \in Req \ {r} : Apart(new, req[q]) /\ Apart(req[q], new)
  BY DEF IInv, Apart
<1> QED BY <1>1, LocalStep

-----------------------------------------------------------------------------
(* Locks.                                                                  *)

\* A session that finishes waits for every other confirmation of its user, and for
\* whoever has written one of the user's memberships.
LEMMA FinishWaits ==
    ASSUME NEW r \in Req, req[r].pc = "finish", ~ Blocked(r), NEW q \in Req, q # r
    PROVE  /\ ~ (req[q].pc \in Holding /\ req[q].user = req[r].user)
           /\ \A h \in House : role[h][req[r].user] # "none"
                                  => <<h, req[r].user>> \notin Locked(q)
<1>1. ~ BlockedBy(r, q)
  BY DEF Blocked
<1>2. Wanted(r) = {<<h, req[r].user>> : h \in {g \in House : role[g][req[r].user] # "none"}}
  BY DEF Wanted
<1>3. \A h \in House : role[h][req[r].user] # "none" => <<h, req[r].user>> \in Wanted(r)
  BY <1>2
<1> QED BY <1>1, <1>3 DEF BlockedBy

\* A session that leaves a household waits for whoever has written the heir's row.
LEMMA LeaveWaits ==
    ASSUME NEW r \in Req, req[r].pc = "flush", req[r].op = "leave", ~ Blocked(r),
           NEW q \in Req, q # r, req[r].heir # NoUser
    PROVE  <<req[r].house, req[r].heir>> \notin Locked(q)
<1>1. ~ BlockedBy(r, q)
  BY DEF Blocked
<1>2. Wanted(r) = {<<req[r].house, u>> : u \in {req[r].user, req[r].heir} \ {NoUser}}
  BY DEF Wanted
<1>3. <<req[r].house, req[r].heir>> \in Wanted(r)
  BY <1>2
<1> QED BY <1>1, <1>3 DEF BlockedBy

\* A session that closes a household waits for whoever has written a row of it.
LEMMA CloseWaits ==
    ASSUME NEW r \in Req, req[r].pc = "flush", req[r].op = "close", ~ Blocked(r),
           NEW q \in Req, q # r, NEW u \in User, role[req[r].house][u] # "none"
    PROVE  <<req[r].house, u>> \notin Locked(q)
<1>1. ~ BlockedBy(r, q)
  BY DEF Blocked
<1>2. Wanted(r) = {<<req[r].house, x>> : x \in Members(req[r].house)}
  BY DEF Wanted
<1>3. <<req[r].house, u>> \in Wanted(r)
  BY <1>2 DEF Members
<1> QED BY <1>1, <1>3 DEF BlockedBy

\* What is locked: the heirs of the households left, and all of those closed.
LEMMA LockedRows ==
    ASSUME NEW q \in Req
    PROVE  /\ \A h \in req[q].left : req[q].heirs[h] \in User => <<h, req[q].heirs[h]>> \in Locked(q)
           /\ \A h \in req[q].closed, u \in User : <<h, u>> \in Locked(q)
BY DEF Locked

-----------------------------------------------------------------------------
(* The steps of an invitation and of a deletion that change no table.      *)

LEMMA BeginInviteInv ==
    ASSUME IInv, NEW r \in Req, NEW u \in User, NEW h \in House, NEW i \in User,
           BeginInvite(r, u, h, i)
    PROVE  IInv'
<1> DEFINE new == [Idle EXCEPT !.pc = "invitee", !.user = u, !.house = h, !.heir = i]
<1>1. new \in Session
  BY IdleOK, Invites
<1>2. SessionOK(new)
  BY DEF Idle, SessionOK, Reading, Holding
<1>3. \A q \in Req \ {r} : Apart(new, req[q]) /\ Apart(req[q], new)
  BY DEF Idle, Apart
<1> QED BY <1>1, <1>2, <1>3, LocalStep DEF BeginInvite

LEMMA FindInviteeInv ==
    ASSUME IInv, NEW r \in Req, FindInvitee(r)
    PROVE  IInv'
<1> DEFINE new == [req[r] EXCEPT !.pc = "insert"]
<1>1. CASE Abort(r)
  BY <1>1, AbortStep
<1>2. CASE Step(r, new) /\ UNCHANGED tables
  <2>1. new \in Session
    BY Moves DEF IInv, TypeOK
  <2>2. SessionOK(new)
    BY DEF IInv, TypeOK, Session, SessionOK, Reading, Holding, FindInvitee
  <2> QED BY <1>2, <2>1, <2>2, QuietStep DEF IInv, TypeOK, Session
<1> QED BY <1>1, <1>2 DEF FindInvitee

LEMMA ConfirmInv ==
    ASSUME IInv, NEW r \in Req, NEW u \in User, Confirm(r, u)
    PROVE  IInv'
<1> DEFINE new == [Idle EXCEPT !.pc = "lock", !.user = u, !.code = code[u]]
<1>1. new \in Session
  BY IdleOK, Confirms DEF IInv, TypeOK
<1>2. SessionOK(new)
  BY DEF Idle, SessionOK, Reading, Holding
<1>3. \A q \in Req \ {r} : Apart(new, req[q]) /\ Apart(req[q], new)
  BY DEF Idle, Apart
<1> QED BY <1>1, <1>2, <1>3, LocalStep DEF Confirm

LEMMA LockCodeInv ==
    ASSUME IInv, NEW r \in Req, LockCode(r)
    PROVE  IInv'
<1> DEFINE new == [req[r] EXCEPT !.pc = "memberships"]
<1>1. CASE Abort(r)
  BY <1>1, AbortStep
<1>2. CASE req[r].user \in users /\ Step(r, new) /\ UNCHANGED tables
  <2>1. new \in Session
    BY Moves DEF IInv, TypeOK
  <2>2. SessionOK(new)
    BY <1>2 DEF IInv, TypeOK, Session, SessionOK, Reading, Holding, LockCode
  <2> QED BY <1>2, <2>1, <2>2, QuietStep DEF IInv, TypeOK, Session
<1> QED BY <1>1, <1>2 DEF LockCode

LEMMA ReadMembershipsInv ==
    ASSUME IInv, NEW r \in Req, ReadMemberships(r)
    PROVE  IInv'
<1> DEFINE mine == {h \in House : role[h][req[r].user] # "none"}
           lo == [h \in House |-> role[h][req[r].user]]
           new == [req[r] EXCEPT !.pc = Onward(mine), !.todo = mine, !.loaded = lo]
<1>1. req[r] \in Session /\ req[r].user \in User /\ req[r].user \in users
  BY DEF IInv, TypeOK, SessionOK, ReadMemberships, Holding
<1>2. lo \in [House -> Role] /\ mine \in SUBSET House /\ Onward(mine) \in {"others", "finish"}
  BY <1>1 DEF IInv, TypeOK, Onward
<1>3. new \in Session
  BY <1>1, <1>2 DEF Session
<1>4. SessionOK(new)
  <2>1. /\ new.pc \in {"others", "finish"} /\ new.user = req[r].user
        /\ new.loaded = lo /\ new.heirs = req[r].heirs
    BY <1>1, <1>2 DEF Session
  <2>2. \A h \in House : req[r].heirs[h] = NoUser
    BY DEF IInv, SessionOK, ReadMemberships, Reading
  <2>3. \A h \in House : lo[h] # "none" => h \in used
    BY <1>1 DEF IInv, MembersExist, Existed
  <2> HIDE DEF new, mine
  <2> QED BY <1>1, <2>1, <2>2, <2>3 DEF SessionOK, Reading, Holding
<1>5. new.left = req[r].left /\ new.closed = req[r].closed /\ new.heirs = req[r].heirs
  BY <1>1 DEF Session
<1>6. Step(r, new) /\ UNCHANGED tables
  BY DEF ReadMemberships
<1> HIDE DEF new
<1> QED BY <1>3, <1>4, <1>5, <1>6, QuietStep

LEMMA ReadOthersInv ==
    ASSUME IInv, NEW r \in Req, ReadOthers(r)
    PROVE  IInv'
<1> DEFINE s == req[r]
           decided(h, op, heir) ==
              [s EXCEPT !.pc = "flush", !.todo = @ \ {h}, !.house = h,
                        !.op = op, !.heir = heir]
<1>1. s \in Session /\ s.pc = "others" /\ SessionOK(s)
  BY DEF IInv, TypeOK, ReadOthers
<1>2. PICK h \in s.todo, op \in {"leave", "close"}, heir \in User \cup {NoUser} :
         /\ Step(r, decided(h, op, heir))
         /\ heir # NoUser => heir # s.user /\ s.loaded[h] = "owner"
  BY DEF ReadOthers, Members
<1> DEFINE new == decided(h, op, heir)
<1>3. h \in House
  BY <1>1, <1>2 DEF Session
<1>4. new \in Session
  BY <1>1, <1>2, <1>3 DEF Session
<1>5. /\ new.pc = "flush" /\ new.user = s.user /\ new.house = h /\ new.heir = heir
      /\ new.loaded = s.loaded /\ new.left = s.left /\ new.closed = s.closed
      /\ new.heirs = s.heirs
  BY <1>1 DEF Session
<1>6. Step(r, new) /\ UNCHANGED tables
  BY <1>2 DEF ReadOthers
<1> HIDE DEF new
<1>7. SessionOK(new)
  BY <1>1, <1>2, <1>3, <1>5 DEF SessionOK, Reading, Holding
<1> QED BY <1>4, <1>5, <1>6, <1>7, QuietStep

\* A household is closed: whoever hands it to an heir would have the heir's row.
LEMMA FlushCloseInv ==
    ASSUME IInv, NEW r \in Req, req[r].pc = "flush", ~ Blocked(r), req[r].op = "close",
           NEW next \in {"others", "finish"},
           Step(r, [req[r] EXCEPT !.pc = next, !.closed = @ \cup {req[r].house}]),
           UNCHANGED tables
    PROVE  IInv'
<1> DEFINE s == req[r]
           new == [s EXCEPT !.pc = next, !.closed = @ \cup {s.house}]
<1>1. s \in Session /\ SessionOK(s) /\ s.house \in House
  BY DEF IInv, TypeOK, SessionOK
<1>2. new \in Session
  BY <1>1 DEF Session
<1>3. /\ new.pc = next /\ new.user = s.user /\ new.loaded = s.loaded
      /\ new.left = s.left /\ new.closed = s.closed \cup {s.house} /\ new.heirs = s.heirs
  BY <1>1 DEF Session
<1>4. Step(r, new)
  OBVIOUS
<1> HIDE DEF new
<1>5. SessionOK(new)
  BY <1>1, <1>3 DEF SessionOK, Reading, Holding
<1>6. ASSUME NEW q \in Req, q # r PROVE Apart(new, req[q]) /\ Apart(req[q], new)
  <2>1. Apart(s, req[q]) /\ Apart(req[q], s)
    BY <1>6 DEF IInv
  <2>2. req[q] \in Session /\ SessionOK(req[q])
    BY DEF IInv, TypeOK
  <2>3. ASSUME s.house \in req[q].left, req[q].heirs[s.house] # NoUser PROVE FALSE
    <3>1. /\ req[q].heirs[s.house] \in User
          /\ role[s.house][req[q].heirs[s.house]] # "none"
      BY <1>1, <2>2, <2>3 DEF Session, SessionOK
    <3>2. <<s.house, req[q].heirs[s.house]>> \in Locked(q)
      BY <2>3, <3>1, LockedRows
    <3> QED BY <1>6, <3>1, <3>2, CloseWaits
  <2> QED BY <1>3, <2>1, <2>3 DEF Apart
<1> QED BY <1>2, <1>4, <1>5, <1>6, LocalStep

\* A household is left: whoever closes it would have the heir's row.
LEMMA FlushLeaveInv ==
    ASSUME IInv, NEW r \in Req, req[r].pc = "flush", ~ Blocked(r), req[r].op = "leave",
           req[r].heir # NoUser => role[req[r].house][req[r].heir] # "none",
           NEW next \in {"others", "finish"},
           Step(r, [req[r] EXCEPT !.pc = next, !.left = @ \cup {req[r].house},
                                  !.heirs = [@ EXCEPT ![req[r].house] = req[r].heir]]),
           UNCHANGED tables
    PROVE  IInv'
<1> DEFINE s == req[r]
           new == [s EXCEPT !.pc = next, !.left = @ \cup {s.house},
                            !.heirs = [@ EXCEPT ![s.house] = s.heir]]
<1>1. s \in Session /\ SessionOK(s) /\ s.house \in House /\ s.heir \in User \cup {NoUser}
  BY DEF IInv, TypeOK, SessionOK, Session
<1>2. /\ new.pc = next /\ new.user = s.user /\ new.loaded = s.loaded
      /\ new.left = s.left \cup {s.house} /\ new.closed = s.closed
      /\ new.heirs = [s.heirs EXCEPT ![s.house] = s.heir]
  BY <1>1 DEF Session
<1>3. new \in Session
  BY <1>1 DEF Session
<1>4. /\ new.heirs[s.house] = s.heir
      /\ \A h \in House \ {s.house} : new.heirs[h] = s.heirs[h]
  BY <1>1, <1>2 DEF Session
<1>5. Step(r, new)
  OBVIOUS
<1> HIDE DEF new
<1>6. SessionOK(new)
  BY <1>1, <1>2, <1>4 DEF SessionOK, Reading, Holding
<1>7. ASSUME NEW q \in Req, q # r PROVE Apart(new, req[q]) /\ Apart(req[q], new)
  <2>1. Apart(s, req[q]) /\ Apart(req[q], s)
    BY <1>7 DEF IInv
  <2>2. s.left \in SUBSET House /\ req[q].closed \in SUBSET House
    BY <1>1 DEF IInv, TypeOK, Session
  <2>3. ASSUME s.heir # NoUser, s.house \in req[q].closed PROVE FALSE
    BY <1>1, <1>7, <2>3, LockedRows, LeaveWaits
  <2> QED BY <1>1, <1>2, <1>4, <2>1, <2>2, <2>3 DEF Apart
<1> QED BY <1>3, <1>5, <1>6, <1>7, LocalStep

LEMMA FlushInv ==
    ASSUME IInv, NEW r \in Req, Flush(r)
    PROVE  IInv'
<1>1. Onward(req[r].todo) \in {"others", "finish"}
  BY DEF Onward
<1> QED BY <1>1, FlushCloseInv, FlushLeaveInv, AbortStep DEF Flush

-----------------------------------------------------------------------------
(* Steps that change the tables.                                           *)

LEMMA OvertakenOK ==
    ASSUME NEW s \in Session
    PROVE  /\ Overtaken(s) \in Session
           /\ Overtaken(s).pc = s.pc /\ Overtaken(s).user = s.user
           /\ Overtaken(s).house = s.house /\ Overtaken(s).heir = s.heir
           /\ Overtaken(s).loaded = s.loaded /\ Overtaken(s).left = s.left
           /\ Overtaken(s).closed = s.closed /\ Overtaken(s).heirs = s.heirs
<1>1. Overtaken(s) \in Session
  BY Marks DEF Overtaken
<1> QED BY <1>1 DEF Overtaken, Session

\* What session q relies on stays: its user, what the user owns, and its heirs.
Undisturbed(q) ==
    /\ req[q].pc \in Holding => req[q].user \in users'
    /\ req[q].pc \in Reading =>
          \A h \in houses' : role[h][req[q].user] = "owner"
                                => role'[h][req[q].user] = "owner"
    /\ \A h \in House : req[q].heirs[h] # NoUser
                            => role'[h][req[q].heirs[h]] # "none"

\* What the steps below do to the tables, besides the invariants they keep.
Tables ==
    /\ used \subseteq used' /\ houses' \cap used \subseteq houses
    /\ users' \subseteq User /\ houses' \subseteq House
    /\ used' \subseteq User \cup House
    /\ role' \in [House -> [User -> Role]]
    /\ code' = code

\* The sessions in G end and the others are overtaken.  They keep what they rely on if
\* their user and their heirs stay, and what their user owns.
LEMMA PublishStep ==
    ASSUME IInv, NEW G \in SUBSET Req,
           req' = [q \in Req |-> IF q \in G THEN Idle ELSE Overtaken(req[q])],
           Tables, Existed', MembersExist', OneOwnerAtMost',
           \A q \in Req \ G : Undisturbed(q)
    PROVE  IInv'
<1>1. \A q \in Req : req[q] \in Session /\ SessionOK(req[q])
  BY DEF IInv, TypeOK
<1>2. \A q \in Req : /\ q \in G => req'[q] = Idle
                     /\ q \notin G => req'[q] = Overtaken(req[q])
  OBVIOUS
<1>3. TypeOK'
  <2>1. \A q \in Req : req'[q] \in Session
    BY <1>1, <1>2, IdleOK, OvertakenOK
  <2>2. req' \in [Req -> Session]
    BY <2>1
  <2> QED BY <2>2 DEF IInv, TypeOK, Tables
<1>4. ASSUME NEW q \in Req PROVE SessionOK(req[q])'
  <2>1. CASE q \in G
    BY <1>2, <2>1 DEF SessionOK, Idle, Reading, Holding
  <2>2. CASE q \notin G
    <3>1. req'[q] = Overtaken(req[q])
      BY <1>2, <2>2
    <3> QED BY <1>1, <2>2, <3>1, OvertakenOK DEF SessionOK, Undisturbed, Tables
  <2> QED BY <2>1, <2>2
<1>5. ASSUME NEW p \in Req, NEW q \in Req, p # q PROVE Apart(req[p], req[q])'
  <2>1. Apart(req[p], req[q])
    BY <1>5 DEF IInv
  <2>2. /\ req'[p].left = {} \/ (/\ req'[p].left = req[p].left
                                 /\ req'[p].heirs = req[p].heirs)
        /\ req'[q].closed = {} \/ req'[q].closed = req[q].closed
    BY <1>1, <1>2, OvertakenOK DEF Idle
  <2> QED BY <2>1, <2>2 DEF Apart
<1> QED BY <1>3, <1>4, <1>5 DEF IInv

\* Sessions rely on what they relied on if no user goes and no membership changes.
LEMMA OnlyGrows ==
    ASSUME IInv, NEW q \in Req, users \subseteq users', houses' \subseteq House,
           \A g \in House, x \in User : role[g][x] # "none" => role'[g][x] = role[g][x]
    PROVE  Undisturbed(q)
<1>1. req[q] \in Session /\ SessionOK(req[q])
  BY DEF IInv, TypeOK
<1>2. req[q].pc \in Holding => req[q].user \in users'
  BY <1>1 DEF SessionOK
<1>3. req[q].pc \in Reading => req[q].user \in User
  BY <1>1 DEF SessionOK, Reading
<1>4. ASSUME req[q].pc \in Reading, NEW g \in houses', role[g][req[q].user] = "owner"
      PROVE  role'[g][req[q].user] = "owner"
  <2>1. g \in House /\ req[q].user \in User
    BY <1>3, <1>4
  <2> QED BY <1>4, <2>1
<1>5. ASSUME NEW g \in House, req[q].heirs[g] # NoUser
      PROVE  role'[g][req[q].heirs[g]] # "none"
  <2>1. req[q].heirs[g] \in User
    BY <1>1, <1>5 DEF Session
  <2>2. role[g][req[q].heirs[g]] # "none"
    BY <1>1, <1>5 DEF SessionOK
  <2> QED BY <2>1, <2>2
<1> QED BY <1>2, <1>4, <1>5 DEF Undisturbed

\* A new household: nobody relies on anything about it.
LEMMA FoundInv ==
    ASSUME IInv, NEW u \in User, NEW h \in House, Found(u, h),
           users' = users \/ users' = users \cup {u}, u \in users',
           used' \subseteq User \cup House, used \cup {u, h} \subseteq used'
    PROVE  IInv'
<1> USE DEF Found
<1>1. req' = [q \in Req |-> IF q \in {} THEN Idle ELSE Overtaken(req[q])]
  OBVIOUS
<1>2. /\ role' \in [House -> [User -> Role]]
      /\ role'[h] = [role[h] EXCEPT ![u] = "owner"]
      /\ \A g \in House \ {h} : role'[g] = role[g]
      /\ h \notin houses
  BY DEF IInv, TypeOK, Role, Existed
<1>3. \A x \in User : role[h][x] = "none"
  BY <1>2 DEF IInv, MembersExist
<1>4. (Existed /\ MembersExist)'
  BY <1>2, <1>3 DEF IInv, TypeOK, Existed, MembersExist
<1>5. OneOwnerAtMost'
  BY <1>2, <1>3 DEF IInv, TypeOK, OneOwnerAtMost
<1>6. ASSUME NEW q \in Req
      PROVE  Undisturbed(q)
  <2>1. \A g \in House, x \in User : role[g][x] # "none" => role'[g][x] = role[g][x]
    BY <1>2, <1>3
  <2>2. users \subseteq users' /\ houses' \subseteq House
    BY DEF IInv, TypeOK
  <2> QED BY <2>1, <2>2, OnlyGrows
<1>7. Tables
  BY <1>2 DEF IInv, TypeOK, Tables
<1>8. {} \in SUBSET Req /\ \A q \in Req \ {} : Undisturbed(q)
  BY <1>6
<1>9. Existed' /\ MembersExist'
  BY <1>4
<1> HIDE DEF Found
<1> QED BY ONLY IInv, <1>1, <1>5, <1>7, <1>8, <1>9, PublishStep

LEMMA RegisterInv ==
    ASSUME IInv, NEW u \in User, NEW h \in House, Register(u, h)
    PROVE  IInv'
<1>1. used' \subseteq User \cup House
  BY DEF Register, IInv, TypeOK
<1> QED BY <1>1, FoundInv DEF Register

LEMMA CreateHouseholdInv ==
    ASSUME IInv, NEW u \in User, NEW h \in House, CreateHousehold(u, h)
    PROVE  IInv'
<1>1. used' \subseteq User \cup House /\ u \in used
  BY DEF CreateHousehold, IInv, TypeOK, Existed
<1> QED BY <1>1, FoundInv DEF CreateHousehold

LEMMA RequestDeletionInv ==
    ASSUME IInv, NEW u \in User, RequestDeletion(u)
    PROVE  IInv'
<1> USE DEF RequestDeletion
<1>1. code' \in [User -> 0..MaxCode]
  BY DEF IInv, TypeOK
<1>2. TypeOK'
  BY <1>1 DEF IInv, TypeOK
<1> QED BY <1>2 DEF IInv, Existed, MembersExist, OneOwnerAtMost, SessionOK, Apart

LEMMA InsertMemberInv ==
    ASSUME IInv, NEW r \in Req, InsertMember(r)
    PROVE  IInv'
<1> DEFINE h == req[r].house
           u == req[r].heir
<1>1. CASE Abort(r)
  BY <1>1, AbortStep
<1>2. CASE /\ h \in houses /\ u \in users /\ role[h][u] = "none"
           /\ role' = [role EXCEPT ![h][u] = "member"]
           /\ StepAndPublish(r)
           /\ UNCHANGED <<users, houses, code, used>>
  <2>1. req' = [q \in Req |-> IF q \in {r} THEN Idle ELSE Overtaken(req[q])]
    BY <1>2 DEF StepAndPublish
  <2>2. h \in House /\ u \in User
    BY <1>2 DEF IInv, TypeOK
  <2>3. /\ role' \in [House -> [User -> Role]]
        /\ role'[h][u] = "member"
        /\ \A g \in House, x \in User : g # h \/ x # u => role'[g][x] = role[g][x]
    BY <1>2, <2>2 DEF IInv, TypeOK, Role
  <2>4. (Existed /\ MembersExist)'
    BY <1>2, <2>2, <2>3 DEF IInv, Existed, MembersExist
  <2>5. OneOwnerAtMost'
    BY <1>2, <2>2, <2>3 DEF IInv, OneOwnerAtMost
  <2>6. ASSUME NEW q \in Req
        PROVE  Undisturbed(q)
    <3>1. \A g \in House, x \in User : role[g][x] # "none" => role'[g][x] = role[g][x]
      BY <1>2, <2>3
    <3>2. users \subseteq users' /\ houses' \subseteq House
      BY <1>2 DEF IInv, TypeOK
    <3> QED BY <3>1, <3>2, OnlyGrows
  <2>7. Tables
    BY <1>2, <2>3 DEF IInv, TypeOK, Tables
  <2> QED BY <2>1, <2>4, <2>5, <2>6, <2>7, PublishStep
<1> QED BY <1>1, <1>2 DEF InsertMember

\* The end of a deletion.  Its user goes, and every session that relied on the user has
\* a row the deletion waits for: the code of another confirmation, or the membership of
\* the user as an heir.
LEMMA FinishInv ==
    ASSUME IInv, NEW r \in Req, Finish(r)
    PROVE  IInv'
<1> DEFINE s == req[r]
<1> USE DEF Finish
<1>1. s \in Session /\ SessionOK(s) /\ s.user \in User /\ s.closed \in SUBSET House
  BY DEF IInv, TypeOK, SessionOK, Session
<1>2. req' = [q \in Req |-> IF q \in {r} THEN Idle ELSE Overtaken(req[q])]
  BY DEF StepAndPublish
<1>3. \A h \in House, x \in User :
        role'[h][x] = IF x = s.user \/ h \in s.closed THEN "none"
                      ELSE IF x = s.heirs[h] THEN "owner" ELSE role[h][x]
  OBVIOUS
<1>4. role' \in [House -> [User -> Role]]
  BY <1>3 DEF IInv, TypeOK, Role
<1>5. \A h \in House : s.heirs[h] # NoUser =>
         /\ s.heirs[h] \in User /\ s.heirs[h] # s.user
         /\ role[h][s.heirs[h]] # "none"
         /\ s.loaded[h] = "owner"
  BY <1>1 DEF SessionOK, Session
<1>6. (Existed /\ MembersExist)'
  <2>1. Existed'
    BY DEF IInv, Existed
  <2>2. ASSUME NEW h \in House, NEW x \in User, role'[h][x] # "none"
        PROVE  h \in houses' /\ x \in users'
    <3>1. x # s.user /\ h \notin s.closed /\ role[h][x] # "none"
      BY <1>3, <1>5, <2>2, NobodyAssumption
    <3> QED BY <3>1 DEF IInv, MembersExist
  <2> QED BY <2>1, <2>2 DEF MembersExist
<1>7. OneOwnerAtMost'
  <2> SUFFICES ASSUME NEW h \in House, NEW x \in User, NEW y \in User,
                      role'[h][x] = "owner", role'[h][y] = "owner"
               PROVE  x = y
    BY DEF OneOwnerAtMost
  <2>1. /\ x # s.user /\ y # s.user
        /\ x = s.heirs[h] \/ role[h][x] = "owner"
        /\ y = s.heirs[h] \/ role[h][y] = "owner"
    BY <1>3
  <2>2. CASE s.heirs[h] = NoUser
    BY <2>1, <2>2, NobodyAssumption DEF IInv, OneOwnerAtMost
  <2>3. CASE s.heirs[h] # NoUser
    <3>1. h \in houses
      BY <1>5, <2>3 DEF IInv, MembersExist
    <3>2. role[h][s.user] = "owner"
      BY <1>1, <1>5, <2>3, <3>1 DEF SessionOK, Reading
    <3>3. role[h][x] # "owner" /\ role[h][y] # "owner"
      BY <1>1, <2>1, <3>2 DEF IInv, OneOwnerAtMost
    <3> QED BY <2>1, <3>3
  <2> QED BY <2>2, <2>3
<1>8. ASSUME NEW q \in Req \ {r}
      PROVE  Undisturbed(q)
  <2>1. req[q] \in Session /\ SessionOK(req[q])
    BY DEF IInv, TypeOK
  <2>2. req[q].pc \in Holding => req[q].user \in users'
    BY <2>1, FinishWaits DEF SessionOK
  <2>3. ASSUME req[q].pc \in Reading, NEW g \in houses', role[g][req[q].user] = "owner"
        PROVE  role'[g][req[q].user] = "owner"
    <3>1. g \in House /\ g \notin s.closed /\ req[q].user \in User
      BY <2>1, <2>3 DEF IInv, TypeOK, SessionOK, Reading
    <3>2. req[q].user # s.user
      BY <2>3, FinishWaits DEF Reading, Holding
    <3> QED BY <1>3, <2>3, <3>1, <3>2
  <2>4. ASSUME NEW g \in House, req[q].heirs[g] # NoUser
        PROVE  role'[g][req[q].heirs[g]] # "none"
    <3>1. /\ req[q].heirs[g] \in User /\ g \in req[q].left
          /\ role[g][req[q].heirs[g]] # "none"
      BY <2>1, <2>4 DEF Session, SessionOK
    <3>2. req[q].heirs[g] # s.user
      BY <3>1, FinishWaits, LockedRows
    <3>3. g \notin s.closed
      BY <2>4, <3>1 DEF IInv, Apart
    <3> QED BY <1>3, <3>1, <3>2, <3>3
  <2> QED BY <2>2, <2>3, <2>4 DEF Undisturbed
<1>9. Tables
  BY <1>4 DEF IInv, TypeOK, Tables
<1> HIDE DEF Finish
<1> QED BY <1>2, <1>6, <1>7, <1>8, <1>9, PublishStep

LEMMA StutterInv ==
    ASSUME IInv, UNCHANGED vars
    PROVE  IInv'
BY DEF vars, tables, IInv, TypeOK, Existed, MembersExist, OneOwnerAtMost, SessionOK, Apart

LEMMA NextInv ==
    ASSUME IInv, [Next]_vars
    PROVE  IInv'
<1>1. ASSUME NEW u \in User, NEW h \in House, Register(u, h) \/ CreateHousehold(u, h)
      PROVE  IInv'
  BY <1>1, RegisterInv, CreateHouseholdInv
<1>2. ASSUME NEW u \in User, RequestDeletion(u) PROVE IInv'
  BY <1>2, RequestDeletionInv
<1>3. ASSUME NEW r \in Req, NEW u \in User, Confirm(r, u) PROVE IInv'
  BY <1>3, ConfirmInv
<1>4. ASSUME NEW r \in Req, NEW u \in User, NEW h \in House, NEW i \in User,
             BeginInvite(r, u, h, i)
      PROVE  IInv'
  BY <1>4, BeginInviteInv
<1>5. ASSUME NEW r \in Req, Work(r) PROVE IInv'
  <2>1. CASE FindInvitee(r)
    BY <2>1, FindInviteeInv
  <2>2. CASE InsertMember(r)
    BY <2>2, InsertMemberInv
  <2>3. CASE LockCode(r)
    BY <2>3, LockCodeInv
  <2>4. CASE ReadMemberships(r)
    BY <2>4, ReadMembershipsInv
  <2>5. CASE ReadOthers(r)
    BY <2>5, ReadOthersInv
  <2>6. CASE Flush(r)
    BY <2>6, FlushInv
  <2>7. CASE Finish(r)
    BY <2>7, FinishInv
  <2>8. CASE DeadlockVictim(r)
    BY <2>8, AbortStep DEF DeadlockVictim
  <2> QED BY <1>5, <2>1, <2>2, <2>3, <2>4, <2>5, <2>6, <2>7, <2>8 DEF Work
<1> QED BY <1>1, <1>2, <1>3, <1>4, <1>5, StutterInv DEF Next

-----------------------------------------------------------------------------

LEMMA Invariance == Spec => []IInv
BY InitInv, NextInv, PTL DEF Spec

\* Every variable keeps its type, for any number of users, households and sessions.
THEOREM HouseholdTypes == Spec => []TypeOK
<1>1. IInv => TypeOK
  BY DEF IInv
<1> QED BY <1>1, Invariance, PTL

\* No membership outlives, or is inserted without, its account and its household,
\* whatever invitations and deletions overlap.
THEOREM MembershipsJoinWhatExists == Spec => []MembersExist
<1>1. IInv => MembersExist
  BY DEF IInv
<1> QED BY <1>1, Invariance, PTL

\* Handing over never makes a second owner, whatever deletions overlap, those of one
\* user included.
THEOREM OwnershipIsUnique == Spec => []OneOwnerAtMost
<1>1. IInv => OneOwnerAtMost
  BY DEF IInv
<1> QED BY <1>1, Invariance, PTL
-----------------------------------------------------------------------------
(* What a deletion that nothing overtook has decided.                      *)

\* The households of the user that a deletion has dealt with, or is to deal with.
Planned(s) == s.todo \cup s.left \cup s.closed \cup {h \in {s.house} : s.pc = "flush"}

\* Deciding op and heir for h is right as the memberships are.
Settled(s, h, op, heir) ==
    LET others == Members(h) \ {s.user} IN
    /\ op = "close" => others = {}
    /\ op = "leave" => others # {} /\ (role[h][s.user] = "owner" => heir \in others)

PlanOK(s) ==
    /\ s.pc \notin Reading => s.left = {} /\ s.closed = {}
    /\ s.pc = "finish" => s.todo = {}
    /\ s.pc = "flush" => s.op \in {"leave", "close"}
    /\ s.pc \in Reading /\ ~ s.stale =>
         /\ \A h \in House : /\ s.loaded[h] = role[h][s.user]
                             /\ h \in Planned(s) <=> role[h][s.user] # "none"
         /\ s.pc = "flush" => Settled(s, s.house, s.op, s.heir)
         /\ \A h \in s.left : Settled(s, h, "leave", s.heirs[h])
         /\ \A h \in s.closed : Settled(s, h, "close", NoUser)

PlansOK == \A r \in Req : PlanOK(req[r])

LEMMA IdlePlan == PlanOK(Idle)
BY DEF Idle, PlanOK, Reading

\* A session moves on; the tables stay.
LEMMA PlanStep ==
    ASSUME IInv, PlansOK, NEW r \in Req, NEW new, Step(r, new), UNCHANGED tables, PlanOK(new)
    PROVE  PlansOK'
<1>1. \A q \in Req : req'[q] = IF q = r THEN new ELSE req[q]
  BY DEF IInv, TypeOK, Step
<1>2. role' = role
  BY DEF tables
<1>3. ASSUME NEW q \in Req PROVE PlanOK(req[q])'
  <2>1. PlanOK(req'[q])
    BY <1>1 DEF PlansOK
  <2> QED BY <1>2, <2>1 DEF PlanOK, Planned, Settled, Members
<1> QED BY <1>3 DEF PlansOK

LEMMA AbortPlan ==
    ASSUME IInv, PlansOK, NEW r \in Req, Abort(r)
    PROVE  PlansOK'
BY IdlePlan, PlanStep DEF Abort

\* Memberships change: whoever has read them is overtaken.
LEMMA PublishPlan ==
    ASSUME IInv, PlansOK, NEW G \in SUBSET Req,
           req' = [q \in Req |-> IF q \in G THEN Idle ELSE Overtaken(req[q])]
    PROVE  PlansOK'
<1> SUFFICES ASSUME NEW q \in Req PROVE PlanOK(req[q])'
  BY DEF PlansOK
<1>1. CASE q \in G
  <2>1. req'[q] = Idle
    BY <1>1
  <2> QED BY <2>1 DEF Idle, PlanOK, Reading
<1>2. CASE q \notin G
  <2>1. req'[q] = Overtaken(req[q])
    BY <1>2
  <2>2. req[q] \in Session /\ PlanOK(req[q])
    BY DEF IInv, TypeOK, PlansOK
  <2>3. /\ req'[q].pc = req[q].pc /\ req'[q].left = req[q].left /\ req'[q].closed = req[q].closed
        /\ req'[q].todo = req[q].todo /\ req'[q].op = req[q].op
        /\ req'[q].pc \in Reading => req'[q].stale
    BY <2>1, <2>2 DEF Overtaken, Session, Reading
  <2> QED BY <2>2, <2>3 DEF PlanOK
<1> QED BY <1>1, <1>2

LEMMA ReadMembershipsPlan ==
    ASSUME IInv, PlansOK, NEW r \in Req, ReadMemberships(r)
    PROVE  PlansOK'
<1> DEFINE s == req[r]
           mine == {h \in House : role[h][s.user] # "none"}
           lo == [h \in House |-> role[h][s.user]]
           new == [s EXCEPT !.pc = Onward(mine), !.todo = mine, !.loaded = lo]
<1>1. s \in Session /\ PlanOK(s) /\ s.pc = "memberships"
  BY DEF IInv, TypeOK, PlansOK, ReadMemberships
<1>2. /\ new.pc = Onward(mine) /\ new.todo = mine /\ new.loaded = lo /\ new.user = s.user
      /\ new.left = s.left /\ new.closed = s.closed
  BY <1>1 DEF Session
<1>3. s.left = {} /\ s.closed = {}
  BY <1>1 DEF PlanOK, Reading
<1>4. Step(r, new) /\ UNCHANGED tables
  BY DEF ReadMemberships
<1> HIDE DEF new
<1>5. PlanOK(new)
  BY <1>2, <1>3 DEF PlanOK, Planned, Onward
<1> QED BY <1>4, <1>5, PlanStep

\* The others are read in the same state: an owner is the only one, and the heir another.
LEMMA ReadOthersPlan ==
    ASSUME IInv, PlansOK, NEW r \in Req, ReadOthers(r)
    PROVE  PlansOK'
<1> DEFINE s == req[r]
           others(h) == Members(h) \ {s.user}
           decided(h, op, heir) ==
               Step(r, [s EXCEPT !.pc = "flush", !.todo = @ \ {h}, !.house = h, !.op = op, !.heir = heir])
           NewHeir(h, x) == IF role[h][x] = "owner" THEN NoUser ELSE x
<1>1. s \in Session /\ PlanOK(s) /\ s.pc = "others" /\ s.user \in User
  BY DEF IInv, TypeOK, PlansOK, ReadOthers, SessionOK
<1>2. PICK h \in s.todo, op \in {"leave", "close"}, heir \in User \cup {NoUser} :
         /\ decided(h, op, heir)
         /\ \/ op = "close" /\ others(h) = {}
            \/ op = "leave" /\ others(h) # {} /\ s.loaded[h] # "owner"
            \/ op = "leave" /\ \E x \in others(h) : heir = NewHeir(h, x)
  <2>1. PICK h \in s.todo :
           \/ others(h) = {} /\ decided(h, "close", NoUser)
           \/ others(h) # {} /\ s.loaded[h] # "owner" /\ decided(h, "leave", NoUser)
           \/ \E x \in others(h) : decided(h, "leave", NewHeir(h, x))
    BY DEF ReadOthers
  <2> HIDE DEF decided
  <2>2. CASE \E x \in others(h) : decided(h, "leave", NewHeir(h, x))
    <3>1. PICK x \in others(h) : decided(h, "leave", NewHeir(h, x))
      BY <2>2
    <3>2. NewHeir(h, x) \in User \cup {NoUser}
      BY <3>1 DEF Members
    <3> HIDE DEF NewHeir
    <3> QED BY <3>1, <3>2
  <2> QED BY <2>1, <2>2
<1> DEFINE new == [s EXCEPT !.pc = "flush", !.todo = @ \ {h}, !.house = h, !.op = op, !.heir = heir]
<1>3. /\ new.pc = "flush" /\ new.user = s.user /\ new.house = h /\ new.heir = heir /\ new.op = op
      /\ new.loaded = s.loaded /\ new.left = s.left /\ new.closed = s.closed /\ new.heirs = s.heirs
      /\ new.todo = s.todo \ {h} /\ new.stale = s.stale /\ h \in House
  BY <1>1 DEF Session
<1>4. Step(r, new) /\ UNCHANGED tables
  BY <1>2 DEF ReadOthers
<1> HIDE DEF new
<1>5. PlanOK(new)
  <2> SUFFICES ASSUME ~ s.stale
               PROVE  /\ \A g \in House : /\ s.loaded[g] = role[g][s.user]
                                          /\ g \in Planned(new) <=> role[g][s.user] # "none"
                      /\ Settled(new, h, op, heir)
                      /\ \A g \in s.left : Settled(new, g, "leave", s.heirs[g])
                      /\ \A g \in s.closed : Settled(new, g, "close", NoUser)
    BY <1>3 DEF PlanOK, Reading
  <2>1. /\ \A g \in House : /\ s.loaded[g] = role[g][s.user]
                            /\ g \in Planned(s) <=> role[g][s.user] # "none"
        /\ \A g \in s.left : Settled(s, g, "leave", s.heirs[g])
        /\ \A g \in s.closed : Settled(s, g, "close", NoUser)
    BY <1>1 DEF PlanOK, Reading
  <2>2. Planned(new) = Planned(s)
    BY <1>1, <1>2, <1>3 DEF Planned
  <2>3. Settled(new, h, op, heir)
    <3>1. CASE op = "close" /\ others(h) = {}
      BY <1>3, <3>1 DEF Settled
    <3>2. CASE op = "leave" /\ others(h) # {} /\ s.loaded[h] # "owner"
      BY <1>3, <2>1, <3>2 DEF Settled
    <3>3. CASE op = "leave" /\ \E x \in others(h) : heir = NewHeir(h, x)
      <4>1. PICK x \in others(h) : heir = NewHeir(h, x)
        BY <3>3
      <4>2. role[h][s.user] = "owner" => role[h][x] # "owner"
        BY <1>1, <1>3, <4>1 DEF IInv, OneOwnerAtMost, Members
      <4> QED BY <1>3, <3>3, <4>1, <4>2 DEF Settled
    <3> QED BY <1>2, <3>1, <3>2, <3>3
  <2> QED BY <1>3, <2>1, <2>2, <2>3 DEF Settled
<1> QED BY <1>4, <1>5, PlanStep

LEMMA FlushPlan ==
    ASSUME IInv, PlansOK, NEW r \in Req, Flush(r)
    PROVE  PlansOK'
<1> DEFINE s == req[r]
           next == Onward(s.todo)
           close == [s EXCEPT !.pc = next, !.closed = @ \cup {s.house}]
           leave == [s EXCEPT !.pc = next, !.left = @ \cup {s.house},
                              !.heirs = [@ EXCEPT ![s.house] = s.heir]]
<1>1. s \in Session /\ PlanOK(s) /\ s.pc = "flush" /\ s.house \in House
  BY DEF IInv, TypeOK, PlansOK, Flush, SessionOK
<1>2. next \in {"others", "finish"} /\ (next = "finish" <=> s.todo = {})
  BY DEF Onward
<1>3. CASE s.op = "close" /\ Step(r, close) /\ UNCHANGED tables
  <2>1. /\ close.pc = next /\ close.user = s.user /\ close.todo = s.todo /\ close.left = s.left
        /\ close.closed = s.closed \cup {s.house} /\ close.heirs = s.heirs
        /\ close.loaded = s.loaded /\ close.stale = s.stale
    BY <1>1 DEF Session
  <2> HIDE DEF close, next
  <2>2. s.pc \in Reading /\ close.pc # "flush" /\ Planned(close) = Planned(s)
    BY <1>1, <1>2, <2>1 DEF Planned, Reading
  <2>3. \A h, op, heir : Settled(close, h, op, heir) <=> Settled(s, h, op, heir)
    BY <2>1 DEF Settled
  <2>4. Settled(s, s.house, "close", s.heir) => Settled(s, s.house, "close", NoUser)
    BY DEF Settled
  <2>5. PlanOK(close)
    BY <1>1, <1>2, <1>3, <2>1, <2>2, <2>3, <2>4 DEF PlanOK, Reading
  <2> QED BY <1>3, <2>5, PlanStep
<1>4. CASE s.op = "leave" /\ Step(r, leave) /\ UNCHANGED tables
  <2>1. /\ leave.pc = next /\ leave.user = s.user /\ leave.todo = s.todo /\ leave.closed = s.closed
        /\ leave.left = s.left \cup {s.house} /\ leave.heirs[s.house] = s.heir
        /\ \A h \in House \ {s.house} : leave.heirs[h] = s.heirs[h]
        /\ leave.loaded = s.loaded /\ leave.stale = s.stale /\ s.left \subseteq House
    BY <1>1 DEF Session
  <2> HIDE DEF leave, next
  <2>2. s.pc \in Reading /\ leave.pc # "flush" /\ Planned(leave) = Planned(s)
    BY <1>1, <1>2, <2>1 DEF Planned, Reading
  <2>3. \A h, op, heir : Settled(leave, h, op, heir) <=> Settled(s, h, op, heir)
    BY <2>1 DEF Settled
  <2>4. ~ s.stale => \A h \in leave.left : Settled(leave, h, "leave", leave.heirs[h])
    <3> SUFFICES ASSUME ~ s.stale, NEW h \in leave.left
                 PROVE  Settled(leave, h, "leave", leave.heirs[h])
      OBVIOUS
    <3>1. CASE h = s.house
      BY <1>1, <1>4, <2>1, <2>2, <2>3, <3>1 DEF PlanOK
    <3>2. CASE h # s.house
      BY <1>1, <2>1, <2>2, <2>3, <3>2 DEF PlanOK
    <3> QED BY <3>1, <3>2
  <2>5. PlanOK(leave)
    BY <1>1, <1>2, <2>1, <2>2, <2>3, <2>4 DEF PlanOK, Reading
  <2> QED BY <1>4, <2>5, PlanStep
<1>5. CASE Abort(r)
  BY <1>5, AbortPlan
<1> QED BY <1>3, <1>4, <1>5 DEF Flush

LEMMA NextPlans ==
    ASSUME IInv, PlansOK, [Next]_vars
    PROVE  PlansOK'
<1>1. ASSUME NEW u \in User, NEW h \in House, Register(u, h) \/ CreateHousehold(u, h)
      PROVE  PlansOK'
  <2>1. req' = [q \in Req |-> IF q \in {} THEN Idle ELSE Overtaken(req[q])]
    BY <1>1 DEF Register, CreateHousehold, Found
  <2>2. {} \in SUBSET Req
    OBVIOUS
  <2> QED BY ONLY IInv, PlansOK, <2>1, <2>2, PublishPlan
<1>2. CASE UNCHANGED <<role, req>>
  BY <1>2 DEF PlansOK, PlanOK, Planned, Settled, Members
<1>3. ASSUME NEW r \in Req, NEW u \in User, Confirm(r, u) PROVE PlansOK'
  <2> DEFINE new == [Idle EXCEPT !.pc = "lock", !.user = u, !.code = code[u]]
  <2>1. PlanOK(new)
    BY DEF Idle, PlanOK, Reading
  <2> QED BY <1>3, <2>1, PlanStep DEF Confirm
<1>4. ASSUME NEW r \in Req, NEW u \in User, NEW h \in House, NEW i \in User,
             BeginInvite(r, u, h, i)
      PROVE  PlansOK'
  <2> DEFINE new == [Idle EXCEPT !.pc = "invitee", !.user = u, !.house = h, !.heir = i]
  <2>1. PlanOK(new)
    BY DEF Idle, PlanOK, Reading
  <2> QED BY <1>4, <2>1, PlanStep DEF BeginInvite
<1>5. ASSUME NEW r \in Req, Work(r) PROVE PlansOK'
  <2> DEFINE s == req[r]
  <2>1. s \in Session /\ PlanOK(s)
    BY DEF IInv, TypeOK, PlansOK
  <2>2. ASSUME NEW p \in {"insert", "memberships"}, s.pc \in {"invitee", "lock"},
               Step(r, [s EXCEPT !.pc = p]), UNCHANGED tables
        PROVE  PlansOK'
    <3>1. PlanOK([s EXCEPT !.pc = p])
      BY <2>1, <2>2 DEF PlanOK, Reading, Session
    <3> QED BY <2>2, <3>1, PlanStep
  <2>3. ASSUME StepAndPublish(r) PROVE PlansOK'
    <3>1. req' = [q \in Req |-> IF q \in {r} THEN Idle ELSE Overtaken(req[q])]
      BY <2>3 DEF StepAndPublish
    <3> QED BY <3>1, PublishPlan
  <2>4. CASE FindInvitee(r)
    BY <2>2, <2>4, AbortPlan DEF FindInvitee
  <2>5. CASE InsertMember(r)
    BY <2>3, <2>5, AbortPlan DEF InsertMember
  <2>6. CASE LockCode(r)
    BY <2>2, <2>6, AbortPlan DEF LockCode
  <2>7. CASE ReadMemberships(r)
    BY <2>7, ReadMembershipsPlan
  <2>8. CASE ReadOthers(r)
    BY <2>8, ReadOthersPlan
  <2>9. CASE Flush(r)
    BY <2>9, FlushPlan
  <2>10. CASE Finish(r)
    BY <2>3, <2>10 DEF Finish
  <2>11. CASE DeadlockVictim(r)
    BY <2>11, AbortPlan DEF DeadlockVictim
  <2> QED BY <1>5, <2>4, <2>5, <2>6, <2>7, <2>8, <2>9, <2>10, <2>11 DEF Work
<1>6. ASSUME NEW u \in User, RequestDeletion(u) PROVE PlansOK'
  BY <1>2, <1>6 DEF RequestDeletion
<1> QED BY <1>1, <1>2, <1>3, <1>4, <1>5, <1>6 DEF Next, vars, tables

\* A deletion takes effect only when its own session finishes it.
LEMMA OnlyFinishWipes ==
    ASSUME IInv, [Next]_vars, NEW r \in Req, Wiped(r)
    PROVE  Finish(r)
<1>1. req[r] \in Session /\ req[r].pc = "finish" /\ users' # users /\ req'[r].pc = "idle"
      /\ ~ (users \subseteq users')
  BY DEF IInv, TypeOK, Wiped
<1>2. Overtaken(req[r]).pc = "finish"
  BY <1>1, OvertakenOK
<1>3. ASSUME NEW q \in Req, q # r, StepAndPublish(q) PROVE FALSE
  BY <1>1, <1>2, <1>3 DEF StepAndPublish
<1>4. ASSUME NEW u \in User, NEW h \in House, Register(u, h) \/ CreateHousehold(u, h)
      PROVE  FALSE
  BY <1>1, <1>4 DEF Register, CreateHousehold
<1>5. ~ UNCHANGED tables
  BY <1>1 DEF tables
<1>6. ASSUME NEW q \in Req, Work(q) PROVE Finish(r)
  <2>1. Finish(q)
    BY <1>1, <1>5, <1>6 DEF Work, FindInvitee, InsertMember, LockCode, ReadMemberships, ReadOthers,
                            Flush, DeadlockVictim, Abort, tables
  <2> QED BY <1>3, <2>1 DEF Finish
<1> QED BY <1>1, <1>4, <1>5, <1>6 DEF Next, vars, tables, RequestDeletion, Confirm, BeginInvite

LEMMA WipeHandsOver ==
    ASSUME IInv, PlansOK, NEW r \in Req, Finish(r), ~ req[r].stale, NEW h \in houses
    PROVE  LET u == req[r].user
               others == Members(h) \ {u} IN
           /\ h \notin houses' <=> (role[h][u] # "none" /\ others = {})
           /\ role[h][u] = "owner" /\ others # {} =>
                 \E heir \in others : role'[h][heir] = "owner"
<1> DEFINE s == req[r]
           u == s.user
           others == Members(h) \ {u}
<1>1. s \in Session /\ PlanOK(s) /\ s.pc = "finish" /\ h \in House /\ s.todo = {}
  BY DEF IInv, TypeOK, PlansOK, PlanOK, Finish
<1>2. /\ h \in s.left \cup s.closed <=> role[h][u] # "none"
      /\ h \in s.left => Settled(s, h, "leave", s.heirs[h])
      /\ h \in s.closed => Settled(s, h, "close", NoUser)
  BY <1>1 DEF PlanOK, Planned, Reading
<1>3. h \notin houses' <=> h \in s.closed
  BY DEF Finish
<1>4. h \in s.closed => others = {}
  BY <1>2 DEF Settled
<1>5. h \in s.left => /\ others # {}
                      /\ role[h][u] = "owner" => s.heirs[h] \in others
  BY <1>2 DEF Settled
<1>6. ASSUME role[h][u] = "owner", others # {}
      PROVE  \E heir \in others : role'[h][heir] = "owner"
  <2>1. s.heirs[h] \in others /\ h \notin s.closed
    BY <1>2, <1>4, <1>5, <1>6
  <2>2. role'[h][s.heirs[h]] = "owner"
    BY <1>1, <2>1 DEF Finish, Members
  <2> QED BY <2>1, <2>2
<1> QED BY <1>2, <1>3, <1>4, <1>5, <1>6

\* A deletion that nothing overtook hands each household on to one of those left in it,
\* and takes along those where nobody is.
THEOREM HandingOverIsClean == Spec => CleanWipeHandsOver
<1> DEFINE Inv == IInv /\ PlansOK
<1>1. Init => Inv
  BY InitInv, IdlePlan DEF Init, PlansOK, PlanOK, Idle, Reading
<1>2. Inv /\ [Next]_vars => Inv'
  BY NextInv, NextPlans
<1>3. Inv /\ [Next]_vars =>
        [\A r \in Req :
           LET u == req[r].user
           IN  Wiped(r) /\ ~ req[r].stale =>
                 \A h \in houses :
                    LET others == Members(h) \ {u} IN
                    /\ h \notin houses' <=> (role[h][u] # "none" /\ others = {})
                    /\ role[h][u] = "owner" /\ others # {} =>
                          \E heir \in others : role'[h][heir] = "owner"]_vars
  <2> SUFFICES ASSUME IInv, PlansOK, [Next]_vars, NEW r \in Req, Wiped(r), ~ req[r].stale,
                      NEW h \in houses
               PROVE  LET u == req[r].user
                          others == Members(h) \ {u} IN
                      /\ h \notin houses' <=> (role[h][u] # "none" /\ others = {})
                      /\ role[h][u] = "owner" /\ others # {} =>
                            \E heir \in others : role'[h][heir] = "owner"
    OBVIOUS
  <2> QED BY OnlyFinishWipes, WipeHandsOver
<1> QED BY <1>1, <1>2, <1>3, PTL DEF Spec, CleanWipeHandsOver
=============================================================================
