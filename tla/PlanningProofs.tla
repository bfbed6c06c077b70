-------------------------- MODULE PlanningProofs --------------------------
(***************************************************************************)
(* Theorems about Planning: for any number of requests, goals, categories, *)
(* months, and any PATCH.                                                  *)
(***************************************************************************)
EXTENDS Planning, ProjectionProofs

-----------------------------------------------------------------------------
(* Rows and their values.                                                  *)

LEMMA RowNames ==
    /\ \A g : GoalRow(g)[1] = "goal" /\ GoalRow(g)[2] = g
    /\ \A g, k : PlanRow(g, k)[1] = "plan"
    /\ Budget[1] = "budget"
    /\ \A m : Period(m)[1] = "period" /\ Period(m)[2] = m
    /\ \A m, c : Target(m, c)[1] = "target" /\ Target(m, c)[2] = m /\ Target(m, c)[3] = c
    /\ \A c : Preference(c)[1] = "preference" /\ Preference(c)[2] = c
    /\ \A m, n, c, d : Target(m, c) = Target(n, d) => m = n /\ c = d
    /\ \A m, n : Period(m) = Period(n) => m = n
    /\ \A g, h : GoalRow(g) = GoalRow(h) => g = h
BY DEF GoalRow, PlanRow, Budget, Period, Target, Preference

LEMMA RowsAre ==
    /\ \A g \in Goal : GoalRow(g) \in Row
    /\ \A g \in Goal, k \in 1..MaxPlan : PlanRow(g, k) \in Row
    /\ Budget \in Row
    /\ \A m \in Month : Period(m) \in Row
    /\ \A m \in Month, c \in Category : Target(m, c) \in Row
    /\ \A c \in Category : Preference(c) \in Row
BY RowAssumption DEF Rows

LEMMA RowKinds ==
    ASSUME NEW x \in Row
    PROVE  \/ \E g \in Goal : x = GoalRow(g)
           \/ \E g \in Goal, k \in 1..MaxPlan : x = PlanRow(g, k)
           \/ x = Budget
           \/ \E m \in Month : x = Period(m)
           \/ \E m \in Month, c \in Category : x = Target(m, c)
           \/ \E c \in Category : x = Preference(c)
BY RowAssumption DEF Rows

\* What is sent is a row of its table, and a change is never sent as a deletion.
LEMMA SentTyped ==
    ASSUME NEW x, x[1] \in {"goal", "budget", "period", "target", "preference"},
           NEW change, NEW now,
           ValueOK(x, change.was), ValueOK(x, change.new), ValueOK(x, now),
           ~ Clash(change, now)
    PROVE  /\ ValueOK(x, Sent(change, now))
           /\ change.new # NoRow => Sent(change, now) # NoRow
<1> SUFFICES ASSUME now # NoRow, change.new # NoRow
             PROVE  ValueOK(x, Sent(change, now)) /\ Sent(change, now) # NoRow
  BY DEF Sent
<1>1. change.was # NoRow
  BY DEF Clash
<1> DEFINE value(f) == IF change.was[f] = change.new[f] THEN now[f] ELSE change.new[f]
           sent == Sent(change, now)
<1>2. sent = [f \in DOMAIN now |-> value(f)]
  BY DEF Sent
<1>3. CASE x[1] = "goal"
  <2>1. change.was \in Goals /\ change.new \in Goals /\ now \in Goals
    BY <1>1, <1>3 DEF ValueOK
  <2>2. /\ value("target") \in Nat /\ value("current") \in Nat /\ value("date") \in Nat
        /\ value("status") \in {"active", "paused", "completed"}
    BY <2>1 DEF Goals
  <2>3. sent = [target |-> value("target"), current |-> value("current"),
                date |-> value("date"), status |-> value("status")]
    BY <1>2, <2>1 DEF Goals
  <2>4. sent \in Goals
    <3> HIDE DEF value, sent
    <3> QED BY <2>2, <2>3 DEF Goals
  <2> QED BY <1>1, <1>3, <2>4, NoRowAssumption DEF ValueOK
<1>4. CASE x[1] \in {"budget", "period"}
  <2>1. change.was = Exists /\ change.new = Exists /\ now = Exists
    BY <1>1, <1>4 DEF ValueOK
  <2>2. sent = Exists
    BY <1>2, <2>1 DEF Exists
  <2> QED BY <1>1, <1>4, <2>2, NoRowAssumption DEF ValueOK
<1>5. CASE x[1] = "target"
  <2>1. change.was \in Targets /\ change.new \in Targets /\ now \in Targets
    BY <1>1, <1>5 DEF ValueOK
  <2>2. sent = [target |-> value("target")] /\ value("target") \in Nat
    BY <1>2, <2>1 DEF Targets
  <2>3. sent \in Targets
    <3> HIDE DEF value, sent
    <3> QED BY <2>2 DEF Targets
  <2> QED BY <1>1, <1>5, <2>3, NoRowAssumption DEF ValueOK
<1>6. CASE x[1] = "preference"
  <2>1. change.was \in Preferences /\ change.new \in Preferences /\ now \in Preferences
    BY <1>1, <1>6 DEF ValueOK
  <2>2. /\ sent = [icon |-> value("icon"), color |-> value("color")]
        /\ value("icon") \in Icon /\ value("color") \in Color
    BY <1>2, <2>1 DEF Preferences
  <2>3. sent \in Preferences
    <3> HIDE DEF value, sent
    <3> QED BY <2>2 DEF Preferences
  <2> QED BY <1>1, <1>6, <2>3, NoRowAssumption DEF ValueOK
<1> QED BY <1>3, <1>4, <1>5, <1>6

-----------------------------------------------------------------------------
(* Edits of a goal.                                                        *)

GoalOf(target, current, date, status) ==
    [target |-> target, current |-> current, date |-> date, status |-> status]

LEMMA GoalsAre ==
    /\ \A goal \in Goals : goal = GoalOf(goal.target, goal.current, goal.date, goal.status)
    /\ \A goal \in Goals : DOMAIN goal = {"target", "current", "date", "status"}
    /\ \A t, c, d, s : LET goal == GoalOf(t, c, d, s) IN
         goal.target = t /\ goal.current = c /\ goal.date = d /\ goal.status = s
BY DEF Goals, GoalOf

\* The columns of a PATCH.
Column(goal, patch, f) == IF f \in DOMAIN patch THEN patch[f] ELSE goal[f]
Columnwise(goal, patch) ==
    GoalOf(Column(goal, patch, "target"), Column(goal, patch, "current"),
           Column(goal, patch, "date"), Column(goal, patch, "status"))

Full(goal) == GoalOf(goal.target, goal.target, goal.date, "completed")

LEMMA FullIs ==
    ASSUME NEW goal \in Goals
    PROVE  [goal EXCEPT !.current = goal.target, !.status = "completed"] = Full(goal)
<1> DEFINE first == [goal EXCEPT !.current = goal.target]
<1>1. first = GoalOf(goal.target, goal.target, goal.date, goal.status)
  BY DEF Goals, GoalOf
<1> HIDE DEF first
<1>2. [first EXCEPT !.status = "completed"] = Full(goal)
  BY <1>1 DEF GoalOf, Full
<1> QED BY <1>2, Zenon DEF first

LEMMA ContributedIs ==
    ASSUME NEW goal \in Goals, NEW amount
    PROVE  Contributed(goal, amount) =
             IF goal.current + amount >= goal.target THEN Full(goal)
             ELSE GoalOf(goal.target, goal.current + amount, goal.date, goal.status)
<1>1. [goal EXCEPT !.current = goal.target, !.status = "completed"] = Full(goal)
  BY FullIs
<1>2. [goal EXCEPT !.current = @ + amount] =
        GoalOf(goal.target, goal.current + amount, goal.date, goal.status)
  BY DEF Goals, GoalOf
<1> QED BY <1>1, <1>2 DEF Contributed

LEMMA PatchedIs ==
    ASSUME NEW goal \in Goals, NEW patch \in Patches
    PROVE  LET new == Columnwise(goal, patch) IN
           /\ new \in Goals
           /\ Patched(goal, patch) = IF new.current >= new.target /\ new.status = "active"
                                       THEN Full(new) ELSE new
<1> DEFINE new == Columnwise(goal, patch)
<1>1. /\ Column(goal, patch, "target") \in Nat /\ Column(goal, patch, "current") \in Nat
      /\ Column(goal, patch, "date") \in Nat
      /\ Column(goal, patch, "status") \in {"active", "paused", "completed"}
  BY DataAssumption DEF Goals, Column
<1>2. new \in Goals
  BY <1>1 DEF Goals, GoalOf, Columnwise
<1> DEFINE merged == [f \in DOMAIN goal |-> IF f \in DOMAIN patch THEN patch[f] ELSE goal[f]]
<1>3. merged = new
  BY DEF Goals, GoalOf, Columnwise, Column
<1>4. [merged EXCEPT !.current = merged.target, !.status = "completed"] = Full(merged)
  BY <1>2, <1>3, FullIs
<1>5. Patched(goal, patch) =
        IF merged.current >= merged.target /\ merged.status = "active"
          THEN [merged EXCEPT !.current = merged.target, !.status = "completed"] ELSE merged
  BY Zenon DEF Patched
<1> HIDE DEF merged, new
<1> QED BY <1>2, <1>3, <1>4, <1>5 DEF new

\* A contribution or an update makes a goal of a goal, and none that is active and full.
LEMMA EditsAreGoals ==
    ASSUME NEW goal \in Goals, NEW kind \in {"contribute", "patch"}, NEW new,
           kind = "contribute" => new \in Nat, kind = "patch" => new \in Patches
    PROVE  /\ Edited(kind, goal, new) \in Goals
           /\ Edited(kind, goal, new).status = "active" =>
                Edited(kind, goal, new).current < Edited(kind, goal, new).target
<1>1. CASE kind = "contribute"
  <2>1. Edited(kind, goal, new) = Contributed(goal, new)
    BY <1>1 DEF Edited
  <2> QED BY <1>1, <2>1, ContributedIs DEF Goals, GoalOf, Full
<1>2. CASE kind = "patch"
  <2> DEFINE p == Columnwise(goal, new)
  <2>1. /\ p \in Goals
        /\ Edited(kind, goal, new) =
             IF p.current >= p.target /\ p.status = "active" THEN Full(p) ELSE p
    BY <1>2, PatchedIs DEF Edited
  <2> HIDE DEF p
  <2> QED BY <2>1 DEF Goals, GoalOf, Full
<1> QED BY <1>1, <1>2

\* Of a goal that agrees in the columns the edit goes by, the columns sent make the same.
LEMMA EditsAgree ==
    ASSUME NEW goal \in Goals, NEW now \in Goals, NEW kind \in {"contribute", "patch"}, NEW new,
           kind = "contribute" => new \in Nat, kind = "patch" => new \in Patches,
           \A f \in {"target", "current", "status"} : now[f] = goal[f],
           kind = "patch" => \A f \in DOMAIN new : now[f] = goal[f]
    PROVE  Sent(Change(goal, Edited(kind, goal, new)), now) = Edited(kind, now, new)
<1> DEFINE columns == {"target", "current", "date", "status"}
           edited == Edited(kind, goal, new)
           result == Edited(kind, now, new)
<1>1. edited \in Goals /\ result \in Goals
  BY EditsAreGoals
<1>2. Sent(Change(goal, edited), now) =
        [f \in columns |-> IF goal[f] = edited[f] THEN now[f] ELSE edited[f]]
  <2>1. now # NoRow /\ edited # NoRow /\ DOMAIN now = columns
    BY <1>1, NoRowAssumption, GoalsAre
  <2> HIDE DEF edited, columns
  <2> QED BY <2>1 DEF Sent, Change
<1>3. now.target = goal.target /\ now.current = goal.current /\ now.status = goal.status
  OBVIOUS
<1>4. /\ edited.target = result.target /\ edited.current = result.current
      /\ edited.status = result.status
      /\ \/ edited.date = result.date /\ now.date = goal.date
         \/ edited.date = goal.date /\ result.date = now.date
  <2>1. CASE kind = "contribute"
    <3>1. edited = Contributed(goal, new) /\ result = Contributed(now, new)
      BY <2>1 DEF Edited
    <3> QED BY <1>3, <3>1, ContributedIs DEF GoalOf, Full
  <2>2. CASE kind = "patch"
    <3> DEFINE p == Columnwise(goal, new)
               q == Columnwise(now, new)
    <3>1. /\ edited = IF p.current >= p.target /\ p.status = "active" THEN Full(p) ELSE p
          /\ result = IF q.current >= q.target /\ q.status = "active" THEN Full(q) ELSE q
      BY <2>2, PatchedIs DEF Edited
    <3>2. /\ p.target = q.target /\ p.current = q.current /\ p.status = q.status
          /\ \/ p.date = q.date /\ now.date = goal.date
             \/ p.date = goal.date /\ q.date = now.date
      BY <1>3, <2>2 DEF Columnwise, Column, GoalOf
    <3> HIDE DEF p, q, edited, result
    <3> QED BY <3>1, <3>2 DEF GoalOf, Full
  <2> QED BY <2>1, <2>2
<1>5. result = [f \in columns |-> result[f]]
  BY <1>1 DEF Goals
<1> HIDE DEF edited, result
<1>6. \A f \in columns : (IF goal[f] = edited[f] THEN now[f] ELSE edited[f]) = result[f]
  BY <1>3, <1>4
<1> HIDE DEF columns
<1> QED BY <1>2, <1>5, <1>6 DEF edited, result

LEMMA NothingEdited ==
    ASSUME NEW goal \in Goals, NEW now \in Goals
    PROVE  Sent(Change(goal, goal), now) = now
BY NoRowAssumption DEF Sent, Change, Goals
-----------------------------------------------------------------------------
(* The inductive invariant.                                                *)

\* Rows that are never deleted.
Lasting(x) == x[1] \in {"budget", "period", "target", "preference"}

Writes(r) == DOMAIN want[r] \cup DOMAIN held[r]

Steps(kind) ==
    CASE kind \in {"create", "budget", "propose", "preference"} -> {"store"}
      [] kind \in {"contribute", "patch", "delete"} -> {"apply", "store"}
      [] kind = "plan" -> {"sum", "spend", "plan", "store"}
      [] kind = "target" -> {"period", "target", "store"}
      [] OTHER -> {}

\* What a request is about.
LocalOK(s) ==
    /\ DOMAIN s = {"pc", "kind", "goal", "row", "new", "ledger", "period", "behind"}
    /\ s.kind \in Kind /\ s.period \in 0..MaxMonth /\ s.behind \in BOOLEAN
    /\ s.goal \in Goals \cup {NoRow} /\ s.row \in Row \cup {NoRow}
    /\ s = Idle \/ s.pc \in Steps(s.kind)
    /\ s.kind \in {"contribute", "patch", "delete", "plan"} =>
         s.goal \in Goals /\ \E g \in Goal : s.row = GoalRow(g)
    /\ s.kind = "create" => s.new \in Goals /\ \E g \in Goal : s.row = GoalRow(g)
    /\ s.kind = "contribute" => s.new \in Nat
    /\ s.kind = "patch" => s.new \in Patches
    /\ s.kind = "target" =>
         /\ s.new \in [category : Category, target : Nat]
         /\ s.pc # "period" => s.period \in Month /\ s.row = Target(s.period, s.new.category)
    /\ s.kind = "preference" => s.new \in Preferences /\ \E c \in Category : s.row = Preference(c)
    /\ s.kind \in {"budget", "propose"} => s.row = Budget
    /\ s.pc \in {"spend", "plan"} =>
         s.ledger.surplus \in Int /\ DOMAIN s.ledger = {"surplus", "spend"}

\* The rows a request may have pending or sent.
InScope(s, x) ==
    CASE s.pc = "target" -> x = Period(s.period)
      [] s.pc = "store" /\ s.kind = "plan" -> x[1] = "plan"
      [] s.pc = "store" /\ s.kind \in {"budget", "propose"} ->
           x \in Row /\ x[1] \in {"budget", "period", "target"}
      [] s.pc = "store" /\ s.kind = "target" -> x \in {Period(s.period), s.row}
      [] s.pc = "store" /\ s.kind \notin {"plan", "budget", "propose", "target"} -> x = s.row
      [] OTHER -> FALSE

WritesOK(r) ==
    /\ \A x \in Writes(r) : InScope(at[r], x)
    /\ DOMAIN want[r] \cap DOMAIN held[r] = {}
    /\ \A x \in DOMAIN want[r] : /\ Lasting(x) => want[r][x].new # NoRow
                                 /\ x[1] = "plan" => want[r][x].was = NoRow
    /\ \A x \in DOMAIN held[r] : Lasting(x) => held[r][x] # NoRow

\* What a request stores hangs together.
Hangs(r) ==
    LET Has(x) == x \in Writes(r) \/ db[x] # NoRow IN
    /\ at[r].kind = "target" => db[Budget] # NoRow
    /\ \A m \in Month : Period(m) \in Writes(r) => Has(Budget)
    /\ \A m \in Month, c \in Category : Target(m, c) \in Writes(r) => Has(Period(m))
    /\ at[r].pc = "target" => Has(Period(at[r].period))

\* What a request goes by is as it was, unless it is behind.
Current(r) ==
    LET s == at[r] IN
    s.kind \in {"contribute", "patch"} /\ ~ s.behind =>
        db[s.row] # NoRow /\ \A f \in Columns(s) : db[s.row][f] = s.goal[f]

\* What is pending, sent or dropped as no change is what the request makes of its row.
Makes(r) ==
    LET s == at[r]
        x == s.row
        w == want[r]
        h == held[r]
        result == Alone(s, s.goal)
    IN  s.pc = "store" =>
        /\ s.kind = "create" => /\ x \in Writes(r)
                                /\ x \in DOMAIN w => w[x].was = NoRow /\ w[x].new = s.new
                                /\ x \in DOMAIN h => h[x] = s.new
        /\ s.kind \in {"contribute", "patch"} =>
             /\ x \in DOMAIN w => w[x].was = s.goal /\ w[x].new = result
             /\ x \in DOMAIN h /\ ~ s.behind => h[x] = Sent(Change(s.goal, result), db[x])
             /\ x \in Writes(r) \/ s.goal = result
        /\ s.kind \in {"target", "preference"} =>
             /\ x \in DOMAIN w => w[x].was # w[x].new /\ w[x].new = result
             /\ x \in DOMAIN w /\ ~ s.behind => w[x].was = db[x]
             /\ x \in DOMAIN h /\ ~ s.behind => h[x] = result
             /\ x \notin Writes(r) /\ ~ s.behind => db[x] = result

RequestOK(r) == LocalOK(at[r]) /\ WritesOK(r) /\ Hangs(r) /\ Current(r) /\ Makes(r)

IInv ==
    /\ TypeOK /\ LocksExclude /\ AsIfOneByOne /\ NothingDangles
    /\ DOMAIN at = Req /\ DOMAIN want = Req /\ DOMAIN held = Req
    /\ \A r \in Req : RequestOK(r)

-----------------------------------------------------------------------------
(* Steps that leave changes pending, or none.                              *)

LEMMA IdleIs ==
    /\ Idle.pc = "idle" /\ Idle.kind = "none" /\ Idle.goal = NoRow /\ Idle.row = NoRow
    /\ Idle.new = NoRow /\ Idle.ledger = NoRow /\ Idle.period = 0 /\ Idle.behind = FALSE
    /\ LocalOK(Idle)
    /\ \A x : ~ InScope(Idle, x)
BY BoundAssumption DEF Idle, LocalOK, InScope, Kind

LEMMA StepsAre ==
    /\ \A kind \in {"create", "budget", "propose", "preference"} : Steps(kind) = {"store"}
    /\ \A kind \in {"contribute", "patch", "delete"} : Steps(kind) = {"apply", "store"}
    /\ Steps("plan") = {"sum", "spend", "plan", "store"}
    /\ Steps("target") = {"period", "target", "store"}
    /\ Steps("none") = {}
BY DEF Steps

LEMMA ScopesAre ==
    ASSUME NEW s, s.pc = "store", NEW x
    PROVE  /\ s.kind \in {"create", "contribute", "patch", "delete", "preference"} =>
                (InScope(s, x) <=> x = s.row)
           /\ s.kind = "plan" => (InScope(s, x) <=> x[1] = "plan")
           /\ s.kind \in {"budget", "propose"} =>
                (InScope(s, x) <=> x \in Row /\ x[1] \in {"budget", "period", "target"})
           /\ s.kind = "target" => (InScope(s, x) <=> x \in {Period(s.period), s.row})
BY DEF InScope

LEMMA Places ==
    ASSUME NEW s, LocalOK(s)
    PROVE  s.pc \in {"idle", "apply", "sum", "spend", "plan", "period", "target", "store"}
<1>1. CASE s = Idle
  BY <1>1, IdleIs
<1>2. CASE s.pc \in Steps(s.kind)
  BY <1>2 DEF Steps
<1> QED BY <1>1, <1>2 DEF LocalOK

\* An idle request has nothing in its session.
LEMMA IdleWrites ==
    ASSUME IInv, NEW r \in Req, at[r].pc = "idle"
    PROVE  at[r] = Idle /\ DOMAIN want[r] = {} /\ DOMAIN held[r] = {} /\ Writes(r) = {}
<1>1. LocalOK(at[r]) /\ WritesOK(r)
  BY DEF IInv, RequestOK
<1>2. at[r] = Idle
  BY <1>1 DEF LocalOK, Steps
<1> QED BY <1>1, <1>2, IdleIs DEF WritesOK, Writes

LEMMA Frame ==
    ASSUME NEW q \in Req, RequestOK(q), at'[q] = at[q], want'[q] = want[q], held'[q] = held[q],
           db' = db
    PROVE  RequestOK(q)'
BY DEF RequestOK, WritesOK, Writes, Hangs, Current, Makes

\* A step of one request that stores nothing and sends nothing.
LEMMA PendStep ==
    ASSUME IInv, NEW r \in Req, NEW new, NEW c,
           at' = [at EXCEPT ![r] = new],
           want' = [want EXCEPT ![r] = c] \/ (want' = want /\ c = want[r]),
           UNCHANGED <<db, held, scene, month, ledger, serial>>,
           LocalOK(new), \A x \in DOMAIN c : ValueOK(x, c[x].was) /\ ValueOK(x, c[x].new),
           at'[r] = new /\ want'[r] = c /\ held'[r] = held[r] =>
             WritesOK(r)' /\ Hangs(r)' /\ Current(r)' /\ Makes(r)'
    PROVE  IInv'
<1>1. /\ at'[r] = new /\ want'[r] = c /\ held'[r] = held[r]
      /\ \A q \in Req \ {r} : at'[q] = at[q] /\ want'[q] = want[q] /\ held'[q] = held[q]
      /\ DOMAIN at' = Req /\ DOMAIN want' = Req /\ DOMAIN held' = Req
  BY DEF IInv
<1>2. RequestOK(r)'
  BY <1>1 DEF RequestOK, LocalOK
<1>3. \A q \in Req : RequestOK(q)'
  <2> SUFFICES ASSUME NEW q \in Req, q # r PROVE RequestOK(q)'
    BY <1>2
  <2>1. RequestOK(q)
    BY DEF IInv
  <2> QED BY <1>1, <2>1, Frame
<1>4. TypeOK'
  <2>1. \A q \in Req : LocalOK(at'[q])
    BY <1>3 DEF RequestOK, LocalOK
  <2>2. \A q \in Req : at'[q].pc \in {"idle", "apply", "sum", "spend", "plan", "period", "target", "store"}
    BY <2>1, Places
  <2>3. \A q \in Req : \A x \in DOMAIN held'[q] : ValueOK(x, held'[q][x])
    BY DEF IInv, TypeOK
  <2>4. \A q \in Req : \A x \in DOMAIN want'[q] :
           ValueOK(x, want'[q][x].was) /\ ValueOK(x, want'[q][x].new)
    BY <1>1 DEF IInv, TypeOK
  <2>5. \A q \in Req : /\ at'[q].kind \in Kind /\ at'[q].period \in 0..MaxMonth
                       /\ at'[q].behind \in BOOLEAN /\ at'[q].goal \in Goals \cup {NoRow}
                       /\ at'[q].row \in Row \cup {NoRow}
    BY <2>1 DEF LocalOK
  <2>6. TypeOK
    BY DEF IInv
  <2>7. DOMAIN db' = Row /\ \A x \in Row : ValueOK(x, db'[x]) /\ ValueOK(x, serial'[x])
    BY <2>6 DEF TypeOK
  <2>8. month' \in Month /\ ledger' \in Ledgers /\ scene' \in Scenes
    BY <2>6 DEF TypeOK
  <2> QED BY <2>2, <2>3, <2>4, <2>5, <2>7, <2>8, Zenon DEF TypeOK
<1>5. LocksExclude' /\ AsIfOneByOne' /\ NothingDangles'
  BY DEF IInv, LocksExclude, AsIfOneByOne, NothingDangles
<1> QED BY <1>1, <1>3, <1>4, <1>5 DEF IInv

-----------------------------------------------------------------------------
(* Requests begin.                                                         *)

LEMMA CreateStep ==
    ASSUME IInv, NEW r \in Req, CreateGoal(r)
    PROVE  IInv'
<1>1. PICK g \in Goal, goal \in Goals : Create(r, g, goal)
  BY DataAssumption DEF CreateGoal, IInv, TypeOK
<1> DEFINE new == [Idle EXCEPT !.pc = "store", !.kind = "create", !.row = GoalRow(g), !.new = goal]
           c == Becomes(GoalRow(g), NoRow, goal)
<1>2. /\ new.pc = "store" /\ new.kind = "create" /\ new.goal = NoRow /\ new.row = GoalRow(g)
      /\ new.new = goal /\ new.period = 0 /\ new.behind = FALSE
      /\ DOMAIN new = {"pc", "kind", "goal", "row", "new", "ledger", "period", "behind"}
  BY DEF Idle
<1>3. /\ DOMAIN c = {GoalRow(g)}
      /\ c[GoalRow(g)].was = NoRow /\ c[GoalRow(g)].new = goal
  <2>1. NoRow # goal
    BY NoRowAssumption
  <2> QED BY <2>1 DEF Becomes, Changes, Change
<1>4. at' = [at EXCEPT ![r] = new] /\ want' = [want EXCEPT ![r] = c]
      /\ UNCHANGED <<db, held, scene, month, ledger, serial>>
  <2>1. Pend(r, c) /\ Go(r, new)
    BY <1>1, Zenon DEF Create
  <2> HIDE DEF new, c
  <2> QED BY <2>1 DEF Pend, Go
<1>5. DOMAIN held[r] = {}
  BY <1>1, IdleWrites DEF CreateGoal, Starts
<1> HIDE DEF new, c
<1>6. LocalOK(new)
  <2>1. new.pc \in Steps(new.kind) /\ new.kind \in Kind /\ new.row \in Row /\ new.period \in 0..MaxMonth
    BY <1>2, BoundAssumption, RowsAre, StepsAre DEF Kind
  <2> QED BY <1>2, <2>1 DEF LocalOK
<1>7. \A x \in DOMAIN c : ValueOK(x, c[x].was) /\ ValueOK(x, c[x].new)
  BY <1>3, RowNames DEF ValueOK
<1>8. ASSUME at'[r] = new, want'[r] = c, held'[r] = held[r]
      PROVE  WritesOK(r)' /\ Hangs(r)' /\ Current(r)' /\ Makes(r)'
  <2>1. Writes(r)' = {GoalRow(g)}
    BY <1>3, <1>5, <1>8 DEF Writes
  <2>2. WritesOK(r)'
    BY <1>2, <1>3, <1>5, <1>8, <2>1, RowNames, ScopesAre DEF WritesOK, Lasting
  <2>3. Hangs(r)'
    BY <1>2, <1>8, <2>1, RowNames DEF Hangs
  <2>4. Current(r)'
    BY <1>2, <1>8 DEF Current
  <2>5. Makes(r)'
    BY <1>2, <1>3, <1>5, <1>8, <2>1 DEF Makes
  <2> QED BY <2>2, <2>3, <2>4, <2>5
<1> QED BY <1>4, <1>6, <1>7, <1>8, PendStep

Fields == {"pc", "kind", "goal", "row", "new", "ledger", "period", "behind"}

\* A request that has nothing pending or sent, and goes on without.
LEMMA QuietStep ==
    ASSUME IInv, NEW r \in Req, NEW new, Go(r, new), UNCHANGED session,
           Writes(r) = {}, LocalOK(new), new.pc \in Steps(new.kind), new.pc \notin {"store", "target"},
           new.kind = "target" => db[Budget] # NoRow,
           new.kind \in {"contribute", "patch"} /\ ~ new.behind =>
             db[new.row] # NoRow /\ \A f \in Columns(new) : db[new.row][f] = new.goal[f]
    PROVE  IInv'
<1>1. /\ at' = [at EXCEPT ![r] = new] /\ want' = want
      /\ UNCHANGED <<db, held, scene, month, ledger, serial>>
  BY DEF Go, session, IInv
<1>2. \A x \in DOMAIN want[r] : ValueOK(x, want[r][x].was) /\ ValueOK(x, want[r][x].new)
  BY DEF Writes
<1>3. ASSUME at'[r] = new, want'[r] = want[r], held'[r] = held[r]
      PROVE  WritesOK(r)' /\ Hangs(r)' /\ Current(r)' /\ Makes(r)'
  <2>1. Writes(r)' = {} /\ DOMAIN want'[r] = {} /\ DOMAIN held'[r] = {}
    BY <1>3 DEF Writes
  <2>2. WritesOK(r)'
    BY <2>1 DEF WritesOK
  <2>3. Hangs(r)'
    BY <1>1, <1>3, <2>1 DEF Hangs
  <2>4. Current(r)'
    BY <1>1, <1>3 DEF Current
  <2>5. Makes(r)'
    BY <1>3 DEF Makes
  <2> QED BY <2>2, <2>3, <2>4, <2>5
<1> QED BY <1>1, <1>2, <1>3, PendStep

LEMMA LoadStep ==
    ASSUME IInv, NEW r \in Req, NEW kind, NEW g \in Goal, NEW pc, NEW what, Load(r, kind, g, pc, what),
           \/ kind = "contribute" /\ what \in Nat /\ pc = "apply"
           \/ kind = "patch" /\ what \in Patches /\ pc = "apply"
           \/ kind = "delete" /\ pc = "apply"
           \/ kind = "plan" /\ pc = "sum"
    PROVE  IInv'
<1> DEFINE goal == db[GoalRow(g)]
           new == [Idle EXCEPT !.pc = pc, !.kind = kind, !.goal = db[GoalRow(g)],
                               !.row = GoalRow(g), !.new = what]
<1>1. /\ new.pc = pc /\ new.kind = kind /\ new.goal = goal /\ new.row = GoalRow(g)
      /\ new.new = what /\ new.period = 0 /\ new.behind = FALSE /\ DOMAIN new = Fields
  BY DEF Idle, Fields
<1>2. Go(r, new) /\ UNCHANGED session /\ at[r].pc = "idle" /\ goal # NoRow
  BY Zenon DEF Load, Starts
<1>3. goal \in Goals
  BY <1>2, RowsAre, RowNames DEF IInv, TypeOK, ValueOK
<1> HIDE DEF new, goal
<1>4. new.pc \in Steps(new.kind) /\ new.kind \in Kind
  BY <1>1, StepsAre DEF Kind
<1>5. LocalOK(new)
  <2>1. new.period \in 0..MaxMonth /\ new.row \in Row /\ new.pc \notin {"spend", "plan"}
    BY <1>1, BoundAssumption, RowsAre
  <2> QED BY <1>1, <1>3, <1>4, <2>1 DEF LocalOK, Fields
<1>6. Writes(r) = {}
  BY <1>2, IdleWrites
<1> QED BY <1>1, <1>2, <1>4, <1>5, <1>6, QuietStep DEF goal

LEMMA BeginPlanStep ==
    ASSUME IInv, NEW r \in Req, NEW g \in Goal, BeginPlan(r, g)
    PROVE  IInv'
BY LoadStep DEF BeginPlan

LEMMA LoadsStep ==
    ASSUME IInv, NEW r \in Req, Contribute(r) \/ Patch(r) \/ Delete(r)
    PROVE  IInv'
BY LoadStep, DataAssumption DEF Contribute, Patch, Delete

LEMMA BeginTargetStep ==
    ASSUME IInv, NEW r \in Req, NEW c \in Category, NEW amount \in Amount, BeginTarget(r, c, amount)
    PROVE  IInv'
<1> DEFINE what == [category |-> c, target |-> amount]
           new == [Idle EXCEPT !.pc = "period", !.kind = "target", !.new = what]
<1>1. /\ new.pc = "period" /\ new.kind = "target" /\ new.goal = NoRow /\ new.row = NoRow
      /\ new.new = what /\ new.period = 0 /\ new.behind = FALSE /\ DOMAIN new = Fields
  BY DEF Idle, Fields
<1>2. Go(r, new) /\ UNCHANGED session /\ at[r].pc = "idle" /\ db[Budget] # NoRow
  BY Zenon DEF BeginTarget, Starts
<1>3. what \in [category : Category, target : Nat]
  BY DataAssumption
<1> HIDE DEF new, what
<1>4. new.pc \in Steps(new.kind) /\ new.kind \in Kind
  BY <1>1, StepsAre DEF Kind
<1>5. LocalOK(new)
  <2>1. new.period \in 0..MaxMonth /\ new.pc \notin {"spend", "plan"}
    BY <1>1, BoundAssumption
  <2> QED BY <1>1, <1>3, <1>4, <2>1 DEF LocalOK, Fields
<1>6. Writes(r) = {}
  BY <1>2, IdleWrites
<1> QED BY <1>1, <1>2, <1>4, <1>5, <1>6, QuietStep

LEMMA PreferenceStep ==
    ASSUME IInv, NEW r \in Req, NEW c \in Category, NEW icon \in Icon, NEW color \in Color,
           SetPreference(r, c, icon, color)
    PROVE  IInv'
<1> DEFINE x == Preference(c)
           what == [icon |-> icon, color |-> color]
           new == [Idle EXCEPT !.pc = "store", !.kind = "preference", !.row = Preference(c), !.new = what]
           changes == Becomes(x, db[x], what)
<1>1. /\ new.pc = "store" /\ new.kind = "preference" /\ new.goal = NoRow /\ new.row = x
      /\ new.new = what /\ new.period = 0 /\ new.behind = FALSE /\ DOMAIN new = Fields
  BY DEF Idle, Fields
<1>2. Pend(r, changes) /\ Go(r, new) /\ at[r].pc = "idle"
  BY Zenon DEF SetPreference, Starts
<1>3. /\ DOMAIN changes = IF db[x] = what THEN {} ELSE {x}
      /\ db[x] # what => changes[x].was = db[x] /\ changes[x].new = what
  BY DEF Becomes, Changes, Change
<1>4. what \in Preferences /\ what # NoRow
  BY NoRowAssumption DEF Preferences
<1>5. DOMAIN held[r] = {}
  BY <1>2, IdleWrites
<1>6. x \in Row /\ x[1] = "preference" /\ ValueOK(x, db[x])
  BY RowsAre, RowNames DEF IInv, TypeOK
<1> HIDE DEF new, changes, what
<1>7. /\ at' = [at EXCEPT ![r] = new] /\ want' = [want EXCEPT ![r] = changes]
      /\ UNCHANGED <<db, held, scene, month, ledger, serial>>
  BY <1>2 DEF Pend, Go
<1>8. LocalOK(new)
  <2>1. new.pc \in Steps(new.kind) /\ new.kind \in Kind /\ new.period \in 0..MaxMonth
    BY <1>1, BoundAssumption, StepsAre DEF Kind
  <2> QED BY <1>1, <1>4, <1>6, <2>1 DEF LocalOK, Fields
<1>9. \A y \in DOMAIN changes : ValueOK(y, changes[y].was) /\ ValueOK(y, changes[y].new)
  BY <1>3, <1>4, <1>6 DEF ValueOK
<1> HIDE DEF x
<1>10. ASSUME at'[r] = new, want'[r] = changes, held'[r] = held[r]
       PROVE  WritesOK(r)' /\ Hangs(r)' /\ Current(r)' /\ Makes(r)'
  <2>1. Writes(r)' = DOMAIN changes /\ DOMAIN changes \subseteq {x}
    BY <1>3, <1>5, <1>10 DEF Writes
  <2>2. WritesOK(r)'
    BY <1>1, <1>3, <1>4, <1>5, <1>6, <1>10, <2>1, ScopesAre DEF WritesOK, Lasting
  <2>3. Hangs(r)'
    BY <1>1, <1>6, <1>10, <2>1, RowNames DEF Hangs
  <2>4. Current(r)'
    BY <1>1, <1>10 DEF Current
  <2>5. Alone(new, new.goal) = what
    BY <1>1 DEF Alone
  <2>6. Makes(r)'
    BY <1>1, <1>3, <1>5, <1>7, <1>10, <2>1, <2>5 DEF Makes
  <2> QED BY <2>2, <2>3, <2>4, <2>6
<1> QED BY <1>7, <1>8, <1>9, <1>10, PendStep

LEMMA ProposedTargets ==
    ASSUME IInv
    PROVE  DOMAIN Proposal \subseteq Category /\ \A c \in DOMAIN Proposal : Proposal[c] \in Nat
<1>1. \A c \in DOMAIN ledger.spend : ledger.spend[c] \in Int
  BY DataAssumption DEF IInv, TypeOK
<1> QED BY <1>1 DEF Proposal, HalfUp

\* A budget and its rows are new.
LEMMA BudgetStep ==
    ASSUME IInv, NEW r \in Req, NEW kind \in {"budget", "propose"}, BeginBudget(r, kind)
    PROVE  IInv'
<1>1. PICK targets :
        /\ CreateBudget(r, kind, targets)
        /\ DOMAIN targets \subseteq Category /\ \A c \in DOMAIN targets : targets[c] \in Nat
  <2>1. CASE kind = "budget"
    BY <2>1 DEF BeginBudget
  <2>2. CASE kind = "propose"
    BY <2>2, ProposedTargets DEF BeginBudget
  <2> QED BY <2>1, <2>2
<1> DEFINE rows == {Budget, Period(month)} \cup {Target(month, c) : c \in DOMAIN targets}
           value(x) == IF x[1] = "target" THEN [target |-> targets[x[3]]] ELSE Exists
           changes == Changes(rows, [x \in rows |-> NoRow], [x \in rows |-> value(x)])
           new == [Idle EXCEPT !.pc = "store", !.kind = kind, !.row = Budget]
<1>2. /\ new.pc = "store" /\ new.kind = kind /\ new.goal = NoRow /\ new.row = Budget
      /\ new.new = NoRow /\ new.period = 0 /\ new.behind = FALSE /\ DOMAIN new = Fields
  BY DEF Idle, Fields
<1>3. Pend(r, changes) /\ Go(r, new) /\ at[r].pc = "idle"
  BY <1>1, Zenon DEF CreateBudget, BeginBudget, Starts
<1>4. month \in Month
  BY DEF IInv, TypeOK
<1>5. \A x \in rows : /\ x \in Row /\ x[1] \in {"budget", "period", "target"}
                      /\ value(x) # NoRow /\ ValueOK(x, value(x))
  <2>1. /\ Budget \in Row /\ Period(month) \in Row
        /\ \A c \in DOMAIN targets : Target(month, c) \in Row
    BY <1>1, <1>4, RowsAre
  <2>2. \A c \in DOMAIN targets : value(Target(month, c)) \in Targets
    BY <1>1, RowNames DEF Targets
  <2>3. value(Budget) = Exists /\ value(Period(month)) = Exists
    BY RowNames
  <2> HIDE DEF value
  <2> QED BY <2>1, <2>2, <2>3, RowNames, NoRowAssumption DEF ValueOK
<1> HIDE DEF value
<1>6. DOMAIN changes = rows /\ \A x \in rows : changes[x].was = NoRow /\ changes[x].new = value(x)
  BY <1>5 DEF Changes, Change
<1>7. DOMAIN held[r] = {}
  BY <1>3, IdleWrites
<1> HIDE DEF new, changes
<1>8. /\ at' = [at EXCEPT ![r] = new] /\ want' = [want EXCEPT ![r] = changes]
      /\ UNCHANGED <<db, held, scene, month, ledger, serial>>
  BY <1>3 DEF Pend, Go
<1>9. LocalOK(new)
  <2>1. /\ new.pc \in Steps(new.kind) /\ new.kind \in Kind /\ new.period \in 0..MaxMonth
        /\ new.row \in Row
    BY <1>2, BoundAssumption, StepsAre, RowsAre DEF Kind
  <2> QED BY <1>2, <2>1 DEF LocalOK, Fields
<1>10. \A x \in DOMAIN changes : ValueOK(x, changes[x].was) /\ ValueOK(x, changes[x].new)
  <2>1. \A x : ValueOK(x, NoRow)
    BY DEF ValueOK
  <2> QED BY <1>5, <1>6, <2>1
<1>11. /\ Budget \in rows
       /\ \A m, c : Target(m, c) \in rows => Period(m) \in rows
  BY RowNames
<1> HIDE DEF rows
<1>12. ASSUME at'[r] = new, want'[r] = changes, held'[r] = held[r]
       PROVE  WritesOK(r)' /\ Hangs(r)' /\ Current(r)' /\ Makes(r)'
  <2>1. Writes(r)' = rows
    BY <1>6, <1>7, <1>12 DEF Writes
  <2>2. WritesOK(r)'
    BY <1>2, <1>5, <1>6, <1>7, <1>12, <2>1, ScopesAre DEF WritesOK, Lasting
  <2>3. Hangs(r)'
    BY <1>2, <1>11, <1>12, <2>1 DEF Hangs
  <2>4. Current(r)'
    BY <1>2, <1>12 DEF Current
  <2>5. Makes(r)'
    BY <1>2, <1>12 DEF Makes
  <2> QED BY <2>2, <2>3, <2>4, <2>5
<1> QED BY <1>8, <1>9, <1>10, <1>12, PendStep

-----------------------------------------------------------------------------
(* Requests go on.                                                         *)

\* What stays when only the place changes.
LEMMA MovesTo ==
    ASSUME NEW s, LocalOK(s), NEW pc
    PROVE  LET new == [s EXCEPT !.pc = pc] IN
           /\ new.pc = pc /\ new.kind = s.kind /\ new.goal = s.goal /\ new.row = s.row
           /\ new.new = s.new /\ new.ledger = s.ledger /\ new.period = s.period
           /\ new.behind = s.behind /\ DOMAIN new = Fields
BY DEF LocalOK, Fields

\* Before anything is pending, a request has written nothing.
LEMMA NothingWritten ==
    ASSUME IInv, NEW r \in Req, at[r].pc \in {"apply", "sum", "spend", "plan", "period"}
    PROVE  Writes(r) = {} /\ DOMAIN want[r] = {} /\ DOMAIN held[r] = {}
<1>1. \A x : ~ InScope(at[r], x)
  BY DEF InScope
<1> QED BY <1>1 DEF IInv, RequestOK, WritesOK, Writes

LEMMA EditStep ==
    ASSUME IInv, NEW r \in Req, Edit(r) \/ DeleteGoal(r)
    PROVE  IInv'
<1> DEFINE s == at[r]
           x == s.row
           result == IF s.kind = "delete" THEN NoRow ELSE Edited(s.kind, s.goal, s.new)
           changes == Becomes(x, s.goal, result)
           new == [s EXCEPT !.pc = "store"]
<1>1. /\ s.pc = "apply" /\ s.kind \in {"contribute", "patch", "delete"}
      /\ Pend(r, changes) /\ Go(r, new)
  BY DEF Edit, DeleteGoal
<1>2. LocalOK(s) /\ Current(r)
  BY DEF IInv, RequestOK
<1>3. /\ s.goal \in Goals /\ s.goal # NoRow
      /\ x \in Row /\ x[1] = "goal" /\ \E g \in Goal : x = GoalRow(g)
  BY <1>1, <1>2, RowNames, RowsAre, NoRowAssumption DEF LocalOK
<1>4. s.kind # "delete" => result \in Goals /\ result # NoRow
  <2>1. /\ s.kind = "contribute" => s.new \in Nat
        /\ s.kind = "patch" => s.new \in Patches
    BY <1>2 DEF LocalOK
  <2> QED BY <1>1, <1>3, <2>1, EditsAreGoals, NoRowAssumption
<1>5. /\ new.pc = "store" /\ new.kind = s.kind /\ new.goal = s.goal /\ new.row = x
      /\ new.new = s.new /\ new.ledger = s.ledger /\ new.period = s.period
      /\ new.behind = s.behind /\ DOMAIN new = Fields
  BY <1>2, MovesTo
<1> HIDE DEF new
<1>6. s.kind # "delete" => Alone(new, new.goal) = result
  BY <1>1, <1>3, <1>5 DEF Alone
<1> HIDE DEF result
<1>7. /\ DOMAIN changes = IF s.goal = result THEN {} ELSE {x}
      /\ s.goal # result => changes[x].was = s.goal /\ changes[x].new = result
  BY DEF Becomes, Changes, Change
<1>8. DOMAIN held[r] = {}
  BY <1>1, NothingWritten
<1> HIDE DEF changes
<1>9. /\ at' = [at EXCEPT ![r] = new] /\ want' = [want EXCEPT ![r] = changes]
      /\ UNCHANGED <<db, held, scene, month, ledger, serial>>
  BY <1>1 DEF Pend, Go
<1>10. LocalOK(new)
  <2>1. new.pc \in Steps(new.kind)
    BY <1>1, <1>5, StepsAre
  <2> HIDE DEF s, x
  <2> QED BY <1>1, <1>2, <1>3, <1>5, <2>1 DEF LocalOK, Fields
<1>11. \A y \in DOMAIN changes : ValueOK(y, changes[y].was) /\ ValueOK(y, changes[y].new)
  BY <1>1, <1>3, <1>4, <1>7 DEF ValueOK, result
<1>12. ASSUME at'[r] = new, want'[r] = changes, held'[r] = held[r]
       PROVE  WritesOK(r)' /\ Hangs(r)' /\ Current(r)' /\ Makes(r)'
  <2>1. Writes(r)' = DOMAIN changes /\ DOMAIN changes \subseteq {x}
    BY <1>7, <1>8, <1>12 DEF Writes
  <2>2. WritesOK(r)'
    BY <1>1, <1>3, <1>5, <1>7, <1>8, <1>12, <2>1, ScopesAre DEF WritesOK, Lasting
  <2>3. Hangs(r)'
    BY <1>1, <1>3, <1>5, <1>12, <2>1, RowNames DEF Hangs
  <2>4. Current(r)'
    <3>1. Columns(new) = Columns(s)
      BY <1>5 DEF Columns
    <3> QED BY <1>2, <1>5, <1>9, <1>12, <3>1 DEF Current
  <2>5. Makes(r)'
    BY <1>1, <1>5, <1>6, <1>7, <1>8, <1>12, <2>1 DEF Makes
  <2> QED BY <2>2, <2>3, <2>4, <2>5
<1> QED BY <1>9, <1>10, <1>11, <1>12, PendStep

LEMMA KindOf ==
    ASSUME NEW s, LocalOK(s)
    PROVE  /\ s.pc \in {"sum", "spend", "plan"} => s.kind = "plan"
           /\ s.pc \in {"period", "target"} => s.kind = "target"
<1>1. s = Idle => s.pc = "idle"
  BY IdleIs
<1>2. \A kind \in Kind : /\ Steps(kind) \cap {"sum", "spend", "plan"} # {} => kind = "plan"
                         /\ Steps(kind) \cap {"period", "target"} # {} => kind = "target"
  BY StepsAre DEF Kind
<1> QED BY <1>1, <1>2 DEF LocalOK

LEMMA SumStep ==
    ASSUME IInv, NEW r \in Req, SumSurplus(r) \/ SumSpend(r)
    PROVE  IInv'
<1> DEFINE s == at[r]
<1>1. LocalOK(s) /\ s.kind = "plan" /\ Writes(r) = {}
  BY KindOf, NothingWritten DEF IInv, RequestOK, SumSurplus, SumSpend
<1>2. DOMAIN ledger = {"surplus", "spend"} /\ ledger.surplus \in Int
  BY DataAssumption DEF IInv, TypeOK
<1>3. \A new : /\ Go(r, new) /\ UNCHANGED session
               /\ new.pc \in {"spend", "plan"} /\ new.kind = s.kind /\ new.goal = s.goal
               /\ new.row = s.row /\ new.new = s.new /\ new.period = s.period
               /\ new.behind = s.behind /\ DOMAIN new = Fields
               /\ new.ledger.surplus \in Int /\ DOMAIN new.ledger = {"surplus", "spend"}
               => IInv'
  <2> SUFFICES ASSUME NEW new, Go(r, new), UNCHANGED session,
                      new.pc \in {"spend", "plan"}, new.kind = s.kind, new.goal = s.goal,
                      new.row = s.row, new.new = s.new, new.period = s.period,
                      new.behind = s.behind, DOMAIN new = Fields,
                      new.ledger.surplus \in Int, DOMAIN new.ledger = {"surplus", "spend"}
               PROVE  IInv'
    OBVIOUS
  <2>1. new.pc \in Steps(new.kind)
    BY <1>1, StepsAre
  <2>2. LocalOK(new)
    BY <1>1, <2>1 DEF LocalOK, Fields
  <2> QED BY <1>1, <2>1, <2>2, QuietStep
<1>4. CASE SumSurplus(r)
  <2> DEFINE new == [s EXCEPT !.pc = "spend", !.ledger = ledger]
  <2>1. Go(r, new) /\ UNCHANGED session
    BY <1>4, Zenon DEF SumSurplus
  <2>2. /\ new.pc = "spend" /\ new.kind = s.kind /\ new.goal = s.goal
        /\ new.row = s.row /\ new.new = s.new /\ new.period = s.period
        /\ new.behind = s.behind /\ DOMAIN new = Fields /\ new.ledger = ledger
    BY <1>1 DEF LocalOK, Fields
  <2> HIDE DEF new
  <2> QED BY <1>2, <1>3, <2>1, <2>2
<1>5. CASE SumSpend(r)
  <2> DEFINE new == [s EXCEPT !.pc = "plan", !.ledger.spend = ledger.spend]
             l == [s.ledger EXCEPT !.spend = ledger.spend]
  <2>1. Go(r, new) /\ UNCHANGED session /\ s.pc = "spend"
    BY <1>5, Zenon DEF SumSpend
  <2>2. l.surplus \in Int /\ DOMAIN l = {"surplus", "spend"}
    BY <1>1, <2>1 DEF LocalOK
  <2>3. /\ new.pc = "plan" /\ new.kind = s.kind /\ new.goal = s.goal
        /\ new.row = s.row /\ new.new = s.new /\ new.period = s.period
        /\ new.behind = s.behind /\ DOMAIN new = Fields /\ new.ledger = l
    BY <1>1 DEF LocalOK, Fields
  <2> HIDE DEF new, l
  <2> QED BY <1>3, <2>1, <2>2, <2>3
<1> QED BY <1>4, <1>5

LEMMA MakePlanStep ==
    ASSUME IInv, NEW r \in Req, MakePlan(r)
    PROVE  IInv'
<1> DEFINE s == at[r]
           p == Project(s.goal, s.ledger.surplus, month)
           new == [s EXCEPT !.pc = "store"]
<1>1. PICK k, cuts : /\ s.pc = "plan" /\ Go(r, new)
                     /\ Pend(r, Becomes(PlanRow(s.row[2], k), NoRow,
                               [goal |-> s.goal, ledger |-> s.ledger, today |-> month,
                                projection |-> p, cuts |-> cuts]))
  BY Zenon DEF MakePlan
<1> DEFINE x == PlanRow(s.row[2], k)
           plan == [goal |-> s.goal, ledger |-> s.ledger, today |-> month,
                    projection |-> p, cuts |-> cuts]
           changes == Becomes(x, NoRow, plan)
<1>2. LocalOK(s) /\ s.kind = "plan" /\ Writes(r) = {} /\ DOMAIN held[r] = {}
  BY <1>1, KindOf, NothingWritten DEF IInv, RequestOK
<1>3. PlanValue(plan)
  <2>1. s.goal \in Goals /\ s.ledger.surplus \in Int
    BY <1>1, <1>2 DEF LocalOK
  <2>2. month \in Month /\ month \in Nat
    BY BoundAssumption DEF IInv, TypeOK, Month
  <2>3. p.needed \in Nat /\ p.gap \in Nat
    <3>1. s.goal.target \in Nat /\ s.goal.current \in Nat /\ s.goal.date \in Nat
      BY <2>1 DEF Goals
    <3> HIDE DEF s
    <3> QED BY <2>1, <2>2, <3>1, ProjectionsReach
  <2>4. plan.goal = s.goal /\ plan.today = month /\ plan.projection = p
    OBVIOUS
  <2> HIDE DEF p, plan, s
  <2> QED BY <2>1, <2>2, <2>3, <2>4 DEF PlanValue
<1>4. x[1] = "plan"
  BY RowNames
<1> HIDE DEF x, plan, p
<1>5. /\ DOMAIN changes \subseteq {x}
      /\ x \in DOMAIN changes => changes[x].was = NoRow /\ changes[x].new = plan
  BY DEF Becomes, Changes, Change
<1>6. /\ new.pc = "store" /\ new.kind = s.kind /\ new.goal = s.goal /\ new.row = s.row
      /\ new.new = s.new /\ new.ledger = s.ledger /\ new.period = s.period
      /\ new.behind = s.behind /\ DOMAIN new = Fields
  BY <1>2, MovesTo
<1> HIDE DEF changes, new
<1>7. /\ at' = [at EXCEPT ![r] = new] /\ want' = [want EXCEPT ![r] = changes]
      /\ UNCHANGED <<db, held, scene, month, ledger, serial>>
  <2>1. Pend(r, changes) /\ Go(r, new)
    BY <1>1, Zenon DEF changes, plan, x
  <2> QED BY <2>1 DEF Pend, Go
<1>8. LocalOK(new)
  <2>1. new.pc \in Steps(new.kind)
    BY <1>2, <1>6, StepsAre
  <2> QED BY <1>2, <1>6, <2>1 DEF LocalOK, Fields
<1>9. \A y \in DOMAIN changes : ValueOK(y, changes[y].was) /\ ValueOK(y, changes[y].new)
  BY <1>3, <1>4, <1>5 DEF ValueOK
<1>10. ASSUME at'[r] = new, want'[r] = changes, held'[r] = held[r]
       PROVE  WritesOK(r)' /\ Hangs(r)' /\ Current(r)' /\ Makes(r)'
  <2>1. Writes(r)' = DOMAIN changes
    BY <1>2, <1>10 DEF Writes
  <2>2. WritesOK(r)'
    BY <1>2, <1>4, <1>5, <1>6, <1>10, <2>1, ScopesAre DEF WritesOK, Lasting
  <2>3. Hangs(r)'
    BY <1>2, <1>4, <1>5, <1>6, <1>10, <2>1, RowNames DEF Hangs
  <2>4. Current(r)'
    BY <1>2, <1>6, <1>10 DEF Current
  <2>5. Makes(r)'
    BY <1>2, <1>6, <1>10 DEF Makes
  <2> QED BY <2>2, <2>3, <2>4, <2>5
<1> QED BY <1>7, <1>8, <1>9, <1>10, PendStep

LEMMA FindPeriodStep ==
    ASSUME IInv, NEW r \in Req, FindPeriod(r)
    PROVE  IInv'
<1> DEFINE s == at[r]
           x == Period(month)
           changes == Becomes(x, db[x], Exists)
           new == [s EXCEPT !.pc = "target", !.period = month, !.row = Target(month, s.new.category)]
<1>1. s.pc = "period" /\ Pend(r, changes) /\ Go(r, new)
  BY Zenon DEF FindPeriod, CurrentPeriod
<1>2. /\ LocalOK(s) /\ s.kind = "target" /\ Writes(r) = {} /\ DOMAIN held[r] = {}
      /\ db[Budget] # NoRow
  BY <1>1, KindOf, NothingWritten DEF IInv, RequestOK, Hangs
<1>3. month \in Month /\ x \in Row /\ x[1] = "period" /\ ValueOK(x, db[x])
  BY RowsAre, RowNames DEF IInv, TypeOK
<1>4. /\ new.pc = "target" /\ new.kind = "target" /\ new.goal = s.goal
      /\ new.row = Target(month, s.new.category) /\ new.new = s.new /\ new.period = month
      /\ new.behind = s.behind /\ DOMAIN new = Fields
  BY <1>2 DEF LocalOK, Fields
<1>5. /\ DOMAIN changes = IF db[x] = Exists THEN {} ELSE {x}
      /\ db[x] # Exists => changes[x].was = db[x] /\ changes[x].new = Exists
  BY DEF Becomes, Changes, Change
<1> HIDE DEF new, changes
<1>6. /\ at' = [at EXCEPT ![r] = new] /\ want' = [want EXCEPT ![r] = changes]
      /\ UNCHANGED <<db, held, scene, month, ledger, serial>>
  BY <1>1 DEF Pend, Go
<1>7. LocalOK(new)
  <2>1. new.pc \in Steps(new.kind) /\ new.period \in 0..MaxMonth /\ new.row \in Row
    BY <1>2, <1>3, <1>4, StepsAre, RowsAre, BoundAssumption DEF Month, LocalOK
  <2> QED BY <1>2, <1>3, <1>4, <2>1 DEF LocalOK, Fields
<1>8. \A y \in DOMAIN changes : ValueOK(y, changes[y].was) /\ ValueOK(y, changes[y].new)
  BY <1>3, <1>5 DEF ValueOK
<1>9. ASSUME at'[r] = new, want'[r] = changes, held'[r] = held[r]
      PROVE  WritesOK(r)' /\ Hangs(r)' /\ Current(r)' /\ Makes(r)'
  <2>1. Writes(r)' = DOMAIN changes
    BY <1>2, <1>9 DEF Writes
  <2>2. \A y : InScope(new, y) <=> y = x
    BY <1>4 DEF InScope
  <2>3. WritesOK(r)'
    BY <1>2, <1>3, <1>5, <1>9, <2>1, <2>2, NoRowAssumption DEF WritesOK, Lasting
  <2>4. Hangs(r)'
    <3>1. \A m \in Month, c \in Category : Target(m, c) # x
      BY RowNames
    <3>2. x \in Writes(r)' \/ db'[x] # NoRow
      BY <1>5, <1>6, <2>1, NoRowAssumption
    <3>3. db'[Budget] # NoRow
      BY <1>2, <1>6
    <3> QED BY <1>4, <1>5, <1>9, <2>1, <3>1, <3>2, <3>3 DEF Hangs
  <2>5. Current(r)'
    BY <1>4, <1>9 DEF Current
  <2>6. Makes(r)'
    BY <1>4, <1>9 DEF Makes
  <2> QED BY <2>3, <2>4, <2>5, <2>6
<1> QED BY <1>6, <1>7, <1>8, <1>9, PendStep

\* The period stays held; the target is changed from what the request has just read.
LEMMA SetTargetStep ==
    ASSUME IInv, NEW r \in Req, SetTarget(r), Clean(r)
    PROVE  IInv'
<1> DEFINE s == at[r]
           x == s.row
           result == [target |-> s.new.target]
           changes == Becomes(x, Sees(r)[x], result)
           new == [s EXCEPT !.pc = "store"]
<1>1. s.pc = "target" /\ Pend(r, changes) /\ Go(r, new)
  BY DEF SetTarget
<1>2. LocalOK(s) /\ s.kind = "target" /\ WritesOK(r) /\ Hangs(r) /\ db[Budget] # NoRow
  BY <1>1, KindOf DEF IInv, RequestOK, Hangs
<1>3. /\ s.period \in Month /\ s.new.category \in Category /\ s.new.target \in Nat
      /\ x = Target(s.period, s.new.category) /\ x \in Row /\ x[1] = "target"
      /\ ValueOK(x, db[x])
  BY <1>1, <1>2, RowNames, RowsAre DEF LocalOK, IInv, TypeOK
<1>4. DOMAIN want[r] = {} /\ DOMAIN held[r] \subseteq {Period(s.period)} /\ x \notin DOMAIN held[r]
  <2>1. \A y \in DOMAIN held[r] : y = Period(s.period)
    BY <1>1, <1>2 DEF WritesOK, Writes, InScope
  <2> QED BY <1>3, <2>1, RowNames DEF Clean, Nothing
<1>5. Sees(r)[x] = db[x]
  BY <1>3, <1>4 DEF Sees
<1>6. result \in Targets /\ result # NoRow
  BY <1>3, NoRowAssumption DEF Targets
<1>7. /\ new.pc = "store" /\ new.kind = s.kind /\ new.goal = s.goal /\ new.row = x
      /\ new.new = s.new /\ new.ledger = s.ledger /\ new.period = s.period
      /\ new.behind = s.behind /\ DOMAIN new = Fields
  BY <1>2, MovesTo
<1> HIDE DEF new
<1>8. Alone(new, new.goal) = result
  BY <1>2, <1>7 DEF Alone
<1> HIDE DEF result
<1>9. /\ DOMAIN changes = IF db[x] = result THEN {} ELSE {x}
      /\ db[x] # result => changes[x].was = db[x] /\ changes[x].new = result
  BY <1>5 DEF Becomes, Changes, Change
<1> HIDE DEF changes
<1>10. /\ at' = [at EXCEPT ![r] = new] /\ want' = [want EXCEPT ![r] = changes]
       /\ UNCHANGED <<db, held, scene, month, ledger, serial>>
  BY <1>1 DEF Pend, Go
<1>11. LocalOK(new)
  <2>1. new.pc \in Steps(new.kind)
    BY <1>2, <1>7, StepsAre
  <2> HIDE DEF x
  <2> QED BY <1>1, <1>2, <1>3, <1>7, <2>1 DEF LocalOK, Fields, x
<1>12. \A y \in DOMAIN changes : ValueOK(y, changes[y].was) /\ ValueOK(y, changes[y].new)
  BY <1>3, <1>6, <1>9 DEF ValueOK
<1>13. ASSUME at'[r] = new, want'[r] = changes, held'[r] = held[r]
       PROVE  WritesOK(r)' /\ Hangs(r)' /\ Current(r)' /\ Makes(r)'
  <2>1. Writes(r)' = DOMAIN changes \cup DOMAIN held[r] /\ Writes(r) = DOMAIN held[r]
    BY <1>4, <1>13 DEF Writes
  <2>2. \A y : InScope(new, y) <=> y \in {Period(s.period), x}
    BY <1>2, <1>7, ScopesAre
  <2>3. WritesOK(r)'
    BY <1>2, <1>3, <1>4, <1>6, <1>9, <1>13, <2>1, <2>2 DEF WritesOK, Lasting
  <2>4. Hangs(r)'
    <3>1. Period(s.period) \in Writes(r) \/ db[Period(s.period)] # NoRow
      BY <1>1, <1>2 DEF Hangs
    <3>2. \A m \in Month, c \in Category : Target(m, c) \in Writes(r)' => m = s.period
      BY <1>3, <1>4, <1>9, <2>1, RowNames
    <3> QED BY <1>2, <1>7, <1>10, <1>13, <2>1, <3>1, <3>2 DEF Hangs
  <2>5. Current(r)'
    BY <1>2, <1>7, <1>13 DEF Current
  <2>6. Makes(r)'
    BY <1>2, <1>4, <1>7, <1>8, <1>9, <1>10, <1>13, <2>1 DEF Makes
  <2> QED BY <2>3, <2>4, <2>5, <2>6
<1> QED BY <1>10, <1>11, <1>12, <1>13, PendStep

-----------------------------------------------------------------------------
(* Statements.                                                             *)

LEMMA ScopesAreRows ==
    ASSUME IInv, NEW r \in Req, NEW x \in Writes(r)
    PROVE  \/ x[1] = "plan"
           \/ x \in Row /\ x[1] \in {"goal", "budget", "period", "target", "preference"}
<1> DEFINE s == at[r]
<1>1. LocalOK(s) /\ InScope(s, x)
  BY DEF IInv, RequestOK, WritesOK
<1>2. s.kind # "none"
  BY <1>1, StepsAre, IdleIs DEF LocalOK
<1>3. CASE s.pc = "target"
  <2>1. x = Period(s.period) /\ s.period \in Month
    BY <1>1, <1>3, KindOf DEF InScope, LocalOK
  <2> QED BY <2>1, RowsAre, RowNames
<1>4. CASE s.pc = "store" /\ s.kind \in {"plan", "budget", "propose"}
  BY <1>1, <1>4, ScopesAre
<1>5. CASE s.pc = "store" /\ s.kind = "target"
  <2>1. s.period \in Month /\ s.new.category \in Category /\ s.row = Target(s.period, s.new.category)
    BY <1>1, <1>5 DEF LocalOK
  <2>2. x = Period(s.period) \/ x = Target(s.period, s.new.category)
    BY <1>1, <1>5, <2>1, ScopesAre
  <2> QED BY <2>1, <2>2, RowsAre, RowNames
<1>6. CASE s.pc = "store" /\ s.kind \in {"create", "contribute", "patch", "delete"}
  <2>1. x = s.row /\ \E g \in Goal : s.row = GoalRow(g)
    BY <1>1, <1>6, ScopesAre DEF LocalOK
  <2> QED BY <2>1, RowsAre, RowNames
<1>7. CASE s.pc = "store" /\ s.kind = "preference"
  <2>1. x = s.row /\ \E c \in Category : s.row = Preference(c)
    BY <1>1, <1>7, ScopesAre DEF LocalOK
  <2> QED BY <2>1, RowsAre, RowNames
<1>8. s.pc \in {"target", "store"}
  BY <1>1 DEF InScope
<1> QED BY <1>1, <1>2, <1>3, <1>4, <1>5, <1>6, <1>7, <1>8 DEF LocalOK, Kind

\* What is sent over the row it was decided by is what was decided.
LEMMA SentOverSame ==
    ASSUME NEW x, x[1] \in {"target", "preference"}, NEW change,
           ValueOK(x, change.was), ValueOK(x, change.new), change.new # NoRow
    PROVE  Sent(change, change.was) = change.new
<1> SUFFICES ASSUME change.was # NoRow PROVE Sent(change, change.was) = change.new
  BY DEF Sent
<1>1. Sent(change, change.was) = [f \in DOMAIN change.was |-> change.new[f]]
  BY DEF Sent
<1>2. CASE x[1] = "target"
  BY <1>1, <1>2 DEF ValueOK, Targets
<1>3. CASE x[1] = "preference"
  BY <1>1, <1>3 DEF ValueOK, Preferences
<1> QED BY <1>2, <1>3

LEMMA FlushStep ==
    ASSUME IInv, NEW r \in Req, Send(r)
    PROVE  IInv'
<1>1. /\ at' = at /\ scene' = scene /\ month' = month /\ ledger' = ledger /\ serial' = serial
      /\ RequestOK(r) /\ LocalOK(at[r]) /\ WritesOK(r)
  BY DEF Send, IInv, RequestOK
<1>2. PICK row \in DOMAIN want[r] :
        /\ ~ Locked(r, row)
        /\ ~ Clash(want[r][row], Sees(r)[row])
        /\ held' = [held EXCEPT ![r] =
                      [x \in DOMAIN held[r] \cup {row} |->
                         IF x = row THEN Sent(want[r][row], Sees(r)[row]) ELSE held[r][x]]]
        /\ want' = [want EXCEPT ![r] = [x \in DOMAIN want[r] \ {row} |-> want[r][x]]]
        /\ db' = db
  BY DEF Send, Flush, IInv
<1> DEFINE s == at[r]
           change == want[r][row]
           now == Sees(r)[row]
           sent == Sent(change, now)
<1>3. /\ DOMAIN held'[r] = DOMAIN held[r] \cup {row} /\ held'[r][row] = sent
      /\ \A x \in DOMAIN held[r] : x # row => held'[r][x] = held[r][x]
      /\ DOMAIN want'[r] = DOMAIN want[r] \ {row}
      /\ \A x \in DOMAIN want'[r] : want'[r][x] = want[r][x]
      /\ \A q \in Req \ {r} : want'[q] = want[q] /\ held'[q] = held[q]
      /\ DOMAIN want' = Req /\ DOMAIN held' = Req
  BY <1>2 DEF IInv
<1>4. row \notin DOMAIN held[r] /\ row \in Writes(r) /\ Writes(r)' = Writes(r)
  BY <1>1, <1>2, <1>3 DEF WritesOK, Writes
<1>5. /\ ValueOK(row, change.was) /\ ValueOK(row, change.new)
      /\ row[1] = "plan" => change.was = NoRow
      /\ Lasting(row) => change.new # NoRow
  BY <1>1, <1>2 DEF IInv, TypeOK, WritesOK
<1>6. row \in Row => now = db[row] /\ ValueOK(row, now)
  BY <1>4 DEF Sees, IInv, TypeOK
<1>7. ~ Clash(change, now)
  BY <1>2
<1> HIDE DEF change, now, sent
<1>8. ValueOK(row, sent) /\ (change.new # NoRow => sent # NoRow)
  <2>1. CASE row[1] = "plan"
    BY <1>5, <1>7, <2>1 DEF Clash, Sent, sent
  <2>2. CASE row \in Row /\ row[1] \in {"goal", "budget", "period", "target", "preference"}
    BY <1>5, <1>6, <1>7, <2>2, SentTyped DEF sent
  <2> QED BY <1>4, <2>1, <2>2, ScopesAreRows
<1>9. WritesOK(r)'
  BY <1>1, <1>3, <1>4, <1>5, <1>8 DEF WritesOK
<1>10. Hangs(r)'
  BY <1>1, <1>2, <1>4 DEF RequestOK, Hangs
<1>11. Current(r)'
  BY <1>1, <1>2 DEF RequestOK, Current
<1>12. Makes(r)'
  <2> SUFFICES ASSUME s.pc = "store" PROVE Makes(r)'
    BY <1>1 DEF Makes
  <2> DEFINE result == Alone(s, s.goal)
  <2>1. Makes(r)
    BY <1>1 DEF RequestOK
  <2>2. CASE row # s.row
    <3>1. /\ s.row \in DOMAIN want'[r] <=> s.row \in DOMAIN want[r]
          /\ s.row \in DOMAIN held'[r] <=> s.row \in DOMAIN held[r]
      BY <1>3, <2>2
    <3> QED BY <1>1, <1>2, <1>3, <1>4, <2>1, <2>2, <3>1 DEF Makes
  <2>3. CASE row = s.row
    <3>1. s.row \notin DOMAIN want'[r] /\ s.row \in DOMAIN held'[r] /\ held'[r][s.row] = sent
      BY <1>3, <2>3
    <3>2. CASE s.kind = "create"
      <4>1. change.was = NoRow /\ change.new = s.new
        BY <1>2, <2>1, <2>3, <3>2 DEF Makes, change
      <4>2. sent = s.new
        BY <1>7, <4>1 DEF Clash, Sent, sent
      <4> QED BY <1>1, <1>4, <2>3, <3>1, <3>2, <4>2 DEF Makes
    <3>3. CASE s.kind \in {"contribute", "patch"}
      <4>1. change.was = s.goal /\ change.new = result
        BY <1>2, <2>1, <2>3, <3>3 DEF Makes, change
      <4>2. row \in Row
        BY <1>1, <2>3, <3>3, RowsAre DEF LocalOK
      <4>3. sent = Sent(Change(s.goal, result), db[row])
        BY <1>6, <4>1, <4>2 DEF Sent, Change, sent
      <4> QED BY <1>1, <1>2, <1>4, <2>3, <3>1, <3>3, <4>3 DEF Makes
    <3>4. CASE s.kind \in {"target", "preference"}
      <4>1. /\ change.was # change.new /\ change.new = result
            /\ ~ s.behind => change.was = db[row]
        BY <1>2, <2>1, <2>3, <3>4 DEF Makes, change
      <4>2. row \in Row /\ row[1] \in {"target", "preference"}
        BY <1>1, <2>3, <3>4, RowsAre, RowNames DEF LocalOK
      <4>3. change.new # NoRow
        BY <1>5, <4>2 DEF Lasting
      <4>4. ~ s.behind => sent = result
        BY <1>5, <1>6, <4>1, <4>2, <4>3, SentOverSame DEF sent
      <4> QED BY <1>1, <1>2, <1>4, <2>3, <3>1, <3>4, <4>4 DEF Makes
    <3>5. CASE s.kind \notin {"create", "contribute", "patch", "target", "preference"}
      BY <1>1, <3>5 DEF Makes
    <3> QED BY <3>2, <3>3, <3>4, <3>5
  <2> QED BY <2>2, <2>3
<1>13. \A q \in Req : RequestOK(q)'
  <2>1. RequestOK(r)'
    BY <1>1, <1>9, <1>10, <1>11, <1>12 DEF RequestOK
  <2> SUFFICES ASSUME NEW q \in Req, q # r PROVE RequestOK(q)'
    BY <2>1
  <2>2. RequestOK(q)
    BY DEF IInv
  <2> QED BY <1>1, <1>2, <1>3, <2>2, Frame
<1>14. TypeOK'
  <2>1. \A q \in Req : \A x \in DOMAIN held'[q] : ValueOK(x, held'[q][x])
    BY <1>3, <1>8 DEF IInv, TypeOK
  <2>2. \A q \in Req : \A x \in DOMAIN want'[q] :
           ValueOK(x, want'[q][x].was) /\ ValueOK(x, want'[q][x].new)
    BY <1>3 DEF IInv, TypeOK
  <2> QED BY <1>1, <1>2, <2>1, <2>2 DEF IInv, TypeOK
<1>15. LocksExclude'
  BY <1>2, <1>3 DEF IInv, LocksExclude, Locked
<1>16. AsIfOneByOne' /\ NothingDangles'
  BY <1>1, <1>2 DEF IInv, AsIfOneByOne, NothingDangles
<1> QED BY <1>1, <1>3, <1>13, <1>14, <1>15, <1>16 DEF IInv

LEMMA FailStep ==
    ASSUME IInv, NEW r \in Req, Rollback(r), Go(r, Idle)
    PROVE  IInv'
<1>1. /\ at' = [at EXCEPT ![r] = Idle] /\ want' = [want EXCEPT ![r] = Nothing]
      /\ held' = [held EXCEPT ![r] = Nothing]
      /\ UNCHANGED <<db, scene, month, ledger, serial>>
  BY DEF Rollback, Go
<1>2. /\ at'[r] = Idle /\ DOMAIN want'[r] = {} /\ DOMAIN held'[r] = {}
      /\ \A q \in Req \ {r} : at'[q] = at[q] /\ want'[q] = want[q] /\ held'[q] = held[q]
      /\ DOMAIN at' = Req /\ DOMAIN want' = Req /\ DOMAIN held' = Req
  BY <1>1 DEF IInv, Nothing
<1>3. RequestOK(r)'
  BY <1>2, IdleIs DEF RequestOK, WritesOK, Writes, Hangs, Current, Makes
<1>4. \A q \in Req : RequestOK(q)'
  <2> SUFFICES ASSUME NEW q \in Req, q # r PROVE RequestOK(q)'
    BY <1>3
  <2>1. RequestOK(q)
    BY DEF IInv
  <2> QED BY <1>1, <1>2, <2>1, Frame
<1>5. TypeOK'
  <2>1. \A q \in Req : LocalOK(at'[q])
    BY <1>4 DEF RequestOK
  <2>2. \A q \in Req : at'[q].pc \in {"idle", "apply", "sum", "spend", "plan", "period", "target", "store"}
    BY <2>1, Places
  <2>3. \A q \in Req : /\ \A x \in DOMAIN held'[q] : ValueOK(x, held'[q][x])
                       /\ \A x \in DOMAIN want'[q] :
                            ValueOK(x, want'[q][x].was) /\ ValueOK(x, want'[q][x].new)
    BY <1>2 DEF IInv, TypeOK
  <2>4. \A q \in Req : /\ at'[q].kind \in Kind /\ at'[q].period \in 0..MaxMonth
                       /\ at'[q].behind \in BOOLEAN /\ at'[q].goal \in Goals \cup {NoRow}
                       /\ at'[q].row \in Row \cup {NoRow}
    BY <2>1 DEF LocalOK
  <2> QED BY <1>1, <2>2, <2>3, <2>4 DEF IInv, TypeOK
<1>6. LocksExclude' /\ AsIfOneByOne' /\ NothingDangles'
  BY <1>1, <1>2 DEF IInv, LocksExclude, AsIfOneByOne, NothingDangles
<1> QED BY <1>2, <1>4, <1>5, <1>6 DEF IInv

-----------------------------------------------------------------------------
(* The end of a request.                                                   *)

Singles == {"create", "contribute", "patch", "target", "preference"}

\* A request that was not overtaken stores what it would make of its row alone.
LEMMA StoresItsOwn ==
    ASSUME IInv, NEW r \in Req, at[r].pc = "store", Clean(r), at[r].kind \in Singles, ~ at[r].behind
    PROVE  /\ at[r].row \in Row /\ at[r].row[1] # "plan"
           /\ Sees(r)[at[r].row] = Alone(at[r], db[at[r].row])
           /\ at[r].kind \in {"contribute", "patch"} => db[at[r].row] \in Goals
<1> DEFINE s == at[r]
           x == s.row
           result == Alone(s, s.goal)
<1>1. LocalOK(s) /\ Makes(r) /\ Current(r) /\ DOMAIN want[r] = {}
  BY DEF IInv, RequestOK, Clean, Nothing
<1>2. Writes(r) = DOMAIN held[r]
  BY <1>1 DEF Writes
<1>3. CASE s.kind \in {"create", "contribute", "patch"}
  <2>1. x \in Row /\ x[1] = "goal"
    BY <1>1, <1>3, RowsAre, RowNames DEF LocalOK
  <2>2. Sees(r)[x] = IF x \in DOMAIN held[r] THEN held[r][x] ELSE db[x]
    BY <2>1 DEF Sees
  <2>3. CASE s.kind = "create"
    <3>1. held[r][x] = s.new /\ x \in DOMAIN held[r]
      BY <1>1, <1>2, <2>3 DEF Makes
    <3> QED BY <2>1, <2>2, <2>3, <3>1 DEF Alone
  <2>4. CASE s.kind \in {"contribute", "patch"}
    <3>1. /\ s.goal \in Goals /\ s.goal # NoRow
          /\ s.kind = "contribute" => s.new \in Nat
          /\ s.kind = "patch" => s.new \in Patches
      BY <1>1, <2>4, NoRowAssumption DEF LocalOK
    <3>2. db[x] # NoRow /\ db[x] \in Goals /\ \A f \in Columns(s) : db[x][f] = s.goal[f]
      BY <1>1, <2>1, <2>4 DEF Current, IInv, TypeOK, ValueOK
    <3>3. /\ \A f \in {"target", "current", "status"} : db[x][f] = s.goal[f]
          /\ s.kind = "patch" => \A f \in DOMAIN s.new : db[x][f] = s.goal[f]
      BY <2>4, <3>2 DEF Columns
    <3>4. Sent(Change(s.goal, Edited(s.kind, s.goal, s.new)), db[x]) = Edited(s.kind, db[x], s.new)
      BY <2>4, <3>1, <3>2, <3>3, EditsAgree
    <3>5. result = Edited(s.kind, s.goal, s.new) /\ Alone(s, db[x]) = Edited(s.kind, db[x], s.new)
      BY <2>4, <3>1, <3>2 DEF Alone
    <3>6. CASE x \in DOMAIN held[r]
      <4>1. held[r][x] = Sent(Change(s.goal, result), db[x])
        BY <1>1, <2>4, <3>6 DEF Makes
      <4> QED BY <2>1, <2>2, <3>2, <3>4, <3>5, <3>6, <4>1
    <3>7. CASE x \notin DOMAIN held[r]
      <4>1. s.goal = result
        BY <1>1, <1>2, <2>4, <3>7 DEF Makes
      <4>2. Sent(Change(s.goal, s.goal), db[x]) = db[x]
        BY <3>1, <3>2, NothingEdited
      <4>3. Edited(s.kind, db[x], s.new) = db[x]
        <5> HIDE DEF s, x
        <5> QED BY <3>4, <3>5, <4>1, <4>2 DEF result
      <4> QED BY <2>1, <2>2, <3>2, <3>5, <3>7, <4>3
    <3> QED BY <3>6, <3>7
  <2> QED BY <1>3, <2>3, <2>4
<1>4. CASE s.kind \in {"target", "preference"}
  <2>1. x \in Row /\ x[1] \in {"target", "preference"}
    BY <1>1, <1>4, RowsAre, RowNames DEF LocalOK
  <2>2. Sees(r)[x] = IF x \in DOMAIN held[r] THEN held[r][x] ELSE db[x]
    BY <2>1 DEF Sees
  <2>3. Alone(s, db[x]) = result
    BY <1>4 DEF Alone
  <2>4. Sees(r)[x] = result
    BY <1>1, <1>2, <1>4, <2>2 DEF Makes
  <2> QED BY <1>4, <2>1, <2>3, <2>4
<1> QED BY <1>3, <1>4 DEF Singles

\* What a commit makes of the rows.
LEMMA CommitIs ==
    ASSUME IInv, NEW r \in Req, Commit(r)
    PROVE  /\ serial' = db' /\ DOMAIN db' = Row
           /\ \A x \in Row : x[1] # "plan" =>
                db'[x] = IF x \in DOMAIN held[r] THEN held[r][x] ELSE db[x]
           /\ \A x \in Row : ValueOK(x, db'[x])
           /\ \A g \in Goal, k \in 1..MaxPlan :
                db'[PlanRow(g, k)] # NoRow => db'[GoalRow(g)] # NoRow
           /\ \A x \in Row : Lasting(x) /\ (db[x] # NoRow \/ x \in Writes(r)) => db'[x] # NoRow
<1> DEFINE s == at[r]
           seen == Sees(r)
           alone == s.kind \in {"create", "contribute", "patch", "target", "preference"}
           next == [x \in Row |-> IF alone /\ x = s.row /\ ~ s.behind THEN Alone(s, serial[x])
                                  ELSE IF x \in DOMAIN held[r] THEN held[r][x]
                                  ELSE serial[x]]
<1>1. /\ s.pc = "store" /\ Clean(r) /\ db' = Cascade(seen) /\ serial' = Cascade(next)
      /\ serial = db
  BY Zenon DEF Commit, IInv, AsIfOneByOne
<1>2. \A x \in Row : seen[x] = IF x \in DOMAIN held[r] THEN held[r][x] ELSE db[x]
  BY DEF Sees
<1>3. next = seen
  <2> SUFFICES ASSUME NEW x \in Row PROVE next[x] = seen[x]
    BY DEF Sees
  <2>1. CASE alone /\ x = s.row /\ ~ s.behind
    BY <1>1, <2>1, StoresItsOwn DEF Singles
  <2>2. CASE ~ (alone /\ x = s.row /\ ~ s.behind)
    BY <1>1, <1>2, <2>2
  <2> QED BY <2>1, <2>2
<1> HIDE DEF next, seen
<1>4. serial' = db'
  BY <1>1, <1>3
<1>5. \A x \in Row :
        db'[x] = IF x[1] = "plan" /\ seen[GoalRow(x[2])] = NoRow THEN NoRow ELSE seen[x]
  BY <1>1 DEF Cascade
<1>6. DOMAIN db' = Row
  BY <1>1 DEF Cascade
<1>7. \A x \in Row : ValueOK(x, seen[x]) /\ ValueOK(x, NoRow)
  BY <1>2 DEF IInv, TypeOK, ValueOK
<1>8. \A x \in Row : ValueOK(x, db'[x])
  BY <1>5, <1>7
<1>9. \A g \in Goal, k \in 1..MaxPlan : db'[PlanRow(g, k)] # NoRow => db'[GoalRow(g)] # NoRow
  <2> SUFFICES ASSUME NEW g \in Goal, NEW k \in 1..MaxPlan, db'[PlanRow(g, k)] # NoRow
               PROVE  db'[GoalRow(g)] # NoRow
    OBVIOUS
  <2>1. PlanRow(g, k) \in Row /\ GoalRow(g) \in Row
    BY RowsAre
  <2>2. PlanRow(g, k)[1] = "plan" /\ PlanRow(g, k)[2] = g /\ GoalRow(g)[1] = "goal"
    BY DEF PlanRow, GoalRow
  <2> QED BY <1>5, <2>1, <2>2
<1>10. \A x \in Row : Lasting(x) /\ (db[x] # NoRow \/ x \in Writes(r)) => db'[x] # NoRow
  <2> SUFFICES ASSUME NEW x \in Row, Lasting(x), db[x] # NoRow \/ x \in Writes(r)
               PROVE  db'[x] # NoRow
    OBVIOUS
  <2>1. WritesOK(r) /\ DOMAIN want[r] = {}
    BY <1>1 DEF IInv, RequestOK, Clean, Nothing
  <2>2. seen[x] # NoRow
    BY <1>2, <2>1 DEF WritesOK, Writes
  <2> QED BY <1>5, <2>2 DEF Lasting
<1> QED BY <1>2, <1>4, <1>5, <1>6, <1>8, <1>9, <1>10

\* A row on which a request was not overtaken is as it was, in the columns it goes by.
LEMMA NotOvertaken ==
    ASSUME IInv, NEW r \in Req, Commit(r), NEW q \in Req, q # r, ~ at'[q].behind,
           at[q].pc # "idle", at[q].row \in Row, at[q].row[1] # "plan"
    PROVE  LET x == at[q].row IN
           \/ db'[x] = db[x]
           \/ /\ db[x] # NoRow /\ db'[x] # NoRow /\ x \notin DOMAIN held[q]
              /\ \A f \in Columns(at[q]) : db'[x][f] = db[x][f]
<1> DEFINE x == at[q].row
<1>1. db'[x] = IF x \in DOMAIN held[r] THEN held[r][x] ELSE db[x]
  BY CommitIs
<1>2. Sees(r)[x] = IF x \in DOMAIN held[r] THEN held[r][x] ELSE db[x]
  BY DEF Sees
<1>3. ~ Overtakes(r, q)
  <2>1. at'[q] = [at[q] EXCEPT !.behind = @ \/ Overtakes(r, q)]
    BY DEF Commit
  <2>2. "behind" \in DOMAIN at[q]
    BY DEF IInv, RequestOK, LocalOK
  <2> QED BY <2>1, <2>2
<1>4. x \in DOMAIN held[r] => x \notin DOMAIN held[q]
  BY DEF IInv, LocksExclude
<1> QED BY <1>1, <1>2, <1>3, <1>4 DEF Overtakes

LEMMA CommitStep ==
    ASSUME IInv, NEW r \in Req, Commit(r)
    PROVE  IInv'
<1>1. /\ at' = [q \in Req |-> IF q = r THEN Idle
                              ELSE [at[q] EXCEPT !.behind = @ \/ Overtakes(r, q)]]
      /\ held' = [held EXCEPT ![r] = Nothing] /\ want' = want
      /\ UNCHANGED <<scene, month, ledger>> /\ DOMAIN want[r] = {}
  BY DEF Commit, Clean, Nothing
<1>2. /\ at'[r] = Idle /\ DOMAIN held'[r] = {}
      /\ \A q \in Req \ {r} : held'[q] = held[q]
      /\ DOMAIN at' = Req /\ DOMAIN want' = Req /\ DOMAIN held' = Req
  BY <1>1 DEF IInv, Nothing
<1>3. RequestOK(r)'
  BY <1>1, <1>2, IdleIs DEF RequestOK, WritesOK, Writes, Hangs, Current, Makes
<1>4. ASSUME NEW q \in Req, q # r PROVE RequestOK(q)'
  <2> DEFINE s == at[q]
             new == at'[q]
             x == s.row
  <2>1. LocalOK(s) /\ WritesOK(q) /\ Hangs(q) /\ Current(q) /\ Makes(q)
    BY DEF IInv, RequestOK
  <2>2. /\ new.pc = s.pc /\ new.kind = s.kind /\ new.goal = s.goal /\ new.row = x
        /\ new.new = s.new /\ new.ledger = s.ledger /\ new.period = s.period
        /\ new.behind \in BOOLEAN /\ DOMAIN new = Fields
        /\ ~ new.behind => ~ s.behind
    <3>1. new = [s EXCEPT !.behind = @ \/ Overtakes(r, q)]
      BY <1>1, <1>4
    <3>2. s.behind \in BOOLEAN /\ DOMAIN s = Fields
      BY <2>1 DEF LocalOK, Fields
    <3>3. /\ new.pc = s.pc /\ new.kind = s.kind /\ new.goal = s.goal /\ new.row = x
          /\ new.new = s.new /\ new.ledger = s.ledger /\ new.period = s.period
          /\ DOMAIN new = Fields
      BY <3>1, <3>2 DEF Fields
    <3>4. new.behind = (s.behind \/ Overtakes(r, q))
      BY <3>1, <3>2 DEF Fields
    <3> QED BY <3>2, <3>3, <3>4
  <2>3. s = Idle => new = Idle
    <3> SUFFICES ASSUME s = Idle PROVE new = Idle
      OBVIOUS
    <3>1. ~ Overtakes(r, q) /\ s.behind = FALSE
      BY IdleIs DEF Overtakes
    <3>2. new = [s EXCEPT !.behind = FALSE]
      <4>1. new = [s EXCEPT !.behind = s.behind \/ Overtakes(r, q)]
        BY <1>1, <1>4
      <4>2. (s.behind \/ Overtakes(r, q)) = FALSE
        BY <3>1
      <4> QED BY <4>1, <4>2
    <3>3. new = [Idle EXCEPT !.behind = FALSE]
      BY <3>2, Zenon
    <3>4. [Idle EXCEPT !.behind = FALSE] = Idle
      <4>1. Idle.behind = FALSE
        BY DEF Idle
      <4>2. DOMAIN Idle = Fields /\ Idle = [f \in Fields |-> Idle[f]]
        BY DEF Idle, Fields
      <4> HIDE DEF Idle
      <4>3. [Idle EXCEPT !.behind = FALSE] = [f \in Fields |-> Idle[f]]
        BY <4>1, <4>2
      <4> QED BY <4>2, <4>3
    <3> QED BY <3>3, <3>4, Zenon
  <2> HIDE DEF new
  <2>4. LocalOK(new)
    <3>1. CASE s = Idle
      BY <2>3, <3>1, IdleIs
    <3>2. CASE s # Idle
      <4>1. new.pc \in Steps(new.kind)
        BY <2>1, <2>2, <3>2 DEF LocalOK
      <4> HIDE DEF s, x
      <4> QED BY <2>1, <2>2, <4>1 DEF LocalOK, Fields, x
    <3> QED BY <3>1, <3>2
  <2>5. at'[q] = new /\ want'[q] = want[q] /\ held'[q] = held[q] /\ Writes(q)' = Writes(q)
    BY <1>1, <1>2, <1>4 DEF new, Writes
  <2>6. \A y : InScope(new, y) <=> InScope(s, y)
    BY <2>2 DEF InScope
  <2>7. WritesOK(q)'
    BY <2>1, <2>5, <2>6 DEF WritesOK
  <2>8. Hangs(q)'
    <3>1. /\ Lasting(Budget) /\ Budget \in Row
          /\ \A m \in Month : Lasting(Period(m)) /\ Period(m) \in Row
      BY RowNames, RowsAre DEF Lasting
    <3>2. /\ db[Budget] # NoRow => db'[Budget] # NoRow
          /\ \A m \in Month : db[Period(m)] # NoRow => db'[Period(m)] # NoRow
      BY <3>1, CommitIs
    <3>3. s.pc = "target" => s.period \in Month
      BY <2>1, KindOf DEF LocalOK
    <3> QED BY <2>1, <2>2, <2>5, <3>2, <3>3 DEF Hangs
  <2>9. ASSUME s.kind \in Singles, ~ new.behind
        PROVE  \/ db'[x] = db[x]
               \/ x \notin Row \/ s.pc \in {"period", "idle"}
               \/ /\ db[x] # NoRow /\ db'[x] # NoRow /\ x \notin DOMAIN held[q]
                  /\ \A f \in Columns(s) : db'[x][f] = db[x][f]
    <3>1. s.pc # "period" /\ s.pc # "idle" => x[1] # "plan"
      BY <2>1, <2>9, RowNames DEF LocalOK, Singles
    <3> QED BY <1>4, <2>5, <2>9, <3>1, NotOvertaken
  <2>10. s.kind \in Singles => s.pc # "idle" /\ (s.pc # "period" => x \in Row)
    <3>1. s.kind \in Singles => s.pc # "idle"
      BY <2>1, StepsAre, IdleIs DEF LocalOK, Singles
    <3> QED BY <2>1, <3>1, RowsAre DEF LocalOK, Singles
  <2>11. Current(q)'
    <3>1. Columns(new) = Columns(s)
      BY <2>2 DEF Columns
    <3>2. s.kind \in {"contribute", "patch"} => s.pc # "period"
      BY <2>1, KindOf DEF LocalOK
    <3> QED BY <2>1, <2>2, <2>5, <2>9, <2>10, <3>1, <3>2 DEF Current, Singles
  <2>12. Makes(q)'
    <3> SUFFICES ASSUME s.pc = "store", s.kind \in Singles PROVE Makes(q)'
      BY <2>2, <2>5 DEF Makes, Singles
    <3>1. Alone(new, new.goal) = Alone(s, s.goal)
      BY <2>2 DEF Alone
    <3>2. CASE s.kind = "create"
      BY <2>1, <2>2, <2>5, <3>2 DEF Makes
    <3>3. CASE s.kind \in {"contribute", "patch"}
      <4>1. ~ new.behind /\ x \in DOMAIN held[q] => db'[x] = db[x]
        BY <2>9, <2>10
      <4> QED BY <2>1, <2>2, <2>5, <3>1, <3>3, <4>1 DEF Makes
    <3>4. CASE s.kind \in {"target", "preference"}
      <4>1. x \in Row /\ x[1] = s.kind
        BY <2>1, <3>4, RowNames, RowsAre DEF LocalOK
      <4>2. ValueOK(x, db[x]) /\ ValueOK(x, db'[x])
        BY <4>1, CommitIs DEF IInv, TypeOK
      <4>3. ~ new.behind => db'[x] = db[x]
        <5> SUFFICES ASSUME db[x] # NoRow, db'[x] # NoRow,
                            \A f \in Columns(s) : db'[x][f] = db[x][f]
                     PROVE  db'[x] = db[x]
          BY <2>9, <4>1, IdleIs
        <5>1. CASE s.kind = "target"
          <6>1. db[x] \in Targets /\ db'[x] \in Targets /\ db'[x]["target"] = db[x]["target"]
            BY <4>1, <4>2, <5>1 DEF ValueOK, Columns
          <6> QED BY <6>1 DEF Targets
        <5>2. CASE s.kind = "preference"
          <6>1. /\ db[x] \in Preferences /\ db'[x] \in Preferences
                /\ db'[x]["icon"] = db[x]["icon"] /\ db'[x]["color"] = db[x]["color"]
            BY <4>1, <4>2, <5>2 DEF ValueOK, Columns
          <6> QED BY <6>1 DEF Preferences
        <5> QED BY <3>4, <5>1, <5>2
      <4> QED BY <2>1, <2>2, <2>5, <3>1, <3>4, <4>3 DEF Makes
    <3> QED BY <3>2, <3>3, <3>4 DEF Singles
  <2> QED BY <2>4, <2>5, <2>7, <2>8, <2>11, <2>12 DEF RequestOK
<1>5. \A q \in Req : RequestOK(q)'
  BY <1>3, <1>4
<1>6. TypeOK'
  <2>1. \A q \in Req : LocalOK(at'[q])
    BY <1>5 DEF RequestOK
  <2>2. \A q \in Req : at'[q].pc \in {"idle", "apply", "sum", "spend", "plan", "period", "target", "store"}
    BY <2>1, Places
  <2>3. \A q \in Req : /\ \A x \in DOMAIN held'[q] : ValueOK(x, held'[q][x])
                       /\ \A x \in DOMAIN want'[q] :
                            ValueOK(x, want'[q][x].was) /\ ValueOK(x, want'[q][x].new)
    BY <1>1, <1>2 DEF IInv, TypeOK
  <2>4. \A q \in Req : /\ at'[q].kind \in Kind /\ at'[q].period \in 0..MaxMonth
                       /\ at'[q].behind \in BOOLEAN /\ at'[q].goal \in Goals \cup {NoRow}
                       /\ at'[q].row \in Row \cup {NoRow}
    BY <2>1 DEF LocalOK
  <2>5. DOMAIN db' = Row /\ \A x \in Row : ValueOK(x, db'[x]) /\ ValueOK(x, serial'[x])
    BY CommitIs
  <2>6. month' \in Month /\ ledger' \in Ledgers /\ scene' \in Scenes
    BY <1>1 DEF IInv, TypeOK
  <2> QED BY <2>2, <2>3, <2>4, <2>5, <2>6 DEF TypeOK
<1>7. LocksExclude'
  BY <1>2 DEF IInv, LocksExclude
<1>8. AsIfOneByOne'
  BY CommitIs DEF AsIfOneByOne
<1>9. NothingDangles'
  <2>1. Hangs(r) /\ NothingDangles /\ Writes(r) = DOMAIN held[r]
    BY <1>1 DEF IInv, RequestOK, Writes
  <2>2. /\ Lasting(Budget) /\ Budget \in Row /\ Budget[1] # "plan"
        /\ \A m \in Month : Lasting(Period(m)) /\ Period(m) \in Row /\ Period(m)[1] # "plan"
        /\ \A m \in Month, c \in Category : Target(m, c) \in Row /\ Target(m, c)[1] # "plan"
    BY RowNames, RowsAre DEF Lasting
  <2>3. \A m \in Month : db'[Period(m)] # NoRow => db'[Budget] # NoRow
    <3> SUFFICES ASSUME NEW m \in Month, db'[Period(m)] # NoRow PROVE db'[Budget] # NoRow
      OBVIOUS
    <3>1. Period(m) \in Writes(r) \/ db[Period(m)] # NoRow
      BY <2>1, <2>2, CommitIs
    <3>2. Budget \in Writes(r) \/ db[Budget] # NoRow
      BY <2>1, <3>1 DEF Hangs, NothingDangles
    <3> QED BY <2>2, <3>2, CommitIs
  <2>4. \A m \in Month, c \in Category : db'[Target(m, c)] # NoRow => db'[Period(m)] # NoRow
    <3> SUFFICES ASSUME NEW m \in Month, NEW c \in Category, db'[Target(m, c)] # NoRow
                 PROVE  db'[Period(m)] # NoRow
      OBVIOUS
    <3>1. Target(m, c) \in Writes(r) \/ db[Target(m, c)] # NoRow
      BY <2>1, <2>2, CommitIs
    <3>2. Period(m) \in Writes(r) \/ db[Period(m)] # NoRow
      BY <2>1, <3>1 DEF Hangs, NothingDangles
    <3> QED BY <2>2, <3>2, CommitIs
  <2> QED BY <2>3, <2>4, CommitIs DEF NothingDangles
<1> QED BY <1>2, <1>5, <1>6, <1>7, <1>8, <1>9 DEF IInv
LEMMA LedgerStep ==
    ASSUME IInv, Sync \/ Turn
    PROVE  IInv'
<1>1. /\ UNCHANGED <<session, scene, at, serial>>
      /\ ledger' \in Ledgers /\ month' \in Month
  BY DataAssumption, BoundAssumption DEF Sync, Turn, IInv, TypeOK, Month
<1>2. db' = db /\ want' = want /\ held' = held
  BY <1>1 DEF session
<1>3. ASSUME NEW r \in Req PROVE RequestOK(r)'
  BY <1>1, <1>2, <1>3, Frame DEF IInv
<1>4. TypeOK' /\ LocksExclude' /\ AsIfOneByOne' /\ NothingDangles'
  BY <1>1, <1>2 DEF IInv, TypeOK, LocksExclude, AsIfOneByOne, NothingDangles
<1> QED BY <1>1, <1>2, <1>3, <1>4 DEF IInv

LEMMA StutterStep ==
    ASSUME IInv, UNCHANGED vars
    PROVE  IInv'
<1>1. /\ UNCHANGED <<scene, month, ledger, at, serial>> /\ db' = db /\ want' = want /\ held' = held
  BY DEF vars, session
<1>2. ASSUME NEW r \in Req PROVE RequestOK(r)'
  BY <1>1, <1>2, Frame DEF IInv
<1>3. TypeOK' /\ LocksExclude' /\ AsIfOneByOne' /\ NothingDangles'
  BY <1>1 DEF IInv, TypeOK, LocksExclude, AsIfOneByOne, NothingDangles
<1> QED BY <1>1, <1>2, <1>3 DEF IInv

LEMMA NextStep ==
    ASSUME IInv, [Next]_vars
    PROVE  IInv'
<1>1. CASE UNCHANGED vars
  BY <1>1, StutterStep
<1>2. CASE Sync \/ Turn
  BY <1>2, LedgerStep
<1>3. ASSUME NEW r \in Req, Begin(r) PROVE IInv'
  <2>1. CASE CreateGoal(r)
    BY <2>1, CreateStep
  <2>2. CASE Contribute(r) \/ Patch(r) \/ Delete(r)
    BY <2>2, LoadsStep
  <2>3. CASE \E g \in Goal : BeginPlan(r, g)
    BY <2>3, BeginPlanStep
  <2>4. CASE BeginBudget(r, "budget") \/ BeginBudget(r, "propose")
    BY <2>4, BudgetStep
  <2>5. scene.about \subseteq Category
    BY DataAssumption DEF IInv, TypeOK
  <2>6. CASE \E c \in scene.about, a \in Amount : BeginTarget(r, c, a)
    BY <2>5, <2>6, BeginTargetStep
  <2>7. CASE \E c \in scene.about, i \in Icon, k \in Color : SetPreference(r, c, i, k)
    BY <2>5, <2>7, PreferenceStep
  <2>8. CASE TurnedDown(r)
    BY <2>8, StutterStep DEF TurnedDown
  <2> QED BY <1>3, <2>1, <2>2, <2>3, <2>4, <2>6, <2>7, <2>8 DEF Begin
<1>4. ASSUME NEW r \in Req, Advance(r) PROVE IInv'
  <2>1. CASE Clean(r) /\ Work(r)
    BY <2>1, EditStep, SumStep, FailStep, MakePlanStep, FindPeriodStep, SetTargetStep, CommitStep
       DEF Work, SumSpendFails
  <2>2. CASE Send(r)
    BY <2>2, FlushStep
  <2>3. CASE Fail(r)
    BY <2>3, FailStep DEF Fail, FlushFails
  <2> QED BY <1>4, <2>1, <2>2, <2>3 DEF Advance
<1> QED BY <1>1, <1>2, <1>3, <1>4 DEF Next

LEMMA InitHolds ==
    ASSUME Init
    PROVE  IInv
<1>1. /\ scene \in Scenes /\ serial = db /\ month = 1
      /\ want = [r \in Req |-> Nothing] /\ held = [r \in Req |-> Nothing]
      /\ at = [r \in Req |-> Idle] /\ ledger \in Ledgers
  BY DataAssumption DEF Init
<1>2. db = [x \in Row |-> IF x[1] = "goal" THEN scene.goal
                         ELSE IF x = Budget /\ scene.budget THEN Exists ELSE NoRow]
  BY DEF Init
<1>3. scene.goal \in Goals \cup {NoRow}
  BY <1>1, DataAssumption
<1>4. \A x \in Row : ValueOK(x, db[x]) /\ (x # Budget /\ x[1] # "goal" => db[x] = NoRow)
  <2> SUFFICES ASSUME NEW x \in Row
               PROVE  ValueOK(x, db[x]) /\ (x # Budget /\ x[1] # "goal" => db[x] = NoRow)
    OBVIOUS
  <2>1. db[x] = IF x[1] = "goal" THEN scene.goal
                ELSE IF x = Budget /\ scene.budget THEN Exists ELSE NoRow
    BY <1>2
  <2>2. Budget[1] = "budget"
    BY DEF Budget
  <2> QED BY <1>3, <2>1, <2>2 DEF ValueOK
<1>5. TypeOK
  <2>1. \A r \in Req : /\ at[r] = Idle /\ DOMAIN held[r] = {} /\ DOMAIN want[r] = {}
    BY <1>1 DEF Nothing
  <2>2. month \in Month
    BY <1>1, BoundAssumption DEF Month
  <2>3. Idle.period \in 0..MaxMonth /\ Idle.kind \in Kind
    BY BoundAssumption, IdleIs DEF Kind
  <2> QED BY <1>1, <1>2, <1>4, <2>1, <2>2, <2>3, IdleIs DEF TypeOK
<1>6. LocksExclude /\ AsIfOneByOne
  BY <1>1 DEF LocksExclude, AsIfOneByOne, Nothing
<1>7. NothingDangles
  <2>1. /\ \A m \in Month : Period(m) \in Row /\ Period(m) # Budget /\ Period(m)[1] = "period"
        /\ \A m \in Month, c \in Category :
             Target(m, c) \in Row /\ Target(m, c) # Budget /\ Target(m, c)[1] = "target"
        /\ \A g \in Goal, k \in 1..MaxPlan :
             PlanRow(g, k) \in Row /\ PlanRow(g, k) # Budget /\ PlanRow(g, k)[1] = "plan"
    BY RowNames, RowsAre
  <2> QED BY <1>4, <2>1 DEF NothingDangles
<1>8. ASSUME NEW r \in Req PROVE RequestOK(r)
  <2>1. at[r] = Idle /\ DOMAIN want[r] = {} /\ DOMAIN held[r] = {}
    BY <1>1 DEF Nothing
  <2> QED BY <2>1, IdleIs DEF RequestOK, WritesOK, Writes, Hangs, Current, Makes
<1> QED BY <1>1, <1>5, <1>6, <1>7, <1>8 DEF IInv

THEOREM Invariant == Spec => []IInv
BY InitHolds, NextStep, PTL DEF Spec

-----------------------------------------------------------------------------
(* The theorems.                                                           *)

\* Every row, and everything pending, sent or in a request's hands, is of its kind.
THEOREM TypeCorrect == Spec => []TypeOK
<1>1. IInv => TypeOK
  BY DEF IInv
<1> QED BY <1>1, Invariant, PTL

\* However the requests interleave, the stored goals, targets and preferences are what the
\* requests make of them one after the other (contribute_to_goal, update_goal,
\* set_category_target, upsert_pref).
THEOREM OneByOne == Spec => []AsIfOneByOne
<1>1. IInv => AsIfOneByOne
  BY DEF IInv
<1> QED BY <1>1, Invariant, PTL

\* A plan, a period or a target is never without what it belongs to (generate_plan,
\* delete_goal, create_budget, set_category_target).
THEOREM Dangling == Spec => []NothingDangles
<1>1. IInv => NothingDangles
  BY DEF IInv
<1> QED BY <1>1, Invariant, PTL

\* A contribution or an update that was not overtaken leaves no active goal at its target
\* (contribute_to_goal, update_goal).
THEOREM FullCorrect == Spec => FullIsCompleted
<1> DEFINE A == \A r \in Req, g \in Goal :
                  /\ at[r].kind \in {"contribute", "patch"} /\ at[r].row = GoalRow(g)
                  /\ Commit(r) /\ ~ at[r].behind
                  /\ db'[GoalRow(g)] # NoRow /\ db'[GoalRow(g)].status = "active"
                  => Remaining(db'[GoalRow(g)]) > 0
<1>1. IInv /\ [Next]_vars => [A]_vars
  <2> SUFFICES ASSUME IInv, NEW r \in Req, NEW g \in Goal,
                      at[r].kind \in {"contribute", "patch"}, at[r].row = GoalRow(g),
                      Commit(r), ~ at[r].behind, db'[GoalRow(g)].status = "active"
               PROVE  Remaining(db'[GoalRow(g)]) > 0
    OBVIOUS
  <2> DEFINE s == at[r]
             x == GoalRow(g)
             old == db[x]
  <2>1. /\ s.pc = "store" /\ Clean(r)
    BY DEF Commit
  <2>2. x \in Row /\ x[1] # "plan" /\ Sees(r)[x] = Alone(s, old) /\ old \in Goals
    BY <2>1, StoresItsOwn DEF Singles
  <2>3. db'[x] = Edited(s.kind, old, s.new)
    <3>1. db'[x] = Sees(r)[x]
      BY <2>1, <2>2, CommitIs DEF Sees, Clean, Commit, Cascade
    <3> QED BY <2>2, <3>1, NoRowAssumption DEF Alone
  <2>4. /\ s.kind = "contribute" => s.new \in Nat
        /\ s.kind = "patch" => s.new \in Patches
    BY DEF IInv, RequestOK, LocalOK
  <2>5. db'[x] \in Goals /\ db'[x].current < db'[x].target
    BY <2>2, <2>3, <2>4, EditsAreGoals
  <2> QED BY <2>5 DEF Remaining, Goals
<1> QED BY <1>1, Invariant, PTL DEF Spec, FullIsCompleted

-----------------------------------------------------------------------------
(* Plans.                                                                  *)

\* What PlansAddUp says of one plan.
AddsUp(plan) ==
    /\ Reaches(plan.goal, plan.ledger.surplus, plan.today, plan.projection)
    /\ plan.projection.gap > 0 =>
         Closes(plan.ledger.spend, Protected, plan.projection.gap, plan.cuts)

Spending(spend) == IsFiniteSet(DOMAIN spend) /\ \A c \in DOMAIN spend : spend[c] \in Int

\* The plan a request is to make goes by spending that was stored; what it has pending or
\* sent adds up.
PlanInHand(r) ==
    /\ at[r].pc = "plan" => Spending(at[r].ledger.spend)
    /\ at[r].kind = "plan" /\ at[r].pc = "store" =>
         /\ \A x \in DOMAIN want[r] : x[1] = "plan" => AddsUp(want[r][x].new)
         /\ \A x \in DOMAIN held[r] : x[1] = "plan" => AddsUp(held[r][x])

PlansInv ==
    /\ \A x \in Row : x[1] = "plan" /\ db[x] # NoRow => AddsUp(db[x])
    /\ \A r \in Req : PlanInHand(r)

\* Only a request that makes a plan has plans in hand, and only where it stores them.
LEMMA PlansInScope ==
    ASSUME IInv, NEW r \in Req, NEW x \in Writes(r), x[1] = "plan"
    PROVE  at[r].kind = "plan" /\ at[r].pc = "store"
<1> DEFINE s == at[r]
<1>1. InScope(s, x) /\ LocalOK(s)
  BY DEF IInv, RequestOK, WritesOK
<1>2. CASE s.pc = "target"
  BY <1>1, <1>2, RowNames DEF InScope
<1>3. CASE s.pc = "store" /\ s.kind \in {"budget", "propose"}
  BY <1>1, <1>3, ScopesAre
<1>4. CASE s.pc = "store" /\ s.kind = "target"
  <2>1. x \in {Period(s.period), s.row}
    BY <1>1, <1>4, ScopesAre
  <2>2. s.row = Target(s.period, s.new.category)
    BY <1>1, <1>4 DEF LocalOK
  <2> QED BY <2>1, <2>2, RowNames
<1>5. CASE s.pc = "store" /\ s.kind \in {"create", "contribute", "patch", "delete", "preference"}
  <2>1. x = s.row
    BY <1>1, <1>5, ScopesAre
  <2>2. (\E g \in Goal : s.row = GoalRow(g)) \/ (\E c \in Category : s.row = Preference(c))
    BY <1>1, <1>5 DEF LocalOK
  <2> QED BY <2>1, <2>2, RowNames
<1>6. s.pc \in {"target", "store"}
  BY <1>1 DEF InScope
<1>7. s.pc = "store" => s.kind \in Kind \ {"none"}
  <2>1. Steps("none") = {} /\ Idle.pc = "idle"
    BY StepsAre, IdleIs
  <2> QED BY <1>1, <2>1 DEF LocalOK
<1> QED BY <1>2, <1>3, <1>4, <1>5, <1>6, <1>7 DEF Kind

\* What stays of a request when another takes a step.
Stays(r) ==
    /\ want'[r] = want[r] /\ held'[r] = held[r]
    /\ at'[r].pc = at[r].pc /\ at'[r].kind = at[r].kind /\ at'[r].ledger = at[r].ledger

\* A step of request q that does not send.
Quiet(q, new) ==
    /\ Go(q, new) \/ (UNCHANGED <<scene, month, ledger, at, serial>> /\ new = at[q])
    /\ UNCHANGED <<db, held>>
    /\ (\E c : want' = [want EXCEPT ![q] = c]) \/ UNCHANGED want

LEMMA QuietIs ==
    ASSUME IInv, NEW q \in Req, NEW new, Quiet(q, new)
    PROVE  db' = db /\ at'[q] = new /\ \A r \in Req \ {q} : Stays(r)
BY DEF IInv, Quiet, Go, Stays

LEMMA PendIsQuiet ==
    ASSUME NEW q, NEW new, Go(q, new), UNCHANGED session \/ \E c : Pend(q, c)
    PROVE  Quiet(q, new)
BY DEF Quiet, session, Pend

\* A request that begins has no plan in hand.
LEMMA BeginsWithoutPlan ==
    ASSUME IInv, NEW q \in Req, Begin(q)
    PROVE  \E new : Quiet(q, new) /\ ~ (new.kind = "plan" /\ new.pc \in {"plan", "store"})
<1>1. ASSUME NEW kind, NEW g, NEW pc, NEW what, Load(q, kind, g, pc, what), pc \notin {"plan", "store"}
      PROVE  \E new : Quiet(q, new) /\ new.pc \notin {"plan", "store"}
  <2> DEFINE new == [Idle EXCEPT !.pc = pc, !.kind = kind, !.goal = db[GoalRow(g)],
                                 !.row = GoalRow(g), !.new = what]
  <2>1. Go(q, new) /\ UNCHANGED session
    BY <1>1, Zenon DEF Load
  <2>2. new.pc = pc
    BY DEF Idle
  <2> HIDE DEF new
  <2> QED BY <1>1, <2>1, <2>2, PendIsQuiet
<1>2. CASE CreateGoal(q)
  <2>1. PICK g, goal : Create(q, g, goal)
    BY <1>2 DEF CreateGoal
  <2> DEFINE new == [Idle EXCEPT !.pc = "store", !.kind = "create", !.row = GoalRow(g), !.new = goal]
  <2>2. Go(q, new) /\ \E c : Pend(q, c)
    BY <2>1, Zenon DEF Create
  <2>3. new.kind = "create"
    BY DEF Idle
  <2> HIDE DEF new
  <2> QED BY <2>2, <2>3, PendIsQuiet
<1>3. CASE Contribute(q) \/ Patch(q) \/ Delete(q)
  BY <1>1, <1>3 DEF Contribute, Patch, Delete
<1>4. CASE \E g \in Goal : BeginPlan(q, g)
  BY <1>1, <1>4 DEF BeginPlan
<1>5. CASE BeginBudget(q, "budget") \/ BeginBudget(q, "propose")
  <2>1. PICK kind, targets : kind \in {"budget", "propose"} /\ CreateBudget(q, kind, targets)
    BY <1>5 DEF BeginBudget
  <2> DEFINE new == [Idle EXCEPT !.pc = "store", !.kind = kind, !.row = Budget]
  <2>2. Go(q, new) /\ \E c : Pend(q, c)
    BY <2>1, Zenon DEF CreateBudget
  <2>3. new.kind = kind
    BY DEF Idle
  <2> HIDE DEF new
  <2> QED BY <2>1, <2>2, <2>3, PendIsQuiet
<1>6. CASE \E c \in scene.about, a \in Amount : BeginTarget(q, c, a)
  <2>1. PICK c, a : BeginTarget(q, c, a)
    BY <1>6
  <2> DEFINE new == [Idle EXCEPT !.pc = "period", !.kind = "target",
                                 !.new = [category |-> c, target |-> a]]
  <2>2. Go(q, new) /\ UNCHANGED session
    BY <2>1, Zenon DEF BeginTarget
  <2>3. new.kind = "target"
    BY DEF Idle
  <2> HIDE DEF new
  <2> QED BY <2>2, <2>3, PendIsQuiet
<1>7. CASE \E c \in scene.about, i \in Icon, k \in Color : SetPreference(q, c, i, k)
  <2>1. PICK c, i, k : SetPreference(q, c, i, k)
    BY <1>7
  <2> DEFINE new == [Idle EXCEPT !.pc = "store", !.kind = "preference", !.row = Preference(c),
                                 !.new = [icon |-> i, color |-> k]]
  <2>2. Go(q, new) /\ \E d : Pend(q, d)
    BY <2>1, Zenon DEF SetPreference
  <2>3. new.kind = "preference"
    BY DEF Idle
  <2> HIDE DEF new
  <2> QED BY <2>2, <2>3, PendIsQuiet
<1>8. CASE TurnedDown(q)
  <2>1. at[q].pc = "idle" /\ Quiet(q, at[q])
    BY <1>8 DEF TurnedDown, vars, session, Quiet
  <2> QED BY <2>1
<1> QED BY <1>2, <1>3, <1>4, <1>5, <1>6, <1>7, <1>8 DEF Begin

\* Of a request's later steps, those that come to no plan.
LEMMA WorksWithoutPlan ==
    ASSUME IInv, NEW q \in Req,
           Edit(q) \/ DeleteGoal(q) \/ SumSurplus(q) \/ FindPeriod(q) \/ SetTarget(q)
    PROVE  \E new : Quiet(q, new) /\ ~ (new.kind = "plan" /\ new.pc \in {"plan", "store"})
<1> DEFINE s == at[q]
<1>1. LocalOK(s)
  BY DEF IInv, RequestOK
<1>2. CASE Edit(q) \/ DeleteGoal(q) \/ SetTarget(q)
  <2> DEFINE new == [s EXCEPT !.pc = "store"]
  <2>1. Go(q, new) /\ \E c : Pend(q, c)
    BY <1>2, Zenon DEF Edit, DeleteGoal, SetTarget
  <2>2. s.kind # "plan"
    BY <1>1, <1>2, KindOf DEF Edit, DeleteGoal, SetTarget
  <2>3. new.kind = s.kind
    BY <1>1, MovesTo
  <2> HIDE DEF new
  <2> QED BY <2>1, <2>2, <2>3, PendIsQuiet
<1>3. CASE SumSurplus(q)
  <2> DEFINE new == [s EXCEPT !.pc = "spend", !.ledger = ledger]
  <2>1. Go(q, new) /\ UNCHANGED session
    BY <1>3, Zenon DEF SumSurplus
  <2>2. new.pc = "spend"
    BY <1>1 DEF LocalOK
  <2> HIDE DEF new
  <2> QED BY <2>1, <2>2, PendIsQuiet
<1>4. CASE FindPeriod(q)
  <2> DEFINE new == [s EXCEPT !.pc = "target", !.period = month,
                              !.row = Target(month, s.new.category)]
  <2>1. Go(q, new) /\ \E c : Pend(q, c)
    BY <1>4, Zenon DEF FindPeriod
  <2>2. new.pc = "target"
    BY <1>1 DEF LocalOK
  <2> HIDE DEF new
  <2> QED BY <2>1, <2>2, PendIsQuiet
<1> QED BY <1>2, <1>3, <1>4

\* A quiet step that comes to no plan keeps them all.
LEMMA KeepsPlans ==
    ASSUME IInv, PlansInv, NEW q \in Req, NEW new, Quiet(q, new), PlanInHand(q)'
    PROVE  PlansInv'
<1>1. db' = db /\ \A r \in Req \ {q} : Stays(r)
  BY QuietIs
<1>2. \A r \in Req \ {q} : PlanInHand(r)'
  BY <1>1 DEF PlansInv, PlanInHand, Stays
<1> QED BY <1>1, <1>2 DEF PlansInv

LEMMA WithoutPlan ==
    ASSUME IInv, PlansInv, NEW q \in Req, IInv',
           \E new : Quiet(q, new) /\ ~ (new.kind = "plan" /\ new.pc \in {"plan", "store"})
    PROVE  PlansInv'
<1>1. PICK new : Quiet(q, new) /\ ~ (new.kind = "plan" /\ new.pc \in {"plan", "store"})
  OBVIOUS
<1>2. at'[q] = new
  BY <1>1, QuietIs
<1>3. LocalOK(new)
  BY <1>2 DEF IInv, RequestOK, LocalOK
<1>4. new.pc # "plan" /\ ~ (new.kind = "plan" /\ new.pc = "store")
  BY <1>1, <1>3, KindOf
<1>5. PlanInHand(q)'
  BY <1>2, <1>4 DEF PlanInHand
<1> QED BY <1>1, <1>5, KeepsPlans

LEMMA LedgersAre ==
    ASSUME IInv
    PROVE  ledger.surplus \in Int /\ Spending(ledger.spend)
BY DataAssumption DEF IInv, TypeOK, Spending

LEMMA SumSpendKeeps ==
    ASSUME IInv, PlansInv, NEW r \in Req, SumSpend(r)
    PROVE  PlansInv'
<1> DEFINE s == at[r]
           l == [s.ledger EXCEPT !.spend = ledger.spend]
           new == [s EXCEPT !.pc = "plan", !.ledger.spend = ledger.spend]
<1>1. LocalOK(s) /\ s.pc = "spend"
  BY DEF IInv, RequestOK, SumSpend
<1>2. l.spend = ledger.spend
  BY <1>1 DEF LocalOK
<1>3. new.pc = "plan" /\ new.ledger = l
  BY <1>1 DEF LocalOK
<1>4. Go(r, new) /\ UNCHANGED session
  BY Zenon DEF SumSpend
<1> HIDE DEF new, l
<1>5. Quiet(r, new) /\ at'[r] = new
  BY <1>4, PendIsQuiet, QuietIs
<1>6. PlanInHand(r)'
  BY <1>2, <1>3, <1>5, LedgersAre DEF PlanInHand
<1> QED BY <1>5, <1>6, KeepsPlans

LEMMA MakePlanKeeps ==
    ASSUME IInv, PlansInv, NEW r \in Req, MakePlan(r)
    PROVE  PlansInv'
<1> DEFINE s == at[r]
           p == Project(s.goal, s.ledger.surplus, month)
           new == [s EXCEPT !.pc = "store"]
           plan(ranked) ==
             [goal |-> s.goal, ledger |-> s.ledger, today |-> month, projection |-> p,
              cuts |-> IF p.gap > 0 THEN RecommendCuts(s.ledger.spend, ranked, p.gap)
                       ELSE [c \in {} |-> 0]]
<1>0. PICK k : /\ s.pc = "plan" /\ Go(r, new)
               /\ \E ranked \in Rankings(s.ledger.spend, Protected) :
                    Pend(r, Becomes(PlanRow(s.row[2], k), NoRow, plan(ranked)))
  BY Zenon DEF MakePlan
<1>1. PICK ranked \in Rankings(s.ledger.spend, Protected) :
        /\ s.pc = "plan" /\ Go(r, new)
        /\ Pend(r, Becomes(PlanRow(s.row[2], k), NoRow, plan(ranked)))
  BY <1>0
<1>2. LocalOK(s) /\ s.kind = "plan" /\ DOMAIN held[r] = {} /\ Spending(s.ledger.spend)
  BY <1>1, KindOf, NothingWritten DEF IInv, RequestOK, PlansInv, PlanInHand
<1>3. /\ s.goal.target \in Nat /\ s.goal.current \in Nat /\ s.goal.date \in Nat
      /\ s.ledger.surplus \in Int /\ month \in Nat
  <2>1. s.goal \in Goals /\ s.ledger.surplus \in Int
    BY <1>1, <1>2 DEF LocalOK
  <2>2. month \in Nat
    BY BoundAssumption DEF IInv, TypeOK, Month
  <2> QED BY <2>1, <2>2 DEF Goals
<1>4. Reaches(s.goal, s.ledger.surplus, month, p) /\ p.gap \in Nat
  <2> HIDE DEF s
  <2> QED BY <1>3, ProjectionsReach
<1>5. Closes(s.ledger.spend, Protected, p.gap, RecommendCuts(s.ledger.spend, ranked, p.gap))
  <2> HIDE DEF s, p
  <2> QED BY <1>1, <1>2, <1>4, CutsClose DEF Spending
<1>6. AddsUp(plan(ranked))
  <2>1. /\ plan(ranked).goal = s.goal /\ plan(ranked).ledger = s.ledger
        /\ plan(ranked).today = month /\ plan(ranked).projection = p
        /\ p.gap > 0 => plan(ranked).cuts = RecommendCuts(s.ledger.spend, ranked, p.gap)
    OBVIOUS
  <2> HIDE DEF s, p, plan
  <2> QED BY <1>4, <1>5, <2>1 DEF AddsUp
<1> DEFINE x == PlanRow(s.row[2], k)
           made == plan(ranked)
           changes == Becomes(x, NoRow, made)
<1>7. Go(r, new) /\ Pend(r, changes) /\ new.pc = "store"
  BY <1>1, <1>2, MovesTo
<1> HIDE DEF s, p, plan, x, made
<1>8. \A y \in DOMAIN changes : changes[y].new = made
  BY DEF Becomes, Changes, Change
<1> HIDE DEF new, changes
<1>9. Quiet(r, new) /\ at'[r] = new /\ want'[r] = changes /\ held'[r] = held[r]
  <2>1. Quiet(r, new)
    BY <1>7, PendIsQuiet
  <2> QED BY <1>7, <2>1, QuietIs DEF Pend, IInv
<1>10. PlanInHand(r)'
  BY <1>2, <1>6, <1>7, <1>8, <1>9 DEF PlanInHand, made
<1> QED BY <1>9, <1>10, KeepsPlans

LEMMA SendKeeps ==
    ASSUME IInv, PlansInv, NEW q \in Req, Send(q)
    PROVE  PlansInv'
<1>1. db' = db /\ at' = at
  BY DEF Send, Flush
<1>2. PICK row \in DOMAIN want[q] :
        /\ ~ Clash(want[q][row], Sees(q)[row])
        /\ held' = [held EXCEPT ![q] =
                      [x \in DOMAIN held[q] \cup {row} |->
                         IF x = row THEN Sent(want[q][row], Sees(q)[row]) ELSE held[q][x]]]
        /\ want' = [want EXCEPT ![q] = [x \in DOMAIN want[q] \ {row} |-> want[q][x]]]
  BY DEF Send, Flush, IInv
<1>3. /\ DOMAIN held'[q] = DOMAIN held[q] \cup {row}
      /\ held'[q][row] = Sent(want[q][row], Sees(q)[row])
      /\ \A x \in DOMAIN held[q] : x # row => held'[q][x] = held[q][x]
      /\ DOMAIN want'[q] = DOMAIN want[q] \ {row}
      /\ \A x \in DOMAIN want'[q] : want'[q][x] = want[q][x]
      /\ \A r \in Req \ {q} : want'[r] = want[r] /\ held'[r] = held[r]
  BY <1>2 DEF IInv
<1>4. row[1] = "plan" => held'[q][row] = want[q][row].new
  <2>1. row[1] = "plan" => want[q][row].was = NoRow
    BY DEF IInv, RequestOK, WritesOK
  <2> QED BY <1>2, <1>3, <2>1 DEF Clash, Sent
<1>5. PlanInHand(q)
  BY DEF PlansInv
<1>6. PlanInHand(q)'
  <2> SUFFICES ASSUME at[q].kind = "plan", at[q].pc = "store"
               PROVE  /\ \A x \in DOMAIN want'[q] : x[1] = "plan" => AddsUp(want'[q][x].new)
                      /\ \A x \in DOMAIN held'[q] : x[1] = "plan" => AddsUp(held'[q][x])
    BY <1>1, <1>5 DEF PlanInHand
  <2>1. /\ \A x \in DOMAIN want[q] : x[1] = "plan" => AddsUp(want[q][x].new)
        /\ \A x \in DOMAIN held[q] : x[1] = "plan" => AddsUp(held[q][x])
    BY <1>5 DEF PlanInHand
  <2>2. row[1] = "plan" => AddsUp(held'[q][row])
    BY <1>4, <2>1
  <2> QED BY <1>3, <2>1, <2>2
<1>7. \A r \in Req \ {q} : PlanInHand(r)'
  BY <1>1, <1>3 DEF PlansInv, PlanInHand
<1> QED BY <1>1, <1>6, <1>7 DEF PlansInv

LEMMA FailKeeps ==
    ASSUME IInv, PlansInv, NEW q \in Req, Rollback(q), Go(q, Idle)
    PROVE  PlansInv'
<1>1. /\ at' = [at EXCEPT ![q] = Idle] /\ want' = [want EXCEPT ![q] = Nothing]
      /\ held' = [held EXCEPT ![q] = Nothing] /\ db' = db
  BY DEF Rollback, Go
<1>2. /\ at'[q] = Idle
      /\ \A r \in Req \ {q} : at'[r] = at[r] /\ want'[r] = want[r] /\ held'[r] = held[r]
  BY <1>1 DEF IInv
<1>3. PlanInHand(q)'
  BY <1>2, IdleIs DEF PlanInHand
<1>4. \A r \in Req \ {q} : PlanInHand(r)'
  BY <1>2 DEF PlansInv, PlanInHand
<1> QED BY <1>1, <1>3, <1>4 DEF PlansInv

LEMMA CommitKeeps ==
    ASSUME IInv, PlansInv, NEW q \in Req, Commit(q)
    PROVE  PlansInv'
<1>1. /\ at' = [r \in Req |-> IF r = q THEN Idle
                              ELSE [at[r] EXCEPT !.behind = @ \/ Overtakes(q, r)]]
      /\ held' = [held EXCEPT ![q] = Nothing] /\ want' = want
      /\ db' = Cascade(Sees(q))
  BY DEF Commit
<1>2. ASSUME NEW r \in Req \ {q} PROVE Stays(r)
  <2>1. at'[r] = [at[r] EXCEPT !.behind = @ \/ Overtakes(q, r)]
    BY <1>1
  <2>2. at'[r].pc = at[r].pc /\ at'[r].kind = at[r].kind /\ at'[r].ledger = at[r].ledger
    BY <2>1 DEF IInv, RequestOK, LocalOK
  <2>3. want'[r] = want[r] /\ held'[r] = held[r]
    BY <1>1 DEF IInv
  <2> QED BY <2>2, <2>3 DEF Stays
<1>3. \A r \in Req \ {q} : PlanInHand(r)'
  BY <1>2 DEF PlansInv, PlanInHand, Stays
<1>4. PlanInHand(q)'
  BY <1>1, IdleIs DEF PlanInHand
<1>5. ASSUME NEW x \in Row, x[1] = "plan", db'[x] # NoRow PROVE AddsUp(db'[x])
  <2>1. db'[x] = Sees(q)[x]
    BY <1>1, <1>5 DEF Cascade
  <2>2. CASE x \in DOMAIN held[q]
    <3>1. at[q].kind = "plan" /\ at[q].pc = "store"
      BY <1>5, <2>2, PlansInScope DEF Writes
    <3>2. db'[x] = held[q][x]
      BY <2>1, <2>2 DEF Sees
    <3> QED BY <1>5, <2>2, <3>1, <3>2 DEF PlansInv, PlanInHand
  <2>3. CASE x \notin DOMAIN held[q]
    BY <1>5, <2>1, <2>3 DEF Sees, PlansInv
  <2> QED BY <2>2, <2>3
<1> QED BY <1>3, <1>4, <1>5 DEF PlansInv

LEMMA PlansStep ==
    ASSUME IInv, PlansInv, [Next]_vars
    PROVE  PlansInv'
<1>1. IInv'
  BY NextStep
<1>2. CASE Sync \/ Turn \/ UNCHANGED vars
  BY <1>2 DEF Sync, Turn, vars, session, PlansInv, PlanInHand
<1>3. ASSUME NEW q \in Req, Begin(q) PROVE PlansInv'
  BY <1>1, <1>3, BeginsWithoutPlan, WithoutPlan
<1>4. ASSUME NEW q \in Req, Advance(q) PROVE PlansInv'
  <2>1. CASE Work(q)
    BY <1>1, <2>1, WorksWithoutPlan, WithoutPlan, SumSpendKeeps, FailKeeps, MakePlanKeeps, CommitKeeps
       DEF Work, SumSpendFails
  <2>2. CASE Send(q) \/ Fail(q)
    BY <2>2, SendKeeps, FailKeeps DEF Fail, FlushFails
  <2> QED BY <1>4, <2>1, <2>2 DEF Advance
<1> QED BY <1>2, <1>3, <1>4 DEF Next

\* Every plan reaches its goal, and its cuts close its gap as far as a fifth of the
\* discretionary spending allows, whatever is edited or synced between the statements that
\* generate_plan reads by.
THEOREM PlansCorrect == Spec => []PlansAddUp
<1>1. Init => PlansInv
  <2> SUFFICES ASSUME Init PROVE PlansInv
    OBVIOUS
  <2>1. \A x \in Row : x[1] = "plan" => db[x] = NoRow
    BY RowNames DEF Init
  <2>2. \A r \in Req : at[r] = Idle
    BY DEF Init
  <2> QED BY <2>1, <2>2, IdleIs DEF PlansInv, PlanInHand
<1>2. IInv /\ PlansInv /\ [Next]_vars => PlansInv'
  BY PlansStep
<1>3. PlansInv => PlansAddUp
  BY RowsAre, RowNames DEF PlansInv, PlansAddUp, AddsUp
<1> QED BY <1>1, <1>2, <1>3, Invariant, PTL DEF Spec

=============================================================================
