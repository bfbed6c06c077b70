----------------------------- MODULE Planning -----------------------------
(***************************************************************************)
(* Goals with their contributions and plans, the budget with its periods   *)
(* and targets, and category preferences: what the members of a household  *)
(* edit side by side.                                                      *)
(*                                                                         *)
(* Sources: backend/app/planner/{service,router,models}.py,                *)
(* backend/app/budgets/{service,router,models}.py,                         *)
(* backend/app/enrichment/{prefs,prefs_service,router}.py.                 *)
(*                                                                         *)
(* Names, notes, priorities, currencies and texts are left out; what is    *)
(* only read and shown (progress, status, scenario) changes nothing.       *)
(***************************************************************************)
EXTENDS Tables, Projection

CONSTANTS
    Goal, Category, Protected,
    Icon, Color,
    Amount,        \* amounts contributed and targets set
    Patches,       \* what a PATCH of a goal may carry: records of some of its columns
    MaxPlan,       \* bound on the plans of a goal
    MaxMonth,      \* bound on the calendar
    FirstMonth,    \* the month of the year by which the calendar begins
    Ledgers,       \* what the bank data may amount to: [surplus, spend]
    Scenes         \* what a behaviour is about: requests, categories, rows at its start

ASSUME BoundAssumption == MaxPlan \in Nat /\ MaxMonth \in Nat \ {0} /\ FirstMonth \in 1..12

VARIABLES
    scene,
    month,
    ledger,        \* what the stored transactions amount to
    at,            \* at[r]: where request r is, and its local variables
    serial         \* observer: the rows as if requests had run one by one, as they committed

vars == <<session, scene, month, ledger, at, serial>>

-----------------------------------------------------------------------------
(* Rows.                                                                   *)

Month == 1..MaxMonth
GoalRow(g)      == <<"goal", g>>
PlanRow(g, k)   == <<"plan", g, k>>
Budget          == <<"budget">>
Period(m)       == <<"period", m>>
Target(m, c)    == <<"target", m, c>>
Preference(c)   == <<"preference", c>>

Rows == {GoalRow(g) : g \in Goal} \cup {PlanRow(g, k) : g \in Goal, k \in 1..MaxPlan}
        \cup {Budget} \cup {Period(m) : m \in Month}
        \cup {Target(m, c) : m \in Month, c \in Category}
        \cup {Preference(c) : c \in Category}

ASSUME RowAssumption == Row = Rows

Exists == [exists |-> TRUE]
\* An amount may round to nothing.
Goals == [target : Nat, current : Nat, date : Nat, status : {"active", "paused", "completed"}]
Targets == [target : Nat]
Preferences == [icon : Icon, color : Color]

ASSUME NoRowAssumption ==
    NoRow \notin Goals /\ NoRow # Exists /\ NoRow \notin Targets /\ NoRow \notin Preferences
ASSUME DataAssumption ==
    /\ Amount \subseteq Nat
    /\ \A patch \in Patches : \A f \in DOMAIN patch :
         \/ f \in {"target", "current", "date"} /\ patch[f] \in Nat
         \/ f = "status" /\ patch[f] \in {"active", "paused", "completed"}
    /\ \A l \in Ledgers : /\ l = [surplus |-> l.surplus, spend |-> l.spend] /\ l.surplus \in Int
                          /\ IsFiniteSet(DOMAIN l.spend)
                          /\ \A c \in DOMAIN l.spend : l.spend[c] \in Int
    /\ \A s \in Scenes : /\ s.goal \in Goals \cup {NoRow} /\ s.created \subseteq Goals
                         /\ s.ledgers \subseteq Ledgers /\ s.about \subseteq Category

\* goal: the goal row as loaded; row: the row the request is about; new: what it brings;
\* ledger: the transactions as summed; period: the month whose period it works on; behind
\* (observer): another stored what it went by.
Idle == [pc |-> "idle", kind |-> "none", goal |-> NoRow, row |-> NoRow, new |-> NoRow,
         ledger |-> NoRow, period |-> 0, behind |-> FALSE]

Kind == {"none", "create", "contribute", "patch", "delete", "plan", "budget", "propose",
         "target", "preference"}

PlanValue(v) ==
    /\ v.goal \in Goals /\ v.today \in Month
    /\ v.projection.needed \in Nat /\ v.projection.gap \in Nat

ValueOK(x, v) ==
    v # NoRow =>
      /\ x[1] = "goal" => v \in Goals
      /\ x[1] = "plan" => PlanValue(v)
      /\ x[1] \in {"budget", "period"} => v = Exists
      /\ x[1] = "target" => v \in Targets
      /\ x[1] = "preference" => v \in Preferences

TypeOK ==
    /\ DOMAIN db = Row /\ \A x \in Row : ValueOK(x, db[x]) /\ ValueOK(x, serial[x])
    /\ \A r \in Req :
         /\ \A x \in DOMAIN held[r] : ValueOK(x, held[r][x])
         /\ \A x \in DOMAIN want[r] : ValueOK(x, want[r][x].was) /\ ValueOK(x, want[r][x].new)
         /\ at[r].pc \in {"idle", "apply", "sum", "spend", "plan", "period", "target", "store"}
         /\ at[r].kind \in Kind /\ at[r].period \in 0..MaxMonth /\ at[r].behind \in BOOLEAN
         /\ at[r].goal \in Goals \cup {NoRow}
         /\ at[r].row \in Row \cup {NoRow}
    /\ month \in Month /\ ledger \in Ledgers /\ scene \in Scenes

Init ==
    /\ scene \in Scenes
    /\ db = [x \in Row |-> IF x[1] = "goal" THEN scene.goal
                           ELSE IF x = Budget /\ scene.budget THEN Exists ELSE NoRow]
    /\ want = [r \in Req |-> Nothing]
    /\ held = [r \in Req |-> Nothing]
    /\ month = 1
    /\ ledger \in scene.ledgers
    /\ at = [r \in Req |-> Idle]
    /\ serial = db

Starts(r, kind) == at[r].pc = "idle" /\ kind \in scene.kinds
Go(r, new) == at' = [at EXCEPT ![r] = new] /\ UNCHANGED <<scene, month, ledger, serial>>

\* get_goal_for_user: the goal is loaded, then the membership asked for.
Load(r, kind, g, pc, new) ==
    /\ Starts(r, kind)
    /\ db[GoalRow(g)] # NoRow
    /\ Go(r, [Idle EXCEPT !.pc = pc, !.kind = kind, !.goal = db[GoalRow(g)],
                          !.row = GoalRow(g), !.new = new])
    /\ UNCHANGED session

-----------------------------------------------------------------------------
(* Goals.                                                                  *)

\* create_goal: whatever was saved already, even the target and more.
Create(r, g, goal) ==
    /\ \A x \in Rows : x[1] \in {"goal", "plan"} /\ x[2] = g => db[x] = NoRow
    /\ \A q \in Req : at[q].row # GoalRow(g)
    /\ Pend(r, Becomes(GoalRow(g), NoRow, goal))
    /\ Go(r, [Idle EXCEPT !.pc = "store", !.kind = "create", !.row = GoalRow(g), !.new = goal])

CreateGoal(r) ==
    /\ Starts(r, "create")
    /\ \E g \in Goal, goal \in scene.created : Create(r, g, goal)

Contribute(r) == \E g \in Goal, a \in Amount \ {0} : Load(r, "contribute", g, "apply", a)

Patch(r) == \E g \in Goal, patch \in Patches : Load(r, "patch", g, "apply", patch)

Delete(r) == \E g \in Goal : Load(r, "delete", g, "apply", NoRow)

\* Mutant: a full goal stays active.
ContributedOnly(goal, amount) ==
    [goal EXCEPT !.current = IF @ + amount >= goal.target THEN goal.target ELSE @ + amount]

\* contribute_to_goal: up to the target, which completes it.
Contributed(goal, amount) ==
    IF goal.current + amount >= goal.target
      THEN [goal EXCEPT !.current = goal.target, !.status = "completed"]
      ELSE [goal EXCEPT !.current = @ + amount]

\* update_goal: the columns of the PATCH; an active goal that has its target is completed.
Patched(goal, patch) ==
    LET new == [f \in DOMAIN goal |-> IF f \in DOMAIN patch THEN patch[f] ELSE goal[f]] IN
    IF new.current >= new.target /\ new.status = "active"
      THEN [new EXCEPT !.current = new.target, !.status = "completed"]
      ELSE new

Edited(kind, goal, new) == IF kind = "contribute" THEN Contributed(goal, new) ELSE Patched(goal, new)

\* Mutant: every column is sent, changed or not.
EditWhole(r) ==
    LET s == at[r] IN
    /\ s.pc = "apply" /\ s.kind \in {"contribute", "patch"}
    /\ Pend(r, [x \in {s.row} |-> Change([f \in DOMAIN s.goal |-> NoRow],
                                         Edited(s.kind, s.goal, s.new))])
    /\ Go(r, [s EXCEPT !.pc = "store"])

\* By the goal as it was loaded.
Edit(r) ==
    LET s == at[r] IN
    /\ s.pc = "apply" /\ s.kind \in {"contribute", "patch"}
    /\ Pend(r, Becomes(s.row, s.goal, Edited(s.kind, s.goal, s.new)))
    /\ Go(r, [s EXCEPT !.pc = "store"])

DeleteGoal(r) ==
    LET s == at[r] IN
    /\ s.pc = "apply" /\ s.kind = "delete"
    /\ Pend(r, Becomes(s.row, s.goal, NoRow))
    /\ Go(r, [s EXCEPT !.pc = "store"])

-----------------------------------------------------------------------------
(* Plans: the surplus and the spending are summed by two statements.       *)

BeginPlan(r, g) ==
    /\ Cardinality({k \in 1..MaxPlan : db[PlanRow(g, k)] # NoRow})
         + Cardinality({q \in Req : at[q].pc # "idle"}) < MaxPlan
    /\ Load(r, "plan", g, "sum", NoRow)

\* monthly_surplus.
SumSurplus(r) ==
    /\ at[r].pc = "sum"
    /\ Go(r, [at[r] EXCEPT !.pc = "spend", !.ledger = ledger])
    /\ UNCHANGED session

\* category_spend_map.
SumSpend(r) ==
    /\ at[r].pc = "spend"
    /\ Go(r, [at[r] EXCEPT !.pc = "plan", !.ledger.spend = ledger.spend])
    /\ UNCHANGED session

\* It sees to the default categories first, which another request may just have inserted.
SumSpendFails(r) == at[r].pc = "spend" /\ Rollback(r) /\ Go(r, Idle)

\* generate_plan: the plan and its items are inserted together.  goal, ledger and today are
\* what the plan was computed from.
MakePlan(r) ==
    LET s == at[r]
        g == s.row[2]
        p == Project(s.goal, s.ledger.surplus, month)
        taken == {k \in 1..MaxPlan : \/ db[PlanRow(g, k)] # NoRow
                    \/ \E q \in Req : PlanRow(g, k) \in DOMAIN want[q] \cup DOMAIN held[q]}
        k == CHOOSE i \in 1..MaxPlan \ taken : \A j \in 1..MaxPlan \ taken : i <= j
    IN  /\ s.pc = "plan"
        /\ \E ranked \in Rankings(s.ledger.spend, Protected) :
             Pend(r, Becomes(PlanRow(g, k), NoRow,
               [goal |-> s.goal, ledger |-> s.ledger, today |-> month, projection |-> p,
                cuts |-> IF p.gap > 0 THEN RecommendCuts(s.ledger.spend, ranked, p.gap)
                         ELSE [c \in {} |-> 0]]))
        /\ Go(r, [s EXCEPT !.pc = "store"])

-----------------------------------------------------------------------------
(* The budget.                                                             *)

\* propose_budget_from_history: as target the third of what three months have spent.
Proposal ==
    [c \in {d \in Category : d \in DOMAIN ledger.spend /\ HalfUp(ledger.spend[d], 3) > 0} |->
       HalfUp(ledger.spend[c], 3)]

\* The start of the window is a condition of the query from March on; in January and
\* February it is a mere date, with which no query can be made, and nothing is written.
Proposes == (FirstMonth + month - 2) % 12 > 1   \* January is 0

\* create_budget: budget, period and proposed targets in one transaction.
CreateBudget(r, kind, targets) ==
    LET rows == {Budget, Period(month)} \cup {Target(month, c) : c \in DOMAIN targets} IN
    /\ Pend(r, Changes(rows, [x \in rows |-> NoRow],
                 [x \in rows |-> IF x[1] = "target" THEN [target |-> targets[x[3]]] ELSE Exists]))
    /\ Go(r, [Idle EXCEPT !.pc = "store", !.kind = kind, !.row = Budget])

\* One budget is enough: no statement goes by two of them.
BeginBudget(r, kind) ==
    /\ Starts(r, kind)
    /\ kind = "propose" => Proposes
    /\ db[Budget] = NoRow /\ \A q \in Req : at[q].kind \notin {"budget", "propose"}
    /\ CreateBudget(r, kind, IF kind = "propose" THEN Proposal ELSE [c \in {} |-> 0])

\* set_category_target: the period of today ...
BeginTarget(r, c, amount) ==
    /\ Starts(r, "target")
    /\ db[Budget] # NoRow
    /\ Go(r, [Idle EXCEPT !.pc = "period", !.kind = "target", !.new = [category |-> c, target |-> amount]])
    /\ UNCHANGED session

\* The one period that holds today.
CurrentPeriod == Period(month)

\* Mutant: the period is made up and never inserted.
FindPeriodOnly(r) ==
    LET s == at[r] IN
    /\ s.pc = "period"
    /\ Go(r, [s EXCEPT !.pc = "target", !.period = month, !.row = Target(month, s.new.category)])
    /\ UNCHANGED session

\* ... is found or inserted ...
FindPeriod(r) ==
    LET s == at[r] IN
    /\ s.pc = "period"
    /\ Pend(r, Becomes(CurrentPeriod, db[CurrentPeriod], Exists))
    /\ Go(r, [s EXCEPT !.pc = "target", !.period = month, !.row = Target(month, s.new.category)])

\* ... and the target in it updated or inserted.
SetTarget(r) ==
    LET s == at[r] IN
    /\ s.pc = "target"
    /\ Pend(r, Becomes(s.row, Sees(r)[s.row], [target |-> s.new.target]))
    /\ Go(r, [s EXCEPT !.pc = "store"])

-----------------------------------------------------------------------------
(* upsert_pref.                                                            *)

SetPreference(r, c, icon, color) ==
    LET new == [icon |-> icon, color |-> color] IN
    /\ Starts(r, "preference")
    /\ Pend(r, Becomes(Preference(c), db[Preference(c)], new))
    /\ Go(r, [Idle EXCEPT !.pc = "store", !.kind = "preference", !.row = Preference(c), !.new = new])

-----------------------------------------------------------------------------
(* The end of a request.                                                   *)

\* What a request alone would make of its row.
Alone(s, old) ==
    CASE s.kind \in {"contribute", "patch"} -> IF old = NoRow THEN NoRow ELSE Edited(s.kind, old, s.new)
      [] s.kind = "target" -> [target |-> s.new.target]
      [] OTHER -> s.new

\* The columns a request goes by.
Columns(s) ==
    CASE s.kind = "contribute" -> {"target", "current", "status"}
      [] s.kind = "patch" -> {"target", "current", "status"} \cup DOMAIN s.new
      [] s.kind = "target" -> {"target"}
      [] s.kind = "preference" -> {"icon", "color"}
      [] OTHER -> {}

Overtakes(r, q) ==
    LET x == at[q].row
        new == Sees(r)[x]
    IN  /\ at[q].pc # "idle" /\ x \in DOMAIN held[r]
        /\ db[x] = NoRow \/ new = NoRow \/ \E f \in Columns(at[q]) : db[x][f] # new[f]

\* Plans go with their goal.
Cascade(rows) ==
    [x \in Row |-> IF x[1] = "plan" /\ rows[GoalRow(x[2])] = NoRow THEN NoRow ELSE rows[x]]

Commit(r) ==
    LET s == at[r]
        alone == s.kind \in {"create", "contribute", "patch", "target", "preference"}
    IN  /\ s.pc = "store"
        /\ Clean(r)
        /\ db'   = Cascade(Sees(r))
        /\ held' = [held EXCEPT ![r] = Nothing]
        /\ UNCHANGED want
        /\ serial' = Cascade([x \in Row |-> IF alone /\ x = s.row /\ ~ s.behind
                                              THEN Alone(s, serial[x])
                                            ELSE IF x \in DOMAIN held[r] THEN held[r][x]
                                            ELSE serial[x]])
        /\ at' = [q \in Req |-> IF q = r THEN Idle
                                ELSE [at[q] EXCEPT !.behind = @ \/ Overtakes(r, q)]]
        /\ UNCHANGED <<scene, month, ledger>>

\* A plan's insert and the deletion of its goal wait for each other: the foreign key.
Inserts(r, g) == \E k \in 1..MaxPlan : PlanRow(g, k) \in DOMAIN want[r] \cup DOMAIN held[r]
Waits(r) ==
    \E g \in Goal, q \in Req \ {r} :
        \/ Inserts(r, g) /\ GoalRow(g) \in DOMAIN held[q] /\ held[q][GoalRow(g)] = NoRow
        \/ /\ \E k \in 1..MaxPlan : PlanRow(g, k) \in DOMAIN held[q]
           /\ GoalRow(g) \in DOMAIN want[r] /\ want[r][GoalRow(g)].new = NoRow

\* An insert of a plan whose goal is gone fails.
Orphan(r) == \E g \in Goal : Inserts(r, g) /\ db[GoalRow(g)] = NoRow

Send(r) ==
    ~ Waits(r) /\ ~ Orphan(r) /\ Flush(r) /\ UNCHANGED <<scene, month, ledger, at, serial>>

Fail(r) ==
    /\ FlushFails(r) \/ (~ Waits(r) /\ Orphan(r) /\ Rollback(r))
    /\ Go(r, Idle)

Work(r) ==
    \/ Edit(r) \/ DeleteGoal(r) \/ SumSurplus(r) \/ SumSpend(r) \/ SumSpendFails(r) \/ MakePlan(r)
    \/ FindPeriod(r) \/ SetTarget(r) \/ Commit(r)

Advance(r) == IF Clean(r) THEN Work(r) ELSE Send(r) \/ Fail(r)

\* A request for what is not there, a contribution that rounds to nothing, a proposal
\* whose query cannot be made.
TurnedDown(r) == at[r].pc = "idle" /\ UNCHANGED vars

Begin(r) ==
    \/ CreateGoal(r) \/ Contribute(r) \/ Patch(r) \/ Delete(r)
    \/ \E g \in Goal : BeginPlan(r, g)
    \/ BeginBudget(r, "budget") \/ BeginBudget(r, "propose")
    \/ \E c \in scene.about, a \in Amount : BeginTarget(r, c, a)
    \/ \E c \in scene.about, i \in Icon, k \in Color : SetPreference(r, c, i, k)
    \/ TurnedDown(r)

\* A sync stores transactions.
Sync == ledger' \in scene.ledgers \ {ledger}
        /\ UNCHANGED <<session, scene, month, at, serial>>

\* The month turns.
Turn == "target" \in scene.kinds /\ month < MaxMonth /\ month' = month + 1
        /\ UNCHANGED <<session, scene, ledger, at, serial>>

Next == (\E r \in Req : Begin(r) \/ Advance(r)) \/ Sync \/ Turn

Spec == Init /\ [][Next]_vars

-----------------------------------------------------------------------------
(* Properties.                                                             *)

\* Nothing is lost and nothing counted twice: a goal, a target or a preference is what the
\* requests that stored it make of it one after the other, although each decides by a row
\* it loaded before and sends only the columns it changed; save where one was overtaken by
\* another that changed a column it goes by.
AsIfOneByOne == db = serial

\* A contribution or an update leaves no active goal at its target.
FullIsCompleted ==
    [][\A r \in Req, g \in Goal :
         /\ at[r].kind \in {"contribute", "patch"} /\ at[r].row = GoalRow(g)
         /\ Commit(r) /\ ~ at[r].behind
         /\ db'[GoalRow(g)] # NoRow /\ db'[GoalRow(g)].status = "active"
         => Remaining(db'[GoalRow(g)]) > 0]_vars

\* The budget is never without a period, a target never without its own, and a plan never
\* without its goal.
NothingDangles ==
    /\ \A m \in Month : db[Period(m)] # NoRow => db[Budget] # NoRow
    /\ \A m \in Month, c \in Category : db[Target(m, c)] # NoRow => db[Period(m)] # NoRow
    /\ \A g \in Goal, k \in 1..MaxPlan : db[PlanRow(g, k)] # NoRow => db[GoalRow(g)] # NoRow

\* A plan's monthly amount reaches the goal it was made for, and its cuts close the gap as
\* far as a fifth of the discretionary spending allows: "largest discretionary categories,
\* capped at 20% each" (docs/adr/0008-deterministic-planner.md:13-14).
PlansAddUp ==
    \A g \in Goal, k \in 1..MaxPlan :
        LET plan == db[PlanRow(g, k)] IN
        plan # NoRow =>
            /\ Reaches(plan.goal, plan.ledger.surplus, plan.today, plan.projection)
            /\ plan.projection.gap > 0 =>
                 Closes(plan.ledger.spend, Protected, plan.projection.gap, plan.cuts)
=============================================================================
