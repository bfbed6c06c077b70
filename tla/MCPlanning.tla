---------------------------- MODULE MCPlanning ----------------------------
(* Planning on small instances.                                            *)
EXTENDS Planning, TLC

CONSTANTS rent, dining, fun

MCGoal(target, current, date, status) ==
    [target |-> target, current |-> current, date |-> date, status |-> status]

MCPatches == {[target |-> 8], [current |-> 3, status |-> "active"], [status |-> "paused"], [date |-> 2]}

MCSpend(a, b, c) == (rent :> a) @@ (dining :> b) @@ (fun :> c)

MCLedgers == {[surplus |-> 4, spend |-> MCSpend(50, 12, 33)],
              [surplus |-> -3, spend |-> MCSpend(50, 7, 7)],
              [surplus |-> 0, spend |-> MCSpend(50, 0, 2)]}

MCScene(kinds, goal, budget, created, about, ledgers) ==
    [kinds |-> kinds, goal |-> goal, budget |-> budget, created |-> created,
     about |-> about, ledgers |-> ledgers]

MCPlain == {CHOOSE l \in MCLedgers : l.surplus = 4}

\* Edits of one goal; budgets; preferences; plans beside syncs and a deletion; the
\* arithmetic of one plan at a time.
MCScenes ==
    {MCScene({"create", "contribute", "patch", "delete"}, MCGoal(10, 0, 0, "active"), FALSE,
             {MCGoal(10, 12, 0, "active")}, {}, MCPlain),
     MCScene({"budget", "propose", "target"}, NoRow, FALSE, {}, {dining}, MCPlain),
     MCScene({"preference"}, NoRow, FALSE, {}, {fun}, MCPlain),
     MCScene({"plan", "delete"}, MCGoal(29, 3, 0, "active"), FALSE, {}, {}, MCLedgers)}
    \cup {MCScene({"plan"}, MCGoal(t, 3, d, "active"), FALSE, {}, {}, {l}) :
             t \in {3, 4, 10, 29, 100, 101}, d \in {0, 1, 3, 8}, l \in MCLedgers}

\* The request slots are interchangeable.
Slots == Permutations(Req)
=============================================================================
