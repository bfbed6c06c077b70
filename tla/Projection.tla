---------------------------- MODULE Projection ----------------------------
(***************************************************************************)
(* The planner's arithmetic: what a goal needs per month, when it is done, *)
(* and which spending to cut.                                              *)
(*                                                                         *)
(* Sources: backend/app/planner/engine.py, backend/app/core/money.py.      *)
(*                                                                         *)
(* Amounts are in cents; dates are months, numbered from 1, with 0 for     *)
(* none.  A date in the present month is a later day of it.                *)
(***************************************************************************)
EXTENDS Integers, SequencesExt

\* n / d rounded half up, for n >= 0: quantize_money, to_integral_value(ROUND_HALF_UP).
HalfUp(n, d) == (2 * n + d) \div (2 * d)

Remaining(goal) == IF goal.target > goal.current THEN goal.target - goal.current ELSE 0

MonthsBetween(start, end) == IF end > start THEN end - start ELSE 1

\* The months to go: to the target date if it is ahead, at the pace of the surplus, or 12.
MonthsToGo(goal, surplus, today) ==
    LET left == Remaining(goal)
        paced == HalfUp(left, surplus)
    IN  CASE goal.date >= today -> MonthsBetween(today, goal.date)
          [] goal.date < today /\ surplus > 0 -> IF paced > 1 THEN paced ELSE 1
          [] OTHER -> 12

\* Mutant: a surplus that is larger than needed is a negative gap.
ProjectSigned(goal, surplus, today) ==
    LET left == Remaining(goal)
        months == MonthsToGo(goal, surplus, today)
        needed == IF goal.date < today /\ surplus > 0 THEN surplus ELSE HalfUp(left, months)
    IN  [months |-> months, needed |-> needed,
         done |-> IF goal.date >= today THEN goal.date ELSE today + months,
         onTrack |-> surplus >= needed, gap |-> needed - surplus]

\* project_goal.
Project(goal, surplus, today) ==
    LET left == Remaining(goal)
        months == MonthsToGo(goal, surplus, today)
        needed == IF goal.date < today /\ surplus > 0 THEN surplus ELSE HalfUp(left, months)
    IN  IF left = 0
          THEN [months |-> 0, needed |-> 0, done |-> today, onTrack |-> TRUE, gap |-> 0]
          ELSE [months |-> months, needed |-> needed,
                done |-> IF goal.date >= today THEN goal.date ELSE today + months,
                onTrack |-> surplus >= needed,
                gap |-> IF needed > surplus THEN needed - surplus ELSE 0]

\* Discretionary categories with spending, from the largest; equal ones in any order.
Rankings(spend, protected) ==
    {s \in SetToSeqs({c \in DOMAIN spend : c \notin protected /\ spend[c] > 0}) :
        \A i, j \in DOMAIN s : i < j => spend[s[i]] >= spend[s[j]]}

\* At most a fifth of a category's spending is cut.
Cap(amount) == HalfUp(amount, 5)

\* Mutant: the first category is cut by what is missing.
CutsUncapped(spend, ranked, gap) == [c \in {ranked[i] : i \in DOMAIN ranked \cap {1}} |-> gap]

\* recommend_cuts: one category after the other until the gap is covered.
RecommendCuts(spend, ranked, gap) ==
    LET Take(so, c) ==
          LET cut == IF so.left < Cap(spend[c]) THEN so.left ELSE Cap(spend[c]) IN
          IF cut <= 0 THEN so
          ELSE [left |-> so.left - cut,
                cuts |-> [d \in DOMAIN so.cuts \cup {c} |-> IF d = c THEN cut ELSE so.cuts[d]]]
    IN  FoldLeft(Take, [left |-> gap, cuts |-> [d \in {} |-> 0]], ranked).cuts

-----------------------------------------------------------------------------
(* Reference definitions.                                                  *)

\* What a projection promises: in its months the monthly amount reaches the goal, up to
\* half a cent for each month or, at the pace of the surplus, up to half of one month's.
Reaches(goal, surplus, today, p) ==
    LET short == Remaining(goal) - p.months * p.needed IN
    IF goal.date < today /\ surplus > 0 THEN 2 * short <= p.needed
    ELSE 2 * short <= p.months /\ -2 * short <= p.months

\* What cuts promise: no more than the gap, no more than a fifth of a category, the largest
\* first, and all there is to cut if that does not cover the gap.
Closes(spend, protected, gap, cuts) ==
    LET total == MapThenSumSet(LAMBDA c : cuts[c], DOMAIN cuts)
        open  == {c \in DOMAIN spend \ protected : Cap(spend[c]) > 0}
    IN  /\ DOMAIN cuts \subseteq open
        /\ \A c \in DOMAIN cuts : cuts[c] > 0 /\ cuts[c] <= Cap(spend[c])
        /\ total <= gap
        /\ total < gap => \A c \in open : c \in DOMAIN cuts /\ cuts[c] = Cap(spend[c])
        /\ \A c, d \in open : spend[c] > spend[d] /\ d \in DOMAIN cuts =>
             c \in DOMAIN cuts /\ cuts[c] = Cap(spend[c])
=============================================================================
