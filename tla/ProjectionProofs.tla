-------------------------- MODULE ProjectionProofs --------------------------
(***************************************************************************)
(* What the planner's arithmetic promises, for all amounts and months.     *)
(***************************************************************************)
EXTENDS Projection, WellFoundedInduction, FiniteSetTheorems, TLAPS

\* Rounding half up is off by half at most.
LEMMA HalfUpIsNear ==
    ASSUME NEW n \in Nat, NEW d \in Nat \ {0}
    PROVE  /\ HalfUp(n, d) \in Nat
           /\ 2 * (n - d * HalfUp(n, d)) <= d
           /\ -(2 * (n - d * HalfUp(n, d))) <= d
<1> DEFINE q == HalfUp(n, d)
<1>1. /\ q \in Int
      /\ (2 * d) * q <= 2 * n + d
      /\ 2 * n + d < (2 * d) * q + 2 * d
  BY DEF HalfUp
<1> HIDE DEF q
<1>2. (2 * d) * q = 2 * (d * q) /\ d * q \in Int
  BY <1>1
<1>3. 2 * (n - d * q) <= d /\ -(2 * (n - d * q)) <= d
  BY <1>1, <1>2
<1>4. q >= 0
  <2> SUFFICES ASSUME q <= -1 PROVE FALSE
    BY <1>1
  <2>1. d * q <= -d
    BY <1>1
  <2> QED BY <1>1, <1>2, <2>1
<1> QED BY <1>1, <1>3, <1>4 DEF q

\* project_goal with a target date, at the pace of the surplus or over twelve months: its
\* monthly amount, in its months, reaches what is left of the target, but for the rounding;
\* the surplus is enough exactly if there is no gap, and with the gap filled it always is.
THEOREM ProjectionsReach ==
    ASSUME NEW goal, goal.target \in Nat, goal.current \in Nat, goal.date \in Nat,
           NEW surplus \in Int, NEW today \in Nat
    PROVE  LET p == Project(goal, surplus, today) IN
           /\ Reaches(goal, surplus, today, p)
           /\ p.needed \in Nat /\ p.gap \in Nat
           /\ p.onTrack <=> p.gap = 0
           /\ Remaining(goal) > 0 => p.months > 0 /\ surplus + p.gap >= p.needed
<1> DEFINE left == Remaining(goal)
           months == MonthsToGo(goal, surplus, today)
           paced == goal.date < today /\ surplus > 0
           needed == IF paced THEN surplus ELSE HalfUp(left, months)
           p == Project(goal, surplus, today)
<1>1. left \in Nat
  BY DEF Remaining
<1>2. CASE left = 0
  <2>1. p = [months |-> 0, needed |-> 0, done |-> today, onTrack |-> TRUE, gap |-> 0]
    BY <1>2 DEF Project
  <2>2. p.months = 0 /\ p.needed = 0 /\ p.gap = 0 /\ p.onTrack = TRUE
    BY <2>1
  <2>3. Reaches(goal, surplus, today, p)
    BY <1>2, <2>2 DEF Reaches
  <2> QED BY <1>2, <2>2, <2>3
<1>3. CASE left > 0
  <2>1. months \in Nat \ {0}
    <3>1. CASE goal.date >= today
      BY <3>1 DEF MonthsToGo, MonthsBetween
    <3>2. CASE paced
      <4>0. surplus \in Nat \ {0}
        BY <3>2
      <4>1. HalfUp(left, surplus) \in Nat
        BY <1>1, <4>0, HalfUpIsNear
      <4> QED BY <3>2, <4>1 DEF MonthsToGo
    <3>3. CASE goal.date < today /\ ~ surplus > 0
      BY <3>3 DEF MonthsToGo
    <3> QED BY <3>1, <3>2, <3>3
  <2>2. needed \in Nat
    BY <1>1, <2>1, HalfUpIsNear
  <2>3. p = [months |-> months, needed |-> needed,
             done |-> IF goal.date >= today THEN goal.date ELSE today + months,
             onTrack |-> surplus >= needed,
             gap |-> IF needed > surplus THEN needed - surplus ELSE 0]
    BY <1>3 DEF Project
  <2>4. /\ p.months = months /\ p.needed = needed /\ p.onTrack = (surplus >= needed)
        /\ p.gap = IF needed > surplus THEN needed - surplus ELSE 0
    BY <2>3
  <2>5. Reaches(goal, surplus, today, p)
    <3>1. CASE paced
      <4>1. months = IF HalfUp(left, surplus) > 1 THEN HalfUp(left, surplus) ELSE 1
        BY <3>1 DEF MonthsToGo
      <4>2. needed = surplus /\ surplus \in Nat \ {0}
        BY <3>1
      <4>3. 2 * (left - surplus * HalfUp(left, surplus)) <= surplus /\ HalfUp(left, surplus) \in Nat
        BY <1>1, <4>2, HalfUpIsNear
      <4>4. 2 * (left - months * needed) <= needed
        <5> HIDE DEF months, needed, left
        <5>1. CASE HalfUp(left, surplus) > 1
          <6>1. months * needed = surplus * HalfUp(left, surplus)
            BY <4>1, <4>2, <4>3, <5>1
          <6> QED BY <4>2, <4>3, <6>1
        <5>2. CASE HalfUp(left, surplus) = 1
          BY <1>1, <4>1, <4>2, <4>3, <5>2
        <5>3. CASE HalfUp(left, surplus) = 0
          BY <1>1, <4>1, <4>2, <4>3, <5>3
        <5>4. HalfUp(left, surplus) > 1 \/ HalfUp(left, surplus) = 1 \/ HalfUp(left, surplus) = 0
          <6>1. HalfUp(left, surplus) \in Nat
            BY <4>3
          <6> QED BY <6>1
        <5> QED BY <5>1, <5>2, <5>3, <5>4
      <4> QED BY <2>4, <3>1, <4>4 DEF Reaches
    <3>2. CASE ~ paced
      <4>1. needed = HalfUp(left, months)
        BY <3>2
      <4>2. /\ 2 * (left - months * needed) <= months
            /\ -(2 * (left - months * needed)) <= months
        BY <1>1, <2>1, <4>1, HalfUpIsNear
      <4>3. left - months * needed \in Int
        BY <1>1, <2>1, <2>2
      <4> DEFINE short == left - months * needed
      <4>4. Reaches(goal, surplus, today, p) <=> 2 * short <= months /\ -2 * short <= months
        BY <2>4, <3>2 DEF Reaches
      <4>5. -2 * short = -(2 * short)
        <5> HIDE DEF short
        <5> QED BY <4>3 DEF short
      <4> QED BY <4>2, <4>4, <4>5
    <3> QED BY <3>1, <3>2
  <2>6. /\ p.needed \in Nat /\ p.gap \in Nat /\ p.months > 0
        /\ p.onTrack <=> p.gap = 0
        /\ surplus + p.gap >= p.needed
    <3> HIDE DEF p, months, needed
    <3>1. p.months = months /\ p.needed = needed
          /\ p.gap = IF needed > surplus THEN needed - surplus ELSE 0
      BY <2>4
    <3>2. p.needed \in Nat /\ p.gap \in Nat /\ p.months > 0 /\ surplus + p.gap >= p.needed
      BY <2>1, <2>2, <3>1
    <3>3. surplus >= needed <=> p.gap = 0
      BY <2>2, <3>1
    <3>4. p.onTrack = (surplus >= needed)
      BY <2>4
    <3>5. p.onTrack <=> p.gap = 0
      BY <3>3, <3>4, Zenon
    <3> QED BY <3>2, <3>5
  <2> QED BY <2>5, <2>6
<1> QED BY <1>1, <1>2, <1>3

-----------------------------------------------------------------------------
(* Induction, for sets in place of predicates: of numbers, and of the      *)
(* subsets of a finite set.                                                *)

LEMMA Numbers ==
    ASSUME NEW G, 0 \in G, \A n \in Nat : n \in G => n + 1 \in G
    PROVE  Nat \subseteq G
<1> DEFINE R == {ss \in Nat \X Nat : ss[1] < ss[2]}
<1>1. IsWellFoundedOn(R, Nat)
  BY NatLessThanWellFounded DEF OpToRel
<1> SUFFICES ASSUME Nat \ G # {} PROVE FALSE
  OBVIOUS
<1>2. PICK x \in Nat \ G : \A y \in Nat \ G : <<y, x>> \notin R
  <2> HIDE DEF R
  <2> QED BY <1>1, WFMin
<1>3. x # 0 /\ x - 1 \in Nat \ G
  BY <1>2
<1>4. <<x - 1, x>> \in R
  BY <1>2, <1>3
<1> QED BY <1>2, <1>3, <1>4

LEMMA Subsets ==
    ASSUME NEW S, IsFiniteSet(S), NEW G,
           \A T \in SUBSET S : (\A x \in T : T \ {x} \in G) => T \in G
    PROVE  SUBSET S \subseteq G
<1> DEFINE N == {n \in Nat : \A T \in SUBSET S : Cardinality(T) = n => T \in G}
<1>1. \A T \in SUBSET S : IsFiniteSet(T) /\ Cardinality(T) \in Nat
  BY FS_Subset, FS_CardinalityType
<1>2. 0 \in N
  <2> SUFFICES ASSUME NEW T \in SUBSET S, Cardinality(T) = 0 PROVE T \in G
    OBVIOUS
  <2> QED BY <1>1, FS_EmptySet
<1>3. ASSUME NEW n \in Nat, n \in N PROVE n + 1 \in N
  <2> SUFFICES ASSUME NEW T \in SUBSET S, Cardinality(T) = n + 1 PROVE T \in G
    OBVIOUS
  <2>1. ASSUME NEW x \in T PROVE T \ {x} \in G
    <3>1. Cardinality(T \ {x}) = n
      BY <1>1, FS_RemoveElement
    <3> QED BY <1>3, <3>1
  <2> QED BY <2>1
<1>4. Nat \subseteq N
  <2> HIDE DEF N
  <2> QED BY <1>2, <1>3, Numbers
<1> QED BY <1>1, <1>4

\* Every nonempty set of numbers up to some n has a largest.
LEMMA Largest ==
    ASSUME NEW n \in Nat, NEW s \in SUBSET (1..n), s # {}
    PROVE  Max(s) \in s /\ \A i \in s : i <= Max(s)
<1> DEFINE N == {k \in Nat : \A t \in SUBSET (1..k) : t # {} => \E x \in t : \A y \in t : x >= y}
<1>1. 0 \in N
  <2>1. 1..0 = {}
    OBVIOUS
  <2> QED BY <2>1
<1>2. ASSUME NEW k \in Nat, k \in N PROVE k + 1 \in N
  <2> SUFFICES ASSUME NEW t \in SUBSET (1..k+1), t # {} PROVE \E x \in t : \A y \in t : x >= y
    OBVIOUS
  <2>1. CASE k + 1 \in t
    BY <2>1
  <2>2. CASE k + 1 \notin t
    <3>1. t \in SUBSET (1..k)
      BY <2>2
    <3> QED BY <1>2, <3>1
  <2> QED BY <2>1, <2>2
<1>3. Nat \subseteq N
  <2> HIDE DEF N
  <2> QED BY <1>1, <1>2, Numbers
<1>4. \E x \in s : \A y \in s : x >= y
  BY <1>3
<1> QED BY <1>4 DEF Max

-----------------------------------------------------------------------------
(* Sums.                                                                   *)

Pick(s) == CHOOSE x \in s : TRUE
Sums(g, F, S) ==
    g = [s \in SUBSET S |-> IF s = {} THEN 0 ELSE F[Pick(s)] + g[s \ {Pick(s)}]]

Total(F, S) == MapThenSumSet(LAMBDA c : F[c], S)

LEMMA TotalIsChosen ==
    ASSUME NEW F, NEW S
    PROVE  Total(F, S) = (CHOOSE g : Sums(g, F, S))[S]
BY DEF Total, MapThenSumSet, MapThenFoldSet, Sums, Pick

LEMMA SumsExist ==
    ASSUME NEW F, NEW S, IsFiniteSet(S)
    PROVE  \E g : Sums(g, F, S)
<1> DEFINE Small(n) == {s \in SUBSET S : Cardinality(s) <= n}
           Fits(g, n) == g = [s \in Small(n) |-> IF s = {} THEN 0 ELSE F[Pick(s)] + g[s \ {Pick(s)}]]
           N == {n \in Nat : \E g : Fits(g, n)}
<1>1. \A s \in SUBSET S : IsFiniteSet(s) /\ Cardinality(s) \in Nat /\ (s = {} <=> Cardinality(s) = 0)
  BY FS_Subset, FS_CardinalityType, FS_EmptySet
<1>2. \A s \in SUBSET S : s # {} => Cardinality(s \ {Pick(s)}) = Cardinality(s) - 1
  BY <1>1, FS_RemoveElement DEF Pick
<1>3. 0 \in N
  <2> DEFINE g == [s \in Small(0) |-> 0]
  <2>1. Fits(g, 0)
    BY <1>1
  <2> QED BY <2>1
<1>4. ASSUME NEW n \in Nat, n \in N PROVE n + 1 \in N
  <2>1. PICK g : Fits(g, n)
    BY <1>4
  <2> DEFINE h == [s \in Small(n + 1) |-> IF s \in Small(n) THEN g[s]
                                          ELSE F[Pick(s)] + g[s \ {Pick(s)}]]
  <2>2. ASSUME NEW s \in Small(n + 1)
        PROVE  h[s] = IF s = {} THEN 0 ELSE F[Pick(s)] + h[s \ {Pick(s)}]
    <3>1. CASE s = {}
      BY <1>1, <2>1, <3>1
    <3>2. CASE s # {}
      <4>1. s \ {Pick(s)} \in Small(n) /\ s \ {Pick(s)} \in Small(n + 1)
        BY <1>1, <1>2, <3>2
      <4>2. h[s \ {Pick(s)}] = g[s \ {Pick(s)}]
        BY <4>1
      <4>3. h[s] = F[Pick(s)] + g[s \ {Pick(s)}]
        BY <2>1, <3>2
      <4> QED BY <3>2, <4>2, <4>3
    <3> QED BY <3>1, <3>2
  <2>3. Fits(h, n + 1)
    <3> DEFINE k == [s \in Small(n + 1) |-> IF s = {} THEN 0 ELSE F[Pick(s)] + h[s \ {Pick(s)}]]
    <3>1. \A s \in Small(n + 1) : h[s] = k[s]
      BY <2>2
    <3>2. h = [s \in Small(n + 1) |-> h[s]]
      OBVIOUS
    <3>3. k = [s \in Small(n + 1) |-> k[s]]
      OBVIOUS
    <3> HIDE DEF h
    <3> QED BY <3>1, <3>2, <3>3
  <2> HIDE DEF h, Fits
  <2> QED BY <2>3
<1>5. Nat \subseteq N
  <2> HIDE DEF N
  <2> QED BY <1>3, <1>4, Numbers
<1>6. Small(Cardinality(S)) = SUBSET S /\ Cardinality(S) \in Nat
  BY FS_Subset, FS_CardinalityType
<1>7. PICK g : Fits(g, Cardinality(S))
  <2> HIDE DEF Fits
  <2> QED BY <1>5, <1>6
<1> QED BY <1>6, <1>7 DEF Sums

LEMMA SumsAgree ==
    ASSUME NEW F, NEW S, IsFiniteSet(S), NEW T \in SUBSET S, NEW g, NEW h,
           Sums(g, F, S), Sums(h, F, T)
    PROVE  \A s \in SUBSET T : g[s] = h[s]
<1> DEFINE G == {s \in SUBSET T : g[s] = h[s]}
<1>1. ASSUME NEW s \in SUBSET T, \A x \in s : s \ {x} \in G PROVE s \in G
  <2>1. /\ g[s] = IF s = {} THEN 0 ELSE F[Pick(s)] + g[s \ {Pick(s)}]
        /\ h[s] = IF s = {} THEN 0 ELSE F[Pick(s)] + h[s \ {Pick(s)}]
    BY DEF Sums
  <2>2. s # {} => Pick(s) \in s
    BY DEF Pick
  <2> QED BY <1>1, <2>1, <2>2
<1>2. IsFiniteSet(T)
  BY FS_Subset
<1>3. SUBSET T \subseteq G
  <2> HIDE DEF G
  <2> QED BY <1>1, <1>2, Subsets
<1> QED BY <1>3

LEMMA TotalDef ==
    ASSUME NEW F, NEW S, IsFiniteSet(S)
    PROVE  Total(F, S) = IF S = {} THEN 0 ELSE F[Pick(S)] + Total(F, S \ {Pick(S)})
<1> DEFINE T == S \ {Pick(S)}
           g == CHOOSE g : Sums(g, F, S)
           h == CHOOSE h : Sums(h, F, T)
<1>1. Sums(g, F, S) /\ Total(F, S) = g[S]
  BY SumsExist, TotalIsChosen
<1>2. Sums(h, F, T) /\ Total(F, T) = h[T] /\ T \in SUBSET S
  BY FS_Subset, SumsExist, TotalIsChosen
<1> HIDE DEF g, h
<1>3. g[T] = h[T]
  <2> HIDE DEF T
  <2> QED BY <1>1, <1>2, SumsAgree
<1>4. g[S] = IF S = {} THEN 0 ELSE F[Pick(S)] + g[T]
  BY <1>1 DEF Sums
<1> QED BY <1>1, <1>2, <1>3, <1>4

LEMMA TotalIsNat ==
    ASSUME NEW S, IsFiniteSet(S), NEW F, \A x \in S : F[x] \in Nat
    PROVE  \A T \in SUBSET S : Total(F, T) \in Nat
<1> DEFINE G == {T \in SUBSET S : Total(F, T) \in Nat}
<1>1. ASSUME NEW T \in SUBSET S, \A x \in T : T \ {x} \in G PROVE T \in G
  <2>1. Total(F, T) = IF T = {} THEN 0 ELSE F[Pick(T)] + Total(F, T \ {Pick(T)})
    BY TotalDef, FS_Subset
  <2>2. T # {} => Pick(T) \in T
    BY DEF Pick
  <2> QED BY <1>1, <2>1, <2>2
<1>2. SUBSET S \subseteq G
  <2> HIDE DEF G
  <2> QED BY <1>1, Subsets
<1> QED BY <1>2

LEMMA TotalTakesOut ==
    ASSUME NEW S, IsFiniteSet(S), NEW F, \A x \in S : F[x] \in Nat
    PROVE  /\ Total(F, {}) = 0
           /\ \A T \in SUBSET S : \A x \in T : Total(F, T) = F[x] + Total(F, T \ {x})
<1> DEFINE G == {T \in SUBSET S : \A x \in T : Total(F, T) = F[x] + Total(F, T \ {x})}
<1>1. ASSUME NEW T \in SUBSET S, \A x \in T : T \ {x} \in G PROVE T \in G
  <2>1. Total(F, T) = IF T = {} THEN 0 ELSE F[Pick(T)] + Total(F, T \ {Pick(T)})
    BY TotalDef, FS_Subset
  <2>2. T # {} => Pick(T) \in T
    BY DEF Pick
  <2>3. ASSUME NEW x \in T PROVE Total(F, T) = F[x] + Total(F, T \ {x})
    <3> DEFINE y == Pick(T)
               U == T \ {x, y}
    <3>1. CASE x = y
      BY <2>1, <3>1
    <3>2. CASE x # y
      <4>1. y \in T /\ x \in T \ {y} /\ y \in T \ {x}
        BY <2>2, <3>2
      <4>2. (T \ {y}) \ {x} = U /\ (T \ {x}) \ {y} = U
        OBVIOUS
      <4>3. Total(F, T \ {y}) = F[x] + Total(F, U) /\ Total(F, T \ {x}) = F[y] + Total(F, U)
        BY <1>1, <4>1, <4>2
      <4>4. Total(F, T) = F[y] + Total(F, T \ {y})
        BY <2>1
      <4>5. F[x] \in Nat /\ F[y] \in Nat /\ Total(F, U) \in Nat
        BY <4>1, TotalIsNat
      <4> QED BY <4>3, <4>4, <4>5
    <3> QED BY <3>1, <3>2
  <2> QED BY <2>3
<1>2. SUBSET S \subseteq G
  <2> HIDE DEF G
  <2> QED BY <1>1, Subsets
<1>3. Total(F, {}) = 0
  BY TotalDef, FS_EmptySet
<1> QED BY <1>2, <1>3

\* Functions that agree on a set have the same sum over it.
LEMMA TotalsAgree ==
    ASSUME NEW S, IsFiniteSet(S), NEW F, NEW G, \A x \in S : F[x] \in Nat /\ G[x] = F[x]
    PROVE  Total(G, S) = Total(F, S)
<1> DEFINE H == {T \in SUBSET S : Total(G, T) = Total(F, T)}
<1>1. ASSUME NEW T \in SUBSET S, \A x \in T : T \ {x} \in H PROVE T \in H
  <2>1. /\ Total(F, {}) = 0
        /\ \A U \in SUBSET S : \A x \in U : Total(F, U) = F[x] + Total(F, U \ {x})
    BY TotalTakesOut
  <2>2. /\ Total(G, {}) = 0
        /\ \A U \in SUBSET S : \A x \in U : Total(G, U) = G[x] + Total(G, U \ {x})
    BY TotalTakesOut
  <2> QED BY <1>1, <2>1, <2>2
<1>2. SUBSET S \subseteq H
  <2> HIDE DEF H
  <2> QED BY <1>1, Subsets
<1> QED BY <1>2

\* Less of fewer sums to less.
LEMMA TotalsCompare ==
    ASSUME NEW S, IsFiniteSet(S), NEW T \in SUBSET S, NEW F, NEW G,
           \A x \in T : F[x] \in Nat /\ F[x] <= G[x], \A x \in S : G[x] \in Nat
    PROVE  Total(F, T) <= Total(G, S)
<1> DEFINE H == {U \in SUBSET S : Total(F, U \cap T) <= Total(G, U)}
<1>1. IsFiniteSet(T)
  BY FS_Subset
<1>2. /\ Total(F, {}) = 0
      /\ \A U \in SUBSET T : \A x \in U : Total(F, U) = F[x] + Total(F, U \ {x})
  BY <1>1, TotalTakesOut
<1>3. /\ Total(G, {}) = 0
      /\ \A U \in SUBSET S : \A x \in U : Total(G, U) = G[x] + Total(G, U \ {x})
  BY TotalTakesOut
<1>4. /\ \A U \in SUBSET T : Total(F, U) \in Nat
      /\ \A U \in SUBSET S : Total(G, U) \in Nat
  BY <1>1, TotalIsNat
<1>5. ASSUME NEW U \in SUBSET S, \A x \in U : U \ {x} \in H PROVE U \in H
  <2>1. CASE U = {}
    <3>1. U \cap T = {}
      BY <2>1
    <3> QED BY <1>2, <1>3, <2>1, <3>1
  <2>2. ASSUME NEW x \in U PROVE U \in H
    <3> DEFINE V == (U \ {x}) \cap T
    <3>1. Total(F, V) <= Total(G, U \ {x}) /\ Total(G, U) = G[x] + Total(G, U \ {x})
      BY <1>3, <1>5
    <3>2. Total(F, V) \in Nat /\ Total(G, U \ {x}) \in Nat /\ G[x] \in Nat
      BY <1>4
    <3>3. CASE x \in T
      <4>1. (U \cap T) \ {x} = V /\ x \in U \cap T
        BY <3>3
      <4>2. Total(F, U \cap T) = F[x] + Total(F, V)
        BY <1>2, <4>1
      <4>3. F[x] \in Nat /\ F[x] <= G[x]
        BY <3>3
      <4> QED BY <3>1, <3>2, <4>2, <4>3
    <3>4. CASE x \notin T
      <4>1. U \cap T = V
        BY <3>4
      <4>2. Total(F, U \cap T) = Total(F, V)
        BY <4>1
      <4>3. Total(F, V) <= Total(G, U)
        BY <3>1, <3>2
      <4> QED BY <4>2, <4>3
    <3> QED BY <3>3, <3>4
  <2> QED BY <2>1, <2>2
<1>6. SUBSET S \subseteq H
  <2> HIDE DEF H
  <2> QED BY <1>5, Subsets
<1>7. S \cap T = T
  OBVIOUS
<1> QED BY <1>6, <1>7

-----------------------------------------------------------------------------
(* Cuts.                                                                   *)

NoCuts(gap) == [left |-> gap, cuts |-> [d \in {} |-> 0]]

Smaller(a, b) == IF a < b THEN a ELSE b

\* One turn of recommend_cuts.
Take(spend, so, c) ==
    LET cut == Smaller(so.left, Cap(spend[c])) IN
    IF cut <= 0 THEN so
    ELSE [left |-> so.left - cut,
          cuts |-> [d \in DOMAIN so.cuts \cup {c} |-> IF d = c THEN cut ELSE so.cuts[d]]]

Takes(g, spend, ranked, gap) ==
    g = [s \in SUBSET DOMAIN ranked |->
           IF s = {} THEN NoCuts(gap)
           ELSE Take(spend, g[s \ {Max(s)}], ranked[Max(s)])]

LEMMA CutsAreChosen ==
    ASSUME NEW spend, NEW ranked, NEW gap
    PROVE  RecommendCuts(spend, ranked, gap)
             = (CHOOSE g : Takes(g, spend, ranked, gap))[DOMAIN ranked].cuts
BY DEF RecommendCuts, FoldLeft, MapThenFoldSet, Takes, Take, NoCuts, Smaller

LEMMA TakesExist ==
    ASSUME NEW spend, NEW ranked, NEW gap, NEW m \in Nat, DOMAIN ranked = 1..m
    PROVE  \E g : Takes(g, spend, ranked, gap)
<1> DEFINE S == 1..m
           Turn(g, s) == Take(spend, g[s \ {Max(s)}], ranked[Max(s)])
           Small(n) == {s \in SUBSET S : Cardinality(s) <= n}
           Fits(g, n) == g = [s \in Small(n) |-> IF s = {} THEN NoCuts(gap) ELSE Turn(g, s)]
           N == {n \in Nat : \E g : Fits(g, n)}
<1>1. IsFiniteSet(S)
  BY FS_Interval
<1>2. \A s \in SUBSET S : IsFiniteSet(s) /\ Cardinality(s) \in Nat /\ (s = {} <=> Cardinality(s) = 0)
  BY <1>1, FS_Subset, FS_CardinalityType, FS_EmptySet
<1>3. \A s \in SUBSET S : s # {} => Cardinality(s \ {Max(s)}) = Cardinality(s) - 1
  <2> SUFFICES ASSUME NEW s \in SUBSET S, s # {} PROVE Cardinality(s \ {Max(s)}) = Cardinality(s) - 1
    OBVIOUS
  <2>1. Max(s) \in s
    BY Largest
  <2> QED BY <1>2, <2>1, FS_RemoveElement
<1>4. 0 \in N
  <2> DEFINE g == [s \in Small(0) |-> NoCuts(gap)]
  <2>1. Fits(g, 0)
    BY <1>2
  <2> QED BY <2>1
<1>5. ASSUME NEW n \in Nat, n \in N PROVE n + 1 \in N
  <2>1. PICK g : Fits(g, n)
    BY <1>5
  <2> DEFINE h == [s \in Small(n + 1) |-> IF s \in Small(n) THEN g[s] ELSE Turn(g, s)]
  <2>2. ASSUME NEW s \in Small(n + 1)
        PROVE  h[s] = IF s = {} THEN NoCuts(gap) ELSE Turn(h, s)
    <3>1. CASE s = {}
      BY <1>2, <2>1, <3>1
    <3>2. CASE s # {}
      <4>0. /\ s \in SUBSET S /\ s \ {Max(s)} \in SUBSET S
            /\ Cardinality(s) \in Nat /\ Cardinality(s) <= n + 1
        BY <1>2
      <4>1. s \ {Max(s)} \in Small(n) /\ s \ {Max(s)} \in Small(n + 1)
        <5>1. Cardinality(s \ {Max(s)}) = Cardinality(s) - 1
          BY <1>3, <3>2, <4>0
        <5> HIDE DEF S
        <5> QED BY <4>0, <5>1
      <4>2. h[s \ {Max(s)}] = g[s \ {Max(s)}]
        BY <4>1
      <4>3. h[s] = Turn(g, s)
        BY <2>1, <3>2
      <4> QED BY <3>2, <4>2, <4>3
    <3> QED BY <3>1, <3>2
  <2>3. Fits(h, n + 1)
    <3> DEFINE k == [s \in Small(n + 1) |-> IF s = {} THEN NoCuts(gap) ELSE Turn(h, s)]
    <3>1. \A s \in Small(n + 1) : h[s] = k[s]
      BY <2>2
    <3>2. h = [s \in Small(n + 1) |-> h[s]]
      OBVIOUS
    <3>3. k = [s \in Small(n + 1) |-> k[s]]
      OBVIOUS
    <3> HIDE DEF h
    <3> QED BY <3>1, <3>2, <3>3
  <2> HIDE DEF h, Fits
  <2> QED BY <2>3
<1>6. Nat \subseteq N
  <2> HIDE DEF N
  <2> QED BY <1>4, <1>5, Numbers
<1>7. Small(Cardinality(S)) = SUBSET S /\ Cardinality(S) \in Nat
  BY <1>1, FS_Subset, FS_CardinalityType
<1>8. PICK g : Fits(g, Cardinality(S))
  <2> HIDE DEF Fits
  <2> QED BY <1>6, <1>7
<1> QED BY <1>7, <1>8 DEF Takes

\* The loop, turn by turn.
Turns(st, spend, ranked, gap, m) ==
    /\ st[0] = NoCuts(gap)
    /\ \A i \in 1..m : st[i] = Take(spend, st[i - 1], ranked[i])

LEMMA CutsInTurns ==
    ASSUME NEW spend, NEW ranked, NEW gap, NEW m \in Nat, DOMAIN ranked = 1..m
    PROVE  \E st : Turns(st, spend, ranked, gap, m) /\ RecommendCuts(spend, ranked, gap) = st[m].cuts
<1> DEFINE g == CHOOSE g : Takes(g, spend, ranked, gap)
           st == [i \in 0..m |-> g[1..i]]
<1>1. Takes(g, spend, ranked, gap) /\ RecommendCuts(spend, ranked, gap) = g[1..m].cuts
  BY TakesExist, CutsAreChosen
<1> HIDE DEF g
<1>2. st[0] = NoCuts(gap)
  <2>1. 1..0 = {}
    OBVIOUS
  <2> QED BY <1>1, <2>1 DEF Takes
<1>3. ASSUME NEW i \in 1..m PROVE st[i] = Take(spend, st[i - 1], ranked[i])
  <2>1. 1..i \in SUBSET (1..m) /\ 1..i # {}
    OBVIOUS
  <2>2. Max(1..i) = i
    <3>1. Max(1..i) \in 1..i /\ \A j \in 1..i : j <= Max(1..i)
      BY <2>1, Largest
    <3> QED BY <3>1
  <2>3. (1..i) \ {i} = 1..(i - 1)
    OBVIOUS
  <2>4. g[1..i] = Take(spend, g[(1..i) \ {Max(1..i)}], ranked[Max(1..i)])
    BY <1>1, <2>1 DEF Takes
  <2>5. g[1..i] = Take(spend, g[1..(i - 1)], ranked[i])
    BY <2>2, <2>3, <2>4
  <2>6. st[i] = g[1..i] /\ st[i - 1] = g[1..(i - 1)]
    OBVIOUS
  <2> QED BY <2>5, <2>6
<1>4. st[m] = g[1..m]
  OBVIOUS
<1>5. Turns(st, spend, ranked, gap, m) /\ RecommendCuts(spend, ranked, gap) = st[m].cuts
  <2> HIDE DEF st
  <2> QED BY <1>1, <1>2, <1>3, <1>4 DEF Turns
<1> HIDE DEF st
<1> QED BY <1>5

\* A ranking has every category that may be cut once, the larger spending first.
Cuttable(spend, protected) == {c \in DOMAIN spend : c \notin protected /\ spend[c] > 0}

IsRanking(spend, protected, ranked, m) ==
    LET C == Cuttable(spend, protected) IN
    /\ DOMAIN ranked = 1..m /\ \A i \in 1..m : ranked[i] \in C
    /\ \A i, j \in 1..m : ranked[i] = ranked[j] => i = j
    /\ \A c \in C : \E i \in 1..m : ranked[i] = c
    /\ \A i, j \in 1..m : i < j => spend[ranked[i]] >= spend[ranked[j]]

LEMMA RankingIs ==
    ASSUME NEW spend, IsFiniteSet(DOMAIN spend),
           NEW protected, NEW ranked \in Rankings(spend, protected)
    PROVE  \E m \in Nat : IsRanking(spend, protected, ranked, m)
<1> DEFINE C == {c \in DOMAIN spend : c \notin protected /\ spend[c] > 0}
           m == Cardinality(C)
<1>1. IsFiniteSet(C) /\ m \in Nat
  BY FS_Subset, FS_CardinalityType
<1>2. /\ ranked \in [1..m -> C]
      /\ \A i, j \in 1..m : i # j => ranked[i] # ranked[j]
      /\ \A i, j \in DOMAIN ranked : i < j => spend[ranked[i]] >= spend[ranked[j]]
  BY Zenon DEF Rankings, SetToSeqs
<1> HIDE DEF C
<1>3. IsFiniteSet(1..m) /\ Cardinality(1..m) = m
  BY <1>1, FS_Interval
<1>4. ranked \in Injection(1..m, C)
  BY <1>2 DEF Injection, IsInjective
<1>5. ranked \in Surjection(1..m, C)
  BY <1>1, <1>3, <1>4, FS_Injection
<1>6. \A c \in C : \E i \in 1..m : ranked[i] = c
  BY <1>5 DEF Surjection
<1> HIDE DEF m
<1>7. DOMAIN ranked = 1..m /\ \A i \in 1..m : ranked[i] \in C
  BY <1>2
<1>8. \A i, j \in 1..m : i < j => spend[ranked[i]] >= spend[ranked[j]]
  BY <1>2, <1>7
<1> QED BY <1>1, <1>2, <1>6, <1>7, <1>8 DEF C, IsRanking, Cuttable

LEMMA CapIs ==
    /\ \A a \in Int : Cap(a) \in Int
    /\ \A a \in Int : Cap(a) > 0 => a > 0
    /\ \A a, b \in Int : a >= b => Cap(a) >= Cap(b)
BY DEF Cap, HalfUp

\* A category whose cap is cut.
CutInFull(so, spend, c) == c \in DOMAIN so.cuts /\ so.cuts[c] = Cap(spend[c])

\* What the loop has cut after the first i categories of the ranking.
InOrder(so, spend, ranked, gap, i) ==
    /\ so.left \in Nat /\ Total(so.cuts, DOMAIN so.cuts) = gap - so.left
    /\ \A c \in DOMAIN so.cuts : \E j \in 1..i : c = ranked[j]
    /\ \A c \in DOMAIN so.cuts :
         so.cuts[c] \in Nat /\ so.cuts[c] > 0 /\ so.cuts[c] <= Cap(spend[c])
    /\ so.left > 0 =>
         \A j \in 1..i : Cap(spend[ranked[j]]) > 0 => CutInFull(so, spend, ranked[j])
    /\ \A j, k \in 1..i :
         j < k /\ ranked[k] \in DOMAIN so.cuts /\ Cap(spend[ranked[j]]) > 0 =>
           CutInFull(so, spend, ranked[j])

LEMMA TakeKeepsOrder ==
    ASSUME NEW spend, IsFiniteSet(DOMAIN spend), \A c \in DOMAIN spend : spend[c] \in Int,
           NEW gap \in Nat, NEW m \in Nat, NEW ranked,
           \A i \in 1..m : ranked[i] \in DOMAIN spend,
           \A i, j \in 1..m : ranked[i] = ranked[j] => i = j,
           NEW so, NEW i \in Nat, i + 1 \in 1..m, InOrder(so, spend, ranked, gap, i)
    PROVE  InOrder(Take(spend, so, ranked[i + 1]), spend, ranked, gap, i + 1)
<1> DEFINE c == ranked[i + 1]
           cut == Smaller(so.left, Cap(spend[c]))
           D == DOMAIN so.cuts
           new == Take(spend, so, c)
<1>1. /\ c \in DOMAIN spend /\ c \notin D /\ D \subseteq DOMAIN spend
      /\ \A j \in 1..i : j \in 1..m /\ ranked[j] # c
  BY DEF InOrder
<1>2. Cap(spend[c]) \in Int /\ so.left \in Nat
  BY <1>1, CapIs DEF InOrder
<1>3. 1..(i + 1) = (1..i) \cup {i + 1}
  OBVIOUS
<1>4. CASE cut <= 0
  <2>1. new = so
    BY <1>4 DEF Take
  <2>2. so.left > 0 => ~ (Cap(spend[c]) > 0)
    BY <1>2, <1>4 DEF Smaller
  <2>3. so.left > 0 =>
          \A j \in 1..(i + 1) : Cap(spend[ranked[j]]) > 0 => CutInFull(so, spend, ranked[j])
    BY <1>3, <2>2 DEF InOrder
  <2>4. \A j, k \in 1..(i + 1) :
          j < k /\ ranked[k] \in D /\ Cap(spend[ranked[j]]) > 0 => CutInFull(so, spend, ranked[j])
    BY <1>1, <1>3 DEF InOrder
  <2>5. \A d \in D : \E j \in 1..(i + 1) : d = ranked[j]
    BY <1>3 DEF InOrder
  <2>6. InOrder(so, spend, ranked, gap, i + 1)
    BY <2>3, <2>4, <2>5 DEF InOrder
  <2> QED BY <2>1, <2>6
<1>5. CASE cut > 0
  <2> DEFINE cuts == [d \in D \cup {c} |-> IF d = c THEN cut ELSE so.cuts[d]]
  <2>1. new = [left |-> so.left - cut, cuts |-> cuts]
    BY <1>2, <1>5 DEF Take, Smaller
  <2>2. new.left = so.left - cut /\ new.cuts = cuts
    BY <2>1
  <2>3. /\ cut \in Nat /\ cut <= Cap(spend[c]) /\ cut <= so.left /\ so.left > 0
        /\ cut < so.left => cut = Cap(spend[c])
    BY <1>2, <1>5 DEF Smaller
  <2>4. /\ DOMAIN cuts = D \cup {c} /\ cuts[c] = cut
        /\ \A d \in D : cuts[d] = so.cuts[d]
    BY <1>1
  <2>5. \A d \in D : so.cuts[d] \in Nat /\ so.cuts[d] > 0 /\ so.cuts[d] <= Cap(spend[d])
    BY DEF InOrder
  <2> HIDE DEF cut, cuts, new
  <2>6. Total(cuts, D \cup {c}) = gap - new.left
    <3>1. IsFiniteSet(D) /\ IsFiniteSet(D \cup {c})
      BY <1>1, FS_Subset, FS_AddElement
    <3>2. \A d \in D \cup {c} : cuts[d] \in Nat
      BY <2>3, <2>4, <2>5
    <3>3. Total(cuts, D \cup {c}) = cuts[c] + Total(cuts, (D \cup {c}) \ {c})
      BY <3>1, <3>2, TotalTakesOut
    <3>4. (D \cup {c}) \ {c} = D
      BY <1>1
    <3>5. Total(cuts, D) = Total(so.cuts, D)
      BY <2>4, <2>5, <3>1, TotalsAgree
    <3>6. Total(so.cuts, D) = gap - so.left
      BY DEF InOrder
    <3>7. Total(cuts, D \cup {c}) = cut + (gap - so.left)
      BY <2>4, <3>3, <3>4, <3>5, <3>6
    <3> QED BY <1>2, <2>2, <2>3, <3>7
  <2>7. \A d \in D \cup {c} : cuts[d] \in Nat /\ cuts[d] > 0 /\ cuts[d] <= Cap(spend[d])
    BY <1>5, <2>3, <2>4, <2>5
  <2>8. \A j \in 1..i : Cap(spend[ranked[j]]) > 0 => CutInFull(new, spend, ranked[j])
    <3>1. \A j \in 1..i : Cap(spend[ranked[j]]) > 0 => CutInFull(so, spend, ranked[j])
      BY <2>3 DEF InOrder
    <3> QED BY <2>2, <2>4, <3>1 DEF CutInFull
  <2>9. new.left > 0 => CutInFull(new, spend, c)
    BY <1>2, <2>2, <2>3, <2>4 DEF CutInFull
  <2>10. \A d \in D \cup {c} : \E j \in 1..(i + 1) : d = ranked[j]
    BY <1>3 DEF InOrder
  <2>11. \A j, k \in 1..(i + 1) : j < k => j \in 1..i
    OBVIOUS
  <2>12. new.left \in Nat
    BY <1>2, <2>2, <2>3
  <2>13. new.left > 0 =>
           \A j \in 1..(i + 1) : Cap(spend[ranked[j]]) > 0 => CutInFull(new, spend, ranked[j])
    BY <1>3, <2>8, <2>9
  <2>14. \A j, k \in 1..(i + 1) :
           j < k /\ ranked[k] \in DOMAIN new.cuts /\ Cap(spend[ranked[j]]) > 0 =>
             CutInFull(new, spend, ranked[j])
    BY <2>8, <2>11
  <2>15. /\ DOMAIN new.cuts = D \cup {c} /\ Total(new.cuts, DOMAIN new.cuts) = gap - new.left
         /\ \A d \in DOMAIN new.cuts : new.cuts[d] = cuts[d]
    BY <2>2, <2>4, <2>6
  <2>16. InOrder(new, spend, ranked, gap, i + 1)
    BY <2>7, <2>10, <2>12, <2>13, <2>14, <2>15 DEF InOrder
  <2> QED BY <2>16 DEF new
<1>6. cut \in Int
  BY <1>2 DEF Smaller
<1> QED BY <1>4, <1>5, <1>6

\* At its end.
LEMMA CutsInOrder ==
    ASSUME NEW spend, IsFiniteSet(DOMAIN spend), \A c \in DOMAIN spend : spend[c] \in Int,
           NEW protected, NEW gap \in Nat, NEW ranked, NEW m \in Nat,
           IsRanking(spend, protected, ranked, m)
    PROVE  \E so : /\ InOrder(so, spend, ranked, gap, m)
                  /\ RecommendCuts(spend, ranked, gap) = so.cuts
<1>1. /\ DOMAIN ranked = 1..m /\ \A i \in 1..m : ranked[i] \in DOMAIN spend
      /\ \A i, j \in 1..m : ranked[i] = ranked[j] => i = j
  BY DEF IsRanking, Cuttable
<1>2. PICK st : Turns(st, spend, ranked, gap, m) /\ RecommendCuts(spend, ranked, gap) = st[m].cuts
  BY <1>1, CutsInTurns
<1>3. InOrder(st[m], spend, ranked, gap, m)
  <2> DEFINE N == {i \in Nat : i <= m => InOrder(st[i], spend, ranked, gap, i)}
  <2>1. 0 \in N
    <3>1. DOMAIN NoCuts(gap).cuts = {} /\ NoCuts(gap).left = gap
      BY DEF NoCuts
    <3>2. Total(NoCuts(gap).cuts, {}) = 0
      BY TotalTakesOut, FS_EmptySet
    <3>3. 1..0 = {}
      OBVIOUS
    <3>4. InOrder(NoCuts(gap), spend, ranked, gap, 0)
      BY <3>1, <3>2, <3>3 DEF InOrder
    <3> QED BY <1>2, <3>4 DEF Turns
  <2>2. ASSUME NEW i \in Nat, i \in N PROVE i + 1 \in N
    <3> SUFFICES ASSUME i + 1 <= m PROVE InOrder(st[i + 1], spend, ranked, gap, i + 1)
      OBVIOUS
    <3>1. i + 1 \in 1..m /\ InOrder(st[i], spend, ranked, gap, i)
      BY <2>2
    <3>2. st[i + 1] = Take(spend, st[i], ranked[i + 1])
      BY <1>2, <3>1 DEF Turns
    <3>3. \A j \in 1..m : ranked[j] \in DOMAIN spend
      BY <1>1
    <3>4. InOrder(Take(spend, st[i], ranked[i + 1]), spend, ranked, gap, i + 1)
      BY <1>1, <3>1, <3>3, TakeKeepsOrder
    <3> QED BY <3>2, <3>4
  <2>3. Nat \subseteq N
    <3> HIDE DEF N
    <3> QED BY <2>1, <2>2, Numbers
  <2> QED BY <2>3
<1> QED BY <1>2, <1>3

\* The cuts recommend_cuts makes never exceed the gap nor a fifth of a category, take the
\* largest categories first, and all there is to cut if that does not cover the gap: for
\* any spending, any protected categories and any order of equal ones.
THEOREM CutsClose ==
    ASSUME NEW spend, IsFiniteSet(DOMAIN spend), \A c \in DOMAIN spend : spend[c] \in Int,
           NEW protected, NEW gap \in Nat, NEW ranked \in Rankings(spend, protected)
    PROVE  Closes(spend, protected, gap, RecommendCuts(spend, ranked, gap))
<1> DEFINE C == {c \in DOMAIN spend : c \notin protected /\ spend[c] > 0}
           open == {c \in DOMAIN spend \ protected : Cap(spend[c]) > 0}
<1>1. PICK m \in Nat : IsRanking(spend, protected, ranked, m)
  BY RankingIs
<1>2. PICK so : InOrder(so, spend, ranked, gap, m) /\ RecommendCuts(spend, ranked, gap) = so.cuts
  BY <1>1, CutsInOrder
<1>3. /\ \A i \in 1..m : ranked[i] \in C
      /\ \A c \in C : \E i \in 1..m : ranked[i] = c
      /\ \A i, j \in 1..m : i < j => spend[ranked[i]] >= spend[ranked[j]]
  BY <1>1 DEF IsRanking, Cuttable
<1> DEFINE cuts == so.cuts
<1>4. \A c \in open : c \in C /\ \E j \in 1..m : c = ranked[j]
  BY <1>3, CapIs
<1>5. /\ \A c \in DOMAIN cuts : c \in C /\ cuts[c] \in Nat /\ cuts[c] > 0 /\ cuts[c] <= Cap(spend[c])
      /\ \A c \in DOMAIN cuts : Cap(spend[c]) \in Int
      /\ \A c \in C : Cap(spend[c]) \in Int
  <2>1. \A c \in C : Cap(spend[c]) \in Int
    BY CapIs
  <2>2. \A c \in DOMAIN cuts : \E j \in 1..m : c = ranked[j]
    BY <1>2 DEF InOrder
  <2>3. \A c \in DOMAIN cuts : c \in C
    BY <1>3, <2>2
  <2>4. \A c \in DOMAIN cuts : cuts[c] \in Nat /\ cuts[c] > 0 /\ cuts[c] <= Cap(spend[c])
    BY <1>2 DEF InOrder
  <2> QED BY <2>1, <2>3, <2>4
<1>6. DOMAIN cuts \subseteq open
  BY <1>5
<1>7. MapThenSumSet(LAMBDA c : cuts[c], DOMAIN cuts) = gap - so.left /\ so.left \in Nat
  BY <1>2 DEF InOrder, Total
<1>8. so.left > 0 => \A c \in open : CutInFull(so, spend, c)
  BY <1>2, <1>4 DEF InOrder
<1>9. ASSUME NEW c \in open, NEW d \in open, spend[c] > spend[d], d \in DOMAIN cuts
      PROVE  CutInFull(so, spend, c)
  <2>1. PICK j \in 1..m, k \in 1..m : c = ranked[j] /\ d = ranked[k]
    BY <1>4
  <2>2. j < k
    <3>1. spend[c] \in Int /\ spend[d] \in Int
      OBVIOUS
    <3>2. ~ (k < j) /\ j # k
      BY <1>3, <1>9, <2>1, <3>1
    <3> QED BY <3>2
  <2> QED BY <1>2, <1>9, <2>1, <2>2 DEF InOrder
<1>10. RecommendCuts(spend, ranked, gap) = cuts
  BY <1>2
<1> DEFINE total == MapThenSumSet(LAMBDA c : cuts[c], DOMAIN cuts)
<1> HIDE DEF C
<1>11. total <= gap /\ (total < gap => so.left > 0)
  BY <1>7
<1>12. Closes(spend, protected, gap, cuts)
  <2> HIDE DEF total
  <2>1. /\ \A c \in DOMAIN cuts : cuts[c] > 0 /\ cuts[c] <= Cap(spend[c])
        /\ total < gap => \A c \in open : c \in DOMAIN cuts /\ cuts[c] = Cap(spend[c])
        /\ \A c, d \in open : spend[c] > spend[d] /\ d \in DOMAIN cuts =>
             c \in DOMAIN cuts /\ cuts[c] = Cap(spend[c])
    BY <1>5, <1>8, <1>9, <1>11 DEF CutInFull
  <2> QED BY <1>6, <1>11, <2>1 DEF Closes, total
<1> QED BY <1>10, <1>12

\* However categories of equal spending are ordered, the same amount is cut: the gap, or all
\* that may be cut if that is less ("deterministic planner", docs/adr/0008).
THEOREM CutsAmountTo ==
    ASSUME NEW spend, IsFiniteSet(DOMAIN spend), \A c \in DOMAIN spend : spend[c] \in Int,
           NEW protected, NEW gap \in Nat, NEW ranked \in Rankings(spend, protected)
    PROVE  LET cuts == RecommendCuts(spend, ranked, gap)
               open == {c \in DOMAIN spend \ protected : Cap(spend[c]) > 0}
               most == Total([c \in open |-> Cap(spend[c])], open)
           IN  Total(cuts, DOMAIN cuts) = IF gap < most THEN gap ELSE most
<1> DEFINE cuts == RecommendCuts(spend, ranked, gap)
           D == DOMAIN cuts
           open == {c \in DOMAIN spend \ protected : Cap(spend[c]) > 0}
           caps == [c \in open |-> Cap(spend[c])]
           most == Total(caps, open)
           cut == Total(cuts, D)
<1>1. Closes(spend, protected, gap, cuts)
  BY CutsClose
<1> HIDE DEF cuts
<1>2. /\ D \subseteq open
      /\ \A c \in D : cuts[c] > 0 /\ cuts[c] <= Cap(spend[c])
      /\ cut <= gap
      /\ cut < gap => \A c \in open : c \in D /\ cuts[c] = Cap(spend[c])
  BY <1>1 DEF Closes, Total
<1>3. IsFiniteSet(open) /\ IsFiniteSet(D) /\ \A c \in open : caps[c] \in Nat /\ caps[c] = Cap(spend[c])
  BY <1>2, FS_Subset, CapIs
<1>4. \A c \in D : cuts[c] \in Nat
  <2>1. PICK m \in Nat : IsRanking(spend, protected, ranked, m)
    BY RankingIs
  <2>2. PICK so : InOrder(so, spend, ranked, gap, m) /\ cuts = so.cuts
    BY <2>1, CutsInOrder DEF cuts
  <2> QED BY <2>2 DEF InOrder
<1>5. cut \in Nat /\ most \in Nat
  BY <1>3, <1>4, TotalIsNat
<1>6. cut <= most
  BY <1>2, <1>3, <1>4, TotalsCompare
<1>7. cut < gap => cut = most
  <2> SUFFICES ASSUME cut < gap PROVE cut = most
    OBVIOUS
  <2>1. D = open /\ \A c \in open : cuts[c] = caps[c]
    BY <1>2, <1>3
  <2> QED BY <1>3, <2>1, TotalsAgree
<1> HIDE DEF cut, most
<1>8. cut = IF gap < most THEN gap ELSE most
  BY <1>2, <1>5, <1>6, <1>7
<1> QED BY <1>8 DEF cut, most, cuts
=============================================================================
