-------------------------- MODULE EnrichmentProofs --------------------------
(***************************************************************************)
(* Theorems about Enrichment, for any number of requests, households,      *)
(* transactions and descriptors.                                           *)
(***************************************************************************)
EXTENDS Enrichment, FiniteSetTheorems, TLAPS

-----------------------------------------------------------------------------
(* The inductive invariant.                                                *)

Shape == {"stage", "category"}

Corrected(v) == v # NoRow /\ v.stage = "user_correction"

\* Enrichments a request has in its session.
Touched(r) == {t \in Txn : Enriched(t) \in DOMAIN want[r] \cup DOMAIN held[r]}
Kept(r)    == {t \in Txn : Enriched(t) \in DOMAIN held[r]}

\* Transactions an import is adding: nobody else has them.
Claimed(r) == IF at[r].kind = "sync" THEN at[r].todo \cup at[r].left \cup Kept(r) ELSE {}

Shapes ==
    /\ DOMAIN want = Req /\ DOMAIN held = Req
    /\ at = [r \in Req |-> at[r]]
    /\ globals \in [Descriptor -> Nat]

StoredOK ==
    \A t \in Txn : /\ db[Enriched(t)] = NoRow \/ DOMAIN db[Enriched(t)] = Shape
                   /\ t \notin stored => db[Enriched(t)] = NoRow

LocalOK(r) ==
    LET s == at[r] IN
    /\ DOMAIN s = DOMAIN Idle /\ s.kind \in Kind
    /\ s.pc = "idle" => s = Idle
    /\ s.pc \in {"rules", "next", "ask", "named", "left"} => s.kind = "sync"
    /\ s.kind # "sync" => s.left = {}
    /\ s.pc \in {"correct", "rule", "match", "reapply"} => s.kind = "correct"
    /\ s.pc \in {"ask", "named"} => s.txn \in s.todo

ListOK(r) == at[r].kind = "list" => Touched(r) = {}

SyncOK(r) ==
    at[r].kind = "sync" =>
        /\ at[r].todo \cup at[r].left \subseteq Txn
        /\ \A t \in Txn : Enriched(t) \notin DOMAIN want[r]
        /\ Claimed(r) \cap stored = {}

\* A correction has its own row in its session and, at the end, those that follow its rule.
CorrectOK(r) ==
    LET s == at[r] IN
    s.kind = "correct" =>
        /\ s.txn \in stored /\ s.todo \subseteq Alike(s.txn) \cap stored
        /\ s.pc \in {"correct", "rule", "index", "match", "reapply", "store"}
        /\ s.pc = "correct" => Touched(r) = {}
        /\ \A t \in Touched(r) : /\ t \in stored
                                 /\ t = s.txn \/ (s.pc = "store" /\ t \in Alike(s.txn))

\* What is about to overwrite a correction is a correction, or was read before.
RowsOK(r) ==
    LET s == at[r]
        behind(t) == Corrected(db[Enriched(t)]) => Enriched(t) \in s.behind
    IN  /\ \A t \in Txn : Enriched(t) \in DOMAIN want[r] =>
             LET new == want[r][Enriched(t)].new IN
             /\ Enriched(t) \notin DOMAIN held[r]
             /\ DOMAIN new = Shape
             /\ IF t = s.txn THEN new.stage = "user_correction" ELSE behind(t)
        /\ \A t \in Kept(r) :
             LET new == held[r][Enriched(t)] IN
             /\ DOMAIN new = Shape
             /\ s.kind = "correct" /\ new.stage # "user_correction" => behind(t)

RequestOK(r) == LocalOK(r) /\ ListOK(r) /\ SyncOK(r) /\ CorrectOK(r) /\ RowsOK(r)

\* No two requests hold an enrichment, no two imports add a transaction.
Apart ==
    \A r, q \in Req : r # q => /\ Kept(r) \cap Kept(q) = {}
                               /\ Claimed(r) \cap Claimed(q) = {}

\* Whoever inserts a global embedding saw none: each request may be about to.
Fresh(d) == {r \in Req : d \in at[r].fresh}
Bounded  == \A d \in Descriptor : globals[d] + Cardinality(Fresh(d)) <= Cardinality(Req)

IInv ==
    /\ Shapes /\ StoredOK /\ Apart /\ Bounded
    /\ \A r \in Req : RequestOK(r)

-----------------------------------------------------------------------------
(* Rows and sessions.                                                      *)

LEMMA RowNames ==
    /\ \A t, u : Enriched(t) = Enriched(u) => t = u
    /\ \A t, h, d : Enriched(t) # Rule(h, d) /\ Enriched(t) # Embedding(h, d)
    /\ \A t, m : Enriched(t) # MerchantRow(m)
    /\ \A t : Enriched(t) # Defaults
    /\ \A t \in Txn : Enriched(t) \in Row
BY RowAssumption DEF Enriched, Rule, Embedding, MerchantRow, Defaults, Rows

LEMMA IdleShape ==
    /\ DOMAIN Idle = {"pc", "kind", "mine", "house", "txn", "category", "by", "todo", "left",
                      "rules", "fresh", "behind"}
    /\ Idle.pc = "idle" /\ Idle.kind = "list" /\ Idle.todo = {} /\ Idle.left = {}
    /\ Idle.fresh = {} /\ Idle.behind = {}
BY DEF Idle

\* Of the sessions only r's changes, and nothing is stored.
Only(r) ==
    /\ db' = db /\ DOMAIN want' = Req /\ DOMAIN held' = Req
    /\ \A q \in Req \ {r} : want'[q] = want[q] /\ held'[q] = held[q]

LEMMA Sessions ==
    ASSUME IInv, NEW r \in Req
    PROVE  /\ UNCHANGED session => Only(r) /\ want'[r] = want[r] /\ held'[r] = held[r]
           /\ \A W : Pend(r, W) => Only(r) /\ want'[r] = W /\ held'[r] = held[r]
           /\ Rollback(r) => Only(r) /\ DOMAIN want'[r] = {} /\ DOMAIN held'[r] = {}
BY DEF IInv, Shapes, Only, session, Pend, Rollback, Nothing

LEMMA BecomesOnly ==
    ASSUME NEW x, NEW was, NEW to
    PROVE  /\ DOMAIN Becomes(x, was, to) \subseteq {x}
           /\ x \in DOMAIN Becomes(x, was, to) =>
                /\ Becomes(x, was, to)[x].was = was
                /\ Becomes(x, was, to)[x].new = to
BY DEF Becomes, Changes, Change

\* Enrichments that are not in the session of one request may be in another's.
LEMMA OthersHaveNone ==
    ASSUME IInv, NEW r \in Req, NEW q \in Req \ {r}
    PROVE  (Kept(r) \cup Claimed(r)) \cap Kept(q) = {}
<1>1. RequestOK(r) /\ RequestOK(q)
  BY DEF IInv
<1>2. Claimed(r) \cap Kept(q) = {}
  <2>1. CASE at[q].kind = "sync"
    BY <2>1 DEF IInv, Apart, Claimed
  <2>2. CASE at[q].kind = "correct"
    <3>1. Kept(q) \subseteq stored
      BY <1>1, <2>2 DEF RequestOK, CorrectOK, Kept, Touched
    <3>2. Claimed(r) \cap stored = {}
      BY <1>1 DEF RequestOK, SyncOK, Claimed
    <3> QED BY <3>1, <3>2
  <2>3. CASE at[q].kind = "list"
    BY <1>1, <2>3 DEF RequestOK, ListOK, Kept, Touched
  <2> QED BY <1>1, <2>1, <2>2, <2>3 DEF RequestOK, LocalOK, Kind
<1> QED BY <1>2 DEF IInv, Apart

\* Nobody else notices what a request does in its session.
LEMMA SessionStep ==
    ASSUME IInv, NEW r \in Req, NEW new, at' = [at EXCEPT ![r] = new], Only(r),
           stored' = stored, globals' = globals, RequestOK(r)',
           \A q \in Req \ {r} : Kept(r)' \cap Kept(q) = {} /\ Claimed(r)' \cap Claimed(q) = {},
           \A d \in new.fresh \cap Descriptor : d \in at[r].fresh \/ globals[d] = 0
    PROVE  IInv'
<1>1. /\ at'[r] = new
      /\ \A q \in Req \ {r} : at'[q] = at[q] /\ want'[q] = want[q] /\ held'[q] = held[q]
  BY DEF IInv, Shapes, Only
<1>2. Shapes'
  BY DEF IInv, Shapes, Only
<1>3. StoredOK'
  BY DEF IInv, StoredOK, Only
<1>4. \A q \in Req \ {r} : Kept(q)' = Kept(q) /\ Claimed(q)' = Claimed(q) /\ Touched(q)' = Touched(q)
  BY <1>1 DEF Kept, Claimed, Touched
<1>5. Apart'
  BY <1>4 DEF IInv, Apart
<1>6. ASSUME NEW d \in Descriptor
      PROVE  globals'[d] + Cardinality(Fresh(d)') <= Cardinality(Req)
  <2>1. /\ IsFiniteSet(Req) /\ Cardinality(Req) \in Nat /\ globals[d] \in Nat
        /\ Fresh(d) \subseteq Req /\ Fresh(d)' \subseteq Req
    BY RequestAssumption, FS_CardinalityType DEF Fresh, IInv, Shapes
  <2>2. /\ IsFiniteSet(Fresh(d)) /\ Cardinality(Fresh(d)) \in Nat
        /\ Cardinality(Fresh(d)') <= Cardinality(Req) /\ Cardinality(Fresh(d)') \in Nat
    BY <2>1, FS_Subset, FS_CardinalityType
  <2>3. CASE globals[d] = 0
    BY <2>1, <2>2, <2>3
  <2>4. CASE globals[d] # 0
    <3>1. Fresh(d)' \subseteq Fresh(d)
      BY <1>1, <2>4 DEF Fresh
    <3>2. Cardinality(Fresh(d)') <= Cardinality(Fresh(d))
      BY <2>2, <3>1, FS_Subset
    <3>3. globals[d] + Cardinality(Fresh(d)) <= Cardinality(Req)
      BY DEF IInv, Bounded
    <3> QED BY <2>1, <2>2, <3>2, <3>3
  <2> QED BY <2>3, <2>4
<1>7. Bounded'
  BY <1>6 DEF Bounded
<1>8. ASSUME NEW q \in Req \ {r} PROVE RequestOK(q)'
  <2>1. RequestOK(q) /\ db' = db
    BY DEF IInv, Only
  <2>2. LocalOK(q)' /\ ListOK(q)' /\ SyncOK(q)' /\ CorrectOK(q)'
    BY <1>1, <1>4, <2>1 DEF RequestOK, LocalOK, ListOK, SyncOK, CorrectOK
  <2>3. RowsOK(q)'
    BY <1>1, <1>4, <2>1 DEF RequestOK, RowsOK
  <2> QED BY <2>2, <2>3 DEF RequestOK
<1> QED BY <1>2, <1>3, <1>5, <1>7, <1>8 DEF IInv

LEMMA Ends ==
    ASSUME IInv, NEW r \in Req, at' = [at EXCEPT ![r] = Idle], Rollback(r),
           stored' = stored, globals' = globals
    PROVE  IInv'
<1>1. Only(r) /\ DOMAIN want'[r] = {} /\ DOMAIN held'[r] = {} /\ at'[r] = Idle
  BY Sessions DEF IInv, Shapes
<1>2. Kept(r)' = {} /\ Touched(r)' = {} /\ Claimed(r)' = {}
  BY <1>1, IdleShape DEF Kept, Touched, Claimed
<1>3. RequestOK(r)'
  BY <1>1, <1>2, IdleShape
     DEF RequestOK, LocalOK, ListOK, SyncOK, CorrectOK, RowsOK, Kind
<1> QED BY <1>1, <1>2, <1>3, IdleShape, SessionStep

\* A request that has nothing in its session yet.
LEMMA Begins ==
    ASSUME IInv, NEW r \in Req, NEW new, at' = [at EXCEPT ![r] = new], Only(r),
           at[r].kind = "list", held'[r] = held[r],
           \A t \in Txn : Enriched(t) \notin DOMAIN want'[r],
           stored' = stored, globals' = globals,
           LocalOK(r)', new.fresh \subseteq at[r].fresh,
           new.left = {},
           new.kind = "sync" => /\ new.todo \subseteq Txn /\ new.todo \cap stored = {}
                                /\ \A q \in Req \ {r} : new.todo \cap Claimed(q) = {},
           new.kind = "correct" => /\ new.pc = "correct" /\ new.txn \in stored
                                   /\ new.todo = {}
    PROVE  IInv'
<1>1. at'[r] = new /\ RequestOK(r)
  BY DEF IInv, Shapes
<1>2. Kept(r)' = {} /\ Touched(r)' = {}
  BY <1>1 DEF RequestOK, ListOK, Kept, Touched
<1>3. Claimed(r)' = IF new.kind = "sync" THEN new.todo ELSE {}
  BY <1>1, <1>2 DEF Claimed
<1>4. RequestOK(r)'
  BY <1>1, <1>2, <1>3 DEF RequestOK, ListOK, SyncOK, CorrectOK, RowsOK, Kept, Touched
<1> QED BY <1>1, <1>2, <1>3, <1>4, SessionStep

\* An import goes on.
LEMMA SyncStep ==
    ASSUME IInv, NEW r \in Req, NEW new, at' = [at EXCEPT ![r] = new], Only(r),
           at[r].kind = "sync", new.kind = "sync", LocalOK(r)',
           new.todo \cup new.left \subseteq at[r].todo \cup at[r].left,
           \A d \in new.fresh \cap Descriptor : d \in at[r].fresh \/ globals[d] = 0,
           stored' = stored, globals' = globals,
           \A t \in Txn : Enriched(t) \notin DOMAIN want'[r],
           Kept(r)' \subseteq Kept(r) \cup at[r].todo,
           \A t \in Kept(r)' : DOMAIN held'[r][Enriched(t)] = Shape
    PROVE  IInv'
<1>1. at'[r] = new /\ RequestOK(r)
  BY DEF IInv, Shapes
<1>2. Claimed(r)' \subseteq Claimed(r) /\ Kept(r)' \subseteq Claimed(r)
  BY <1>1 DEF Claimed
<1>3. RequestOK(r)'
  BY <1>1, <1>2 DEF RequestOK, ListOK, SyncOK, CorrectOK, RowsOK
<1>4. \A q \in Req \ {r} : Kept(r)' \cap Kept(q) = {} /\ Claimed(r)' \cap Claimed(q) = {}
  BY <1>2, OthersHaveNone DEF IInv, Apart
<1> QED BY <1>1, <1>3, <1>4, SessionStep

\* A correction goes on.
LEMMA CorrectStep ==
    ASSUME IInv, NEW r \in Req, NEW new, at' = [at EXCEPT ![r] = new], Only(r),
           held'[r] = held[r], stored' = stored, globals' = globals,
           at[r].kind = "correct", at[r].pc # "store", DOMAIN new = DOMAIN Idle,
           new.kind = "correct", new.txn = at[r].txn, new.behind = at[r].behind,
           new.fresh = at[r].fresh, new.left = at[r].left,
           new.todo \subseteq Alike(new.txn) \cap stored,
           new.pc \in {"rule", "index", "match", "reapply", "store"},
           \A t \in Txn : Enriched(t) \in DOMAIN want'[r] =>
             /\ t \in stored
             /\ t = new.txn \/ (new.pc = "store" /\ t \in Alike(new.txn))
             /\ Enriched(t) \notin DOMAIN held[r]
             /\ DOMAIN want'[r][Enriched(t)].new = Shape
             /\ IF t = new.txn THEN want'[r][Enriched(t)].new.stage = "user_correction"
                ELSE Corrected(db[Enriched(t)]) => Enriched(t) \in new.behind
    PROVE  IInv'
<1>1. at'[r] = new /\ RequestOK(r) /\ db' = db
  BY DEF IInv, Shapes, Only
<1>2. Kept(r)' = Kept(r) /\ Claimed(r)' = {}
  BY <1>1 DEF Kept, Claimed
<1>3. Kept(r) \subseteq {at[r].txn} /\ at[r].txn \in stored
  BY <1>1 DEF RequestOK, CorrectOK, Kept, Touched
<1>4. LocalOK(r)' /\ ListOK(r)' /\ SyncOK(r)'
  BY <1>1 DEF RequestOK, LocalOK, ListOK, SyncOK, Kind
<1>5. CorrectOK(r)'
  BY <1>1, <1>2, <1>3 DEF CorrectOK, Touched, Kept
<1>6. RowsOK(r)'
  BY <1>1, <1>2 DEF RequestOK, RowsOK, Kept
<1>7. \A q \in Req \ {r} : Kept(r)' \cap Kept(q) = {}
  BY <1>2, OthersHaveNone
<1> QED BY <1>1, <1>2, <1>4, <1>5, <1>6, <1>7, SessionStep DEF RequestOK

-----------------------------------------------------------------------------
(* The steps of imports.                                                   *)

LEMMA NamingNames ==
    ASSUME IInv, NEW r \in Req, Clean(r), NEW m, Naming(r, m)
    PROVE  /\ Only(r) /\ held'[r] = held[r]
           /\ \A t \in Txn : Enriched(t) \notin DOMAIN want'[r]
<1>1. CASE UNCHANGED session
  BY <1>1, Sessions DEF Clean, Nothing
<1>2. CASE Pend(r, Becomes(MerchantRow(m), Sees(r)[MerchantRow(m)], Exists))
  <2> DEFINE W == Becomes(MerchantRow(m), Sees(r)[MerchantRow(m)], Exists)
  <2>1. DOMAIN W \subseteq {MerchantRow(m)}
    BY BecomesOnly
  <2> HIDE DEF W
  <2>2. Only(r) /\ held'[r] = held[r] /\ want'[r] = W
    BY <1>2, Sessions DEF W
  <2> QED BY <2>1, <2>2, RowNames
<1> QED BY <1>1, <1>2 DEF Naming

LEMMA IndexForIndexes ==
    ASSUME IInv, NEW r \in Req, NEW h, NEW d, NEW c, IndexFor(r, h, d, c)
    PROVE  /\ Only(r) /\ held'[r] = held[r]
           /\ \A t \in Txn : Enriched(t) \notin DOMAIN want'[r]
<1> DEFINE W == Becomes(Embedding(h, d), Sees(r)[Embedding(h, d)], [category |-> c])
<1>1. DOMAIN W \subseteq {Embedding(h, d)}
  BY BecomesOnly
<1> HIDE DEF W
<1>2. Only(r) /\ held'[r] = held[r] /\ want'[r] = W
  BY Sessions DEF IndexFor, W
<1> QED BY <1>1, <1>2, RowNames

LEMMA EnrichAdds ==
    ASSUME IInv, NEW r \in Req, Clean(r), NEW t \in Txn, NEW stage, NEW c, Enrich(r, t, stage, c),
           \A u \in Kept(r) : DOMAIN held[r][Enriched(u)] = Shape
    PROVE  /\ Only(r)
           /\ \A u \in Txn : Enriched(u) \notin DOMAIN want'[r]
           /\ Kept(r)' = Kept(r) \cup {t}
           /\ \A u \in Kept(r)' : DOMAIN held'[r][Enriched(u)] = Shape
<1>1. /\ held'[r] = [x \in DOMAIN held[r] \cup {Enriched(t)} |->
                       IF x = Enriched(t) THEN [stage |-> stage, category |-> c] ELSE held[r][x]]
      /\ want' = want /\ Only(r)
  BY DEF Enrich, IInv, Shapes, Only
<1>2. Kept(r)' = Kept(r) \cup {t}
  BY <1>1, RowNames DEF Kept
<1>3. ASSUME NEW u \in Kept(r)' PROVE DOMAIN held'[r][Enriched(u)] = Shape
  <2>1. CASE u = t
    BY <1>1, <2>1 DEF Shape
  <2>2. CASE u # t
    <3>1. u \in Kept(r) /\ Enriched(u) # Enriched(t)
      BY <1>2, <1>3, <2>2, RowNames DEF Kept
    <3>2. held'[r][Enriched(u)] = held[r][Enriched(u)]
      BY <1>1, <3>1 DEF Kept
    <3> QED BY <3>1, <3>2
  <2> QED BY <2>1, <2>2
<1> QED BY <1>1, <1>2, <1>3 DEF Clean, Nothing

LEMMA BeginStep ==
    ASSUME IInv, NEW r \in Req, Begin(r)
    PROVE  IInv'
<1>1. RequestOK(r) /\ at[r] = Idle
  BY DEF IInv, Begin, BeginSync, BeginCorrect, BeginList, RequestOK, LocalOK
<1>2. \A t \in Txn : Enriched(t) \notin DOMAIN want[r]
  BY <1>1, IdleShape DEF RequestOK, ListOK, Touched
<1>3. ASSUME NEW mine \in BOOLEAN, NEW h \in House, NEW new \in SUBSET Txn, BeginSync(r, mine, h, new)
      PROVE  IInv'
  <2> DEFINE to == [Idle EXCEPT !.pc = "seed", !.kind = "sync", !.mine = mine,
                                !.house = h, !.todo = new]
  <2>1. /\ at' = [at EXCEPT ![r] = to] /\ stored' = stored /\ globals' = globals /\ UNCHANGED session
        /\ new \cap stored = {}
        /\ \A q \in Req : at[q].kind = "sync" =>
             /\ new \cap (at[q].todo \cup at[q].left) = {}
             /\ \A t \in new : Enriched(t) \notin DOMAIN held[q]
    BY <1>3 DEF BeginSync, Unseen, Go
  <2>2. /\ DOMAIN to = DOMAIN Idle /\ to.pc = "seed" /\ to.kind = "sync" /\ to.todo = new
        /\ to.fresh = {} /\ to.left = {}
    BY IdleShape
  <2> HIDE DEF to
  <2>3. LocalOK(r)'
    BY <2>1, <2>2 DEF LocalOK, Kind, IInv, Shapes
  <2>4. \A q \in Req \ {r} : new \cap Claimed(q) = {}
    BY <2>1 DEF Claimed, Kept
  <2>5. Only(r) /\ want'[r] = want[r] /\ held'[r] = held[r]
    BY <2>1, Sessions
  <2> QED BY <1>1, <1>2, <2>1, <2>2, <2>3, <2>4, <2>5, IdleShape, Begins
<1>4. ASSUME NEW t \in Txn, NEW c \in Category, NEW m \in Merchant \cup {NoRow}, BeginCorrect(r, t, c, m)
      PROVE  IInv'
  <2> DEFINE to == [Idle EXCEPT !.pc = "correct", !.kind = "correct", !.house = Home[t],
                                !.txn = t, !.category = c]
  <2>1. /\ at' = [at EXCEPT ![r] = to] /\ stored' = stored /\ globals' = globals
        /\ t \in stored /\ Naming(r, m)
    BY <1>4 DEF BeginCorrect
  <2>2. /\ DOMAIN to = DOMAIN Idle /\ to.pc = "correct" /\ to.kind = "correct" /\ to.txn = t
        /\ to.todo = {} /\ to.fresh = {} /\ to.left = {}
    BY IdleShape
  <2> HIDE DEF to
  <2>3. LocalOK(r)'
    BY <2>1, <2>2 DEF LocalOK, Kind, IInv, Shapes
  <2>4. /\ Only(r) /\ held'[r] = held[r]
        /\ \A u \in Txn : Enriched(u) \notin DOMAIN want'[r]
    <3>1. CASE UNCHANGED session
      BY <1>2, <3>1, Sessions
    <3>2. CASE Pend(r, Becomes(MerchantRow(m), Sees(r)[MerchantRow(m)], Exists))
      <4> DEFINE W == Becomes(MerchantRow(m), Sees(r)[MerchantRow(m)], Exists)
      <4>1. DOMAIN W \subseteq {MerchantRow(m)}
        BY BecomesOnly
      <4> HIDE DEF W
      <4>2. Only(r) /\ held'[r] = held[r] /\ want'[r] = W
        BY <3>2, Sessions DEF W
      <4> QED BY <4>1, <4>2, RowNames
    <3> QED BY <2>1, <3>1, <3>2 DEF Naming
  <2> QED BY <1>1, <2>1, <2>2, <2>3, <2>4, IdleShape, Begins
<1>5. CASE BeginList(r)
  <2> DEFINE to == [Idle EXCEPT !.pc = "seed"]
  <2>1. /\ at' = [at EXCEPT ![r] = to] /\ stored' = stored /\ globals' = globals /\ UNCHANGED session
    BY <1>5 DEF BeginList, Go
  <2>2. /\ DOMAIN to = DOMAIN Idle /\ to.pc = "seed" /\ to.kind = "list" /\ to.fresh = {}
        /\ to.left = {}
    BY IdleShape
  <2> HIDE DEF to
  <2>3. LocalOK(r)'
    BY <2>1, <2>2 DEF LocalOK, Kind, IInv, Shapes
  <2>4. Only(r) /\ want'[r] = want[r] /\ held'[r] = held[r]
    BY <2>1, Sessions
  <2> QED BY <1>1, <1>2, <2>1, <2>2, <2>3, <2>4, IdleShape, Begins
<1> QED BY <1>3, <1>4, <1>5 DEF Begin

LEMMA SeedStep ==
    ASSUME IInv, NEW r \in Req, SeedDefaults(r)
    PROVE  IInv'
<1> DEFINE s == at[r]
           to == [s EXCEPT !.pc = IF s.kind = "list" THEN "store" ELSE "rules"]
           W == Becomes(Defaults, Sees(r)[Defaults], Exists)
<1>1. RequestOK(r) /\ s.pc = "seed" /\ Pend(r, W) /\ at' = [at EXCEPT ![r] = to]
      /\ stored' = stored /\ globals' = globals
  BY DEF IInv, SeedDefaults, Go
<1>2. /\ DOMAIN to = DOMAIN Idle /\ to.kind = s.kind /\ to.todo = s.todo /\ to.fresh = s.fresh
      /\ to.left = s.left /\ (s.kind # "sync" => s.left = {})
      /\ to.pc = (IF s.kind = "list" THEN "store" ELSE "rules")
  BY <1>1, IdleShape DEF RequestOK, LocalOK
<1>3. DOMAIN W \subseteq {Defaults}
  BY BecomesOnly
<1> HIDE DEF to, W
<1>4. Only(r) /\ held'[r] = held[r] /\ want'[r] = W
  BY <1>1, Sessions
<1>5. \A t \in Txn : Enriched(t) \notin DOMAIN want'[r]
  BY <1>3, <1>4, RowNames
<1>6. at'[r] = to /\ s.kind \in {"list", "sync"}
  BY <1>1 DEF IInv, Shapes, RequestOK, LocalOK, Kind, CorrectOK
<1>7. LocalOK(r)'
  BY <1>2, <1>6 DEF LocalOK, Kind
<1>8. CASE s.kind = "list"
  BY <1>1, <1>2, <1>4, <1>5, <1>6, <1>7, <1>8, Begins
<1>9. CASE s.kind = "sync"
  <2>1. Kept(r)' = Kept(r) /\ \A t \in Kept(r)' : DOMAIN held'[r][Enriched(t)] = Shape
    BY <1>1, <1>4 DEF RequestOK, RowsOK, Kept
  <2> QED BY <1>1, <1>2, <1>4, <1>5, <1>6, <1>7, <1>9, <2>1, SyncStep
<1> QED BY <1>6, <1>8, <1>9

\* Steps of an import that enrich nothing.
LEMMA SyncReads ==
    ASSUME IInv, NEW r \in Req, NEW new, at' = [at EXCEPT ![r] = new], Only(r),
           at[r].kind = "sync", new.kind = "sync", DOMAIN new = DOMAIN Idle,
           new.pc \in {"next", "ask", "named", "left"},
           new.todo \cup new.left \subseteq at[r].todo \cup at[r].left,
           new.pc \in {"ask", "named"} => new.txn \in new.todo,
           \A d \in new.fresh \cap Descriptor : d \in at[r].fresh \/ globals[d] = 0,
           stored' = stored, globals' = globals, held'[r] = held[r],
           \A t \in Txn : Enriched(t) \notin DOMAIN want'[r]
    PROVE  IInv'
<1>1. at'[r] = new /\ RequestOK(r)
  BY DEF IInv, Shapes
<1>2. LocalOK(r)'
  BY <1>1 DEF LocalOK, Kind
<1>3. Kept(r)' = Kept(r) /\ \A t \in Kept(r)' : DOMAIN held'[r][Enriched(t)] = Shape
  BY <1>1 DEF RequestOK, RowsOK, Kept
<1> QED BY <1>2, <1>3, SyncStep

\* Steps of an import that enrich one transaction.
LEMMA SyncEnriches ==
    ASSUME IInv, NEW r \in Req, NEW new, at' = [at EXCEPT ![r] = new], Clean(r),
           NEW t \in at[r].todo, NEW stage, NEW c, Enrich(r, t, stage, c),
           at[r].kind = "sync", new.kind = "sync", DOMAIN new = DOMAIN Idle,
           new.pc \in {"next", "index"}, new.fresh = at[r].fresh,
           new.todo \cup new.left \subseteq at[r].todo \cup at[r].left,
           stored' = stored, globals' = globals
    PROVE  IInv'
<1>1. at'[r] = new /\ RequestOK(r) /\ t \in Txn
  BY DEF IInv, Shapes, RequestOK, SyncOK
<1>2. LocalOK(r)'
  BY <1>1 DEF LocalOK, Kind
<1>3. /\ Only(r) /\ \A u \in Txn : Enriched(u) \notin DOMAIN want'[r]
      /\ Kept(r)' = Kept(r) \cup {t}
      /\ \A u \in Kept(r)' : DOMAIN held'[r][Enriched(u)] = Shape
  BY <1>1, EnrichAdds DEF RequestOK, RowsOK
<1> QED BY <1>2, <1>3, SyncStep

LEMMA DoneIs ==
    ASSUME NEW s, DOMAIN s = DOMAIN Idle, NEW t
    PROVE  /\ DOMAIN Done(s, t) = DOMAIN Idle /\ Done(s, t).pc = "next"
           /\ Done(s, t).kind = s.kind /\ Done(s, t).todo = s.todo \ {t}
           /\ Done(s, t).fresh = s.fresh /\ Done(s, t).left = s.left
BY IdleShape DEF Done

LEMMA CascadeStep ==
    ASSUME IInv, NEW r \in Req, Clean(r),
           \/ ReadRules(r) \/ LlmAnswers(r) \/ AddNamed(r) \/ IndexGlobal(r) \/ IndexAnswer(r)
           \/ \E t \in Txn : ByUserRule(r, t) \/ ByGlobalRule(r, t) \/ Match(r, t)
    PROVE  IInv'
<1> DEFINE s == at[r]
<1>1. RequestOK(r) /\ LocalOK(r) /\ DOMAIN s = DOMAIN Idle
  BY DEF IInv, RequestOK, LocalOK
<1>2. \A t \in Txn : Enriched(t) \notin DOMAIN want[r]
  BY DEF Clean, Nothing
<1>20. ASSUME NEW to, at' = [at EXCEPT ![r] = to], stored' = stored, globals' = globals,
             UNCHANGED session, s.kind = "sync", to.kind = "sync", DOMAIN to = DOMAIN Idle,
             to.pc \in {"next", "ask", "named", "left"},
             to.todo \cup to.left \subseteq s.todo \cup s.left,
             to.pc \in {"ask", "named"} => to.txn \in to.todo,
             \A d \in to.fresh \cap Descriptor : d \in s.fresh \/ globals[d] = 0
      PROVE  IInv'
  <2>1. Only(r) /\ held'[r] = held[r] /\ want'[r] = want[r]
    BY <1>20, Sessions
  <2> QED BY <1>2, <1>20, <2>1, SyncReads
<1>21. ASSUME NEW t \in s.todo, NEW stage, NEW c, Enrich(r, t, stage, c), Go(r, Done(s, t)),
             s.kind = "sync"
      PROVE  IInv'
  <2> DEFINE to == Done(s, t)
  <2>1. /\ DOMAIN to = DOMAIN Idle /\ to.pc = "next" /\ to.kind = s.kind
        /\ to.todo \subseteq s.todo /\ to.fresh = s.fresh /\ to.left = s.left
    BY <1>1, DoneIs
  <2>2. at' = [at EXCEPT ![r] = to] /\ stored' = stored /\ globals' = globals
    BY <1>21 DEF Go
  <2> HIDE DEF to
  <2> QED BY <1>21, <2>1, <2>2, SyncEnriches
<1>22. ASSUME NEW rest \in SUBSET s.todo, Raises(r, rest), s.kind = "sync"
      PROVE  IInv'
  <2> DEFINE to == [s EXCEPT !.pc = "left", !.left = @ \cup rest, !.todo = {}, !.txn = NoRow,
                             !.category = NoRow, !.by = "none", !.rules = NoRules]
  <2>1. /\ DOMAIN to = DOMAIN Idle /\ to.pc = "left" /\ to.kind = s.kind /\ to.todo = {}
        /\ to.left = s.left \cup rest /\ to.fresh = s.fresh
    BY <1>1, IdleShape
  <2> HIDE DEF to
  <2>2. CASE s.mine
    <3>1. at' = [at EXCEPT ![r] = to] /\ stored' = stored /\ globals' = globals /\ UNCHANGED session
      BY <1>22, <2>2 DEF Raises, Go, to
    <3> QED BY <1>20, <1>22, <2>1, <3>1
  <2>3. CASE ~ s.mine
    BY <1>22, <2>3, Ends DEF Raises, Go
  <2> QED BY <2>2, <2>3
<1>3. CASE ReadRules(r)
  <2> DEFINE to == [s EXCEPT !.pc = "next", !.rules = [d \in Descriptor |->
                      IF Sees(r)[Rule(s.house, d)] = NoRow THEN NoRow
                      ELSE Sees(r)[Rule(s.house, d)].category]]
  <2>1. /\ at' = [at EXCEPT ![r] = to] /\ stored' = stored /\ globals' = globals /\ UNCHANGED session
        /\ s.pc = "rules"
    BY <1>3 DEF ReadRules, Go
  <2>2. DOMAIN to = DOMAIN Idle /\ to.pc = "next" /\ to.kind = s.kind /\ to.todo = s.todo
        /\ to.fresh = s.fresh /\ to.left = s.left
    BY <1>1, IdleShape
  <2> HIDE DEF to
  <2>3. s.kind = "sync"
    BY <1>1, <2>1 DEF LocalOK
  <2> QED BY <1>20, <2>1, <2>2, <2>3
<1>4. ASSUME NEW t \in Txn, ByUserRule(r, t)
      PROVE  IInv'
  <2>1. /\ Go(r, Done(s, t))
        /\ Enrich(r, t, "user_rule", s.rules[Descr[t]]) /\ s.pc = "next" /\ t \in s.todo
    BY <1>4 DEF ByUserRule
  <2>2. s.kind = "sync"
    BY <1>1, <2>1 DEF LocalOK
  <2> QED BY <1>21, <2>1, <2>2
<1>5. ASSUME NEW t \in Txn, ByGlobalRule(r, t)
      PROVE  IInv'
  <2> DEFINE to == [s EXCEPT !.pc = "named", !.txn = t, !.by = "global_rule",
                             !.category = GlobalRule[Descr[t]]]
  <2>1. /\ at' = [at EXCEPT ![r] = to] /\ stored' = stored /\ globals' = globals
        /\ \E m \in Merchant \cup {NoRow} : Naming(r, m)
        /\ s.pc = "next" /\ t \in s.todo
    BY <1>5 DEF ByGlobalRule, Go
  <2>2. DOMAIN to = DOMAIN Idle /\ to.pc = "named" /\ to.kind = s.kind /\ to.todo = s.todo
        /\ to.fresh = s.fresh /\ to.left = s.left /\ to.txn = t
    BY <1>1, IdleShape
  <2> HIDE DEF to
  <2>3. s.kind = "sync"
    BY <1>1, <2>1 DEF LocalOK
  <2> QED BY <2>1, <2>2, <2>3, NamingNames, SyncReads
<1>6. ASSUME NEW t \in Txn, Match(r, t)
      PROVE  IInv'
  <2> DEFINE to == [s EXCEPT !.pc = "ask", !.txn = t]
  <2>1. s.pc = "next" /\ t \in s.todo /\ s.kind = "sync"
    BY <1>1, <1>6 DEF Match, LocalOK
  <2>2. ASSUME NEW x, Enrich(r, t, "machine", x[2]), Go(r, Done(s, t))
        PROVE  IInv'
    BY <1>21, <2>1, <2>2
  <2>3. ASSUME UNCHANGED session, Go(r, to)
        PROVE  IInv'
    <3>1. DOMAIN to = DOMAIN Idle /\ to.pc = "ask" /\ to.kind = s.kind /\ to.todo = s.todo
          /\ to.fresh = s.fresh /\ to.left = s.left /\ to.txn = t
      BY <1>1, IdleShape
    <3>2. at' = [at EXCEPT ![r] = to] /\ stored' = stored /\ globals' = globals
      BY <2>3 DEF Go
    <3> HIDE DEF to
    <3> QED BY <1>20, <2>1, <2>3, <3>1, <3>2
  <2> QED BY <1>6, <2>2, <2>3 DEF Match
<1>7. CASE LlmAnswers(r)
  <2>1. s.pc = "ask" /\ s.kind = "sync" /\ s.txn \in s.todo
    BY <1>1, <1>7 DEF LlmAnswers, LocalOK
  <2>2. ASSUME Enrich(r, s.txn, "unresolved", NoRow), Go(r, Done(s, s.txn))
        PROVE  IInv'
    BY <1>21, <2>1, <2>2
  <2>3. ASSUME NEW c, NEW m, Naming(r, m),
               Go(r, [s EXCEPT !.pc = "named", !.by = "llm", !.category = c])
        PROVE  IInv'
    <3> DEFINE to == [s EXCEPT !.pc = "named", !.by = "llm", !.category = c]
    <3>1. DOMAIN to = DOMAIN Idle /\ to.pc = "named" /\ to.kind = s.kind /\ to.todo = s.todo
          /\ to.fresh = s.fresh /\ to.left = s.left /\ to.txn = s.txn
      BY <1>1, IdleShape
    <3>2. at' = [at EXCEPT ![r] = to] /\ stored' = stored /\ globals' = globals
      BY <2>3 DEF Go
    <3> HIDE DEF to
    <3> QED BY <2>1, <2>3, <3>1, <3>2, NamingNames, SyncReads
  <2>4. ASSUME Raises(r, s.todo)
        PROVE  IInv'
    BY <1>22, <2>1, <2>4
  <2> QED BY <1>7, <2>2, <2>3, <2>4 DEF LlmAnswers
<1>8. CASE AddNamed(r)
  <2> DEFINE to == [s EXCEPT !.pc = "index"]
  <2>1. /\ at' = [at EXCEPT ![r] = to] /\ stored' = stored /\ globals' = globals
        /\ Enrich(r, s.txn, "machine", s.category) /\ s.pc = "named" /\ s.kind = "sync"
    BY <1>8 DEF AddNamed, Go
  <2>2. DOMAIN to = DOMAIN Idle /\ to.pc = "index" /\ to.kind = s.kind /\ to.todo = s.todo
        /\ to.fresh = s.fresh /\ to.left = s.left
    BY <1>1, IdleShape
  <2> HIDE DEF to
  <2>3. s.txn \in s.todo
    BY <1>1, <2>1 DEF LocalOK
  <2> QED BY <2>1, <2>2, <2>3, SyncEnriches
<1>9. CASE IndexGlobal(r)
  <2> DEFINE d == Descr[s.txn]
             to == [Done(s, s.txn) EXCEPT !.fresh = @ \cup {d}]
  <2>1. s.kind = "sync"
    BY <1>9 DEF IndexGlobal
  <2>2. ASSUME globals[d] + (IF d \in s.fresh THEN 1 ELSE 0) = 0, UNCHANGED session, Go(r, to)
        PROVE  IInv'
    <3>1. DOMAIN to = DOMAIN Idle /\ to.pc = "next" /\ to.kind = s.kind
          /\ to.todo = s.todo \ {s.txn} /\ to.left = s.left /\ to.fresh = s.fresh \cup {d}
      <4> DEFINE done == Done(s, s.txn)
      <4>1. /\ DOMAIN done = DOMAIN Idle /\ done.pc = "next" /\ done.kind = s.kind
            /\ done.todo = s.todo \ {s.txn} /\ done.left = s.left /\ done.fresh = s.fresh
        BY <1>1, DoneIs
      <4>2. to = [done EXCEPT !.fresh = @ \cup {d}]
        OBVIOUS
      <4> HIDE DEF done, to
      <4> QED BY <4>1, <4>2, IdleShape
    <3>2. at' = [at EXCEPT ![r] = to] /\ stored' = stored /\ globals' = globals
      BY <2>2 DEF Go
    <3> HIDE DEF to
    <3>3. d \in Descriptor => globals[d] = 0 \/ d \in s.fresh
      <4>1. CASE d \in s.fresh
        BY <4>1
      <4>2. CASE d \notin s.fresh
        <5>1. d \in Descriptor => globals[d] \in Nat
          BY DEF IInv, Shapes
        <5> HIDE DEF d
        <5> QED BY <2>2, <4>2, <5>1
      <4> QED BY <4>1, <4>2
    <3>4. ASSUME NEW e \in to.fresh \cap Descriptor PROVE e \in s.fresh \/ globals[e] = 0
      BY <3>1, <3>3, <3>4
    <3>5. to.todo \cup to.left \subseteq s.todo \cup s.left
      BY <3>1
    <3> QED BY <1>20, <2>1, <2>2, <3>1, <3>2, <3>4, <3>5
  <2>3. ASSUME UNCHANGED session, Go(r, Done(s, s.txn))
        PROVE  IInv'
    <3> DEFINE done == Done(s, s.txn)
    <3>1. at' = [at EXCEPT ![r] = done] /\ stored' = stored /\ globals' = globals
      BY <2>3 DEF Go
    <3>2. /\ DOMAIN done = DOMAIN Idle /\ done.pc = "next" /\ done.kind = s.kind
          /\ done.todo \subseteq s.todo /\ done.fresh = s.fresh /\ done.left = s.left
      BY <1>1, DoneIs
    <3> HIDE DEF done
    <3> QED BY <1>20, <2>1, <2>3, <3>1, <3>2
  <2>4. ASSUME Raises(r, s.todo \ {s.txn})
        PROVE  IInv'
    BY <1>22, <2>1, <2>4
  <2> QED BY <1>9, <2>2, <2>3, <2>4 DEF IndexGlobal
<1>10. CASE IndexAnswer(r)
  <2> DEFINE done == Done(s, s.txn)
  <2>1. /\ at' = [at EXCEPT ![r] = done] /\ stored' = stored /\ globals' = globals
        /\ IndexFor(r, s.house, Descr[s.txn], s.category) /\ s.kind = "sync"
    BY <1>10 DEF IndexAnswer, Go
  <2>2. /\ DOMAIN done = DOMAIN Idle /\ done.pc = "next" /\ done.kind = s.kind
        /\ done.todo \subseteq s.todo /\ done.fresh = s.fresh /\ done.left = s.left
    BY <1>1, DoneIs
  <2> HIDE DEF done
  <2>3. /\ Only(r) /\ held'[r] = held[r]
        /\ \A t \in Txn : Enriched(t) \notin DOMAIN want'[r]
    BY <2>1, IndexForIndexes
  <2> QED BY <2>1, <2>2, <2>3, SyncReads
<1> QED BY <1>3, <1>4, <1>5, <1>6, <1>7, <1>8, <1>9, <1>10

\* sync-mine goes on to the next connection with what the session has.
LEMMA NextStep ==
    ASSUME IInv, NEW r \in Req, Clean(r), NEW h \in House, NEW new \in SUBSET Txn,
           NextConnection(r, h, new)
    PROVE  IInv'
<1> DEFINE s == at[r]
           to == [s EXCEPT !.pc = "seed", !.house = h, !.todo = new]
<1>1. RequestOK(r) /\ DOMAIN s = DOMAIN Idle /\ s.pc = "left" /\ s.kind = "sync"
  BY DEF IInv, RequestOK, LocalOK, NextConnection
<1>2. /\ at' = [at EXCEPT ![r] = to] /\ stored' = stored /\ globals' = globals /\ UNCHANGED session
      /\ new \cap stored = {}
      /\ \A q \in Req : at[q].kind = "sync" =>
           /\ new \cap (at[q].todo \cup at[q].left) = {}
           /\ \A t \in new : Enriched(t) \notin DOMAIN held[q]
  BY DEF NextConnection, Unseen, Go
<1>3. /\ DOMAIN to = DOMAIN Idle /\ to.pc = "seed" /\ to.kind = "sync" /\ to.todo = new
      /\ to.left = s.left /\ to.fresh = s.fresh
  BY <1>1, IdleShape
<1> HIDE DEF to
<1>4. Only(r) /\ want'[r] = want[r] /\ held'[r] = held[r] /\ at'[r] = to
  BY <1>2, Sessions DEF IInv, Shapes
<1>5. Kept(r)' = Kept(r) /\ Claimed(r)' \subseteq Claimed(r) \cup new
  BY <1>1, <1>3, <1>4 DEF Kept, Claimed
<1>6. LocalOK(r)' /\ ListOK(r)' /\ CorrectOK(r)'
  BY <1>3, <1>4 DEF LocalOK, ListOK, CorrectOK, Kind
<1>7. SyncOK(r)'
  BY <1>1, <1>2, <1>3, <1>4, <1>5 DEF RequestOK, SyncOK
<1>8. RowsOK(r)'
  BY <1>1, <1>3, <1>4, <1>5 DEF RequestOK, SyncOK, RowsOK, Kept
<1>9. ASSUME NEW q \in Req \ {r}
      PROVE  Kept(r)' \cap Kept(q) = {} /\ Claimed(r)' \cap Claimed(q) = {}
  <2>1. new \cap Claimed(q) = {}
    BY <1>2 DEF Claimed, Kept
  <2> QED BY <1>5, <2>1 DEF IInv, Apart
<1>10. \A d \in to.fresh \cap Descriptor : d \in at[r].fresh \/ globals[d] = 0
  BY <1>3
<1> QED BY <1>2, <1>4, <1>6, <1>7, <1>8, <1>9, <1>10, SessionStep DEF RequestOK

-----------------------------------------------------------------------------
(* The steps of corrections.                                               *)

LEMMA CorrectionStep ==
    ASSUME IInv, NEW r \in Req, Clean(r),
           \/ CorrectRow(r) \/ CorrectRule(r) \/ IndexCorrection(r) \/ ReadMatching(r)
           \/ Reapply(r)
    PROVE  IInv'
<1> DEFINE s == at[r]
<1>1. RequestOK(r) /\ DOMAIN s = DOMAIN Idle
  BY DEF IInv, RequestOK, LocalOK
<1>2. \A t \in Txn : Enriched(t) \notin DOMAIN want[r]
  BY DEF Clean, Nothing
<1>3. s.kind = "correct" /\ s.pc # "store"
  BY <1>1 DEF RequestOK, LocalOK, CorrectRow, CorrectRule, IndexCorrection, ReadMatching, Reapply
<1>4. s.txn \in stored /\ s.todo \subseteq Alike(s.txn) \cap stored
  BY <1>1, <1>3 DEF RequestOK, CorrectOK
<1>5. CASE CorrectRow(r)
  <2> DEFINE to == [s EXCEPT !.pc = "rule"]
             new == [stage |-> "user_correction", category |-> s.category]
             W == Becomes(Enriched(s.txn), Sees(r)[Enriched(s.txn)], new)
  <2>1. /\ at' = [at EXCEPT ![r] = to] /\ stored' = stored /\ globals' = globals
        /\ Pend(r, W) /\ s.pc = "correct"
    BY <1>5 DEF CorrectRow, Go
  <2>2. /\ DOMAIN to = DOMAIN Idle /\ to.pc = "rule" /\ to.kind = s.kind /\ to.todo = s.todo
        /\ to.fresh = s.fresh /\ to.left = s.left /\ to.txn = s.txn /\ to.behind = s.behind
    BY <1>1, IdleShape
  <2>3. /\ DOMAIN W \subseteq {Enriched(s.txn)}
        /\ Enriched(s.txn) \in DOMAIN W => W[Enriched(s.txn)].new = new
    BY BecomesOnly
  <2>4. DOMAIN new = Shape /\ new.stage = "user_correction"
    BY DEF Shape
  <2> HIDE DEF to, W, new
  <2>5. Only(r) /\ held'[r] = held[r] /\ want'[r] = W
    BY <2>1, Sessions
  <2>6. \A t \in Txn : Enriched(t) \notin DOMAIN held[r]
    BY <1>1, <1>3, <2>1 DEF RequestOK, CorrectOK, Touched
  <2>7. \A t \in Txn : Enriched(t) \in DOMAIN W => t = s.txn
    BY <2>3, RowNames
  <2>8. \A t \in Txn : Enriched(t) \in DOMAIN want'[r] =>
             /\ t \in stored /\ t = to.txn /\ Enriched(t) \notin DOMAIN held[r]
             /\ DOMAIN want'[r][Enriched(t)].new = Shape
             /\ want'[r][Enriched(t)].new.stage = "user_correction"
    BY <1>4, <2>2, <2>3, <2>4, <2>5, <2>6, <2>7
  <2> QED BY <1>3, <1>4, <2>1, <2>2, <2>5, <2>8, CorrectStep
<1>6. ASSUME NEW to, at' = [at EXCEPT ![r] = to], stored' = stored, globals' = globals,
             DOMAIN to = DOMAIN Idle, to.kind = s.kind, to.txn = s.txn, to.behind = s.behind,
             to.fresh = s.fresh, to.left = s.left, to.todo \subseteq Alike(s.txn) \cap stored,
             to.pc \in {"index", "match", "reapply", "store"},
             Only(r), held'[r] = held[r], \A t \in Txn : Enriched(t) \notin DOMAIN want'[r]
      PROVE  IInv'
  BY <1>3, <1>6, CorrectStep
<1>7. CASE CorrectRule(r)
  <2> DEFINE to == [s EXCEPT !.pc = "index"]
             rule == Rule(s.house, Descr[s.txn])
             W == Becomes(rule, Sees(r)[rule], [category |-> s.category])
  <2>1. /\ at' = [at EXCEPT ![r] = to] /\ stored' = stored /\ globals' = globals /\ Pend(r, W)
    BY <1>7 DEF CorrectRule, Go
  <2>2. /\ DOMAIN to = DOMAIN Idle /\ to.pc = "index" /\ to.kind = s.kind /\ to.todo = s.todo
        /\ to.fresh = s.fresh /\ to.left = s.left /\ to.txn = s.txn /\ to.behind = s.behind
    BY <1>1, IdleShape
  <2>3. DOMAIN W \subseteq {rule}
    BY BecomesOnly
  <2> HIDE DEF to, W
  <2>4. Only(r) /\ held'[r] = held[r] /\ want'[r] = W
    BY <2>1, Sessions
  <2>5. \A t \in Txn : Enriched(t) \notin DOMAIN want'[r]
    BY <2>3, <2>4, RowNames
  <2> QED BY <1>4, <1>6, <2>1, <2>2, <2>4, <2>5
<1>8. CASE IndexCorrection(r)
  <2> DEFINE to == [s EXCEPT !.pc = "match"]
  <2>1. /\ at' = [at EXCEPT ![r] = to] /\ stored' = stored /\ globals' = globals
        /\ IndexFor(r, s.house, Descr[s.txn], s.category)
    BY <1>8 DEF IndexCorrection, Go
  <2>2. /\ DOMAIN to = DOMAIN Idle /\ to.pc = "match" /\ to.kind = s.kind /\ to.todo = s.todo
        /\ to.fresh = s.fresh /\ to.left = s.left /\ to.txn = s.txn /\ to.behind = s.behind
    BY <1>1, IdleShape
  <2> HIDE DEF to
  <2> QED BY <1>4, <1>6, <2>1, <2>2, IndexForIndexes
<1>9. CASE ReadMatching(r)
  <2> DEFINE matching == Alike(s.txn) \cap stored
             to == [s EXCEPT !.pc = IF matching = {} THEN "store" ELSE "reapply", !.todo = matching]
  <2>1. /\ at' = [at EXCEPT ![r] = to] /\ stored' = stored /\ globals' = globals /\ UNCHANGED session
    BY <1>9 DEF ReadMatching, Go
  <2>2. /\ DOMAIN to = DOMAIN Idle /\ to.pc \in {"store", "reapply"} /\ to.kind = s.kind
        /\ to.todo = matching /\ to.fresh = s.fresh /\ to.left = s.left /\ to.txn = s.txn
        /\ to.behind = s.behind
    BY <1>1, IdleShape
  <2> HIDE DEF to
  <2>3. Only(r) /\ held'[r] = held[r] /\ want'[r] = want[r]
    BY <2>1, Sessions
  <2> QED BY <1>2, <1>6, <2>1, <2>2, <2>3
<1>10. CASE Reapply(r)
  <2> DEFINE to == [s EXCEPT !.pc = "store", !.todo = {}]
             rows == {x \in {Enriched(y) : y \in s.todo} :
                        Sees(r)[x] # NoRow => Sees(r)[x].stage # "user_correction"}
             new == [stage |-> "user_rule", category |-> s.category]
             W == Changes(rows, Sees(r), [x \in rows |-> new])
  <2>1. /\ at' = [at EXCEPT ![r] = to] /\ stored' = stored /\ globals' = globals
        /\ Pend(r, W) /\ s.pc = "reapply"
    BY <1>10 DEF Reapply, Go
  <2>2. /\ DOMAIN to = DOMAIN Idle /\ to.pc = "store" /\ to.kind = s.kind /\ to.todo = {}
        /\ to.fresh = s.fresh /\ to.left = s.left /\ to.txn = s.txn /\ to.behind = s.behind
    BY <1>1, IdleShape
  <2>3. DOMAIN new = Shape
    BY DEF Shape
  <2> HIDE DEF new
  <2>4. DOMAIN W \subseteq rows /\ \A x \in DOMAIN W : W[x].new = new
    BY DEF Changes, Change
  <2>5. ASSUME NEW t \in Txn, Enriched(t) \in rows
        PROVE  /\ t \in stored /\ t \in Alike(s.txn) /\ t # s.txn
               /\ Enriched(t) \notin DOMAIN held[r] /\ ~ Corrected(db[Enriched(t)])
    <3>1. t \in s.todo
      BY <2>5, RowNames
    <3>2. t \in stored /\ t \in Alike(s.txn) /\ t # s.txn
      BY <1>4, <3>1 DEF Alike
    <3>3. Enriched(t) \notin DOMAIN held[r]
      BY <1>1, <1>3, <2>1, <3>2 DEF RequestOK, CorrectOK, Touched
    <3>4. Sees(r)[Enriched(t)] = db[Enriched(t)]
      BY <3>3, RowNames DEF Sees
    <3> QED BY <2>5, <3>2, <3>3, <3>4 DEF Corrected
  <2> HIDE DEF to, W, rows
  <2>6. Only(r) /\ held'[r] = held[r] /\ want'[r] = W
    BY <2>1, Sessions
  <2>7. \A t \in Txn : Enriched(t) \in DOMAIN want'[r] =>
             /\ t \in stored /\ t \in Alike(to.txn) /\ t # to.txn
             /\ Enriched(t) \notin DOMAIN held[r]
             /\ DOMAIN want'[r][Enriched(t)].new = Shape
             /\ ~ Corrected(db[Enriched(t)])
    BY <2>2, <2>3, <2>4, <2>5, <2>6
  <2> QED BY <1>3, <2>1, <2>2, <2>6, <2>7, CorrectStep
<1> QED BY <1>5, <1>7, <1>8, <1>9, <1>10
-----------------------------------------------------------------------------
(* Flushes, failures and commits.                                          *)

LEMMA FlushStep ==
    ASSUME IInv, NEW r \in Req, Send(r)
    PROVE  IInv'
<1> DEFINE s == at[r]
<1>1. RequestOK(r) /\ StoredOK /\ s.kind \in Kind
  BY DEF IInv, RequestOK, LocalOK
<1>2. at' = at /\ stored' = stored /\ globals' = globals /\ Flush(r)
  BY DEF Send
<1>3. PICK row \in DOMAIN want[r] :
        /\ ~ Locked(r, row) /\ db' = db
        /\ held' = [held EXCEPT ![r] = [x \in DOMAIN @ \cup {row} |->
                      IF x = row THEN Sent(want[r][row], Sees(r)[row]) ELSE @[x]]]
        /\ want' = [want EXCEPT ![r] = [x \in DOMAIN @ \ {row} |-> @[x]]]
  BY <1>2 DEF Flush
<1> DEFINE sent == Sent(want[r][row], Sees(r)[row])
<1>4. /\ Only(r) /\ at'[r] = s
      /\ DOMAIN held'[r] = DOMAIN held[r] \cup {row} /\ DOMAIN want'[r] = DOMAIN want[r] \ {row}
      /\ held'[r][row] = sent
      /\ \A x \in DOMAIN held[r] \ {row} : held'[r][x] = held[r][x]
      /\ \A x \in DOMAIN want'[r] : want'[r][x] = want[r][x]
  BY <1>2, <1>3 DEF IInv, Shapes, Only
<1>5. Touched(r)' = Touched(r)
  BY <1>4 DEF Touched
<1>6. \A t \in Txn : row = Enriched(t) => s.kind = "correct"
  BY <1>1 DEF RequestOK, ListOK, SyncOK, Kind, Touched
<1>7. Kept(r)' = Kept(r) \cup {t \in Txn : Enriched(t) = row}
  BY <1>4 DEF Kept
<1>8. LocalOK(r)' /\ ListOK(r)'
  BY <1>1, <1>4, <1>5 DEF RequestOK, LocalOK, ListOK
<1>9. SyncOK(r)' /\ Claimed(r)' = Claimed(r)
  <2>1. CASE s.kind = "sync"
    <3>1. Kept(r)' = Kept(r)
      BY <1>6, <1>7, <2>1
    <3> QED BY <1>1, <1>2, <1>4, <3>1, <2>1 DEF RequestOK, SyncOK, Claimed
  <2>2. CASE s.kind # "sync"
    BY <1>4, <2>2 DEF SyncOK, Claimed
  <2> QED BY <2>1, <2>2
<1>10. CorrectOK(r)'
  BY <1>1, <1>2, <1>4, <1>5 DEF RequestOK, CorrectOK
<1>11. ASSUME NEW t \in Txn, row = Enriched(t)
       PROVE  /\ DOMAIN sent = Shape
              /\ sent.stage # "user_correction" /\ Corrected(db[Enriched(t)]) =>
                    Enriched(t) \in s.behind
  <2> DEFINE change == want[r][row]
  <2>1. /\ row \notin DOMAIN held[r] /\ DOMAIN change.new = Shape
        /\ IF t = s.txn THEN change.new.stage = "user_correction"
           ELSE Corrected(db[row]) => row \in s.behind
    BY <1>1, <1>11 DEF RequestOK, RowsOK
  <2>2. Sees(r)[row] = db[row]
    BY <1>11, <2>1, RowNames DEF Sees
  <2>3. db[row] = NoRow \/ DOMAIN db[row] = Shape
    BY <1>1, <1>11 DEF StoredOK
  <2>4. sent = Sent(change, db[row])
    BY <2>2
  <2> HIDE DEF change, sent
  <2>5. /\ DOMAIN sent = Shape
        /\ sent.stage = change.new.stage \/ (db[row] # NoRow /\ sent.stage = db[row].stage)
    <3>1. CASE db[row] = NoRow \/ change.new = NoRow
      BY <2>1, <2>4, <3>1 DEF Sent
    <3>2. CASE ~ (db[row] = NoRow \/ change.new = NoRow)
      <4>1. sent = [f \in Shape |-> IF change.was[f] = change.new[f] THEN db[row][f]
                                    ELSE change.new[f]]
        BY <2>3, <2>4, <3>2 DEF Sent
      <4>2. "stage" \in Shape
        BY DEF Shape
      <4> QED BY <3>2, <4>1, <4>2
    <3> QED BY <3>1, <3>2
  <2>6. CASE t = s.txn
    BY <2>1, <2>5, <2>6, <1>11 DEF Corrected
  <2>7. CASE t # s.txn
    BY <2>1, <2>5, <2>7, <1>11
  <2> QED BY <2>6, <2>7
<1> HIDE DEF sent
<1>12. RowsOK(r)'
  <2>1. ASSUME NEW t \in Txn, Enriched(t) \in DOMAIN want'[r]
        PROVE  /\ Enriched(t) \notin DOMAIN held'[r]
               /\ DOMAIN want'[r][Enriched(t)].new = Shape
               /\ IF t = s.txn THEN want'[r][Enriched(t)].new.stage = "user_correction"
                  ELSE Corrected(db[Enriched(t)]) => Enriched(t) \in s.behind
    <3>1. Enriched(t) \in DOMAIN want[r] /\ Enriched(t) # row
          /\ want'[r][Enriched(t)] = want[r][Enriched(t)]
      BY <1>4, <2>1
    <3>2. Enriched(t) \notin DOMAIN held[r]
      BY <1>1, <3>1 DEF RequestOK, RowsOK
    <3>3. Enriched(t) \notin DOMAIN held'[r]
      BY <1>4, <3>1, <3>2
    <3> QED BY <1>1, <3>1, <3>3 DEF RequestOK, RowsOK
  <2>2. ASSUME NEW t \in Kept(r)'
        PROVE  /\ DOMAIN held'[r][Enriched(t)] = Shape
               /\ s.kind = "correct" /\ held'[r][Enriched(t)].stage # "user_correction" =>
                    (Corrected(db[Enriched(t)]) => Enriched(t) \in s.behind)
    <3>1. CASE Enriched(t) = row
      BY <1>4, <1>11, <2>2, <3>1 DEF Kept
    <3>2. CASE Enriched(t) # row
      <4>1. t \in Kept(r) /\ held'[r][Enriched(t)] = held[r][Enriched(t)]
        BY <1>4, <1>7, <2>2, <3>2 DEF Kept
      <4> QED BY <1>1, <4>1 DEF RequestOK, RowsOK
    <3> QED BY <3>1, <3>2
  <2> QED BY <1>2, <1>3, <2>1, <2>2 DEF RowsOK
<1>13. ASSUME NEW q \in Req \ {r}
       PROVE  Kept(r)' \cap Kept(q) = {} /\ Claimed(r)' \cap Claimed(q) = {}
  <2>1. Kept(r) \cap Kept(q) = {} /\ Claimed(r) \cap Claimed(q) = {}
    BY DEF IInv, Apart
  <2>2. \A t \in Txn : Enriched(t) = row => t \notin Kept(q)
    BY <1>3 DEF Locked, Kept
  <2> QED BY <1>7, <1>9, <2>1, <2>2
<1>14. at' = [at EXCEPT ![r] = s]
  BY <1>2 DEF IInv, Shapes
<1>15. RequestOK(r)'
  BY <1>8, <1>9, <1>10, <1>12 DEF RequestOK
<1>16. \A d \in s.fresh \cap Descriptor : d \in at[r].fresh \/ globals[d] = 0
  OBVIOUS
<1>17. Only(r)
  BY <1>4
<1> HIDE DEF s
<1> QED BY <1>2, <1>13, <1>14, <1>15, <1>16, <1>17, SessionStep

LEMMA FailStep ==
    ASSUME IInv, NEW r \in Req, Fail(r)
    PROVE  IInv'
BY Ends DEF Fail, FlushFails, DeadlockVictim, Go

\* What a commit makes of the enrichments, and of the other requests.
LEMMA CommitStores ==
    ASSUME IInv, NEW r \in Req, Commit(r)
    PROVE  /\ \A t \in Txn : db'[Enriched(t)] = IF t \in Kept(r) THEN held[r][Enriched(t)]
                                                ELSE db[Enriched(t)]
           /\ stored' = stored \cup Kept(r) \cup at[r].left
           /\ want' = want /\ want[r] = Nothing /\ held' = [held EXCEPT ![r] = Nothing]
           /\ at' = [q \in Req |-> at'[q]] /\ at'[r] = Idle
           /\ \A q \in Req \ {r} :
                at'[q] = [at[q] EXCEPT !.behind = @ \cup (DOMAIN held[r] \cap GoesBy(q))]
<1>1. ASSUME NEW t \in Txn
      PROVE  db'[Enriched(t)] = IF t \in Kept(r) THEN held[r][Enriched(t)] ELSE db[Enriched(t)]
  BY RowNames DEF Commit, Store, Sees, Kept
<1>2. stored' = stored \cup Kept(r) \cup at[r].left
  BY DEF Commit, Kept
<1>3. want' = want /\ want[r] = Nothing /\ held' = [held EXCEPT ![r] = Nothing]
  BY DEF Commit, Store, Clean
<1>4. at' = [q \in Req |-> IF q = r THEN Idle
               ELSE [at[q] EXCEPT !.behind = @ \cup (DOMAIN held[r] \cap GoesBy(q))]]
  BY DEF Commit
<1> QED BY <1>1, <1>2, <1>3, <1>4

\* All that it changes of another request is that it is behind.
LEMMA OthersFallBehind ==
    ASSUME IInv, NEW r \in Req, NEW q \in Req \ {r}, Commit(r)
    PROVE  /\ DOMAIN at'[q] = DOMAIN Idle
           /\ at'[q].pc = at[q].pc /\ at'[q].kind = at[q].kind /\ at'[q].txn = at[q].txn
           /\ at'[q].todo = at[q].todo /\ at'[q].left = at[q].left /\ at'[q].fresh = at[q].fresh
           /\ at[q].behind \subseteq at'[q].behind
           /\ \A x \in DOMAIN held[r] \cap GoesBy(q) : x \in at'[q].behind
           /\ at[q] = Idle => at'[q] = Idle
           /\ Kept(q)' = Kept(q) /\ Touched(q)' = Touched(q) /\ Claimed(q)' = Claimed(q)
           /\ want'[q] = want[q] /\ held'[q] = held[q]
<1>1. DOMAIN at[q] = DOMAIN Idle
  BY DEF IInv, RequestOK, LocalOK
<1> DEFINE more == DOMAIN held[r] \cap GoesBy(q)
<1>2. at'[q] = [at[q] EXCEPT !.behind = @ \cup more]
  BY CommitStores
<1>3. at[q] = Idle => more = {}
  BY IdleShape DEF GoesBy
<1> HIDE DEF more
<1>4. /\ DOMAIN at'[q] = DOMAIN Idle
      /\ at'[q].pc = at[q].pc /\ at'[q].kind = at[q].kind /\ at'[q].txn = at[q].txn
      /\ at'[q].todo = at[q].todo /\ at'[q].left = at[q].left /\ at'[q].fresh = at[q].fresh
      /\ at'[q].behind = at[q].behind \cup more
  BY <1>1, <1>2, IdleShape
<1>5. at[q] = Idle => at'[q] = Idle
  <2>1. [Idle EXCEPT !.behind = {}] = Idle
    <3>1. Idle = [f \in DOMAIN Idle |-> Idle[f]]
      BY DEF Idle
    <3>2. [Idle EXCEPT !.behind = {}] = [f \in DOMAIN Idle |-> IF f = "behind" THEN {} ELSE Idle[f]]
      OBVIOUS
    <3>3. \A f \in DOMAIN Idle : (IF f = "behind" THEN {} ELSE Idle[f]) = Idle[f]
      BY IdleShape
    <3> QED BY <3>1, <3>2, <3>3
  <2>2. ASSUME at[q] = Idle PROVE at'[q] = Idle
    <3>1. at[q].behind \cup more = {}
      BY <1>3, <2>2, IdleShape
    <3>2. at'[q] = [at[q] EXCEPT !.behind = {}]
      BY <1>2, <3>1
    <3> QED BY <2>1, <2>2, <3>2
  <2> QED BY <2>2
<1>6. want'[q] = want[q] /\ held'[q] = held[q]
  BY CommitStores DEF IInv, Shapes
<1>7. Kept(q)' = Kept(q) /\ Touched(q)' = Touched(q)
  BY <1>6 DEF Kept, Touched
<1>8. Claimed(q)' = Claimed(q)
  BY <1>4, <1>7 DEF Claimed
<1> QED BY <1>4, <1>5, <1>6, <1>7, <1>8 DEF more

LEMMA CommitStep ==
    ASSUME IInv, NEW r \in Req, Commit(r)
    PROVE  IInv'
<1> DEFINE s == at[r]
<1>1. RequestOK(r) /\ StoredOK /\ Shapes
  BY DEF IInv
<1>2. /\ at'[r] = Idle /\ DOMAIN want'[r] = {} /\ DOMAIN held'[r] = {}
      /\ at' = [q \in Req |-> at'[q]] /\ DOMAIN want' = Req /\ DOMAIN held' = Req
  BY <1>1, CommitStores DEF Shapes, Nothing
<1>3. Kept(r)' = {} /\ Touched(r)' = {} /\ Claimed(r)' = {}
  BY <1>2, IdleShape DEF Kept, Touched, Claimed
<1>4. globals' = [d \in Descriptor |-> globals[d] + IF d \in s.fresh THEN 1 ELSE 0]
  BY DEF Commit
<1>5. Shapes'
  BY <1>1, <1>2, <1>4 DEF Shapes
<1>6. StoredOK'
  <2>1. ASSUME NEW t \in Txn
        PROVE  /\ db'[Enriched(t)] = NoRow \/ DOMAIN db'[Enriched(t)] = Shape
               /\ t \notin stored' => db'[Enriched(t)] = NoRow
    <3>1. CASE t \in Kept(r)
      BY <1>1, <3>1, CommitStores DEF RequestOK, RowsOK
    <3>2. CASE t \notin Kept(r)
      BY <1>1, <3>2, CommitStores DEF StoredOK
    <3> QED BY <3>1, <3>2
  <2> QED BY <2>1 DEF StoredOK
<1>7. Apart'
  BY <1>3, OthersFallBehind DEF IInv, Apart
<1>8. ASSUME NEW d \in Descriptor
      PROVE  globals'[d] + Cardinality(Fresh(d)') <= Cardinality(Req)
  <2>1. /\ IsFiniteSet(Fresh(d)) /\ globals[d] \in Nat /\ Cardinality(Req) \in Nat
        /\ Cardinality(Fresh(d)) \in Nat
        /\ globals[d] + Cardinality(Fresh(d)) <= Cardinality(Req)
    <3>1. IsFiniteSet(Req) /\ Fresh(d) \subseteq Req
      BY RequestAssumption DEF Fresh
    <3>2. IsFiniteSet(Fresh(d))
      BY <3>1, FS_Subset
    <3> QED BY <3>1, <3>2, FS_CardinalityType DEF IInv, Shapes, Bounded
  <2>2. Fresh(d)' = Fresh(d) \ {r}
    <3>1. ASSUME NEW q \in Req PROVE d \in at'[q].fresh <=> q # r /\ d \in at[q].fresh
      <4>1. CASE q = r
        BY <1>2, <4>1, IdleShape
      <4>2. CASE q # r
        BY <4>2, OthersFallBehind
      <4> QED BY <4>1, <4>2
    <3> QED BY <3>1 DEF Fresh
  <2>3. Cardinality(Fresh(d) \ {r}) = IF r \in Fresh(d) THEN Cardinality(Fresh(d)) - 1
                                      ELSE Cardinality(Fresh(d))
    BY <2>1, FS_RemoveElement
  <2>4. CASE d \in s.fresh
    <3>1. r \in Fresh(d) /\ globals'[d] = globals[d] + 1
      BY <1>4, <2>4 DEF Fresh
    <3> QED BY <2>1, <2>2, <2>3, <3>1
  <2>5. CASE d \notin s.fresh
    <3>1. r \notin Fresh(d) /\ globals'[d] = globals[d]
      BY <1>4, <2>1, <2>5 DEF Fresh
    <3> QED BY <2>1, <2>2, <2>3, <3>1
  <2> QED BY <2>4, <2>5
<1>9. Bounded'
  BY <1>8 DEF Bounded
<1>10. RequestOK(r)'
  BY <1>2, <1>3, IdleShape
     DEF RequestOK, LocalOK, ListOK, SyncOK, CorrectOK, RowsOK, Kind
<1>11. ASSUME NEW q \in Req \ {r} PROVE RequestOK(q)'
  <2>1. RequestOK(q) /\ stored \subseteq stored'
    BY CommitStores DEF IInv
  <2>2. LocalOK(q)' /\ ListOK(q)'
    BY <2>1, OthersFallBehind, IdleShape DEF RequestOK, LocalOK, ListOK
  <2>3. SyncOK(q)'
    <3>1. Claimed(q) \cap stored' = {} \/ at[q].kind # "sync"
      <4>1. at[r].left \cap Claimed(q) = {}
        BY <1>1 DEF RequestOK, LocalOK, Claimed, IInv, Apart
      <4> QED BY <2>1, <4>1, CommitStores, OthersHaveNone DEF RequestOK, SyncOK
    <3> QED BY <2>1, <3>1, OthersFallBehind DEF RequestOK, SyncOK
  <2>4. CorrectOK(q)'
    BY <2>1, OthersFallBehind DEF RequestOK, CorrectOK
  <2>5. ASSUME NEW t \in Txn, Enriched(t) \in DOMAIN want[q]
        PROVE  /\ Enriched(t) \notin DOMAIN held[q]
               /\ DOMAIN want[q][Enriched(t)].new = Shape
               /\ IF t = at[q].txn THEN want[q][Enriched(t)].new.stage = "user_correction"
                  ELSE Corrected(db'[Enriched(t)]) => Enriched(t) \in at'[q].behind
    <3>1. CASE t \in Kept(r) /\ t # at[q].txn
      <4>1. at[q].kind = "correct"
        BY <2>1, <2>5 DEF RequestOK, LocalOK, ListOK, SyncOK, Kind, Touched
      <4>2. at[q].pc = "store" /\ t \in Alike(at[q].txn)
        BY <2>1, <2>5, <3>1, <4>1 DEF RequestOK, CorrectOK, Touched
      <4>3. Enriched(t) \in GoesBy(q)
        BY <4>1, <4>2 DEF GoesBy
      <4>4. Enriched(t) \in at'[q].behind
        BY <3>1, <4>3, OthersFallBehind DEF Kept
      <4> QED BY <2>1, <2>5, <3>1, <4>4 DEF RequestOK, RowsOK
    <3>2. CASE ~ (t \in Kept(r) /\ t # at[q].txn)
      <4>1. t # at[q].txn => db'[Enriched(t)] = db[Enriched(t)]
        BY <3>2, CommitStores
      <4> QED BY <2>1, <2>5, <4>1, OthersFallBehind DEF RequestOK, RowsOK
    <3> QED BY <3>1, <3>2
  <2>6. ASSUME NEW t \in Kept(q)
        PROVE  /\ DOMAIN held[q][Enriched(t)] = Shape
               /\ at[q].kind = "correct" /\ held[q][Enriched(t)].stage # "user_correction" =>
                    (Corrected(db'[Enriched(t)]) => Enriched(t) \in at'[q].behind)
    <3>1. t \in Txn /\ db'[Enriched(t)] = db[Enriched(t)]
      BY CommitStores, OthersHaveNone DEF Kept
    <3> QED BY <2>1, <3>1, OthersFallBehind DEF RequestOK, RowsOK
  <2>7. RowsOK(q)'
    BY <2>5, <2>6, OthersFallBehind DEF RowsOK
  <2> QED BY <2>2, <2>3, <2>4, <2>7 DEF RequestOK
<1> QED BY <1>5, <1>6, <1>7, <1>9, <1>10, <1>11 DEF IInv

-----------------------------------------------------------------------------
(* The invariant and the theorems.                                         *)

LEMMA Starts == Init => IInv
<1> SUFFICES ASSUME Init PROVE IInv
  OBVIOUS
<1>1. \A r \in Req : at[r] = Idle /\ DOMAIN want[r] = {} /\ DOMAIN held[r] = {}
  BY DEF Init, Nothing
<1>2. \A r \in Req : Kept(r) = {} /\ Touched(r) = {} /\ Claimed(r) = {}
  BY <1>1, IdleShape DEF Kept, Touched, Claimed
<1>3. Shapes
  BY DEF Init, Shapes
<1>4. StoredOK
  BY RowNames DEF Init, StoredOK
<1>5. \A r \in Req : RequestOK(r)
  BY <1>1, <1>2, IdleShape
     DEF RequestOK, LocalOK, ListOK, SyncOK, CorrectOK, RowsOK, Kind
<1>6. ASSUME NEW d \in Descriptor PROVE globals[d] + Cardinality(Fresh(d)) <= Cardinality(Req)
  <2>1. Fresh(d) = {}
    BY <1>1, IdleShape DEF Fresh
  <2>2. globals[d] = 0 /\ Cardinality(Req) \in Nat
    BY RequestAssumption, FS_CardinalityType DEF Init
  <2> QED BY <2>1, <2>2, FS_EmptySet
<1> QED BY <1>2, <1>3, <1>4, <1>5, <1>6 DEF IInv, Apart, Bounded

LEMMA AdvanceStep ==
    ASSUME IInv, NEW r \in Req, Advance(r)
    PROVE  IInv'
<1>1. CASE Clean(r) /\ Work(r)
  BY <1>1, SeedStep, CascadeStep, NextStep, CorrectionStep, CommitStep DEF Work
<1>2. CASE Send(r) \/ Fail(r)
  BY <1>2, FlushStep, FailStep
<1> QED BY <1>1, <1>2 DEF Advance

LEMMA Holds == Spec => []IInv
<1>1. ASSUME IInv, Next PROVE IInv'
  BY <1>1, BeginStep, AdvanceStep DEF Next
<1>2. ASSUME IInv, UNCHANGED vars PROVE IInv'
  BY <1>2 DEF vars, session, IInv, Shapes, StoredOK, Apart, Bounded, Fresh, RequestOK,
              LocalOK, ListOK, SyncOK, CorrectOK, RowsOK, Kept, Touched, Claimed
<1> QED BY Starts, <1>1, <1>2, PTL DEF Spec

\* The global embeddings of a descriptor, which no unique key keeps apart, are at most as
\* many as the requests that can have looked before one was stored: whoever inserts one has
\* found none, so those stored and those about to be add up to the requests.
THEOREM DuplicatesStayFew == Spec => []DuplicatesAreBounded
<1>1. ASSUME IInv, NEW d \in Descriptor PROVE globals[d] <= Cardinality(Req)
  <2>1. IsFiniteSet(Fresh(d)) /\ globals[d] \in Nat /\ Cardinality(Req) \in Nat
    BY <1>1, RequestAssumption, FS_Subset, FS_CardinalityType DEF Fresh, IInv, Shapes
  <2>2. Cardinality(Fresh(d)) \in Nat /\ globals[d] + Cardinality(Fresh(d)) <= Cardinality(Req)
    BY <1>1, <2>1, FS_CardinalityType DEF IInv, Bounded
  <2> QED BY <2>1, <2>2
<1>2. IInv => DuplicatesAreBounded
  BY <1>1 DEF DuplicatesAreBounded
<1> QED BY Holds, <1>2, PTL

\* "never overwriting another explicit correction" (docs/adr/0006-enrichment-cascade.md:33):
\* only a re-application that had read a row before its correction was stored undoes one.
THEOREM CorrectionsLast == Spec => CorrectionsStand
<1>1. ASSUME IInv, Next, NEW t \in Txn, Corrected(db[Enriched(t)]),
             db'[Enriched(t)] # db[Enriched(t)], db'[Enriched(t)].stage # "user_correction"
      PROVE  \E r \in Req : at'[r].pc = "idle" /\ Enriched(t) \in at[r].behind
  <2>1. PICK r \in Req : Begin(r) \/ Advance(r)
    BY <1>1 DEF Next
  <2>2. Commit(r)
    BY <1>1, <2>1
       DEF Begin, BeginSync, BeginCorrect, BeginList, Advance, Work, Send, Fail, session,
           SeedDefaults, ReadRules, ByUserRule, ByGlobalRule, Match, LlmAnswers, AddNamed,
           IndexGlobal, IndexAnswer, Raises, NextConnection, CorrectRow, CorrectRule, IndexCorrection, ReadMatching,
           Reapply, Naming, IndexFor, Enrich, Pend, Flush, FlushFails, DeadlockVictim, Rollback
  <2>3. t \in Kept(r) /\ db'[Enriched(t)] = held[r][Enriched(t)] /\ at'[r].pc = "idle"
    BY <1>1, <2>2, CommitStores, IdleShape
  <2>4. RequestOK(r) /\ StoredOK
    BY <1>1 DEF IInv
  <2>5. at[r].kind = "correct"
    <3>1. t \in stored
      BY <1>1, <2>4 DEF StoredOK, Corrected
    <3>2. at[r].kind # "sync"
      BY <2>3, <2>4, <3>1 DEF RequestOK, SyncOK, Claimed
    <3>3. at[r].kind # "list"
      BY <2>3, <2>4 DEF RequestOK, ListOK, Kept, Touched
    <3> QED BY <2>4, <3>2, <3>3 DEF RequestOK, LocalOK, Kind
  <2>6. Enriched(t) \in at[r].behind
    BY <1>1, <2>3, <2>4, <2>5 DEF RequestOK, RowsOK
  <2> QED BY <2>3, <2>6
<1>2. ASSUME IInv, [Next]_vars, NEW t \in Txn, Corrected(db[Enriched(t)]),
             db'[Enriched(t)] # db[Enriched(t)], db'[Enriched(t)].stage # "user_correction"
      PROVE  \E r \in Req : at'[r].pc = "idle" /\ Enriched(t) \in at[r].behind
  BY <1>1, <1>2 DEF vars, session
<1>3. IInv /\ [Next]_vars => [\A t \in Txn : Survives(t)]_vars
  BY <1>2 DEF Survives, Corrected
<1> QED BY Holds, <1>3, PTL DEF Spec, CorrectionsStand

-----------------------------------------------------------------------------
(* The invariant about rules: the types of rows, and what each request has *)
(* read of the rules, or is to make of the rows that follow one.           *)

\* What a row holds, by its kind.
Columns(x) == CASE x[1] = "enrichment" -> Decisions
                [] x[1] \in {"rule", "embedding"} -> Named
                [] OTHER -> {Exists}

Wrote(r) == DOMAIN want[r] \cup DOMAIN held[r]

Typed(r) ==
    /\ at[r] \in Local
    /\ Wrote(r) \subseteq Row
    /\ \A x \in DOMAIN held[r] : held[r][x] \in Columns(x)
    /\ \A x \in DOMAIN want[r] :
         /\ want[r][x] \in [was : Columns(x) \cup {NoRow}, new : Columns(x)]
         /\ want[r][x].was # want[r][x].new

\* The category of a rule, as ReadRules finds it.
Says(v) == IF v = NoRow THEN NoRow ELSE v.category

UserRule(c)   == [stage |-> "user_rule", category |-> c]
Correction(c) == [stage |-> "user_correction", category |-> c]

Deciding == {"next", "ask", "named", "index"}

ListRules(r) == at[r].kind = "list" => Wrote(r) \subseteq {Defaults}

\* What a session has of decisions agrees with the rules that nobody has stored since.
Agrees(r) ==
    /\ \A t \in Kept(r) :
         LET rule == Rule(Home[t], Descr[t]) IN
         rule \notin at[r].behind /\ db[rule] # NoRow =>
            held[r][Enriched(t)] = UserRule(db[rule].category)
    /\ \A h \in House, d \in Descriptor :
         Embedding(h, d) \in DOMAIN held[r] /\ Rule(h, d) \notin at[r].behind =>
            db[Rule(h, d)] = NoRow

\* An import goes by the rules of its household, and names an embedding only where none is.
SyncRules(r) ==
    LET s == at[r] IN
    s.kind = "sync" =>
        /\ s.house \in House
        /\ s.pc \in {"seed", "rules", "left"} \cup Deciding
        /\ s.pc \in {"seed", "rules", "left"} => DOMAIN want[r] \subseteq {Defaults}
        /\ \A t \in s.todo : Home[t] = s.house
        /\ \A h \in House, d \in Descriptor :
             /\ Rule(h, d) \notin Wrote(r)
             /\ Embedding(h, d) \in DOMAIN want[r] => h = s.house /\ s.rules[d] = NoRow
        /\ s.pc \in Deciding => \A d \in Descriptor :
             Rule(s.house, d) \notin s.behind => s.rules[d] = Says(db[Rule(s.house, d)])
        /\ s.pc \in {"ask", "named", "index"} => s.txn \in Txn /\ s.rules[Descr[s.txn]] = NoRow
        /\ s.pc \in {"named", "index"} => s.category \in Category
        /\ Agrees(r)

\* What is stored of row x when r is: v, unless another request stores x first.
Becoming(r, x, v) ==
    x \notin at[r].behind =>
        IF x \in DOMAIN want[r] THEN want[r][x].new = v
        ELSE IF x \in DOMAIN held[r] THEN held[r][x] = v
        ELSE db[x] = v

\* Of an enrichment the columns that stay are not sent: they are still what was loaded.
Loaded(r, x) ==
    x \in DOMAIN want[r] /\ x \notin at[r].behind => db[x] = want[r][x].was

Settled(v, c) == v # NoRow /\ (v.stage = "user_correction" \/ v = UserRule(c))

Following(r, x, c) ==
    x \notin at[r].behind =>
        IF x \in Wrote(r) THEN Becoming(r, x, UserRule(c)) ELSE Settled(db[x], c)

CorrectRules(r) ==
    LET s == at[r]
        d == Descr[s.txn]
    IN
    s.kind = "correct" =>
        /\ s.category \in Category /\ s.house = Home[s.txn]
        /\ \A h \in House, e \in Descriptor :
             Rule(h, e) \in Wrote(r) \/ Embedding(h, e) \in Wrote(r) => h = s.house /\ e = d
        /\ s.pc # "correct" => Becoming(r, Enriched(s.txn), Correction(s.category))
        /\ s.pc \notin {"correct", "rule"} =>
             Becoming(r, Rule(s.house, d), [category |-> s.category])
        /\ s.pc \in {"match", "reapply", "store"} =>
             Becoming(r, Embedding(s.house, d), [category |-> s.category])
        /\ s.pc = "reapply" => \A x \in Alike(s.txn) \cap stored :
             x \in s.todo \/ Enriched(x) \in s.behind \/ x \in skipped
        /\ s.pc = "store" => \A x \in Alike(s.txn) \cap stored :
             \/ Following(r, Enriched(x), s.category)
             \/ x \in skipped /\ Enriched(x) \notin Wrote(r)
        /\ \A x \in Txn : Loaded(r, Enriched(x))

RequestRules(r) == Typed(r) /\ ListRules(r) /\ SyncRules(r) /\ CorrectRules(r)

TablesOK ==
    /\ db = [x \in Row |-> db[x]] /\ \A x \in Row : db[x] \in Columns(x) \cup {NoRow}
    /\ bank \in Feeds /\ stored \subseteq Txn
    /\ corrections \in 0..MaxWork
    /\ raced \subseteq Row /\ skipped \subseteq Txn

RInv == TablesOK /\ RulesWin /\ \A r \in Req : RequestRules(r)

-----------------------------------------------------------------------------
(* Rows, and what a session writes.                                        *)

LEMMA RowKinds ==
    /\ \A t, u : Enriched(t) = Enriched(u) => t = u
    /\ \A h, d, g, e : Rule(h, d) = Rule(g, e) \/ Embedding(h, d) = Embedding(g, e) => h = g /\ d = e
    /\ \A h, d, g, e : Rule(h, d) # Embedding(g, e)
    /\ \A t, h, d : Enriched(t) # Rule(h, d) /\ Enriched(t) # Embedding(h, d)
    /\ \A t, m : Enriched(t) # MerchantRow(m)
    /\ \A t : Enriched(t) # Defaults
    /\ \A h, d, m : Rule(h, d) # MerchantRow(m) /\ Embedding(h, d) # MerchantRow(m)
    /\ \A h, d : Rule(h, d) # Defaults /\ Embedding(h, d) # Defaults
    /\ \A m : MerchantRow(m) # Defaults
BY DEF Enriched, Rule, Embedding, MerchantRow, Defaults

LEMMA RowMembers ==
    /\ \A t \in Txn : Enriched(t) \in Row
    /\ \A h \in House, d \in Descriptor : Rule(h, d) \in Row /\ Embedding(h, d) \in Row
    /\ \A m \in Merchant : MerchantRow(m) \in Row
    /\ Defaults \in Row
    /\ \A x \in Row : \/ \E t \in Txn : x = Enriched(t)
                      \/ \E h \in House, d \in Descriptor : x = Rule(h, d) \/ x = Embedding(h, d)
                      \/ \E m \in Merchant : x = MerchantRow(m)
                      \/ x = Defaults
BY RowAssumption DEF Rows

LEMMA RowColumns ==
    /\ \A t : Columns(Enriched(t)) = Decisions
    /\ \A h, d : Columns(Rule(h, d)) = Named /\ Columns(Embedding(h, d)) = Named
    /\ \A m : Columns(MerchantRow(m)) = {Exists}
    /\ Columns(Defaults) = {Exists}
BY DEF Columns, Enriched, Rule, Embedding, MerchantRow, Defaults

LEMMA ColumnsFit ==
    ASSUME NEW x \in Row
    PROVE  /\ NoRow \notin Columns(x)
           /\ \/ Columns(x) = Decisions /\ \E t \in Txn : x = Enriched(t)
              \/ Columns(x) \in {Named, {Exists}} \ {Decisions}
<1>0. Named # Decisions /\ {Exists} # Decisions
  <2> DEFINE decision == [stage |-> "user_rule", category |-> NoRow]
  <2>1. decision \in Decisions /\ "stage" \in DOMAIN decision
    BY DEF Decisions, Stage
  <2>2. \A v \in Named \cup {Exists} : "stage" \notin DOMAIN v
    BY DEF Named, Exists
  <2> HIDE DEF decision
  <2> QED BY <2>1, <2>2
<1>1. CASE \E t \in Txn : x = Enriched(t)
  BY <1>1, RowColumns, NoRowAssumption
<1>2. CASE \E h \in House, d \in Descriptor : x = Rule(h, d) \/ x = Embedding(h, d)
  BY <1>0, <1>2, RowColumns, NoRowAssumption
<1>3. CASE x = Defaults \/ \E m \in Merchant : x = MerchantRow(m)
  BY <1>0, <1>3, RowColumns, NoRowAssumption
<1> QED BY <1>1, <1>2, <1>3, RowMembers

\* What a flush sends: what was meant, of a row with one column, or one that still is what
\* was loaded.
LEMMA SentFits ==
    ASSUME NEW x \in Row, NEW change \in [was : Columns(x) \cup {NoRow}, new : Columns(x)],
           NEW now \in Columns(x) \cup {NoRow}, change.was # change.new, ~ Clash(change, now)
    PROVE  /\ Sent(change, now) \in Columns(x)
           /\ now = change.was \/ Columns(x) # Decisions => Sent(change, now) = change.new
<1>1. /\ change.was \in Columns(x) \cup {NoRow} /\ change.new \in Columns(x)
      /\ NoRow \notin Columns(x)
  BY ColumnsFit
<1>2. now = NoRow <=> change.was = NoRow
  BY <1>1 DEF Clash
<1>3. CASE now = NoRow
  BY <1>1, <1>3 DEF Sent
<1>4. CASE now # NoRow
  <2>1. now \in Columns(x) /\ change.was \in Columns(x)
    BY <1>1, <1>2, <1>4
  <2>2. Sent(change, now) = [f \in DOMAIN now |-> IF change.was[f] = change.new[f] THEN now[f]
                                                  ELSE change.new[f]]
    BY <1>1, <1>4 DEF Sent
  <2> DEFINE was == change.was
             new == change.new
             sent == Sent(change, now)
  <2>3. was \in Columns(x) /\ new \in Columns(x) /\ was # new
    BY <1>1, <2>1
  <2>4. sent = [f \in DOMAIN now |-> IF was[f] = new[f] THEN now[f] ELSE new[f]]
    BY <2>2
  <2>5. now = change.was <=> now = was
    OBVIOUS
  <2> SUFFICES sent \in Columns(x) /\ (now = was \/ Columns(x) # Decisions => sent = new)
    OBVIOUS
  <2> HIDE DEF was, new, sent
  <2>6. CASE Columns(x) = Decisions
    <3>1. /\ DOMAIN now = {"stage", "category"} /\ DOMAIN new = {"stage", "category"}
          /\ new = [stage |-> new.stage, category |-> new.category]
          /\ now.stage \in Stage /\ new.stage \in Stage
          /\ now.category \in Category \cup {NoRow} /\ new.category \in Category \cup {NoRow}
      BY <2>1, <2>3, <2>6 DEF Decisions
    <3>2. sent = [stage |-> IF was.stage = new.stage THEN now.stage ELSE new.stage,
                  category |-> IF was.category = new.category THEN now.category ELSE new.category]
      BY <2>4, <3>1
    <3>3. sent \in Decisions
      BY <3>1, <3>2 DEF Decisions
    <3>4. now = was => sent = new
      BY <3>1, <3>2
    <3> QED BY <2>6, <3>3, <3>4
  <2>7. CASE Columns(x) = Named
    <3>1. /\ DOMAIN now = {"category"} /\ new = [category |-> new.category]
          /\ was = [category |-> was.category]
      BY <2>1, <2>3, <2>7 DEF Named
    <3>2. was.category # new.category
      BY <2>3, <3>1
    <3>3. sent = [category |-> new.category]
      BY <2>4, <3>1, <3>2
    <3> QED BY <2>3, <3>1, <3>3
  <2>8. CASE Columns(x) = {Exists}
    BY <2>3, <2>8
  <2> QED BY <2>6, <2>7, <2>8, ColumnsFit
<1> QED BY <1>3, <1>4

LEMMA SeesFits ==
    ASSUME RInv, NEW r \in Req, NEW x \in Row
    PROVE  /\ Sees(r)[x] = IF x \in DOMAIN held[r] THEN held[r][x] ELSE db[x]
           /\ Sees(r)[x] \in Columns(x) \cup {NoRow}
BY DEF RInv, RequestRules, Typed, TablesOK, Sees

\* The change of one row.
LEMMA PendFits ==
    ASSUME IInv, RInv, NEW r \in Req, NEW x \in Row, NEW v \in Columns(x),
           Pend(r, Becomes(x, Sees(r)[x], v))
    PROVE  /\ Only(r) /\ held'[r] = held[r] /\ DOMAIN want'[r] \subseteq {x}
           /\ x \in DOMAIN want'[r] => want'[r][x].new = v /\ want'[r][x].was = Sees(r)[x]
           /\ x \notin DOMAIN want'[r] => Sees(r)[x] = v
           /\ \A y \in DOMAIN want'[r] :
                /\ want'[r][y] \in [was : Columns(y) \cup {NoRow}, new : Columns(y)]
                /\ want'[r][y].was # want'[r][y].new
<1> DEFINE was == Sees(r)[x]
           W == Becomes(x, was, v)
<1>1. Only(r) /\ want'[r] = W /\ held'[r] = held[r]
  BY Sessions
<1>2. was \in Columns(x) \cup {NoRow}
  BY SeesFits
<1>3. /\ DOMAIN W = IF was # v THEN {x} ELSE {}
      /\ was # v => W[x] = [was |-> was, new |-> v]
  BY DEF Becomes, Changes, Change
<1> HIDE DEF W
<1> QED BY <1>1, <1>2, <1>3

LEMMA SessionFits ==
    ASSUME IInv, RInv, NEW r \in Req, UNCHANGED session
    PROVE  Only(r) /\ held'[r] = held[r] /\ want'[r] = want[r]
BY Sessions

\* A new enrichment is written at once.
LEMMA EnrichFits ==
    ASSUME IInv, RInv, NEW r \in Req, NEW t \in Txn, NEW stage \in Stage,
           NEW c \in Category \cup {NoRow}, Enrich(r, t, stage, c)
    PROVE  /\ Only(r) /\ want'[r] = want[r]
           /\ DOMAIN held'[r] = DOMAIN held[r] \cup {Enriched(t)}
           /\ held'[r][Enriched(t)] = [stage |-> stage, category |-> c]
           /\ \A x \in DOMAIN held[r] \ {Enriched(t)} : held'[r][x] = held[r][x]
           /\ \A x \in DOMAIN held'[r] : x \in Row /\ held'[r][x] \in Columns(x)
<1>1. held'[r] = [x \in DOMAIN held[r] \cup {Enriched(t)} |->
                    IF x = Enriched(t) THEN [stage |-> stage, category |-> c] ELSE held[r][x]]
      /\ want' = want /\ Only(r)
  BY DEF Enrich, IInv, Shapes, Only
<1>2. [stage |-> stage, category |-> c] \in Columns(Enriched(t))
  BY RowColumns DEF Decisions
<1>3. Typed(r)
  BY DEF RInv, RequestRules
<1> QED BY <1>1, <1>2, <1>3, RowMembers DEF Typed, Wrote

\* Nobody else, and nothing stored, follows what a request does in its session.
LEMMA RequestStep ==
    ASSUME IInv, RInv, NEW r \in Req, NEW new, at' = [at EXCEPT ![r] = new], Only(r),
           UNCHANGED <<bank, stored, raced, skipped>>, corrections' \in 0..MaxWork,
           RequestRules(r)'
    PROVE  RInv'
<1>1. /\ at'[r] = new /\ db' = db
      /\ \A q \in Req \ {r} : at'[q] = at[q] /\ want'[q] = want[q] /\ held'[q] = held[q]
  BY DEF IInv, Shapes, Only
<1>2. TablesOK'
  BY <1>1 DEF RInv, TablesOK
<1>3. RulesWin'
  BY <1>1 DEF RInv, RulesWin, Current
<1>4. ASSUME NEW q \in Req \ {r} PROVE RequestRules(q)'
  <2>1. RequestRules(q)
    BY DEF RInv
  <2>2. Wrote(q)' = Wrote(q) /\ Kept(q)' = Kept(q)
    BY <1>1 DEF Wrote, Kept
  <2>3. \A x, v : /\ Becoming(q, x, v)' <=> Becoming(q, x, v)
                  /\ Loaded(q, x)' <=> Loaded(q, x)
                  /\ Following(q, x, v)' <=> Following(q, x, v)
    BY <1>1, <2>2 DEF Becoming, Loaded, Following
  <2>4. Typed(q)' /\ ListRules(q)' /\ SyncRules(q)'
    BY <1>1, <2>1, <2>2 DEF RequestRules, Typed, ListRules, SyncRules, Agrees
  <2>5. CorrectRules(q)'
    BY <1>1, <2>1, <2>2, <2>3 DEF RequestRules, CorrectRules
  <2> QED BY <2>4, <2>5 DEF RequestRules
<1> QED BY <1>2, <1>3, <1>4 DEF RInv
-----------------------------------------------------------------------------
(* The beginnings of requests, and the steps of imports.                   *)

LEMMA BeginKeepsRules ==
    ASSUME IInv, RInv, NEW r \in Req, Begin(r)
    PROVE  RInv'
<1>1. /\ at[r] = Idle /\ RequestRules(r) /\ Idle \in Local
  <2>1. at[r] = Idle /\ RequestRules(r)
    BY DEF IInv, RInv, Begin, BeginSync, BeginCorrect, BeginList, RequestOK, LocalOK
  <2> QED BY <2>1 DEF RequestRules, Typed
<1>2. Wrote(r) \subseteq {Defaults} /\ Typed(r)
  BY <1>1, IdleShape DEF RequestRules, ListRules
<1>20. corrections \in 0..MaxWork
  BY DEF RInv, TablesOK
<1>3. ASSUME NEW mine \in BOOLEAN, NEW h \in House, NEW new \in SUBSET Txn, BeginSync(r, mine, h, new)
      PROVE  RInv'
  <2> DEFINE to == [Idle EXCEPT !.pc = "seed", !.kind = "sync", !.mine = mine,
                                !.house = h, !.todo = new]
  <2>1. /\ at' = [at EXCEPT ![r] = to] /\ UNCHANGED <<bank, stored, corrections, raced, skipped>>
        /\ UNCHANGED session /\ \A t \in new : Home[t] = h
    BY <1>3 DEF BeginSync, Go
  <2>2. to \in Local /\ to.pc = "seed" /\ to.kind = "sync" /\ to.todo = new /\ to.house = h
    BY <1>1 DEF Local, Kind, Idle
  <2> HIDE DEF to
  <2>3. Only(r) /\ want'[r] = want[r] /\ held'[r] = held[r] /\ at'[r] = to
    BY <2>1, SessionFits DEF IInv, Shapes
  <2>4. Typed(r)' /\ Wrote(r)' \subseteq {Defaults}
    BY <1>2, <2>2, <2>3 DEF Typed, Wrote
  <2>5. Kept(r)' = {}
    BY <2>4, RowKinds DEF Kept, Wrote
  <2>6. \A g \in House, d \in Descriptor : Rule(g, d) \notin Wrote(r)' /\ Embedding(g, d) \notin Wrote(r)'
    BY <2>4, RowKinds
  <2>7. SyncRules(r)'
    BY <2>1, <2>2, <2>3, <2>4, <2>5, <2>6 DEF SyncRules, Deciding, Agrees, Wrote
  <2>8. RequestRules(r)'
    BY <2>2, <2>3, <2>4, <2>7 DEF RequestRules, ListRules, CorrectRules
  <2> QED BY <1>20, <2>1, <2>3, <2>8, RequestStep
<1>4. ASSUME NEW t \in Txn, NEW c \in Category, NEW m \in Merchant \cup {NoRow}, BeginCorrect(r, t, c, m)
      PROVE  RInv'
  <2> DEFINE to == [Idle EXCEPT !.pc = "correct", !.kind = "correct", !.house = Home[t],
                                !.txn = t, !.category = c]
  <2>1. /\ at' = [at EXCEPT ![r] = to] /\ UNCHANGED <<bank, stored, raced, skipped>>
        /\ Naming(r, m) /\ corrections' = corrections + 1
        /\ Cardinality(bank) + corrections < MaxWork
    BY <1>4 DEF BeginCorrect
  <2>2. /\ to \in Local /\ to.pc = "correct" /\ to.kind = "correct" /\ to.txn = t
        /\ to.house = Home[t] /\ to.category = c
    BY <1>1, DataAssumption DEF Local, Kind, Idle
  <2> HIDE DEF to
  <2>3. at'[r] = to
    BY <2>1 DEF IInv, Shapes
  <2>4. /\ Only(r) /\ held'[r] = held[r] /\ Wrote(r)' \subseteq {Defaults, MerchantRow(m)}
        /\ Typed(r)'
    <3>1. CASE UNCHANGED session
      BY <1>2, <2>2, <2>3, <3>1, SessionFits DEF Typed, Wrote
    <3>2. CASE m # NoRow /\ Pend(r, Becomes(MerchantRow(m), Sees(r)[MerchantRow(m)], Exists))
      <4>1. MerchantRow(m) \in Row /\ Exists \in Columns(MerchantRow(m))
        BY <3>2, RowMembers, RowColumns
      <4> QED BY <1>2, <2>2, <2>3, <3>2, <4>1, PendFits DEF Typed, Wrote
    <3> QED BY <2>1, <3>1, <3>2 DEF Naming
  <2>5. \A g \in House, d \in Descriptor : Rule(g, d) \notin Wrote(r)' /\ Embedding(g, d) \notin Wrote(r)'
    BY <2>4, RowKinds
  <2>6. \A x \in Txn : Loaded(r, Enriched(x))'
    BY <2>4, RowKinds DEF Loaded, Wrote
  <2>7. CorrectRules(r)'
    BY <2>2, <2>3, <2>5, <2>6 DEF CorrectRules
  <2>8. RequestRules(r)'
    BY <2>2, <2>3, <2>4, <2>7 DEF RequestRules, ListRules, SyncRules
  <2>9. corrections' \in 0..MaxWork
    <3>1. Cardinality(bank) \in Nat
      BY DataAssumption, FS_CardinalityType DEF RInv, TablesOK
    <3> QED BY <1>20, <2>1, <3>1, BoundAssumption
  <2> QED BY <2>1, <2>4, <2>8, <2>9, RequestStep
<1>5. CASE BeginList(r)
  <2> DEFINE to == [Idle EXCEPT !.pc = "seed"]
  <2>1. /\ at' = [at EXCEPT ![r] = to] /\ UNCHANGED <<bank, stored, corrections, raced, skipped>>
        /\ UNCHANGED session
    BY <1>5 DEF BeginList, Go
  <2>2. to \in Local /\ to.kind = "list"
    BY <1>1 DEF Local, Kind, Idle
  <2> HIDE DEF to
  <2>3. Only(r) /\ want'[r] = want[r] /\ held'[r] = held[r] /\ at'[r] = to
    BY <2>1, SessionFits DEF IInv, Shapes
  <2>4. RequestRules(r)'
    BY <1>2, <2>2, <2>3 DEF RequestRules, Typed, Wrote, ListRules, SyncRules, CorrectRules
  <2> QED BY <1>20, <2>1, <2>3, <2>4, RequestStep
<1> QED BY <1>3, <1>4, <1>5 DEF Begin

LEMMA SeedKeepsRules ==
    ASSUME IInv, RInv, NEW r \in Req, Clean(r), SeedDefaults(r)
    PROVE  RInv'
<1> DEFINE s == at[r]
           to == [s EXCEPT !.pc = IF s.kind = "list" THEN "store" ELSE "rules"]
<1>1. /\ RequestOK(r) /\ RequestRules(r) /\ s.pc = "seed" /\ at' = [at EXCEPT ![r] = to]
      /\ Pend(r, Becomes(Defaults, Sees(r)[Defaults], Exists))
      /\ UNCHANGED <<bank, stored, corrections, raced, skipped>>
  BY DEF IInv, RInv, SeedDefaults, Go
<1>2. s.kind \in {"list", "sync"}
  BY <1>1 DEF RequestOK, LocalOK, Kind, CorrectOK
<1>3. s \in Local
  BY <1>1 DEF RequestRules, Typed
<1>4. /\ to \in Local /\ to.kind = s.kind /\ to.todo = s.todo /\ to.house = s.house
      /\ to.behind = s.behind /\ to.pc = (IF s.kind = "list" THEN "store" ELSE "rules")
  BY <1>2, <1>3 DEF Local
<1> HIDE DEF to
<1>6. /\ Only(r) /\ held'[r] = held[r] /\ DOMAIN want'[r] \subseteq {Defaults} /\ Typed(r)'
      /\ Wrote(r)' \subseteq Wrote(r) \cup {Defaults} /\ at'[r] = to /\ db' = db
  <2>1. Exists \in Columns(Defaults) /\ Defaults \in Row
    BY RowColumns, RowMembers
  <2>2. at'[r] = to
    BY <1>1 DEF IInv, Shapes
  <2> QED BY <1>1, <1>4, <2>1, <2>2, PendFits DEF RequestRules, Typed, Wrote, Only
<1>7. Kept(r)' = Kept(r)
  BY <1>6 DEF Kept
<1>8. /\ \A g, d : Rule(g, d) \in Wrote(r)' => Rule(g, d) \in Wrote(r)
      /\ \A g, d : Embedding(g, d) \notin DOMAIN want'[r]
  BY <1>6, RowKinds
<1>9. SyncRules(r)'
  BY <1>1, <1>4, <1>6, <1>7, <1>8 DEF RequestRules, SyncRules, Agrees, Deciding
<1>10. RequestRules(r)'
  BY <1>1, <1>2, <1>4, <1>6, <1>9 DEF RequestRules, ListRules, CorrectRules
<1>11. corrections' \in 0..MaxWork
  BY <1>1 DEF RInv, TablesOK
<1> QED BY <1>1, <1>6, <1>10, <1>11, RequestStep

LEMMA ReadRulesStep ==
    ASSUME IInv, RInv, NEW r \in Req, ReadRules(r)
    PROVE  RInv'
<1> DEFINE s == at[r]
           rules == [d \in Descriptor |-> IF Sees(r)[Rule(s.house, d)] = NoRow THEN NoRow
                                          ELSE Sees(r)[Rule(s.house, d)].category]
           to == [s EXCEPT !.pc = "next", !.rules = rules]
<1>1. /\ RequestOK(r) /\ RequestRules(r) /\ s.pc = "rules" /\ at' = [at EXCEPT ![r] = to]
      /\ UNCHANGED <<bank, stored, corrections, raced, skipped>> /\ UNCHANGED session
  BY DEF IInv, RInv, ReadRules, Go
<1>2. s.kind = "sync" /\ s \in Local /\ s.house \in House
  BY <1>1 DEF RequestOK, LocalOK, RequestRules, Typed, SyncRules
<1>3. /\ DOMAIN want[r] \subseteq {Defaults} /\ SyncRules(r)
      /\ \A h \in House, d \in Descriptor : Rule(h, d) \notin Wrote(r)
  BY <1>1, <1>2 DEF RequestRules, SyncRules
<1>4. ASSUME NEW d \in Descriptor
      PROVE  rules[d] = Says(db[Rule(s.house, d)]) /\ rules[d] \in Category \cup {NoRow}
  <2> DEFINE x == Rule(s.house, d)
  <2>1. x \in Row /\ Columns(x) = Named /\ x \notin DOMAIN held[r]
    BY <1>2, <1>3, RowMembers, RowColumns, RowKinds DEF Wrote
  <2>2. Sees(r)[x] = db[x] /\ db[x] \in Named \cup {NoRow}
    BY <2>1, SeesFits
  <2>3. rules[d] = Says(db[x])
    BY <2>2 DEF Says
  <2> HIDE DEF rules, x
  <2>4. rules[d] \in Category \cup {NoRow}
    BY <2>2, <2>3 DEF Says, Named
  <2> QED BY <2>3, <2>4 DEF x
<1>5. rules \in [Descriptor -> Category \cup {NoRow}]
  BY <1>4
<1> HIDE DEF rules
<1>6. /\ to \in Local /\ to.kind = "sync" /\ to.todo = s.todo /\ to.house = s.house
      /\ to.pc = "next" /\ to.rules = rules /\ to.behind = s.behind
  BY <1>2, <1>5 DEF Local
<1> HIDE DEF to
<1>7. Only(r) /\ held'[r] = held[r] /\ want'[r] = want[r] /\ at'[r] = to
  BY <1>1, SessionFits DEF IInv, Shapes
<1>8. Wrote(r)' = Wrote(r) /\ Typed(r)' /\ db' = db
  BY <1>1, <1>6, <1>7 DEF RequestRules, Typed, Wrote, Only
<1>9. Kept(r)' = Kept(r)
  BY <1>7 DEF Kept
<1>10. \A g \in House, d \in Descriptor : Embedding(g, d) \notin DOMAIN want'[r]
  BY <1>3, <1>7, RowKinds
<1>11. SyncRules(r)'
  BY <1>2, <1>3, <1>4, <1>6, <1>7, <1>8, <1>9, <1>10 DEF SyncRules, Agrees, Deciding
<1>12. RequestRules(r)'
  BY <1>6, <1>7, <1>8, <1>11 DEF RequestRules, ListRules, CorrectRules
<1>13. corrections' \in 0..MaxWork
  BY <1>1 DEF RInv, TablesOK
<1> QED BY <1>1, <1>7, <1>12, <1>13, RequestStep

LEMMA RuleSays ==
    ASSUME RInv, NEW h \in House, NEW d \in Descriptor
    PROVE  /\ db[Rule(h, d)] \in Named \cup {NoRow}
           /\ db[Rule(h, d)] # NoRow => /\ Says(db[Rule(h, d)]) = db[Rule(h, d)].category
                                        /\ Says(db[Rule(h, d)]) # NoRow
<1>1. db[Rule(h, d)] \in Named \cup {NoRow}
  BY RowMembers, RowColumns DEF RInv, TablesOK
<1>2. \A v \in Named : v.category \in Category
  BY DEF Named
<1> QED BY <1>1, <1>2, NoRowAssumption DEF Says

\* An import that goes through its transactions.
LEMMA DecidingStep ==
    ASSUME IInv, RInv, NEW r \in Req, NEW new, at' = [at EXCEPT ![r] = new], Only(r),
           UNCHANGED <<bank, stored, corrections, raced, skipped>>,
           at[r].kind = "sync", at[r].pc \in Deciding,
           new \in Local, new.kind = "sync", new.pc \in Deciding, new.house = at[r].house,
           new.rules = at[r].rules, new.behind = at[r].behind, new.todo \subseteq at[r].todo,
           new.pc # "next" => new.txn \in Txn /\ new.rules[Descr[new.txn]] = NoRow,
           new.pc \in {"named", "index"} => new.category \in Category,
           Typed(r)',
           \A h \in House, d \in Descriptor :
             /\ Rule(h, d) \notin Wrote(r)'
             /\ Embedding(h, d) \in DOMAIN want'[r] => h = at[r].house /\ at[r].rules[d] = NoRow
             /\ Embedding(h, d) \in DOMAIN held'[r] => Embedding(h, d) \in DOMAIN held[r],
           \A t \in Kept(r)' :
             \/ t \in Kept(r) /\ held'[r][Enriched(t)] = held[r][Enriched(t)]
             \/ /\ t \in at[r].todo
                /\ at[r].rules[Descr[t]] # NoRow =>
                     held'[r][Enriched(t)] = UserRule(at[r].rules[Descr[t]])
    PROVE  RInv'
<1>1. at'[r] = new /\ db' = db /\ SyncRules(r)
  BY DEF IInv, Shapes, RInv, RequestRules, Only
<1>2. ASSUME NEW t \in Kept(r)', Rule(Home[t], Descr[t]) \notin new.behind,
             db[Rule(Home[t], Descr[t])] # NoRow
      PROVE  held'[r][Enriched(t)] = UserRule(db[Rule(Home[t], Descr[t])].category)
  <2>1. CASE t \in Kept(r) /\ held'[r][Enriched(t)] = held[r][Enriched(t)]
    BY <1>1, <1>2, <2>1 DEF SyncRules, Agrees
  <2>2. CASE t \in at[r].todo /\ (at[r].rules[Descr[t]] # NoRow =>
                held'[r][Enriched(t)] = UserRule(at[r].rules[Descr[t]]))
    <3>1. t \in Txn /\ Home[t] = at[r].house /\ Home[t] \in House /\ Descr[t] \in Descriptor
      BY <1>1, <1>2, <2>2, DataAssumption DEF SyncRules, Kept
    <3>2. at[r].rules[Descr[t]] = Says(db[Rule(Home[t], Descr[t])])
      BY <1>1, <1>2, <3>1 DEF SyncRules
    <3> QED BY <1>2, <2>2, <3>1, <3>2, RuleSays
  <2> QED BY <2>1, <2>2
<1>3. Agrees(r)'
  BY <1>1, <1>2 DEF Agrees, SyncRules
<1>4. SyncRules(r)'
  BY <1>1, <1>3 DEF SyncRules, Deciding
<1>5. RequestRules(r)'
  BY <1>1, <1>4 DEF RequestRules, ListRules, CorrectRules
<1>6. corrections' \in 0..MaxWork
  BY DEF RInv, TablesOK
<1> QED BY <1>5, <1>6, RequestStep

\* One of sync-mine that is left as it is, and goes on to another connection.
LEMMA LeavingStep ==
    ASSUME IInv, RInv, NEW r \in Req, NEW new \in Local, Go(r, new), UNCHANGED session, Clean(r),
           at[r].kind = "sync", new.kind = "sync", new.pc \in {"left", "seed"},
           new.house \in House, new.behind = at[r].behind, \A t \in new.todo : Home[t] = new.house
    PROVE  RInv'
<1>1. at' = [at EXCEPT ![r] = new] /\ UNCHANGED <<bank, stored, corrections, raced, skipped>>
  BY DEF Go
<1>2. /\ Only(r) /\ held'[r] = held[r] /\ want'[r] = want[r] /\ db' = db /\ at'[r] = new
      /\ SyncRules(r) /\ Typed(r) /\ corrections \in 0..MaxWork
  BY <1>1, SessionFits DEF Only, IInv, Shapes, RInv, RequestRules, TablesOK
<1>3. Wrote(r)' = Wrote(r) /\ Kept(r)' = Kept(r) /\ Typed(r)' /\ DOMAIN want'[r] = {}
  BY <1>2 DEF Wrote, Kept, Typed, Clean, Nothing
<1>4. Agrees(r)'
  BY <1>2, <1>3 DEF SyncRules, Agrees
<1>5. SyncRules(r)'
  BY <1>2, <1>3, <1>4 DEF SyncRules, Deciding
<1>6. RequestRules(r)'
  BY <1>2, <1>3, <1>5 DEF RequestRules, ListRules, CorrectRules
<1> QED BY <1>1, <1>2, <1>6, RequestStep

\* Steps that enrich nothing.
LEMMA DecidingReads ==
    ASSUME IInv, RInv, NEW r \in Req, NEW new, at' = [at EXCEPT ![r] = new], Only(r),
           UNCHANGED <<bank, stored, corrections, raced, skipped>>,
           at[r].kind = "sync", at[r].pc \in Deciding,
           new \in Local, new.kind = "sync", new.pc \in Deciding, new.house = at[r].house,
           new.rules = at[r].rules, new.behind = at[r].behind, new.todo \subseteq at[r].todo,
           new.pc # "next" => new.txn \in Txn /\ new.rules[Descr[new.txn]] = NoRow,
           new.pc \in {"named", "index"} => new.category \in Category,
           held'[r] = held[r], DOMAIN want'[r] \subseteq Row,
           \A x \in DOMAIN want'[r] :
             /\ want'[r][x] \in [was : Columns(x) \cup {NoRow}, new : Columns(x)]
             /\ want'[r][x].was # want'[r][x].new,
           \A h \in House, d \in Descriptor :
             /\ Rule(h, d) \notin DOMAIN want'[r]
             /\ Embedding(h, d) \in DOMAIN want'[r] => h = at[r].house /\ at[r].rules[d] = NoRow
    PROVE  RInv'
<1>1. at'[r] = new /\ Typed(r) /\ SyncRules(r)
  BY DEF IInv, Shapes, RInv, RequestRules
<1>2. Typed(r)'
  BY <1>1 DEF Typed, Wrote
<1>3. Kept(r)' = Kept(r)
  BY DEF Kept
<1>4. \A h \in House, d \in Descriptor : Rule(h, d) \notin Wrote(r)'
  BY <1>1 DEF SyncRules, Wrote
<1> QED BY <1>2, <1>3, <1>4, DecidingStep

\* Steps that enrich one transaction.
LEMMA DecidingEnriches ==
    ASSUME IInv, RInv, NEW r \in Req, NEW new, at' = [at EXCEPT ![r] = new], Clean(r),
           UNCHANGED <<bank, stored, corrections, raced, skipped>>,
           at[r].kind = "sync", at[r].pc \in Deciding,
           new \in Local, new.kind = "sync", new.pc \in Deciding, new.house = at[r].house,
           new.rules = at[r].rules, new.behind = at[r].behind, new.todo \subseteq at[r].todo,
           new.pc # "next" => new.txn \in Txn /\ new.rules[Descr[new.txn]] = NoRow,
           new.pc \in {"named", "index"} => new.category \in Category,
           NEW t \in at[r].todo, NEW stage \in Stage, NEW c \in Category \cup {NoRow},
           Enrich(r, t, stage, c),
           at[r].rules[Descr[t]] # NoRow => stage = "user_rule" /\ c = at[r].rules[Descr[t]]
    PROVE  RInv'
<1>1. at'[r] = new /\ Typed(r) /\ SyncRules(r) /\ t \in Txn
  BY DEF IInv, Shapes, RInv, RequestRules, Typed, Local
<1>2. /\ Only(r) /\ want'[r] = want[r]
      /\ DOMAIN held'[r] = DOMAIN held[r] \cup {Enriched(t)}
      /\ held'[r][Enriched(t)] = [stage |-> stage, category |-> c]
      /\ \A x \in DOMAIN held[r] \ {Enriched(t)} : held'[r][x] = held[r][x]
      /\ \A x \in DOMAIN held'[r] : x \in Row /\ held'[r][x] \in Columns(x)
  BY <1>1, EnrichFits
<1>3. Typed(r)'
  BY <1>1, <1>2 DEF Typed, Wrote
<1>4. \A h \in House, d \in Descriptor :
        /\ Rule(h, d) \notin Wrote(r)'
        /\ Embedding(h, d) \in DOMAIN want'[r] => h = at[r].house /\ at[r].rules[d] = NoRow
        /\ Embedding(h, d) \in DOMAIN held'[r] => Embedding(h, d) \in DOMAIN held[r]
  BY <1>1, <1>2, RowKinds DEF SyncRules, Wrote
<1>5. ASSUME NEW u \in Kept(r)'
      PROVE  \/ u \in Kept(r) /\ held'[r][Enriched(u)] = held[r][Enriched(u)]
             \/ /\ u \in at[r].todo
                /\ at[r].rules[Descr[u]] # NoRow =>
                     held'[r][Enriched(u)] = UserRule(at[r].rules[Descr[u]])
  <2>1. CASE u = t
    BY <1>2, <2>1 DEF UserRule
  <2>2. CASE u # t
    <3>1. u \in Kept(r) /\ Enriched(u) # Enriched(t)
      BY <1>2, <1>5, <2>2, RowKinds DEF Kept
    <3>2. held'[r][Enriched(u)] = held[r][Enriched(u)]
      BY <1>2, <3>1 DEF Kept
    <3> QED BY <3>1, <3>2
  <2> QED BY <2>1, <2>2
<1> QED BY <1>2, <1>3, <1>4, <1>5, DecidingStep

\* A request without rules: one that ends, or fails.
LEMMA EndKeepsRules ==
    ASSUME IInv, RInv, NEW r \in Req, at' = [at EXCEPT ![r] = Idle], Rollback(r),
           UNCHANGED <<bank, stored, corrections, raced, skipped>>
    PROVE  RInv'
<1>1. Only(r) /\ DOMAIN want'[r] = {} /\ DOMAIN held'[r] = {} /\ at'[r] = Idle
  BY Sessions DEF IInv, Shapes
<1>2. Idle \in Local
  BY DEF Idle, Local, NoRules, Kind
<1>3. RequestRules(r)'
  BY <1>1, <1>2, IdleShape
     DEF RequestRules, Typed, Wrote, ListRules, SyncRules, CorrectRules
<1>4. corrections' \in 0..MaxWork
  BY DEF RInv, TablesOK
<1> QED BY <1>1, <1>3, <1>4, RequestStep

LEMMA DoneFits ==
    ASSUME NEW s \in Local, NEW t
    PROVE  /\ Done(s, t) \in Local /\ Done(s, t).pc = "next" /\ Done(s, t).kind = s.kind
           /\ Done(s, t).house = s.house /\ Done(s, t).rules = s.rules
           /\ Done(s, t).behind = s.behind /\ Done(s, t).todo \subseteq s.todo
           /\ Done(s, t).fresh = s.fresh
BY DEF Done, Local

LEMMA NamingFits ==
    ASSUME IInv, RInv, NEW r \in Req, Clean(r), NEW m \in Merchant \cup {NoRow}, Naming(r, m)
    PROVE  /\ Only(r) /\ held'[r] = held[r] /\ DOMAIN want'[r] \subseteq Row
           /\ \A x \in DOMAIN want'[r] :
                /\ want'[r][x] \in [was : Columns(x) \cup {NoRow}, new : Columns(x)]
                /\ want'[r][x].was # want'[r][x].new
           /\ \A h \in House, d \in Descriptor :
                Rule(h, d) \notin DOMAIN want'[r] /\ Embedding(h, d) \notin DOMAIN want'[r]
<1>1. CASE UNCHANGED session
  BY <1>1, SessionFits DEF Clean, Nothing
<1>2. CASE m # NoRow /\ Pend(r, Becomes(MerchantRow(m), Sees(r)[MerchantRow(m)], Exists))
  <2>1. MerchantRow(m) \in Row /\ Exists \in Columns(MerchantRow(m))
    BY <1>2, RowMembers, RowColumns
  <2> QED BY <1>2, <2>1, PendFits, RowKinds
<1> QED BY <1>1, <1>2 DEF Naming

LEMMA CascadeKeepsRules ==
    ASSUME IInv, RInv, NEW r \in Req, Clean(r),
           \/ ReadRules(r) \/ LlmAnswers(r) \/ AddNamed(r) \/ IndexGlobal(r) \/ IndexAnswer(r)
           \/ \E t \in Txn : ByUserRule(r, t) \/ ByGlobalRule(r, t) \/ Match(r, t)
    PROVE  RInv'
<1> DEFINE s == at[r]
<1>1. /\ RequestOK(r) /\ LocalOK(r) /\ SyncRules(r) /\ s \in Local /\ Typed(r)
      /\ \A t \in s.todo : t \in Txn /\ Descr[t] \in Descriptor
      /\ \A d \in Descriptor : s.rules[d] \in Category \cup {NoRow}
  <2>1. RequestOK(r) /\ LocalOK(r) /\ SyncRules(r) /\ s \in Local /\ Typed(r)
    BY DEF IInv, RInv, RequestOK, RequestRules, Typed
  <2> QED BY <2>1, DataAssumption DEF Local
<1>2. DOMAIN want[r] = {}
  BY DEF Clean, Nothing
<1>3. CASE ReadRules(r)
  BY <1>3, ReadRulesStep
<1>20. ASSUME NEW to, Go(r, to), UNCHANGED session, s.kind = "sync", s.pc \in Deciding,
              to \in Local, to.kind = "sync", to.pc \in {"next", "ask"}, to.house = s.house,
              to.rules = s.rules, to.behind = s.behind, to.todo \subseteq s.todo,
              to.pc = "ask" => to.txn \in Txn /\ to.rules[Descr[to.txn]] = NoRow
      PROVE  RInv'
  <2>1. Only(r) /\ held'[r] = held[r] /\ want'[r] = want[r]
    BY <1>20, SessionFits
  <2> QED BY <1>2, <1>20, <2>1, DecidingReads DEF Go, Deciding
<1>21. ASSUME NEW t \in s.todo, NEW stage \in Stage, NEW c \in Category \cup {NoRow},
              Enrich(r, t, stage, c), Go(r, Done(s, t)), s.kind = "sync", s.pc \in Deciding,
              s.rules[Descr[t]] # NoRow => stage = "user_rule" /\ c = s.rules[Descr[t]]
      PROVE  RInv'
  <2> DEFINE to == Done(s, t)
  <2>1. /\ to \in Local /\ to.pc = "next" /\ to.kind = "sync" /\ to.house = s.house
        /\ to.rules = s.rules /\ to.behind = s.behind /\ to.todo \subseteq s.todo
    BY <1>1, <1>21, DoneFits
  <2>2. at' = [at EXCEPT ![r] = to] /\ UNCHANGED <<bank, stored, corrections, raced, skipped>>
    BY <1>21 DEF Go
  <2> HIDE DEF to
  <2> QED BY <1>21, <2>1, <2>2, DecidingEnriches DEF Deciding
<1>22. ASSUME NEW t \in Txn, NEW c \in Category, NEW by \in {"global_rule", "llm"},
              NEW m \in Merchant \cup {NoRow}, Naming(r, m), s.kind = "sync", s.pc \in Deciding,
              Go(r, [s EXCEPT !.pc = "named", !.txn = t, !.by = by, !.category = c]),
              s.rules[Descr[t]] = NoRow
       PROVE  RInv'
  <2> DEFINE to == [s EXCEPT !.pc = "named", !.txn = t, !.by = by, !.category = c]
  <2>1. /\ to \in Local /\ to.pc = "named" /\ to.kind = "sync" /\ to.house = s.house
        /\ to.rules = s.rules /\ to.behind = s.behind /\ to.todo = s.todo
        /\ to.txn = t /\ to.category = c
    BY <1>1, <1>22 DEF Local
  <2>2. at' = [at EXCEPT ![r] = to] /\ UNCHANGED <<bank, stored, corrections, raced, skipped>>
    BY <1>22 DEF Go
  <2> HIDE DEF to
  <2>3. /\ Only(r) /\ held'[r] = held[r] /\ DOMAIN want'[r] \subseteq Row
        /\ \A x \in DOMAIN want'[r] :
             /\ want'[r][x] \in [was : Columns(x) \cup {NoRow}, new : Columns(x)]
             /\ want'[r][x].was # want'[r][x].new
        /\ \A h \in House, d \in Descriptor :
             Rule(h, d) \notin DOMAIN want'[r] /\ Embedding(h, d) \notin DOMAIN want'[r]
    BY <1>22, NamingFits
  <2> QED BY <1>22, <2>1, <2>2, <2>3, DecidingReads DEF Deciding
<1>23. ASSUME NEW rest \in SUBSET s.todo, Raises(r, rest), s.kind = "sync"
       PROVE  RInv'
  <2> DEFINE to == [s EXCEPT !.pc = "left", !.left = @ \cup rest, !.todo = {}, !.txn = NoRow,
                             !.category = NoRow, !.by = "none", !.rules = NoRules]
  <2>1. /\ to \in Local /\ to.pc = "left" /\ to.kind = "sync" /\ to.house = s.house
        /\ to.behind = s.behind /\ to.todo = {}
    BY <1>1, <1>23 DEF Local, NoRules
  <2> HIDE DEF to
  <2>2. CASE s.mine
    <3>1. Go(r, to) /\ UNCHANGED session /\ s.house \in House
      BY <1>1, <1>23, <2>2 DEF Raises, SyncRules, to
    <3> QED BY <1>23, <2>1, <3>1, LeavingStep
  <2>3. CASE ~ s.mine
    BY <1>23, <2>3, EndKeepsRules DEF Raises, Go
  <2> QED BY <2>2, <2>3
<1>4. ASSUME NEW t \in Txn, ByUserRule(r, t)
      PROVE  RInv'
  <2>1. /\ Go(r, Done(s, t)) /\ Enrich(r, t, "user_rule", s.rules[Descr[t]])
        /\ s.pc = "next" /\ t \in s.todo /\ s.rules[Descr[t]] # NoRow
    BY <1>4 DEF ByUserRule
  <2>2. s.kind = "sync" /\ "user_rule" \in Stage /\ s.rules[Descr[t]] \in Category \cup {NoRow}
    BY <1>1, <2>1 DEF LocalOK, Stage
  <2> QED BY <1>21, <2>1, <2>2 DEF Deciding
<1>5. ASSUME NEW t \in Txn, ByGlobalRule(r, t)
      PROVE  RInv'
  <2>1. /\ Go(r, [s EXCEPT !.pc = "named", !.txn = t, !.by = "global_rule",
                           !.category = GlobalRule[Descr[t]]])
        /\ \E m \in Merchant \cup {NoRow} : Naming(r, m)
        /\ s.pc = "next" /\ t \in s.todo
        /\ s.rules[Descr[t]] = NoRow /\ GlobalRule[Descr[t]] # NoRow
    BY <1>5 DEF ByGlobalRule
  <2>2. s.kind = "sync" /\ GlobalRule[Descr[t]] \in Category
    BY <1>1, <2>1, DataAssumption DEF LocalOK
  <2> QED BY <1>22, <2>1, <2>2 DEF Deciding
<1>6. ASSUME NEW t \in Txn, Match(r, t)
      PROVE  RInv'
  <2>1. s.pc = "next" /\ t \in s.todo /\ s.kind = "sync" /\ s.rules[Descr[t]] = NoRow
    BY <1>1, <1>6 DEF Match, LocalOK
  <2>2. ASSUME NEW x \in Candidates(r, s.house, Descr[t]), Enrich(r, t, "machine", x[2]),
               Go(r, Done(s, t))
        PROVE  RInv'
    <3>1. x[2] \in Category \cup {NoRow}
      <4>1. \/ \E p \in Descriptor : /\ Sees(r)[Embedding(s.house, p)] # NoRow
                                     /\ x = <<p, Sees(r)[Embedding(s.house, p)].category>>
            \/ \E p \in Descriptor : x = <<p, GlobalRule[p]>>
        BY <2>2 DEF Candidates
      <4>2. ASSUME NEW p \in Descriptor, Sees(r)[Embedding(s.house, p)] # NoRow
            PROVE  Sees(r)[Embedding(s.house, p)].category \in Category
        <5>1. s.house \in House
          BY <1>1, <2>1 DEF SyncRules
        <5>2. Embedding(s.house, p) \in Row /\ Columns(Embedding(s.house, p)) = Named
          BY <5>1, RowMembers, RowColumns
        <5>3. Sees(r)[Embedding(s.house, p)] \in Named
          BY <4>2, <5>2, SeesFits
        <5> QED BY <5>3 DEF Named
      <4> QED BY <4>1, <4>2, DataAssumption
    <3>2. "machine" \in Stage
      BY DEF Stage
    <3> QED BY <1>21, <2>1, <2>2, <3>1, <3>2 DEF Deciding
  <2>3. ASSUME UNCHANGED session, Go(r, [s EXCEPT !.pc = "ask", !.txn = t])
        PROVE  RInv'
    <3> DEFINE to == [s EXCEPT !.pc = "ask", !.txn = t]
    <3>1. /\ to \in Local /\ to.pc = "ask" /\ to.kind = "sync" /\ to.house = s.house
          /\ to.rules = s.rules /\ to.behind = s.behind /\ to.todo = s.todo /\ to.txn = t
      BY <1>1, <2>1 DEF Local
    <3>2. Go(r, to)
      BY <2>3
    <3> HIDE DEF to
    <3> QED BY <1>20, <2>1, <2>3, <3>1, <3>2 DEF Deciding
  <2> QED BY <1>6, <2>2, <2>3 DEF Match
<1>7. CASE LlmAnswers(r)
  <2>1. /\ s.pc = "ask" /\ s.kind = "sync" /\ s.txn \in s.todo /\ s.txn \in Txn
        /\ s.rules[Descr[s.txn]] = NoRow
    BY <1>1, <1>7 DEF LlmAnswers, LocalOK, SyncRules
  <2>2. ASSUME Enrich(r, s.txn, "unresolved", NoRow), Go(r, Done(s, s.txn))
        PROVE  RInv'
    <3>1. "unresolved" \in Stage
      BY DEF Stage
    <3> QED BY <1>21, <2>1, <2>2, <3>1 DEF Deciding
  <2>3. ASSUME NEW c \in Proposed, NEW m \in Merchant, Naming(r, m),
               Go(r, [s EXCEPT !.pc = "named", !.by = "llm", !.category = c])
        PROVE  RInv'
    <3>1. [s EXCEPT !.pc = "named", !.by = "llm", !.category = c]
            = [s EXCEPT !.pc = "named", !.txn = s.txn, !.by = "llm", !.category = c]
      BY <1>1 DEF Local
    <3>2. c \in Category
      BY DataAssumption
    <3> QED BY <1>22, <2>1, <2>3, <3>1, <3>2 DEF Deciding
  <2>4. ASSUME Raises(r, s.todo)
        PROVE  RInv'
    BY <1>23, <2>1, <2>4
  <2> QED BY <1>7, <2>2, <2>3, <2>4 DEF LlmAnswers
<1>8. CASE AddNamed(r)
  <2> DEFINE to == [s EXCEPT !.pc = "index"]
  <2>1. /\ at' = [at EXCEPT ![r] = to] /\ UNCHANGED <<bank, stored, corrections, raced, skipped>>
        /\ Enrich(r, s.txn, "machine", s.category) /\ s.pc = "named" /\ s.kind = "sync"
    BY <1>8 DEF AddNamed, Go
  <2>2. /\ to \in Local /\ to.pc = "index" /\ to.kind = "sync" /\ to.house = s.house
        /\ to.rules = s.rules /\ to.behind = s.behind /\ to.todo = s.todo
        /\ to.txn = s.txn /\ to.category = s.category
    BY <1>1, <2>1 DEF Local
  <2> HIDE DEF to
  <2>3. /\ s.txn \in s.todo /\ s.txn \in Txn /\ s.rules[Descr[s.txn]] = NoRow
        /\ s.category \in Category /\ "machine" \in Stage
    BY <1>1, <2>1 DEF LocalOK, SyncRules, Stage
  <2> QED BY <2>1, <2>2, <2>3, DecidingEnriches DEF Deciding
<1>9. CASE IndexGlobal(r)
  <2> DEFINE d == Descr[s.txn]
             done == Done(s, s.txn)
  <2>1. s.kind = "sync" /\ s.pc = "index"
    BY <1>9 DEF IndexGlobal
  <2>2. d \in Descriptor
    BY <1>1, <2>1, DataAssumption DEF SyncRules
  <2>3. /\ done \in Local /\ done.pc = "next" /\ done.kind = "sync" /\ done.house = s.house
        /\ done.rules = s.rules /\ done.behind = s.behind /\ done.todo \subseteq s.todo
    BY <1>1, <2>1, DoneFits
  <2>4. ASSUME UNCHANGED session, Go(r, [done EXCEPT !.fresh = @ \cup {d}])
        PROVE  RInv'
    <3> DEFINE to == [done EXCEPT !.fresh = @ \cup {d}]
    <3>0. Go(r, to)
      BY <2>4
    <3> HIDE DEF d, done
    <3>1. /\ to \in Local /\ to.pc = "next" /\ to.kind = "sync" /\ to.house = s.house
          /\ to.rules = s.rules /\ to.behind = s.behind /\ to.todo \subseteq s.todo
      BY <2>2, <2>3 DEF Local
    <3> HIDE DEF to
    <3> QED BY <1>20, <2>1, <2>4, <3>0, <3>1 DEF Deciding
  <2>5. ASSUME UNCHANGED session, Go(r, done)
        PROVE  RInv'
    <3> HIDE DEF done
    <3> QED BY <1>20, <2>1, <2>3, <2>5 DEF Deciding
  <2>6. ASSUME Raises(r, s.todo \ {s.txn})
        PROVE  RInv'
    BY <1>23, <2>1, <2>6
  <2> QED BY <1>9, <2>4, <2>5, <2>6 DEF IndexGlobal
<1>10. CASE IndexAnswer(r)
  <2> DEFINE done == Done(s, s.txn)
             x == Embedding(s.house, Descr[s.txn])
             v == [category |-> s.category]
  <2>1. /\ at' = [at EXCEPT ![r] = done] /\ UNCHANGED <<bank, stored, corrections, raced, skipped>>
        /\ Pend(r, Becomes(x, Sees(r)[x], v)) /\ s.kind = "sync" /\ s.pc = "index"
    BY <1>10 DEF IndexAnswer, IndexFor, Go
  <2>2. /\ done \in Local /\ done.pc = "next" /\ done.kind = "sync" /\ done.house = s.house
        /\ done.rules = s.rules /\ done.behind = s.behind /\ done.todo \subseteq s.todo
    BY <1>1, <2>1, DoneFits
  <2>3. /\ s.txn \in Txn /\ s.rules[Descr[s.txn]] = NoRow /\ s.category \in Category
        /\ s.house \in House /\ Descr[s.txn] \in Descriptor
    BY <1>1, <2>1, DataAssumption DEF SyncRules
  <2>4. x \in Row /\ v \in Columns(x)
    BY <2>3, RowMembers, RowColumns DEF Named
  <2> HIDE DEF done
  <2>5. /\ Only(r) /\ held'[r] = held[r] /\ DOMAIN want'[r] \subseteq {x}
        /\ \A y \in DOMAIN want'[r] :
             /\ want'[r][y] \in [was : Columns(y) \cup {NoRow}, new : Columns(y)]
             /\ want'[r][y].was # want'[r][y].new
    BY <2>1, <2>4, PendFits
  <2>6. \A h \in House, e \in Descriptor :
             /\ Rule(h, e) \notin DOMAIN want'[r]
             /\ Embedding(h, e) \in DOMAIN want'[r] => h = s.house /\ s.rules[e] = NoRow
    BY <2>3, <2>5, RowKinds
  <2> HIDE DEF v
  <2> QED BY <2>1, <2>2, <2>4, <2>5, <2>6, DecidingReads DEF Deciding
<1> QED BY <1>3, <1>4, <1>5, <1>6, <1>7, <1>8, <1>9, <1>10

\* sync-mine goes on to the next connection.
LEMMA NextKeepsRules ==
    ASSUME IInv, RInv, NEW r \in Req, Clean(r), NEW h \in House, NEW new \in SUBSET Txn,
           NextConnection(r, h, new)
    PROVE  RInv'
<1> DEFINE s == at[r]
           to == [s EXCEPT !.pc = "seed", !.house = h, !.todo = new]
<1>1. /\ Go(r, to) /\ UNCHANGED session /\ \A t \in new : Home[t] = h
      /\ s.pc = "left" /\ s \in Local /\ LocalOK(r)
  BY DEF NextConnection, IInv, RequestOK, RInv, RequestRules, Typed
<1>2. s.kind = "sync"
  BY <1>1 DEF LocalOK
<1>3. /\ to \in Local /\ to.pc = "seed" /\ to.kind = "sync" /\ to.house = h /\ to.todo = new
      /\ to.behind = s.behind
  BY <1>1, <1>2 DEF Local
<1> HIDE DEF to
<1> QED BY <1>1, <1>2, <1>3, LeavingStep

-----------------------------------------------------------------------------
(* The steps of corrections.                                               *)

\* A correction changes one row.
LEMMA RowChanges ==
    ASSUME IInv, RInv, NEW r \in Req, Clean(r), NEW new \in Local, at' = [at EXCEPT ![r] = new],
           new.behind = at[r].behind,
           NEW x \in Row, NEW v \in Columns(x), Pend(r, Becomes(x, Sees(r)[x], v))
    PROVE  /\ Only(r) /\ Typed(r)' /\ Wrote(r)' \subseteq Wrote(r) \cup {x}
           /\ Becoming(r, x, v)'
           /\ \A y, w : y # x /\ Becoming(r, y, w) => Becoming(r, y, w)'
           /\ \A y : x \notin DOMAIN held[r] \/ y # x => Loaded(r, y)'
<1>1. at'[r] = new /\ Typed(r) /\ DOMAIN want[r] = {}
  BY DEF IInv, Shapes, RInv, RequestRules, Clean, Nothing
<1>2. /\ Only(r) /\ held'[r] = held[r] /\ DOMAIN want'[r] \subseteq {x} /\ db' = db
      /\ x \in DOMAIN want'[r] => want'[r][x].new = v /\ want'[r][x].was = Sees(r)[x]
      /\ x \notin DOMAIN want'[r] => Sees(r)[x] = v
      /\ \A y \in DOMAIN want'[r] :
           /\ want'[r][y] \in [was : Columns(y) \cup {NoRow}, new : Columns(y)]
           /\ want'[r][y].was # want'[r][y].new
  BY PendFits DEF Only
<1>3. Sees(r)[x] = IF x \in DOMAIN held[r] THEN held[r][x] ELSE db[x]
  BY SeesFits
<1>4. Typed(r)' /\ Wrote(r)' \subseteq Wrote(r) \cup {x}
  BY <1>1, <1>2 DEF Typed, Wrote
<1>5. Becoming(r, x, v)'
  BY <1>1, <1>2, <1>3 DEF Becoming
<1>6. \A y, w : y # x /\ Becoming(r, y, w) => Becoming(r, y, w)'
  BY <1>1, <1>2 DEF Becoming
<1>7. \A y : x \notin DOMAIN held[r] \/ y # x => Loaded(r, y)'
  BY <1>2, <1>3 DEF Loaded
<1> QED BY <1>2, <1>4, <1>5, <1>6, <1>7

LEMMA CorrectionKeepsRules ==
    ASSUME IInv, RInv, NEW r \in Req, Clean(r),
           \/ CorrectRow(r) \/ CorrectRule(r) \/ IndexCorrection(r) \/ ReadMatching(r)
           \/ Reapply(r)
    PROVE  RInv'
<1> DEFINE s == at[r]
           d == Descr[s.txn]
<1>1. /\ RequestOK(r) /\ CorrectRules(r) /\ s \in Local /\ Typed(r)
      /\ corrections \in 0..MaxWork /\ stored \subseteq Txn
  BY DEF IInv, RInv, RequestRules, Typed, TablesOK
<1>2. DOMAIN want[r] = {}
  BY DEF Clean, Nothing
<1>3. s.kind = "correct" /\ s.pc # "store"
  BY <1>1 DEF RequestOK, LocalOK, CorrectRow, CorrectRule, IndexCorrection, ReadMatching, Reapply
<1>4. /\ s.txn \in stored /\ s.todo \subseteq Alike(s.txn) \cap stored /\ s.txn \in Txn
      /\ s.house = Home[s.txn] /\ s.house \in House /\ d \in Descriptor /\ s.category \in Category
      /\ s.pc \in {"correct", "rule", "index", "match", "reapply", "store"}
  BY <1>1, <1>3, DataAssumption DEF RequestOK, CorrectOK, CorrectRules
<1>5. \A h \in House, e \in Descriptor :
             Rule(h, e) \in Wrote(r) \/ Embedding(h, e) \in Wrote(r) => h = s.house /\ e = d
  BY <1>1, <1>3 DEF CorrectRules
<1>20. ASSUME NEW to \in Local, Go(r, to), Only(r), Typed(r)', CorrectRules(r)', to.kind = "correct"
       PROVE  RInv'
  <2>1. at'[r] = to
    BY <1>20 DEF Go, IInv, Shapes
  <2>2. RequestRules(r)'
    BY <1>20, <2>1 DEF RequestRules, ListRules, SyncRules
  <2> QED BY <1>1, <1>20, <2>2, RequestStep DEF Go
<1>6. CASE CorrectRow(r)
  <2> DEFINE to == [s EXCEPT !.pc = "rule"]
             x == Enriched(s.txn)
             v == Correction(s.category)
  <2>1. Go(r, to) /\ Pend(r, Becomes(x, Sees(r)[x], v)) /\ s.pc = "correct"
    BY <1>6 DEF CorrectRow, Correction
  <2>2. /\ to \in Local /\ to.pc = "rule" /\ to.kind = "correct" /\ to.house = s.house
        /\ to.txn = s.txn /\ to.category = s.category /\ to.behind = s.behind
    BY <1>1, <1>3 DEF Local
  <2>3. x \in Row /\ v \in Columns(x)
    BY <1>4, RowMembers, RowColumns DEF Correction, Decisions, Stage
  <2>4. x \notin DOMAIN held[r]
    BY <1>1, <1>3, <1>4, <2>1 DEF RequestOK, CorrectOK, Touched
  <2>7. at'[r] = to
    BY <2>1 DEF Go, IInv, Shapes
  <2> HIDE DEF to
  <2>5. /\ Only(r) /\ Typed(r)' /\ Wrote(r)' \subseteq Wrote(r) \cup {x} /\ Becoming(r, x, v)'
        /\ \A y : Loaded(r, y)'
    BY <2>1, <2>2, <2>3, <2>4, <2>7, RowChanges DEF Go
  <2>6. \A h \in House, e \in Descriptor :
          Rule(h, e) \in Wrote(r)' \/ Embedding(h, e) \in Wrote(r)' => h = s.house /\ e = d
    BY <1>5, <2>5, RowKinds
  <2>8. CorrectRules(r)'
    BY <1>4, <2>2, <2>5, <2>6, <2>7 DEF CorrectRules
  <2> QED BY <1>20, <2>1, <2>2, <2>5, <2>8
<1>7. CASE CorrectRule(r)
  <2> DEFINE to == [s EXCEPT !.pc = "index"]
             x == Rule(s.house, d)
             v == [category |-> s.category]
  <2>1. Go(r, to) /\ Pend(r, Becomes(x, Sees(r)[x], v)) /\ s.pc = "rule"
    BY <1>7 DEF CorrectRule
  <2>2. /\ to \in Local /\ to.pc = "index" /\ to.kind = "correct" /\ to.house = s.house
        /\ to.txn = s.txn /\ to.category = s.category /\ to.behind = s.behind
    BY <1>1, <1>3 DEF Local
  <2>3. x \in Row /\ v \in Columns(x)
    BY <1>4, RowMembers, RowColumns DEF Named
  <2>7. at'[r] = to
    BY <2>1 DEF Go, IInv, Shapes
  <2> HIDE DEF to
  <2>4. /\ Only(r) /\ Typed(r)' /\ Wrote(r)' \subseteq Wrote(r) \cup {x} /\ Becoming(r, x, v)'
        /\ \A y, w : y # x /\ Becoming(r, y, w) => Becoming(r, y, w)'
        /\ \A t : Loaded(r, Enriched(t))'
    <3>1. at' = [at EXCEPT ![r] = to]
      BY <2>1 DEF Go
    <3>2. /\ Only(r) /\ Typed(r)' /\ Wrote(r)' \subseteq Wrote(r) \cup {x}
          /\ \A y, w : y # x /\ Becoming(r, y, w) => Becoming(r, y, w)'
          /\ \A y : x \notin DOMAIN held[r] \/ y # x => Loaded(r, y)'
      BY <2>1, <2>2, <2>3, <3>1, RowChanges
    <3>3. \A y, w : y = x /\ w = v => Becoming(r, y, w)'
      BY <2>1, <2>2, <2>3, <3>1, RowChanges
    <3>4. Becoming(r, x, v)'
      BY <2>2, <2>7, <3>3
    <3>5. ASSUME NEW t PROVE Loaded(r, Enriched(t))'
      BY <3>2, RowKinds
    <3> QED BY <3>2, <3>4, <3>5
  <2>5. Becoming(r, Enriched(s.txn), Correction(s.category))'
    <3>1. Becoming(r, Enriched(s.txn), Correction(s.category)) /\ Enriched(s.txn) # x
      BY <1>1, <1>3, <2>1, RowKinds DEF CorrectRules
    <3>2. \A y, w : y = Enriched(s.txn) /\ w = Correction(s.category) => Becoming(r, y, w)'
      BY <2>4, <3>1
    <3> QED BY <2>2, <2>7, <3>2
  <2>6. \A h \in House, e \in Descriptor :
          Rule(h, e) \in Wrote(r)' \/ Embedding(h, e) \in Wrote(r)' => h = s.house /\ e = d
    BY <1>5, <2>4, RowKinds
  <2>8. CorrectRules(r)'
    BY <1>4, <2>2, <2>4, <2>5, <2>6, <2>7 DEF CorrectRules
  <2> QED BY <1>20, <2>1, <2>2, <2>4, <2>8
<1>8. CASE IndexCorrection(r)
  <2> DEFINE to == [s EXCEPT !.pc = "match"]
             x == Embedding(s.house, d)
             v == [category |-> s.category]
  <2>1. Go(r, to) /\ Pend(r, Becomes(x, Sees(r)[x], v)) /\ s.pc = "index"
    BY <1>8 DEF IndexCorrection, IndexFor
  <2>2. /\ to \in Local /\ to.pc = "match" /\ to.kind = "correct" /\ to.house = s.house
        /\ to.txn = s.txn /\ to.category = s.category /\ to.behind = s.behind
    BY <1>1, <1>3 DEF Local
  <2>3. x \in Row /\ v \in Columns(x)
    BY <1>4, RowMembers, RowColumns DEF Named
  <2>7. at'[r] = to
    BY <2>1 DEF Go, IInv, Shapes
  <2> HIDE DEF to
  <2>4. /\ Only(r) /\ Typed(r)' /\ Wrote(r)' \subseteq Wrote(r) \cup {x} /\ Becoming(r, x, v)'
        /\ \A y, w : y # x /\ Becoming(r, y, w) => Becoming(r, y, w)'
        /\ \A t : Loaded(r, Enriched(t))'
    <3>1. at' = [at EXCEPT ![r] = to]
      BY <2>1 DEF Go
    <3>2. /\ Only(r) /\ Typed(r)' /\ Wrote(r)' \subseteq Wrote(r) \cup {x}
          /\ \A y, w : y # x /\ Becoming(r, y, w) => Becoming(r, y, w)'
          /\ \A y : x \notin DOMAIN held[r] \/ y # x => Loaded(r, y)'
      BY <2>1, <2>2, <2>3, <3>1, RowChanges
    <3>3. \A y, w : y = x /\ w = v => Becoming(r, y, w)'
      BY <2>1, <2>2, <2>3, <3>1, RowChanges
    <3>4. Becoming(r, x, v)'
      BY <2>2, <2>7, <3>3
    <3>5. ASSUME NEW t PROVE Loaded(r, Enriched(t))'
      BY <3>2, RowKinds
    <3> QED BY <3>2, <3>4, <3>5
  <2>5. /\ Becoming(r, Enriched(s.txn), Correction(s.category))'
        /\ Becoming(r, Rule(s.house, d), v)'
    <3>1. /\ Becoming(r, Enriched(s.txn), Correction(s.category)) /\ Enriched(s.txn) # x
          /\ Becoming(r, Rule(s.house, d), v) /\ Rule(s.house, d) # x
      BY <1>1, <1>3, <2>1, RowKinds DEF CorrectRules
    <3>2. /\ \A y, w : y = Enriched(s.txn) /\ w = Correction(s.category) => Becoming(r, y, w)'
          /\ \A y, w : y = Rule(s.house, d) /\ w = v => Becoming(r, y, w)'
      BY <2>4, <3>1
    <3> QED BY <2>2, <2>7, <3>2
  <2>6. \A h \in House, e \in Descriptor :
          Rule(h, e) \in Wrote(r)' \/ Embedding(h, e) \in Wrote(r)' => h = s.house /\ e = d
    BY <1>5, <2>4, RowKinds
  <2>8. CorrectRules(r)'
    BY <1>4, <2>2, <2>4, <2>5, <2>6, <2>7 DEF CorrectRules
  <2> QED BY <1>20, <2>1, <2>2, <2>4, <2>8
<1>9. CASE ReadMatching(r)
  <2> DEFINE matching == Alike(s.txn) \cap stored
             to == [s EXCEPT !.pc = IF matching = {} THEN "store" ELSE "reapply", !.todo = matching]
  <2>1. Go(r, to) /\ UNCHANGED session /\ s.pc = "match"
    BY <1>9 DEF ReadMatching
  <2>2. /\ to \in Local /\ to.kind = "correct" /\ to.house = s.house /\ to.todo = matching
        /\ to.pc = (IF matching = {} THEN "store" ELSE "reapply")
        /\ to.txn = s.txn /\ to.category = s.category /\ to.behind = s.behind
    BY <1>1, <1>3 DEF Local
  <2> HIDE DEF to
  <2>3. /\ Only(r) /\ held'[r] = held[r] /\ want'[r] = want[r] /\ db' = db /\ stored' = stored
        /\ at'[r] = to
    BY <2>1, SessionFits DEF Only, Go, IInv, Shapes
  <2>4. Typed(r)' /\ Wrote(r)' = Wrote(r)
    BY <1>1, <2>2, <2>3 DEF Typed, Wrote
  <2>5. \A y, w : Becoming(r, y, w) => Becoming(r, y, w)'
    BY <2>2, <2>3 DEF Becoming
  <2>6. \A y : Loaded(r, y)'
    BY <1>2, <2>3 DEF Loaded
  <2>7. CorrectRules(r)'
    BY <1>1, <1>3, <1>4, <1>5, <2>1, <2>2, <2>3, <2>4, <2>5, <2>6 DEF CorrectRules
  <2> QED BY <1>20, <2>1, <2>2, <2>3, <2>4, <2>7
<1>10. CASE Reapply(r)
  <2> DEFINE to == [s EXCEPT !.pc = "store", !.todo = {}]
             rows == {x \in {Enriched(y) : y \in s.todo} :
                        Sees(r)[x] # NoRow => Sees(r)[x].stage # "user_correction"}
             v == UserRule(s.category)
             W == Changes(rows, Sees(r), [x \in rows |-> v])
  <2>1. Go(r, to) /\ Pend(r, W) /\ s.pc = "reapply"
    BY <1>10 DEF Reapply, UserRule
  <2>2. /\ to \in Local /\ to.pc = "store" /\ to.kind = "correct" /\ to.house = s.house
        /\ to.txn = s.txn /\ to.category = s.category /\ to.behind = s.behind
    BY <1>1, <1>3 DEF Local
  <2>3. v \in Decisions
    BY <1>4 DEF UserRule, Decisions, Stage
  <2>4. ASSUME NEW t \in s.todo
        PROVE  /\ Enriched(t) \in Row /\ Columns(Enriched(t)) = Decisions
               /\ Enriched(t) \notin DOMAIN held[r] /\ t # s.txn
               /\ Sees(r)[Enriched(t)] = db[Enriched(t)]
               /\ db[Enriched(t)] \in Decisions \cup {NoRow}
    <3>1. t \in Txn /\ t # s.txn
      BY <1>4 DEF Alike
    <3>2. Enriched(t) \notin DOMAIN held[r]
      BY <1>1, <1>3, <2>1, <3>1 DEF RequestOK, CorrectOK, Touched
    <3>3. Enriched(t) \in Row /\ Columns(Enriched(t)) = Decisions
      BY <3>1, RowMembers, RowColumns
    <3> QED BY <3>1, <3>2, <3>3, SeesFits
  <2>5. /\ \A x \in DOMAIN W : \E t \in s.todo : x = Enriched(t)
        /\ \A x \in DOMAIN W : W[x] = [was |-> Sees(r)[x], new |-> v] /\ Sees(r)[x] # v
        /\ \A t \in s.todo : Enriched(t) \notin DOMAIN W =>
             \/ Sees(r)[Enriched(t)] = v
             \/ Sees(r)[Enriched(t)] # NoRow /\ Sees(r)[Enriched(t)].stage = "user_correction"
    <3>1. \A x \in rows : [y \in rows |-> v][x] = v
      OBVIOUS
    <3>2. /\ DOMAIN W = {x \in rows : Sees(r)[x] # v}
          /\ \A x \in DOMAIN W : W[x] = [was |-> Sees(r)[x], new |-> v]
      BY <3>1 DEF Changes, Change
    <3> HIDE DEF W, v
    <3> QED BY <3>2
  <2> HIDE DEF to, W, rows, v
  <2>6. /\ Only(r) /\ held'[r] = held[r] /\ want'[r] = W /\ db' = db /\ stored' = stored
        /\ at'[r] = to
    BY <2>1, Sessions DEF Only, Go, IInv, Shapes
  <2>7. Typed(r)'
    <3>1. ASSUME NEW x \in DOMAIN W
          PROVE  /\ x \in Row /\ W[x] \in [was : Columns(x) \cup {NoRow}, new : Columns(x)]
                 /\ W[x].was # W[x].new
      BY <2>3, <2>4, <2>5
    <3> QED BY <1>1, <2>2, <2>6, <3>1 DEF Typed, Wrote
  <2>8. \A h \in House, e \in Descriptor :
          Rule(h, e) \in Wrote(r)' \/ Embedding(h, e) \in Wrote(r)' => h = s.house /\ e = d
    BY <1>5, <2>5, <2>6, RowKinds DEF Wrote
  <2>9. \A y, w : y \notin DOMAIN W /\ Becoming(r, y, w) => Becoming(r, y, w)'
    BY <1>2, <2>2, <2>6 DEF Becoming
  <2>10. /\ Enriched(s.txn) \notin DOMAIN W
         /\ \A h, e : Rule(h, e) \notin DOMAIN W /\ Embedding(h, e) \notin DOMAIN W
    BY <2>4, <2>5, RowKinds
  <2>11. ASSUME NEW t \in Txn PROVE Loaded(r, Enriched(t))'
    BY <2>4, <2>5, <2>6 DEF Loaded
  <2>12. ASSUME NEW t \in Alike(s.txn) \cap stored
         PROVE  \/ Following(r, Enriched(t), s.category)'
                \/ t \in skipped' /\ Enriched(t) \notin Wrote(r)'
    <3>1. t \in s.todo \/ Enriched(t) \in s.behind \/ t \in skipped \ s.todo
      BY <1>1, <1>3, <2>1 DEF CorrectRules
    <3>2. CASE Enriched(t) \in s.behind
      BY <2>2, <2>6, <3>2 DEF Following
    <3>3. CASE t \in s.todo /\ Enriched(t) \in DOMAIN W
      BY <2>2, <2>5, <2>6, <3>3 DEF Following, Becoming, Wrote, v
    <3>4. CASE t \in s.todo /\ Enriched(t) \notin DOMAIN W
      <4>1. Enriched(t) \notin Wrote(r)'
        BY <2>4, <2>6, <3>4 DEF Wrote
      <4>2. db[Enriched(t)] # NoRow
        BY <2>3, <2>4, <2>5, <3>4, RowMembers, NoRowAssumption
      <4>3. Settled(db[Enriched(t)], s.category)
        BY <2>4, <2>5, <3>4, <4>2 DEF Settled, v
      <4> QED BY <2>2, <2>6, <4>1, <4>3 DEF Following
    <3>5. CASE t \in skipped \ s.todo
      <4>1. t \in Txn /\ t # s.txn
        BY DEF Alike
      <4>2. Enriched(t) \notin DOMAIN held[r]
        BY <1>1, <1>3, <2>1, <4>1 DEF RequestOK, CorrectOK, Touched
      <4>3. Enriched(t) \notin DOMAIN W
        BY <2>5, <3>5, RowKinds
      <4> QED BY <2>1, <2>6, <3>5, <4>2, <4>3 DEF Wrote, Go
    <3> QED BY <3>1, <3>2, <3>3, <3>4, <3>5
  <2>13. CorrectRules(r)'
    BY <1>1, <1>3, <1>4, <2>1, <2>2, <2>6, <2>8, <2>9, <2>10, <2>11, <2>12 DEF CorrectRules
  <2> QED BY <1>20, <2>1, <2>2, <2>6, <2>7, <2>13
<1> QED BY <1>6, <1>7, <1>8, <1>9, <1>10

-----------------------------------------------------------------------------
(* Flushes, failures and commits.                                          *)

LEMMA FlushKeepsRules ==
    ASSUME IInv, RInv, NEW r \in Req, Send(r)
    PROVE  RInv'
<1> DEFINE s == at[r]
<1>1. RequestOK(r) /\ RequestRules(r) /\ Typed(r) /\ corrections \in 0..MaxWork
  BY DEF IInv, RInv, RequestRules, TablesOK
<1>2. at' = at /\ UNCHANGED <<bank, stored, corrections, raced, skipped>> /\ Flush(r)
  BY DEF Send
<1>3. PICK row \in DOMAIN want[r] :
        /\ db' = db /\ ~ Clash(want[r][row], Sees(r)[row])
        /\ held' = [held EXCEPT ![r] = [x \in DOMAIN @ \cup {row} |->
                      IF x = row THEN Sent(want[r][row], Sees(r)[row]) ELSE @[x]]]
        /\ want' = [want EXCEPT ![r] = [x \in DOMAIN @ \ {row} |-> @[x]]]
  BY <1>2 DEF Flush
<1> DEFINE sent == Sent(want[r][row], Sees(r)[row])
<1>4. /\ Only(r) /\ at'[r] = s /\ db' = db
      /\ DOMAIN held'[r] = DOMAIN held[r] \cup {row} /\ DOMAIN want'[r] = DOMAIN want[r] \ {row}
      /\ held'[r][row] = sent
      /\ \A x \in DOMAIN held[r] \ {row} : held'[r][x] = held[r][x]
      /\ \A x \in DOMAIN want'[r] : want'[r][x] = want[r][x]
  BY <1>2, <1>3 DEF IInv, Shapes, Only
<1>5. /\ row \in Row /\ want[r][row] \in [was : Columns(row) \cup {NoRow}, new : Columns(row)]
      /\ want[r][row].was # want[r][row].new /\ Sees(r)[row] \in Columns(row) \cup {NoRow}
  BY <1>1, SeesFits DEF Typed, Wrote
<1>6. /\ sent \in Columns(row)
      /\ Sees(r)[row] = want[r][row].was \/ Columns(row) # Decisions => sent = want[r][row].new
  BY <1>3, <1>5, SentFits
<1> HIDE DEF sent
<1>7. Wrote(r)' = Wrote(r)
  BY <1>4 DEF Wrote
<1>8. Typed(r)'
  BY <1>1, <1>4, <1>5, <1>6, <1>7 DEF Typed
<1>9. ListRules(r)'
  BY <1>1, <1>4, <1>7 DEF RequestRules, ListRules
<1>10. SyncRules(r)'
  <2>1. CASE s.kind = "sync"
    <3>1. \A t \in Txn : Enriched(t) # row
      BY <1>1, <2>1 DEF RequestOK, SyncOK
    <3>2. Kept(r)' = Kept(r) /\ \A t \in Kept(r) : held'[r][Enriched(t)] = held[r][Enriched(t)]
      BY <1>4, <3>1 DEF Kept
    <3>3. SyncRules(r) /\ Agrees(r)
      BY <1>1, <2>1 DEF RequestRules, SyncRules
    <3>4. ASSUME NEW h \in House, NEW e \in Descriptor, Embedding(h, e) = row,
                 Rule(h, e) \notin s.behind
          PROVE  db[Rule(h, e)] = NoRow
      <4>1. h = s.house /\ s.rules[e] = NoRow /\ s.pc \in Deciding
        BY <2>1, <3>3, <3>4, RowKinds DEF SyncRules
      <4>2. Says(db[Rule(h, e)]) = NoRow
        BY <2>1, <3>3, <3>4, <4>1 DEF SyncRules
      <4> QED BY <4>2, RuleSays
    <3>5. Agrees(r)'
      <4>1. ASSUME NEW t \in Kept(r)', Rule(Home[t], Descr[t]) \notin s.behind,
                   db[Rule(Home[t], Descr[t])] # NoRow
            PROVE  held'[r][Enriched(t)] = UserRule(db[Rule(Home[t], Descr[t])].category)
        BY <3>2, <3>3, <4>1 DEF Agrees
      <4>2. ASSUME NEW h \in House, NEW e \in Descriptor, Embedding(h, e) \in DOMAIN held'[r],
                   Rule(h, e) \notin s.behind
            PROVE  db[Rule(h, e)] = NoRow
        BY <1>4, <3>3, <3>4, <4>2 DEF Agrees
      <4> QED BY <1>4, <4>1, <4>2 DEF Agrees
    <3>6. s.pc \in {"seed", "rules", "left"} => DOMAIN want'[r] \subseteq {Defaults}
      BY <1>4, <2>1, <3>3 DEF SyncRules
    <3>7. \A h \in House, e \in Descriptor :
            /\ Rule(h, e) \notin Wrote(r)
            /\ Embedding(h, e) \in DOMAIN want'[r] => h = s.house /\ s.rules[e] = NoRow
      BY <1>4, <2>1, <3>3 DEF SyncRules
    <3> QED BY <1>4, <1>7, <2>1, <3>3, <3>5, <3>6, <3>7 DEF SyncRules
  <2>2. CASE s.kind # "sync"
    BY <1>4, <2>2 DEF SyncRules
  <2> QED BY <2>1, <2>2
<1>11. CorrectRules(r)'
  <2>1. CASE s.kind = "correct"
    <3>1. CorrectRules(r) /\ stored' = stored /\ skipped' = skipped
      BY <1>1, <1>2 DEF RequestRules
    <3>2. \A x : x # row => /\ x \in DOMAIN want'[r] <=> x \in DOMAIN want[r]
                            /\ x \in DOMAIN held'[r] <=> x \in DOMAIN held[r]
                            /\ x \in DOMAIN want[r] => want'[r][x] = want[r][x]
                            /\ x \in DOMAIN held[r] => held'[r][x] = held[r][x]
      BY <1>4
    <3>3. ASSUME NEW t \in Txn, Enriched(t) = row, row \notin s.behind
          PROVE  sent = want[r][row].new
      <4>1. db[row] = want[r][row].was
        BY <2>1, <3>1, <3>3 DEF CorrectRules, Loaded
      <4>2. row \notin DOMAIN held[r]
        BY <1>1, <3>3 DEF RequestOK, RowsOK
      <4> QED BY <1>5, <1>6, <4>1, <4>2, SeesFits
    <3>4. row \notin s.behind => sent = want[r][row].new
      BY <1>5, <1>6, <3>3, ColumnsFit
    <3>5. ASSUME NEW x, NEW v, Becoming(r, x, v)
          PROVE  Becoming(r, x, v)'
      <4>1. CASE x = row
        BY <1>4, <3>4, <3>5, <4>1 DEF Becoming
      <4>2. CASE x # row
        BY <1>4, <3>2, <3>5, <4>2 DEF Becoming
      <4> QED BY <4>1, <4>2
    <3>6. ASSUME NEW x, NEW v, Following(r, x, v)
          PROVE  Following(r, x, v)'
      BY <1>4, <1>7, <3>5, <3>6 DEF Following
    <3>7. ASSUME NEW x, Loaded(r, x) PROVE Loaded(r, x)'
      BY <1>4, <3>2, <3>7 DEF Loaded
    <3> QED BY <1>4, <1>7, <2>1, <3>1, <3>5, <3>6, <3>7 DEF CorrectRules
  <2>2. CASE s.kind # "correct"
    BY <1>4, <2>2 DEF CorrectRules
  <2> QED BY <2>1, <2>2
<1>12. at' = [at EXCEPT ![r] = s]
  BY <1>2 DEF IInv, Shapes
<1>13. RequestRules(r)' /\ Only(r)
  BY <1>4, <1>8, <1>9, <1>10, <1>11 DEF RequestRules
<1> HIDE DEF s
<1> QED BY <1>1, <1>2, <1>12, <1>13, RequestStep

LEMMA FailKeepsRules ==
    ASSUME IInv, RInv, NEW r \in Req, Fail(r)
    PROVE  RInv'
BY EndKeepsRules DEF Fail, FlushFails, DeadlockVictim, Go

\* What a commit makes of the rows, and of a request that goes on.
LEMMA CommitWrites ==
    ASSUME IInv, RInv, NEW r \in Req, Commit(r)
    PROVE  /\ db' = [x \in Row |-> db'[x]]
           /\ \A x \in Row : db'[x] = IF x \in DOMAIN held[r] THEN held[r][x] ELSE db[x]
           /\ DOMAIN held[r] \subseteq Row /\ DOMAIN want[r] = {}
BY DEF Commit, Store, Sees, Clean, Nothing, RInv, RequestRules, Typed, Wrote

LEMMA OthersKeepRules ==
    ASSUME IInv, RInv, NEW r \in Req, NEW q \in Req \ {r}, Commit(r)
    PROVE  RequestRules(q)'
<1> DEFINE s == at[q]
           more == DOMAIN held[r] \cap GoesBy(q)
<1>1. /\ RequestRules(q) /\ s \in Local /\ LocalOK(q) /\ stored \subseteq Txn
      /\ DOMAIN held[r] \subseteq Row
      /\ \A x \in Row : db'[x] = IF x \in DOMAIN held[r] THEN held[r][x] ELSE db[x]
  BY CommitWrites DEF IInv, RInv, RequestOK, RequestRules, Typed, TablesOK
<1>2. /\ at'[q] = [s EXCEPT !.behind = @ \cup more]
      /\ want'[q] = want[q] /\ held'[q] = held[q]
      /\ stored' = stored \cup Kept(r) \cup at[r].left
      /\ skipped' = (skipped \ Kept(r)) \cup at[r].left
      /\ Wrote(q)' = Wrote(q) /\ Kept(q)' = Kept(q)
  <2>1. skipped' = (skipped \ Kept(r)) \cup at[r].left
    BY DEF Commit, Kept
  <2> QED BY <2>1, CommitStores, OthersFallBehind DEF Wrote
<1>3. /\ at'[q] \in Local /\ at'[q].pc = s.pc /\ at'[q].kind = s.kind /\ at'[q].house = s.house
      /\ at'[q].txn = s.txn /\ at'[q].category = s.category /\ at'[q].todo = s.todo
      /\ at'[q].rules = s.rules /\ at'[q].behind = s.behind \cup more
  <2>1. more \subseteq Row
    BY <1>1
  <2> HIDE DEF more
  <2> QED BY <1>1, <1>2, <2>1 DEF Local
<1>4. \A x \in Row : x \in GoesBy(q) /\ x \notin at'[q].behind => x \notin s.behind /\ db'[x] = db[x]
  BY <1>1, <1>3
<1> HIDE DEF more
<1>5. Typed(q)' /\ ListRules(q)'
  BY <1>1, <1>2, <1>3 DEF RequestRules, Typed, ListRules
<1>6. SyncRules(q)'
  <2>1. CASE s.kind = "sync"
    <3>1. SyncRules(q) /\ s.house \in House
      BY <1>1, <2>1 DEF RequestRules, SyncRules
    <3>2. ASSUME s.pc \in Deciding, NEW d \in Descriptor, Rule(s.house, d) \notin at'[q].behind
          PROVE  s.rules[d] = Says(db'[Rule(s.house, d)])
      <4>1. Rule(s.house, d) \in GoesBy(q) /\ Rule(s.house, d) \in Row
        BY <2>1, <3>1, <3>2, RowMembers DEF GoesBy, Deciding
      <4> QED BY <1>4, <2>1, <3>1, <3>2, <4>1 DEF SyncRules
    <3>3. ASSUME NEW x \in Decided(q), Decider(x) \in Row, Decider(x) \notin at'[q].behind
          PROVE  Decider(x) \notin s.behind /\ db'[Decider(x)] = db[Decider(x)]
      <4>1. Decider(x) \in GoesBy(q)
        BY <2>1 DEF GoesBy
      <4> QED BY <1>4, <3>3, <4>1
    <3>4. ASSUME NEW t \in Kept(q), Rule(Home[t], Descr[t]) \notin at'[q].behind,
                 db'[Rule(Home[t], Descr[t])] # NoRow
          PROVE  held[q][Enriched(t)] = UserRule(db'[Rule(Home[t], Descr[t])].category)
      <4>1. Enriched(t) \in Decided(q) /\ Decider(Enriched(t)) = Rule(Home[t], Descr[t])
        BY DEF Kept, Decided, Decider, Enriched
      <4>2. Rule(Home[t], Descr[t]) \in Row
        BY DataAssumption, RowMembers DEF Kept
      <4> QED BY <2>1, <3>1, <3>3, <3>4, <4>1, <4>2 DEF SyncRules, Agrees
    <3>5. ASSUME NEW h \in House, NEW d \in Descriptor, Embedding(h, d) \in DOMAIN held[q],
                 Rule(h, d) \notin at'[q].behind
          PROVE  db'[Rule(h, d)] = NoRow
      <4>1. Embedding(h, d) \in Decided(q) /\ Decider(Embedding(h, d)) = Rule(h, d)
        BY <3>5 DEF Decided, Decider, Embedding
      <4>2. Rule(h, d) \in Row
        BY RowMembers
      <4> QED BY <2>1, <3>1, <3>3, <3>5, <4>1, <4>2 DEF SyncRules, Agrees
    <3>6. Agrees(q)'
      BY <1>2, <3>4, <3>5 DEF Agrees
    <3> QED BY <1>2, <1>3, <2>1, <3>1, <3>2, <3>6 DEF SyncRules
  <2>2. CASE s.kind # "sync"
    BY <1>3, <2>2 DEF SyncRules
  <2> QED BY <2>1, <2>2
<1>7. CorrectRules(q)'
  <2>1. CASE s.kind = "correct"
    <3> DEFINE d == Descr[s.txn]
    <3>1. /\ CorrectRules(q) /\ CorrectOK(q) /\ s.txn \in Txn /\ s.house \in House /\ d \in Descriptor
      BY <1>1, <2>1, DataAssumption DEF IInv, RequestOK, RequestRules, CorrectOK, CorrectRules
    <3>2. ASSUME NEW x \in Row, NEW v, x \in GoesBy(q) \cup Wrote(q), Becoming(q, x, v)
          PROVE  Becoming(q, x, v)'
      BY <1>1, <1>2, <1>3, <1>4, <3>2 DEF Becoming, Wrote
    <3>3. s.pc # "correct" =>
            Enriched(s.txn) \in Row /\ Enriched(s.txn) \in GoesBy(q)
      BY <2>1, <3>1, RowMembers DEF GoesBy, CorrectOK
    <3>4. s.pc \notin {"correct", "rule"} =>
            Rule(s.house, d) \in Row /\ Rule(s.house, d) \in GoesBy(q) \cup Wrote(q)
      BY <2>1, <3>1, RowMembers DEF GoesBy, CorrectOK, Wrote
    <3>5. s.pc \in {"match", "reapply", "store"} =>
            Embedding(s.house, d) \in Row /\ Embedding(s.house, d) \in GoesBy(q) \cup Wrote(q)
      BY <2>1, <3>1, RowMembers DEF GoesBy, Wrote
    <3>6. ASSUME NEW x \in Alike(s.txn) \cap stored', s.pc \in {"reapply", "store"}
          PROVE  /\ s.pc = "reapply" =>
                      x \in s.todo \/ Enriched(x) \in at'[q].behind \/ x \in skipped'
                 /\ s.pc = "store" =>
                      \/ Following(q, Enriched(x), s.category)'
                      \/ x \in skipped' /\ Enriched(x) \notin Wrote(q)
      <4>1. x \in Txn /\ Enriched(x) \in Row
        BY <3>6, RowMembers DEF Alike
      <4>2. s.pc = "store" \/ x \notin s.todo => Enriched(x) \in GoesBy(q)
        BY <2>1, <3>6 DEF GoesBy
      <4>3. CASE x \in Kept(r) /\ (s.pc = "store" \/ x \notin s.todo)
        <5>1. Enriched(x) \in at'[q].behind
          BY <1>3, <4>2, <4>3 DEF Kept, more
        <5>2. Following(q, Enriched(x), s.category)'
          BY <5>1, <1>3, Zenon DEF Following
        <5> QED BY <5>1, <5>2
      <4>4. CASE x \in stored /\ ~ (x \in Kept(r) /\ (s.pc = "store" \/ x \notin s.todo))
        <5>1. CASE s.pc = "reapply"
          BY <1>2, <1>3, <3>1, <2>1, <3>6, <4>4, <5>1 DEF CorrectRules
        <5>2. CASE s.pc = "store" /\ ~ (x \in skipped /\ Enriched(x) \notin Wrote(q))
          <6>1. Following(q, Enriched(x), s.category)
            BY <3>1, <2>1, <3>6, <4>4, <5>2 DEF CorrectRules
          <6>2. Enriched(x) \notin at'[q].behind =>
                  Enriched(x) \notin s.behind /\ db'[Enriched(x)] = db[Enriched(x)]
            BY <1>4, <4>1, <4>2, <5>2
          <6>3. \A v : Enriched(x) \notin at'[q].behind /\ Becoming(q, Enriched(x), v) =>
                         Becoming(q, Enriched(x), v)'
            BY <3>2, <4>1, <4>2, <5>2
          <6>4. Following(q, Enriched(x), s.category)'
            BY <1>2, <1>3, <6>1, <6>2, <6>3 DEF Following
          <6> QED BY <5>2, <6>4
        <5>3. CASE s.pc = "store" /\ x \in skipped /\ Enriched(x) \notin Wrote(q)
          BY <1>2, <4>4, <5>3
        <5> QED BY <3>6, <5>1, <5>2, <5>3
      <4>5. CASE x \in at[r].left
        <5>1. x \notin stored
          BY <4>5 DEF IInv, RequestOK, LocalOK, SyncOK, Claimed
        <5>2. Enriched(x) \notin Wrote(q)
          BY <2>1, <3>1, <4>1, <5>1 DEF CorrectOK, Touched, Wrote
        <5> QED BY <1>2, <4>5, <5>2
      <4> QED BY <1>2, <3>6, <4>3, <4>4, <4>5
    <3>7. ASSUME NEW x \in Txn
          PROVE  Loaded(q, Enriched(x))'
      <4>1. CASE Enriched(x) \in DOMAIN want[q]
        <5>1. (x = s.txn /\ s.pc # "correct") \/ (s.pc = "store" /\ x \in Alike(s.txn))
          BY <2>1, <3>1, <4>1 DEF CorrectOK, Touched
        <5>2. Enriched(x) \in GoesBy(q) /\ Enriched(x) \in Row
          BY <2>1, <3>1, <3>3, <5>1, RowMembers DEF GoesBy
        <5>3. Loaded(q, Enriched(x))
          BY <2>1, <3>1 DEF CorrectRules
        <5> QED BY <1>2, <1>4, <4>1, <5>2, <5>3 DEF Loaded
      <4>2. CASE Enriched(x) \notin DOMAIN want[q]
        BY <1>2, <4>2 DEF Loaded
      <4> QED BY <4>1, <4>2
    <3>8. s.pc # "correct" => Becoming(q, Enriched(s.txn), Correction(s.category))'
      <4>1. \A x, v : s.pc # "correct" /\ x = Enriched(s.txn) /\ v = Correction(s.category) =>
                        Becoming(q, x, v)'
        BY <2>1, <3>1, <3>2, <3>3 DEF CorrectRules
      <4> QED BY <1>3, <4>1
    <3>9. s.pc \notin {"correct", "rule"} => Becoming(q, Rule(s.house, d), [category |-> s.category])'
      <4>1. \A x, v : s.pc \notin {"correct", "rule"} /\ x = Rule(s.house, d) /\ v = [category |-> s.category] =>
                        Becoming(q, x, v)'
        BY <2>1, <3>1, <3>2, <3>4 DEF CorrectRules
      <4> QED BY <1>3, <4>1
    <3>10. s.pc \in {"match", "reapply", "store"} =>
             Becoming(q, Embedding(s.house, d), [category |-> s.category])'
      <4>1. \A x, v : /\ s.pc \in {"match", "reapply", "store"}
                      /\ x = Embedding(s.house, d) /\ v = [category |-> s.category]
                      => Becoming(q, x, v)'
        BY <2>1, <3>1, <3>2, <3>5 DEF CorrectRules
      <4> QED BY <1>3, <4>1
    <3>11. /\ s.category \in Category /\ s.house = Home[s.txn]
           /\ \A h \in House, e \in Descriptor :
                Rule(h, e) \in Wrote(q) \/ Embedding(h, e) \in Wrote(q) => h = s.house /\ e = d
      BY <2>1, <3>1 DEF CorrectRules
    <3> QED BY <1>2, <1>3, <2>1, <3>6, <3>7, <3>8, <3>9, <3>10, <3>11 DEF CorrectRules
  <2>2. CASE s.kind # "correct"
    BY <1>3, <2>2 DEF CorrectRules
  <2> QED BY <2>1, <2>2
<1> QED BY <1>5, <1>6, <1>7 DEF RequestRules

\* The rows a commit leaves without a rule of their own.
LEMMA CommitRaces ==
    ASSUME IInv, RInv, NEW r \in Req, Commit(r)
    PROVE  /\ raced' \subseteq Row /\ raced' = (raced \ DOMAIN held[r]) \cup Misjudged(r)
           /\ skipped' = (skipped \ Kept(r)) \cup at[r].left
           /\ \A t \in Kept(r) : at[r].kind = "sync" /\ Rule(Home[t], Descr[t]) \in at[r].behind =>
                Enriched(t) \in raced'
           /\ \A h, d : at[r].kind = "sync" /\ Embedding(h, d) \in DOMAIN held[r] =>
                (Rule(h, d) \in at[r].behind => Embedding(h, d) \in raced')
           /\ at[r].kind = "correct" =>
                /\ \A t : Enriched(t) \in at[r].behind => Enriched(t) \in raced'
                /\ \A h, d : Embedding(h, d) \in at[r].behind => Embedding(h, d) \in raced'
                /\ Rule(at[r].house, Descr[at[r].txn]) \in at[r].behind =>
                     /\ \A t \in Alike(at[r].txn) : Enriched(t) \in raced'
                     /\ Embedding(at[r].house, Descr[at[r].txn]) \in raced'
<1> DEFINE s == at[r]
           theirs == {x \in Decided(r) : Decider(x) \in s.behind}
           read == {x \in s.behind : x[1] \in {"enrichment", "embedding"}}
           followers == IF s.kind = "correct" /\ Rule(s.house, Descr[s.txn]) \in s.behind
                          THEN {Enriched(x) : x \in Alike(s.txn)} \cup {Embedding(s.house, Descr[s.txn])}
                          ELSE {}
<1>1. Misjudged(r) = IF s.kind = "sync" THEN theirs ELSE read \cup followers
  BY DEF Misjudged
<1>2. /\ raced' = (raced \ DOMAIN held[r]) \cup Misjudged(r)
      /\ skipped' = (skipped \ Kept(r)) \cup s.left
  BY DEF Commit, Kept
<1>3. /\ \A t : Enriched(t)[1] = "enrichment" /\ Decider(Enriched(t)) = Rule(Home[t], Descr[t])
      /\ \A h, d : Embedding(h, d)[1] = "embedding" /\ Decider(Embedding(h, d)) = Rule(h, d)
  BY DEF Enriched, Embedding, Decider
<1>4. /\ DOMAIN held[r] \subseteq Row /\ s.behind \subseteq Row /\ raced \subseteq Row
      /\ s.kind = "correct" => s.txn \in Txn /\ s.house \in House /\ Descr[s.txn] \in Descriptor
  BY DataAssumption DEF IInv, RequestOK, CorrectOK, RInv, RequestRules, CorrectRules, Typed, Wrote,
                        TablesOK, Local
<1>5. theirs \subseteq Row /\ read \subseteq Row
  BY <1>4 DEF Decided
<1>6. followers \subseteq Row
  BY <1>4, RowMembers DEF Alike
<1>7. raced' \subseteq Row
  BY <1>1, <1>2, <1>4, <1>5, <1>6
<1>8. ASSUME NEW t \in Kept(r), s.kind = "sync", Rule(Home[t], Descr[t]) \in s.behind
      PROVE  Enriched(t) \in raced'
  <2>1. Enriched(t) \in theirs
    BY <1>3, <1>8 DEF Kept, Decided
  <2> QED BY <1>1, <1>2, <1>8, <2>1
<1>9. ASSUME NEW h, NEW d, s.kind = "sync", Embedding(h, d) \in DOMAIN held[r],
             Rule(h, d) \in s.behind
      PROVE  Embedding(h, d) \in raced'
  <2>1. Embedding(h, d) \in theirs
    BY <1>3, <1>9 DEF Decided
  <2> QED BY <1>1, <1>2, <1>9, <2>1
<1>10. ASSUME s.kind = "correct"
       PROVE  /\ \A t : Enriched(t) \in s.behind => Enriched(t) \in raced'
              /\ \A h, d : Embedding(h, d) \in s.behind => Embedding(h, d) \in raced'
              /\ Rule(s.house, Descr[s.txn]) \in s.behind =>
                   /\ \A t \in Alike(s.txn) : Enriched(t) \in raced'
                   /\ Embedding(s.house, Descr[s.txn]) \in raced'
  <2>1. read \cup followers \subseteq raced'
    BY <1>1, <1>2, <1>10
  <2>2. /\ \A t : Enriched(t) \in s.behind => Enriched(t) \in read
        /\ \A h, d : Embedding(h, d) \in s.behind => Embedding(h, d) \in read
    BY <1>3
  <2>3. Rule(s.house, Descr[s.txn]) \in s.behind =>
          /\ \A t \in Alike(s.txn) : Enriched(t) \in followers
          /\ Embedding(s.house, Descr[s.txn]) \in followers
    BY <1>10
  <2> HIDE DEF read, followers
  <2> QED BY <2>1, <2>2, <2>3
<1>11. \A t \in Kept(r) : s.kind = "sync" /\ Rule(Home[t], Descr[t]) \in s.behind =>
         Enriched(t) \in raced'
  BY <1>8
<1>12. \A h, d : s.kind = "sync" /\ Embedding(h, d) \in DOMAIN held[r] =>
         (Rule(h, d) \in s.behind => Embedding(h, d) \in raced')
  BY <1>9
<1> QED BY <1>2, <1>7, <1>10, <1>11, <1>12

\* What the commit of an import makes of the rules.
LEMMA ImportCommits ==
    ASSUME IInv, RInv, NEW r \in Req, Commit(r), at[r].kind = "sync"
    PROVE  RulesWin'
<1> DEFINE s == at[r]
<1>1. /\ SyncRules(r) /\ Agrees(r) /\ RulesWin /\ stored \subseteq Txn
      /\ \A x \in Row : db'[x] = IF x \in DOMAIN held[r] THEN held[r][x] ELSE db[x]
  BY CommitWrites DEF SyncRules, RInv, RequestRules, TablesOK
<1>2. \A h \in House, d \in Descriptor : db'[Rule(h, d)] = db[Rule(h, d)]
  BY <1>1, RowMembers DEF SyncRules, Wrote
<1>3. ASSUME NEW t \in stored', Enriched(t) \notin raced', t \notin skipped'
      PROVE  Current(t)'
  <2>1. t \in stored \cup Kept(r) /\ t \in Txn
    BY <1>1, <1>3, CommitStores, CommitRaces DEF Kept
  <2> DEFINE rule == Rule(Home[t], Descr[t])
  <2>2. /\ Home[t] \in House /\ Descr[t] \in Descriptor /\ db'[rule] = db[rule]
        /\ db'[Enriched(t)] = IF t \in Kept(r) THEN held[r][Enriched(t)] ELSE db[Enriched(t)]
    BY <1>2, <2>1, DataAssumption, CommitStores
  <2>3. CASE t \in Kept(r)
    <3>1. rule \notin at[r].behind
      BY <1>3, <2>3, CommitRaces
    <3>2. db[rule] # NoRow => held[r][Enriched(t)] = UserRule(db[rule].category)
      BY <1>1, <2>3, <3>1 DEF Agrees
    <3>3. \A c : UserRule(c) = [stage |-> "user_rule", category |-> c]
      BY DEF UserRule
    <3>4. db'[Enriched(t)] \in Decisions
      <4>1. Typed(r) /\ Columns(Enriched(t)) = Decisions
        BY RowColumns DEF RInv, RequestRules
      <4> QED BY <2>2, <2>3, <4>1 DEF Typed, Kept
    <3>5. db'[Enriched(t)] # NoRow
      BY <3>4, NoRowAssumption
    <3> QED BY <2>2, <2>3, <3>2, <3>3, <3>5 DEF Current
  <2>4. CASE t \notin Kept(r)
    <3>1. Enriched(t) \notin DOMAIN held[r] /\ t \in stored
      BY <2>1, <2>4 DEF Kept
    <3>2. Enriched(t) \notin raced /\ t \notin skipped
      BY <1>3, <2>4, <3>1, CommitRaces
    <3>3. Current(t)
      BY <1>1, <3>1, <3>2 DEF RulesWin
    <3> QED BY <2>2, <2>4, <3>3 DEF Current
  <2> QED BY <2>3, <2>4
<1>4. ASSUME NEW h \in House, NEW d \in Descriptor, db'[Rule(h, d)] # NoRow, Embedding(h, d) \notin raced'
      PROVE  db'[Embedding(h, d)] = db'[Rule(h, d)]
  <2>1. db'[Rule(h, d)] = db[Rule(h, d)] /\ Embedding(h, d) \in Row
    BY <1>2, RowMembers
  <2>2. Embedding(h, d) \notin DOMAIN held[r]
    <3>1. ASSUME Embedding(h, d) \in DOMAIN held[r] PROVE Rule(h, d) \notin at[r].behind
      BY <1>4, <3>1, CommitRaces
    <3> QED BY <1>1, <1>4, <2>1, <3>1 DEF Agrees
  <2>3. Embedding(h, d) \notin raced
    BY <1>4, <2>2, CommitRaces
  <2> QED BY <1>1, <1>4, <2>1, <2>2, <2>3 DEF RulesWin
<1> QED BY <1>3, <1>4 DEF RulesWin

\* What the commit of a correction makes of them.
LEMMA CorrectionCommits ==
    ASSUME IInv, RInv, NEW r \in Req, Commit(r), at[r].kind = "correct"
    PROVE  RulesWin'
<1> DEFINE s == at[r]
           own == Rule(s.house, Descr[s.txn])
           near == Embedding(s.house, Descr[s.txn])
           v == [category |-> s.category]
<1>1. /\ CorrectRules(r) /\ CorrectOK(r) /\ s.pc = "store" /\ RulesWin /\ stored \subseteq Txn
      /\ s.txn \in Txn /\ s.txn \in stored /\ s.house = Home[s.txn] /\ s.house \in House
      /\ Descr[s.txn] \in Descriptor /\ s.category \in Category
      /\ \A x \in Row : db'[x] = IF x \in DOMAIN held[r] THEN held[r][x] ELSE db[x]
      /\ DOMAIN want[r] = {} /\ skipped' = skipped \ Kept(r) /\ s.left = {}
  <2>1. /\ CorrectRules(r) /\ CorrectOK(r) /\ LocalOK(r) /\ stored \subseteq Txn
    BY DEF IInv, RequestOK, RInv, RequestRules, TablesOK
  <2>2. s.pc = "store" /\ s.left = {} /\ skipped' = skipped \ Kept(r)
    BY <2>1, CommitRaces DEF LocalOK, CorrectOK, Commit
  <2> QED BY <2>1, <2>2, CommitWrites, DataAssumption DEF CorrectRules, CorrectOK, RInv
<1>2. ASSUME NEW x \in Row, NEW w, Becoming(r, x, w), x \notin s.behind
      PROVE  db'[x] = w
  BY <1>1, <1>2 DEF Becoming
<1>3. /\ own \notin s.behind => db'[own] = v
      /\ near \notin s.behind => db'[near] = v
      /\ Enriched(s.txn) \notin s.behind => db'[Enriched(s.txn)] = Correction(s.category)
  BY <1>1, <1>2, RowMembers DEF CorrectRules
<1>4. ASSUME NEW t \in Alike(s.txn) \cap stored, Enriched(t) \notin s.behind, t \notin skipped'
      PROVE  Settled(db'[Enriched(t)], s.category)
  <2>1. Enriched(t) \in Row /\ Following(r, Enriched(t), s.category)
    BY <1>1, <1>4, RowMembers DEF CorrectRules, Wrote, Kept
  <2>2. CASE Enriched(t) \in Wrote(r)
    <3>1. db'[Enriched(t)] = UserRule(s.category)
      BY <1>2, <1>4, <2>1, <2>2 DEF Following
    <3>2. UserRule(s.category) \in Decisions
      BY <1>1 DEF UserRule, Decisions, Stage
    <3> QED BY <3>1, <3>2, NoRowAssumption DEF Settled
  <2>3. CASE Enriched(t) \notin Wrote(r)
    BY <1>1, <1>4, <2>1, <2>3 DEF Following, Wrote
  <2> QED BY <2>2, <2>3
<1>5. ASSUME NEW h \in House, NEW d \in Descriptor, <<h, d>> # <<s.house, Descr[s.txn]>>
      PROVE  /\ db'[Rule(h, d)] = db[Rule(h, d)]
             /\ db'[Embedding(h, d)] = db[Embedding(h, d)] /\ Embedding(h, d) \notin DOMAIN held[r]
  <2>1. Rule(h, d) \notin DOMAIN held[r] /\ Embedding(h, d) \notin DOMAIN held[r]
    BY <1>1, <1>5 DEF CorrectRules, Wrote
  <2> QED BY <1>1, <2>1, RowMembers
<1>6. stored' = stored /\ Kept(r) \subseteq Alike(s.txn) \cup {s.txn}
  <2>1. Kept(r) \subseteq stored /\ Kept(r) \subseteq Alike(s.txn) \cup {s.txn}
    BY <1>1 DEF CorrectOK, Touched, Kept
  <2> QED BY <1>1, <2>1, CommitStores
<1>7. ASSUME NEW t \in stored', Enriched(t) \notin raced', t \notin skipped'
      PROVE  Current(t)'
  <2>1. t \in stored /\ t \in Txn /\ Home[t] \in House /\ Descr[t] \in Descriptor
    BY <1>1, <1>6, <1>7, DataAssumption
  <2>2. Enriched(t) \notin s.behind
    BY <1>7, CommitRaces
  <2>3. CASE t = s.txn
    <3>1. db'[Enriched(t)] = Correction(s.category) /\ Correction(s.category) \in Decisions
      BY <1>1, <1>3, <2>2, <2>3 DEF Correction, Decisions, Stage
    <3>2. db'[Enriched(t)] # NoRow /\ db'[Enriched(t)].stage = "user_correction"
      BY <3>1, NoRowAssumption DEF Correction
    <3> QED BY <3>2 DEF Current
  <2>4. CASE t \in Alike(s.txn)
    <3>1. own \notin s.behind
      BY <1>7, <2>4, CommitRaces
    <3>2. Rule(Home[t], Descr[t]) = own
      BY <1>1, <2>4 DEF Alike
    <3>3. Settled(db'[Enriched(t)], s.category) /\ db'[own] = v
      BY <1>3, <1>4, <1>7, <2>1, <2>2, <2>4, <3>1
    <3>4. v.category = s.category
      OBVIOUS
    <3> HIDE DEF v, own
    <3> QED BY <3>2, <3>3, <3>4 DEF Current, Settled, UserRule
  <2>5. CASE t # s.txn /\ t \notin Alike(s.txn)
    <3>1. <<Home[t], Descr[t]>> # <<s.house, Descr[s.txn]>>
      BY <1>1, <2>1, <2>5 DEF Alike
    <3>2. db'[Rule(Home[t], Descr[t])] = db[Rule(Home[t], Descr[t])]
      BY <1>5, <2>1, <3>1
    <3>3. Enriched(t) \notin DOMAIN held[r] /\ db'[Enriched(t)] = db[Enriched(t)]
      BY <1>6, <2>1, <2>5, CommitStores DEF Kept
    <3>4. Enriched(t) \notin raced /\ t \notin skipped
      BY <1>1, <1>7, <3>3, CommitRaces DEF Kept
    <3> QED BY <1>1, <2>1, <3>2, <3>3, <3>4 DEF RulesWin, Current
  <2> QED BY <2>3, <2>4, <2>5
<1>8. ASSUME NEW h \in House, NEW d \in Descriptor, db'[Rule(h, d)] # NoRow, Embedding(h, d) \notin raced'
      PROVE  db'[Embedding(h, d)] = db'[Rule(h, d)]
  <2>1. CASE <<h, d>> = <<s.house, Descr[s.txn]>>
    <3>1. h = s.house /\ d = Descr[s.txn]
      BY <2>1
    <3>2. near \notin s.behind /\ own \notin s.behind
      BY <1>8, <3>1, CommitRaces
    <3> QED BY <1>3, <3>1, <3>2
  <2>2. CASE <<h, d>> # <<s.house, Descr[s.txn]>>
    <3>1. Embedding(h, d) \notin raced
      BY <1>5, <1>8, <2>2, CommitRaces
    <3> QED BY <1>1, <1>5, <1>8, <2>2, <3>1 DEF RulesWin
  <2> QED BY <2>1, <2>2
<1> QED BY <1>7, <1>8 DEF RulesWin

LEMMA CommitKeepsRules ==
    ASSUME IInv, RInv, NEW r \in Req, Commit(r)
    PROVE  RInv'
<1> DEFINE s == at[r]
<1>1. /\ RequestRules(r) /\ Typed(r) /\ TablesOK /\ RulesWin /\ RequestOK(r) /\ LocalOK(r)
  BY DEF RInv, RequestRules, IInv, RequestOK
<1>2. TablesOK'
  <2>1. \A x \in Row : db'[x] \in Columns(x) \cup {NoRow}
    BY <1>1, CommitWrites DEF TablesOK, Typed
  <2>2. s.left \subseteq Txn
    BY <1>1 DEF Typed, Local
  <2>3. stored' \subseteq Txn /\ skipped' \subseteq Txn
    BY <1>1, <2>2, CommitStores, CommitRaces DEF TablesOK, Kept
  <2> QED BY <1>1, <2>1, <2>3, CommitWrites, CommitRaces DEF TablesOK, Commit
<1>3. RulesWin'
  <2>1. CASE s.kind = "list"
    <3>1. DOMAIN held[r] \subseteq {Defaults}
      BY <1>1, <2>1 DEF RequestRules, ListRules, Wrote
    <3>2. /\ \A t \in Txn : Enriched(t) \notin DOMAIN held[r] /\ db'[Enriched(t)] = db[Enriched(t)]
          /\ \A h \in House, d \in Descriptor :
               /\ db'[Rule(h, d)] = db[Rule(h, d)] /\ db'[Embedding(h, d)] = db[Embedding(h, d)]
               /\ Embedding(h, d) \notin DOMAIN held[r]
      BY <3>1, CommitWrites, RowMembers, RowKinds
    <3>3. stored' = stored /\ skipped' = skipped
      <4>1. Kept(r) = {} /\ s.left = {}
        BY <1>1, <2>1, <3>2 DEF Kept, LocalOK
      <4> QED BY <4>1, CommitStores, CommitRaces
    <3>4. ASSUME NEW x, x \in raced, x \notin DOMAIN held[r] PROVE x \in raced'
      BY <3>4, CommitRaces
    <3>5. \A t \in stored : t \in Txn /\ Home[t] \in House /\ Descr[t] \in Descriptor
      BY <1>1, DataAssumption DEF TablesOK
    <3>6. \A t \in stored : Current(t)' <=> Current(t)
      BY <3>2, <3>5 DEF Current
    <3> QED BY <1>1, <3>2, <3>3, <3>4, <3>5, <3>6 DEF RulesWin
  <2>2. CASE s.kind = "sync"
    BY <2>2, ImportCommits
  <2>3. CASE s.kind = "correct"
    BY <2>3, CorrectionCommits
  <2> QED BY <1>1, <2>1, <2>2, <2>3 DEF LocalOK, Kind
<1>4. RequestRules(r)'
  <2>1. at'[r] = Idle /\ DOMAIN want'[r] = {} /\ DOMAIN held'[r] = {}
    BY CommitStores DEF IInv, Shapes, Nothing
  <2>2. Idle \in Local
    BY DEF Idle, Local, NoRules, Kind
  <2> QED BY <2>1, <2>2, IdleShape DEF RequestRules, Typed, Wrote, ListRules, SyncRules, CorrectRules
<1> QED BY <1>2, <1>3, <1>4, OthersKeepRules DEF RInv

-----------------------------------------------------------------------------
(* The theorems about rules.                                               *)

LEMMA StartsByRules == Init => RInv
<1> SUFFICES ASSUME Init PROVE RInv
  OBVIOUS
<1>1. Idle \in Local
  BY DEF Idle, Local, NoRules, Kind
<1>2. \A r \in Req : at[r] = Idle /\ DOMAIN want[r] = {} /\ DOMAIN held[r] = {}
  BY DEF Init, Nothing
<1>3. \A r \in Req : RequestRules(r)
  BY <1>1, <1>2, IdleShape DEF RequestRules, Typed, Wrote, ListRules, SyncRules, CorrectRules
<1>4. TablesOK
  BY DataAssumption, BoundAssumption DEF Init, TablesOK
<1>5. RulesWin
  <2>1. \A h \in House, d \in Descriptor : db[Rule(h, d)] = NoRow
    BY RowMembers DEF Init
  <2>2. \A t \in stored : Home[t] \in House /\ Descr[t] \in Descriptor
    BY <1>4, DataAssumption DEF TablesOK
  <2> QED BY <2>1, <2>2 DEF RulesWin, Current
<1> QED BY <1>3, <1>4, <1>5 DEF RInv

LEMMA HoldsByRules == Spec => []RInv
<1>1. ASSUME IInv, RInv, NEW r \in Req, Advance(r)
      PROVE  RInv'
  <2>1. CASE Clean(r) /\ Work(r)
    BY <1>1, <2>1, SeedKeepsRules, CascadeKeepsRules, NextKeepsRules, CorrectionKeepsRules,
       CommitKeepsRules DEF Work
  <2>2. CASE Send(r) \/ Fail(r)
    BY <1>1, <2>2, FlushKeepsRules, FailKeepsRules
  <2> QED BY <1>1, <2>1, <2>2 DEF Advance
<1>2. ASSUME IInv, RInv, Next PROVE RInv'
  BY <1>1, <1>2, BeginKeepsRules DEF Next
<1>3. ASSUME RInv, UNCHANGED vars PROVE RInv'
  <2>1. /\ UNCHANGED <<db, want, held, bank, stored, globals, corrections, at, raced, skipped>>
    BY <1>3 DEF vars, session
  <2>2. TablesOK' /\ RulesWin'
    BY <1>3, <2>1 DEF RInv, TablesOK, RulesWin, Current
  <2>3. ASSUME NEW r \in Req PROVE RequestRules(r)'
    <3>1. RequestRules(r)
      BY <1>3 DEF RInv
    <3>2. /\ Wrote(r)' = Wrote(r) /\ Kept(r)' = Kept(r)
          /\ \A x, v : /\ Becoming(r, x, v)' <=> Becoming(r, x, v)
                       /\ Loaded(r, x)' <=> Loaded(r, x)
                       /\ Following(r, x, v)' <=> Following(r, x, v)
      BY <2>1 DEF Wrote, Kept, Becoming, Loaded, Following
    <3>3. Typed(r)' /\ ListRules(r)' /\ SyncRules(r)'
      BY <2>1, <3>1, <3>2 DEF RequestRules, Typed, ListRules, SyncRules, Agrees
    <3>4. CorrectRules(r)'
      BY <2>1, <3>1, <3>2 DEF RequestRules, CorrectRules
    <3> QED BY <3>3, <3>4 DEF RequestRules
  <2> QED BY <2>2, <2>3 DEF RInv
<1> QED BY StartsByRules, Holds, <1>2, <1>3, PTL DEF Spec

\* What the columns of the rows, the sessions and the local variables of requests hold.
THEOREM TypeCorrect == Spec => []TypeOK
<1>1. ASSUME IInv, RInv PROVE TypeOK
  <2>1. \A x \in Row : Columns(x) \subseteq Value
    <3>1. \A x \in Row : Columns(x) \in {Decisions, Named, {Exists}}
      BY ColumnsFit
    <3> QED BY <3>1 DEF Value
  <2>2. NoRow \in Value
    BY DEF Value
  <2>3. db \in [Row -> Value]
    BY <1>1, <2>1, <2>2 DEF RInv, TablesOK
  <2>4. ASSUME NEW r \in Req
        PROVE  /\ DOMAIN held[r] \subseteq Row /\ \A x \in DOMAIN held[r] : held[r][x] \in Value
               /\ DOMAIN want[r] \subseteq Row
               /\ \A x \in DOMAIN want[r] : want[r][x] \in [was : Value, new : Value]
               /\ at[r] \in Local
    <3>1. Typed(r)
      BY <1>1 DEF RInv, RequestRules
    <3> QED BY <2>1, <2>2, <3>1 DEF Typed, Wrote
  <2>5. at \in [Req -> Local]
    BY <1>1, <2>4 DEF IInv, Shapes
  <2> QED BY <1>1, <2>3, <2>4, <2>5 DEF TypeOK, RInv, TablesOK, IInv, Shapes
<1> QED BY Holds, HoldsByRules, <1>1, PTL

\* "User rules ... Always win" (docs/adr/0006-enrichment-cascade.md:17-18): every stored
\* transaction, and every embedding, whose descriptor has a rule of the household follows it
\* or a correction of its own, unless a request that was overtaken last decided on it, or a
\* failure that sync-mine swallowed left the transaction bare and nothing has corrected it.
THEOREM RulesAlwaysWin == Spec => []RulesWin
<1>1. RInv => RulesWin
  BY DEF RInv
<1> QED BY HoldsByRules, <1>1, PTL
=============================================================================
