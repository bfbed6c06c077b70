----------------------------- MODULE Enrichment -----------------------------
(***************************************************************************)
(* Enrichment: the cascade that categorises imported transactions, and the *)
(* corrections that become rules, as concurrent requests.                  *)
(*                                                                         *)
(* Sources: backend/app/enrichment/{service,router,prefs_service,models,   *)
(* embeddings}.py and backend/app/core/llm.py.                             *)
(*                                                                         *)
(* Merchants, colours and confidences are left out of the rows.  Embedding *)
(* vectors are a relation between descriptors; a vector computed again is  *)
(* the same, as it is within one process.                                  *)
(***************************************************************************)
EXTENDS Tables

CONSTANTS
    House, Txn, Descriptor, Category, Merchant,
    Home,          \* the household of a transaction
    Descr,         \* its normalised descriptor
    GlobalRule,    \* the category of the first global rule a descriptor matches, or NoRow
    Similar,       \* pairs of descriptors whose tokens or vectors are near
    Feeds,         \* the sets of transactions the banks may have
    Proposed,      \* the categories the LLM may propose
    Bare,          \* transactions stored without an enrichment
    MaxWork,       \* bound on the transactions and corrections of a behaviour, together
    Kinds          \* the requests of the run

ASSUME BoundAssumption == MaxWork \in Nat
ASSUME RequestAssumption == IsFiniteSet(Req)
ASSUME DataAssumption ==
    /\ Home \in [Txn -> House] /\ Descr \in [Txn -> Descriptor]
    /\ GlobalRule \in [Descriptor -> Category \cup {NoRow}]
    /\ Proposed \subseteq Category
    /\ \A feed \in Feeds : feed \subseteq Txn /\ IsFiniteSet(feed)

VARIABLES
    bank,          \* the transactions the banks have
    stored,        \* transactions that are stored
    globals,       \* globals[d]: embeddings of d without a household; no key forbids two
    corrections,   \* corrections begun so far
    at,            \* at[r]: where request r is, and its local variables
    raced,         \* observer: rows last decided upon by a request that was overtaken
    skipped        \* observer: transactions stored bare by sync-mine, not corrected since

vars == <<session, bank, stored, globals, corrections, at, raced, skipped>>

\* Rows by their unique keys.
Enriched(t)      == <<"enrichment", t>>
Rule(h, d)       == <<"rule", h, d>>
Embedding(h, d)  == <<"embedding", h, d>>
MerchantRow(m)   == <<"merchant", m>>
Defaults         == <<"categories">>

Rows == {Enriched(t) : t \in Txn}
        \cup {Rule(h, d) : h \in House, d \in Descriptor}
        \cup {Embedding(h, d) : h \in House, d \in Descriptor}
        \cup {MerchantRow(m) : m \in Merchant}
        \cup {Defaults}

ASSUME RowAssumption == Row = Rows

\* What the machine decided (a global rule, an embedding, the LLM) is told apart only in
\* the request that decides.
Stage == {"user_rule", "user_correction", "machine", "unresolved"}
Exists == [exists |-> TRUE]
Decisions == [stage : Stage, category : Category \cup {NoRow}]
Named == [category : Category]

ASSUME NoRowAssumption ==
    NoRow \notin Category \cup Decisions \cup Named \cup {Exists}

Kind == {"sync", "correct", "list"}

\* mine: whether a sync is of sync-mine; house, txn, category: what the request is about;
\* by: who chose the category; todo: transactions still to go through; left: those flushed
\* that a swallowed failure left as they were; rules: the household's rules as read; fresh:
\* global embeddings flushed; behind (observer): rows others stored after it read them.
Local == [pc : {"idle", "seed", "rules", "next", "ask", "named", "index", "left", "correct",
                "rule", "match", "reapply", "store"},
          kind : Kind, mine : BOOLEAN, house : House \cup {NoRow}, txn : Txn \cup {NoRow},
          category : Category \cup {NoRow}, by : {"none", "global_rule", "llm"},
          todo : SUBSET Txn, left : SUBSET Txn,
          rules : [Descriptor -> Category \cup {NoRow}],
          fresh : SUBSET Descriptor, behind : SUBSET Row]

NoRules == [d \in Descriptor |-> NoRow]
Idle == [pc |-> "idle", kind |-> "list", mine |-> FALSE, house |-> NoRow, txn |-> NoRow,
         category |-> NoRow, by |-> "none", todo |-> {}, left |-> {}, rules |-> NoRules,
         fresh |-> {}, behind |-> {}]

Value == Decisions \cup Named \cup {Exists, NoRow}

TypeOK ==
    /\ db \in [Row -> Value]
    /\ \A r \in Req :
         /\ DOMAIN held[r] \subseteq Row /\ \A x \in DOMAIN held[r] : held[r][x] \in Value
         /\ DOMAIN want[r] \subseteq Row
         /\ \A x \in DOMAIN want[r] : want[r][x] \in [was : Value, new : Value]
    /\ bank \in Feeds
    /\ stored \subseteq Txn
    /\ globals \in [Descriptor -> Nat]
    /\ corrections \in 0..MaxWork
    /\ at \in [Req -> Local]
    /\ raced \subseteq Row
    /\ skipped \subseteq Txn

Init ==
    /\ db = [row \in Row |-> NoRow]
    /\ want = [r \in Req |-> Nothing]
    /\ held = [r \in Req |-> Nothing]
    /\ bank \in Feeds
    /\ stored \in SUBSET (Bare \cap bank)
    /\ globals = [d \in Descriptor |-> 0]
    /\ corrections = 0
    /\ at = [r \in Req |-> Idle]
    /\ raced = {}
    /\ skipped = {}

Go(r, new) ==
    /\ at' = [at EXCEPT ![r] = new]
    /\ UNCHANGED <<bank, stored, globals, corrections, raced, skipped>>

Alike(t) == {x \in Txn : Home[x] = Home[t] /\ Descr[x] = Descr[t]} \ {t}

\* What a session has decided, and the rule of the household that should have decided it.
Decided(r) == {x \in DOMAIN held[r] : x[1] \in {"enrichment", "embedding"}}

Decider(x) ==
    IF x[1] = "enrichment" THEN Rule(Home[x[2]], Descr[x[2]]) ELSE Rule(x[2], x[3])

\* The rows a request has read and still goes by, and is not about to overwrite whole.
GoesBy(r) ==
    LET s == at[r] IN
    CASE s.kind = "sync" ->
           {Decider(x) : x \in Decided(r)}
           \cup {Rule(s.house, d) : d \in {e \in Descriptor :
                    s.pc \in {"next", "ask", "named", "index"}}}
      [] s.kind = "correct" /\ s.pc \in {"rule", "index", "match", "reapply", "store"} ->
           {Enriched(s.txn)}
           \cup ({x \in {Rule(s.house, Descr[s.txn])} : s.pc # "rule"} \ DOMAIN want[r])
           \cup ({x \in {Embedding(s.house, Descr[s.txn])} : s.pc \notin {"rule", "index"}}
                  \ DOMAIN want[r])
           \cup {Enriched(x) : x \in {y \in Alike(s.txn) :
                    s.pc = "store" \/ (s.pc = "reapply" /\ y \notin s.todo)}}
      [] OTHER -> {}

-----------------------------------------------------------------------------
(* Reading and creating what is shared.                                    *)

\* ensure_default_categories: the missing ones are inserted and flushed.
SeedDefaults(r) ==
    LET s == at[r] IN
    /\ s.pc = "seed"
    /\ Pend(r, Becomes(Defaults, Sees(r)[Defaults], Exists))
    /\ Go(r, [s EXCEPT !.pc = IF s.kind = "list" THEN "store" ELSE "rules"])

\* get_or_create_merchant, when the code has a name to look for.
Naming(r, m) ==
    IF m = NoRow THEN UNCHANGED session
    ELSE Pend(r, Becomes(MerchantRow(m), Sees(r)[MerchantRow(m)], Exists))

\* index_descriptor for a household: update or insert the one row of its key.
IndexFor(r, h, d, c) ==
    Pend(r, Becomes(Embedding(h, d), Sees(r)[Embedding(h, d)], [category |-> c]))

-----------------------------------------------------------------------------
(* enrich_transactions, within the session of an import.                   *)

\* The transactions of an account that is not being synced: no session has them yet.
Unseen(new) ==
    /\ new # {} /\ new \subseteq bank \ stored
    /\ \A q \in Req : at[q].kind = "sync" =>
         /\ new \cap (at[q].todo \cup at[q].left) = {}
         /\ \A t \in new : Enriched(t) \notin DOMAIN held[q]

\* _apply_snapshot has flushed the new transactions.
BeginSync(r, mine, h, new) ==
    /\ at[r].pc = "idle"
    /\ Unseen(new) /\ \A t \in new : Home[t] = h
    /\ Go(r, [Idle EXCEPT !.pc = "seed", !.kind = "sync", !.mine = mine,
                          !.house = h, !.todo = new])
    /\ UNCHANGED session

\* sync_user_connections goes on to the next connection, of this household or another, in
\* the same session.
NextConnection(r, h, new) ==
    /\ at[r].pc = "left"
    /\ Unseen(new) /\ \A t \in new : Home[t] = h
    /\ Go(r, [at[r] EXCEPT !.pc = "seed", !.house = h, !.todo = new])
    /\ UNCHANGED session

\* An exception that is none of the database ends the request.  In sync-mine it ends only
\* the connection: the session keeps what was flushed, and leaves rest without enrichment.
Raises(r, rest) ==
    LET s == at[r] IN
    IF s.mine
      THEN /\ Go(r, [s EXCEPT !.pc = "left", !.left = @ \cup rest, !.todo = {}, !.txn = NoRow,
                              !.category = NoRow, !.by = "none", !.rules = NoRules])
           /\ UNCHANGED session
      ELSE Rollback(r) /\ Go(r, Idle)

\* The household's rules are read once.
ReadRules(r) ==
    LET s == at[r] IN
    /\ s.pc = "rules" /\ Clean(r)
    /\ Go(r, [s EXCEPT !.pc = "next", !.rules = [d \in Descriptor |->
                IF Sees(r)[Rule(s.house, d)] = NoRow THEN NoRow
                ELSE Sees(r)[Rule(s.house, d)].category]])
    /\ UNCHANGED session

\* The new row is the session's own: nobody else can see the transaction it is for.
Enrich(r, t, stage, c) ==
    /\ held' = [held EXCEPT ![r] = [x \in DOMAIN @ \cup {Enriched(t)} |->
                  IF x = Enriched(t) THEN [stage |-> stage, category |-> c] ELSE @[x]]]
    /\ UNCHANGED <<db, want>>

Done(s, t) == [s EXCEPT !.pc = "next", !.todo = @ \ {t}, !.txn = NoRow,
                        !.category = NoRow, !.by = "none"]

ByUserRule(r, t) ==
    LET s == at[r] IN
    /\ s.pc = "next" /\ t \in s.todo
    /\ s.rules[Descr[t]] # NoRow
    /\ Enrich(r, t, "user_rule", s.rules[Descr[t]])
    /\ Go(r, Done(s, t))

\* Mutant: the global rules come first.
ByGlobalRuleFirst(r, t) ==
    LET s == at[r] IN
    /\ s.pc = "next" /\ t \in s.todo
    /\ GlobalRule[Descr[t]] # NoRow
    /\ \E m \in Merchant \cup {NoRow} : Naming(r, m)
    /\ Go(r, [s EXCEPT !.pc = "named", !.txn = t, !.by = "global_rule",
                       !.category = GlobalRule[Descr[t]]])

\* A global rule names a category and possibly a merchant.
ByGlobalRule(r, t) ==
    LET s == at[r] IN
    /\ s.pc = "next" /\ t \in s.todo
    /\ s.rules[Descr[t]] = NoRow
    /\ GlobalRule[Descr[t]] # NoRow
    /\ \E m \in Merchant \cup {NoRow} : Naming(r, m)
    /\ Go(r, [s EXCEPT !.pc = "named", !.txn = t, !.by = "global_rule",
                       !.category = GlobalRule[Descr[t]]])

\* Enough shared tokens, or near enough vectors.
Near(d) == {p \in Descriptor : <<d, p>> \in Similar}

\* _match_embedding: the household's rows and the global ones, the same descriptor
\* first.
Candidates(r, h, d) ==
    LET rows == {<<p, Sees(r)[Embedding(h, p)].category>> :
                   p \in {x \in Descriptor : Sees(r)[Embedding(h, x)] # NoRow}}
                \cup {<<p, GlobalRule[p]>> :
                        p \in {x \in Descriptor : globals[x] > 0 \/ x \in at[r].fresh}}
        same == {x \in rows : x[1] = d}
    IN  IF same # {} THEN same ELSE {x \in rows : x[1] \in Near(d)}

Match(r, t) ==
    LET s == at[r]
        found == Candidates(r, s.house, Descr[t])
    IN  /\ s.pc = "next" /\ t \in s.todo
        /\ s.rules[Descr[t]] = NoRow
        /\ GlobalRule[Descr[t]] = NoRow
        /\ \/ \E x \in found : Enrich(r, t, "machine", x[2]) /\ Go(r, Done(s, t))
           \/ found = {} /\ UNCHANGED session /\ Go(r, [s EXCEPT !.pc = "ask", !.txn = t])

\* Mutant: the answer's category is not looked for among the categories.
LlmAnswersFreely(r) ==
    LET s == at[r] IN
    /\ s.pc = "ask"
    /\ \E m \in Merchant : Naming(r, m)
    /\ Go(r, [s EXCEPT !.pc = "named", !.by = "llm", !.category = "made up"])

\* propose_merchant_category: an answer above the thresholds, none, or one that is no
\* object or whose confidence is no number, which raises.
LlmAnswers(r) ==
    LET s == at[r] IN
    /\ s.pc = "ask"
    /\ \/ /\ Enrich(r, s.txn, "unresolved", NoRow)
          /\ Go(r, Done(s, s.txn))
       \/ \E c \in Proposed, m \in Merchant :
            /\ Naming(r, m)
            /\ Go(r, [s EXCEPT !.pc = "named", !.by = "llm", !.category = c])
       \/ Raises(r, s.todo)

\* The enrichment row is added once the merchant is there.
AddNamed(r) ==
    LET s == at[r] IN
    /\ s.pc = "named" /\ s.kind = "sync" /\ Clean(r)
    /\ Enrich(r, s.txn, "machine", s.category)
    /\ Go(r, [s EXCEPT !.pc = "index"])

\* Mutant: the global row is inserted unseen.
IndexUnseen(r) ==
    LET s == at[r] IN
    /\ s.pc = "index" /\ s.kind = "sync" /\ s.by = "global_rule"
    /\ UNCHANGED session
    /\ Go(r, [Done(s, s.txn) EXCEPT !.fresh = @ \cup {Descr[s.txn]}])

\* index_descriptor of what a global rule decided: two rows make the SELECT raise, and
\* none is inserted without regard to others.
IndexGlobal(r) ==
    LET s == at[r]
        d == Descr[s.txn]
        rows == globals[d] + IF d \in s.fresh THEN 1 ELSE 0
    IN  /\ s.pc = "index" /\ s.kind = "sync" /\ s.by = "global_rule"
        /\ \/ /\ rows = 0 /\ UNCHANGED session
              /\ Go(r, [Done(s, s.txn) EXCEPT !.fresh = @ \cup {d}])
           \/ rows = 1 /\ UNCHANGED session /\ Go(r, Done(s, s.txn))
           \/ rows > 1 /\ Raises(r, s.todo \ {s.txn})

\* index_descriptor of what the LLM decided, for the household.
IndexAnswer(r) ==
    LET s == at[r] IN
    /\ s.pc = "index" /\ s.kind = "sync" /\ s.by = "llm"
    /\ IndexFor(r, s.house, Descr[s.txn], s.category)
    /\ Go(r, Done(s, s.txn))

-----------------------------------------------------------------------------
(* correct_transaction.                                                    *)

\* The transaction is read with its household, the merchant looked up or created.
BeginCorrect(r, t, c, m) ==
    /\ at[r].pc = "idle"
    /\ t \in stored
    /\ db[Defaults] # NoRow
    /\ Cardinality(bank) + corrections < MaxWork
    /\ corrections' = corrections + 1
    /\ Naming(r, m)
    /\ at' = [at EXCEPT ![r] = [Idle EXCEPT !.pc = "correct", !.kind = "correct",
                                  !.house = Home[t], !.txn = t, !.category = c]]
    /\ UNCHANGED <<bank, stored, globals, raced, skipped>>

\* Its enrichment becomes the user's ...
CorrectRow(r) ==
    LET s == at[r] IN
    /\ s.pc = "correct" /\ Clean(r)
    /\ Pend(r, Becomes(Enriched(s.txn), Sees(r)[Enriched(s.txn)],
                       [stage |-> "user_correction", category |-> s.category]))
    /\ Go(r, [s EXCEPT !.pc = "rule"])

\* ... the rule of its descriptor is made or changed ...
CorrectRule(r) ==
    LET s == at[r]
        rule == Rule(s.house, Descr[s.txn])
    IN
    /\ s.pc = "rule" /\ Clean(r)
    /\ Pend(r, Becomes(rule, Sees(r)[rule], [category |-> s.category]))
    /\ Go(r, [s EXCEPT !.pc = "index"])

\* ... and its embedding.
IndexCorrection(r) ==
    LET s == at[r] IN
    /\ s.pc = "index" /\ s.kind = "correct" /\ Clean(r)
    /\ IndexFor(r, s.house, Descr[s.txn], s.category)
    /\ Go(r, [s EXCEPT !.pc = "match"])

\* _reapply_rule: the household's stored transactions of the same descriptor ...
ReadMatching(r) ==
    LET s == at[r]
        matching == Alike(s.txn) \cap stored
    IN  /\ s.pc = "match" /\ Clean(r)
        /\ Go(r, [s EXCEPT !.pc = IF matching = {} THEN "store" ELSE "reapply",
                           !.todo = matching])
        /\ UNCHANGED session

\* Mutant: explicit corrections are not spared.
ReapplyToAll(r) ==
    LET s == at[r]
        rows == {Enriched(x) : x \in s.todo}
    IN  /\ s.pc = "reapply"
        /\ Pend(r, Changes(rows, Sees(r),
                     [x \in rows |-> [stage |-> "user_rule", category |-> s.category]]))
        /\ Go(r, [s EXCEPT !.pc = "store", !.todo = {}])

\* ... follow the rule, unless they are corrected themselves.
Reapply(r) ==
    LET s == at[r]
        rows == {x \in {Enriched(y) : y \in s.todo} :
                   Sees(r)[x] # NoRow => Sees(r)[x].stage # "user_correction"}
    IN  /\ s.pc = "reapply"
        /\ Pend(r, Changes(rows, Sees(r),
                     [x \in rows |-> [stage |-> "user_rule", category |-> s.category]]))
        /\ Go(r, [s EXCEPT !.pc = "store", !.todo = {}])

-----------------------------------------------------------------------------
(* The other requests, and the end of all.                                 *)

\* list_categories.
BeginList(r) ==
    /\ at[r].pc = "idle"
    /\ Go(r, [Idle EXCEPT !.pc = "seed"])
    /\ UNCHANGED session

\* What r decided upon while it was behind.
Misjudged(r) ==
    LET s == at[r]
    IN  IF s.kind = "sync"
          THEN {x \in Decided(r) : Decider(x) \in s.behind}
          ELSE {x \in s.behind : x[1] \in {"enrichment", "embedding"}}
               \cup IF s.kind = "correct" /\ Rule(s.house, Descr[s.txn]) \in s.behind
                      THEN {Enriched(x) : x \in Alike(s.txn)}
                           \cup {Embedding(s.house, Descr[s.txn])}
                      ELSE {}

\* The request's changes are stored, with what a failure left in the session (sync-mine
\* commits again after each connection, and with its audit record at the end); whoever goes
\* by a row it wrote is now behind.
Commit(r) ==
    LET s == at[r]
        kept == {t \in Txn : Enriched(t) \in DOMAIN held[r]}
    IN
    /\ s.pc \in {"store", "left"} \/ (s.pc = "next" /\ s.todo = {})
    /\ Store(r)
    /\ stored' = stored \cup kept \cup s.left
    /\ skipped' = (skipped \ kept) \cup s.left
    /\ globals' = [d \in Descriptor |-> globals[d] + IF d \in s.fresh THEN 1 ELSE 0]
    /\ at' = [q \in Req |-> IF q = r THEN Idle
                ELSE [at[q] EXCEPT !.behind =
                        @ \cup (DOMAIN held[r] \cap GoesBy(q))]]
    /\ raced' = (raced \ DOMAIN held[r]) \cup Misjudged(r)
    /\ UNCHANGED <<bank, corrections>>

Send(r) == Flush(r) /\ UNCHANGED <<bank, stored, globals, corrections, at, raced, skipped>>

Fail(r) == (FlushFails(r) \/ DeadlockVictim(r)) /\ Go(r, Idle)

-----------------------------------------------------------------------------

Work(r) ==
    \/ SeedDefaults(r) \/ ReadRules(r)
    \/ \E t \in Txn : ByUserRule(r, t) \/ ByGlobalRule(r, t) \/ Match(r, t)
    \/ LlmAnswers(r) \/ AddNamed(r) \/ IndexGlobal(r) \/ IndexAnswer(r)
    \/ \E h \in House, new \in SUBSET Txn : NextConnection(r, h, new)
    \/ CorrectRow(r) \/ CorrectRule(r) \/ IndexCorrection(r) \/ ReadMatching(r) \/ Reapply(r)
    \/ Commit(r)

\* Pending changes are sent before the request goes on.
Advance(r) == IF Clean(r) THEN Work(r) ELSE Send(r) \/ Fail(r)

Begin(r) ==
    \/ \E mine \in BOOLEAN, h \in House, new \in SUBSET Txn :
         (IF mine THEN "mine" ELSE "sync") \in Kinds /\ BeginSync(r, mine, h, new)
    \/ \E t \in Txn, c \in Category, m \in Merchant \cup {NoRow} :
         "correct" \in Kinds /\ BeginCorrect(r, t, c, m)
    \/ "list" \in Kinds /\ BeginList(r)

Next == \E r \in Req : Begin(r) \/ Advance(r)

Spec == Init /\ [][Next]_vars

-----------------------------------------------------------------------------
(* Properties.                                                             *)

Current(t) ==
    LET rule == db[Rule(Home[t], Descr[t])] IN
    rule # NoRow =>
        /\ db[Enriched(t)] # NoRow
        /\ \/ db[Enriched(t)].stage = "user_correction"
           \/ db[Enriched(t)] = [stage |-> "user_rule", category |-> rule.category]

\* "User rules ... Always win" (docs/adr/0006-enrichment-cascade.md:17-18): once a descriptor
\* was corrected, every transaction of the household with it follows the rule or a
\* correction of its own, unless the request that last decided on it was overtaken by one
\* that stored what it went by, or a failure that sync-mine swallowed left it bare and it was
\* not corrected since; the household's embedding follows the rule likewise.
RulesWin ==
    /\ \A t \in stored : Enriched(t) \notin raced /\ t \notin skipped => Current(t)
    /\ \A h \in House, d \in Descriptor :
         db[Rule(h, d)] # NoRow /\ Embedding(h, d) \notin raced =>
            db[Embedding(h, d)] = db[Rule(h, d)]

\* A correction is undone only by a request that had read the row before it was stored.
Survives(t) ==
    (/\ db[Enriched(t)] # NoRow /\ db[Enriched(t)].stage = "user_correction"
     /\ db'[Enriched(t)] # db[Enriched(t)]
     /\ db'[Enriched(t)].stage # "user_correction")
    => \E r \in Req : at'[r].pc = "idle" /\ Enriched(t) \in at[r].behind

\* "never overwriting another explicit correction" (docs/adr/0006-enrichment-cascade.md:33):
\* a correction is undone only by a re-application that had read the row before the
\* correction was stored.
CorrectionsStand == [][\A t \in Txn : Survives(t)]_vars

\* Duplicates of a global embedding come only from syncs that overlapped: once one is
\* stored, whoever looks finds it.
DuplicatesAreBounded == \A d \in Descriptor : globals[d] <= Cardinality(Req)
=============================================================================
