---------------------------- MODULE SignInProofs ----------------------------
(***************************************************************************)
(* Theorems about RateLimit, and about SignIn, which calls it: for any     *)
(* limit and window, any number of requests, codes and attempts.           *)
(***************************************************************************)
EXTENDS SignIn, FiniteSetTheorems, WellFoundedInduction, TLAPS

-----------------------------------------------------------------------------
(* The sliding window.                                                     *)

\* The calls let in are in the order of the clock; those popped are out of the window, and
\* the others fit the limit.
LimiterInv ==
    /\ now \in Nat
    /\ log \in Seq(Nat)
    /\ dropped \in 0..Len(log)
    /\ \A i \in 1..Len(log) : log[i] <= now
    /\ \A i \in 1..dropped : log[i] + Window < now
    /\ Len(log) - dropped <= Limit
    /\ WindowBounds

LEMMA LimiterStarts == LimiterInit => LimiterInv
BY LimitAssumption DEF LimiterInit, LimiterInv, WindowBounds

\* A call is let in only when the one Limit calls before it has been popped.
LEMMA AdmitKeeps == LimiterInv /\ Admit => LimiterInv'
<1> SUFFICES ASSUME LimiterInv, Admit PROVE LimiterInv'
  OBVIOUS
<1> DEFINE n == Len(log)
<1>1. /\ Limit \in Nat /\ Limit > 0 /\ Window \in Nat
      /\ now \in Nat /\ log \in Seq(Nat) /\ n \in Nat
  BY LimitAssumption DEF LimiterInv
<1>2. PICK d \in 0..n : Popped(d) /\ n - d < Limit /\ dropped' = d
  BY DEF Admit
<1>3. \A i \in 1..d : log[i] + Window < now
  BY <1>2 DEF LimiterInv, Popped
<1>4. log' = Append(log, now) /\ now' = now
  BY DEF Admit
<1>5. /\ log' \in Seq(Nat) /\ Len(log') = n + 1
      /\ log'[n + 1] = now
      /\ \A i \in 1..n : log'[i] = log[i] /\ log[i] \in Nat
  BY <1>1, <1>4
<1>6. \A i \in 1..n : log[i] <= now
  BY DEF LimiterInv
<1>7. \A i \in 1..n : i + Limit <= n => log[i + Limit] > log[i] + Window
  BY DEF LimiterInv, WindowBounds
<1> HIDE DEF n
<1>8. ASSUME NEW i \in 1..n + 1, i + Limit <= n + 1
      PROVE  log'[i + Limit] > log'[i] + Window
  <2>1. i \in 1..n
    BY <1>1, <1>8
  <2>2. CASE i + Limit = n + 1
    <3>1. i \in 1..d
      BY <1>1, <1>2, <2>1, <2>2
    <3>2. log[i] + Window < now /\ log'[i] = log[i]
      BY <1>3, <1>5, <2>1, <3>1
    <3>3. log'[i + Limit] = now
      BY <1>5, <2>2
    <3> QED BY <1>1, <1>5, <2>1, <3>2, <3>3
  <2>3. CASE i + Limit <= n
    <3>1. i + Limit \in 1..n
      BY <1>1, <2>1, <2>3
    <3> QED BY <1>5, <1>7, <2>1, <2>3, <3>1
  <2> QED BY <1>1, <1>8, <2>1, <2>2, <2>3
<1>9. \A i \in 1..n + 1 : log'[i] <= now'
  <2> SUFFICES ASSUME NEW i \in 1..n + 1 PROVE log'[i] <= now'
    OBVIOUS
  <2>1. i \in 1..n \/ i = n + 1
    BY <1>1
  <2> QED BY <1>1, <1>4, <1>5, <1>6, <2>1
<1>10. \A i \in 1..d : log'[i] + Window < now'
  BY <1>1, <1>2, <1>3, <1>4, <1>5
<1>11. d \in 0..n + 1 /\ n + 1 - d <= Limit
  BY <1>1, <1>2
<1>12. WindowBounds'
  BY <1>5, <1>8 DEF WindowBounds
<1>13. /\ \A i \in 1..Len(log') : log'[i] <= now'
       /\ \A i \in 1..dropped' : log'[i] + Window < now'
       /\ dropped' \in 0..Len(log') /\ Len(log') - dropped' <= Limit
  <2>1. dropped' = d /\ Len(log') = n + 1
    BY <1>2, <1>5
  <2>2. \A i \in 1..Len(log') : log'[i] <= now'
    BY <2>1, <1>9
  <2>3. \A i \in 1..dropped' : log'[i] + Window < now'
    BY <2>1, <1>10
  <2>4. dropped' \in 0..Len(log') /\ Len(log') - dropped' <= Limit
    BY <1>1, <2>1, <1>11
  <2> QED BY <2>2, <2>3, <2>4
<1> QED BY <1>1, <1>4, <1>5, <1>12, <1>13 DEF LimiterInv

LEMMA RefuseKeeps == LimiterInv /\ Refuse => LimiterInv'
<1> SUFFICES ASSUME LimiterInv, Refuse PROVE LimiterInv'
  OBVIOUS
<1> USE LimitAssumption DEF LimiterInv
<1>1. PICK d \in 0..Len(log) :
        Popped(d) /\ dropped' = d
  BY DEF Refuse
<1>2. /\ d \in dropped..Len(log)
      /\ \A i \in dropped + 1..d : log[i] + Window < now
  BY <1>1 DEF Popped
<1>3. log' = log /\ now' = now
  BY DEF Refuse
<1>4. \A i \in 1..d : log[i] + Window < now
  BY <1>2
<1> QED BY <1>1, <1>2, <1>3, <1>4 DEF WindowBounds

LEMMA TickKeeps == LimiterInv /\ Tick => LimiterInv'
<1> SUFFICES ASSUME LimiterInv, Tick PROVE LimiterInv'
  OBVIOUS
<1>1. now' = now + 1 /\ log' = log /\ dropped' = dropped
  BY DEF Tick
<1> QED BY <1>1, LimitAssumption DEF LimiterInv, WindowBounds

LEMMA LimiterStays == LimiterInv /\ UNCHANGED limiter => LimiterInv'
BY DEF LimiterInv, limiter, WindowBounds

-----------------------------------------------------------------------------
(* Sign-in keeps to it.                                                    *)

\* A request consults the limiter once, when a second factor is offered; the clock runs by
\* itself; no other step touches either.
LEMMA OnlyVerifyIsLimited ==
    ASSUME [Next]_vars
    PROVE  Admit \/ Refuse \/ Tick \/ UNCHANGED limiter
<1> USE DEF Go
<1>1. CASE UNCHANGED vars
  BY <1>1 DEF vars
<1>2. CASE Time
  BY <1>2 DEF Time
<1>3. ASSUME NEW r \in Req, Begin(r)
      PROVE  Admit \/ Refuse \/ UNCHANGED limiter
  <2>1. ASSUME NEW p, Register(r, p) \/ Login(r, p) PROVE UNCHANGED limiter
    BY <2>1 DEF Register, Login, Change1
  <2>2. CASE Callback(r)
    BY <2>2 DEF Callback, OAuth
  <2>3. CASE Resend(r) \/ TurnedAway(r) \/ TurnedDown(r)
    BY <2>3 DEF Resend, TurnedAway, TurnedDown, vars
  <2>4. CASE Enroll(r) \/ Activate(r) \/ Regenerate(r)
    BY <2>4 DEF Enroll, Activate, Regenerate
  <2>5. ASSUME NEW g, Verify(r, g) \/ Delete(r, g) PROVE Admit \/ UNCHANGED limiter
    BY <2>5 DEF Verify, Delete
  <2>6. ASSUME NEW kind, NEW on, SetMfa(r, kind, on) PROVE UNCHANGED limiter
    BY <2>6 DEF SetMfa, Change1
  <2>7. CASE Forgot(r) \/ AskDelete(r)
    BY <2>7 DEF Forgot, AskDelete
  <2>8. ASSUME NEW x, NEW p, Reset(r, x, p) PROVE UNCHANGED limiter
    BY <2>8 DEF Reset
  <2> QED BY <1>3, <2>1, <2>2, <2>3, <2>4, <2>5, <2>6, <2>7, <2>8 DEF Begin
<1>4. ASSUME NEW r \in Req, Advance(r)
      PROVE  UNCHANGED limiter
  <2>1. CASE Refresh(r) \/ IssueCode(r) \/ Close(r) \/ IssueToken(r)
    BY <2>1 DEF Refresh, IssueCode, Close, IssueToken
  <2>2. CASE CompareLogin(r) \/ CompareDeletion(r)
    BY <2>2 DEF CompareLogin, CompareDeletion, Attempt
  <2>3. CASE CheckTotp(r) \/ CheckRecovery(r) \/ CheckFails(r)
    BY <2>3 DEF CheckTotp, CheckRecovery, CheckFails
  <2>4. CASE Apply(r) \/ Consume(r) \/ Revoke(r)
    BY <2>4 DEF Apply, Consume, Revoke
  <2>5. CASE Commit(r)
    BY <2>5 DEF Commit
  <2>6. CASE Send(r) \/ Fail(r)
    BY <2>6 DEF Send, Fail
  <2> QED BY <1>4, <2>1, <2>2, <2>3, <2>4, <2>5, <2>6 DEF Advance, Work
<1> QED BY <1>1, <1>2, <1>3, <1>4 DEF Next

\* core/rate_limit.py: whatever requests do, any Limit + 1 successive second factors that
\* are let in are further apart than the window.
THEOREM GuessesAreLimited == Spec => []WindowBounds
<1>1. Init => LimiterInv
  BY LimiterStarts DEF Init
<1>2. LimiterInv /\ [Next]_vars => LimiterInv'
  BY AdmitKeeps, RefuseKeeps, TickKeeps, LimiterStays, OnlyVerifyIsLimited
<1>3. LimiterInv => WindowBounds
  BY DEF LimiterInv
<1> QED BY <1>1, <1>2, <1>3, PTL DEF Spec

\* The calls let in are in the order in which they were made.
Ordered == \A i, j \in 1..Len(log) : i <= j => log[i] <= log[j]

LEMMA OrderKept ==
    ASSUME LimiterInv, Ordered, Admit \/ Refuse \/ Tick \/ UNCHANGED limiter
    PROVE  Ordered'
<1>1. CASE log' = log
  BY <1>1 DEF Ordered
<1>2. CASE Admit
  <2> DEFINE n == Len(log)
  <2>1. n \in Nat /\ now \in Nat /\ \A i \in 1..n : log[i] \in Nat /\ log[i] <= now
    BY DEF LimiterInv
  <2>2. /\ Len(log') = n + 1 /\ log'[n + 1] = now
        /\ \A i \in 1..n : log'[i] = log[i]
    BY <1>2, <2>1 DEF Admit, LimiterInv
  <2> SUFFICES ASSUME NEW i \in 1..n + 1, NEW j \in 1..n + 1, i <= j
               PROVE  log'[i] <= log'[j]
    BY <2>2 DEF Ordered
  <2> HIDE DEF n
  <2>3. CASE j = n + 1
    <3>1. i \in 1..n \/ i = n + 1
      BY <2>1
    <3> QED BY <2>1, <2>2, <2>3, <3>1
  <2>4. CASE j # n + 1
    <3>1. i \in 1..n /\ j \in 1..n
      BY <2>1, <2>4
    <3> QED BY <2>2, <3>1 DEF Ordered, n
  <2> QED BY <2>3, <2>4
<1> QED BY <1>1, <1>2 DEF Refuse, Tick, limiter

\* What is behind an entry of the window is in it, too.
LEMMA OrderCounts ==
    ASSUME LimiterInv, Ordered
    PROVE  CountsTheWindow
<1> DEFINE n == Len(log)
           inside == {i \in 1..n : log[i] + Window >= now}
<1>1. /\ n \in Nat /\ now \in Nat /\ Window \in Nat /\ dropped \in 0..n
      /\ \A i \in 1..n : log[i] \in Nat
      /\ \A i \in 1..dropped : log[i] + Window < now
  BY LimitAssumption DEF LimiterInv
<1> SUFFICES ASSUME NEW d \in 0..n, Popped(d) PROVE n - d = Cardinality(inside)
  BY DEF CountsTheWindow
<1>2. /\ d >= dropped
      /\ \A i \in dropped + 1..d : log[i] + Window < now
      /\ d < n => log[d + 1] + Window >= now
  BY <1>1 DEF Popped
<1> HIDE DEF n
<1>3. ASSUME NEW i \in 1..n PROVE log[i] + Window >= now <=> i > d
  <2>1. CASE i <= d
    <3>1. log[i] + Window < now
      BY <1>1, <1>2, <2>1
    <3> QED BY <1>1, <2>1, <3>1
  <2>2. CASE i > d
    <3>1. d + 1 \in 1..n /\ d + 1 <= i
      BY <1>1, <2>2
    <3>2. log[d + 1] <= log[i]
      BY <3>1 DEF Ordered, n
    <3>3. log[d + 1] + Window >= now
      BY <1>1, <1>2, <3>1
    <3> QED BY <1>1, <2>2, <3>1, <3>2, <3>3
  <2> QED BY <1>1, <2>1, <2>2
<1>4. inside = d + 1..n
  BY <1>1, <1>3
<1>5. Cardinality(d + 1..n) = n - d
  <2>1. Cardinality(d + 1..n) = IF d + 1 > n THEN 0 ELSE n - (d + 1) + 1
    BY <1>1, FS_Interval
  <2> QED BY <1>1, <2>1
<1> QED BY <1>4, <1>5

\* core/rate_limit.py: what a call is decided by are exactly the calls of its window, so that
\* nobody is turned away for calls that are over.
THEOREM WindowIsExact == Spec => []CountsTheWindow
<1>1. Init => LimiterInv /\ Ordered
  BY LimiterStarts DEF Init, LimiterInit, Ordered
<1>2. LimiterInv /\ Ordered /\ [Next]_vars => LimiterInv' /\ Ordered'
  BY AdmitKeeps, RefuseKeeps, TickKeeps, LimiterStays, OnlyVerifyIsLimited, OrderKept
<1>3. LimiterInv /\ Ordered => CountsTheWindow
  BY OrderCounts
<1> QED BY <1>1, <1>2, <1>3, PTL DEF Spec

-----------------------------------------------------------------------------
(* Rows and records.                                                       *)

SessionRows == {"session"} \X Key
CodeTables == {"login", "deletion", "reset"}
TableRows(t) == {t} \X Key
RowType(x) == IF x = Account THEN User ELSE IF x \in CodeRows THEN Code ELSE Token
Writes(r) == DOMAIN want[r] \cup DOMAIN held[r]

LEMMA RowNames ==
    /\ Row = {Account} \cup CodeRows \cup SessionRows
    /\ Account \notin CodeRows /\ Account \notin SessionRows /\ Account[1] = "user"
    /\ CodeRows \subseteq Guess /\ NoRow \notin CodeRows
BY RowAssumption, NoRowAssumption DEF Rows, SessionRows, Account, CodeRows, Guess

LEMMA TablesAre ==
    /\ \A x \in CodeRows : x[1] \in CodeTables /\ x \in TableRows(x[1]) /\ x[1] # "session"
                           /\ x \notin SessionRows
    /\ \A t \in CodeTables : \A x \in TableRows(t) : x \in CodeRows /\ x[1] = t
    /\ \A x \in SessionRows : x[1] = "session" /\ x \notin CodeRows
    /\ \A t, k : k \in Key => <<t, k>> \in TableRows(t)
    /\ \A t, x : x \in TableRows(t) => x = <<t, x[2]>> /\ x[2] \in Key /\ x[1] = t
    /\ SessionRows = TableRows("session")
BY DEF CodeRows, CodeTables, TableRows, SessionRows

LEMMA RowTypes ==
    /\ RowType(Account) = User
    /\ \A x \in CodeRows : RowType(x) = Code
    /\ \A x \in SessionRows : RowType(x) = Token
    /\ \A x : NoRow \notin RowType(x) /\ RowType(x) \subseteq Value
BY RowNames, TablesAre, NoRowAssumption DEF RowType, Value

\* Only the columns a request changed are sent.
LEMMA UserSent ==
    ASSUME NEW was \in User, NEW new \in User, NEW old \in User
    PROVE  LET v == Sent(Change(was, new), old) IN
           /\ v \in User
           /\ was = old => v = new
           /\ v.password = IF was.password = new.password THEN old.password ELSE new.password
           /\ v.codes = IF was.codes = new.codes THEN old.codes ELSE new.codes
           /\ v.secret = IF was.secret = new.secret THEN old.secret ELSE new.secret
           /\ v.provider = IF was.provider = new.provider THEN old.provider ELSE new.provider
<1> DEFINE v == Sent(Change(was, new), old)
<1>1. v = [f \in {"password", "mfa", "secret", "codes", "provider"} |->
             IF was[f] = new[f] THEN old[f] ELSE new[f]]
  BY NoRowAssumption DEF Sent, Change, User
<1> QED BY <1>1 DEF User

LEMMA CodeSent ==
    ASSUME NEW was \in Code, NEW new \in Code, NEW old \in Code
    PROVE  LET v == Sent(Change(was, new), old) IN
           /\ v \in Code
           /\ v.open = IF was.open = new.open THEN old.open ELSE new.open
           /\ v.attempts = IF was.attempts = new.attempts THEN old.attempts ELSE new.attempts
<1> DEFINE v == Sent(Change(was, new), old)
<1>1. v = [f \in {"open", "attempts", "born"} |-> IF was[f] = new[f] THEN old[f] ELSE new[f]]
  BY NoRowAssumption DEF Sent, Change, Code
<1> QED BY <1>1 DEF Code

LEMMA TokenSent ==
    ASSUME NEW was \in Token, NEW new \in Token, NEW old \in Token
    PROVE  LET v == Sent(Change(was, new), old) IN
           /\ v \in Token
           /\ v.live = IF was.live = new.live THEN old.live ELSE new.live
<1> DEFINE v == Sent(Change(was, new), old)
<1>1. v = [f \in {"live", "by"} |-> IF was[f] = new[f] THEN old[f] ELSE new[f]]
  BY NoRowAssumption DEF Sent, Change, Token
<1> QED BY <1>1 DEF Token

LEMMA NewSent ==
    ASSUME NEW x, NEW was, NEW new \in RowType(x)
    PROVE  Sent(Change(was, new), NoRow) = new
BY DEF Sent, Change

\* The fields of a request.
Fields == {"pc", "kind", "user", "row", "guess", "password", "then", "claims", "behind"}

LEMMA IsLocal ==
    ASSUME NEW s
    PROVE  s \in Local <=>
             /\ s = [f \in Fields |-> s[f]]
             /\ s.pc \in {"idle", "refresh", "issue", "guess", "check", "close", "apply",
                          "consume", "revoke", "token", "store"}
             /\ s.kind \in Kind /\ s.user \in User \cup {NoRow} /\ s.row \in CodeRows \cup {NoRow}
             /\ s.guess \in Guess \cup {NoRow} /\ s.password \in Password \cup {NoRow}
             /\ s.then \in {"idle", "refresh", "check", "close", "token"}
             /\ s.claims \in Guess \cup {NoRow} /\ s.behind \in SUBSET Row
<1>1. ASSUME s \in Local PROVE s = [f \in Fields |-> s[f]]
  BY <1>1 DEF Local, Fields
<1> QED BY <1>1 DEF Local, Fields

LEMMA CodesAre ==
    ASSUME NEW u \in User, u.codes # NoRow
    PROVE  u.codes \subseteq Recovery /\ \A k \in u.codes : k \in Recovery /\ k[1] \in Key /\ k[1] \in Nat
<1>1. u.codes \in SUBSET Recovery
  BY DEF User
<1>2. \A k \in Recovery : k[1] \in Key /\ k[1] \in Nat
  BY BoundAssumption DEF Recovery, Key
<1> QED BY <1>1, <1>2

-----------------------------------------------------------------------------
(* Where a request may be, and what it may write there.                    *)

Setters == {"register", "enroll", "activate", "regenerate", "disable", "enable"}
Issuers == {"oauth", "login", "resend", "forgot", "askdelete"}

\* A request that makes a code is of one of these kinds and will end with its commit.
Stores(s) == s.pc = "store"
SetsUp(s) == Stores(s) /\ s.kind \in Setters \cup {"oauth"} /\ (s.kind = "oauth" => s.then = "refresh")

PcOK(s) ==
    \/ s.pc = "idle"
    \/ s.pc = "refresh" /\ s.kind = "oauth"
    \/ s.pc = "issue" /\ s.kind \in Issuers
    \/ s.pc = "guess" /\ s.kind \in {"verify", "delete"}
    \/ s.pc = "check" /\ s.kind = "verify"
    \/ s.pc = "close" /\ s.kind = "delete"
    \/ s.pc \in {"apply", "consume", "revoke"} /\ s.kind = "reset"
    \/ s.pc = "token" /\ s.kind \in {"oauth", "login", "verify"}
    \/ s.pc = "store" /\ s.then = "idle"
    \/ s.pc = "store" /\ <<s.kind, s.then>> \in {<<"oauth", "refresh">>, <<"verify", "token">>,
                                                <<"verify", "check">>, <<"delete", "close">>}

\* The code a request claims to be right.
Claims(s) ==
    \/ s.kind = "verify" /\ s.pc = "store" /\ s.then = "token"
    \/ s.kind = "delete" /\ s.pc \in {"close", "store"}
    \/ s.kind = "reset" /\ s.pc = "store"

LocalOK(s) ==
    /\ s \in Local /\ PcOK(s)
    /\ s.row \in CASE s.kind = "verify" -> TableRows("login") \cup {NoRow}
                   [] s.kind = "delete" -> TableRows("deletion") \cup {NoRow}
                   [] s.kind = "reset"  -> TableRows("reset")
                   [] OTHER             -> {NoRow}
    /\ s.pc = "close" \/ (Stores(s) /\ (s.kind = "delete" \/ s.then = "check")) => s.row # NoRow
    /\ s.claims # NoRow =>
         /\ Claims(s)
         /\ \/ s.claims = s.row
            \/ s.kind = "verify" /\ s.claims = s.guess /\ IsRecovery(s.user, s.guess)
    /\ Stores(s) /\ s.then = "token" => s.claims # NoRow
    /\ s.user = NoRow => \/ s.pc = "idle" \/ s.kind \in {"resend", "forgot", "askdelete"}
                         \/ s.pc = "apply" \/ s.kind = "register" \/ s.kind = "oauth"
    /\ s.kind \notin {"login", "reset"} => s.password = NoRow
    /\ s.kind \in {"verify", "delete"} => s.guess # NoRow
    /\ s.kind = "reset" => s.then = "idle"

\* The rows a request may have pending or sent.
Scope(s) ==
    CASE s.pc = "close"   -> {s.row}
      [] s.pc = "consume" -> {Account}
      [] s.pc = "revoke"  -> {Account, s.row}
      [] SetsUp(s)        -> {Account}
      [] Stores(s) /\ s.kind \in Issuers /\ ~ SetsUp(s) ->
            TableRows(Table(s.kind)) \cup (IF s.kind \in {"oauth", "login"} THEN SessionRows ELSE {})
      [] Stores(s) /\ s.kind = "verify" -> IF s.then = "idle" THEN SessionRows
                                           ELSE IF s.claims = s.row \/ s.then = "check" THEN {s.row}
                                           ELSE {Account}
      [] Stores(s) /\ s.kind = "delete" -> {s.row}
      [] Stores(s) /\ s.kind = "reset" -> {Account, s.row} \cup SessionRows
      [] OTHER -> {}

\* Requests whose guess at a code is compared, or that close it for that.
Guesses(s) == s.kind \in {"verify", "delete"}

-----------------------------------------------------------------------------
(* The rows.                                                               *)

Shapes ==
    /\ LimiterInv /\ LimiterTypeOK
    /\ scene \in Scenes /\ generation \in 0..MaxRow
    /\ DOMAIN db = Row /\ DOMAIN want = Req /\ DOMAIN held = Req /\ DOMAIN at = Req
    /\ \A x \in Row : db[x] \in RowType(x) \cup {NoRow}
    /\ \A r \in Req : LocalOK(at[r])
    /\ \A r \in Req : \A x \in DOMAIN want[r] :
          want[r][x] \in [was : RowType(x) \cup {NoRow}, new : RowType(x)]
    /\ \A r \in Req : \A x \in DOMAIN held[r] : held[r][x] \in RowType(x)
    /\ looked \in [CodeRows -> Nat]
    /\ accepted \subseteq Guess /\ replayed \subseteq accepted
    /\ proven \subseteq Key /\ raced \subseteq Row

ScopeOK == \A r \in Req : Writes(r) \subseteq Scope(at[r])

\* A row that is new is written by one request, and a request makes one.
NewRowsOK ==
    \A r \in Req : \A x \in Writes(r) \ {Account} : db[x] = NoRow =>
        /\ \A q \in Req \ {r} : x \notin Writes(q)
        /\ \A y \in Writes(r) : x = y \/ db[y] # NoRow

\* There is room for what requests may still store.
AllTables == {"login", "deletion", "reset", "session"}
Used(table) == {k \in Key : db[<<table, k>>] # NoRow}
Room == \A table \in AllTables : Cardinality(Used(table)) + Cardinality(Busy) <= MaxRow

\* Without an account there is nothing but its registration.
Known ==
    db[Account] = NoRow =>
        /\ \A x \in Row : db[x] = NoRow
        /\ \A r \in Req : at[r].pc # "idle" => SetsUp(at[r]) /\ at[r].user = NoRow

-----------------------------------------------------------------------------
(* The account.                                                            *)

CodesBound(v, g) == v.codes # NoRow => \A k \in v.codes : k[1] <= g

\* What a request that writes the account makes of it, its secrets and codes no later
\* than gen.
Intends(s, v, gen, prov) ==
    /\ v \in User /\ CodesBound(v, gen)
    /\ s.user = NoRow => s.kind \in {"register", "oauth"} /\ v.codes = NoRow
    /\ s.user # NoRow =>
         /\ s.kind # "register"
         /\ s.kind # "reset" => v.password = s.user.password
         /\ s.user.provider # NoRow => v.provider = s.user.provider
         /\ CASE s.kind = "verify" -> /\ v.secret = s.user.secret
                                      /\ s.user.codes # NoRow /\ v.codes = s.user.codes \ {s.claims[2]}
              [] s.kind = "enroll" -> v.codes = NoRow
              [] s.kind \in {"activate", "regenerate"} ->
                     /\ v.secret = s.user.secret
                     /\ v.codes # NoRow /\ v.codes # s.user.codes
                     /\ \E g \in 1..gen : v.codes = Codes(g)
                     /\ s.kind = "activate" => s.user.secret \in prov
                     /\ s.kind = "regenerate" => s.user.codes # NoRow
              [] OTHER -> v.secret = s.user.secret /\ v.codes = s.user.codes

\* Requests that still go by the account as they loaded it.
GoesByUser(s) ==
    \/ Account \in Scope(s)
    \/ s.kind = "verify" /\ s.pc \in {"guess", "check"}
    \/ s.kind = "verify" /\ Stores(s) /\ s.then = "check"

AccountOK(r) ==
    LET s == at[r] IN
    /\ s.user # NoRow => CodesBound(s.user, generation)
    /\ s.row # NoRow => db[s.row] # NoRow
    /\ Stores(s) /\ Account \in Scope(s) /\ (s.user = NoRow \/ s.kind = "verify") =>
         Account \in Writes(r)
    /\ Account \in DOMAIN want[r] =>
         /\ Account \notin DOMAIN held[r] /\ want[r][Account].was = s.user
         /\ Intends(s, want[r][Account].new, generation, proven)
    /\ Account \in DOMAIN held[r] =>
         /\ s.user = NoRow <=> db[Account] = NoRow
         /\ \E v \in User : /\ Intends(s, v, generation, proven)
                            /\ held[r][Account] = Sent(Change(s.user, v), db[Account])
    /\ GoesByUser(s) /\ Account \notin s.behind => s.user = db[Account]
    /\ s.kind = "login" /\ s.pc # "idle" /\ Account \notin s.behind => s.password = db[Account].password

\* r makes the codes of generation g.
Makes(r, g) ==
    /\ Stores(at[r]) /\ at[r].kind \in {"activate", "regenerate"}
    /\ \/ Account \in DOMAIN want[r] /\ want[r][Account].new.codes = Codes(g)
       \/ Account \in DOMAIN held[r] /\ held[r][Account].codes = Codes(g)

\* While nobody was overtaken, the codes of the account are those of one generation that
\* were not accepted, and those in the making are others.
CodesOK ==
    /\ db[Account] # NoRow => CodesBound(db[Account], generation)
    /\ \A k \in Recovery : <<"recovery", k>> \in accepted => k[1] <= generation
    /\ \A r \in Req, g \in Key : Makes(r, g) =>
         /\ \A q \in Req \ {r} : ~ Makes(q, g)
         /\ Account \notin raced => \A k \in Codes(g) : <<"recovery", k>> \notin accepted
    /\ Account \notin raced /\ db[Account] # NoRow /\ db[Account].codes # NoRow =>
         /\ \A k \in db[Account].codes : <<"recovery", k>> \notin accepted
         /\ \A r \in Req, g \in Key : Makes(r, g) => Codes(g) \cap db[Account].codes = {}

-----------------------------------------------------------------------------
(* Emailed codes and links.                                                *)

\* r makes a new code of a table.
Issues(s, t) == Stores(s) /\ s.then = "idle" /\ s.kind \in Issuers /\ t = Table(s.kind)

CodeOK(r, x) ==
    LET s == at[r] IN
    /\ x \in DOMAIN want[r] =>
         LET c == want[r][x] IN
         /\ c.was = NoRow <=> db[x] = NoRow
         /\ c.was = NoRow => x \notin DOMAIN held[r] /\ Issues(s, x[1]) /\ c.new.open /\ c.new.attempts = 0
         /\ c.was # NoRow =>
              /\ c.new.open => c.was.open
              /\ x \notin s.behind => c.was = Sees(r)[x]
              /\ ~ Guesses(s) => c.new.attempts = c.was.attempts
              /\ Issues(s, x[1]) => ~ c.new.open
    /\ x \in DOMAIN held[r] =>
         LET h == held[r][x] IN
         /\ db[x] = NoRow => Issues(s, x[1]) /\ h.open /\ h.attempts = 0
         /\ db[x] # NoRow =>
              /\ h.open => db[x].open
              /\ ~ Guesses(s) => h.attempts = db[x].attempts
              /\ Issues(s, x[1]) => ~ h.open \/ x \in s.behind

\* Of the codes r read as open, it closes all.
ClosesOthers(r) ==
    \A t \in CodeTables :
        /\ Issues(at[r], t) /\ Writes(r) \cap TableRows(t) # {} /\ at[r].behind \cap TableRows(t) = {} =>
             \A y \in TableRows(t) : db[y] # NoRow /\ db[y].open => y \in Writes(r)

\* When r stores c, it is closed.
Closes(r, c) ==
    IF c \in DOMAIN want[r] THEN want[r][c].was.open /\ ~ want[r][c].new.open
    ELSE IF c \in DOMAIN held[r] THEN ~ held[r][c].open
    ELSE ~ db[c].open

\* The code a request goes by as a good one.
GoesByCode(s) ==
    ({s.claims} \cap CodeRows)
        \cup (IF s.kind = "reset" /\ s.pc \in {"apply", "consume", "revoke"} THEN {s.row} ELSE {})

ClaimOK(r) ==
    \A c \in GoesByCode(at[r]) :
        /\ db[c] # NoRow
        /\ c \notin at[r].behind => db[c].open
        /\ at[r].pc \in {"revoke", "store"} => Closes(r, c)

AcceptedOK == \A c \in accepted \cap CodeRows : db[c] # NoRow /\ ~ db[c].open

\* Guesses at x that are not stored yet, and what r makes of the counter.
InFlight(x) == {r \in Req : Guesses(at[r]) /\ x \in Writes(r)}
Count(r, x) ==
    LET base == IF x \in DOMAIN held[r] THEN held[r][x].attempts ELSE db[x].attempts IN
    IF x \in DOMAIN want[r] THEN base + want[r][x].new.attempts - want[r][x].was.attempts ELSE base

Counted(x) ==
    /\ db[x] = NoRow => looked[x] = 0
    /\ db[x] # NoRow /\ x \notin raced =>
         /\ InFlight(x) = {} => looked[x] = db[x].attempts
         /\ \A r \in Req : InFlight(x) = {r} /\ x \notin at[r].behind => looked[x] = Count(r, x)

-----------------------------------------------------------------------------
(* Sessions.                                                               *)

TokenOK(r, x) ==
    LET s == at[r] IN
    /\ x \in DOMAIN want[r] =>
         /\ want[r][x].was = NoRow <=> db[x] = NoRow
         /\ want[r][x].was = NoRow => s.kind # "reset" /\ want[r][x].new.by = s.password
         /\ want[r][x].was # NoRow => s.kind = "reset" /\ want[r][x].was.live /\ ~ want[r][x].new.live
    /\ x \in DOMAIN held[r] =>
         /\ db[x] = NoRow => s.kind # "reset" /\ held[r][x].by = s.password
         /\ db[x] # NoRow => s.kind = "reset" /\ ~ held[r][x].live

EndsAll(r) ==
    Stores(at[r]) /\ at[r].kind = "reset" =>
        \A x \in SessionRows : db[x] # NoRow /\ db[x].live => x \in Writes(r) \cup at[r].behind

-----------------------------------------------------------------------------

ReqOK(r) ==
    /\ AccountOK(r) /\ ClosesOthers(r) /\ ClaimOK(r) /\ EndsAll(r)
    /\ \A x \in CodeRows : CodeOK(r, x)
    /\ \A x \in SessionRows : TokenOK(r, x)

IInv ==
    /\ Shapes /\ ScopeOK /\ LocksExclude /\ NewRowsOK /\ Room /\ Known
    /\ CodesOK /\ AcceptedOK
    /\ \A x \in CodeRows : Counted(x)
    /\ \A r \in Req : ReqOK(r)
    /\ OneTime /\ OneOpenCode /\ AuthenticatorIsProven /\ ResetEndsSessions

-----------------------------------------------------------------------------
(* Where requests are.                                                     *)

LEMMA IdleIs ==
    /\ Idle.pc = "idle" /\ Idle.kind = "login" /\ Idle.user = NoRow /\ Idle.row = NoRow
    /\ Idle.guess = NoRow /\ Idle.password = NoRow /\ Idle.then = "idle" /\ Idle.claims = NoRow
    /\ Idle.behind = {}
    /\ LocalOK(Idle) /\ Scope(Idle) = {}
<1>1. /\ Idle.pc = "idle" /\ Idle.kind = "login" /\ Idle.user = NoRow /\ Idle.row = NoRow
      /\ Idle.guess = NoRow /\ Idle.password = NoRow /\ Idle.then = "idle" /\ Idle.claims = NoRow
      /\ Idle.behind = {} /\ Idle = [f \in Fields |-> Idle[f]]
  BY DEF Idle, Fields
<1> HIDE DEF Idle
<1>2. Idle \in Local
  BY <1>1, IsLocal DEF Kind
<1>3. LocalOK(Idle)
  BY <1>1, <1>2 DEF LocalOK, PcOK, Stores, Claims
<1>4. Scope(Idle) = {}
  BY <1>1 DEF Scope, Stores, SetsUp
<1> QED BY <1>1, <1>3, <1>4

LEMMA ScopesAre ==
    ASSUME NEW s, LocalOK(s)
    PROVE  /\ s.pc \in {"idle", "refresh", "issue", "guess", "check", "apply", "token"} => Scope(s) = {}
           /\ s.pc = "close" => Scope(s) = {s.row}
           /\ s.pc = "consume" => Scope(s) = {Account}
           /\ s.pc = "revoke" => Scope(s) = {Account, s.row}
           /\ s.pc = "store" =>
                /\ s.kind \in Setters => Scope(s) = {Account}
                /\ s.kind = "oauth" /\ s.then = "refresh" => Scope(s) = {Account}
                /\ s.kind \in Issuers /\ s.then = "idle" =>
                     Scope(s) = TableRows(Table(s.kind))
                                \cup (IF s.kind \in {"oauth", "login"} THEN SessionRows ELSE {})
                /\ s.kind = "delete" => Scope(s) = {s.row}
                /\ s.kind = "reset" => Scope(s) = {Account, s.row} \cup SessionRows
                /\ s.kind = "verify" =>
                     Scope(s) = IF s.then = "idle" THEN SessionRows
                                ELSE IF s.claims = s.row \/ s.then = "check" THEN {s.row} ELSE {Account}
                /\ s.kind \in Setters \cup Issuers \cup {"delete", "reset", "verify"}
                /\ s.kind \in Issuers => s.then = "idle" \/ (s.kind = "oauth" /\ s.then = "refresh")
                /\ s.kind \in Setters \cup {"reset"} => s.then = "idle"
<1>1. s.kind \in Kind /\ PcOK(s)
  BY IsLocal DEF LocalOK
<1> QED BY <1>1 DEF Scope, Stores, SetsUp, Setters, Issuers, Kind, PcOK

\* What a request writes is a row, and one it goes by.
LEMMA ScopesAreRows ==
    ASSUME NEW s, LocalOK(s), NEW x \in Scope(s)
    PROVE  /\ x \in Row
           /\ x \in {Account} \cup ({s.row} \ {NoRow})
                    \cup (IF s.pc = "store" THEN {Table(s.kind)} \X Key ELSE {})
                    \cup SessionRows
           /\ Guesses(s) /\ x \in CodeRows => x = s.row
           /\ s.pc # "idle"
<1>1. Table(s.kind) \in CodeTables
  BY DEF Table, CodeTables
<1>2. s.row \in CodeRows \cup {NoRow}
  BY IsLocal DEF LocalOK
<1>3. s.row = NoRow => s.pc # "close" /\ s.kind # "reset" /\ ~(Stores(s) /\ (s.kind = "delete" \/ s.then = "check"))
  BY RowNames, TablesAre DEF LocalOK, CodeTables
<1>4. s.kind = "verify" /\ s.row = NoRow /\ Stores(s) => s.claims # s.row \/ s.then = "idle" 
  <2>1. s.kind = "verify" /\ Stores(s) => s.then \in {"idle", "token", "check"}
    BY IsLocal DEF LocalOK, PcOK, Stores
  <2> QED BY <1>3, <2>1 DEF LocalOK
<1>5. s.pc \in {"revoke", "close", "consume", "idle", "refresh", "issue", "guess", "check", "apply", "token", "store"}
  BY IsLocal DEF LocalOK
<1>6. CASE s.pc # "store"
  <2>1. s.pc = "revoke" => s.kind = "reset"
    BY DEF LocalOK, PcOK
  <2>2. s.pc \in {"close", "consume", "revoke"}
    BY <1>5, <1>6, ScopesAre
  <2>3. s.pc = "consume" => s.kind = "reset"
    BY DEF LocalOK, PcOK
  <2> QED BY <1>2, <1>3, <1>6, <2>1, <2>2, <2>3, ScopesAre, RowNames, TablesAre DEF Guesses
<1>7. CASE s.pc = "store"
  <2>1. CASE s.kind \in Setters \cup Issuers
    BY <1>1, <1>7, <2>1, ScopesAre, RowNames, TablesAre DEF Guesses, Setters, Issuers, TableRows
  <2>2. CASE s.kind = "delete"
    BY <1>2, <1>3, <1>7, <2>2, ScopesAre, RowNames, TablesAre DEF Stores
  <2>3. CASE s.kind = "reset"
    BY <1>2, <1>3, <1>7, <2>3, ScopesAre, RowNames, TablesAre DEF Guesses
  <2>4. CASE s.kind = "verify"
    <3>1. s.then # "idle" /\ (s.claims = s.row \/ s.then = "check") => s.row \in CodeRows
      BY <1>2, <1>3, <1>4, <1>7, <2>4 DEF Stores
    <3> QED BY <3>1, <1>7, <2>4, ScopesAre, RowNames, TablesAre
  <2> QED BY <1>7, <2>1, <2>2, <2>3, <2>4, ScopesAre
<1> QED BY <1>6, <1>7

-----------------------------------------------------------------------------
(* What one request does, others do not notice.                            *)

LEMMA IntendsMore ==
    ASSUME NEW s, NEW v, NEW g \in Nat, NEW gg \in Nat, g <= gg, NEW p, NEW pp, p \subseteq pp,
           Intends(s, v, g, p)
    PROVE  Intends(s, v, gg, pp)
<1>1. CodesBound(v, gg)
  <2>1. v.codes # NoRow => \A k \in v.codes : k[1] \in Nat
    BY CodesAre DEF Intends
  <2> QED BY <2>1 DEF Intends, CodesBound
<1>2. \A i \in 1..g : i \in 1..gg
  OBVIOUS
<1> QED BY <1>1, <1>2 DEF Intends

LEMMA Frame ==
    ASSUME NEW q \in Req, ReqOK(q), at'[q] = at[q], want'[q] = want[q], held'[q] = held[q], db' = db,
           generation \in Nat, generation' \in Nat, generation <= generation', proven \subseteq proven',
           LocalOK(at[q])
    PROVE  ReqOK(q)'
<1>1. AccountOK(q)'
  <2>1. at[q].user # NoRow /\ CodesBound(at[q].user, generation) =>
          CodesBound(at[q].user, generation')
    <3>1. at[q].user # NoRow => at[q].user \in User
      BY IsLocal DEF LocalOK
    <3>2. at[q].user # NoRow /\ at[q].user.codes # NoRow => \A k \in at[q].user.codes : k[1] \in Nat
      BY <3>1, CodesAre
    <3> QED BY <3>2 DEF CodesBound
  <2>2. \A v : Intends(at[q], v, generation, proven) => Intends(at[q], v, generation', proven')
    BY IntendsMore
  <2>3. AccountOK(q)
    BY DEF ReqOK
  <2> QED BY <2>1, <2>2, <2>3 DEF AccountOK, Writes
<1>2. ClosesOthers(q)' /\ ClaimOK(q)' /\ EndsAll(q)'
  BY DEF ReqOK, ClosesOthers, ClaimOK, Closes, EndsAll, Writes
<1>3. \A x \in CodeRows : CodeOK(q, x)'
  <2> SUFFICES ASSUME NEW x \in CodeRows PROVE CodeOK(q, x)'
    OBVIOUS
  <2>1. CodeOK(q, x)
    BY DEF ReqOK
  <2>2. Sees(q)'[x] = Sees(q)[x]
    BY RowNames DEF Sees
  <2> QED BY <2>1, <2>2 DEF CodeOK
<1>4. \A x \in SessionRows : TokenOK(q, x)'
  BY DEF ReqOK, TokenOK
<1> QED BY <1>1, <1>2, <1>3, <1>4 DEF ReqOK

LEMMA CodesDiffer ==
    ASSUME NEW g, NEW h, Codes(g) = Codes(h) \/ <<g, 1>> \in Codes(h)
    PROVE  g = h
BY DEF Codes

\* What a request sent of an account it has loaded.
LEMMA HeldUser ==
    ASSUME IInv, NEW q \in Req, Account \in DOMAIN held[q]
    PROVE  /\ at[q].user = NoRow <=> db[Account] = NoRow
           /\ db[Account] \in User \cup {NoRow} /\ at[q].user \in User \cup {NoRow}
           /\ held[q][Account] \in User
           /\ \E v \in User :
                /\ Intends(at[q], v, generation, proven)
                /\ at[q].user = NoRow \/ at[q].user = db[Account] => held[q][Account] = v
                /\ at[q].user # NoRow =>
                     LET w == held[q][Account] u == at[q].user o == db[Account] IN
                     /\ w.password = IF u.password = v.password THEN o.password ELSE v.password
                     /\ w.codes = IF u.codes = v.codes THEN o.codes ELSE v.codes
                     /\ w.secret = IF u.secret = v.secret THEN o.secret ELSE v.secret
                     /\ w.provider = IF u.provider = v.provider THEN o.provider ELSE v.provider
<1>1. AccountOK(q) /\ LocalOK(at[q]) /\ Account \in Row
  BY RowNames DEF IInv, ReqOK, Shapes
<1>2. /\ at[q].user = NoRow <=> db[Account] = NoRow
      /\ db[Account] \in User \cup {NoRow} /\ at[q].user \in User \cup {NoRow}
      /\ held[q][Account] \in User
  BY <1>1, RowTypes, IsLocal DEF IInv, Shapes, AccountOK, LocalOK
<1>3. PICK v \in User : /\ Intends(at[q], v, generation, proven)
                        /\ held[q][Account] = Sent(Change(at[q].user, v), db[Account])
  BY <1>1 DEF AccountOK
<1>4. CASE at[q].user = NoRow
  BY <1>2, <1>3, <1>4, NewSent, RowTypes
<1>5. CASE at[q].user # NoRow
  BY <1>2, <1>3, <1>5, UserSent
<1> QED BY <1>2, <1>4, <1>5

\* Codes that are being made are of a generation that was given out.
LEMMA MakesBound ==
    ASSUME IInv, NEW q \in Req, NEW g \in Key, Makes(q, g)
    PROVE  g \in 1..generation
<1> DEFINE s == at[q]
<1>1. Stores(s) /\ s.kind \in {"activate", "regenerate"} /\ AccountOK(q) /\ generation \in Nat
  BY BoundAssumption DEF Makes, IInv, ReqOK, Shapes
<1>2. ASSUME NEW v, Intends(s, v, generation, proven)
      PROVE  s.user # NoRow /\ v.codes # s.user.codes /\ (v.codes = Codes(g) => g \in 1..generation)
  BY <1>1, <1>2, CodesDiffer DEF Intends
<1>3. CASE Account \in DOMAIN want[q] /\ want[q][Account].new.codes = Codes(g)
  BY <1>1, <1>2, <1>3 DEF AccountOK
<1>4. CASE Account \in DOMAIN held[q] /\ held[q][Account].codes = Codes(g)
  <2>1. PICK v \in User :
          /\ Intends(s, v, generation, proven)
          /\ s.user # NoRow => held[q][Account].codes = IF s.user.codes = v.codes THEN db[Account].codes
                                                        ELSE v.codes
    BY <1>4, HeldUser
  <2> QED BY <1>2, <1>4, <2>1
<1> QED BY <1>3, <1>4 DEF Makes

\* A step of one request that sends nothing and stores nothing.
LEMMA MoveStep ==
    ASSUME IInv, NEW r \in Req, NEW new, LocalOK(new),
           at' = [at EXCEPT ![r] = new],
           db' = db, held' = held, DOMAIN want' = Req, \A q \in Req \ {r} : want'[q] = want[q],
           at[r].pc # "store",
           scene' = scene, accepted' = accepted, replayed' = replayed, raced' = raced,
           LimiterInv', LimiterTypeOK',
           generation' \in 0..MaxRow, generation <= generation',
           proven \subseteq proven', proven' \subseteq Key,
           looked' \in [CodeRows -> Nat],
           at[r].pc = "idle" /\ new.pc # "idle" =>
             \A t \in AllTables : Cardinality(Used(t)) + Cardinality(Busy) < MaxRow,
           db[Account] = NoRow /\ new.pc # "idle" => SetsUp(new) /\ new.user = NoRow,
           Writes(r)' \subseteq Scope(new),
           \A x \in DOMAIN want'[r] : want'[r][x] \in [was : RowType(x) \cup {NoRow}, new : RowType(x)],
           ReqOK(r)',
           \A x \in Writes(r)' \ {Account} : db[x] = NoRow =>
             /\ \A q \in Req \ {r} : x \notin Writes(q)
             /\ \A y \in Writes(r)' : x = y \/ db[y] # NoRow,
           \A g \in Key : Makes(r, g)' => g > generation,
           \A x \in CodeRows : Counted(x)'
    PROVE  IInv'
<1>1. /\ DOMAIN at = Req /\ DOMAIN at' = Req /\ at'[r] = new
      /\ \A q \in Req \ {r} : at'[q] = at[q] /\ Writes(q)' = Writes(q)
      /\ generation \in Nat /\ generation' \in Nat /\ MaxRow \in Nat
  BY BoundAssumption DEF IInv, Shapes, Writes
<1>2. \A q \in Req : LocalOK(at'[q])
  BY <1>1 DEF IInv, Shapes
<1>3. Shapes'
  BY <1>1, <1>2 DEF IInv, Shapes
<1>4. ScopeOK' /\ LocksExclude'
  BY <1>1 DEF IInv, ScopeOK, LocksExclude
<1>5. NewRowsOK'
  <2> SUFFICES ASSUME NEW q \in Req, NEW x \in Writes(q)' \ {Account}, db[x] = NoRow
               PROVE  /\ \A p \in Req \ {q} : x \notin Writes(p)'
                      /\ \A y \in Writes(q)' : x = y \/ db[y] # NoRow
    BY DEF NewRowsOK
  <2>1. CASE q = r
    BY <1>1, <2>1
  <2>2. CASE q # r
    BY <1>1, <2>2 DEF IInv, NewRowsOK
  <2> QED BY <2>1, <2>2
<1>6. Room'
  <2>1. \A t \in AllTables : Used(t)' = Used(t)
    BY DEF Used
  <2>2. IsFiniteSet(Busy) /\ IsFiniteSet(Busy') /\ Cardinality(Busy) \in Nat /\ Cardinality(Busy') \in Nat
    BY BoundAssumption, FS_Subset, FS_CardinalityType DEF Busy
  <2>3. \A t \in AllTables : IsFiniteSet(Used(t)) /\ Cardinality(Used(t)) \in Nat
    <3>1. IsFiniteSet(Key)
      BY <1>1, FS_Interval DEF Key
    <3> QED BY <3>1, FS_Subset, FS_CardinalityType DEF Used
  <2>4. CASE at[r].pc = "idle" /\ new.pc # "idle"
    <3>1. Busy' \subseteq Busy \cup {r}
      BY <1>1 DEF Busy
    <3>2. Cardinality(Busy') <= Cardinality(Busy) + 1
      <4>1. /\ IsFiniteSet(Busy \cup {r})
            /\ Cardinality(Busy \cup {r}) = IF r \in Busy THEN Cardinality(Busy) ELSE Cardinality(Busy) + 1
        BY <2>2, FS_AddElement
      <4>2. Cardinality(Busy') <= Cardinality(Busy \cup {r})
        BY <3>1, <4>1, FS_Subset
      <4> QED BY <2>2, <4>1, <4>2
    <3> QED BY <1>1, <2>1, <2>2, <2>3, <2>4, <3>2 DEF Room
  <2>5. CASE ~ (at[r].pc = "idle" /\ new.pc # "idle")
    <3>1. Busy' \subseteq Busy
      BY <1>1, <2>5 DEF Busy
    <3>2. Cardinality(Busy') <= Cardinality(Busy)
      BY <2>2, <3>1, FS_Subset
    <3> QED BY <1>1, <2>1, <2>2, <2>3, <3>2 DEF Room, IInv
  <2> QED BY <2>4, <2>5
<1>7. Known'
  BY <1>1 DEF IInv, Known
<1>8. \A q \in Req \ {r}, g \in Key : Makes(q, g)' => Makes(q, g) /\ g <= generation
  BY <1>1, MakesBound DEF Makes
<1>9. CodesOK'
  <2>1. db[Account] # NoRow => CodesBound(db[Account], generation')
    <3>1. db[Account] # NoRow => db[Account] \in User /\ CodesBound(db[Account], generation)
      BY RowNames, RowTypes DEF IInv, Shapes, CodesOK
    <3> QED BY <1>1, <3>1, CodesAre DEF CodesBound
  <2>2. \A k \in Recovery : k[1] \in Nat
    BY BoundAssumption DEF Recovery, Key
  <2>3. \A k \in Recovery : <<"recovery", k>> \in accepted' => k[1] <= generation /\ k[1] <= generation'
    BY <1>1, <2>2 DEF IInv, CodesOK
  <2>4. \A g \in Key : g \in Nat /\ \A k \in Codes(g) : k \in Recovery /\ k[1] = g
    BY BoundAssumption DEF Codes, Key, Recovery
  <2>5. ASSUME NEW q \in Req, NEW g \in Key, Makes(q, g)'
        PROVE  /\ \A p \in Req \ {q} : ~ Makes(p, g)'
               /\ Account \notin raced => \A k \in Codes(g) : <<"recovery", k>> \notin accepted
    <3>1. CASE q = r
      BY <1>1, <1>8, <2>3, <2>4, <2>5, <3>1
    <3>2. CASE q # r
      BY <1>1, <1>8, <2>4, <2>5, <3>2 DEF IInv, CodesOK
    <3> QED BY <3>1, <3>2
  <2>6. ASSUME Account \notin raced, db[Account] # NoRow, db[Account].codes # NoRow,
               NEW q \in Req, NEW g \in Key, Makes(q, g)'
        PROVE  Codes(g) \cap db[Account].codes = {}
    <3>1. CASE q = r
      <4>1. \A k \in db[Account].codes : k[1] <= generation
        BY <2>6 DEF IInv, CodesOK, CodesBound
      <4> QED BY <1>1, <2>4, <2>6, <3>1, <4>1
    <3>2. CASE q # r
      BY <1>8, <2>6, <3>2 DEF IInv, CodesOK
    <3> QED BY <3>1, <3>2
  <2>7. Account \notin raced /\ db[Account] # NoRow /\ db[Account].codes # NoRow =>
          \A k \in db[Account].codes : <<"recovery", k>> \notin accepted
    BY DEF IInv, CodesOK
  <2> QED BY <2>1, <2>3, <2>5, <2>6, <2>7 DEF CodesOK
<1>10. AcceptedOK' /\ OneTime' /\ OneOpenCode' /\ AuthenticatorIsProven' /\ ResetEndsSessions'
  BY DEF IInv, AcceptedOK, OneTime, OneOpenCode, AuthenticatorIsProven, ResetEndsSessions
<1>11. \A q \in Req : ReqOK(q)'
  BY <1>1, Frame DEF IInv, Shapes
<1> QED BY <1>3, <1>4, <1>5, <1>6, <1>7, <1>9, <1>10, <1>11 DEF IInv

LEMMA Empty ==
    ASSUME IInv, NEW r \in Req,
           at[r].pc \in {"idle", "refresh", "issue", "guess", "check", "apply", "token"}
    PROVE  DOMAIN want[r] = {} /\ DOMAIN held[r] = {} /\ Writes(r) = {}
<1>1. Writes(r) = {}
  BY ScopesAre DEF IInv, Shapes, ScopeOK
<1> QED BY <1>1 DEF Writes

\* A step of one request that touches no row.
LEMMA QuietStep ==
    ASSUME IInv, NEW r \in Req, NEW new, LocalOK(new),
           at' = [at EXCEPT ![r] = new],
           UNCHANGED <<session, scene, generation, observers>>,
           LimiterInv', LimiterTypeOK',
           at[r].pc \in {"idle", "refresh", "issue", "guess", "check", "apply", "token"},
           new.pc \in {"idle", "refresh", "issue", "guess", "check", "apply", "token"},
           at[r].pc = "idle" /\ new.pc # "idle" =>
             \A t \in AllTables : Cardinality(Used(t)) + Cardinality(Busy) < MaxRow,
           new.pc # "idle" => db[Account] # NoRow,
           new.user # NoRow => CodesBound(new.user, generation),
           new.row # NoRow => db[new.row] # NoRow,
           GoesByUser(new) /\ Account \notin new.behind => new.user = db[Account],
           new.kind = "login" /\ new.pc # "idle" /\ Account \notin new.behind =>
             new.password = db[Account].password,
           \A c \in GoesByCode(new) : db[c] # NoRow /\ (c \notin new.behind => db[c].open)
    PROVE  IInv'
<1>1. /\ db' = db /\ want' = want /\ held' = held /\ scene' = scene /\ generation' = generation
      /\ looked' = looked /\ accepted' = accepted /\ replayed' = replayed /\ proven' = proven
      /\ raced' = raced
  BY DEF session, observers
<1>2. DOMAIN want[r] = {} /\ DOMAIN held[r] = {} /\ Writes(r) = {} /\ Writes(r)' = {}
  BY <1>1, Empty DEF Writes
<1>3. DOMAIN at = Req /\ at'[r] = new /\ DOMAIN want = Req
  BY DEF IInv, Shapes
<1>4. Scope(new) = {}
  BY ScopesAre
<1>5. AccountOK(r)'
  BY <1>1, <1>2, <1>3, <1>4 DEF AccountOK, Stores
<1>6. ClosesOthers(r)' /\ EndsAll(r)'
  BY <1>2, <1>3 DEF ClosesOthers, EndsAll, Stores
<1>7. ClaimOK(r)'
  BY <1>1, <1>3 DEF ClaimOK
<1>8. ReqOK(r)'
  BY <1>1, <1>2, <1>5, <1>6, <1>7 DEF ReqOK, CodeOK, TokenOK
<1>9. \A x \in CodeRows : Counted(x)'
  <2> SUFFICES ASSUME NEW x \in CodeRows PROVE Counted(x)'
    OBVIOUS
  <2>1. \A q \in Req \ {r} : Writes(q)' = Writes(q) /\ at'[q] = at[q]
    BY <1>1, <1>3 DEF Writes
  <2>2. InFlight(x)' = InFlight(x) /\ r \notin InFlight(x)
    BY <1>2, <2>1 DEF InFlight
  <2>3. \A q \in Req : Count(q, x)' = Count(q, x)
    BY <1>1 DEF Count
  <2>4. \A q \in Req : InFlight(x) = {q} => at'[q] = at[q]
    BY <2>1, <2>2
  <2> QED BY <1>1, <2>2, <2>3, <2>4 DEF IInv, Counted
<1>10. ~ \E g \in Key : Makes(r, g)'
  BY <1>3 DEF Makes, Stores
<1>11. looked \in [CodeRows -> Nat] /\ proven \subseteq Key /\ generation \in 0..MaxRow /\ generation <= generation
  BY BoundAssumption DEF IInv, Shapes
<1> QED BY <1>1, <1>2, <1>3, <1>8, <1>9, <1>10, <1>11, MoveStep

\* Only the limiter and its clock move, or nothing.
LEMMA LimiterStep ==
    ASSUME IInv, UNCHANGED <<session, scene, generation, at, observers>>, LimiterInv', LimiterTypeOK'
    PROVE  IInv'
<1>1. /\ db' = db /\ want' = want /\ held' = held /\ scene' = scene /\ generation' = generation
      /\ looked' = looked /\ accepted' = accepted /\ replayed' = replayed /\ proven' = proven
      /\ raced' = raced /\ at' = at /\ generation \in Nat /\ generation <= generation
  BY BoundAssumption DEF session, observers, IInv, Shapes
<1>2. \A q \in Req : ReqOK(q)'
  BY <1>1, Frame DEF IInv, Shapes
<1>3. Shapes' /\ ScopeOK' /\ LocksExclude' /\ NewRowsOK' /\ Room' /\ Known'
  BY <1>1 DEF IInv, Shapes, ScopeOK, LocksExclude, NewRowsOK, Room, Used, Busy, Known, Writes
<1>4. CodesOK' /\ AcceptedOK' /\ (\A x \in CodeRows : Counted(x)')
  BY <1>1 DEF IInv, CodesOK, Makes, AcceptedOK, Counted, InFlight, Count, Writes
<1>5. OneTime' /\ OneOpenCode' /\ AuthenticatorIsProven' /\ ResetEndsSessions'
  BY <1>1 DEF IInv, OneTime, OneOpenCode, AuthenticatorIsProven, ResetEndsSessions
<1> QED BY <1>2, <1>3, <1>4, <1>5 DEF IInv

LEMMA StartsIs ==
    ASSUME IInv, NEW r \in Req, NEW kind, Starts(r, kind)
    PROVE  /\ at[r].pc = "idle" /\ DOMAIN want[r] = {} /\ DOMAIN held[r] = {} /\ Writes(r) = {}
           /\ \A t \in AllTables : Cardinality(Used(t)) + Cardinality(Busy) < MaxRow
           /\ kind \in SignedIn => db[Account] # NoRow
<1>1. at[r].pc = "idle"
  BY DEF Starts
<1> QED BY <1>1, Empty DEF Starts, AllTables, Used

\* The account as it is found.
LEMMA AccountIs ==
    ASSUME IInv
    PROVE  /\ db[Account] \in User \cup {NoRow}
           /\ db[Account] # NoRow => CodesBound(db[Account], generation)
           /\ \A x \in Row : db[x] # NoRow => db[Account] # NoRow
           /\ \A r \in Req : at[r].pc # "idle" => db[Account] # NoRow \/ SetsUp(at[r])
           /\ generation \in Nat /\ generation \in 0..MaxRow
BY BoundAssumption, RowNames, RowTypes DEF IInv, Shapes, CodesOK, Known

LEMMA LimiterSame ==
    ASSUME IInv, UNCHANGED limiter
    PROVE  LimiterInv' /\ LimiterTypeOK'
BY LimiterStays DEF IInv, Shapes, LimiterTypeOK, limiter

LEMMA LimiterMoves ==
    ASSUME IInv, Admit \/ Refuse \/ Tick
    PROVE  LimiterInv' /\ LimiterTypeOK'
<1>1. LimiterInv /\ LimiterTypeOK /\ MaxTime \in Nat
  BY LimitAssumption DEF IInv, Shapes
<1>2. LimiterInv'
  BY <1>1, AdmitKeeps, RefuseKeeps, TickKeeps
<1>3. now' \in 0..MaxTime /\ log' \in Seq(0..MaxTime)
  <2>1. now \in 0..MaxTime /\ log \in Seq(0..MaxTime)
    BY <1>1 DEF LimiterTypeOK
  <2>2. Append(log, now) \in Seq(0..MaxTime)
    BY <2>1
  <2>3. CASE Admit
    BY <2>1, <2>2, <2>3 DEF Admit
  <2>4. CASE Refuse
    BY <2>1, <2>4 DEF Refuse
  <2>5. CASE Tick
    BY <1>1, <2>1, <2>5 DEF Tick
  <2> QED BY <2>3, <2>4, <2>5
<1> QED BY <1>2, <1>3 DEF LimiterInv, LimiterTypeOK

-----------------------------------------------------------------------------
(* Steps that touch no row.                                                *)

LEMMA NoClaims ==
    ASSUME NEW s, LocalOK(s), s.pc \notin {"store", "close"}
    PROVE  s.claims = NoRow
BY DEF LocalOK, Claims

LEMMA RefreshStep ==
    ASSUME IInv, NEW r \in Req, Refresh(r)
    PROVE  IInv'
<1> DEFINE s == at[r]
           u == db[Account]
           new == [s EXCEPT !.user = u, !.pc = IF u.mfa THEN "issue" ELSE "token"]
<1>1. s.pc = "refresh" /\ at' = [at EXCEPT ![r] = new]
      /\ UNCHANGED <<session, limiter, scene, generation, observers>>
  BY DEF Refresh, Go
<1>2. LocalOK(s) /\ s.kind = "oauth" /\ s.row = NoRow /\ s.claims = NoRow /\ s.password = NoRow
  BY <1>1, NoClaims DEF IInv, Shapes, LocalOK, PcOK
<1>3. u \in User /\ CodesBound(u, generation)
  BY <1>1, AccountIs DEF SetsUp, Stores
<1>4. /\ s = [f \in Fields |-> s[f]] /\ s.guess \in Guess \cup {NoRow}
      /\ s.then \in {"idle", "refresh", "check", "close", "token"} /\ s.behind \in SUBSET Row
  BY <1>2, IsLocal DEF LocalOK
<1>5. /\ new.pc \in {"issue", "token"} /\ new.kind = "oauth" /\ new.user = u /\ new.row = NoRow
      /\ new.guess = s.guess /\ new.password = NoRow /\ new.then = s.then /\ new.claims = NoRow
      /\ new.behind = s.behind /\ new = [f \in Fields |-> new[f]]
  BY <1>2, <1>4 DEF Fields
<1> HIDE DEF new, u
<1>6. new \in Local
  BY <1>3, <1>4, <1>5, IsLocal DEF Kind
<1>7. LocalOK(new)
  BY <1>3, <1>5, <1>6, NoRowAssumption DEF LocalOK, PcOK, Stores, Issuers
<1>8. Scope(new) = {} /\ ~ GoesByUser(new) /\ GoesByCode(new) = {}
  BY <1>5, <1>7, ScopesAre, RowNames DEF GoesByUser, GoesByCode, Stores
<1> QED BY <1>1, <1>3, <1>5, <1>7, <1>8, QuietStep, LimiterSame, NoRowAssumption, AccountIs
        DEF u, SetsUp, Stores

LEMMA LoginStep ==
    ASSUME IInv, NEW r \in Req, NEW p \in Password, Login(r, p)
    PROVE  IInv'
<1> DEFINE u == db[Account]
           new == [Idle EXCEPT !.pc = IF u.mfa THEN "issue" ELSE "token",
                               !.kind = "login", !.user = u, !.password = p]
<1>1. /\ Starts(r, "login") /\ u # NoRow /\ u.password = p /\ at' = [at EXCEPT ![r] = new]
      /\ UNCHANGED <<session, limiter, scene, generation, observers>>
  BY DEF Login, Go
<1>2. u \in User /\ CodesBound(u, generation)
  BY <1>1, AccountIs
<1>3. /\ new.pc \in {"issue", "token"} /\ new.kind = "login" /\ new.user = u /\ new.row = NoRow
      /\ new.guess = NoRow /\ new.password = p /\ new.then = "idle" /\ new.claims = NoRow
      /\ new.behind = {} /\ new = [f \in Fields |-> new[f]]
  BY DEF Fields, Idle
<1> HIDE DEF new, u
<1>4. new \in Local
  BY <1>2, <1>3, IsLocal DEF Kind
<1>5. LocalOK(new)
  BY <1>2, <1>3, <1>4, NoRowAssumption DEF LocalOK, PcOK, Stores, Issuers
<1>6. Scope(new) = {} /\ ~ GoesByUser(new) /\ GoesByCode(new) = {}
  BY <1>3, <1>5, ScopesAre, RowNames DEF GoesByUser, GoesByCode, Stores
<1> QED BY <1>1, <1>2, <1>3, <1>5, <1>6, QuietStep, LimiterSame, StartsIs DEF u

\* Requests that begin without the account: they are to make a code.
LEMMA AsksStep ==
    ASSUME IInv, NEW r \in Req, Resend(r) \/ Forgot(r) \/ AskDelete(r)
    PROVE  IInv'
<1>1. PICK kind \in {"resend", "forgot", "askdelete"} :
        /\ Starts(r, kind) /\ db[Account] # NoRow
        /\ at' = [at EXCEPT ![r] = [Idle EXCEPT !.pc = "issue", !.kind = kind]]
        /\ UNCHANGED <<session, limiter, scene, generation, observers>>
  <2>1. CASE Resend(r)
    <3>1. PICK k \in Key : db[<<"login", k>>] # NoRow
      BY <2>1 DEF Resend, Pending
    <3>2. <<"login", k>> \in Row
      BY RowNames, TablesAre DEF CodeTables
    <3> QED BY <2>1, <3>1, <3>2, AccountIs DEF Resend, Go
  <2>2. CASE Forgot(r)
    BY <2>2 DEF Forgot, Go
  <2>3. CASE AskDelete(r)
    BY <2>3, StartsIs DEF AskDelete, Go, SignedIn
  <2> QED BY <2>1, <2>2, <2>3
<1> DEFINE new == [Idle EXCEPT !.pc = "issue", !.kind = kind]
<1>3. /\ new.pc = "issue" /\ new.kind = kind /\ new.user = NoRow /\ new.row = NoRow
      /\ new.guess = NoRow /\ new.password = NoRow /\ new.then = "idle" /\ new.claims = NoRow
      /\ new.behind = {} /\ new = [f \in Fields |-> new[f]]
  BY DEF Fields, Idle
<1>2. at' = [at EXCEPT ![r] = new]
  BY <1>1
<1> HIDE DEF new
<1>4. new \in Local
  BY <1>3, IsLocal DEF Kind
<1>5. LocalOK(new)
  BY <1>3, <1>4 DEF LocalOK, PcOK, Stores, Issuers
<1>6. Scope(new) = {} /\ ~ GoesByUser(new) /\ GoesByCode(new) = {}
  BY <1>3, <1>5, ScopesAre, RowNames DEF GoesByUser, GoesByCode, Stores
<1> QED BY <1>1, <1>2, <1>3, <1>5, <1>6, QuietStep, LimiterSame, StartsIs

\* Requests that begin with a guess.
LEMMA GuessStep ==
    ASSUME IInv, NEW r \in Req, NEW g \in Guess, Verify(r, g) \/ Delete(r, g)
    PROVE  IInv'
<1> DEFINE u == db[Account]
<1>1. PICK kind \in {"verify", "delete"}, pc \in {"guess", "check"} :
        /\ Starts(r, kind) /\ u # NoRow /\ (kind = "delete" => pc = "guess")
        /\ at' = [at EXCEPT ![r] = [Idle EXCEPT !.pc = pc, !.kind = kind, !.guess = g, !.user = u]]
        /\ UNCHANGED <<session, scene, generation, observers>>
        /\ LimiterInv' /\ LimiterTypeOK'
  <2>1. CASE Verify(r, g)
    <3>1. PICK k \in Key : db[<<"login", k>>] # NoRow
      BY <2>1 DEF Verify, Pending
    <3>2. <<"login", k>> \in Row
      BY RowNames, TablesAre DEF CodeTables
    <3>3. u # NoRow
      BY <3>1, <3>2, AccountIs
    <3> DEFINE pc == IF g[1] = "recovery" THEN "check" ELSE "guess"
    <3>4. [Idle EXCEPT !.kind = "verify", !.user = u, !.guess = g, !.pc = pc]
            = [Idle EXCEPT !.pc = pc, !.kind = "verify", !.guess = g, !.user = u]
      BY DEF Idle
    <3>5. pc \in {"guess", "check"}
      OBVIOUS
    <3>6. /\ at' = [at EXCEPT ![r] = [Idle EXCEPT !.kind = "verify", !.user = u, !.guess = g, !.pc = pc]]
          /\ UNCHANGED <<session, scene, generation, observers>> /\ Starts(r, "verify")
      BY <2>1 DEF Verify
    <3>7. LimiterInv' /\ LimiterTypeOK'
      BY <2>1, LimiterMoves DEF Verify
    <3> HIDE DEF pc
    <3> QED BY <3>3, <3>4, <3>5, <3>6, <3>7
  <2>2. CASE Delete(r, g)
    <3>1. [Idle EXCEPT !.pc = "guess", !.kind = "delete", !.guess = g, !.user = u]
            = [Idle EXCEPT !.pc = "guess", !.kind = "delete", !.guess = g, !.user = u]
      OBVIOUS
    <3> QED BY <2>2, StartsIs, LimiterSame DEF Delete, Go, SignedIn
  <2> QED BY <2>1, <2>2
<1> DEFINE new == [Idle EXCEPT !.pc = pc, !.kind = kind, !.guess = g, !.user = u]
<1>2. u \in User /\ CodesBound(u, generation)
  BY <1>1, AccountIs
<1>3. /\ new.pc = pc /\ new.kind = kind /\ new.user = u /\ new.row = NoRow
      /\ new.guess = g /\ new.password = NoRow /\ new.then = "idle" /\ new.claims = NoRow
      /\ new.behind = {} /\ new = [f \in Fields |-> new[f]]
  BY DEF Fields, Idle
<1>4. at' = [at EXCEPT ![r] = new]
  BY <1>1
<1> HIDE DEF new, u
<1>5. new \in Local
  BY <1>2, <1>3, IsLocal DEF Kind
<1>6. LocalOK(new)
  BY <1>1, <1>2, <1>3, <1>5, NoRowAssumption DEF LocalOK, PcOK, Stores, Issuers
<1>7. Scope(new) = {} /\ GoesByCode(new) = {}
  BY <1>3, <1>6, ScopesAre, RowNames DEF GoesByCode
<1> QED BY <1>1, <1>2, <1>3, <1>4, <1>6, <1>7, QuietStep, StartsIs DEF u

LEMMA ResetStep ==
    ASSUME IInv, NEW r \in Req, NEW k \in Key, NEW p \in Password, Reset(r, <<"reset", k>>, p)
    PROVE  IInv'
<1> DEFINE x == <<"reset", k>>
           new == [Idle EXCEPT !.pc = "apply", !.kind = "reset", !.row = x, !.password = p]
<1>1. /\ Starts(r, "reset") /\ db[x] # NoRow /\ db[x].open /\ at' = [at EXCEPT ![r] = new]
      /\ UNCHANGED <<session, limiter, scene, generation, observers>>
  BY DEF Reset, Go
<1>2. x \in TableRows("reset") /\ x \in CodeRows /\ x \in Row
  BY RowNames, TablesAre DEF CodeTables
<1>3. db[Account] # NoRow
  BY <1>1, <1>2, AccountIs
<1>4. /\ new.pc = "apply" /\ new.kind = "reset" /\ new.user = NoRow /\ new.row = x
      /\ new.guess = NoRow /\ new.password = p /\ new.then = "idle" /\ new.claims = NoRow
      /\ new.behind = {} /\ new = [f \in Fields |-> new[f]]
  BY DEF Fields, Idle
<1> HIDE DEF new, x
<1>5. new \in Local
  BY <1>2, <1>4, IsLocal DEF Kind
<1>6. LocalOK(new)
  BY <1>2, <1>4, <1>5 DEF LocalOK, PcOK, Stores
<1>7. Scope(new) = {} /\ ~ GoesByUser(new) /\ GoesByCode(new) \subseteq {x}
  BY <1>4, <1>6, ScopesAre, RowNames DEF GoesByUser, GoesByCode, Stores
<1> QED BY <1>1, <1>3, <1>4, <1>6, <1>7, QuietStep, LimiterSame, StartsIs

-----------------------------------------------------------------------------
(* Steps that change the account.                                          *)

\* A code whose row a request does not write stays counted.
LEMMA CountedFrame ==
    ASSUME IInv, NEW r \in Req, NEW x \in CodeRows, x \notin Writes(r), x \notin Writes(r)',
           db' = db, held' = held, raced' = raced, looked'[x] = looked[x],
           \A q \in Req \ {r} : want'[q] = want[q] /\ at'[q] = at[q]
    PROVE  Counted(x)'
<1>1. \A q \in Req \ {r} : Writes(q)' = Writes(q)
  BY DEF Writes
<1>2. InFlight(x)' = InFlight(x) /\ r \notin InFlight(x)
  BY <1>1 DEF InFlight
<1>3. \A q \in Req \ {r} : Count(q, x)' = Count(q, x)
  BY DEF Count
<1> QED BY <1>2, <1>3 DEF IInv, Counted

LEMMA AccountStep ==
    ASSUME IInv, NEW r \in Req, NEW new, LocalOK(new), NEW v \in User,
           at' = [at EXCEPT ![r] = new],
           want' = [want EXCEPT ![r] = Becomes(Account, new.user, v)], db' = db, held' = held,
           UNCHANGED <<limiter, scene, looked, accepted, replayed, raced>>,
           generation' \in 0..MaxRow, generation <= generation',
           proven \subseteq proven', proven' \subseteq Key,
           at[r].pc \in {"idle", "refresh", "issue", "guess", "check", "apply", "token"},
           Scope(new) = {Account}, new.pc # "idle", ~ (Stores(new) /\ new.kind = "reset"),
           at[r].pc = "idle" => \A t \in AllTables : Cardinality(Used(t)) + Cardinality(Busy) < MaxRow,
           db[Account] = NoRow => SetsUp(new) /\ new.user = NoRow,
           new.user # NoRow => CodesBound(new.user, generation'),
           Intends(new, v, generation', proven'),
           new.user = NoRow \/ new.kind = "verify" => new.user # v,
           Account \notin new.behind => new.user = db[Account],
           new.kind # "login", new.row # NoRow => db[new.row] # NoRow,
           \A c \in GoesByCode(new) : db[c] # NoRow /\ (c \notin new.behind => db[c].open),
           GoesByCode(new) # {} => new.pc = "consume",
           new.kind \in {"activate", "regenerate"} => v.codes = Codes(generation') /\ generation' > generation
    PROVE  IInv'
<1>1. DOMAIN want[r] = {} /\ DOMAIN held[r] = {} /\ Writes(r) = {}
  BY Empty
<1>2. DOMAIN at = Req /\ at'[r] = new /\ DOMAIN want = Req /\ DOMAIN want' = Req
  BY DEF IInv, Shapes
<1>3. /\ want'[r] = Becomes(Account, new.user, v) /\ \A q \in Req \ {r} : want'[q] = want[q]
      /\ \A q \in Req \ {r} : at'[q] = at[q]
  BY <1>2
<1>4. /\ new.user # v => Account \in DOMAIN want'[r]
      /\ \A x \in DOMAIN want'[r] :
           x = Account /\ want'[r][x] = Change(new.user, v)
           /\ want'[r][x].was = new.user /\ want'[r][x].new = v
      /\ Writes(r)' = DOMAIN want'[r] /\ Writes(r)' \subseteq {Account}
  BY <1>1, <1>3 DEF Becomes, Changes, Change, Writes
<1>6. new.user \in User \cup {NoRow}
  BY IsLocal DEF LocalOK
<1>7. \A x \in DOMAIN want'[r] : want'[r][x] \in [was : RowType(x) \cup {NoRow}, new : RowType(x)]
  BY <1>4, <1>6, RowTypes DEF Change
<1>8. AccountOK(r)'
  BY <1>1, <1>2, <1>4 DEF AccountOK
<1>9. ClosesOthers(r)' /\ EndsAll(r)'
  BY <1>2, <1>4, RowNames, TablesAre DEF ClosesOthers, EndsAll
<1>10. ClaimOK(r)'
  BY <1>2 DEF ClaimOK
<1>11. ReqOK(r)'
  BY <1>1, <1>4, <1>8, <1>9, <1>10, RowNames, TablesAre DEF ReqOK, CodeOK, TokenOK
<1>12. \A x \in CodeRows : Counted(x)'
  BY <1>1, <1>3, <1>4, CountedFrame, RowNames
<1>13. ASSUME NEW g \in Key, Makes(r, g)' PROVE g > generation
  <2>1. new.kind \in {"activate", "regenerate"} /\ v.codes = Codes(g)
    BY <1>1, <1>2, <1>4, <1>13 DEF Makes
  <2>2. generation' = g
    BY <2>1, CodesDiffer
  <2> QED BY <2>1, <2>2
<1>14. looked' \in [CodeRows -> Nat]
  BY DEF IInv, Shapes
<1> HIDE DEF IInv
<1> QED BY <1>2, <1>3, <1>4, <1>7, <1>11, <1>12, <1>13, <1>14, LimiterSame, MoveStep

\* Handlers that load the account, change it and commit.
LEMMA SetterStep ==
    ASSUME IInv, NEW r \in Req, NEW kind \in Setters, NEW v \in User, Starts(r, kind),
           at' = [at EXCEPT ![r] = [Idle EXCEPT !.pc = "store", !.kind = kind, !.user = db[Account]]],
           want' = [want EXCEPT ![r] = Becomes(Account, db[Account], v)], db' = db, held' = held,
           UNCHANGED <<limiter, scene, looked, accepted, replayed, raced>>,
           generation' \in 0..MaxRow, generation <= generation',
           proven \subseteq proven', proven' \subseteq Key,
           kind = "register" <=> db[Account] = NoRow,
           \A s : s.kind = kind /\ s.user = db[Account] => Intends(s, v, generation', proven'),
           kind \in {"activate", "regenerate"} => v.codes = Codes(generation') /\ generation' > generation
    PROVE  IInv'
<1> DEFINE u == db[Account]
           new == [Idle EXCEPT !.pc = "store", !.kind = kind, !.user = u]
<1>1. /\ new.pc = "store" /\ new.kind = kind /\ new.user = u /\ new.row = NoRow
      /\ new.guess = NoRow /\ new.password = NoRow /\ new.then = "idle" /\ new.claims = NoRow
      /\ new.behind = {} /\ new = [f \in Fields |-> new[f]]
  BY DEF Fields, Idle
<1>2. at' = [at EXCEPT ![r] = new] /\ want' = [want EXCEPT ![r] = Becomes(Account, new.user, v)]
  BY <1>1
<1>3. u \in User \cup {NoRow} /\ generation \in Nat
  BY AccountIs
<1>4. u # NoRow => CodesBound(u, generation')
  <2> SUFFICES ASSUME u # NoRow PROVE CodesBound(u, generation')
    OBVIOUS
  <2>1. u \in User /\ CodesBound(u, generation) /\ generation' \in Nat
    BY <1>3, AccountIs, BoundAssumption
  <2> QED BY <1>3, <2>1, CodesAre DEF CodesBound
<1> HIDE DEF new
<1>5. new \in Local
  BY <1>1, <1>3, IsLocal DEF Kind, Setters
<1>6. LocalOK(new)
  BY <1>1, <1>5 DEF LocalOK, PcOK, Stores, Setters
<1>7. Scope(new) = {Account} /\ SetsUp(new)
  BY <1>1, <1>6, ScopesAre DEF SetsUp, Stores, Setters
<1>8. GoesByCode(new) = {}
  BY <1>1, RowNames DEF GoesByCode
<1>9. Intends(new, v, generation', proven')
  BY <1>1
<1>10. kind \notin {"login", "verify", "reset"} /\ v # NoRow
  BY NoRowAssumption DEF Setters
<1> QED BY <1>1, <1>2, <1>3, <1>4, <1>6, <1>7, <1>8, <1>9, <1>10, StartsIs, AccountStep

UserFields == {"password", "mfa", "secret", "codes", "provider"}

LEMMA IsUser ==
    ASSUME NEW u
    PROVE  u \in User <=>
             /\ u = [f \in UserFields |-> u[f]]
             /\ u.password \in Password \cup {NoRow} /\ u.mfa \in BOOLEAN
             /\ u.secret \in {0} \cup Key /\ u.codes \in (SUBSET Recovery) \cup {NoRow}
             /\ u.provider \in Provider \cup {NoRow}
<1>1. ASSUME u \in User PROVE u = [f \in UserFields |-> u[f]]
  BY <1>1 DEF User, UserFields
<1> QED BY <1>1 DEF User, UserFields

LEMMA NewUserIs ==
    ASSUME NEW p \in Password \cup {NoRow}, NEW provider \in Provider \cup {NoRow}
    PROVE  NewUser(p, provider) \in User /\ NewUser(p, provider).codes = NoRow
BY DEF NewUser, User

LEMMA RegisterStep ==
    ASSUME IInv, NEW r \in Req, NEW p \in Password, Register(r, p)
    PROVE  IInv'
<1> DEFINE v == NewUser(p, NoRow)
<1>1. v \in User /\ v.codes = NoRow
  BY NewUserIs
<1>2. /\ Starts(r, "register") /\ db[Account] = NoRow
      /\ at' = [at EXCEPT ![r] = [Idle EXCEPT !.pc = "store", !.kind = "register", !.user = db[Account]]]
      /\ want' = [want EXCEPT ![r] = Becomes(Account, db[Account], v)] /\ db' = db /\ held' = held
      /\ UNCHANGED <<limiter, scene, generation, observers>>
  BY DEF Register, Change1, Pend, Go
<1>3. \A s, g, pr : s.kind = "register" /\ s.user = db[Account] => Intends(s, v, g, pr)
  BY <1>1, <1>2 DEF Intends, CodesBound
<1>4. generation \in 0..MaxRow /\ generation <= generation /\ proven \subseteq Key
  BY AccountIs DEF IInv, Shapes
<1>5. "register" \in Setters
  BY DEF Setters
<1> HIDE DEF v
<1> QED BY <1>1, <1>2, <1>3, <1>4, <1>5, SetterStep DEF observers

LEMMA SetMfaStep ==
    ASSUME IInv, NEW r \in Req, NEW kind \in {"enable", "disable"}, NEW on \in BOOLEAN, SetMfa(r, kind, on)
    PROVE  IInv'
<1> DEFINE u == db[Account]
           v == [u EXCEPT !.mfa = on]
<1>1. /\ Starts(r, kind)
      /\ at' = [at EXCEPT ![r] = [Idle EXCEPT !.pc = "store", !.kind = kind, !.user = db[Account]]]
      /\ want' = [want EXCEPT ![r] = Becomes(Account, db[Account], v)] /\ db' = db /\ held' = held
      /\ UNCHANGED <<limiter, scene, generation, observers>>
  BY DEF SetMfa, Change1, Pend, Go
<1>2. u \in User /\ CodesBound(u, generation) /\ u # NoRow
  BY <1>1, StartsIs, AccountIs DEF SignedIn
<1>3. /\ v \in User /\ v.password = u.password /\ v.secret = u.secret /\ v.codes = u.codes
      /\ v.provider = u.provider
  BY <1>2 DEF User
<1> HIDE DEF v
<1>4. CodesBound(v, generation)
  BY <1>2, <1>3 DEF CodesBound
<1>5. \A s, pr : s.kind = kind /\ s.user = u => Intends(s, v, generation, pr)
  BY <1>2, <1>3, <1>4 DEF Intends
<1>6. generation \in 0..MaxRow /\ generation <= generation /\ proven \subseteq Key
  BY AccountIs DEF IInv, Shapes
<1>7. kind \in Setters
  BY DEF Setters
<1> QED BY <1>1, <1>2, <1>3, <1>5, <1>6, <1>7, SetterStep DEF observers

LEMMA EnrollStep ==
    ASSUME IInv, NEW r \in Req, Enroll(r)
    PROVE  IInv'
<1> DEFINE u == db[Account]
           v == [u EXCEPT !.secret = generation + 1, !.codes = NoRow]
<1>1. /\ Starts(r, "enroll") /\ generation < MaxRow /\ generation' = generation + 1
      /\ at' = [at EXCEPT ![r] = [Idle EXCEPT !.pc = "store", !.kind = "enroll", !.user = db[Account]]]
      /\ want' = [want EXCEPT ![r] = Becomes(Account, db[Account], v)] /\ db' = db /\ held' = held
      /\ UNCHANGED <<limiter, scene, observers>>
  BY DEF Enroll, Pend
<1>2. u \in User /\ u # NoRow
  BY <1>1, StartsIs, AccountIs DEF SignedIn
<1>3. generation \in Nat /\ MaxRow \in Nat /\ generation' \in 0..MaxRow /\ generation <= generation'
  BY <1>1, AccountIs, BoundAssumption
<1>4. /\ v \in User /\ v.password = u.password /\ v.codes = NoRow /\ v.provider = u.provider
  <2>1. generation + 1 \in Key
    BY <1>1, <1>3 DEF Key
  <2>2. u = [f \in UserFields |-> u[f]]
    BY <1>2, IsUser
  <2>3. /\ v = [f \in UserFields |-> v[f]] /\ v.password = u.password /\ v.mfa = u.mfa
        /\ v.secret = generation + 1 /\ v.codes = NoRow /\ v.provider = u.provider
    BY <2>2 DEF UserFields
  <2> HIDE DEF v
  <2> QED BY <1>2, <2>1, <2>3, IsUser
<1> HIDE DEF v
<1>5. \A s, pr : s.kind = "enroll" /\ s.user = u => Intends(s, v, generation', pr)
  BY <1>2, <1>4 DEF Intends, CodesBound
<1>6. proven \subseteq Key
  BY DEF IInv, Shapes
<1>7. "enroll" \in Setters
  BY DEF Setters
<1> QED BY <1>1, <1>2, <1>3, <1>4, <1>5, <1>6, <1>7, SetterStep DEF observers

\* New recovery codes are none of the account's.
LEMMA NewCodes ==
    ASSUME NEW g \in Nat, g + 1 \in Key, NEW u \in User, CodesBound(u, g)
    PROVE  /\ Codes(g + 1) \in SUBSET Recovery /\ Codes(g + 1) # NoRow /\ Codes(g + 1) # u.codes
           /\ \A k \in Codes(g + 1) : k[1] = g + 1
<1>1. Codes(g + 1) \in SUBSET Recovery /\ <<g + 1, 1>> \in Codes(g + 1)
      /\ \A k \in Codes(g + 1) : k[1] = g + 1
  BY DEF Codes, Recovery
<1>2. Codes(g + 1) # NoRow
  BY <1>1, NoRowAssumption
<1>3. CASE u.codes = NoRow
  BY <1>1, <1>2, <1>3
<1>4. CASE u.codes # NoRow
  BY <1>1, <1>2, <1>4 DEF CodesBound
<1> QED BY <1>1, <1>2, <1>3, <1>4

LEMMA CodesStep ==
    ASSUME IInv, NEW r \in Req, Activate(r) \/ Regenerate(r)
    PROVE  IInv'
<1> DEFINE u == db[Account]
<1>1. PICK kind \in {"activate", "regenerate"},
           v \in {[u EXCEPT !.codes = Codes(generation + 1)],
                  [u EXCEPT !.mfa = TRUE, !.codes = Codes(generation + 1)]} :
        /\ Starts(r, kind) /\ generation < MaxRow /\ generation' = generation + 1
        /\ at' = [at EXCEPT ![r] = [Idle EXCEPT !.pc = "store", !.kind = kind, !.user = db[Account]]]
        /\ want' = [want EXCEPT ![r] = Becomes(Account, db[Account], v)] /\ db' = db /\ held' = held
        /\ UNCHANGED <<limiter, scene, looked, accepted, replayed, raced>>
        /\ kind = "activate" => u.secret # 0 /\ proven' = proven \cup {u.secret}
        /\ kind = "regenerate" => u.codes # NoRow /\ proven' = proven
  BY DEF Activate, Regenerate, Pend, AuthenticatorEnabled, observers
<1>2. u \in User /\ u # NoRow /\ CodesBound(u, generation)
  BY <1>1, StartsIs, AccountIs DEF SignedIn
<1>3. /\ generation \in Nat /\ MaxRow \in Nat /\ generation' \in 0..MaxRow /\ generation <= generation'
      /\ generation + 1 \in Key /\ generation' > generation
  BY <1>1, AccountIs, BoundAssumption DEF Key
<1>4. /\ Codes(generation + 1) \in SUBSET Recovery /\ Codes(generation + 1) # NoRow
      /\ Codes(generation + 1) # u.codes /\ \A k \in Codes(generation + 1) : k[1] = generation + 1
  BY <1>2, <1>3, NewCodes
<1>5. /\ v \in User /\ v.password = u.password /\ v.codes = Codes(generation + 1)
      /\ v.provider = u.provider /\ v.secret = u.secret
  <2> DEFINE cs == Codes(generation + 1)
  <2>1. u = [f \in UserFields |-> u[f]]
    BY <1>2, IsUser
  <2>2. v = [u EXCEPT !.codes = cs] \/ v = [u EXCEPT !.mfa = TRUE, !.codes = cs]
    BY <1>1
  <2> HIDE DEF cs
  <2>3. /\ v = [f \in UserFields |-> v[f]] /\ v.password = u.password /\ v.mfa \in {u.mfa, TRUE}
        /\ v.secret = u.secret /\ v.codes = cs /\ v.provider = u.provider
    BY <2>1, <2>2 DEF UserFields
  <2>4. v \in User
    BY <1>2, <1>4, <2>3, IsUser DEF cs
  <2> QED BY <2>3, <2>4 DEF cs
<1>6. CodesBound(v, generation') /\ generation' \in 1..generation'
  BY <1>1, <1>3, <1>4, <1>5 DEF CodesBound
<1>7. proven \subseteq proven' /\ proven' \subseteq Key
  <2>1. u.secret \in {0} \cup Key /\ proven \subseteq Key
    BY <1>2 DEF User, IInv, Shapes
  <2> QED BY <1>1, <2>1
<1>8. v.codes = Codes(generation') /\ v.codes # NoRow /\ v.codes # u.codes
  BY <1>1, <1>4, <1>5
<1>9. \A s : s.kind = kind /\ s.user = u => Intends(s, v, generation', proven')
  <2> SUFFICES ASSUME NEW s, s.kind = kind, s.user = u PROVE Intends(s, v, generation', proven')
    OBVIOUS
  <2>1. kind = "activate" => u.secret \in proven'
    BY <1>1
  <2>2. kind = "regenerate" => u.codes # NoRow
    BY <1>1
  <2> QED BY <1>2, <1>5, <1>6, <1>8, <2>1, <2>2 DEF Intends
<1>10. kind \in Setters
  BY DEF Setters
<1> QED BY <1>1, <1>2, <1>3, <1>5, <1>7, <1>8, <1>9, <1>10, SetterStep

LEMMA OAuthStep ==
    ASSUME IInv, NEW r \in Req, NEW p \in Provider, NEW intent, OAuth(r, p, intent)
    PROVE  IInv'
<1> DEFINE u == db[Account]
           v == IF u = NoRow THEN NewUser(NoRow, p)
                ELSE [u EXCEPT !.provider = IF @ = NoRow THEN p ELSE @]
           new == [Idle EXCEPT !.pc = "store", !.kind = "oauth", !.then = "refresh", !.user = u]
<1>1. /\ Starts(r, "oauth") /\ at' = [at EXCEPT ![r] = new]
      /\ want' = [want EXCEPT ![r] = Becomes(Account, u, v)] /\ db' = db /\ held' = held
      /\ UNCHANGED <<limiter, scene, generation, observers>>
  BY DEF OAuth, Pend, Go
<1>2. /\ u \in User \cup {NoRow} /\ (u # NoRow => CodesBound(u, generation))
      /\ generation \in 0..MaxRow /\ generation <= generation /\ proven \subseteq Key
  BY AccountIs DEF IInv, Shapes
<1>3. /\ v \in User /\ v # NoRow /\ (u = NoRow => v.codes = NoRow)
      /\ u # NoRow => /\ v.password = u.password /\ v.secret = u.secret /\ v.codes = u.codes
                      /\ u.provider # NoRow => v.provider = u.provider
  <2>1. CASE u = NoRow
    BY <2>1, NewUserIs, NoRowAssumption
  <2>2. CASE u # NoRow
    <3>1. u = [f \in UserFields |-> u[f]] /\ u \in User
      BY <1>2, <2>2, IsUser
    <3>2. /\ v = [f \in UserFields |-> v[f]] /\ v.password = u.password /\ v.mfa = u.mfa
          /\ v.secret = u.secret /\ v.codes = u.codes
          /\ v.provider = IF u.provider = NoRow THEN p ELSE u.provider
      BY <2>2, <3>1 DEF UserFields
    <3> HIDE DEF v
    <3>3. v \in User
      BY <3>1, <3>2, IsUser
    <3> QED BY <2>2, <3>2, <3>3, NoRowAssumption
  <2> QED BY <2>1, <2>2
<1>4. /\ new.pc = "store" /\ new.kind = "oauth" /\ new.user = u /\ new.row = NoRow
      /\ new.guess = NoRow /\ new.password = NoRow /\ new.then = "refresh" /\ new.claims = NoRow
      /\ new.behind = {} /\ new = [f \in Fields |-> new[f]]
  BY DEF Fields, Idle
<1> HIDE DEF v, new
<1>5. new \in Local
  BY <1>2, <1>4, IsLocal DEF Kind
<1>6. LocalOK(new)
  BY <1>4, <1>5 DEF LocalOK, PcOK, Stores
<1>7. Scope(new) = {Account} /\ SetsUp(new) /\ GoesByCode(new) = {}
  BY <1>4, <1>6, ScopesAre, RowNames DEF SetsUp, Stores, GoesByCode
<1>8. Intends(new, v, generation, proven)
  BY <1>2, <1>3, <1>4 DEF Intends, CodesBound
<1>9. want' = [want EXCEPT ![r] = Becomes(Account, new.user, v)]
  BY <1>1, <1>4
<1> QED BY <1>1, <1>2, <1>3, <1>4, <1>6, <1>7, <1>8, <1>9, StartsIs, AccountStep DEF observers

\* An account without one of its recovery codes.
LEMMA WithoutCode ==
    ASSUME NEW u \in User, NEW k, IsRecovery(u, k)
    PROVE  LET v == [u EXCEPT !.codes = @ \ {k[2]}] IN
           /\ v \in User /\ v # u /\ v.password = u.password /\ v.secret = u.secret
           /\ v.provider = u.provider /\ v.codes = u.codes \ {k[2]}
           /\ \A g : CodesBound(u, g) => CodesBound(v, g)
<1> DEFINE v == [u EXCEPT !.codes = u.codes \ {k[2]}]
<1>1. u = [f \in UserFields |-> u[f]] /\ u.codes # NoRow /\ k[2] \in u.codes
  BY IsUser DEF IsRecovery
<1>2. /\ v = [f \in UserFields |-> v[f]] /\ v.password = u.password /\ v.mfa = u.mfa
      /\ v.secret = u.secret /\ v.codes = u.codes \ {k[2]} /\ v.provider = u.provider
  BY <1>1 DEF UserFields
<1> HIDE DEF v
<1>3. v.codes \in SUBSET Recovery
  BY <1>1, <1>2, CodesAre
<1>4. v \in User
  BY <1>2, <1>3, IsUser
<1>5. v # u
  BY <1>1, <1>2
<1>6. \A g : CodesBound(u, g) => CodesBound(v, g)
  BY <1>1, <1>2 DEF CodesBound
<1> QED BY <1>2, <1>4, <1>5, <1>6 DEF v

LEMMA RecoveryStep ==
    ASSUME IInv, NEW r \in Req, CheckRecovery(r)
    PROVE  IInv'
<1> DEFINE s == at[r]
           u == s.user
           v == [u EXCEPT !.codes = @ \ {s.guess[2]}]
           new == [s EXCEPT !.pc = "store", !.then = "token", !.claims = s.guess]
<1>1. /\ s.pc = "check" /\ IsRecovery(u, s.guess) /\ at' = [at EXCEPT ![r] = new]
      /\ want' = [want EXCEPT ![r] = Becomes(Account, u, v)] /\ db' = db /\ held' = held
      /\ UNCHANGED <<limiter, scene, generation, observers>>
  BY DEF CheckRecovery, Pend, Go
<1>2. LocalOK(s) /\ s.kind = "verify" /\ AccountOK(r) /\ u # NoRow
  BY <1>1 DEF IInv, Shapes, LocalOK, PcOK, ReqOK
<1>3. /\ s = [f \in Fields |-> s[f]] /\ u \in User /\ s.behind \in SUBSET Row
      /\ s.row \in CodeRows \cup {NoRow} /\ s.guess \in Guess \cup {NoRow}
  BY <1>2, IsLocal DEF LocalOK
<1>4. /\ v \in User /\ v # u /\ v.password = u.password /\ v.secret = u.secret
      /\ v.provider = u.provider /\ v.codes = u.codes \ {s.guess[2]}
      /\ \A g : CodesBound(u, g) => CodesBound(v, g)
  BY <1>1, <1>3, WithoutCode
<1>5. /\ new.pc = "store" /\ new.kind = "verify" /\ new.user = u /\ new.row = s.row
      /\ new.guess = s.guess /\ new.password = s.password /\ new.then = "token"
      /\ new.claims = s.guess /\ new.behind = s.behind /\ new = [f \in Fields |-> new[f]]
  BY <1>2, <1>3 DEF Fields
<1>6. CodesBound(u, generation) /\ (s.row # NoRow => db[s.row] # NoRow)
      /\ (Account \notin s.behind => u = db[Account])
  BY <1>1, <1>2 DEF AccountOK, GoesByUser
<1>7. generation \in 0..MaxRow /\ generation <= generation /\ proven \subseteq Key
  BY AccountIs DEF IInv, Shapes
<1>8. u.codes # NoRow /\ s.guess[1] = "recovery"
  BY <1>1 DEF IsRecovery
<1>9. s.password = NoRow
  BY <1>2 DEF LocalOK
<1>10. s.guess # NoRow /\ s.guess \in Guess /\ s.guess \notin CodeRows
  <2>1. s.guess \notin CodeRows
    BY <1>8 DEF CodeRows
  <2>2. s.guess # NoRow
    BY <1>2 DEF LocalOK
  <2> QED BY <1>3, <2>1, <2>2
<1> HIDE DEF v, new, u, s
<1>11. new \in Local
  BY <1>3, <1>5, <1>9, <1>10, IsLocal DEF Kind
<1>12. LocalOK(new)
  BY <1>1, <1>2, <1>5, <1>10, <1>11 DEF LocalOK, PcOK, Stores, Claims
<1>13. Scope(new) = {Account}
  <2>1. new.claims # new.row
    BY <1>3, <1>5, <1>10
  <2> QED BY <1>5, <1>12, <2>1, ScopesAre
<1>14. GoesByCode(new) = {}
  BY <1>5, <1>10 DEF GoesByCode
<1>15. Intends(new, v, generation, proven)
  BY <1>2, <1>4, <1>5, <1>6, <1>8 DEF Intends
<1>16. want' = [want EXCEPT ![r] = Becomes(Account, new.user, v)]
  BY <1>1, <1>5
<1>17. db[Account] # NoRow
  BY <1>1, AccountIs DEF s, SetsUp, Stores
<1>18. s = at[r]
  BY DEF s
<1> QED BY <1>1, <1>2, <1>4, <1>5, <1>6, <1>7, <1>12, <1>13, <1>14, <1>15, <1>16, <1>17, <1>18,
           AccountStep DEF observers, Stores

LEMMA ApplyStep ==
    ASSUME IInv, NEW r \in Req, Apply(r)
    PROVE  IInv'
<1> DEFINE s == at[r]
           u == db[Account]
           v == [u EXCEPT !.password = s.password]
           new == [s EXCEPT !.pc = "consume", !.user = u]
<1>1. /\ s.pc = "apply" /\ at' = [at EXCEPT ![r] = new]
      /\ want' = [want EXCEPT ![r] = Becomes(Account, u, v)] /\ db' = db /\ held' = held
      /\ UNCHANGED <<limiter, scene, generation, observers>>
  BY DEF Apply, Pend, Go
<1>2. LocalOK(s) /\ s.kind = "reset" /\ AccountOK(r) /\ ClaimOK(r) /\ s.claims = NoRow
  BY <1>1, NoClaims DEF IInv, Shapes, LocalOK, PcOK, ReqOK
<1>3. /\ s = [f \in Fields |-> s[f]] /\ s.behind \in SUBSET Row
      /\ s.row \in TableRows("reset") /\ s.row \in CodeRows /\ s.password \in Password \cup {NoRow}
      /\ s.guess \in Guess \cup {NoRow}
      /\ s.then \in {"idle", "refresh", "check", "close", "token"}
  BY <1>2, IsLocal, TablesAre DEF LocalOK, CodeTables
<1>4. u \in User /\ u # NoRow /\ CodesBound(u, generation)
  BY <1>1, AccountIs DEF SetsUp, Stores
<1>5. /\ v \in User /\ v.secret = u.secret /\ v.provider = u.provider /\ v.codes = u.codes
      /\ \A g : CodesBound(u, g) => CodesBound(v, g)
  <2>1. u = [f \in UserFields |-> u[f]]
    BY <1>4, IsUser
  <2>2. /\ v = [f \in UserFields |-> v[f]] /\ v.password = s.password /\ v.mfa = u.mfa
        /\ v.secret = u.secret /\ v.codes = u.codes /\ v.provider = u.provider
    BY <2>1 DEF UserFields
  <2> HIDE DEF v
  <2> QED BY <1>3, <1>4, <2>2, IsUser DEF CodesBound
<1>6. /\ new.pc = "consume" /\ new.kind = "reset" /\ new.user = u /\ new.row = s.row
      /\ new.guess = s.guess /\ new.password = s.password /\ new.then = s.then
      /\ new.claims = NoRow /\ new.behind = s.behind /\ new = [f \in Fields |-> new[f]]
  BY <1>2, <1>3 DEF Fields
<1>7. generation \in 0..MaxRow /\ generation <= generation /\ proven \subseteq Key
  BY AccountIs DEF IInv, Shapes
<1>8. db[s.row] # NoRow /\ (s.row \notin s.behind => db[s.row].open)
  BY <1>1, <1>2 DEF ClaimOK, GoesByCode
<1>9. s = at[r]
  OBVIOUS
<1> HIDE DEF v, new, s
<1>10. new \in Local
  BY <1>3, <1>4, <1>6, IsLocal DEF Kind
<1>11. LocalOK(new)
  BY <1>2, <1>3, <1>4, <1>6, <1>10 DEF LocalOK, PcOK, Stores
<1>12. Scope(new) = {Account}
  BY <1>6, <1>11, ScopesAre
<1>13. GoesByCode(new) = {s.row}
  BY <1>6, RowNames DEF GoesByCode
<1>14. Intends(new, v, generation, proven)
  BY <1>4, <1>5, <1>6 DEF Intends
<1>15. want' = [want EXCEPT ![r] = Becomes(Account, new.user, v)]
  BY <1>1, <1>6
<1>16. at[r].pc = "apply"
  BY <1>1, <1>9
<1> HIDE DEF u
<1>17. db[Account] = u
  BY DEF u
<1>18. /\ generation' \in 0..MaxRow /\ generation <= generation' /\ proven \subseteq proven'
       /\ proven' \subseteq Key /\ Intends(new, v, generation', proven')
       /\ CodesBound(new.user, generation')
       /\ UNCHANGED <<limiter, scene, looked, accepted, replayed, raced>>
  BY <1>1, <1>4, <1>6, <1>7, <1>14 DEF observers
<1>19. /\ ~ Stores(new) /\ new.kind = "reset" /\ new.pc # "idle" /\ new.user # NoRow
       /\ (new.row # NoRow => db[new.row] # NoRow)
       /\ \A c \in GoesByCode(new) : db[c] # NoRow /\ (c \notin new.behind => db[c].open)
       /\ new.user = db[Account] /\ db[Account] # NoRow
  BY <1>4, <1>6, <1>8, <1>13, <1>17 DEF Stores
<1> QED BY <1>1, <1>5, <1>6, <1>11, <1>12, <1>15, <1>16, <1>18, <1>19, AccountStep

-----------------------------------------------------------------------------
(* A second factor that is checked, and requests that end with it.         *)

\* A request goes on, or ends, and touches no row.
LEMMA GoesOn ==
    ASSUME IInv, NEW r \in Req, NEW pc \in {"check", "token"}, NEW new,
           new = [at[r] EXCEPT !.pc = pc],
           at[r].pc \in {"guess", "check"}, at[r].kind = "verify",
           at' = [at EXCEPT ![r] = new],
           UNCHANGED <<session, limiter, scene, generation, observers>>
    PROVE  IInv'
<1> DEFINE s == at[r]
<1>1. LocalOK(s) /\ AccountOK(r) /\ s.claims = NoRow /\ s.password = NoRow
  BY NoClaims DEF IInv, Shapes, ReqOK, LocalOK
<1>2. /\ s = [f \in Fields |-> s[f]] /\ s.user \in User \cup {NoRow} /\ s.behind \in SUBSET Row
      /\ s.row \in CodeRows \cup {NoRow} /\ s.guess \in Guess \cup {NoRow}
      /\ s.then \in {"idle", "refresh", "check", "close", "token"}
  BY <1>1, IsLocal DEF LocalOK
<1>3. /\ new.pc = pc /\ new.kind = "verify" /\ new.user = s.user /\ new.row = s.row
      /\ new.guess = s.guess /\ new.password = NoRow /\ new.then = s.then
      /\ new.claims = NoRow /\ new.behind = s.behind /\ new = [f \in Fields |-> new[f]]
  BY <1>1, <1>2 DEF Fields
<1>4. new \in Local
  <2>1. /\ new.pc \in {"check", "token"} /\ new.kind \in Kind /\ new.user \in User \cup {NoRow}
        /\ new.row \in CodeRows \cup {NoRow} /\ new.guess \in Guess \cup {NoRow}
        /\ new.password = NoRow /\ new.then \in {"idle", "refresh", "check", "close", "token"}
        /\ new.claims = NoRow /\ new.behind \in SUBSET Row
    BY <1>2, <1>3 DEF Kind
  <2> HIDE DEF s
  <2> QED BY <1>3, <2>1, IsLocal
<1>5. LocalOK(new)
  BY <1>1, <1>3, <1>4 DEF LocalOK, PcOK, Stores
<1>6. Scope(new) = {} /\ GoesByCode(new) = {}
  <2>1. Scope(new) = {}
    BY <1>3, <1>5, ScopesAre
  <2> QED BY <1>3, <2>1, RowNames DEF GoesByCode
<1>7. db[Account] # NoRow
  BY AccountIs DEF SetsUp, Stores
<1>8. /\ s.user # NoRow => CodesBound(s.user, generation)
      /\ s.row # NoRow => db[s.row] # NoRow
      /\ Account \notin s.behind => s.user = db[Account]
  BY <1>1 DEF AccountOK, GoesByUser
<1> QED BY <1>3, <1>5, <1>6, <1>7, <1>8, LimiterSame, QuietStep

LEMMA EndsQuietly ==
    ASSUME IInv, NEW r \in Req, at[r].pc \in {"guess", "check"},
           at' = [at EXCEPT ![r] = Idle],
           UNCHANGED <<session, limiter, scene, generation, observers>>
    PROVE  IInv'
<1>1. GoesByCode(Idle) = {} /\ ~ GoesByUser(Idle)
  BY IdleIs, RowNames DEF GoesByCode, GoesByUser
<1> QED BY <1>1, IdleIs, LimiterSame, QuietStep

LEMMA ChecksStep ==
    ASSUME IInv, NEW r \in Req, CheckTotp(r) \/ CheckFails(r)
    PROVE  IInv'
<1>1. CASE CheckTotp(r)
  <2>1. at[r].kind = "verify"
    BY <1>1 DEF CheckTotp, IInv, Shapes, LocalOK, PcOK
  <2> QED BY <1>1, <2>1, GoesOn DEF CheckTotp, Go
<1>2. CASE CheckFails(r)
  BY <1>2, EndsQuietly DEF CheckFails, Go
<1> QED BY <1>1, <1>2

LEMMA LimiterSteps ==
    ASSUME IInv, NEW r \in Req, TurnedAway(r) \/ TurnedDown(r) \/ Time \/ UNCHANGED vars
    PROVE  IInv'
<1>1. CASE TurnedAway(r)
  BY <1>1, LimiterMoves, LimiterStep DEF TurnedAway
<1>2. CASE Time
  BY <1>2, LimiterMoves, LimiterStep DEF Time
<1>3. CASE TurnedDown(r) \/ UNCHANGED vars
  BY <1>3, LimiterSame, LimiterStep DEF TurnedDown, vars
<1> QED BY <1>1, <1>2, <1>3

-----------------------------------------------------------------------------
(* Steps that change the row of a code.                                    *)

LEMMA SeesCode ==
    ASSUME IInv, NEW r \in Req, NEW x \in CodeRows, db[x] # NoRow
    PROVE  /\ db[x] \in Code /\ Sees(r)[x] \in Code
           /\ Sees(r)[x] = IF x \in DOMAIN held[r] THEN held[r][x] ELSE db[x]
BY RowNames, RowTypes DEF IInv, Shapes, Sees

LEMMA IsCode ==
    ASSUME NEW c
    PROVE  c \in Code <=> /\ c = [f \in {"open", "attempts", "born"} |-> c[f]]
                          /\ c.open \in BOOLEAN /\ c.attempts \in 0..MaxAttempts
                          /\ c.born \in 0..MaxTime
<1>1. ASSUME c \in Code PROVE c = [f \in {"open", "attempts", "born"} |-> c[f]]
  BY <1>1 DEF Code
<1> QED BY <1>1 DEF Code

LEMMA CodeStep ==
    ASSUME IInv, NEW r \in Req, NEW new, LocalOK(new), NEW x \in CodeRows, NEW c \in Code,
           at[r].pc \in {"guess", "close", "consume"}, want[r] = Nothing,
           at[r].pc # "guess" => at[r].row = x,
           new.kind = at[r].kind, new.kind \in {"verify", "delete", "reset"},
           new.row = x, db[x] # NoRow, new.user = at[r].user, new.behind = at[r].behind,
           at' = [at EXCEPT ![r] = new],
           want' = [want EXCEPT ![r] = Becomes(x, Sees(r)[x], c)], db' = db, held' = held,
           UNCHANGED <<limiter, scene, generation, accepted, replayed, proven, raced>>,
           looked' \in [CodeRows -> Nat], \A y \in CodeRows \ {x} : looked'[y] = looked[y],
           looked'[x] + Sees(r)[x].attempts = looked[x] + c.attempts,
           new.pc \in {"close", "store", "revoke"}, new.pc = "revoke" <=> new.kind = "reset",
           x \in Scope(new), Scope(new) \subseteq {Account, x},
           Account \in Scope(new) => Account \in Scope(at[r]),
           GoesByUser(new) => GoesByUser(at[r]),
           c.open => Sees(r)[x].open,
           ~ Guesses(new) => c.attempts = Sees(r)[x].attempts,
           \A d \in GoesByCode(new) :
              /\ d = x /\ (x \notin new.behind => db[x].open)
              /\ new.pc # "close" => ~ c.open /\ (Sees(r)[x].open \/ Sees(r)[x] = c)
    PROVE  IInv'
<1> DEFINE s == at[r]
           a == Sees(r)[x]
<1>1. DOMAIN at = Req /\ at'[r] = new /\ DOMAIN want = Req /\ DOMAIN want' = Req
      /\ (\A q \in Req \ {r} : want'[q] = want[q] /\ at'[q] = at[q])
      /\ generation \in 0..MaxRow /\ generation <= generation /\ proven \subseteq Key /\ LocalOK(s)
  BY BoundAssumption DEF IInv, Shapes
<1>2. /\ DOMAIN want[r] = {} /\ Writes(r) = DOMAIN held[r]
  BY DEF Nothing, Writes
<1>3. DOMAIN held[r] \subseteq {Account, x}
  <2>1. Scope(s) \subseteq {Account, x}
    BY <1>1, ScopesAre
  <2> QED BY <1>2, <2>1 DEF IInv, ScopeOK
<1>4. /\ a \in Code /\ db[x] \in Code /\ a = IF x \in DOMAIN held[r] THEN held[r][x] ELSE db[x]
  BY SeesCode
<1> HIDE DEF a
<1>5. want'[r] = Becomes(x, a, c)
  BY <1>1 DEF a
<1>6. /\ a # c => x \in DOMAIN want'[r]
      /\ \A y \in DOMAIN want'[r] : /\ y = x /\ a # c /\ want'[r][y] = Change(a, c)
                                    /\ want'[r][y].was = a /\ want'[r][y].new = c
      /\ Writes(r)' = DOMAIN want'[r] \cup DOMAIN held[r] /\ Writes(r)' \subseteq {Account, x}
  BY <1>3, <1>5 DEF Becomes, Changes, Change, Writes
<1>7. x # Account /\ x \in Row /\ RowType(x) = Code /\ NoRow \notin Code /\ x \notin SessionRows
      /\ Account \notin SessionRows /\ Account \notin CodeRows
  BY RowNames, TablesAre, RowTypes, NoRowAssumption
<1>8. AccountOK(r)'
  <2>1. Account \notin DOMAIN want'[r] /\ ~ (new.pc = "store" /\ Account \in Scope(new))
    <3>1. ASSUME new.pc = "store", Account \in Scope(new) PROVE FALSE
      <4>1. new.kind \in {"verify", "delete"} /\ Scope(new) # {}
        BY <3>1
      <4>2. Scope(s) \subseteq {x}
        BY <1>1, <4>1, ScopesAre DEF LocalOK, PcOK
      <4> QED BY <1>7, <3>1, <4>2
    <3> QED BY <1>6, <1>7, <3>1
  <2>2. AccountOK(r)
    BY DEF IInv, ReqOK
  <2>3. Account \in DOMAIN held[r] =>
          /\ s.user = NoRow <=> db[Account] = NoRow
          /\ \E v \in User : /\ Intends(s, v, generation, proven)
                             /\ held[r][Account] = Sent(Change(s.user, v), db[Account])
    BY <2>2 DEF AccountOK
  <2>4. \A v : Account \in DOMAIN held[r] /\ Intends(s, v, generation, proven) =>
                 Intends(new, v, generation, proven)
    <3>1. Account \in DOMAIN held[r] => s.kind = "reset"
      BY <1>1, <1>7, ScopesAre DEF IInv, ScopeOK, Writes, LocalOK, PcOK
    <3> QED BY <3>1 DEF Intends
  <2>5. s.user # NoRow => CodesBound(s.user, generation)
    BY <2>2 DEF AccountOK
  <2>6. GoesByUser(new) /\ Account \notin new.behind => new.user = db[Account]
    BY <2>2 DEF AccountOK
  <2> QED BY <1>1, <2>1, <2>3, <2>4, <2>5, <2>6 DEF AccountOK, Stores
<1>9. ClosesOthers(r)' /\ EndsAll(r)'
  BY <1>1 DEF ClosesOthers, EndsAll, Issues, Issuers, Stores
<1>10. ClaimOK(r)'
  <2> SUFFICES ASSUME NEW d \in GoesByCode(new)
               PROVE  db[d] # NoRow /\ (d \notin new.behind => db[d].open)
                      /\ (new.pc \in {"revoke", "store"} => Closes(r, d)')
    BY <1>1 DEF ClaimOK
  <2>1. d = x /\ (new.pc # "close" => ~ c.open /\ (a.open \/ a = c))
    BY DEF a
  <2>2. new.pc # "close" => Closes(r, x)'
    BY <1>4, <1>6, <2>1 DEF Closes
  <2> QED BY <2>1, <2>2
<1>11. \A y \in CodeRows : CodeOK(r, y)'
  <2> SUFFICES ASSUME NEW y \in CodeRows PROVE CodeOK(r, y)'
    OBVIOUS
  <2>1. ~ Issues(s, y[1]) /\ ~ Issues(new, y[1])
    BY DEF Issues, Issuers
  <2>2. y \in DOMAIN held[r] =>
          /\ y = x /\ (held[r][y].open => db[y].open)
          /\ ~ Guesses(s) => held[r][y].attempts = db[y].attempts
    BY <1>3, <1>7, <2>1 DEF IInv, ReqOK, CodeOK
  <2>3. Guesses(new) <=> Guesses(s)
    BY DEF Guesses
  <2>4. y \in DOMAIN want'[r] => y = x /\ Sees(r)'[y] = a
    BY <1>6 DEF Sees, a
  <2>5. y \in DOMAIN held[r] =>
          /\ (held[r][y].open => db[y].open)
          /\ ~ Guesses(new) => held[r][y].attempts = db[y].attempts
          /\ db[y] # NoRow
    BY <2>2, <2>3
  <2>6. y \in DOMAIN want'[r] =>
          /\ want'[r][y].was = a /\ want'[r][y].new = c /\ a # NoRow /\ db[y] # NoRow
    BY <1>4, <1>6, <1>7
  <2>7. /\ c.open => a.open
        /\ ~ Guesses(new) => c.attempts = a.attempts
    BY DEF a
  <2>8. y \in DOMAIN want'[r] => Sees(r)'[y] = a
    BY <2>4
  <2>9. y \in DOMAIN want'[r] =>
         LET w == want'[r][y] IN
         /\ w.was = NoRow <=> db[y] = NoRow
         /\ w.was # NoRow
         /\ w.new.open => w.was.open
         /\ y \notin new.behind => w.was = Sees(r)'[y]
         /\ ~ Guesses(new) => w.new.attempts = w.was.attempts
         /\ ~ Issues(new, y[1])
    BY <2>1, <2>6, <2>7, <2>8
  <2>10. y \in DOMAIN want'[r] => db[y] # NoRow
    BY <2>6
  <2> HIDE DEF s
  <2>11. at'[r] = new /\ db' = db /\ held' = held
    BY <1>1
  <2>12. CASE y \in DOMAIN want'[r] /\ y \in DOMAIN held[r]
    BY <2>11, <2>1, <2>5, <2>9, <2>10, <2>12 DEF CodeOK
  <2>13. CASE y \in DOMAIN want'[r] /\ y \notin DOMAIN held[r]
    BY <2>11, <2>9, <2>10, <2>13 DEF CodeOK
  <2>14. CASE y \notin DOMAIN want'[r]
    BY <2>11, <2>1, <2>5, <2>14 DEF CodeOK
  <2> QED BY <2>12, <2>13, <2>14
<1>12. \A y \in SessionRows : TokenOK(r, y)'
  BY <1>3, <1>6, <1>7 DEF TokenOK
<1>13. ReqOK(r)'
  BY <1>8, <1>9, <1>10, <1>11, <1>12 DEF ReqOK
<1>14. Counted(x)'
  <2>1. InFlight(x) \subseteq InFlight(x)' /\ (\A q \in Req \ {r} : q \in InFlight(x)' => q \in InFlight(x))
    BY <1>1, <1>2, <1>6 DEF InFlight, Guesses, Writes
  <2>2. r \notin InFlight(x)' => looked'[x] = looked[x]
    <3>1. looked[x] \in Nat /\ looked'[x] \in Nat /\ a.attempts \in Nat /\ c.attempts \in Nat
      BY <1>4, BoundAssumption DEF IInv, Shapes, Code
    <3>2. r \notin InFlight(x)' => c.attempts = a.attempts
      BY <1>1, <1>6 DEF InFlight, Guesses, a
    <3> QED BY <3>1, <3>2 DEF a
  <2>3. \A q \in Req \ {r} : Count(q, x)' = Count(q, x)
    BY <1>1 DEF Count
  <2>4. Counted(x)
    BY DEF IInv
  <2>5. ASSUME x \notin raced, InFlight(x)' = {} PROVE looked'[x] = db[x].attempts
    BY <2>1, <2>2, <2>4, <2>5 DEF Counted
  <2>6. ASSUME x \notin raced, NEW q \in Req, InFlight(x)' = {q}, x \notin at'[q].behind
        PROVE  looked'[x] = Count(q, x)'
    <3>1. CASE q # r
      <4>1. InFlight(x) = {q} /\ at'[q] = at[q] /\ r \notin InFlight(x)'
        BY <1>1, <2>1, <2>6, <3>1
      <4> QED BY <2>2, <2>3, <2>4, <2>6, <3>1, <4>1 DEF Counted
    <3>2. CASE q = r
      <4>1. looked[x] \in Nat /\ looked'[x] \in Nat /\ a.attempts \in Nat /\ c.attempts \in Nat
        BY <1>4, BoundAssumption DEF IInv, Shapes, Code
      <4>2. looked[x] = a.attempts
        <5>1. CASE InFlight(x) = {}
          <6>1. x \notin DOMAIN held[r]
            BY <1>1, <1>2, <2>6, <3>2, <5>1 DEF InFlight, Guesses
          <6> QED BY <1>4, <2>4, <2>6, <5>1, <6>1 DEF Counted
        <5>2. CASE InFlight(x) = {r}
          <6>1. Count(r, x) = a.attempts
            BY <1>2, <1>4 DEF Count
          <6> QED BY <1>1, <2>4, <2>6, <3>2, <5>2, <6>1 DEF Counted
        <5> QED BY <2>1, <2>6, <3>2, <5>1, <5>2
      <4>3. Count(r, x)' = IF x \in DOMAIN want'[r] THEN a.attempts + c.attempts - a.attempts ELSE a.attempts
        BY <1>4, <1>6 DEF Count
      <4>4. looked'[x] + a.attempts = looked[x] + c.attempts
        BY DEF a
      <4>5. x \notin DOMAIN want'[r] => c.attempts = a.attempts
        BY <1>6
      <4> QED BY <3>2, <4>1, <4>2, <4>3, <4>4, <4>5
    <3> QED BY <3>1, <3>2
  <2> QED BY <2>5, <2>6 DEF Counted
<1>15. \A y \in CodeRows : Counted(y)'
  <2> SUFFICES ASSUME NEW y \in CodeRows, y # x PROVE Counted(y)'
    BY <1>14
  <2>1. y \notin Writes(r) /\ y \notin Writes(r)'
    BY <1>2, <1>3, <1>6, <1>7
  <2> QED BY <1>1, <2>1, CountedFrame
<1>16. \A y \in DOMAIN want'[r] : want'[r][y] \in [was : RowType(y) \cup {NoRow}, new : RowType(y)]
  BY <1>4, <1>6, <1>7 DEF Change
<1>17. Writes(r)' \subseteq Scope(new)
  <2>1. DOMAIN held[r] \subseteq Scope(new)
    <3>1. Account \in DOMAIN held[r] => s.pc = "consume"
      BY <1>1, <1>2, <1>7, ScopesAre DEF IInv, ScopeOK
    <3>2. s.pc = "consume" => Account \in Scope(new)
      BY <1>1, ScopesAre DEF LocalOK, PcOK
    <3> QED BY <1>3, <3>1, <3>2
  <2> QED BY <1>6, <2>1
<1>18. ~ \E g \in Key : Makes(r, g)'
  BY <1>1 DEF Makes
<1>19. db[Account] # NoRow
  BY <1>7, AccountIs
<1>20. \A y \in Writes(r)' \ {Account} : db[y] # NoRow
  BY <1>6
<1>21. /\ scene' = scene /\ accepted' = accepted /\ replayed' = replayed /\ raced' = raced
       /\ generation' \in 0..MaxRow /\ generation <= generation' /\ proven \subseteq proven'
       /\ proven' \subseteq Key /\ LimiterInv' /\ LimiterTypeOK'
  BY <1>1, LimiterSame
<1>22. at[r].pc # "store" /\ at[r].pc # "idle"
  OBVIOUS
<1> HIDE DEF s, a
<1>23. DOMAIN want' = Req /\ \A q \in Req \ {r} : want'[q] = want[q]
  BY <1>1
<1>24. /\ at[r].pc = "idle" /\ new.pc # "idle" =>
             \A t \in AllTables : Cardinality(Used(t)) + Cardinality(Busy) < MaxRow
       /\ db[Account] = NoRow /\ new.pc # "idle" => SetsUp(new) /\ new.user = NoRow
       /\ \A g \in Key : Makes(r, g)' => g > generation
  BY <1>18, <1>19, <1>22
<1>25. \A y \in Writes(r)' \ {Account} : db[y] = NoRow =>
             /\ \A q \in Req \ {r} : y \notin Writes(q)
             /\ \A z \in Writes(r)' : y = z \/ db[z] # NoRow
  BY <1>20
<1> QED BY <1>13, <1>15, <1>16, <1>17, <1>21, <1>22, <1>23, <1>24, <1>25, MoveStep

LEMMA LatestIs ==
    ASSUME IInv, NEW r, NEW t \in CodeTables, NEW x \in Latest(r, t)
    PROVE  /\ x \in TableRows(t) /\ x \in CodeRows /\ db[x] # NoRow /\ db[x] \in Code
           /\ db[x].open /\ db[x].attempts < MaxAttempts
<1>1. PICK k \in Key : x = <<t, k>> /\ db[x] # NoRow /\ db[x].open /\ db[x].attempts < MaxAttempts
  BY DEF Latest
<1>2. x \in TableRows(t) /\ x \in CodeRows
  BY <1>1, TablesAre
<1> QED BY <1>1, <1>2, RowNames, RowTypes DEF IInv, Shapes

LEMMA AttemptStep ==
    ASSUME IInv, NEW r \in Req, NEW new, NEW x \in CodeRows, NEW right \in BOOLEAN,
           Attempt(r, x, right, new), at[r].pc = "guess", want[r] = Nothing,
           db[x] # NoRow, db[x].open, db[x].attempts < MaxAttempts,
           new = [f \in Fields |-> new[f]], new.row = x, new.kind = at[r].kind, new.user = at[r].user,
           new.guess = at[r].guess, new.password = at[r].password, new.behind = at[r].behind,
           new.then \in {"idle", "refresh", "check", "close", "token"}, new.claims \in {x, NoRow},
           \/ /\ new.kind = "verify" /\ x \in TableRows("login") /\ new.pc = "store"
              /\ new.then \in {"token", "check"} /\ (new.then = "token" <=> new.claims = x)
              /\ new.claims = x => right
           \/ new.kind = "delete" /\ x \in TableRows("deletion") /\ new.pc = "close"
           \/ /\ new.kind = "delete" /\ x \in TableRows("deletion") /\ new.pc = "store"
              /\ new.then \in {"idle", "close"} /\ new.claims = NoRow
    PROVE  IInv'
<1> DEFINE s == at[r]
           c == [db[x] EXCEPT !.attempts = db[x].attempts + 1, !.open = ~ right]
<1>1. LocalOK(s) /\ AccountOK(r) /\ s.password = NoRow /\ NoRow \notin CodeRows /\ s.guess # NoRow
  BY RowNames DEF IInv, Shapes, ReqOK, LocalOK
<1>2. /\ s.user \in User \cup {NoRow} /\ s.guess \in Guess \cup {NoRow} /\ s.behind \in SUBSET Row
  BY <1>1, IsLocal DEF LocalOK
<1>3. want[r] = Nothing /\ DOMAIN held[r] = {}
  <2>1. DOMAIN want[r] = {} /\ DOMAIN held[r] = {}
    BY Empty
  <2> QED BY <2>1
<1>4. Sees(r)[x] = db[x] /\ db[x] \in Code
  BY <1>3, SeesCode
<1>5. /\ c \in Code /\ c.attempts = db[x].attempts + 1 /\ c.open = ~ right
      /\ db[x].attempts \in Nat
  <2>1. /\ db[x] = [f \in {"open", "attempts", "born"} |-> db[x][f]]
        /\ db[x].open \in BOOLEAN /\ db[x].attempts \in 0..MaxAttempts /\ db[x].born \in 0..MaxTime
    BY <1>4, IsCode
  <2>2. /\ c = [f \in {"open", "attempts", "born"} |-> c[f]] /\ c.attempts = db[x].attempts + 1
        /\ c.open = ~ right /\ c.born = db[x].born
    BY <2>1
  <2> HIDE DEF c
  <2>4. (~ right) \in BOOLEAN
    OBVIOUS
  <2>5. c.open \in BOOLEAN
    BY <2>2, <2>4, Zenon
  <2>3. MaxAttempts \in Nat /\ db[x].attempts + 1 \in 0..MaxAttempts
    BY <2>1, BoundAssumption
  <2>6. c \in Code
    BY <2>1, <2>2, <2>3, <2>5, IsCode
  <2> QED BY <2>1, <2>2, <2>3, <2>6
<1>6. /\ at' = [at EXCEPT ![r] = new] /\ want' = [want EXCEPT ![r] = Becomes(x, db[x], c)]
      /\ db' = db /\ held' = held
      /\ looked' = [looked EXCEPT ![x] = @ + 1]
      /\ UNCHANGED <<limiter, scene, generation, accepted, replayed, proven, raced>>
  BY DEF Attempt, Pend
<1>7. /\ looked \in [CodeRows -> Nat] /\ looked' \in [CodeRows -> Nat]
      /\ looked'[x] = looked[x] + 1 /\ \A y \in CodeRows \ {x} : looked'[y] = looked[y]
  BY <1>6 DEF IInv, Shapes
<1> HIDE DEF c
<1>8. new \in Local
  <2>1. x \in Guess
    BY RowNames
  <2> QED BY <1>1, <1>2, <2>1, IsLocal DEF Kind
<1>9. LocalOK(new)
  <2>1. s.user # NoRow
    BY <1>1 DEF LocalOK
  <2>2. new.kind \in {"verify", "delete"} /\ new.password = NoRow /\ new.row # NoRow /\ new.guess # NoRow
    BY <1>1
  <2>3. PcOK(new)
    BY DEF PcOK
  <2>4. new.claims # NoRow => Claims(new) /\ new.claims = new.row
    BY DEF Claims
  <2>5. Stores(new) /\ new.then = "token" => new.claims # NoRow
    BY <1>1 DEF Stores
  <2> HIDE DEF s
  <2>6. new.row \in CASE new.kind = "verify" -> TableRows("login") \cup {NoRow}
                   [] new.kind = "delete" -> TableRows("deletion") \cup {NoRow}
                   [] new.kind = "reset"  -> TableRows("reset")
                   [] OTHER             -> {NoRow}
    <3>1. CASE new.kind = "verify"
      BY <3>1
    <3>2. CASE new.kind = "delete"
      BY <3>2
    <3> QED BY <2>2, <3>1, <3>2
  <2>7. new.user # NoRow
    BY <2>1 DEF s
  <2> QED BY <1>8, <2>2, <2>3, <2>4, <2>5, <2>6, <2>7 DEF LocalOK
<1>10. Scope(new) = {x}
  BY <1>9, ScopesAre
<1>11. GoesByUser(new) => GoesByUser(s)
  BY <1>1, <1>10, RowNames DEF GoesByUser
<1>12. GoesByCode(new) \subseteq {x} /\ (GoesByCode(new) # {} => new.claims = x)
  BY <1>1 DEF GoesByCode
<1>13. \A d \in GoesByCode(new) :
              /\ d = x /\ (x \notin new.behind => db[x].open)
              /\ new.pc # "close" => ~ c.open /\ (Sees(r)[x].open \/ Sees(r)[x] = c)
  BY <1>1, <1>4, <1>5, <1>12
<1>14. /\ want' = [want EXCEPT ![r] = Becomes(x, Sees(r)[x], c)]
       /\ looked'[x] + Sees(r)[x].attempts = looked[x] + c.attempts
       /\ c.open => Sees(r)[x].open
  BY <1>4, <1>5, <1>6, <1>7
<1>15. Guesses(new) /\ new.pc # "revoke" /\ new.kind # "reset" /\ new.pc \in {"close", "store", "revoke"}
       /\ new.kind \in {"verify", "delete", "reset"}
  BY DEF Guesses
<1>16. /\ at[r].pc \in {"guess", "close", "consume"} /\ (at[r].pc # "guess" => at[r].row = x)
       /\ x \in Scope(new) /\ Scope(new) \subseteq {Account, x} /\ Account \notin Scope(new)
       /\ UNCHANGED <<limiter, scene, generation, accepted, replayed, proven, raced>>
  BY <1>6, <1>10, RowNames
<1>17. at' = [at EXCEPT ![r] = new] /\ db' = db /\ held' = held
  BY <1>6
<1>18. /\ at[r].pc \in {"guess", "close", "consume"} /\ want[r] = Nothing
       /\ at[r].pc # "guess" => at[r].row = x
       /\ new.kind = at[r].kind /\ new.kind \in {"verify", "delete", "reset"}
       /\ new.row = x /\ db[x] # NoRow /\ new.user = at[r].user /\ new.behind = at[r].behind
  BY <1>15
<1>19. /\ new.pc \in {"close", "store", "revoke"}
       /\ new.pc = "revoke" <=> new.kind = "reset"
       /\ x \in Scope(new) /\ Scope(new) \subseteq {Account, x}
       /\ Account \in Scope(new) => Account \in Scope(at[r])
       /\ GoesByUser(new) => GoesByUser(at[r])
       /\ c.open => Sees(r)[x].open
       /\ ~ Guesses(new) => c.attempts = Sees(r)[x].attempts
  BY <1>11, <1>14, <1>15, <1>16
<1> QED BY <1>5, <1>7, <1>9, <1>13, <1>14, <1>16, <1>17, <1>18, <1>19, CodeStep

LEMMA CompareStep ==
    ASSUME IInv, NEW r \in Req, want[r] = Nothing, CompareLogin(r) \/ CompareDeletion(r)
    PROVE  IInv'
<1> DEFINE s == at[r]
<1>1. LocalOK(s) /\ s.pc = "guess"
  BY DEF CompareLogin, CompareDeletion, IInv, Shapes
<1>2. s = [f \in Fields |-> s[f]] /\ s.claims = NoRow
      /\ s.then \in {"idle", "refresh", "check", "close", "token"}
  BY <1>1, NoClaims, IsLocal DEF LocalOK
<1>3. CASE CompareLogin(r)
  <2>1. s.kind = "verify"
    BY <1>3 DEF CompareLogin
  <2>2. CASE Go(r, [s EXCEPT !.pc = "check"]) /\ UNCHANGED session
    BY <1>1, <2>1, <2>2, GoesOn DEF Go
  <2>3. ASSUME NEW x \in Latest(r, "login"), s.guess = x,
               Attempt(r, x, TRUE, [s EXCEPT !.row = x, !.claims = x, !.pc = "store", !.then = "token"])
        PROVE  IInv'
    <3> DEFINE new == [s EXCEPT !.row = x, !.claims = x, !.pc = "store", !.then = "token"]
    <3>1. /\ new.pc = "store" /\ new.kind = "verify" /\ new.user = s.user /\ new.row = x
          /\ new.guess = s.guess /\ new.password = s.password /\ new.then = "token" /\ new.claims = x
          /\ new.behind = s.behind /\ new = [f \in Fields |-> new[f]]
      BY <1>2, <2>1 DEF Fields
    <3>2. Attempt(r, x, TRUE, new)
      BY <2>3
    <3>3. /\ x \in TableRows("login") /\ x \in CodeRows /\ db[x] # NoRow
          /\ db[x].open /\ db[x].attempts < MaxAttempts
      BY LatestIs DEF CodeTables
    <3> HIDE DEF new
    <3> QED BY <1>1, <2>1, <3>1, <3>2, <3>3, AttemptStep
  <2>4. ASSUME NEW x \in Latest(r, "login"),
               Attempt(r, x, FALSE, [s EXCEPT !.row = x, !.pc = "store", !.then = "check"])
        PROVE  IInv'
    <3> DEFINE new == [s EXCEPT !.row = x, !.pc = "store", !.then = "check"]
    <3>1. /\ new.pc = "store" /\ new.kind = "verify" /\ new.user = s.user /\ new.row = x
          /\ new.guess = s.guess /\ new.password = s.password /\ new.then = "check" /\ new.claims = NoRow
          /\ new.behind = s.behind /\ new = [f \in Fields |-> new[f]]
      BY <1>2, <2>1 DEF Fields
    <3>2. Attempt(r, x, FALSE, new)
      BY <2>4
    <3>3. /\ x \in TableRows("login") /\ x \in CodeRows /\ db[x] # NoRow
          /\ db[x].open /\ db[x].attempts < MaxAttempts
      BY LatestIs DEF CodeTables
    <3>4. x # NoRow
      BY <3>3, RowNames
    <3> HIDE DEF new
    <3> QED BY <1>1, <2>1, <3>1, <3>2, <3>3, <3>4, AttemptStep
  <2> QED BY <1>3, <2>2, <2>3, <2>4 DEF CompareLogin
<1>4. CASE CompareDeletion(r)
  <2>1. s.kind = "delete"
    BY <1>4 DEF CompareDeletion
  <2>2. CASE Go(r, Idle) /\ UNCHANGED session
    BY <1>1, <2>2, EndsQuietly DEF Go
  <2>3. ASSUME NEW x \in Latest(r, "deletion"), NEW cl \in {x, NoRow},
               Attempt(r, x, FALSE, [s EXCEPT !.row = x, !.pc = "close", !.claims = cl])
        PROVE  IInv'
    <3> DEFINE new == [s EXCEPT !.row = x, !.pc = "close", !.claims = cl]
    <3>1. /\ new.pc = "close" /\ new.kind = "delete" /\ new.user = s.user /\ new.row = x
          /\ new.guess = s.guess /\ new.password = s.password /\ new.then = s.then /\ new.claims = cl
          /\ new.behind = s.behind /\ new = [f \in Fields |-> new[f]]
      BY <1>2, <2>1 DEF Fields
    <3>2. Attempt(r, x, FALSE, new)
      BY <2>3
    <3>3. /\ x \in TableRows("deletion") /\ x \in CodeRows /\ db[x] # NoRow
          /\ db[x].open /\ db[x].attempts < MaxAttempts
      BY LatestIs DEF CodeTables
    <3> HIDE DEF new
    <3> QED BY <1>1, <1>2, <2>1, <3>1, <3>2, <3>3, AttemptStep
  <2>4. ASSUME NEW x \in Latest(r, "deletion"), NEW then \in {"close", "idle"},
               Attempt(r, x, FALSE, [s EXCEPT !.row = x, !.pc = "store", !.then = then])
        PROVE  IInv'
    <3> DEFINE new == [s EXCEPT !.row = x, !.pc = "store", !.then = then]
    <3>1. /\ new.pc = "store" /\ new.kind = "delete" /\ new.user = s.user /\ new.row = x
          /\ new.guess = s.guess /\ new.password = s.password /\ new.then = then /\ new.claims = NoRow
          /\ new.behind = s.behind /\ new = [f \in Fields |-> new[f]]
      BY <1>2, <2>1 DEF Fields
    <3>2. Attempt(r, x, FALSE, new)
      BY <2>4
    <3>3. /\ x \in TableRows("deletion") /\ x \in CodeRows /\ db[x] # NoRow
          /\ db[x].open /\ db[x].attempts < MaxAttempts
      BY LatestIs DEF CodeTables
    <3> HIDE DEF new
    <3> QED BY <1>1, <2>1, <3>1, <3>2, <3>3, AttemptStep
  <2>5. \/ Go(r, Idle) /\ UNCHANGED session
        \/ \E x \in Latest(r, "deletion") :
             \/ \E cl \in {x, NoRow} :
                  Attempt(r, x, FALSE, [s EXCEPT !.row = x, !.pc = "close", !.claims = cl])
             \/ \E then \in {"close", "idle"} :
                  Attempt(r, x, FALSE, [s EXCEPT !.row = x, !.pc = "store", !.then = then])
    BY <1>4, Zenon DEF CompareDeletion
  <2> QED BY <2>2, <2>3, <2>4, <2>5
<1> QED BY <1>3, <1>4

LEMMA Closed ==
    ASSUME NEW a \in Code
    PROVE  LET c == [a EXCEPT !.open = FALSE] IN
           /\ c \in Code /\ ~ c.open /\ c.attempts = a.attempts /\ (a.open \/ a = c)
<1> DEFINE c == [a EXCEPT !.open = FALSE]
<1>1. a = [f \in {"open", "attempts", "born"} |-> a[f]] /\ a.open \in BOOLEAN
      /\ a.attempts \in 0..MaxAttempts /\ a.born \in 0..MaxTime
  BY IsCode
<1>2. /\ c = [f \in {"open", "attempts", "born"} |-> c[f]] /\ c.open = FALSE
      /\ c.attempts = a.attempts /\ c.born = a.born
  BY <1>1
<1> HIDE DEF c
<1>3. c \in Code
  BY <1>1, <1>2, IsCode
<1>4. a.open \/ a = c
  BY <1>1, <1>2
<1> QED BY <1>2, <1>3, <1>4 DEF c

LEMMA CloseStep ==
    ASSUME IInv, NEW r \in Req, want[r] = Nothing, NEW x, x = at[r].row, Close(r) \/ Consume(r)
    PROVE  IInv'
<1> DEFINE s == at[r]
           a == Sees(r)[x]
           c == [a EXCEPT !.open = FALSE]
           new == IF s.pc = "close" THEN [s EXCEPT !.pc = "store", !.then = "idle"]
                                    ELSE [s EXCEPT !.pc = "revoke"]
<1>1. LocalOK(s) /\ AccountOK(r) /\ ClaimOK(r) /\ s.pc \in {"close", "consume"}
  BY DEF IInv, Shapes, ReqOK, Close, Consume
<1>2. /\ s.pc = "close" => s.kind = "delete" /\ s.row \in TableRows("deletion")
      /\ s.pc = "consume" => s.kind = "reset" /\ s.row \in TableRows("reset") /\ s.claims = NoRow
      /\ x \in CodeRows /\ x # NoRow /\ db[x] # NoRow /\ s.user # NoRow /\ x \in Row /\ x # Account
  <2>1. /\ s.pc = "close" => s.kind = "delete" /\ s.row \in TableRows("deletion")
        /\ s.pc = "consume" => s.kind = "reset" /\ s.row \in TableRows("reset")
    BY <1>1, RowNames, TablesAre DEF LocalOK, PcOK
  <2>2. x \in CodeRows /\ x # NoRow /\ x \in Row /\ x # Account
    BY <1>1, <2>1, RowNames, TablesAre DEF CodeTables
  <2> QED BY <1>1, <2>1, <2>2, NoClaims DEF AccountOK, LocalOK
<1>3. /\ s = [f \in Fields |-> s[f]] /\ s.user \in User \cup {NoRow} /\ s.behind \in SUBSET Row
      /\ s.guess \in Guess \cup {NoRow} /\ s.password \in Password \cup {NoRow}
      /\ s.claims \in Guess \cup {NoRow}
      /\ s.then \in {"idle", "refresh", "check", "close", "token"}
  BY <1>1, IsLocal DEF LocalOK
<1>4. /\ new.pc = IF s.pc = "close" THEN "store" ELSE "revoke"
      /\ new.then = IF s.pc = "close" THEN "idle" ELSE s.then
      /\ new.kind = s.kind /\ new.user = s.user /\ new.row = x
      /\ new.guess = s.guess /\ new.password = s.password
      /\ new.claims = s.claims /\ new.behind = s.behind /\ new = [f \in Fields |-> new[f]]
  BY <1>3 DEF Fields
<1>5. a \in Code /\ a = (IF x \in DOMAIN held[r] THEN held[r][x] ELSE db[x])
      /\ (s.pc = "consume" => x \notin DOMAIN held[r])
  <2>1. s.pc = "consume" => x \notin DOMAIN held[r]
    BY <1>1, <1>2, ScopesAre DEF IInv, ScopeOK, Writes
  <2> QED BY <1>2, <2>1, SeesCode
<1>6. c \in Code /\ ~ c.open /\ c.attempts = a.attempts /\ (a.open \/ a = c)
  BY <1>5, Closed
<1>7. /\ at' = [at EXCEPT ![r] = new] /\ want' = [want EXCEPT ![r] = Becomes(x, a, c)]
      /\ db' = db /\ held' = held /\ UNCHANGED <<limiter, scene, generation, observers>>
  <2>1. CASE Close(r)
    BY <2>1 DEF Close, Go, Pend
  <2>2. CASE Consume(r)
    <3>1. s.pc = "consume" /\ db[x] = a
      BY <1>5, <2>2 DEF Consume
    <3> QED BY <2>2, <3>1 DEF Consume, Go, Pend
  <2> QED BY <2>1, <2>2
<1>8. looked' \in [CodeRows -> Nat] /\ looked' = looked
      /\ UNCHANGED <<limiter, scene, generation, accepted, replayed, proven, raced>>
  BY <1>7 DEF IInv, Shapes, observers
<1>9. looked'[x] + a.attempts = looked[x] + c.attempts
  BY <1>6, <1>8
<1>10. \A d \in GoesByCode(s) : d = x /\ (x \notin s.behind => db[x].open)
  <2> SUFFICES ASSUME NEW d \in GoesByCode(s) PROVE d = x /\ (x \notin s.behind => db[x].open)
    OBVIOUS
  <2>1. d = x
    <3>1. CASE s.pc = "close"
      BY <1>1, <1>2, <3>1, RowNames DEF GoesByCode, LocalOK
    <3>2. CASE s.pc = "consume"
      BY <1>1, <1>2, <3>2, RowNames DEF GoesByCode
    <3> QED BY <1>1, <3>1, <3>2
  <2> QED BY <1>1, <2>1 DEF ClaimOK
<1> HIDE DEF a, c, new
<1>11. new \in Local
  BY <1>1, <1>2, <1>3, <1>4, IsLocal DEF Kind
<1>12. LocalOK(new)
  <2>1. CASE s.pc = "close"
    <3>1. new.kind = "delete" /\ new.pc = "store" /\ new.then = "idle" /\ new.row # NoRow
          /\ new.row \in TableRows("deletion")
      BY <1>2, <1>4, <2>1
    <3>2. PcOK(new) /\ (new.claims # NoRow => Claims(new) /\ new.claims = new.row)
      BY <1>1, <1>2, <1>4, <2>1, <3>1 DEF PcOK, Claims, LocalOK
    <3> QED BY <1>1, <1>2, <1>4, <1>11, <3>1, <3>2 DEF LocalOK, Stores
  <2>2. CASE s.pc = "consume"
    BY <1>1, <1>2, <1>4, <1>11, <2>2 DEF LocalOK, PcOK, Stores
  <2> QED BY <1>1, <2>1, <2>2
<1>13. Scope(new) = IF s.pc = "close" THEN {x} ELSE {Account, x}
  BY <1>1, <1>2, <1>4, <1>12, ScopesAre
<1>14. Account \in Scope(new) => Account \in Scope(s)
  BY <1>1, <1>2, <1>13, ScopesAre
<1>15. GoesByUser(new) => GoesByUser(s)
  BY <1>1, <1>2, <1>4, <1>14 DEF GoesByUser
<1>16. GoesByCode(new) \subseteq GoesByCode(s)
  BY <1>1, <1>2, <1>4 DEF GoesByCode
<1>17. \A d \in GoesByCode(new) :
              /\ d = x /\ (x \notin new.behind => db[x].open)
              /\ new.pc # "close" => ~ c.open /\ (a.open \/ a = c)
  BY <1>4, <1>6, <1>10, <1>16
<1>18. /\ at[r].pc \in {"guess", "close", "consume"} /\ want[r] = Nothing
       /\ at[r].pc # "guess" => at[r].row = x
       /\ new.kind = at[r].kind /\ new.kind \in {"verify", "delete", "reset"}
       /\ new.row = x /\ db[x] # NoRow /\ new.user = at[r].user /\ new.behind = at[r].behind
       /\ x \in CodeRows
  BY <1>1, <1>2, <1>4
<1>19. /\ new.pc \in {"close", "store", "revoke"}
       /\ new.pc = "revoke" <=> new.kind = "reset"
       /\ x \in Scope(new) /\ Scope(new) \subseteq {Account, x}
       /\ Account \in Scope(new) => Account \in Scope(at[r])
       /\ GoesByUser(new) => GoesByUser(at[r])
       /\ c.open => Sees(r)[x].open
       /\ ~ Guesses(new) => c.attempts = Sees(r)[x].attempts
  BY <1>1, <1>2, <1>4, <1>6, <1>13, <1>14, <1>15 DEF a
<1>20. /\ at' = [at EXCEPT ![r] = new] /\ want' = [want EXCEPT ![r] = Becomes(x, Sees(r)[x], c)]
       /\ db' = db /\ held' = held
  BY <1>7 DEF a
<1>21. /\ looked' \in [CodeRows -> Nat] /\ \A y \in CodeRows \ {x} : looked'[y] = looked[y]
       /\ looked'[x] + Sees(r)[x].attempts = looked[x] + c.attempts
  BY <1>8, <1>9 DEF a
<1>22. \A d \in GoesByCode(new) :
              /\ d = x /\ (x \notin new.behind => db[x].open)
              /\ new.pc # "close" => ~ c.open /\ (Sees(r)[x].open \/ Sees(r)[x] = c)
  BY <1>17 DEF a
<1>23. c \in Code /\ x \in CodeRows
       /\ UNCHANGED <<limiter, scene, generation, accepted, replayed, proven, raced>>
  BY <1>2, <1>6, <1>8
<1> QED BY <1>12, <1>18, <1>19, <1>20, <1>21, <1>22, <1>23, CodeStep

-----------------------------------------------------------------------------
(* New rows.                                                               *)

LEMMA Least ==
    ASSUME NEW F \in SUBSET Nat, F # {}
    PROVE  LET m == CHOOSE k \in F : \A j \in F : k <= j IN m \in F
<1>1. \E k \in F : \A j \in F : ~ (<<j, k>> \in OpToRel(<, Nat))
  BY WFMin, NatLessThanWellFounded, Zenon
<1>2. PICK k \in F : \A j \in F : ~ (<<j, k>> \in OpToRel(<, Nat))
  BY <1>1, Zenon
<1>3. \A j \in F : j \in Nat /\ k \in Nat /\ ~ (j < k)
  BY <1>2 DEF OpToRel
<1>4. \A j \in F : k <= j
  BY <1>3
<1> QED BY <1>4

\* A request that writes is not idle, and of the new rows of a table writes one.
LEMMA Writers ==
    ASSUME IInv, NEW q \in Req, NEW x \in Writes(q)
    PROVE  q \in Busy /\ x \in Row
BY ScopesAreRows DEF IInv, Shapes, ScopeOK, Busy

LEMMA NewRowIs ==
    ASSUME IInv, NEW r \in Req, at[r].pc \in {"issue", "token"}, NEW t \in AllTables
    PROVE  LET x == NewRow(t) IN
           /\ x \in TableRows(t) /\ x \in Row /\ x # Account /\ db[x] = NoRow
           /\ \A q \in Req : x \notin Writes(q)
<1> DEFINE N == Taken(t) \ Used(t)
           F == Key \ Taken(t)
           By(k) == CHOOSE q \in Req : <<t, k>> \in Writes(q)
           f == [k \in N |-> By(k)]
<1>1. MaxRow \in Nat /\ IsFiniteSet(Key) /\ Cardinality(Key) = MaxRow
  <2>1. MaxRow \in Nat
    BY BoundAssumption
  <2> QED BY <2>1, FS_Interval DEF Key
<1>2. \A k \in N : k \in Key /\ db[<<t, k>>] = NoRow /\ \E q \in Req : <<t, k>> \in Writes(q)
  BY DEF Taken, Used, Writes
<1>3. Writes(r) = {} /\ r \in Busy
  BY Empty DEF Busy
<1>4. \A k \in N : By(k) \in Req /\ <<t, k>> \in Writes(By(k))
  BY <1>2, Zenon
<1> HIDE DEF By, N
<1>5. f \in [N -> Busy \ {r}]
  <2>1. \A k \in N : By(k) \in Busy /\ By(k) # r
    BY <1>3, <1>4, Writers
  <2> QED BY <2>1
<1>6. \A k, j \in N : f[k] = f[j] => k = j
  <2> SUFFICES ASSUME NEW k \in N, NEW j \in N, f[k] = f[j] PROVE k = j
    OBVIOUS
  <2>1. By(k) = By(j)
    OBVIOUS
  <2>2. <<t, k>> \in Writes(By(k)) /\ <<t, j>> \in Writes(By(k)) /\ By(k) \in Req
    BY <1>4, <2>1
  <2>3. db[<<t, k>>] = NoRow /\ db[<<t, j>>] = NoRow /\ <<t, k>> # Account
    BY <1>2, RowNames DEF Account, AllTables
  <2>4. <<t, k>> = <<t, j>>
    BY <2>2, <2>3 DEF IInv, NewRowsOK
  <2> QED BY <2>4
<1>7. f \in Injection(N, Busy \ {r})
  BY <1>5, <1>6 DEF Injection, IsInjective
<1>8. IsFiniteSet(Busy) /\ Cardinality(Busy) \in Nat /\ IsFiniteSet(Busy \ {r})
      /\ Cardinality(Busy \ {r}) = Cardinality(Busy) - 1
  <2>1. IsFiniteSet(Busy) /\ Cardinality(Busy) \in Nat
    BY BoundAssumption, FS_Subset, FS_CardinalityType DEF Busy
  <2> QED BY <1>3, <2>1, FS_RemoveElement
<1>9. IsFiniteSet(N) /\ Cardinality(N) <= Cardinality(Busy) - 1 /\ Cardinality(N) \in Nat
  BY <1>7, <1>8, FS_Injection, FS_CardinalityType
<1>10. IsFiniteSet(Used(t)) /\ Cardinality(Used(t)) \in Nat
  BY <1>1, FS_Subset, FS_CardinalityType DEF Used
<1>11. Cardinality(Used(t)) + Cardinality(Busy) <= MaxRow
  BY DEF IInv, Room
<1>12. F # {}
  <2> SUFFICES ASSUME F = {} PROVE FALSE
    OBVIOUS
  <2>1. Key = Used(t) \cup N /\ Used(t) \cap N = {}
    BY DEF N, Used, Taken
  <2>2. Cardinality(Used(t) \cup N) = Cardinality(Used(t)) + Cardinality(N) - Cardinality(Used(t) \cap N)
    BY <1>9, <1>10, FS_Union
  <2>3. Cardinality(Used(t) \cap N) = 0
    BY <2>1, FS_EmptySet
  <2> QED BY <1>1, <1>8, <1>9, <1>10, <1>11, <2>1, <2>2, <2>3
<1>13. F \in SUBSET Nat
  BY <1>1 DEF Key
<1> DEFINE m == CHOOSE k \in F : \A j \in F : k <= j
<1>14. m \in F
  BY <1>12, <1>13, Least
<1>15. NewRow(t) = <<t, m>>
  BY DEF NewRow
<1>16. m \in Key /\ db[<<t, m>>] = NoRow /\ \A q \in Req : <<t, m>> \notin Writes(q)
  <2>1. m \in Key /\ m \notin Taken(t)
    BY <1>14
  <2> HIDE DEF m
  <2> QED BY <2>1 DEF Taken, Writes
<1> HIDE DEF m
<1>17. <<t, m>> \in TableRows(t) /\ <<t, m>> \in Row /\ <<t, m>> # Account
  BY <1>16, RowNames, TablesAre DEF AllTables, CodeTables, Account
<1> QED BY <1>15, <1>16, <1>17


\* A code that a request writes without guessing at it stays counted.
LEMMA CountedOthers ==
    ASSUME IInv, NEW r \in Req, NEW x \in CodeRows, ~ Guesses(at[r]), ~ Guesses(at'[r]),
           db' = db, held' = held, raced' = raced, looked'[x] = looked[x],
           \A q \in Req \ {r} : want'[q] = want[q] /\ at'[q] = at[q]
    PROVE  Counted(x)'
<1>1. \A q \in Req \ {r} : Writes(q)' = Writes(q)
  BY DEF Writes
<1>2. InFlight(x)' = InFlight(x) /\ r \notin InFlight(x)
  BY <1>1 DEF InFlight, Guesses
<1>3. \A q \in Req \ {r} : Count(q, x)' = Count(q, x)
  BY DEF Count
<1> QED BY <1>2, <1>3 DEF IInv, Counted

LEMMA IssueTokenStep ==
    ASSUME IInv, NEW r \in Req, IssueToken(r)
    PROVE  IInv'
<1> DEFINE s == at[r]
           x == NewRow("session")
           c == [live |-> TRUE, by |-> s.password]
           new == [s EXCEPT !.pc = "store", !.then = "idle", !.claims = NoRow]
<1>1. /\ s.pc = "token" /\ at' = [at EXCEPT ![r] = new] /\ want' = [want EXCEPT ![r] = Becomes(x, NoRow, c)]
      /\ db' = db /\ held' = held /\ UNCHANGED <<limiter, scene, generation, observers>>
  BY DEF IssueToken, Pend, Go
<1>2. LocalOK(s) /\ AccountOK(r) /\ s.kind \in {"oauth", "login", "verify"}
  BY <1>1 DEF IInv, Shapes, ReqOK, LocalOK, PcOK
<1>3. /\ s = [f \in Fields |-> s[f]] /\ s.user \in User \cup {NoRow} /\ s.behind \in SUBSET Row
      /\ s.guess \in Guess \cup {NoRow} /\ s.password \in Password \cup {NoRow}
      /\ s.row \in CodeRows \cup {NoRow}
  BY <1>2, IsLocal DEF LocalOK
<1>4. /\ new.pc = "store" /\ new.kind = s.kind /\ new.user = s.user /\ new.row = s.row
      /\ new.guess = s.guess /\ new.password = s.password /\ new.then = "idle" /\ new.claims = NoRow
      /\ new.behind = s.behind /\ new = [f \in Fields |-> new[f]]
  BY <1>3 DEF Fields
<1>5. /\ x \in SessionRows /\ x \in Row /\ x # Account /\ x \notin CodeRows /\ db[x] = NoRow
      /\ \A q \in Req : x \notin Writes(q)
      /\ RowType(x) = Token
  BY <1>1, NewRowIs, TablesAre, RowTypes DEF AllTables
<1>6. c \in Token /\ c.by = s.password /\ c # NoRow
  <2>1. c \in Token /\ c.by = s.password
    BY <1>3 DEF Token
  <2> QED BY <2>1, NoRowAssumption
<1>7. DOMAIN want[r] = {} /\ DOMAIN held[r] = {} /\ Writes(r) = {}
  BY <1>1, Empty
<1>8. DOMAIN at = Req /\ at'[r] = new /\ DOMAIN want = Req /\ DOMAIN want' = Req
      /\ (\A q \in Req \ {r} : want'[q] = want[q] /\ at'[q] = at[q])
  BY <1>1 DEF IInv, Shapes
<1> HIDE DEF x, c, new
<1>9. /\ want'[r] = Becomes(x, NoRow, c)
      /\ \A y \in DOMAIN want'[r] : y = x /\ want'[r][y].was = NoRow /\ want'[r][y].new = c
                                    /\ want'[r][y] = Change(NoRow, c)
      /\ Writes(r)' \subseteq {x}
  <2>1. want'[r] = Becomes(x, NoRow, c)
    BY <1>1, <1>8
  <2> QED BY <1>1, <1>7, <2>1 DEF Becomes, Changes, Change, Writes
<1>10. new \in Local
  BY <1>2, <1>3, <1>4, IsLocal DEF Kind
<1>11. LocalOK(new)
  <2>1. PcOK(new)
    BY <1>4 DEF PcOK
  <2>2. /\ new.row \in CASE new.kind = "verify" -> TableRows("login") \cup {NoRow}
                   [] new.kind = "delete" -> TableRows("deletion") \cup {NoRow}
                   [] new.kind = "reset"  -> TableRows("reset")
                   [] OTHER             -> {NoRow}
        /\ new.kind \notin {"login", "reset"} => new.password = NoRow
        /\ new.kind \in {"verify", "delete"} => new.guess # NoRow
        /\ new.kind = "reset" => new.then = "idle"
    BY <1>2, <1>4 DEF LocalOK
  <2>3. new.user = NoRow => new.kind = "oauth"
    BY <1>1, <1>2, <1>4 DEF LocalOK
  <2>4. ~ (new.pc = "close" \/ (Stores(new) /\ (new.kind = "delete" \/ new.then = "check")))
        /\ new.then # "token"
    BY <1>2, <1>4 DEF Stores
  <2> QED BY <1>4, <1>10, <2>1, <2>2, <2>3, <2>4 DEF LocalOK
<1>12. SessionRows \subseteq Scope(new) /\ Account \notin Scope(new) /\ ~ GoesByUser(new)
       /\ GoesByCode(new) = {}
  <2>1. SessionRows \subseteq Scope(new) /\ Account \notin Scope(new)
    BY <1>2, <1>4, <1>11, ScopesAre, RowNames, TablesAre DEF Issuers, Table, CodeTables
  <2> QED BY <1>4, <2>1, RowNames DEF GoesByUser, GoesByCode, Stores
<1>13. AccountOK(r)'
  BY <1>1, <1>2, <1>4, <1>5, <1>7, <1>8, <1>9, <1>12 DEF AccountOK, observers
<1>14. ClosesOthers(r)' /\ EndsAll(r)' /\ ClaimOK(r)'
  <2>1. ClosesOthers(r)'
    BY <1>5, <1>9, TablesAre DEF ClosesOthers
  <2>2. EndsAll(r)' /\ ClaimOK(r)'
    BY <1>2, <1>4, <1>8, <1>12 DEF EndsAll, ClaimOK
  <2> QED BY <2>1, <2>2
<1>15. \A y \in SessionRows : TokenOK(r, y)'
  BY <1>1, <1>2, <1>4, <1>5, <1>6, <1>7, <1>8, <1>9 DEF TokenOK
<1>16. \A y \in CodeRows : CodeOK(r, y)'
  BY <1>1, <1>5, <1>7, <1>9 DEF CodeOK
<1>17. ReqOK(r)'
  BY <1>13, <1>14, <1>15, <1>16 DEF ReqOK
<1>18. \A y \in CodeRows : Counted(y)'
  <2>1. \A y \in CodeRows : looked'[y] = looked[y] /\ y \notin Writes(r) /\ y \notin Writes(r)'
    BY <1>1, <1>5, <1>7, <1>9 DEF observers
  <2> QED BY <1>1, <1>8, <2>1, CountedFrame DEF observers
<1>19. \A y \in DOMAIN want'[r] : want'[r][y] \in [was : RowType(y) \cup {NoRow}, new : RowType(y)]
  BY <1>5, <1>6, <1>9 DEF Change
<1>20. /\ Writes(r)' \subseteq Scope(new)
       /\ \A y \in Writes(r)' \ {Account} : db[y] = NoRow =>
             /\ \A q \in Req \ {r} : y \notin Writes(q)
             /\ \A z \in Writes(r)' : y = z \/ db[z] # NoRow
  BY <1>5, <1>9, <1>12
<1>21. db[Account] # NoRow
  BY <1>1, AccountIs DEF SetsUp, Stores
<1>22. ~ \E g \in Key : Makes(r, g)'
  BY <1>2, <1>4, <1>8 DEF Makes
<1>23. /\ at[r].pc # "store" /\ at[r].pc # "idle" /\ generation \in 0..MaxRow /\ generation <= generation
       /\ proven \subseteq Key /\ looked \in [CodeRows -> Nat]
  BY <1>1, AccountIs DEF IInv, Shapes
<1>24. /\ scene' = scene /\ accepted' = accepted /\ replayed' = replayed /\ raced' = raced
       /\ generation' \in 0..MaxRow /\ generation <= generation' /\ proven \subseteq proven'
       /\ proven' \subseteq Key /\ LimiterInv' /\ LimiterTypeOK' /\ looked' \in [CodeRows -> Nat]
  BY <1>1, <1>23, LimiterSame DEF observers
<1>25. at' = [at EXCEPT ![r] = new] /\ db' = db /\ held' = held
  BY <1>1
<1> HIDE DEF s
<1> QED BY <1>8, <1>11, <1>17, <1>18, <1>19, <1>20, <1>21, <1>22, <1>23, <1>24, <1>25, MoveStep

LEMMA ChangeIs ==
    ASSUME NEW T, NEW a \in T \cup {NoRow}, NEW b \in T
    PROVE  Change(a, b) \in [was : T \cup {NoRow}, new : T]
BY DEF Change

LEMMA FreshIs ==
    ASSUME IInv
    PROVE  Fresh \in Code /\ Fresh.open /\ Fresh.attempts = 0
<1>1. now \in 0..MaxTime /\ MaxAttempts \in Nat
  BY BoundAssumption DEF IInv, Shapes, LimiterTypeOK
<1>2. 0 \in 0..MaxAttempts
  BY <1>1
<1> QED BY <1>1, <1>2 DEF Fresh, Code

LEMMA IssueCodeStep ==
    ASSUME IInv, NEW r \in Req, IssueCode(r)
    PROVE  IInv'
<1> DEFINE s == at[r]
           table == Table(s.kind)
           x == NewRow(table)
           open == {y \in {table} \X Key : Sees(r)[y] # NoRow /\ Sees(r)[y].open}
           to == [y \in open \cup {x} |->
                    IF y = x THEN Fresh ELSE [Sees(r)[y] EXCEPT !.open = FALSE]]
           new == [s EXCEPT !.pc = "store", !.then = "idle"]
<1>1. /\ s.pc = "issue" /\ at' = [at EXCEPT ![r] = new]
      /\ want' = [want EXCEPT ![r] = Changes(open \cup {x}, Sees(r), to)]
      /\ db' = db /\ held' = held /\ UNCHANGED <<limiter, scene, generation, observers>>
  BY DEF IssueCode, Pend, Go
<1>2. LocalOK(s) /\ AccountOK(r) /\ s.kind \in Issuers /\ s.claims = NoRow
  BY <1>1, NoClaims DEF IInv, Shapes, ReqOK, LocalOK, PcOK
<1>3. /\ s = [f \in Fields |-> s[f]] /\ s.user \in User \cup {NoRow} /\ s.behind \in SUBSET Row
      /\ s.guess \in Guess \cup {NoRow} /\ s.password \in Password \cup {NoRow}
      /\ s.row \in CodeRows \cup {NoRow} /\ s.kind \in Kind
  BY <1>2, IsLocal DEF LocalOK
<1>4. /\ new.pc = "store" /\ new.kind = s.kind /\ new.user = s.user /\ new.row = s.row
      /\ new.guess = s.guess /\ new.password = s.password /\ new.then = "idle" /\ new.claims = NoRow
      /\ new.behind = s.behind /\ new = [f \in Fields |-> new[f]]
  BY <1>2, <1>3 DEF Fields
<1>5. table \in CodeTables /\ table \in AllTables
  BY DEF Table, CodeTables, AllTables
<1>6. /\ x \in TableRows(table) /\ x \in Row /\ x # Account /\ db[x] = NoRow
      /\ (\A q \in Req : x \notin Writes(q)) /\ x \in CodeRows
  BY <1>1, <1>5, NewRowIs, TablesAre
<1>7. DOMAIN want[r] = {} /\ DOMAIN held[r] = {} /\ Writes(r) = {}
  BY <1>1, Empty
<1>8. \A y \in Row : Sees(r)[y] = db[y]
  BY <1>7 DEF Sees
<1>9. open = {y \in TableRows(table) : db[y] # NoRow /\ db[y].open}
  BY <1>5, <1>8, RowNames, TablesAre DEF TableRows
<1>10. \A y \in open : /\ y \in CodeRows /\ y \in TableRows(table) /\ y \in Row /\ y # x
                       /\ db[y] \in Code /\ db[y] # NoRow /\ db[y].open
  BY <1>5, <1>6, <1>9, RowNames, RowTypes, TablesAre DEF IInv, Shapes
<1>11. DOMAIN at = Req /\ at'[r] = new /\ DOMAIN want = Req /\ DOMAIN want' = Req
       /\ (\A q \in Req \ {r} : want'[q] = want[q] /\ at'[q] = at[q])
  BY <1>1 DEF IInv, Shapes
<1> HIDE DEF x, new, table, open
<1>12. /\ to[x] = Fresh
       /\ \A y \in open : to[y] = [db[y] EXCEPT !.open = FALSE]
  BY <1>8, <1>10
<1>13. \A y \in open : to[y] \in Code /\ ~ to[y].open /\ to[y].attempts = db[y].attempts
  BY <1>10, <1>12, Closed
<1> HIDE DEF to
<1>14. want'[r] = Changes(open \cup {x}, Sees(r), to)
  BY <1>1, <1>11
<1>15. /\ DOMAIN want'[r] = open \cup {x}
       /\ \A y \in DOMAIN want'[r] : /\ want'[r][y] = Change(db[y], to[y])
                                     /\ want'[r][y].was = db[y] /\ want'[r][y].new = to[y]
  <2>1. \A y \in open \cup {x} : Sees(r)[y] = db[y] /\ Sees(r)[y] # to[y]
    <3>1. Sees(r)[x] = db[x] /\ db[x] # to[x]
      BY <1>6, <1>8, <1>12, FreshIs, NoRowAssumption
    <3>2. \A y \in open : Sees(r)[y] = db[y] /\ db[y] # to[y]
      BY <1>8, <1>10, <1>13
    <3> QED BY <3>1, <3>2
  <2> QED BY <1>14, <2>1 DEF Changes, Change
<1>16. Writes(r)' = open \cup {x}
  BY <1>1, <1>7, <1>15 DEF Writes
<1>17. new \in Local
  BY <1>2, <1>3, <1>4, IsLocal DEF Kind
<1>18. LocalOK(new)
  <2>1. PcOK(new)
    BY <1>4 DEF PcOK
  <2>2. /\ new.row \in CASE new.kind = "verify" -> TableRows("login") \cup {NoRow}
                   [] new.kind = "delete" -> TableRows("deletion") \cup {NoRow}
                   [] new.kind = "reset"  -> TableRows("reset")
                   [] OTHER             -> {NoRow}
        /\ new.kind \notin {"login", "reset"} => new.password = NoRow
        /\ new.kind \notin {"verify", "delete", "reset"}
    BY <1>2, <1>4 DEF LocalOK, Issuers
  <2>3. new.user = NoRow => new.kind \in {"oauth", "resend", "forgot", "askdelete"}
    BY <1>1, <1>2, <1>4 DEF LocalOK, Issuers
  <2>4. ~ (new.pc = "close" \/ (Stores(new) /\ (new.kind = "delete" \/ new.then = "check")))
        /\ new.then # "token"
    BY <1>4, <2>2 DEF Stores
  <2> QED BY <1>4, <1>17, <2>1, <2>2, <2>3, <2>4 DEF LocalOK
<1>19. TableRows(table) \subseteq Scope(new) /\ Account \notin Scope(new) /\ ~ GoesByUser(new)
       /\ GoesByCode(new) = {}
  <2>1. TableRows(table) \subseteq Scope(new) /\ Account \notin Scope(new)
    BY <1>2, <1>4, <1>5, <1>18, ScopesAre, RowNames, TablesAre DEF table
  <2>2. new.kind \notin {"verify", "reset"}
    BY <1>2, <1>4 DEF Issuers
  <2> QED BY <1>4, <2>1, <2>2, RowNames DEF GoesByUser, GoesByCode
<1>20. Account \notin Writes(r)' /\ Writes(r)' \subseteq TableRows(table) /\ Writes(r)' \subseteq CodeRows
  BY <1>6, <1>10, <1>16, RowNames
<1>21. AccountOK(r)'
  BY <1>1, <1>2, <1>4, <1>7, <1>11, <1>19, <1>20 DEF AccountOK, Writes, observers
<1>22. Issues(new, table) /\ \A t : Issues(new, t) => t = table
  BY <1>2, <1>4 DEF Issues, Stores, table
<1>23. ClosesOthers(r)' /\ EndsAll(r)' /\ ClaimOK(r)'
  <2>1. ClosesOthers(r)'
    BY <1>1, <1>9, <1>11, <1>16, <1>22 DEF ClosesOthers
  <2>2. EndsAll(r)' /\ ClaimOK(r)'
    BY <1>2, <1>11, <1>4, <1>19 DEF EndsAll, ClaimOK, Issuers
  <2> QED BY <2>1, <2>2
<1>24. \A y \in CodeRows : CodeOK(r, y)'
  <2> SUFFICES ASSUME NEW y \in CodeRows PROVE CodeOK(r, y)'
    OBVIOUS
  <2>1. DOMAIN held'[r] = {} /\ db' = db
    BY <1>1, <1>7
  <2>2. ASSUME y = x PROVE CodeOK(r, y)'
    BY <1>6, <1>11, <1>12, <1>15, <1>22, <2>1, <2>2, FreshIs, TablesAre DEF CodeOK
  <2>3. ASSUME y \in open PROVE CodeOK(r, y)'
    <3>1. Sees(r)'[y] = db[y]
      BY <1>10, <2>1, <2>3 DEF Sees
    <3>2. want'[r][y].was = db[y] /\ want'[r][y].new = to[y] /\ db[y] # NoRow
      BY <1>10, <1>15, <2>3
    <3> QED BY <1>13, <2>1, <2>3, <3>1, <3>2 DEF CodeOK
  <2> QED BY <1>15, <2>1, <2>2, <2>3 DEF CodeOK
<1>25. \A y \in SessionRows : TokenOK(r, y)'
  BY <1>1, <1>7, <1>15, <1>16, <1>20, TablesAre DEF TokenOK
<1>26. ReqOK(r)'
  BY <1>21, <1>23, <1>24, <1>25 DEF ReqOK
<1>27. \A y \in CodeRows : Counted(y)'
  <2>1. ~ Guesses(at[r]) /\ ~ Guesses(at'[r])
    BY <1>2, <1>4, <1>11 DEF Guesses, Issuers
  <2> QED BY <1>1, <1>11, <2>1, CountedOthers DEF observers
<1>28. \A y \in DOMAIN want'[r] : want'[r][y] \in [was : RowType(y) \cup {NoRow}, new : RowType(y)]
  <2>1. \A y \in open \cup {x} : y \in CodeRows /\ db[y] \in Code \cup {NoRow} /\ to[y] \in Code
    BY <1>6, <1>10, <1>12, <1>13, FreshIs
  <2> SUFFICES ASSUME NEW y \in open \cup {x}
               PROVE  want'[r][y] \in [was : RowType(y) \cup {NoRow}, new : RowType(y)]
    BY <1>15
  <2>2. RowType(y) = Code
    BY <2>1, RowTypes
  <2>3. Change(db[y], to[y]) \in [was : Code \cup {NoRow}, new : Code]
    BY <2>1, ChangeIs
  <2> QED BY <1>15, <2>2, <2>3
<1>29. /\ Writes(r)' \subseteq Scope(new)
       /\ \A y \in Writes(r)' \ {Account} : db[y] = NoRow =>
             /\ \A q \in Req \ {r} : y \notin Writes(q)
             /\ \A z \in Writes(r)' : y = z \/ db[z] # NoRow
  BY <1>6, <1>10, <1>16, <1>19, <1>20
<1>30. db[Account] # NoRow
  BY <1>1, AccountIs DEF SetsUp, Stores
<1>31. ~ \E g \in Key : Makes(r, g)'
  BY <1>2, <1>4, <1>11 DEF Makes, Issuers
<1>32. /\ at[r].pc # "store" /\ at[r].pc # "idle" /\ generation \in 0..MaxRow /\ generation <= generation
       /\ proven \subseteq Key /\ looked \in [CodeRows -> Nat]
  BY <1>1, AccountIs DEF IInv, Shapes
<1>33. /\ scene' = scene /\ accepted' = accepted /\ replayed' = replayed /\ raced' = raced
       /\ generation' \in 0..MaxRow /\ generation <= generation' /\ proven \subseteq proven'
       /\ proven' \subseteq Key /\ LimiterInv' /\ LimiterTypeOK' /\ looked' \in [CodeRows -> Nat]
  BY <1>1, <1>32, LimiterSame DEF observers
<1>34. at' = [at EXCEPT ![r] = new] /\ db' = db /\ held' = held
  BY <1>1
<1> HIDE DEF s
<1> QED BY <1>11, <1>18, <1>26, <1>27, <1>28, <1>29, <1>30, <1>31, <1>32, <1>33, <1>34, MoveStep

LEMMA RevokeStep ==
    ASSUME IInv, NEW r \in Req, want[r] = Nothing, Revoke(r)
    PROVE  IInv'
<1> DEFINE s == at[r]
           live == {x \in {"session"} \X Key : db[x] # NoRow /\ db[x].live}
           to == [x \in live |-> [db[x] EXCEPT !.live = FALSE]]
           new == [s EXCEPT !.pc = "store", !.claims = s.row]
<1>1. /\ s.pc = "revoke" /\ at' = [at EXCEPT ![r] = new]
      /\ want' = [want EXCEPT ![r] = Changes(live, db, to)]
      /\ db' = db /\ held' = held /\ UNCHANGED <<limiter, scene, generation, observers>>
  BY DEF Revoke, Pend, Go
<1>2. LocalOK(s) /\ AccountOK(r) /\ ClaimOK(r) /\ s.kind = "reset" /\ s.then = "idle"
  BY <1>1 DEF IInv, Shapes, ReqOK, LocalOK, PcOK
<1>3. /\ s = [f \in Fields |-> s[f]] /\ s.user \in User \cup {NoRow} /\ s.behind \in SUBSET Row
      /\ s.guess \in Guess \cup {NoRow} /\ s.password \in Password \cup {NoRow}
      /\ s.row \in TableRows("reset") /\ s.row \in CodeRows /\ s.user # NoRow
  BY <1>1, <1>2, IsLocal, TablesAre DEF LocalOK, CodeTables
<1>4. /\ new.pc = "store" /\ new.kind = "reset" /\ new.user = s.user /\ new.row = s.row
      /\ new.guess = s.guess /\ new.password = s.password /\ new.then = "idle" /\ new.claims = s.row
      /\ new.behind = s.behind /\ new = [f \in Fields |-> new[f]]
  BY <1>2, <1>3 DEF Fields
<1>5. DOMAIN want[r] = {} /\ Writes(r) = DOMAIN held[r] /\ DOMAIN held[r] \subseteq {Account, s.row}
  <2>1. DOMAIN want[r] = {} /\ Writes(r) = DOMAIN held[r]
    BY DEF Nothing, Writes
  <2> QED BY <1>1, <1>2, <2>1, ScopesAre DEF IInv, ScopeOK
<1>6. \A y \in live : /\ y \in SessionRows /\ y \in Row /\ y # Account /\ y \notin CodeRows
                      /\ db[y] \in Token /\ db[y] # NoRow /\ db[y].live
  BY RowNames, RowTypes, TablesAre DEF IInv, Shapes, SessionRows
<1>7. \A y \in live : to[y] \in Token /\ ~ to[y].live
  BY <1>6 DEF Token
<1>8. \A y \in SessionRows : db[y] # NoRow /\ db[y].live => y \in live
  BY DEF SessionRows
<1>9. DOMAIN at = Req /\ at'[r] = new /\ DOMAIN want = Req /\ DOMAIN want' = Req
       /\ (\A q \in Req \ {r} : want'[q] = want[q] /\ at'[q] = at[q])
  BY <1>1 DEF IInv, Shapes
<1> HIDE DEF new, live, to
<1>10. /\ DOMAIN want'[r] = live
       /\ \A y \in DOMAIN want'[r] : /\ want'[r][y] = Change(db[y], to[y])
                                     /\ want'[r][y].was = db[y] /\ want'[r][y].new = to[y]
       /\ Writes(r)' = DOMAIN held[r] \cup live
  <2>1. \A y \in live : db[y] # to[y]
    BY <1>6, <1>7
  <2>2. want'[r] = Changes(live, db, to)
    BY <1>1, <1>9
  <2> QED BY <1>1, <2>1, <2>2 DEF Changes, Change, Writes
<1>11. new \in Local
  <2>1. s.row \in Guess
    BY <1>3, RowNames
  <2> QED BY <1>3, <1>4, <2>1, IsLocal DEF Kind
<1>12. LocalOK(new)
  BY <1>3, <1>4, <1>11 DEF LocalOK, PcOK, Stores, Claims
<1>13. Scope(new) = {Account, s.row} \cup SessionRows /\ Account \in Scope(s)
  BY <1>1, <1>2, <1>4, <1>12, ScopesAre
<1>14. AccountOK(r)'
  <2>1. Account \notin DOMAIN want'[r]
    BY <1>6, <1>10
  <2>2. \A v : Intends(s, v, generation, proven) => Intends(new, v, generation, proven)
    BY <1>2, <1>3, <1>4 DEF Intends
  <2>3. Account \notin s.behind => s.user = db[Account]
    BY <1>2, <1>13 DEF AccountOK, GoesByUser
  <2>4. s.user # NoRow => CodesBound(s.user, generation)
    BY <1>2 DEF AccountOK
  <2>5. db[s.row] # NoRow
    BY <1>2, <1>3, RowNames DEF AccountOK
  <2>6. Account \in DOMAIN held[r] =>
          /\ s.user = NoRow <=> db[Account] = NoRow
          /\ \E v \in User : /\ Intends(new, v, generation, proven)
                             /\ held[r][Account] = Sent(Change(s.user, v), db[Account])
    BY <1>2, <2>2 DEF AccountOK
  <2> HIDE DEF s
  <2> QED BY <1>1, <1>3, <1>4, <1>9, <2>1, <2>3, <2>4, <2>5, <2>6 DEF AccountOK, observers
<1>15. ClosesOthers(r)' /\ EndsAll(r)' /\ ClaimOK(r)'
  <2>1. ClosesOthers(r)'
    BY <1>4, <1>9 DEF ClosesOthers, Issues, Issuers
  <2>2. EndsAll(r)'
    BY <1>1, <1>8, <1>10 DEF EndsAll
  <2>3. ClaimOK(r)'
    <3>1. GoesByCode(s) = {s.row} /\ GoesByCode(new) = {s.row}
      BY <1>1, <1>2, <1>3, <1>4, RowNames, NoClaims DEF GoesByCode
    <3>2. db[s.row] # NoRow /\ (s.row \notin s.behind => db[s.row].open) /\ Closes(r, s.row)
      BY <1>1, <1>2, <3>1 DEF ClaimOK
    <3>3. s.row \notin DOMAIN want'[r] /\ s.row \notin DOMAIN want[r]
      BY <1>3, <1>5, <1>6, <1>10
    <3>4. IF s.row \in DOMAIN held[r] THEN ~ held[r][s.row].open ELSE ~ db[s.row].open
      BY <3>2, <3>3 DEF Closes
    <3>5. \A c : c = s.row => Closes(r, c)'
      BY <1>1, <3>3, <3>4 DEF Closes
    <3> HIDE DEF s
    <3> QED BY <1>1, <1>4, <1>9, <3>1, <3>2, <3>5 DEF ClaimOK
  <2> QED BY <2>1, <2>2, <2>3
<1>16. \A y \in CodeRows : CodeOK(r, y)'
  <2> SUFFICES ASSUME NEW y \in CodeRows PROVE CodeOK(r, y)'
    OBVIOUS
  <2>1. y \notin DOMAIN want'[r]
    BY <1>6, <1>10
  <2>2. ~ Issues(s, y[1]) /\ ~ Issues(new, y[1]) /\ ~ Guesses(s) /\ ~ Guesses(new)
    BY <1>2, <1>4 DEF Issues, Issuers, Guesses
  <2>3. CodeOK(r, y)
    BY DEF IInv, ReqOK
  <2>4. y \in DOMAIN held[r] => /\ db[y] # NoRow /\ (held[r][y].open => db[y].open)
                                /\ held[r][y].attempts = db[y].attempts
    BY <2>2, <2>3 DEF CodeOK
  <2> QED BY <1>1, <1>9, <2>1, <2>2, <2>4 DEF CodeOK
<1>17. \A y \in SessionRows : TokenOK(r, y)'
  <2> SUFFICES ASSUME NEW y \in SessionRows PROVE TokenOK(r, y)'
    OBVIOUS
  <2>1. y \notin DOMAIN held[r]
    <3>1. s.row \notin SessionRows /\ Account \notin SessionRows
      BY <1>3, RowNames, TablesAre
    <3> HIDE DEF s
    <3> QED BY <1>5, <3>1
  <2> QED BY <1>1, <1>4, <1>6, <1>7, <1>9, <1>10, <2>1 DEF TokenOK
<1>18. ReqOK(r)'
  BY <1>14, <1>15, <1>16, <1>17 DEF ReqOK
<1>19. \A y \in CodeRows : Counted(y)'
  <2>1. ~ Guesses(at[r]) /\ ~ Guesses(at'[r])
    BY <1>2, <1>4, <1>9 DEF Guesses
  <2> QED BY <1>1, <1>9, <2>1, CountedOthers DEF observers
<1>20. \A y \in DOMAIN want'[r] : want'[r][y] \in [was : RowType(y) \cup {NoRow}, new : RowType(y)]
  <2> SUFFICES ASSUME NEW y \in live
               PROVE  want'[r][y] \in [was : RowType(y) \cup {NoRow}, new : RowType(y)]
    BY <1>10
  <2>1. RowType(y) = Token
    BY <1>6, RowTypes
  <2>2. Change(db[y], to[y]) \in [was : Token \cup {NoRow}, new : Token]
    BY <1>6, <1>7, ChangeIs
  <2> QED BY <1>10, <2>1, <2>2
<1>21. /\ Writes(r)' \subseteq Scope(new)
       /\ \A y \in Writes(r)' \ {Account} : db[y] # NoRow
  <2>1. db[s.row] # NoRow
    BY <1>2, <1>3, RowNames DEF AccountOK
  <2> QED BY <1>5, <1>6, <1>10, <1>13, <2>1
<1>22. db[Account] # NoRow
  BY <1>1, AccountIs DEF SetsUp, Stores
<1>23. ~ \E g \in Key : Makes(r, g)'
  BY <1>4, <1>9 DEF Makes
<1>24. /\ at[r].pc # "store" /\ at[r].pc # "idle" /\ generation \in 0..MaxRow /\ generation <= generation
       /\ proven \subseteq Key /\ looked \in [CodeRows -> Nat]
  BY <1>1, AccountIs DEF IInv, Shapes
<1>25. /\ scene' = scene /\ accepted' = accepted /\ replayed' = replayed /\ raced' = raced
       /\ generation' \in 0..MaxRow /\ generation <= generation' /\ proven \subseteq proven'
       /\ proven' \subseteq Key /\ LimiterInv' /\ LimiterTypeOK' /\ looked' \in [CodeRows -> Nat]
  BY <1>1, <1>24, LimiterSame DEF observers
<1>26. at' = [at EXCEPT ![r] = new] /\ db' = db /\ held' = held
  BY <1>1
<1> HIDE DEF s
<1> QED BY <1>9, <1>12, <1>18, <1>19, <1>20, <1>21, <1>22, <1>23, <1>24, <1>25, <1>26, MoveStep

-----------------------------------------------------------------------------
(* A change is sent.                                                       *)

\* What r has of a row, and what sending its change makes of that.
LEMMA SendsRow ==
    ASSUME IInv, NEW r \in Req, NEW x \in DOMAIN want[r], ~ Clash(want[r][x], Sees(r)[x])
    PROVE  LET c == want[r][x]  old == Sees(r)[x]  h == Sent(c, old) IN
           /\ x \in Row /\ c = Change(c.was, c.new)
           /\ c.was \in RowType(x) \cup {NoRow} /\ c.new \in RowType(x)
           /\ old \in RowType(x) \cup {NoRow}
           /\ old = IF x \in DOMAIN held[r] THEN held[r][x] ELSE db[x]
           /\ c.was = NoRow <=> old = NoRow
           /\ h \in RowType(x)
           /\ c.was = NoRow => h = c.new
<1> DEFINE c == want[r][x]
           old == Sees(r)[x]
           h == Sent(c, old)
<1>1. x \in Row /\ x \in Writes(r)
  BY Writers DEF Writes
<1>2. c \in [was : RowType(x) \cup {NoRow}, new : RowType(x)]
  BY DEF IInv, Shapes
<1>3. c = Change(c.was, c.new) /\ c.was \in RowType(x) \cup {NoRow} /\ c.new \in RowType(x)
  BY <1>2 DEF Change
<1>4. old = IF x \in DOMAIN held[r] THEN held[r][x] ELSE db[x]
  BY <1>1 DEF Sees
<1>5. old \in RowType(x) \cup {NoRow}
  BY <1>1, <1>4 DEF IInv, Shapes
<1>6. NoRow \notin RowType(x)
  BY RowTypes
<1>7. c.was = NoRow <=> old = NoRow
  BY <1>3, <1>6 DEF Clash
<1> HIDE DEF c, old
<1>8. c.was = NoRow => h = c.new
  BY <1>7 DEF Sent
<1>9. h \in RowType(x)
  <2>1. CASE c.was = NoRow
    BY <1>3, <1>8, <2>1
  <2>2. CASE c.was # NoRow
    <3>1. c.was \in RowType(x) /\ old \in RowType(x)
      BY <1>3, <1>5, <1>7, <2>2
    <3>2. Sent(Change(c.was, c.new), old) \in RowType(x)
      <4>1. CASE RowType(x) = User
        BY <1>3, <3>1, <4>1, UserSent
      <4>2. CASE RowType(x) = Code
        BY <1>3, <3>1, <4>2, CodeSent
      <4>3. CASE RowType(x) = Token
        BY <1>3, <3>1, <4>3, TokenSent
      <4> QED BY <4>1, <4>2, <4>3 DEF RowType
    <3> QED BY <1>3, <3>2
  <2> QED BY <2>1, <2>2
<1> QED BY <1>1, <1>3, <1>4, <1>5, <1>7, <1>8, <1>9 DEF c, old

\* The row of a code when a change of it is sent.
LEMMA SendsCode ==
    ASSUME IInv, NEW r \in Req, NEW x \in DOMAIN want[r], x \in CodeRows,
           ~ Clash(want[r][x], Sees(r)[x])
    PROVE  LET c == want[r][x]  old == Sees(r)[x]  h == Sent(c, old)  s == at[r] IN
           /\ h \in Code
           /\ db[x] = NoRow => x \notin DOMAIN held[r] /\ Issues(s, x[1]) /\ h.open /\ h.attempts = 0
           /\ db[x] # NoRow =>
                /\ c.was \in Code /\ c.new \in Code /\ old \in Code
                /\ h.open => db[x].open
                /\ ~ Guesses(s) => h.attempts = db[x].attempts
                /\ Issues(s, x[1]) => ~ h.open \/ x \in s.behind
                /\ c.was.open /\ ~ c.new.open => ~ h.open
                /\ x \notin s.behind => h.attempts = old.attempts + c.new.attempts - c.was.attempts
<1> DEFINE c == want[r][x]
           old == Sees(r)[x]
           h == Sent(c, old)
           s == at[r]
<1>1. /\ x \in Row /\ c = Change(c.was, c.new)
      /\ c.was \in Code \cup {NoRow} /\ c.new \in Code
      /\ old \in Code \cup {NoRow}
      /\ old = IF x \in DOMAIN held[r] THEN held[r][x] ELSE db[x]
      /\ c.was = NoRow <=> old = NoRow
      /\ h \in Code
      /\ c.was = NoRow => h = c.new
  BY SendsRow, RowTypes
<1>2. CodeOK(r, x)
  BY DEF IInv, ReqOK
<1>3. c.was = NoRow <=> db[x] = NoRow
  BY <1>2 DEF CodeOK
<1> HIDE DEF h, c, old, s
<1>4. ASSUME db[x] = NoRow PROVE x \notin DOMAIN held[r] /\ Issues(s, x[1]) /\ h.open /\ h.attempts = 0
  BY <1>1, <1>2, <1>3, <1>4 DEF CodeOK, c, s
<1>5. ASSUME db[x] # NoRow
      PROVE  /\ c.was \in Code /\ c.new \in Code /\ old \in Code
             /\ h.open => db[x].open
             /\ ~ Guesses(s) => h.attempts = db[x].attempts
             /\ Issues(s, x[1]) => ~ h.open \/ x \in s.behind
             /\ c.was.open /\ ~ c.new.open => ~ h.open
             /\ x \notin s.behind => h.attempts = old.attempts + c.new.attempts - c.was.attempts
  <2>1. c.was \in Code /\ c.new \in Code /\ old \in Code /\ NoRow \notin Code
    BY <1>1, <1>3, <1>5, NoRowAssumption
  <2>2. /\ h.open = (IF c.was.open = c.new.open THEN old.open ELSE c.new.open)
        /\ h.attempts = IF c.was.attempts = c.new.attempts THEN old.attempts ELSE c.new.attempts
    <3>1. h = Sent(Change(c.was, c.new), old)
      BY <1>1 DEF h
    <3> QED BY <2>1, <3>1, CodeSent
  <2>3. /\ c.new.open => c.was.open
        /\ x \notin s.behind => c.was = old
        /\ ~ Guesses(s) => c.new.attempts = c.was.attempts
        /\ Issues(s, x[1]) => ~ c.new.open
    BY <1>2, <1>3, <1>5 DEF CodeOK, c, s, old
  <2>4. /\ old.open => db[x].open
        /\ ~ Guesses(s) => old.attempts = db[x].attempts
    BY <1>1, <1>2, <1>5 DEF CodeOK, s
  <2>5. /\ c.was.open \in BOOLEAN /\ c.new.open \in BOOLEAN /\ old.open \in BOOLEAN
        /\ c.was.attempts \in Nat /\ c.new.attempts \in Nat /\ old.attempts \in Nat
    BY <2>1, BoundAssumption DEF Code
  <2>6. h.open => db[x].open
    BY <2>2, <2>3, <2>4, <2>5
  <2>7. Issues(s, x[1]) => ~ h.open \/ x \in s.behind
    BY <2>2, <2>3, <2>5
  <2>8. c.was.open /\ ~ c.new.open => ~ h.open
    BY <2>2, <2>5
  <2>9. x \notin s.behind => h.attempts = old.attempts + c.new.attempts - c.was.attempts
    BY <2>2, <2>3, <2>5
  <2>10. ~ Guesses(s) => h.attempts = db[x].attempts
    BY <2>2, <2>3, <2>4
  <2> QED BY <2>1, <2>6, <2>7, <2>8, <2>9, <2>10
<1> QED BY <1>1, <1>4, <1>5 DEF h, c, old, s

LEMMA SendStep ==
    ASSUME IInv, NEW r \in Req, Send(r)
    PROVE  IInv'
<1>1. PICK x \in DOMAIN want[r] :
        /\ ~ Locked(r, x) /\ ~ Clash(want[r][x], Sees(r)[x])
        /\ held' = [held EXCEPT ![r] = [y \in DOMAIN @ \cup {x} |->
                                          IF y = x THEN Sent(want[r][x], Sees(r)[x]) ELSE @[y]]]
        /\ want' = [want EXCEPT ![r] = [y \in DOMAIN @ \ {x} |-> @[y]]]
        /\ db' = db /\ UNCHANGED <<limiter, scene, generation, at, observers>>
  BY DEF Send, Flush
<1> DEFINE c == want[r][x]
           old == Sees(r)[x]
           h == Sent(c, old)
           s == at[r]
<1>2. /\ scene' = scene /\ generation' = generation /\ at' = at /\ db' = db
      /\ looked' = looked /\ accepted' = accepted /\ replayed' = replayed /\ proven' = proven
      /\ raced' = raced /\ generation \in Nat /\ generation <= generation
      /\ DOMAIN want' = Req /\ DOMAIN held' = Req
  BY <1>1, AccountIs DEF observers, IInv, Shapes
<1>3. /\ \A q \in Req \ {r} : want'[q] = want[q] /\ held'[q] = held[q] /\ Writes(q)' = Writes(q)
      /\ DOMAIN held'[r] = DOMAIN held[r] \cup {x} /\ DOMAIN want'[r] = DOMAIN want[r] \ {x}
      /\ held'[r][x] = h
      /\ \A y : y # x => (y \in DOMAIN want'[r] <=> y \in DOMAIN want[r])
                         /\ (y \in DOMAIN held'[r] <=> y \in DOMAIN held[r])
      /\ \A y \in DOMAIN want'[r] : want'[r][y] = want[r][y]
      /\ \A y \in DOMAIN held[r] : y # x => held'[r][y] = held[r][y]
      /\ Writes(r)' = Writes(r)
  <2>1. DOMAIN want = Req /\ DOMAIN held = Req
    BY DEF IInv, Shapes
  <2>2. want'[r] = [y \in DOMAIN want[r] \ {x} |-> want[r][y]]
        /\ \A q \in Req \ {r} : want'[q] = want[q] /\ held'[q] = held[q]
    BY <1>1, <2>1
  <2>3. held'[r] = [y \in DOMAIN held[r] \cup {x} |-> IF y = x THEN h ELSE held[r][y]]
    BY <1>1, <2>1
  <2> HIDE DEF h
  <2> QED BY <2>2, <2>3 DEF Writes
<1>4. /\ x \in Row /\ c = Change(c.was, c.new)
      /\ c.was \in RowType(x) \cup {NoRow} /\ c.new \in RowType(x)
      /\ old = IF x \in DOMAIN held[r] THEN held[r][x] ELSE db[x]
      /\ c.was = NoRow <=> old = NoRow
      /\ h \in RowType(x)
      /\ c.was = NoRow => h = c.new
  BY <1>1, SendsRow
<1>5. \A q \in Req : Writes(q)' = Writes(q) /\ LocalOK(at[q])
  BY <1>3 DEF IInv, Shapes
<1>6. \A y : y # x => Sees(r)'[y] = Sees(r)[y] \/ y \notin Row
  BY <1>2, <1>3 DEF Sees
<1> HIDE DEF h, c, old
<1>7. Shapes'
  <2>1. \A q \in Req : \A y \in DOMAIN held'[q] : held'[q][y] \in RowType(y)
    BY <1>3, <1>4 DEF IInv, Shapes
  <2>2. \A q \in Req : \A y \in DOMAIN want'[q] :
          want'[q][y] \in [was : RowType(y) \cup {NoRow}, new : RowType(y)]
    BY <1>3 DEF IInv, Shapes
  <2>3. LimiterInv' /\ LimiterTypeOK'
    BY <1>1, LimiterSame
  <2> QED BY <1>2, <2>1, <2>2, <2>3 DEF IInv, Shapes
<1>8. ScopeOK' /\ NewRowsOK' /\ Room' /\ Known'
  BY <1>2, <1>5 DEF IInv, ScopeOK, NewRowsOK, Room, Used, Busy, Known
<1>9. LocksExclude'
  BY <1>1, <1>3 DEF IInv, LocksExclude, Locked
<1>10. AcceptedOK' /\ OneTime' /\ OneOpenCode' /\ AuthenticatorIsProven' /\ ResetEndsSessions'
  BY <1>2 DEF IInv, AcceptedOK, OneTime, OneOpenCode, AuthenticatorIsProven, ResetEndsSessions
<1>11. ReqOK(r) /\ LocalOK(s)
  BY <1>5 DEF IInv
<1>12. ASSUME x = Account
       PROVE  /\ Account \notin DOMAIN held[r] /\ c.was = s.user /\ old = db[Account]
              /\ Intends(s, c.new, generation, proven)
              /\ s.kind \in {"activate", "regenerate"} => h.codes = c.new.codes
  <2>1. /\ Account \notin DOMAIN held[r] /\ c.was = s.user
        /\ Intends(s, c.new, generation, proven)
    BY <1>11, <1>12 DEF ReqOK, AccountOK, c
  <2>2. ASSUME s.kind \in {"activate", "regenerate"} PROVE h.codes = c.new.codes
    <3>1. s.user # NoRow /\ c.new.codes # s.user.codes
      BY <2>1, <2>2 DEF Intends
    <3>2. c.was \in User /\ c.new \in User /\ old \in User
      <4>1. old \in User \cup {NoRow}
        BY <1>1, <1>12, SendsRow, RowTypes DEF old, c
      <4> QED BY <1>4, <1>12, <2>1, <3>1, <4>1, RowTypes
    <3>3. h = Sent(Change(c.was, c.new), old)
      BY <1>4 DEF h
    <3> QED BY <2>1, <3>1, <3>2, <3>3, UserSent
  <2> QED BY <1>4, <1>12, <2>1, <2>2
<1>13. \A q \in Req, g \in Key : Makes(q, g)' <=> Makes(q, g)
  <2> SUFFICES ASSUME NEW q \in Req, NEW g \in Key PROVE Makes(q, g)' <=> Makes(q, g)
    OBVIOUS
  <2>1. CASE q # r
    BY <1>2, <1>3, <2>1 DEF Makes
  <2>2. CASE q = r /\ x # Account
    BY <1>2, <1>3, <2>2 DEF Makes
  <2>3. CASE q = r /\ x = Account
    BY <1>2, <1>3, <1>12, <2>3 DEF Makes, c
  <2> QED BY <2>1, <2>2, <2>3
<1>14. CodesOK'
  BY <1>2, <1>13 DEF IInv, CodesOK
<1>15. AccountOK(r)'
  <2>1. AccountOK(r)
    BY <1>11 DEF ReqOK
  <2>2. CASE x # Account
    BY <1>2, <1>3, <2>1, <2>2 DEF AccountOK
  <2>3. CASE x = Account
    <3>1. Account \notin DOMAIN want'[r] /\ Account \in DOMAIN held'[r] /\ held'[r][Account] = h
      BY <1>3, <2>3
    <3>2. s.user = NoRow <=> db[Account] = NoRow
      BY <1>4, <1>12, <2>3
    <3>3. c.new \in User /\ Intends(s, c.new, generation, proven) /\ h = Sent(Change(s.user, c.new), db[Account])
      BY <1>4, <1>12, <2>3, RowTypes DEF h
    <3>4. \E v \in User : Intends(s, v, generation, proven) /\ h = Sent(Change(s.user, v), db[Account])
      BY <3>3
    <3> HIDE DEF s
    <3>5. s = at[r]
      BY DEF s
    <3> QED BY <1>2, <1>3, <2>1, <3>1, <3>2, <3>4, <3>5 DEF AccountOK
  <2> QED BY <2>2, <2>3
<1>16. ClosesOthers(r)' /\ EndsAll(r)'
  BY <1>2, <1>3, <1>11 DEF ReqOK, ClosesOthers, EndsAll
<1>17. ClaimOK(r)'
  <2> SUFFICES ASSUME NEW d \in GoesByCode(s)
               PROVE  db[d] # NoRow /\ (d \notin s.behind => db[d].open)
                      /\ (s.pc \in {"revoke", "store"} => Closes(r, d)')
    BY <1>2 DEF ClaimOK
  <2>1. db[d] # NoRow /\ (d \notin s.behind => db[d].open)
        /\ (s.pc \in {"revoke", "store"} => Closes(r, d))
    BY <1>11 DEF ReqOK, ClaimOK
  <2>2. CASE d # x
    BY <1>2, <1>3, <2>1, <2>2 DEF Closes
  <2>3. CASE d = x
    <3>1. d \in CodeRows
      BY <1>11, RowNames, TablesAre DEF GoesByCode, LocalOK, CodeTables
    <3>2. c.was.open /\ ~ c.new.open => ~ h.open
      BY <1>1, <2>1, <2>3, <3>1, SendsCode DEF h, c, old
    <3>3. Closes(r, d) => c.was.open /\ ~ c.new.open
      BY <2>3 DEF Closes, c
    <3>4. ~ h.open => Closes(r, d)'
      BY <1>3, <2>3 DEF Closes
    <3> QED BY <2>1, <3>2, <3>3, <3>4
  <2> QED BY <2>2, <2>3
<1>18. \A y \in CodeRows : CodeOK(r, y)'
  <2> SUFFICES ASSUME NEW y \in CodeRows PROVE CodeOK(r, y)'
    OBVIOUS
  <2>1. CodeOK(r, y) /\ y \in Row
    BY <1>11, RowNames DEF ReqOK
  <2>2. CASE y # x
    BY <1>2, <1>3, <1>6, <2>1, <2>2 DEF CodeOK
  <2>3. CASE y = x
    <3>1. /\ db[y] = NoRow => Issues(s, y[1]) /\ h.open /\ h.attempts = 0
          /\ db[y] # NoRow =>
               /\ h.open => db[y].open
               /\ ~ Guesses(s) => h.attempts = db[y].attempts
               /\ Issues(s, y[1]) => ~ h.open \/ y \in s.behind
      BY <1>1, <2>3, SendsCode DEF h, c, old
    <3>2. y \notin DOMAIN want'[r] /\ held'[r][y] = h
      BY <1>3, <2>3
    <3> QED BY <1>2, <3>1, <3>2 DEF CodeOK
  <2> QED BY <2>2, <2>3
<1>19. \A y \in SessionRows : TokenOK(r, y)'
  <2> SUFFICES ASSUME NEW y \in SessionRows PROVE TokenOK(r, y)'
    OBVIOUS
  <2>1. TokenOK(r, y)
    BY <1>11 DEF ReqOK
  <2>2. CASE y # x
    BY <1>2, <1>3, <2>1, <2>2 DEF TokenOK
  <2>3. CASE y = x
    <3>1. y \notin DOMAIN want'[r] /\ held'[r][y] = h /\ RowType(y) = Token
      BY <1>3, <2>3, RowTypes
    <3>2. c.was = NoRow <=> db[y] = NoRow
      BY <2>1, <2>3 DEF TokenOK, c
    <3>3. CASE db[y] = NoRow
      BY <1>2, <1>4, <2>1, <2>3, <3>1, <3>2, <3>3 DEF TokenOK, c
    <3>4. CASE db[y] # NoRow
      <4>1. c.was \in Token /\ c.new \in Token /\ s.kind = "reset" /\ c.was.live /\ ~ c.new.live
        BY <1>4, <2>1, <2>3, <3>1, <3>2, <3>4 DEF TokenOK, c
      <4>2. old \in Token
        BY <1>1, <1>4, <2>3, <3>1, <3>2, <3>4, SendsRow DEF old, c
      <4>3. h = Sent(Change(c.was, c.new), old)
        BY <1>4 DEF h
      <4>4. ~ h.live
        BY <4>1, <4>2, <4>3, TokenSent
      <4> QED BY <1>2, <3>1, <3>4, <4>1, <4>4 DEF TokenOK
    <3> QED BY <3>3, <3>4
  <2> QED BY <2>2, <2>3
<1>20. \A q \in Req : ReqOK(q)'
  <2>1. ReqOK(r)'
    BY <1>15, <1>16, <1>17, <1>18, <1>19 DEF ReqOK
  <2>2. \A q \in Req \ {r} : ReqOK(q)'
    BY <1>2, <1>3, <1>5, Frame DEF IInv
  <2> QED BY <2>1, <2>2
<1>21. \A y \in CodeRows : Counted(y)'
  <2> SUFFICES ASSUME NEW y \in CodeRows PROVE Counted(y)'
    OBVIOUS
  <2>1. InFlight(y)' = InFlight(y) /\ Counted(y)
    BY <1>2, <1>5 DEF InFlight, IInv
  <2>2. \A q \in Req : ~ (q = r /\ y = x) => Count(q, y)' = Count(q, y)
    BY <1>2, <1>3 DEF Count
  <2>3. y = x /\ db[y] # NoRow /\ x \notin s.behind => Count(r, y)' = Count(r, y)
    <3> SUFFICES ASSUME y = x, db[y] # NoRow, x \notin s.behind PROVE Count(r, y)' = Count(r, y)
      OBVIOUS
    <3>1. h.attempts = old.attempts + c.new.attempts - c.was.attempts
      BY <1>1, SendsCode DEF h, c, old
    <3>2. Count(r, y) = old.attempts + c.new.attempts - c.was.attempts
      BY <1>4 DEF Count, c
    <3>3. Count(r, y)' = h.attempts
      BY <1>3 DEF Count
    <3> QED BY <3>1, <3>2, <3>3
  <2> QED BY <1>2, <2>1, <2>2, <2>3 DEF Counted
<1> QED BY <1>7, <1>8, <1>9, <1>10, <1>14, <1>20, <1>21 DEF IInv

-----------------------------------------------------------------------------
(* A request fails, and what it did not store is gone.                     *)

\* A guess that was counted is stored: its row is there, and its request holds or waits
\* for no other, so that it can neither clash nor be in a deadlock.
LEMMA GuessesDoNotFail ==
    ASSUME IInv, NEW r \in Req, FlushFails(r) \/ DeadlockVictim(r), NEW x \in CodeRows
    PROVE  r \notin InFlight(x)
<1> SUFFICES ASSUME r \in InFlight(x) PROVE FALSE
  OBVIOUS
<1> DEFINE s == at[r]
<1>1. Guesses(s) /\ x \in Writes(r) /\ LocalOK(s) /\ x \in Scope(s)
  BY DEF InFlight, IInv, Shapes, ScopeOK
<1>2. x = s.row /\ s.pc # "idle"
  BY <1>1, ScopesAreRows
<1>3. db[x] # NoRow
  BY <1>2, RowNames DEF IInv, ReqOK, AccountOK
<1>4. Writes(r) \subseteq {x}
  <2>1. Scope(s) \subseteq {x}
    <3>1. x # Account /\ x \notin SessionRows
      BY RowNames, TablesAre
    <3>2. s.pc \in {"idle", "refresh", "issue", "guess", "check", "apply", "token", "close",
                    "consume", "revoke", "store"}
      BY <1>1, IsLocal DEF LocalOK
    <3>3. s.pc \notin {"consume", "revoke"}
      BY <1>1 DEF LocalOK, PcOK, Guesses
    <3>4. CASE s.pc # "store"
      BY <1>1, <1>2, <3>2, <3>3, <3>4, ScopesAre
    <3>5. CASE s.pc = "store" /\ s.kind = "delete"
      BY <1>1, <1>2, <3>5, ScopesAre
    <3>6. CASE s.pc = "store" /\ s.kind = "verify"
      BY <1>1, <1>2, <3>1, <3>6, ScopesAre
    <3> QED BY <1>1, <3>4, <3>5, <3>6 DEF Guesses
  <2> QED BY <2>1 DEF IInv, ScopeOK
<1>5. CASE FlushFails(r)
  <2>1. x \in DOMAIN want[r] /\ Clash(want[r][x], Sees(r)[x])
    BY <1>4, <1>5 DEF FlushFails, Writes
  <2>2. want[r][x].was # NoRow /\ Sees(r)[x] # NoRow
    <3>1. CodeOK(r, x)
      BY DEF IInv, ReqOK
    <3> QED BY <1>3, <2>1, <3>1, SeesCode, NoRowAssumption DEF CodeOK
  <2> QED BY <2>1, <2>2 DEF Clash
<1>6. CASE DeadlockVictim(r)
  <2>1. \A S \in SUBSET Req :
          (\A q \in S \cup {r}, p \in Req : BlockedBy(q, p) => p \in S) => r \in S
    BY <1>6 DEF DeadlockVictim
  <2>2. CASE x \in DOMAIN held[r]
    <3>1. \A p \in Req : ~ BlockedBy(r, p)
      BY <1>4, <2>2 DEF BlockedBy, IInv, LocksExclude, Writes
    <3> DEFINE S == {}
    <3>2. S \in SUBSET Req /\ \A q \in S \cup {r}, p \in Req : BlockedBy(q, p) => p \in S
      BY <3>1
    <3> QED BY <2>1, <3>2
  <2>3. CASE x \notin DOMAIN held[r]
    <3>1. DOMAIN held[r] = {}
      BY <1>4, <2>3 DEF Writes
    <3> DEFINE S == Req \ {r}
    <3>2. S \in SUBSET Req /\ \A q \in S \cup {r}, p \in Req : BlockedBy(q, p) => p \in S
      BY <3>1 DEF BlockedBy
    <3> QED BY <2>1, <3>2
  <2> QED BY <2>2, <2>3
<1> QED BY <1>5, <1>6

LEMMA FailStep ==
    ASSUME IInv, NEW r \in Req, Fail(r)
    PROVE  IInv'
<1>1. /\ FlushFails(r) \/ DeadlockVictim(r)
      /\ want' = [want EXCEPT ![r] = Nothing] /\ held' = [held EXCEPT ![r] = Nothing] /\ db' = db
      /\ at' = [at EXCEPT ![r] = Idle] /\ UNCHANGED <<limiter, scene, generation, observers>>
  BY DEF Fail, Go, FlushFails, DeadlockVictim, Rollback
<1>2. /\ scene' = scene /\ generation' = generation
      /\ looked' = looked /\ accepted' = accepted /\ replayed' = replayed /\ proven' = proven
      /\ raced' = raced /\ generation \in Nat /\ generation <= generation
      /\ DOMAIN want' = Req /\ DOMAIN held' = Req /\ DOMAIN at' = Req
  BY <1>1, AccountIs DEF observers, IInv, Shapes
<1>3. /\ \A q \in Req \ {r} : want'[q] = want[q] /\ held'[q] = held[q] /\ at'[q] = at[q]
                              /\ Writes(q)' = Writes(q)
      /\ DOMAIN held'[r] = {} /\ DOMAIN want'[r] = {} /\ at'[r] = Idle /\ Writes(r)' = {}
  BY <1>1, <1>2 DEF IInv, Shapes, Writes, Nothing
<1>4. \A q \in Req : LocalOK(at'[q])
  BY <1>3, IdleIs DEF IInv, Shapes
<1>5. Shapes'
  <2>1. LimiterInv' /\ LimiterTypeOK'
    BY <1>1, LimiterSame
  <2>2. \A q \in Req : \A y \in DOMAIN want'[q] :
          want'[q][y] \in [was : RowType(y) \cup {NoRow}, new : RowType(y)]
    BY <1>3 DEF IInv, Shapes
  <2>3. \A q \in Req : \A y \in DOMAIN held'[q] : held'[q][y] \in RowType(y)
    BY <1>3 DEF IInv, Shapes
  <2> QED BY <1>1, <1>2, <1>4, <2>1, <2>2, <2>3 DEF IInv, Shapes
<1>6. ScopeOK' /\ LocksExclude' /\ Known'
  BY <1>1, <1>3, IdleIs DEF IInv, ScopeOK, LocksExclude, Known
<1>7. NewRowsOK'
  BY <1>1, <1>3 DEF IInv, NewRowsOK
<1>8. Room'
  <2>1. \A t \in AllTables : Used(t)' = Used(t)
    BY <1>1 DEF Used
  <2>2. Busy' \subseteq Busy
    BY <1>3, IdleIs DEF Busy
  <2>3. IsFiniteSet(Busy)
    BY BoundAssumption, FS_Subset DEF Busy
  <2>4. Cardinality(Busy) \in Nat /\ Cardinality(Busy') \in Nat /\ Cardinality(Busy') <= Cardinality(Busy)
    BY <2>2, <2>3, FS_Subset, FS_CardinalityType
  <2>5. \A t \in AllTables : IsFiniteSet(Used(t)) /\ Cardinality(Used(t)) \in Nat
    <3>1. IsFiniteSet(Key)
      <4>1. MaxRow \in Nat
        BY BoundAssumption
      <4> QED BY <4>1, FS_Interval DEF Key
    <3> QED BY <3>1, FS_Subset, FS_CardinalityType DEF Used
  <2>6. MaxRow \in Nat
    BY BoundAssumption
  <2> QED BY <2>1, <2>4, <2>5, <2>6 DEF IInv, Room
<1>9. \A q \in Req, g \in Key : Makes(q, g)' => Makes(q, g)
  BY <1>3, IdleIs DEF Makes, Stores
<1>10. CodesOK'
  BY <1>1, <1>2, <1>9 DEF IInv, CodesOK
<1>11. AcceptedOK' /\ OneTime' /\ OneOpenCode' /\ AuthenticatorIsProven' /\ ResetEndsSessions'
  BY <1>1, <1>2 DEF IInv, AcceptedOK, OneTime, OneOpenCode, AuthenticatorIsProven, ResetEndsSessions
<1>12. ReqOK(r)'
  <2>1. GoesByCode(Idle) = {} /\ ~ GoesByUser(Idle)
    BY IdleIs, RowNames DEF GoesByCode, GoesByUser
  <2>2. AccountOK(r)' /\ ClaimOK(r)' /\ EndsAll(r)' /\ ClosesOthers(r)'
    BY <1>3, <2>1, IdleIs DEF AccountOK, ClaimOK, EndsAll, Stores, ClosesOthers
  <2> QED BY <1>3, <2>2 DEF ReqOK, CodeOK, TokenOK
<1>13. \A q \in Req : ReqOK(q)'
  <2>1. \A q \in Req \ {r} : ReqOK(q)'
    BY <1>1, <1>2, <1>3, Frame DEF IInv, Shapes
  <2> QED BY <1>12, <2>1
<1>14. \A x \in CodeRows : Counted(x)'
  <2> SUFFICES ASSUME NEW x \in CodeRows PROVE Counted(x)'
    OBVIOUS
  <2>1. r \notin InFlight(x) /\ Counted(x)
    BY <1>1, GuessesDoNotFail DEF IInv
  <2>2. InFlight(x)' = InFlight(x)
    BY <1>3, <2>1, IdleIs DEF InFlight
  <2>3. \A q \in Req \ {r} : Count(q, x)' = Count(q, x)
    BY <1>1, <1>3 DEF Count
  <2> QED BY <1>1, <1>2, <1>3, <2>1, <2>2, <2>3 DEF Counted
<1> QED BY <1>5, <1>6, <1>7, <1>8, <1>10, <1>11, <1>13, <1>14 DEF IInv

-----------------------------------------------------------------------------
(* A request stores what it sent.                                          *)

\* What others store shows only in behind.
LEMMA SameLocal ==
    ASSUME NEW s, NEW t, t.pc = s.pc, t.kind = s.kind, t.user = s.user, t.row = s.row, t.guess = s.guess,
           t.password = s.password, t.then = s.then, t.claims = s.claims
    PROVE  /\ Scope(t) = Scope(s) /\ GoesByCode(t) = GoesByCode(s)
           /\ GoesByUser(t) <=> GoesByUser(s)
           /\ Guesses(t) <=> Guesses(s)
           /\ Stores(t) <=> Stores(s)
           /\ SetsUp(t) <=> SetsUp(s)
           /\ \A tb : Issues(t, tb) <=> Issues(s, tb)
           /\ \A v, g, p : Intends(t, v, g, p) <=> Intends(s, v, g, p)
           /\ LocalOK(s) /\ t = [f \in Fields |-> t[f]] /\ t.behind \in SUBSET Row => LocalOK(t)
<1>1. Scope(t) = Scope(s)
  BY DEF Scope, Stores, SetsUp
<1>2. GoesByCode(t) = GoesByCode(s) /\ (GoesByUser(t) <=> GoesByUser(s))
  BY <1>1 DEF GoesByCode, GoesByUser, Stores
<1>3. /\ Guesses(t) <=> Guesses(s)
      /\ Stores(t) <=> Stores(s)
      /\ SetsUp(t) <=> SetsUp(s)
      /\ \A tb : Issues(t, tb) <=> Issues(s, tb)
  BY DEF Guesses, Stores, SetsUp, Issues
<1>4. \A v, g, p : Intends(t, v, g, p) <=> Intends(s, v, g, p)
  BY DEF Intends
<1>5. ASSUME LocalOK(s), t = [f \in Fields |-> t[f]], t.behind \in SUBSET Row
      PROVE  LocalOK(t)
  <2>1. t \in Local
    BY <1>5, IsLocal DEF LocalOK
  <2> QED BY <1>5, <2>1 DEF LocalOK, PcOK, Claims, Stores
<1> QED BY <1>1, <1>2, <1>3, <1>4, <1>5

LEMMA CommitIs ==
    ASSUME IInv, NEW r \in Req, Commit(r)
    PROVE  LET s == at[r]
               H == DOMAIN held[r]
           IN
           /\ s.pc = "store" /\ LocalOK(s) /\ DOMAIN want[r] = {} /\ Writes(r) = H
           /\ H \subseteq Row /\ H \subseteq Scope(s)
           /\ \A y \in Row : db'[y] = IF y \in H THEN held[r][y] ELSE db[y]
           /\ DOMAIN db' = Row /\ DOMAIN want' = Req /\ DOMAIN held' = Req /\ DOMAIN at' = Req
           /\ want' = want /\ DOMAIN held'[r] = {} /\ Writes(r)' = {}
           /\ \A q \in Req \ {r} :
                /\ want'[q] = want[q] /\ held'[q] = held[q] /\ Writes(q)' = Writes(q)
                /\ \A y \in H : y \notin DOMAIN held[q]
                /\ at'[q] = [at[q] EXCEPT !.behind = @ \cup (H \cap GoesBy(q))]
           /\ at'[r] = IF s.then = "idle" THEN Idle ELSE [s EXCEPT !.pc = s.then, !.claims = NoRow]
           /\ scene' = scene /\ generation' = generation /\ looked' = looked /\ proven' = proven
           /\ UNCHANGED limiter
           /\ accepted' = accepted \cup ({s.claims} \ {NoRow})
           /\ replayed' = replayed \cup {c \in {s.claims} \cap accepted : Basis(s) \notin s.behind}
           /\ raced' = raced \cup Misjudged(r)
           /\ \A y \in H : db[y] \in RowType(y) \cup {NoRow} /\ held[r][y] \in RowType(y) /\ db'[y] # NoRow
           /\ \A y \in Row : db[y] # NoRow => db'[y] # NoRow
<1> DEFINE s == at[r]
           H == DOMAIN held[r]
<1>1. /\ s.pc = "store" /\ want[r] = Nothing /\ db' = Sees(r)
      /\ held' = [held EXCEPT ![r] = Nothing] /\ want' = want
      /\ at' = [q \in Req |->
                IF q = r THEN IF s.then = "idle" THEN Idle
                              ELSE [s EXCEPT !.pc = s.then, !.claims = NoRow]
                ELSE [at[q] EXCEPT !.behind = @ \cup (H \cap GoesBy(q))]]
      /\ accepted' = accepted \cup ({s.claims} \ {NoRow})
      /\ replayed' = replayed \cup {c \in {s.claims} \cap accepted : Basis(s) \notin s.behind}
      /\ raced' = raced \cup Misjudged(r)
      /\ UNCHANGED <<limiter, scene, generation, looked, proven>>
  BY DEF Commit, Store, Clean
<1>2. LocalOK(s) /\ DOMAIN want[r] = {} /\ Writes(r) = H /\ H \subseteq Scope(s) /\ H \subseteq Row
  <2>1. DOMAIN want[r] = {} /\ Writes(r) = H
    BY <1>1 DEF Nothing, Writes
  <2> QED BY <2>1, Writers DEF IInv, Shapes, ScopeOK
<1>3. DOMAIN db' = Row /\ \A y \in Row : db'[y] = IF y \in H THEN held[r][y] ELSE db[y]
  BY <1>1 DEF Sees
<1>4. /\ DOMAIN want' = Req /\ DOMAIN held' = Req /\ DOMAIN at' = Req
      /\ DOMAIN held'[r] = {} /\ DOMAIN want'[r] = {}
      /\ \A q \in Req \ {r} : want'[q] = want[q] /\ held'[q] = held[q]
  BY <1>1, <1>2 DEF IInv, Shapes, Nothing
<1>5. Writes(r)' = {} /\ \A q \in Req \ {r} : Writes(q)' = Writes(q)
  BY <1>4 DEF Writes
<1>6. \A q \in Req \ {r} : \A y \in H : y \notin DOMAIN held[q]
  BY DEF IInv, LocksExclude
<1>7. \A y \in H : db[y] \in RowType(y) \cup {NoRow} /\ held[r][y] \in RowType(y) /\ db'[y] # NoRow
  <2>1. \A y \in H : db[y] \in RowType(y) \cup {NoRow} /\ held[r][y] \in RowType(y)
    BY <1>2 DEF IInv, Shapes
  <2> QED BY <1>2, <1>3, <2>1, RowTypes
<1>8. \A y \in Row : db[y] # NoRow => db'[y] # NoRow
  BY <1>3, <1>7
<1>9. /\ at'[r] = IF s.then = "idle" THEN Idle ELSE [s EXCEPT !.pc = s.then, !.claims = NoRow]
      /\ \A q \in Req \ {r} : at'[q] = [at[q] EXCEPT !.behind = @ \cup (H \cap GoesBy(q))]
  BY <1>1
<1> QED BY <1>1, <1>2, <1>3, <1>4, <1>5, <1>6, <1>7, <1>8, <1>9

\* How the others and r itself go on.
LEMMA CommitMoves ==
    ASSUME IInv, NEW r \in Req, Commit(r)
    PROVE  /\ \A q \in Req \ {r} :
                LET s == at[q]  t == at'[q] IN
                /\ t.pc = s.pc /\ t.kind = s.kind /\ t.user = s.user /\ t.row = s.row /\ t.guess = s.guess
                /\ t.password = s.password /\ t.then = s.then /\ t.claims = s.claims
                /\ t.behind = s.behind \cup (DOMAIN held[r] \cap GoesBy(q))
                /\ LocalOK(s) /\ LocalOK(t)
           /\ LET s == at[r]  t == at'[r] IN
              /\ LocalOK(t) /\ t.pc # "store"
              /\ s.then = "idle" => t = Idle
              /\ s.then # "idle" =>
                   /\ t.pc = s.then /\ t.kind = s.kind /\ t.user = s.user /\ t.row = s.row
                   /\ t.claims = NoRow /\ t.behind = s.behind
                   /\ <<s.kind, s.then>> \in {<<"oauth", "refresh">>, <<"verify", "token">>,
                                             <<"verify", "check">>, <<"delete", "close">>}
<1>1. ASSUME NEW q \in Req \ {r}
      PROVE  LET s == at[q]  t == at'[q] IN
             /\ t.pc = s.pc /\ t.kind = s.kind /\ t.user = s.user /\ t.row = s.row /\ t.guess = s.guess
             /\ t.password = s.password /\ t.then = s.then /\ t.claims = s.claims
             /\ t.behind = s.behind \cup (DOMAIN held[r] \cap GoesBy(q))
             /\ LocalOK(s) /\ LocalOK(t)
  <2> DEFINE s == at[q]
             t == at'[q]
  <2>1. /\ t = [s EXCEPT !.behind = s.behind \cup (DOMAIN held[r] \cap GoesBy(q))]
        /\ DOMAIN held[r] \subseteq Row /\ LocalOK(s)
    <3>1. LocalOK(s)
      BY DEF IInv, Shapes
    <3>2. DOMAIN held[r] \subseteq Row
      BY CommitIs
    <3>3. t = [s EXCEPT !.behind = s.behind \cup (DOMAIN held[r] \cap GoesBy(q))]
      BY DEF Commit
    <3> QED BY <3>1, <3>2, <3>3
  <2>2. s = [f \in Fields |-> s[f]] /\ s.behind \in SUBSET Row
    BY <2>1, IsLocal DEF LocalOK
  <2> HIDE DEF s, t
  <2>3. /\ t.pc = s.pc /\ t.kind = s.kind /\ t.user = s.user /\ t.row = s.row /\ t.guess = s.guess
        /\ t.password = s.password /\ t.then = s.then /\ t.claims = s.claims
        /\ t.behind = s.behind \cup (DOMAIN held[r] \cap GoesBy(q))
        /\ t = [f \in Fields |-> t[f]]
    BY <2>1, <2>2 DEF Fields
  <2>4. t.behind \in SUBSET Row
    BY <2>1, <2>2, <2>3
  <2>5. LocalOK(t)
    BY <2>1, <2>3, <2>4, SameLocal
  <2> QED BY <2>1, <2>3, <2>5 DEF s, t
<1>2. LET s == at[r]  t == at'[r] IN
      /\ LocalOK(t) /\ t.pc # "store"
      /\ s.then = "idle" => t = Idle
      /\ s.then # "idle" =>
           /\ t.pc = s.then /\ t.kind = s.kind /\ t.user = s.user /\ t.row = s.row
           /\ t.claims = NoRow /\ t.behind = s.behind
           /\ <<s.kind, s.then>> \in {<<"oauth", "refresh">>, <<"verify", "token">>,
                                     <<"verify", "check">>, <<"delete", "close">>}
  <2> DEFINE s == at[r]
             t == at'[r]
  <2>1. /\ t = IF s.then = "idle" THEN Idle ELSE [s EXCEPT !.pc = s.then, !.claims = NoRow]
        /\ s.pc = "store" /\ LocalOK(s)
    BY CommitIs
  <2> HIDE DEF s, t
  <2>2. CASE s.then = "idle"
    BY <2>1, <2>2, IdleIs DEF s, t
  <2>3. CASE s.then # "idle"
    <3>1. /\ s = [f \in Fields |-> s[f]] /\ s.user \in User \cup {NoRow} /\ s.behind \in SUBSET Row
          /\ s.guess \in Guess \cup {NoRow} /\ s.password \in Password \cup {NoRow}
          /\ s.row \in CodeRows \cup {NoRow} /\ s.kind \in Kind
      BY <2>1, IsLocal DEF LocalOK
    <3>2. /\ t.pc = s.then /\ t.kind = s.kind /\ t.user = s.user /\ t.row = s.row /\ t.guess = s.guess
          /\ t.password = s.password /\ t.then = s.then /\ t.claims = NoRow /\ t.behind = s.behind
          /\ t = [f \in Fields |-> t[f]]
      BY <2>1, <2>3, <3>1 DEF Fields
    <3>3. <<s.kind, s.then>> \in {<<"oauth", "refresh">>, <<"verify", "token">>,
                                 <<"verify", "check">>, <<"delete", "close">>}
      BY <2>1, <2>3 DEF LocalOK, PcOK
    <3>4. t \in Local
      BY <3>1, <3>2, <3>3, IsLocal
    <3>5. PcOK(t) /\ t.pc # "store"
      BY <3>2, <3>3 DEF PcOK
    <3>6. /\ t.row \in CASE t.kind = "verify" -> TableRows("login") \cup {NoRow}
                     [] t.kind = "delete" -> TableRows("deletion") \cup {NoRow}
                     [] t.kind = "reset"  -> TableRows("reset")
                     [] OTHER             -> {NoRow}
          /\ t.kind \notin {"login", "reset"} => t.password = NoRow
          /\ t.kind \in {"verify", "delete"} => t.guess # NoRow
          /\ t.kind # "reset"
      BY <2>1, <3>2, <3>3 DEF LocalOK
    <3>7. t.user = NoRow => t.kind = "oauth"
      BY <2>1, <3>2, <3>3 DEF LocalOK
    <3>8. t.pc = "close" => t.row # NoRow
      BY <2>1, <3>2, <3>3 DEF LocalOK, Stores
    <3>9. LocalOK(t)
      BY <3>2, <3>4, <3>5, <3>6, <3>7, <3>8 DEF LocalOK, Stores
    <3> QED BY <2>3, <3>2, <3>3, <3>5, <3>9 DEF s, t
  <2> QED BY <2>2, <2>3
<1> QED BY <1>1, <1>2

LEMMA CommitShapes ==
    ASSUME IInv, NEW r \in Req, Commit(r)
    PROVE  Shapes' /\ ScopeOK' /\ LocksExclude' /\ NewRowsOK'
<1> DEFINE H == DOMAIN held[r]
<1>1. /\ LocalOK(at[r]) /\ Writes(r) = H /\ H \subseteq Row
      /\ DOMAIN db' = Row /\ DOMAIN want' = Req /\ DOMAIN held' = Req /\ DOMAIN at' = Req
      /\ DOMAIN want[r] = {} /\ want' = want /\ DOMAIN held'[r] = {} /\ Writes(r)' = {}
      /\ scene' = scene /\ generation' = generation /\ looked' = looked /\ proven' = proven
      /\ UNCHANGED limiter
      /\ accepted' = accepted \cup ({at[r].claims} \ {NoRow})
      /\ replayed' = replayed \cup {c \in {at[r].claims} \cap accepted : Basis(at[r]) \notin at[r].behind}
      /\ raced' = raced \cup Misjudged(r)
  BY CommitIs
<1>2. \A q \in Req \ {r} : want'[q] = want[q] /\ held'[q] = held[q] /\ Writes(q)' = Writes(q)
  BY CommitIs
<1>3. \A y \in Row : /\ db'[y] = (IF y \in H THEN held[r][y] ELSE db[y])
                     /\ db[y] # NoRow => db'[y] # NoRow
  BY CommitIs
<1>4. \A y \in H : held[r][y] \in RowType(y)
  BY CommitIs
<1>5. \A q \in Req : LocalOK(at'[q])
  BY CommitMoves
<1>6. \A q \in Req \ {r} : Scope(at'[q]) = Scope(at[q])
  BY CommitMoves, SameLocal
<1> HIDE DEF H
<1>7. accepted' \subseteq Guess /\ replayed' \subseteq accepted' /\ raced' \subseteq Row
  <2>1. at[r].claims \in Guess \cup {NoRow} /\ at[r].behind \subseteq Row
    BY <1>1, IsLocal DEF LocalOK
  <2>2. Misjudged(r) \subseteq Row
    BY <1>1, <2>1 DEF Misjudged, H
  <2> QED BY <1>1, <2>1, <2>2 DEF IInv, Shapes
<1>8. Shapes'
  <2>1. \A x \in Row : db'[x] \in RowType(x) \cup {NoRow}
    BY <1>3, <1>4 DEF IInv, Shapes
  <2>2. \A q \in Req : \A x \in DOMAIN want'[q] :
          want'[q][x] \in [was : RowType(x) \cup {NoRow}, new : RowType(x)]
    BY <1>1 DEF IInv, Shapes
  <2>3. \A q \in Req : \A x \in DOMAIN held'[q] : held'[q][x] \in RowType(x)
    BY <1>1, <1>2 DEF IInv, Shapes
  <2>4. LimiterInv' /\ LimiterTypeOK'
    BY <1>1, LimiterSame
  <2> QED BY <1>1, <1>5, <1>7, <2>1, <2>2, <2>3, <2>4 DEF IInv, Shapes
<1>9. ScopeOK'
  BY <1>1, <1>2, <1>6 DEF IInv, ScopeOK
<1>10. LocksExclude'
  BY <1>1, <1>2 DEF IInv, LocksExclude
<1>11. NewRowsOK'
  <2> SUFFICES ASSUME NEW q \in Req, NEW x \in Writes(q)' \ {Account}, db'[x] = NoRow
               PROVE  /\ \A p \in Req \ {q} : x \notin Writes(p)'
                      /\ \A y \in Writes(q)' : x = y \/ db'[y] # NoRow
    BY DEF NewRowsOK
  <2>1. q # r /\ x \in Writes(q)
    BY <1>1, <1>2
  <2>2. x \in Row /\ \A y \in Writes(q) : y \in Row
    BY <2>1, Writers
  <2>3. db[x] = NoRow
    BY <1>3, <2>2
  <2>4. /\ \A p \in Req \ {q} : x \notin Writes(p)
        /\ \A y \in Writes(q) : x = y \/ db[y] # NoRow
    BY <2>1, <2>3 DEF IInv, NewRowsOK
  <2> QED BY <1>1, <1>2, <1>3, <2>1, <2>2, <2>4
<1> QED BY <1>8, <1>9, <1>10, <1>11

\* A new row is a code or a session, and r has come to its end.
LEMMA CommitNew ==
    ASSUME IInv, NEW r \in Req, Commit(r), NEW x \in DOMAIN held[r], x # Account, db[x] = NoRow
    PROVE  /\ at[r].then = "idle" /\ at[r].kind # "reset"
           /\ x \in CodeRows \cup SessionRows
           /\ x \in CodeRows => Issues(at[r], x[1]) /\ held[r][x].open /\ held[r][x].attempts = 0
           /\ x \in SessionRows => held[r][x].by = at[r].password
<1>1. /\ at[r].pc = "store" /\ LocalOK(at[r]) /\ x \in Row /\ x \in Scope(at[r])
      /\ ReqOK(r)
  BY CommitIs DEF IInv
<1>2. x \in CodeRows \cup SessionRows
  BY <1>1, RowNames
<1>3. CASE x \in CodeRows
  <2>1. Issues(at[r], x[1]) /\ held[r][x].open /\ held[r][x].attempts = 0
    BY <1>1, <1>3 DEF ReqOK, CodeOK
  <2> QED BY <1>3, <2>1, TablesAre DEF Issues, Issuers
<1>4. CASE x \in SessionRows
  <2>1. at[r].kind # "reset" /\ held[r][x].by = at[r].password
    BY <1>1, <1>4 DEF ReqOK, TokenOK
  <2>2. x \notin CodeRows /\ at[r].row \in CodeRows \cup {NoRow}
    BY <1>1, <1>4, TablesAre, IsLocal DEF LocalOK
  <2>3. at[r].kind = "delete" => x = at[r].row /\ at[r].row # NoRow
    BY <1>1, ScopesAre DEF LocalOK, Stores
  <2>4. at[r].kind = "verify" /\ at[r].then # "idle" => x = at[r].row /\ at[r].row # NoRow
    <3>1. at[r].kind = "verify" /\ at[r].then # "idle" => at[r].then \in {"check", "token"}
      BY <1>1 DEF LocalOK, PcOK
    <3> QED BY <1>1, <3>1, ScopesAre DEF LocalOK, Stores
  <2>5. at[r].then = "idle"
    BY <1>1, <2>1, <2>2, <2>3, <2>4, ScopesAre
  <2> QED BY <1>4, <2>1, <2>2, <2>5
<1> QED BY <1>2, <1>3, <1>4

LEMMA CommitKnown ==
    ASSUME IInv, NEW r \in Req, Commit(r)
    PROVE  db'[Account] # NoRow /\ Known'
<1>1. /\ at[r].pc = "store" /\ LocalOK(at[r]) /\ Writes(r) = DOMAIN held[r] /\ AccountOK(r)
      /\ Account \in Row
  BY CommitIs, RowNames DEF IInv, ReqOK
<1>2. db[Account] # NoRow => db'[Account] # NoRow
  BY <1>1, CommitIs
<1>3. Account \in DOMAIN held[r] => db'[Account] # NoRow
  BY CommitIs
<1>4. ASSUME db[Account] = NoRow PROVE Account \in DOMAIN held[r]
  <2>1. SetsUp(at[r]) /\ at[r].user = NoRow
    BY <1>1, <1>4 DEF IInv, Known
  <2>2. Account \in Scope(at[r])
    BY <1>1, <2>1, ScopesAre DEF SetsUp, Stores
  <2> QED BY <1>1, <2>1, <2>2 DEF AccountOK, SetsUp
<1> QED BY <1>2, <1>3, <1>4 DEF Known

LEMMA CommitRoom ==
    ASSUME IInv, NEW r \in Req, Commit(r)
    PROVE  Room'
<1> DEFINE H == DOMAIN held[r]
           s == at[r]
<1>1. s.pc = "store" /\ LocalOK(s) /\ Writes(r) = H /\ H \subseteq Row
  BY CommitIs
<1>2. \A y \in Row : /\ db'[y] = (IF y \in H THEN held[r][y] ELSE db[y])
                     /\ db[y] # NoRow => db'[y] # NoRow
  BY CommitIs
<1>3. r \in Busy /\ Busy' \subseteq Busy /\ (s.then = "idle" => Busy' = Busy \ {r})
  BY <1>1, CommitMoves, IdleIs DEF Busy
<1>4. IsFiniteSet(Busy) /\ Cardinality(Busy) \in Nat
  BY BoundAssumption, FS_Subset, FS_CardinalityType DEF Busy
<1>5. /\ Cardinality(Busy') \in Nat /\ Cardinality(Busy') <= Cardinality(Busy)
      /\ s.then = "idle" => Cardinality(Busy') = Cardinality(Busy) - 1
  BY <1>3, <1>4, FS_Subset, FS_CardinalityType, FS_RemoveElement
<1>6. ASSUME NEW t \in AllTables
      PROVE  Cardinality(Used(t)') + Cardinality(Busy') <= MaxRow
  <2>1. Cardinality(Used(t)) + Cardinality(Busy) <= MaxRow
    BY DEF IInv, Room
  <2>2. IsFiniteSet(Used(t)) /\ Cardinality(Used(t)) \in Nat /\ MaxRow \in Nat
    <3>1. MaxRow \in Nat
      BY BoundAssumption
    <3>2. IsFiniteSet(Key)
      BY <3>1, FS_Interval DEF Key
    <3>3. IsFiniteSet(Used(t))
      BY <3>2, FS_Subset DEF Used
    <3> QED BY <3>1, <3>3, FS_CardinalityType
  <2>3. \A k \in Key : <<t, k>> \in Row /\ <<t, k>> # Account
    BY RowNames, TablesAre DEF AllTables, CodeTables, Account
  <2>4. CASE \E k \in Key : <<t, k>> \in H /\ db[<<t, k>>] = NoRow
    <3>1. PICK k \in Key : <<t, k>> \in H /\ db[<<t, k>>] = NoRow
      BY <2>4
    <3>2. s.then = "idle"
      BY <2>3, <3>1, CommitNew
    <3>3. \A y \in H : <<t, k>> = y \/ db[y] # NoRow
      BY <1>1, <2>3, <3>1 DEF IInv, NewRowsOK
    <3>4. Used(t)' \subseteq Used(t) \cup {k}
      <4> SUFFICES ASSUME NEW j \in Key, db'[<<t, j>>] # NoRow, j # k PROVE db[<<t, j>>] # NoRow
        BY DEF Used
      <4>1. <<t, j>> # <<t, k>> /\ <<t, j>> \in Row
        BY <2>3
      <4> QED BY <1>2, <3>3, <4>1
    <3>5. /\ IsFiniteSet(Used(t) \cup {k})
          /\ Cardinality(Used(t) \cup {k}) <= Cardinality(Used(t)) + 1
          /\ Cardinality(Used(t) \cup {k}) \in Nat
      <4> DEFINE U == Used(t)
      <4>1. IsFiniteSet(U) /\ Cardinality(U) \in Nat
        BY <2>2
      <4> HIDE DEF U
      <4>2. /\ IsFiniteSet(U \cup {k})
            /\ Cardinality(U \cup {k}) = Cardinality(U) \/ Cardinality(U \cup {k}) = Cardinality(U) + 1
        BY <4>1, FS_AddElement
      <4>3. IsFiniteSet(U \cup {k}) /\ Cardinality(U \cup {k}) <= Cardinality(U) + 1 /\ Cardinality(U \cup {k}) \in Nat
        BY <4>1, <4>2
      <4> QED BY <4>3 DEF U
    <3>6. Cardinality(Used(t)') <= Cardinality(Used(t) \cup {k}) /\ Cardinality(Used(t)') \in Nat
      BY <3>4, <3>5, FS_Subset, FS_CardinalityType
    <3> QED BY <1>4, <1>5, <2>1, <2>2, <3>2, <3>5, <3>6
  <2>5. CASE \A k \in Key : <<t, k>> \in H => db[<<t, k>>] # NoRow
    <3>1. Used(t)' \subseteq Used(t)
      BY <1>2, <2>3, <2>5 DEF Used
    <3>2. Cardinality(Used(t)') <= Cardinality(Used(t)) /\ Cardinality(Used(t)') \in Nat
      BY <2>2, <3>1, FS_Subset, FS_CardinalityType
    <3> QED BY <1>4, <1>5, <2>1, <2>2, <3>2
  <2> QED BY <2>4, <2>5
<1> QED BY <1>6 DEF Room

\* Guesses at recovery codes name them.
LEMMA GuessIs ==
    ASSUME NEW g \in Guess, g[1] = "recovery"
    PROVE  g \notin CodeRows /\ g[2] \in Recovery /\ g = <<"recovery", g[2]>>
<1>1. g \notin CodeRows
  BY TablesAre DEF CodeTables
<1>2. g \notin {<<"wrong">>} \cup ({"totp"} \X Key)
  OBVIOUS
<1>3. g \in {"recovery"} \X Recovery
  BY <1>1, <1>2 DEF Guess
<1> QED BY <1>1, <1>3

\* What r accepts when it stores.
LEMMA CommitClaims ==
    ASSUME IInv, NEW r \in Req, Commit(r), at[r].claims # NoRow
    PROVE  LET s == at[r]  c == s.claims IN
           \/ /\ c \in CodeRows /\ Basis(s) = c
              /\ db[c] # NoRow /\ (c \notin s.behind => db[c].open)
              /\ IF c \in DOMAIN held[r] THEN ~ held[r][c].open ELSE ~ db[c].open
           \/ /\ s.kind = "verify" /\ c[2] \in Recovery /\ c = <<"recovery", c[2]>> /\ c \notin CodeRows
              /\ s.user \in User /\ s.user.codes # NoRow /\ c[2] \in s.user.codes
              /\ Basis(s) = Account /\ Account \in DOMAIN held[r]
              /\ Account \notin s.behind => s.user = db[Account]
<1> DEFINE s == at[r]
           c == s.claims
<1>1. s.pc = "store" /\ LocalOK(s) /\ DOMAIN want[r] = {} /\ ReqOK(r) /\ Writes(r) = DOMAIN held[r]
  BY CommitIs DEF IInv
<1>2. s.claims \in Guess \cup {NoRow} /\ s.row \in CodeRows \cup {NoRow} /\ s.user \in User \cup {NoRow}
  BY <1>1, IsLocal DEF LocalOK
<1>3. /\ Claims(s)
      /\ \/ c = s.row
         \/ s.kind = "verify" /\ c = s.guess /\ IsRecovery(s.user, s.guess)
  BY <1>1 DEF LocalOK
<1>4. CASE c = s.row
  <2>1. c \in CodeRows
    BY <1>2, <1>4
  <2>2. c[1] # "recovery"
    BY <2>1, TablesAre DEF CodeTables
  <2>3. Basis(s) = c
    BY <1>4, <2>2 DEF Basis
  <2>4. c \in GoesByCode(s)
    BY <2>1 DEF GoesByCode
  <2>5. db[c] # NoRow /\ (c \notin s.behind => db[c].open) /\ Closes(r, c)
    BY <1>1, <2>4 DEF ReqOK, ClaimOK
  <2> QED BY <1>1, <2>1, <2>3, <2>5 DEF Closes
<1>5. CASE s.kind = "verify" /\ c = s.guess /\ IsRecovery(s.user, s.guess)
  <2>1. c[1] = "recovery" /\ s.user.codes # NoRow /\ c[2] \in s.user.codes
    BY <1>5 DEF IsRecovery
  <2>2. c[2] \in Recovery /\ c = <<"recovery", c[2]>> /\ c \notin CodeRows
    BY <1>2, <2>1, GuessIs
  <2>3. s.user # NoRow
    BY <1>1, <1>5 DEF LocalOK
  <2>4. Basis(s) = Account
    BY <2>1 DEF Basis
  <2>5. Account \in Scope(s)
    <3>1. s.then = "token"
      BY <1>1, <1>3, <1>5 DEF Claims
    <3>2. c # s.row
      BY <1>2, <2>2
    <3> QED BY <1>1, <1>5, <3>1, <3>2, ScopesAre
  <2>6. Account \in DOMAIN held[r]
    BY <1>1, <1>5, <2>5 DEF ReqOK, AccountOK, Stores
  <2>7. Account \notin s.behind => s.user = db[Account]
    BY <1>1, <2>5 DEF ReqOK, AccountOK, GoesByUser
  <2> QED BY <1>2, <1>5, <2>1, <2>2, <2>3, <2>4, <2>6, <2>7
<1> QED BY <1>3, <1>4, <1>5

LEMMA CommitAccepted ==
    ASSUME IInv, NEW r \in Req, Commit(r)
    PROVE  AcceptedOK' /\ OneTime'
<1> DEFINE H == DOMAIN held[r]
           s == at[r]
<1>1. /\ accepted' = accepted \cup ({s.claims} \ {NoRow})
      /\ replayed' = replayed \cup {c \in {s.claims} \cap accepted : Basis(s) \notin s.behind}
      /\ raced' = raced \cup Misjudged(r) /\ ReqOK(r)
  BY CommitIs DEF IInv
<1>2. \A y \in Row : /\ db'[y] = (IF y \in H THEN held[r][y] ELSE db[y])
                     /\ db[y] # NoRow => db'[y] # NoRow
  BY CommitIs
<1>3. AcceptedOK'
  <2> SUFFICES ASSUME NEW c \in CodeRows, c \in accepted' PROVE db'[c] # NoRow /\ ~ db'[c].open
    BY DEF AcceptedOK
  <2>1. c \in Row
    BY RowNames
  <2>2. CASE c \in accepted
    <3>1. db[c] # NoRow /\ ~ db[c].open
      BY <2>2 DEF IInv, AcceptedOK
    <3>2. c \in H => ~ held[r][c].open
      BY <1>1, <3>1 DEF ReqOK, CodeOK
    <3> QED BY <1>2, <2>1, <3>1, <3>2
  <2>3. CASE c = s.claims /\ s.claims # NoRow
    <3>1. db[c] # NoRow /\ IF c \in H THEN ~ held[r][c].open ELSE ~ db[c].open
      BY <2>3, CommitClaims
    <3> QED BY <1>2, <2>1, <3>1
  <2> QED BY <1>1, <2>2, <2>3
<1>4. OneTime'
  <2> SUFFICES ASSUME NEW c \in replayed' PROVE c[1] = "recovery" /\ Account \in raced'
    BY DEF OneTime
  <2>1. CASE c \in replayed
    BY <1>1, <2>1 DEF IInv, OneTime
  <2>2. CASE c = s.claims /\ c \in accepted /\ Basis(s) \notin s.behind
    <3>1. c # NoRow
      BY <2>2, RowNames, NoRowAssumption DEF IInv, Shapes
    <3>2. CASE c \in CodeRows
      <4>1. db[c].open
        BY <2>2, <3>1, <3>2, CommitClaims
      <4> QED BY <2>2, <3>2, <4>1 DEF IInv, AcceptedOK
    <3>3. CASE c \notin CodeRows
      <4>1. /\ c[2] \in Recovery /\ c = <<"recovery", c[2]>>
            /\ s.user \in User /\ s.user.codes # NoRow /\ c[2] \in s.user.codes
            /\ Basis(s) = Account
            /\ Account \notin s.behind => s.user = db[Account]
        BY <2>2, <3>1, <3>3, CommitClaims
      <4>2. s.user = db[Account] /\ db[Account] # NoRow
        BY <2>2, <4>1, NoRowAssumption
      <4>3. Account \in raced
        BY <2>2, <4>1, <4>2 DEF IInv, CodesOK
      <4> QED BY <1>1, <4>1, <4>3
    <3> QED BY <3>2, <3>3
  <2> QED BY <1>1, <2>1, <2>2
<1> QED BY <1>3, <1>4

\* What r makes of the account, when it was not overtaken.
LEMMA CommitAccount ==
    ASSUME IInv, NEW r \in Req, Commit(r), Account \in DOMAIN held[r], Account \notin raced'
    PROVE  /\ Account \notin raced
           /\ Intends(at[r], db'[Account], generation, proven)
           /\ at[r].user = db[Account]
<1> DEFINE s == at[r]
<1>1. /\ s.pc = "store" /\ LocalOK(s) /\ AccountOK(r) /\ Account \in Scope(s) /\ Account \in Row
      /\ raced' = raced \cup Misjudged(r)
      /\ db'[Account] = held[r][Account]
  BY CommitIs DEF IInv, ReqOK
<1>2. Account \notin s.behind /\ Account \notin raced
  BY <1>1 DEF Misjudged, Bases
<1>3. s.user = db[Account]
  BY <1>1, <1>2 DEF AccountOK, GoesByUser
<1>4. \E v \in User : /\ Intends(s, v, generation, proven)
                      /\ s.user = NoRow \/ s.user = db[Account] => held[r][Account] = v
  BY HeldUser
<1> QED BY <1>1, <1>2, <1>3, <1>4

LEMMA CommitProven ==
    ASSUME IInv, NEW r \in Req, Commit(r)
    PROVE  AuthenticatorIsProven'
<1> SUFFICES ASSUME db'[Account] # NoRow, db'[Account].codes # NoRow, Account \notin raced'
             PROVE  db'[Account].secret \in proven'
  BY DEF AuthenticatorIsProven
<1>1. /\ raced' = raced \cup Misjudged(r) /\ Account \in Row /\ proven' = proven
      /\ LocalOK(at[r]) /\ at[r].pc = "store"
  BY CommitIs, RowNames
<1>2. Account \notin raced /\ db[Account] # NoRow /\ db[Account].codes # NoRow => db[Account].secret \in proven
  BY DEF IInv, AuthenticatorIsProven
<1>3. CASE Account \notin DOMAIN held[r]
  <2>1. \A y \in Row : db'[y] = IF y \in DOMAIN held[r] THEN held[r][y] ELSE db[y]
    BY CommitIs
  <2> QED BY <1>1, <1>2, <1>3, <2>1
<1>4. CASE Account \in DOMAIN held[r]
  <2>1. /\ Account \notin raced /\ Intends(at[r], db'[Account], generation, proven)
        /\ at[r].user = db[Account]
    BY <1>4, CommitAccount
  <2>2. at[r].user # NoRow /\ at[r].kind # "enroll"
    BY <2>1 DEF Intends
  <2>3. CASE at[r].kind = "activate"
    BY <1>1, <2>1, <2>2, <2>3 DEF Intends
  <2>4. CASE at[r].kind # "activate"
    <3>1. db'[Account].secret = db[Account].secret
      BY <2>1, <2>2, <2>4 DEF Intends
    <3>2. db[Account].codes # NoRow
      BY <2>1, <2>2, <2>4 DEF Intends
    <3> QED BY <1>1, <1>2, <2>1, <2>2, <3>1, <3>2
  <2> QED BY <2>3, <2>4
<1> QED BY <1>3, <1>4

LEMMA CommitCodes ==
    ASSUME IInv, NEW r \in Req, Commit(r)
    PROVE  CodesOK'
<1> DEFINE H == DOMAIN held[r]
           s == at[r]
           A == accepted
<1>1. /\ accepted' = A \cup ({s.claims} \ {NoRow}) /\ want' = want
      /\ raced' = raced \cup Misjudged(r) /\ ReqOK(r) /\ generation' = generation
      /\ Account \in Row /\ s.pc = "store" /\ LocalOK(s)
  BY CommitIs, RowNames DEF IInv
<1>2. Account \notin H => db'[Account] = db[Account]
  BY <1>1, CommitIs
<1>3. CodesOK
  BY DEF IInv
<1>4. \A k : <<"recovery", k>> \in accepted' =>
        \/ <<"recovery", k>> \in accepted
        \/ /\ s.kind = "verify" /\ s.claims = <<"recovery", k>> /\ k \in Recovery /\ Account \in H
           /\ s.user \in User /\ s.user.codes # NoRow /\ k \in s.user.codes
           /\ Account \notin s.behind => s.user = db[Account]
  <2> SUFFICES ASSUME NEW k, s.claims = <<"recovery", k>>, s.claims # NoRow
               PROVE  /\ s.kind = "verify" /\ k \in Recovery /\ Account \in H
                      /\ s.user \in User /\ s.user.codes # NoRow /\ k \in s.user.codes
                      /\ Account \notin s.behind => s.user = db[Account]
    BY <1>1
  <2>1. s.claims \notin CodeRows /\ s.claims[2] = k
    BY TablesAre DEF CodeTables
  <2> QED BY <2>1, CommitClaims
<1>5. \A q \in Req, g \in Key : Makes(q, g)' => q # r /\ Makes(q, g)
  <2> SUFFICES ASSUME NEW q \in Req, NEW g \in Key, Makes(q, g)' PROVE q # r /\ Makes(q, g)
    OBVIOUS
  <2>1. q # r
    BY CommitMoves DEF Makes, Stores
  <2>2. /\ want'[q] = want[q] /\ held'[q] = held[q]
        /\ at'[q].pc = at[q].pc /\ at'[q].kind = at[q].kind
    <3>1. want'[q] = want[q] /\ held'[q] = held[q]
      BY <2>1, CommitIs
    <3>2. at'[q].pc = at[q].pc /\ at'[q].kind = at[q].kind
      BY <2>1, CommitMoves
    <3> QED BY <3>1, <3>2
  <2> QED BY <2>1, <2>2 DEF Makes, Stores
<1>6. db'[Account] # NoRow => CodesBound(db'[Account], generation')
  <2>1. CASE Account \notin H
    BY <1>1, <1>2, <1>3, <2>1 DEF CodesOK
  <2>2. CASE Account \in H
    <3>1. PICK v \in User :
            /\ CodesBound(v, generation)
            /\ s.user = NoRow => db'[Account] = v
            /\ s.user # NoRow => /\ db[Account] # NoRow
                                 /\ db'[Account].codes = v.codes \/ db'[Account].codes = db[Account].codes
      <4>1. db'[Account] = held[r][Account]
        BY <1>1, <2>2, CommitIs
      <4> QED BY <2>2, <4>1, HeldUser DEF Intends
    <3>2. db[Account] # NoRow => CodesBound(db[Account], generation)
      BY <1>3 DEF CodesOK
    <3> QED BY <1>1, <3>1, <3>2 DEF CodesBound
  <2> QED BY <2>1, <2>2
<1>7. \A k \in Recovery : <<"recovery", k>> \in accepted' => k[1] <= generation'
  <2>1. s.user # NoRow => CodesBound(s.user, generation)
    BY <1>1 DEF ReqOK, AccountOK
  <2>2. \A k : k \in s.user.codes /\ s.user \in User /\ s.user.codes # NoRow => k[1] <= generation
    BY <2>1, NoRowAssumption DEF CodesBound
  <2> QED BY <1>1, <1>3, <1>4, <2>2 DEF CodesOK
<1>8. ASSUME NEW q \in Req, NEW g \in Key, Makes(q, g)'
      PROVE  /\ \A p \in Req \ {q} : ~ Makes(p, g)'
             /\ Account \notin raced' => \A k \in Codes(g) : <<"recovery", k>> \notin accepted'
  <2>1. q # r /\ Makes(q, g)
    BY <1>5, <1>8
  <2>2. \A p \in Req \ {q} : ~ Makes(p, g)
    BY <1>3, <2>1 DEF CodesOK
  <2>3. \A p \in Req \ {q} : ~ Makes(p, g)'
    BY <1>5, <2>2
  <2>4. ASSUME Account \notin raced', NEW k \in Codes(g), <<"recovery", k>> \in accepted' PROVE FALSE
    <3>1. <<"recovery", k>> \notin accepted
      BY <1>1, <1>3, <2>1, <2>4 DEF CodesOK
    <3>2. /\ Account \in H /\ s.user \in User /\ s.user.codes # NoRow /\ k \in s.user.codes
      BY <1>4, <2>4, <3>1
    <3>3. s.user = db[Account] /\ Account \notin raced
      BY <2>4, <3>2, CommitAccount
    <3>4. Codes(g) \cap db[Account].codes = {}
      BY <1>3, <2>1, <3>2, <3>3, NoRowAssumption DEF CodesOK
    <3> QED BY <2>4, <3>2, <3>3, <3>4
  <2> QED BY <2>3, <2>4
<1>9. ASSUME Account \notin raced', db'[Account] # NoRow, db'[Account].codes # NoRow
      PROVE  /\ \A k \in db'[Account].codes : <<"recovery", k>> \notin accepted'
             /\ \A q \in Req, g \in Key : Makes(q, g)' => Codes(g) \cap db'[Account].codes = {}
  <2>1. /\ Account \notin raced
        /\ db[Account] # NoRow /\ db[Account].codes # NoRow =>
             /\ \A k \in db[Account].codes : <<"recovery", k>> \notin accepted
             /\ \A q \in Req, g \in Key : Makes(q, g) => Codes(g) \cap db[Account].codes = {}
    BY <1>1, <1>3, <1>9 DEF CodesOK
  <2>2. CASE Account \notin H
    BY <1>2, <1>4, <1>5, <1>9, <2>1, <2>2
  <2>3. CASE Account \in H
    <3>1. Intends(s, db'[Account], generation, proven) /\ s.user = db[Account] /\ s.user # NoRow
          /\ s.kind # "enroll"
      <4>1. Intends(s, db'[Account], generation, proven) /\ s.user = db[Account]
        BY <1>9, <2>3, CommitAccount
      <4> QED BY <1>9, <4>1 DEF Intends
    <3>2. CASE s.kind = "verify"
      <4>1. db[Account].codes # NoRow /\ db'[Account].codes = db[Account].codes \ {s.claims[2]}
        BY <3>1, <3>2 DEF Intends
      <4>2. \A k : s.claims = <<"recovery", k>> => k = s.claims[2]
        OBVIOUS
      <4> QED BY <1>4, <1>5, <2>1, <3>1, <4>1, <4>2
    <3>3. CASE s.kind \in {"activate", "regenerate"}
      <4>1. PICK g \in 1..generation : db'[Account].codes = Codes(g)
        BY <3>1, <3>3 DEF Intends
      <4>2. g \in Key
        BY BoundAssumption DEF IInv, Shapes, Key
      <4>3. Makes(r, g)
        <5>1. db'[Account] = held[r][Account]
          BY <1>1, <2>3, CommitIs
        <5> QED BY <1>1, <2>3, <3>3, <4>1, <5>1 DEF Makes, Stores
      <4>4. \A k \in Codes(g) : <<"recovery", k>> \notin accepted
        BY <1>3, <2>1, <4>2, <4>3 DEF CodesOK
      <4>5. \A q \in Req \ {r} : ~ Makes(q, g)
        BY <1>3, <4>2, <4>3 DEF CodesOK
      <4>6. \A k \in Codes(g) : <<"recovery", k>> \notin accepted'
        BY <1>4, <3>3, <4>4
      <4>7. ASSUME NEW q \in Req, NEW h \in Key, Makes(q, h)' PROVE Codes(h) \cap Codes(g) = {}
        <5>1. h # g
          BY <1>5, <4>5, <4>7
        <5> QED BY <5>1 DEF Codes
      <4> QED BY <4>1, <4>6, <4>7
    <3>4. CASE s.kind \notin {"verify", "activate", "regenerate"}
      <4>1. db'[Account].codes = db[Account].codes
        BY <3>1, <3>4 DEF Intends
      <4> QED BY <1>4, <1>5, <1>9, <2>1, <3>1, <3>4, <4>1
    <3> QED BY <3>2, <3>3, <3>4
  <2> QED BY <2>2, <2>3
<1> QED BY <1>6, <1>7, <1>8, <1>9 DEF CodesOK

\* The codes that are open after r has stored.
LEMMA OpenAfter ==
    ASSUME IInv, NEW r \in Req, Commit(r), NEW x \in CodeRows \ raced', db'[x] # NoRow, db'[x].open
    PROVE  \/ /\ x \in DOMAIN held[r] /\ db[x] = NoRow /\ Issues(at[r], x[1])
              /\ at[r].behind \cap TableRows(x[1]) = {}
           \/ /\ db[x] # NoRow /\ db[x].open /\ x \notin raced
              /\ x \in DOMAIN held[r] /\ Issues(at[r], x[1]) => x \in at[r].behind
<1> DEFINE H == DOMAIN held[r]
           s == at[r]
<1>1. x \in Row /\ x # Account /\ x[1] # "session" /\ x[1] \in CodeTables
  BY RowNames, TablesAre
<1>2. CodeOK(r, x) /\ raced' = raced \cup Misjudged(r)
  BY CommitIs DEF IInv, ReqOK
<1>3. \A y \in Row : db'[y] = IF y \in H THEN held[r][y] ELSE db[y]
  BY CommitIs
<1>4. CASE x \notin H
  BY <1>1, <1>2, <1>3, <1>4
<1>5. CASE x \in H /\ db[x] = NoRow
  <2>1. Issues(s, x[1])
    BY <1>2, <1>5 DEF CodeOK
  <2>2. Bases(s, x) = TableRows(x[1])
    BY <1>1, <2>1 DEF Bases, TableRows, Issues, Issuers
  <2>3. s.behind \cap TableRows(x[1]) = {}
    BY <1>2, <1>5, <2>2 DEF Misjudged
  <2> QED BY <1>5, <2>1, <2>3
<1>6. CASE x \in H /\ db[x] # NoRow
  <2>1. held[r][x].open
    BY <1>1, <1>3, <1>6
  <2> QED BY <1>2, <1>6, <2>1 DEF CodeOK
<1> QED BY <1>4, <1>5, <1>6

LEMMA CommitOpen ==
    ASSUME IInv, NEW r \in Req, Commit(r)
    PROVE  OneOpenCode'
<1> DEFINE New(x) == /\ x \in DOMAIN held[r] /\ db[x] = NoRow /\ Issues(at[r], x[1])
                     /\ at[r].behind \cap TableRows(x[1]) = {}
           Old(x) == /\ db[x] # NoRow /\ db[x].open /\ x \notin raced
                     /\ x \in DOMAIN held[r] /\ Issues(at[r], x[1]) => x \in at[r].behind
<1>1. Writes(r) = DOMAIN held[r] /\ ClosesOthers(r)
  BY CommitIs DEF IInv, ReqOK
<1>2. ASSUME NEW x \in CodeRows, NEW y \in CodeRows, x[1] = y[1], New(x), Old(y) PROVE FALSE
  <2>1. x \in TableRows(x[1]) /\ y \in TableRows(x[1]) /\ x[1] \in CodeTables
    BY <1>2, TablesAre
  <2>2. y \in DOMAIN held[r]
    BY <1>1, <1>2, <2>1 DEF ClosesOthers
  <2>3. y \in at[r].behind
    BY <1>2, <2>2
  <2> QED BY <1>2, <2>1, <2>3
<1>3. ASSUME NEW x \in CodeRows, NEW y \in CodeRows, New(x), New(y) PROVE x = y
  <2>1. x # Account
    BY RowNames
  <2> QED BY <1>1, <1>3, <2>1 DEF IInv, NewRowsOK
<1>4. ASSUME NEW x \in CodeRows, NEW y \in CodeRows, x[1] = y[1], Old(x), Old(y) PROVE x = y
  BY <1>4 DEF IInv, OneOpenCode
<1>5. ASSUME NEW x \in CodeRows \ raced', db'[x] # NoRow, db'[x].open PROVE New(x) \/ Old(x)
  BY <1>5, OpenAfter
<1> HIDE DEF New, Old
<1> QED BY <1>2, <1>3, <1>4, <1>5 DEF OneOpenCode

\* Only a reset changes a password.
LEMMA CommitPassword ==
    ASSUME IInv, NEW r \in Req, Commit(r), at[r].kind # "reset", db[Account] # NoRow
    PROVE  db'[Account].password = db[Account].password
<1>1. Account \in Row
  BY RowNames
<1>2. \A y \in Row : db'[y] = IF y \in DOMAIN held[r] THEN held[r][y] ELSE db[y]
  BY CommitIs
<1>3. CASE Account \in DOMAIN held[r]
  <2>1. PICK v \in User :
          /\ Intends(at[r], v, generation, proven)
          /\ at[r].user # NoRow =>
               held[r][Account].password = IF at[r].user.password = v.password THEN db[Account].password
                                           ELSE v.password
    BY <1>3, HeldUser
  <2>2. at[r].user # NoRow
    BY <1>3, HeldUser
  <2>3. v.password = at[r].user.password
    BY <2>1, <2>2 DEF Intends
  <2> QED BY <1>1, <1>2, <1>3, <2>1, <2>2, <2>3
<1> QED BY <1>1, <1>2, <1>3

LEMMA CommitSessions ==
    ASSUME IInv, NEW r \in Req, Commit(r)
    PROVE  ResetEndsSessions'
<1> SUFFICES ASSUME NEW x \in SessionRows, db'[x] # NoRow, db'[x].live, db'[x].by # NoRow, x \notin raced'
             PROVE  db'[x].by = db'[Account].password
  BY DEF ResetEndsSessions, SessionRows
<1> DEFINE H == DOMAIN held[r]
           s == at[r]
<1>1. x \in Row /\ x # Account /\ x[1] = "session" /\ Account \in Row
  BY RowNames, TablesAre
<1>2. /\ TokenOK(r, x) /\ EndsAll(r) /\ AccountOK(r) /\ LocalOK(s) /\ s.pc = "store" /\ Writes(r) = H
      /\ H \subseteq Scope(s)
      /\ raced' = raced \cup Misjudged(r)
  BY CommitIs DEF IInv, ReqOK
<1>3. \A y \in Row : db'[y] = IF y \in H THEN held[r][y] ELSE db[y]
  BY CommitIs
<1>4. CASE s.kind = "reset"
  <2>1. x \notin H
    BY <1>1, <1>2, <1>3, <1>4 DEF TokenOK
  <2>2. x \in s.behind
    BY <1>1, <1>2, <1>3, <1>4, <2>1 DEF EndsAll, Stores
  <2> QED BY <1>1, <1>2, <2>2 DEF Misjudged
<1>5. CASE s.kind # "reset" /\ x \in H
  <2>1. db[x] = NoRow /\ db'[x].by = s.password
    BY <1>1, <1>2, <1>3, <1>5 DEF TokenOK
  <2>2. s.kind = "login"
    BY <1>2, <1>5, <2>1 DEF LocalOK
  <2>3. Account \notin s.behind
    <3>1. Bases(s, x) = {Account}
      BY <1>1, TablesAre DEF Bases
    <3> QED BY <1>2, <1>5, <3>1 DEF Misjudged
  <2>4. s.password = db[Account].password
    BY <1>2, <2>2, <2>3 DEF AccountOK
  <2>5. Account \notin H
    <3>1. s.kind \in Issuers /\ Table(s.kind) \in CodeTables
      BY <2>2 DEF Issuers, Table, CodeTables
    <3>2. Scope(s) = TableRows(Table(s.kind)) \cup SessionRows
      BY <1>2, <2>2, <3>1, ScopesAre
    <3> QED BY <1>2, <3>1, <3>2, RowNames, TablesAre
  <2> QED BY <1>1, <1>3, <2>1, <2>4, <2>5
<1>6. CASE s.kind # "reset" /\ x \notin H
  <2>1. db'[x] = db[x] /\ x \notin raced
    BY <1>1, <1>2, <1>3, <1>6
  <2>2. db[x].by = db[Account].password
    BY <2>1 DEF IInv, ResetEndsSessions, SessionRows
  <2>3. db[Account] # NoRow
    BY <1>1, <2>1 DEF IInv, Known
  <2> QED BY <1>6, <2>1, <2>2, <2>3, CommitPassword
<1> QED BY <1>4, <1>5, <1>6

LEMMA CommitCounted ==
    ASSUME IInv, NEW r \in Req, Commit(r), NEW x \in CodeRows
    PROVE  Counted(x)'
<1> DEFINE H == DOMAIN held[r]
           s == at[r]
<1>1. x \in Row /\ x # Account /\ x[1] # "session"
  BY RowNames, TablesAre
<1>2. /\ CodeOK(r, x) /\ LocalOK(s) /\ Writes(r) = H /\ Writes(r)' = {} /\ DOMAIN want[r] = {}
      /\ raced' = raced \cup Misjudged(r) /\ looked' = looked
  BY CommitIs DEF IInv, ReqOK
<1>3. /\ db'[x] = (IF x \in H THEN held[r][x] ELSE db[x])
      /\ db[x] # NoRow => db'[x] # NoRow
  <2>1. \A y \in Row : /\ db'[y] = (IF y \in H THEN held[r][y] ELSE db[y])
                       /\ db[y] # NoRow => db'[y] # NoRow
    BY CommitIs
  <2> QED BY <1>1, <2>1
<1>4. \A q \in Req \ {r} : want'[q] = want[q] /\ held'[q] = held[q] /\ Writes(q)' = Writes(q)
                           /\ (x \in H => x \notin DOMAIN held[q])
  BY CommitIs
<1>5. \A q \in Req \ {r} : /\ at'[q].kind = at[q].kind
                           /\ at'[q].behind = at[q].behind \cup (H \cap GoesBy(q))
  BY CommitMoves
<1>6. InFlight(x)' = InFlight(x) \ {r}
  BY <1>2, <1>4, <1>5 DEF InFlight, Guesses
<1>7. Counted(x)
  BY DEF IInv
<1>8. CASE x \notin H
  <2>1. r \notin InFlight(x)
    BY <1>2, <1>8 DEF InFlight
  <2>2. \A q \in Req \ {r} : Count(q, x)' = Count(q, x)
    BY <1>3, <1>4, <1>8 DEF Count
  <2> QED BY <1>2, <1>3, <1>5, <1>6, <1>7, <1>8, <2>1, <2>2 DEF Counted
<1>9. CASE x \in H /\ db[x] = NoRow
  <2>1. held[r][x].attempts = 0 /\ looked[x] = 0
    BY <1>2, <1>7, <1>9 DEF CodeOK, Counted
  <2>2. \A q \in Req \ {r} : x \notin Writes(q)
    BY <1>1, <1>2, <1>9 DEF IInv, NewRowsOK
  <2>3. InFlight(x)' = {}
    BY <1>6, <2>2 DEF InFlight
  <2>4. db'[x] # NoRow
    BY <1>9, CommitIs
  <2> QED BY <1>2, <1>3, <1>9, <2>1, <2>3, <2>4 DEF Counted
<1>10. CASE x \in H /\ db[x] # NoRow /\ ~ Guesses(s)
  <2>1. db'[x].attempts = db[x].attempts
    BY <1>2, <1>3, <1>10 DEF CodeOK
  <2>2. r \notin InFlight(x)
    BY <1>10 DEF InFlight
  <2>3. \A q \in Req \ {r} : Count(q, x)' = Count(q, x)
    BY <1>4, <1>10, <2>1 DEF Count
  <2> QED BY <1>2, <1>3, <1>5, <1>6, <1>7, <1>10, <2>1, <2>2, <2>3 DEF Counted
<1>11. CASE x \in H /\ db[x] # NoRow /\ Guesses(s)
  <2> SUFFICES ASSUME x \notin raced'
               PROVE  /\ InFlight(x)' = {} => looked[x] = db'[x].attempts
                      /\ \A q \in Req : InFlight(x)' = {q} => x \in at'[q].behind
    BY <1>2, <1>3, <1>11 DEF Counted
  <2>1. r \in InFlight(x)
    BY <1>2, <1>11 DEF InFlight
  <2>2. x \notin s.behind /\ x \notin raced
    <3>1. Bases(s, x) = {x}
      BY <1>1, <1>11 DEF Bases, Guesses
    <3> QED BY <1>2, <1>11, <3>1 DEF Misjudged
  <2>3. Count(r, x) = held[r][x].attempts
    BY <1>2, <1>11 DEF Count
  <2>4. InFlight(x)' = {} => looked[x] = db'[x].attempts
    BY <1>3, <1>6, <1>7, <1>11, <2>1, <2>2, <2>3 DEF Counted
  <2>5. ASSUME NEW q \in Req, InFlight(x)' = {q} PROVE x \in at'[q].behind
    <3>1. q # r /\ q \in InFlight(x)
      BY <1>6, <2>5
    <3>2. Guesses(at[q]) /\ x \in Writes(q)
      BY <3>1 DEF InFlight
    <3>3. x \in Scope(at[q]) /\ LocalOK(at[q])
      BY <3>2 DEF IInv, Shapes, ScopeOK
    <3>4. x = at[q].row /\ at[q].pc # "idle"
      BY <3>2, <3>3, ScopesAreRows
    <3>5. x \in GoesBy(q)
      BY <3>4, RowNames DEF GoesBy
    <3> QED BY <1>5, <1>11, <3>1, <3>5
  <2> QED BY <2>4, <2>5
<1> QED BY <1>8, <1>9, <1>10, <1>11

\* Where r is after it has stored.
LEMMA CommitOwn ==
    ASSUME IInv, NEW r \in Req, Commit(r)
    PROVE  ReqOK(r)'
<1> DEFINE s == at[r]
           t == at'[r]
<1>1. /\ DOMAIN held'[r] = {} /\ DOMAIN want'[r] = {} /\ Writes(r)' = {} /\ generation' = generation
      /\ LocalOK(s) /\ s.pc = "store" /\ DOMAIN held[r] \subseteq Scope(s) /\ AccountOK(r)
  BY CommitIs DEF IInv, ReqOK
<1>2. /\ LocalOK(t) /\ t.pc # "store"
      /\ s.then = "idle" => t = Idle
      /\ s.then # "idle" =>
           /\ t.pc = s.then /\ t.kind = s.kind /\ t.user = s.user /\ t.row = s.row
           /\ t.claims = NoRow /\ t.behind = s.behind
           /\ <<s.kind, s.then>> \in {<<"oauth", "refresh">>, <<"verify", "token">>,
                                     <<"verify", "check">>, <<"delete", "close">>}
  BY CommitMoves
<1>3. \A y \in Row : db[y] # NoRow => db'[y] # NoRow
  BY CommitIs
<1>4. \A y \in Row : db'[y] = IF y \in DOMAIN held[r] THEN held[r][y] ELSE db[y]
  BY CommitIs
<1> HIDE DEF s, t
<1>5. GoesByCode(t) = {}
  BY <1>2, IdleIs, RowNames DEF GoesByCode
<1>6. t.user # NoRow => CodesBound(t.user, generation')
  BY <1>1, <1>2, IdleIs DEF AccountOK, s
<1>7. t.row # NoRow => db'[t.row] # NoRow
  <2>1. t.row # NoRow => t.row = s.row /\ s.row \in Row /\ db[s.row] # NoRow
    <3>1. s.row \in CodeRows \cup {NoRow}
      BY <1>1, IsLocal DEF LocalOK
    <3> QED BY <1>1, <1>2, <3>1, IdleIs, RowNames DEF AccountOK, s
  <2> QED BY <1>3, <2>1
<1>8. GoesByUser(t) /\ Account \notin t.behind => t.user = db'[Account]
  <2> SUFFICES ASSUME GoesByUser(t), Account \notin t.behind PROVE t.user = db'[Account]
    OBVIOUS
  <2>1. s.then # "idle"
    BY <1>2, IdleIs, RowNames DEF GoesByUser
  <2>2. s.then \in {"close", "check"} => s.row \in CodeRows /\ Account # s.row
    <3>1. s.row \in CodeRows \cup {NoRow}
      BY <1>1, IsLocal DEF LocalOK
    <3>2. s.then \in {"close", "check"} => s.row # NoRow
      BY <1>1, <1>2, <2>1 DEF LocalOK, Stores
    <3> QED BY <3>1, <3>2, RowNames
  <2>3. Account \notin Scope(t)
    BY <1>2, <2>1, <2>2, ScopesAre
  <2>4. s.kind = "verify" /\ s.then = "check"
    BY <1>2, <2>1, <2>3 DEF GoesByUser, Stores
  <2>5. GoesByUser(s)
    BY <1>1, <2>4 DEF GoesByUser, Stores
  <2>6. s.user = db[Account]
    BY <1>1, <1>2, <2>1, <2>5 DEF AccountOK, s
  <2>7. Account \notin DOMAIN held[r]
    <3>1. Scope(s) = {s.row}
      BY <1>1, <2>4, ScopesAre
    <3> QED BY <1>1, <2>2, <2>4, <3>1
  <2>8. db'[Account] = db[Account]
    BY <1>4, <2>7, RowNames
  <2> QED BY <1>2, <2>1, <2>6, <2>8
<1>9. ~ (t.kind = "login" /\ t.pc # "idle")
  BY <1>2, IdleIs
<1>10. AccountOK(r)'
  BY <1>1, <1>2, <1>6, <1>7, <1>8, <1>9 DEF AccountOK, Stores, t
<1>11. ClosesOthers(r)' /\ ClaimOK(r)' /\ EndsAll(r)'
  <2>1. ClosesOthers(r)'
    BY <1>1 DEF ClosesOthers
  <2>2. ClaimOK(r)'
    BY <1>5 DEF ClaimOK, t
  <2>3. EndsAll(r)'
    BY <1>2 DEF EndsAll, Stores, t
  <2> QED BY <2>1, <2>2, <2>3
<1> QED BY <1>1, <1>10, <1>11 DEF ReqOK, CodeOK, TokenOK

\* The others, of whom some are overtaken.
LEMMA CommitOthers ==
    ASSUME IInv, NEW r \in Req, Commit(r), NEW q \in Req \ {r}
    PROVE  ReqOK(q)'
<1> DEFINE H == DOMAIN held[r]
           s == at[q]
           t == at'[q]
<1>1. /\ t.pc = s.pc /\ t.kind = s.kind /\ t.user = s.user /\ t.row = s.row /\ t.guess = s.guess
      /\ t.password = s.password /\ t.then = s.then /\ t.claims = s.claims
      /\ t.behind = s.behind \cup (H \cap GoesBy(q))
      /\ LocalOK(s)
  BY CommitMoves
<1>2. want'[q] = want[q] /\ held'[q] = held[q] /\ Writes(q)' = Writes(q)
      /\ \A y \in H : y \notin DOMAIN held[q]
  BY CommitIs
<1>3. /\ \A y \in Row : db'[y] = (IF y \in H THEN held[r][y] ELSE db[y])
      /\ generation' = generation /\ proven' = proven /\ Writes(r) = H
  BY CommitIs
<1>4. \A y \in Row : db[y] # NoRow => db'[y] # NoRow
  BY CommitIs
<1>5. ReqOK(q) /\ ReqOK(r)
  BY DEF IInv
<1>6. GoesBy(q) = IF s.pc = "idle" THEN {}
                  ELSE {Account} \cup ({s.row} \ {NoRow})
                       \cup (IF s.pc = "store" THEN TableRows(Table(s.kind)) ELSE {})
                       \cup (IF s.pc = "store" /\ s.kind = "reset" THEN SessionRows ELSE {})
  BY DEF GoesBy, TableRows, SessionRows
<1> HIDE DEF H, s, t
<1>7. /\ Scope(t) = Scope(s) /\ GoesByCode(t) = GoesByCode(s)
      /\ GoesByUser(t) <=> GoesByUser(s)
      /\ Guesses(t) <=> Guesses(s)
      /\ Stores(t) <=> Stores(s)
      /\ \A tb : Issues(t, tb) <=> Issues(s, tb)
      /\ \A v, g, p : Intends(t, v, g, p) <=> Intends(s, v, g, p)
  BY <1>1, SameLocal
<1>8. \A y \in Row : y \notin H => db'[y] = db[y]
  BY <1>3
<1>9. \A y \in GoesBy(q) : y \notin t.behind => y \notin H /\ y \notin s.behind
  BY <1>1
<1>10. \A y \in Writes(q) : y # Account => (db[y] = NoRow <=> db'[y] = NoRow)
  <2> SUFFICES ASSUME NEW y \in Writes(q), y # Account, db[y] = NoRow PROVE db'[y] = NoRow
    BY <1>4, Writers
  <2>1. y \notin H /\ y \in Row
    BY <1>3, Writers DEF IInv, NewRowsOK
  <2> QED BY <1>8, <2>1
<1>11. AccountOK(q)'
  <2>1. AccountOK(q) /\ Account \in Row
    BY <1>5, RowNames DEF ReqOK
  <2>2. s.row # NoRow => db'[s.row] # NoRow
    <3>1. s.row # NoRow => s.row \in Row
      BY <1>1, IsLocal, RowNames DEF LocalOK
    <3> QED BY <1>4, <2>1, <3>1 DEF AccountOK, s
  <2>3. Account \in DOMAIN held[q] => db'[Account] = db[Account]
    BY <1>2, <1>8, <2>1
  <2>4. GoesByUser(s) \/ (s.kind = "login" /\ s.pc # "idle") => Account \in GoesBy(q)
    <3>1. GoesByUser(s) => s.pc # "idle"
      BY <1>1, ScopesAreRows DEF GoesByUser, Stores
    <3> QED BY <1>6, <3>1
  <2>5. (GoesByUser(s) \/ (s.kind = "login" /\ s.pc # "idle")) /\ Account \notin t.behind =>
          db'[Account] = db[Account] /\ Account \notin s.behind
    BY <1>8, <1>9, <2>1, <2>4
  <2>6. /\ t.user # NoRow => CodesBound(t.user, generation')
        /\ t.row # NoRow => db'[t.row] # NoRow
        /\ Stores(t) /\ Account \in Scope(t) /\ (t.user = NoRow \/ t.kind = "verify") =>
             Account \in Writes(q)'
    BY <1>1, <1>2, <1>3, <1>7, <2>1, <2>2 DEF AccountOK, s
  <2>7. Account \in DOMAIN want'[q] =>
         /\ Account \notin DOMAIN held'[q] /\ want'[q][Account].was = t.user
         /\ Intends(t, want'[q][Account].new, generation', proven')
    BY <1>1, <1>2, <1>3, <1>7, <2>1 DEF AccountOK, s
  <2>8. Account \in DOMAIN held'[q] =>
         /\ t.user = NoRow <=> db'[Account] = NoRow
         /\ \E v \in User : /\ Intends(t, v, generation', proven')
                            /\ held'[q][Account] = Sent(Change(t.user, v), db'[Account])
    <3> SUFFICES ASSUME Account \in DOMAIN held[q]
                 PROVE  /\ t.user = NoRow <=> db'[Account] = NoRow
                        /\ \E v \in User : /\ Intends(t, v, generation', proven')
                                           /\ held'[q][Account] = Sent(Change(t.user, v), db'[Account])
      BY <1>2
    <3>1. s.user = NoRow <=> db[Account] = NoRow
      BY <2>1 DEF AccountOK, s
    <3>2. PICK v \in User : /\ Intends(s, v, generation, proven)
                            /\ held[q][Account] = Sent(Change(s.user, v), db[Account])
      BY <2>1 DEF AccountOK, s
    <3>3. Intends(t, v, generation', proven')
      BY <1>3, <1>7, <3>2
    <3>4. held'[q][Account] = Sent(Change(t.user, v), db'[Account])
      BY <1>1, <1>2, <2>3, <3>2
    <3> QED BY <1>1, <2>3, <3>1, <3>3, <3>4
  <2>9. /\ GoesByUser(t) /\ Account \notin t.behind => t.user = db'[Account]
        /\ t.kind = "login" /\ t.pc # "idle" /\ Account \notin t.behind => t.password = db'[Account].password
    BY <1>1, <1>7, <2>1, <2>5 DEF AccountOK, s
  <2> QED BY <2>6, <2>7, <2>8, <2>9 DEF AccountOK, t
<1>12. ClosesOthers(q)'
  <2> SUFFICES ASSUME NEW tb \in CodeTables, Issues(t, tb), Writes(q) \cap TableRows(tb) # {},
                      t.behind \cap TableRows(tb) = {},
                      NEW y \in TableRows(tb), db'[y] # NoRow, db'[y].open
               PROVE  y \in Writes(q)
    BY <1>2 DEF ClosesOthers, t
  <2>1. Issues(s, tb) /\ tb = Table(s.kind) /\ s.pc = "store"
    BY <1>7 DEF Issues, Stores
  <2>2. TableRows(tb) \subseteq GoesBy(q)
    BY <1>6, <2>1
  <2>3. s.behind \cap TableRows(tb) = {} /\ H \cap TableRows(tb) = {}
    BY <1>1, <2>2
  <2>4. y \in Row
    BY TablesAre, RowNames
  <2>5. db[y] # NoRow /\ db[y].open
    BY <1>8, <2>3, <2>4
  <2> QED BY <1>5, <2>1, <2>3, <2>5 DEF ReqOK, ClosesOthers, s
<1>13. ClaimOK(q)'
  <2> SUFFICES ASSUME NEW c \in GoesByCode(s)
               PROVE  /\ db'[c] # NoRow
                      /\ c \notin t.behind => db'[c].open
                      /\ t.pc \in {"revoke", "store"} => Closes(q, c)'
    BY <1>7 DEF ClaimOK, t
  <2>1. db[c] # NoRow /\ (c \notin s.behind => db[c].open)
        /\ (s.pc \in {"revoke", "store"} => Closes(q, c))
    BY <1>5 DEF ReqOK, ClaimOK, s
  <2>2. c \in CodeRows /\ c \in Row
    <3>1. s.kind = "reset" => s.row \in CodeRows
      BY <1>1, TablesAre DEF LocalOK, CodeTables
    <3> QED BY <3>1, RowNames DEF GoesByCode
  <2>3. c = s.row /\ s.pc # "idle"
    <3>1. CASE c = s.claims
      <4>1. c # NoRow
        BY <2>2, RowNames
      <4>2. Claims(s) /\ (c = s.row \/ (c = s.guess /\ IsRecovery(s.user, s.guess)))
        BY <1>1, <3>1, <4>1 DEF LocalOK
      <4>3. ~ IsRecovery(s.user, c)
        BY <2>2, TablesAre DEF IsRecovery, CodeTables
      <4> QED BY <4>2, <4>3 DEF Claims
    <3>2. CASE s.kind = "reset" /\ s.pc \in {"apply", "consume", "revoke"} /\ c = s.row
      BY <3>2
    <3> QED BY <3>1, <3>2 DEF GoesByCode
  <2>4. c \in GoesBy(q)
    BY <1>6, <2>2, <2>3, RowNames
  <2>5. db'[c] # NoRow
    BY <1>4, <2>1, <2>2
  <2>6. c \notin t.behind => db'[c].open
    BY <1>8, <1>9, <2>1, <2>2, <2>4
  <2>7. ASSUME t.pc \in {"revoke", "store"} PROVE Closes(q, c)'
    <3>1. Closes(q, c)
      BY <1>1, <2>1, <2>7
    <3>2. ~ db[c].open => ~ db'[c].open
      <4>1. CodeOK(r, c)
        BY <1>5, <2>2 DEF ReqOK
      <4>2. CASE c \in H
        <5>1. db'[c] = held[r][c]
          BY <1>3, <2>2, <4>2
        <5> QED BY <2>1, <4>1, <4>2, <5>1 DEF CodeOK, H
      <4> QED BY <1>8, <2>2, <4>2
    <3> QED BY <1>2, <3>1, <3>2 DEF Closes
  <2> QED BY <2>5, <2>6, <2>7
<1>14. EndsAll(q)'
  <2> SUFFICES ASSUME Stores(s), s.kind = "reset", NEW x \in SessionRows, db'[x] # NoRow, db'[x].live
               PROVE  x \in Writes(q) \cup t.behind
    BY <1>1, <1>2, <1>7 DEF EndsAll, t
  <2>1. x \in Row /\ x \in GoesBy(q)
    BY <1>6, RowNames DEF Stores
  <2>2. CASE x \in H
    BY <1>9, <2>1, <2>2
  <2>3. CASE x \notin H
    BY <1>1, <1>5, <1>8, <2>1, <2>3 DEF ReqOK, EndsAll, s
  <2> QED BY <2>2, <2>3
<1>15. \A x \in CodeRows : CodeOK(q, x)'
  <2> SUFFICES ASSUME NEW x \in CodeRows PROVE CodeOK(q, x)'
    OBVIOUS
  <2>1. CodeOK(q, x) /\ x \in Row /\ x # Account
    BY <1>5, RowNames DEF ReqOK
  <2>2. x \in Writes(q) => x \in GoesBy(q) /\ (db[x] = NoRow <=> db'[x] = NoRow)
    <3>1. ASSUME x \in Writes(q) PROVE x \in GoesBy(q)
      <4>1. x \in Scope(s)
        BY <3>1 DEF IInv, ScopeOK, s
      <4>2. /\ x \in {Account} \cup ({s.row} \ {NoRow})
                    \cup (IF s.pc = "store" THEN TableRows(Table(s.kind)) ELSE {})
                    \cup SessionRows
            /\ s.pc # "idle"
        BY <1>1, <4>1, ScopesAreRows DEF TableRows
      <4> QED BY <1>6, <4>2, TablesAre
    <3> QED BY <1>10, <2>1, <3>1
  <2>3. x \in DOMAIN held[q] => db'[x] = db[x]
    BY <1>2, <1>8, <2>1
  <2>4. x \in DOMAIN want[q] /\ x \notin t.behind => Sees(q)'[x] = Sees(q)[x] /\ x \notin s.behind
    BY <1>2, <1>8, <1>9, <2>1, <2>2 DEF Sees, Writes
  <2>5. s.behind \subseteq t.behind
    BY <1>1
  <2>6. x \in DOMAIN want[q] =>
         LET c == want[q][x] IN
         /\ c.was = NoRow <=> db'[x] = NoRow
         /\ c.was = NoRow => x \notin DOMAIN held[q] /\ Issues(t, x[1]) /\ c.new.open /\ c.new.attempts = 0
         /\ c.was # NoRow =>
              /\ c.new.open => c.was.open
              /\ x \notin t.behind => c.was = Sees(q)'[x]
              /\ ~ Guesses(t) => c.new.attempts = c.was.attempts
              /\ Issues(t, x[1]) => ~ c.new.open
    <3>1. x \in DOMAIN want[q] => x \in Writes(q)
      BY DEF Writes
    <3> QED BY <1>7, <2>1, <2>2, <2>4, <3>1 DEF CodeOK, s
  <2>7. x \in DOMAIN held[q] =>
         LET h == held[q][x] IN
         /\ db'[x] = NoRow => Issues(t, x[1]) /\ h.open /\ h.attempts = 0
         /\ db'[x] # NoRow =>
              /\ h.open => db'[x].open
              /\ ~ Guesses(t) => h.attempts = db'[x].attempts
              /\ Issues(t, x[1]) => ~ h.open \/ x \in t.behind
    BY <1>7, <2>1, <2>3, <2>5 DEF CodeOK, s
  <2> QED BY <1>2, <2>6, <2>7 DEF CodeOK, t
<1>16. \A x \in SessionRows : TokenOK(q, x)'
  <2> SUFFICES ASSUME NEW x \in SessionRows PROVE TokenOK(q, x)'
    OBVIOUS
  <2>1. TokenOK(q, x) /\ x \in Row /\ x # Account
    BY <1>5, RowNames DEF ReqOK
  <2>2. x \in DOMAIN want[q] => (db[x] = NoRow <=> db'[x] = NoRow)
    BY <1>10, <2>1 DEF Writes
  <2>3. x \in DOMAIN held[q] => db'[x] = db[x]
    BY <1>2, <1>8, <2>1
  <2> QED BY <1>1, <1>2, <2>1, <2>2, <2>3 DEF TokenOK, s, t
<1> QED BY <1>11, <1>12, <1>13, <1>14, <1>15, <1>16 DEF ReqOK

LEMMA CommitStep ==
    ASSUME IInv, NEW r \in Req, Commit(r)
    PROVE  IInv'
<1>1. Shapes' /\ ScopeOK' /\ LocksExclude' /\ NewRowsOK'
  BY CommitShapes
<1>2. Room' /\ Known'
  BY CommitRoom, CommitKnown
<1>3. CodesOK' /\ AcceptedOK' /\ OneTime' /\ AuthenticatorIsProven'
  BY CommitCodes, CommitAccepted, CommitProven
<1>4. OneOpenCode' /\ ResetEndsSessions'
  BY CommitOpen, CommitSessions
<1>5. \A x \in CodeRows : Counted(x)'
  BY CommitCounted
<1>6. \A q \in Req : ReqOK(q)'
  <2>1. ReqOK(r)'
    BY CommitOwn
  <2>2. \A q \in Req \ {r} : ReqOK(q)'
    BY CommitOthers
  <2> QED BY <2>1, <2>2
<1> QED BY <1>1, <1>2, <1>3, <1>4, <1>5, <1>6 DEF IInv

-----------------------------------------------------------------------------
(* The invariant.                                                          *)

LEMMA Starts0 == Init => IInv
<1> SUFFICES ASSUME Init PROVE IInv
  OBVIOUS
<1> DEFINE u == scene.user
<1>1. /\ scene \in Scenes /\ DOMAIN db = Row /\ DOMAIN want = Req /\ DOMAIN held = Req /\ DOMAIN at = Req
      /\ db[Account] = u /\ \A x \in Row : x # Account => db[x] = NoRow
      /\ \A r \in Req : at[r] = Idle /\ DOMAIN want[r] = {} /\ DOMAIN held[r] = {} /\ Writes(r) = {}
      /\ accepted = {} /\ replayed = {} /\ raced = {} /\ proven = 1..generation
      /\ looked \in [CodeRows -> Nat] /\ \A x \in CodeRows : looked[x] = 0
      /\ generation = IF u # NoRow /\ u.secret # 0 THEN 1 ELSE 0
  BY RowNames DEF Init, Nothing, Writes
<1>2. /\ u # NoRow => /\ u \in User /\ u.secret \in {0, 1}
                      /\ u.secret = 0 => u.codes = NoRow
                      /\ u.codes # NoRow => \A k \in u.codes : k \in Codes(1)
  BY <1>1, SceneAssumption
<1> HIDE DEF u
<1>3. MaxRow \in Nat
  BY BoundAssumption
<1>4. generation \in 0..MaxRow /\ proven \subseteq Key
  <2>1. u # NoRow /\ u.secret # 0 => 1 \in Key
    BY <1>2 DEF User
  <2> QED BY <1>1, <1>3, <2>1 DEF Key
<1>5. Shapes
  <2>1. LimiterInv /\ LimiterTypeOK
    BY LimiterStarts, LimitAssumption DEF Init, LimiterInit, LimiterTypeOK
  <2>2. \A x \in Row : db[x] \in RowType(x) \cup {NoRow}
    BY <1>1, <1>2, RowTypes
  <2>3. \A r \in Req : LocalOK(at[r])
    BY <1>1, IdleIs
  <2> QED BY <1>1, <1>4, <2>1, <2>2, <2>3 DEF Shapes
<1>6. ScopeOK /\ LocksExclude /\ NewRowsOK /\ Known
  BY <1>1, IdleIs, RowNames DEF ScopeOK, LocksExclude, NewRowsOK, Known
<1>7. Room
  <2> SUFFICES ASSUME NEW t \in AllTables PROVE Cardinality(Used(t)) + Cardinality(Busy) <= MaxRow
    BY DEF Room
  <2>1. Busy = {}
    BY <1>1, IdleIs DEF Busy
  <2>2. \A k \in Key : <<t, k>> \in Row /\ <<t, k>> # Account
    BY RowNames, TablesAre DEF AllTables, CodeTables, Account
  <2>3. Used(t) = {}
    BY <1>1, <2>2 DEF Used
  <2> QED BY <1>3, <2>1, <2>3, FS_EmptySet
<1>8. u # NoRow /\ u.codes # NoRow => generation = 1 /\ proven = {1} /\ u.secret = 1 /\ \A k \in u.codes : k[1] = 1
  <2>1. \A k \in Codes(1) : k[1] = 1
    BY DEF Codes
  <2> QED BY <1>1, <1>2, <2>1
<1>9. CodesOK
  <2>1. ~ \E r \in Req, g \in Key : Makes(r, g)
    BY <1>1, IdleIs DEF Makes, Stores
  <2>2. u # NoRow => CodesBound(u, generation)
    BY <1>8 DEF CodesBound
  <2> QED BY <1>1, <2>1, <2>2 DEF CodesOK
<1>10. AcceptedOK /\ OneTime /\ OneOpenCode /\ AuthenticatorIsProven /\ ResetEndsSessions
  <2>1. AcceptedOK /\ OneTime
    BY <1>1 DEF AcceptedOK, OneTime
  <2>2. OneOpenCode
    BY <1>1, RowNames DEF OneOpenCode
  <2>3. AuthenticatorIsProven
    BY <1>1, <1>8 DEF AuthenticatorIsProven
  <2>4. ResetEndsSessions
    BY <1>1, RowNames DEF ResetEndsSessions, SessionRows
  <2> QED BY <2>1, <2>2, <2>3, <2>4
<1>11. \A x \in CodeRows : Counted(x)
  BY <1>1, RowNames DEF Counted
<1>12. \A r \in Req : ReqOK(r)
  <2> SUFFICES ASSUME NEW r \in Req PROVE ReqOK(r)
    OBVIOUS
  <2>1. GoesByCode(Idle) = {} /\ ~ GoesByUser(Idle)
    BY IdleIs, RowNames DEF GoesByCode, GoesByUser
  <2>2. AccountOK(r) /\ ClaimOK(r) /\ EndsAll(r) /\ ClosesOthers(r)
    BY <1>1, <2>1, IdleIs DEF AccountOK, ClaimOK, EndsAll, Stores, ClosesOthers
  <2> QED BY <1>1, <2>2 DEF ReqOK, CodeOK, TokenOK
<1> QED BY <1>5, <1>6, <1>7, <1>9, <1>10, <1>11, <1>12 DEF IInv

LEMMA BeginStep ==
    ASSUME IInv, NEW r \in Req, Begin(r)
    PROVE  IInv'
<1>1. scene.guesses \subseteq Guess
  BY SceneAssumption DEF IInv, Shapes
<1>2. CASE \E p \in Password : Register(r, p) \/ Login(r, p)
  BY <1>2, RegisterStep, LoginStep
<1>3. CASE Callback(r)
  BY <1>3, OAuthStep DEF Callback
<1>4. CASE Resend(r) \/ Forgot(r) \/ AskDelete(r)
  BY <1>4, AsksStep
<1>5. CASE TurnedAway(r) \/ TurnedDown(r)
  BY <1>5, LimiterSteps
<1>6. CASE Enroll(r)
  BY <1>6, EnrollStep
<1>7. CASE Activate(r) \/ Regenerate(r)
  BY <1>7, CodesStep
<1>8. CASE \E g \in scene.guesses : Verify(r, g) \/ Delete(r, g)
  BY <1>1, <1>8, GuessStep
<1>9. CASE SetMfa(r, "disable", FALSE) \/ SetMfa(r, "enable", TRUE)
  BY <1>9, SetMfaStep
<1>10. CASE \E k \in Key, p \in Password : Reset(r, <<"reset", k>>, p)
  BY <1>10, ResetStep
<1> QED BY <1>2, <1>3, <1>4, <1>5, <1>6, <1>7, <1>8, <1>9, <1>10 DEF Begin

LEMMA AdvanceStep ==
    ASSUME IInv, NEW r \in Req, Advance(r)
    PROVE  IInv'
<1>1. CASE Clean(r) /\ Work(r)
  <2>1. want[r] = Nothing
    BY <1>1 DEF Clean
  <2>2. CASE Close(r) \/ Consume(r)
    BY <2>1, <2>2, CloseStep
  <2>3. CASE CompareLogin(r) \/ CompareDeletion(r)
    BY <2>1, <2>3, CompareStep
  <2>4. CASE CheckTotp(r) \/ CheckFails(r)
    BY <2>4, ChecksStep
  <2> QED BY <1>1, <2>1, <2>2, <2>3, <2>4, RefreshStep, IssueCodeStep, RecoveryStep, IssueTokenStep,
             ApplyStep, RevokeStep, CommitStep DEF Work
<1>2. CASE Send(r) \/ Fail(r)
  BY <1>2, SendStep, FailStep
<1> QED BY <1>1, <1>2 DEF Advance

LEMMA Keeps == IInv /\ [Next]_vars => IInv'
<1> SUFFICES ASSUME IInv, [Next]_vars PROVE IInv'
  OBVIOUS
<1>1. CASE UNCHANGED vars
  <2>1. UNCHANGED <<session, scene, generation, at, observers>> /\ UNCHANGED limiter
    BY <1>1 DEF vars
  <2> QED BY <2>1, LimiterStep, LimiterSame
<1>2. CASE Time
  <2>1. UNCHANGED <<session, scene, generation, at, observers>> /\ Tick
    BY <1>2 DEF Time
  <2> QED BY <2>1, LimiterStep, LimiterMoves
<1>3. CASE \E r \in Req : Begin(r) \/ Advance(r)
  BY <1>3, BeginStep, AdvanceStep
<1> QED BY <1>1, <1>2, <1>3 DEF Next

LEMMA Invariant == Spec => []IInv
BY Starts0, Keeps, PTL DEF Spec

-----------------------------------------------------------------------------
(* The theorems.                                                           *)

\* auth/service.py, account/service.py: however requests interleave, an emailed code or a
\* reset link is not accepted by a request that reads it after it was accepted, and a
\* recovery code only when requests that overtook each other wrote the list of codes.
THEOREM CodesAreOneTime == Spec => []OneTime
<1>1. IInv => OneTime
  BY DEF IInv
<1> QED BY <1>1, Invariant, PTL

\* issue_login_mfa_challenge, request_password_reset, request_deletion: requests that do
\* not overlap leave at most one code of a table open.
THEOREM OneIsOpen == Spec => []OneOpenCode
<1>1. IInv => OneOpenCode
  BY DEF IInv
<1> QED BY <1>1, Invariant, PTL

\* verify_email_login_otp, confirm_deletion: a counter is the number of guesses that were
\* compared with its code, unless guesses overtook each other.
THEOREM GuessesCount == Spec => []GuessesAreCounted
<1>1. IInv => GuessesAreCounted
  <2> SUFFICES ASSUME IInv, NEW x \in CodeRows, db[x] # NoRow, x \notin raced,
                      \A r \in Req : at[r].row # x
               PROVE  looked[x] = db[x].attempts
    BY DEF GuessesAreCounted
  <2>1. InFlight(x) = {}
    <3> SUFFICES ASSUME NEW r \in InFlight(x) PROVE FALSE
      OBVIOUS
    <3>1. r \in Req /\ Guesses(at[r]) /\ x \in Writes(r)
      BY DEF InFlight
    <3>2. x \in Scope(at[r]) /\ LocalOK(at[r])
      BY <3>1 DEF IInv, Shapes, ScopeOK
    <3>3. x = at[r].row
      BY <3>1, <3>2, ScopesAreRows
    <3> QED BY <3>1, <3>3
  <2> QED BY <2>1 DEF IInv, Counted
<1> QED BY <1>1, Invariant, PTL

\* enroll_totp, verify_totp_enrollment: recovery codes stand beside a secret that an
\* authenticator has proven to hold, unless changes of the account overtook each other.
THEOREM SecretIsProven == Spec => []AuthenticatorIsProven
<1>1. IInv => AuthenticatorIsProven
  BY DEF IInv
<1> QED BY <1>1, Invariant, PTL

\* confirm_password_reset: no session that an old password opened outlives the reset, unless
\* the reset was stored while the login was on its way.
THEOREM ResetEnds == Spec => []ResetEndsSessions
<1>1. IInv => ResetEndsSessions
  BY DEF IInv
<1> QED BY <1>1, Invariant, PTL

\* register, _oauth_upsert_and_issue: neither changes the password of an account that is
\* there, nor a link it has loaded.
THEOREM AccountIsKept == Spec => AccountStands
<1> DEFINE Stands(r) ==
             at[r].kind \in {"register", "oauth"} /\ Commit(r) /\ db[Account] # NoRow =>
               /\ db'[Account].password = db[Account].password
               /\ db[Account].provider # NoRow /\ Account \notin at[r].behind =>
                    db'[Account].provider = db[Account].provider
<1>1. ASSUME IInv, NEW r \in Req PROVE Stands(r)
  <2> SUFFICES ASSUME at[r].kind \in {"register", "oauth"}, Commit(r), db[Account] # NoRow
               PROVE  /\ db'[Account].password = db[Account].password
                      /\ db[Account].provider # NoRow /\ Account \notin at[r].behind =>
                           db'[Account].provider = db[Account].provider
    OBVIOUS
  <2>1. db'[Account].password = db[Account].password
    BY <1>1, CommitPassword
  <2>2. \A y \in Row : db'[y] = IF y \in DOMAIN held[r] THEN held[r][y] ELSE db[y]
    BY <1>1, CommitIs
  <2>3. Account \in Row
    BY RowNames
  <2>4. ASSUME db[Account].provider # NoRow, Account \notin at[r].behind, Account \in DOMAIN held[r]
        PROVE  held[r][Account].provider = db[Account].provider
    <3>1. Account \in Scope(at[r]) /\ AccountOK(r)
      BY <1>1, <2>4, CommitIs DEF IInv, ReqOK
    <3>2. at[r].user = db[Account]
      BY <2>4, <3>1 DEF AccountOK, GoesByUser
    <3>3. PICK v \in User :
            /\ Intends(at[r], v, generation, proven)
            /\ at[r].user = NoRow \/ at[r].user = db[Account] => held[r][Account] = v
      BY <1>1, <2>4, HeldUser
    <3> QED BY <2>4, <3>2, <3>3 DEF Intends
  <2> QED BY <2>1, <2>2, <2>3, <2>4
<1>2. IInv /\ [Next]_vars => [\A r \in Req : Stands(r)]_vars
  BY <1>1
<1>3. [][\A r \in Req : Stands(r)]_vars => AccountStands
  BY PTL DEF AccountStands
<1> QED BY <1>2, <1>3, Invariant, PTL DEF Spec

-----------------------------------------------------------------------------
(* Types.                                                                  *)

\* The rows and the requests are functions.
Functional == at = [r \in Req |-> at[r]] /\ db = [x \in Row |-> db[x]]

\* One request moves, or it stores and the others take note.
LEMMA Moves ==
    ASSUME [Next]_vars
    PROVE  /\ \/ at' = at
              \/ \E r \in Req : \E new : at' = [at EXCEPT ![r] = new]
              \/ at' = [q \in Req |-> at'[q]]
           /\ db' = db \/ \E r \in Req : db' = Sees(r)
<1> USE DEF Go, Pend, session
<1> DEFINE Moved == /\ \/ at' = at
                       \/ \E r \in Req : \E new : at' = [at EXCEPT ![r] = new]
                    /\ db' = db
<1>1. CASE UNCHANGED vars
  BY <1>1 DEF vars
<1>2. CASE Time
  BY <1>2 DEF Time
<1>3. ASSUME NEW r \in Req, Begin(r)
      PROVE  Moved
  <2>1. ASSUME NEW p, Register(r, p) \/ Login(r, p) PROVE Moved
    BY <2>1 DEF Register, Login, Change1
  <2>2. CASE Callback(r)
    BY <2>2 DEF Callback, OAuth
  <2>3. CASE Resend(r) \/ TurnedAway(r) \/ TurnedDown(r)
    BY <2>3 DEF Resend, TurnedAway, TurnedDown, vars
  <2>4. CASE Enroll(r) \/ Activate(r) \/ Regenerate(r)
    BY <2>4 DEF Enroll, Activate, Regenerate
  <2>5. ASSUME NEW g, Verify(r, g) \/ Delete(r, g) PROVE Moved
    BY <2>5 DEF Verify, Delete
  <2>6. ASSUME NEW kind, NEW on, SetMfa(r, kind, on) PROVE Moved
    BY <2>6 DEF SetMfa, Change1
  <2>7. CASE Forgot(r) \/ AskDelete(r)
    BY <2>7 DEF Forgot, AskDelete
  <2>8. ASSUME NEW x, NEW p, Reset(r, x, p) PROVE Moved
    BY <2>8 DEF Reset
  <2> QED BY <1>3, <2>1, <2>2, <2>3, <2>4, <2>5, <2>6, <2>7, <2>8 DEF Begin
<1>4. ASSUME NEW r \in Req, Advance(r), ~ Commit(r)
      PROVE  Moved
  <2>1. CASE Refresh(r) \/ IssueCode(r) \/ Close(r) \/ IssueToken(r)
    BY <2>1 DEF Refresh, IssueCode, Close, IssueToken
  <2>2. CASE CompareLogin(r) \/ CompareDeletion(r)
    BY <2>2 DEF CompareLogin, CompareDeletion, Attempt
  <2>3. CASE CheckTotp(r) \/ CheckRecovery(r) \/ CheckFails(r)
    BY <2>3 DEF CheckTotp, CheckRecovery, CheckFails
  <2>4. CASE Apply(r) \/ Consume(r) \/ Revoke(r)
    BY <2>4 DEF Apply, Consume, Revoke
  <2>5. CASE Send(r) \/ Fail(r)
    BY <2>5 DEF Send, Fail, Flush, FlushFails, DeadlockVictim, Rollback
  <2> QED BY <1>4, <2>1, <2>2, <2>3, <2>4, <2>5 DEF Advance, Work
<1>5. ASSUME NEW r \in Req, Commit(r)
      PROVE  at' = [q \in Req |-> at'[q]] /\ db' = Sees(r)
  BY <1>5 DEF Commit, Store
<1> QED BY <1>1, <1>2, <1>3, <1>4, <1>5 DEF Next

\* A request is always at a point of its handler that the code has, rows have the columns of
\* their tables, and the counters are within their limits.
THEOREM TypesAreKept == Spec => []TypeOK
<1>1. Init => Functional
  BY DEF Init, Functional
<1>2. Functional /\ [Next]_vars => Functional'
  <2> SUFFICES ASSUME Functional, [Next]_vars PROVE Functional'
    OBVIOUS
  <2>1. db' = [x \in Row |-> db'[x]]
    BY Moves DEF Functional, Sees
  <2>2. at' = [r \in Req |-> at'[r]]
    BY Moves DEF Functional
  <2> QED BY <2>1, <2>2 DEF Functional
<1>3. IInv /\ Functional => TypeOK
  <2> SUFFICES ASSUME IInv, Functional PROVE TypeOK
    OBVIOUS
  <2>1. db \in [Row -> Value]
    <3>1. \A x \in Row : db[x] \in Value
      BY RowTypes DEF IInv, Shapes, Value
    <3> QED BY <3>1 DEF Functional
  <2>2. at \in [Req -> Local]
    <3>1. \A r \in Req : at[r] \in Local
      BY DEF IInv, Shapes, LocalOK
    <3> QED BY <3>1 DEF Functional
  <2>3. \A r \in Req : DOMAIN held[r] \subseteq Row /\ DOMAIN want[r] \subseteq Row
    BY Writers DEF Writes
  <2>4. \A r \in Req : \A x \in DOMAIN held[r] : held[r][x] \in Value
    BY RowTypes DEF IInv, Shapes
  <2>5. \A r \in Req : \A x \in DOMAIN want[r] : want[r][x] \in [was : Value, new : Value]
    <3> SUFFICES ASSUME NEW r \in Req, NEW x \in DOMAIN want[r]
                 PROVE  want[r][x] \in [was : Value, new : Value]
      OBVIOUS
    <3>1. want[r][x] \in [was : RowType(x) \cup {NoRow}, new : RowType(x)]
      BY DEF IInv, Shapes
    <3>2. RowType(x) \subseteq Value /\ NoRow \in Value
      BY RowTypes DEF Value
    <3> QED BY <3>1, <3>2
  <2> QED BY <2>1, <2>2, <2>3, <2>4, <2>5 DEF TypeOK, IInv, Shapes
<1> QED BY <1>1, <1>2, <1>3, Invariant, PTL DEF Spec

=============================================================================
