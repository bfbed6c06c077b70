------------------------------ MODULE SignIn ------------------------------
(***************************************************************************)
(* One person's way in: registration, OAuth, password, emailed one-time    *)
(* codes, authenticator and recovery codes, password reset, the codes that *)
(* confirm a deletion.  All of it by concurrent requests.                  *)
(*                                                                         *)
(* Sources: backend/app/auth/{router,service,password_reset,models}.py and *)
(* backend/app/account/service.py.                                         *)
(*                                                                         *)
(* What a code or a token is, how it is hashed and mailed, is left out: a  *)
(* code is named by the row or the generation it belongs to.               *)
(***************************************************************************)
EXTENDS Tables, RateLimit

CONSTANTS
    Password, Provider,
    MaxRow,        \* bound on the rows of each table, and on the secrets and code sets made
    MaxAttempts,   \* EMAIL_OTP_MAX_ATTEMPTS, OTP_CONFIRM_MAX_ATTEMPTS
    MaxRequests,   \* REQUEST_MAX_PER_EMAIL
    Ttl,           \* how long a code is good for
    Scenes         \* what a behaviour is about: requests, and the account at its start

VARIABLES
    scene,
    generation,    \* authenticator secrets and sets of recovery codes made so far
    at,            \* at[r]: where request r is, and its local variables
    looked,        \* observer: looked[x] guesses were compared with the code of row x
    accepted,      \* observer: codes that were accepted
    replayed,      \* observer: those accepted again by a request that was not overtaken
    proven,        \* observer: secrets an authenticator was activated with
    raced          \* observer: rows stored by a request that was overtaken

observers == <<looked, accepted, replayed, proven, raced>>
vars == <<session, limiter, scene, generation, at, observers>>

-----------------------------------------------------------------------------
(* Rows.                                                                   *)

Key == 1..MaxRow
Account == <<"user">>
CodeRows == {"login", "deletion", "reset"} \X Key
Rows == {Account} \cup CodeRows \cup ({"session"} \X Key)
ASSUME RowAssumption == Row = Rows

Recovery == Key \X {1, 2}
Guess == CodeRows \cup {<<"wrong">>} \cup ({"totp"} \X Key) \cup ({"recovery"} \X Recovery)

User == [password : Password \cup {NoRow}, mfa : BOOLEAN, secret : {0} \cup Key,
         codes : (SUBSET Recovery) \cup {NoRow}, provider : Provider \cup {NoRow}]
Code == [open : BOOLEAN, attempts : 0..MaxAttempts, born : 0..MaxTime]
Token == [live : BOOLEAN, by : Password \cup {NoRow}]
Value == User \cup Code \cup Token \cup {NoRow}

Fresh  == [open |-> TRUE, attempts |-> 0, born |-> now]
Expired(row) == row.born + Ttl < now

\* The recovery codes of one generation, shown once.
Codes(g) == {g} \X {1, 2}
AuthenticatorEnabled(u) == u.secret # 0 /\ u.codes # NoRow

ASSUME BoundAssumption ==
    IsFiniteSet(Req) /\ {MaxRow, MaxAttempts, MaxRequests, Ttl} \subseteq Nat
ASSUME NoRowAssumption ==
    /\ NoRow \notin User /\ NoRow \notin Code /\ NoRow \notin Token /\ NoRow \notin Guess
    /\ NoRow \notin Password /\ NoRow \notin Provider
    /\ \A C \in SUBSET Recovery : C # NoRow
\* Whatever an account has at the start comes of the first authenticator made.
ASSUME SceneAssumption ==
    \A s \in Scenes : /\ s.guesses \subseteq Guess
                      /\ s.user # NoRow =>
                           /\ s.user \in User /\ s.user.secret \in {0, 1}
                           /\ s.user.secret = 0 => s.user.codes = NoRow
                           /\ s.user.codes # NoRow => s.user.codes \subseteq Codes(1)

Taken(table) ==
    {k \in Key : \/ db[<<table, k>>] # NoRow
                 \/ \E q \in Req : <<table, k>> \in DOMAIN want[q] \cup DOMAIN held[q]}

\* A new row of a table: the rows are numbered by created_at.
NewRow(table) == <<table, CHOOSE k \in Key \ Taken(table) : \A j \in Key \ Taken(table) : k <= j>>

Kind == {"register", "oauth", "login", "resend", "verify", "enroll", "activate", "regenerate",
         "disable", "enable", "forgot", "reset", "askdelete", "delete"}

\* user: the account as loaded; row: the code row read; guess, password: the input; then:
\* where the next commit leads; claims: the code it accepts; behind (observer): rows
\* others stored after it read them.
Local == [pc : {"idle", "refresh", "issue", "guess", "check", "close", "apply", "consume", "revoke", "token",
                "store"},
          kind : Kind, user : User \cup {NoRow}, row : CodeRows \cup {NoRow},
          guess : Guess \cup {NoRow}, password : Password \cup {NoRow},
          then : {"idle", "refresh", "check", "close", "token"},
          claims : Guess \cup {NoRow}, behind : SUBSET Row]
Idle == [pc |-> "idle", kind |-> "login", user |-> NoRow, row |-> NoRow, guess |-> NoRow,
         password |-> NoRow, then |-> "idle", claims |-> NoRow, behind |-> {}]

TypeOK ==
    /\ LimiterTypeOK
    /\ db \in [Row -> Value]
    /\ \A r \in Req : /\ DOMAIN held[r] \subseteq Row
                      /\ \A x \in DOMAIN held[r] : held[r][x] \in Value
                      /\ DOMAIN want[r] \subseteq Row
                      /\ \A x \in DOMAIN want[r] : want[r][x] \in [was : Value, new : Value]
    /\ generation \in 0..MaxRow
    /\ at \in [Req -> Local]
    /\ looked \in [CodeRows -> Nat]
    /\ accepted \subseteq Guess /\ replayed \subseteq accepted
    /\ proven \subseteq Key /\ raced \subseteq Row

Init ==
    /\ LimiterInit
    /\ scene \in Scenes
    /\ db = [x \in Row |-> IF x = Account THEN scene.user ELSE NoRow]
    /\ want = [r \in Req |-> Nothing]
    /\ held = [r \in Req |-> Nothing]
    /\ generation = IF scene.user # NoRow /\ scene.user.secret # 0 THEN 1 ELSE 0
    /\ at = [r \in Req |-> Idle]
    /\ looked = [x \in CodeRows |-> 0]
    /\ accepted = {} /\ replayed = {}
    /\ proven = 1..generation
    /\ raced = {}

-----------------------------------------------------------------------------
(* Steps.                                                                  *)

Busy == {q \in Req : at[q].pc # "idle"}

\* Requests of a signed-in person (get_current_user).
SignedIn == {"enroll", "activate", "regenerate", "disable", "enable", "askdelete", "delete"}

\* Within the bound, every request finds the ids it needs.
Starts(r, kind) ==
    /\ at[r].pc = "idle" /\ kind \in scene.kinds
    /\ kind \in SignedIn => db[Account] # NoRow
    /\ \A table \in {"login", "deletion", "reset", "session"} :
         Cardinality({k \in Key : db[<<table, k>>] # NoRow}) + Cardinality(Busy) < MaxRow

Go(r, new) == at' = [at EXCEPT ![r] = new] /\ UNCHANGED <<limiter, scene, generation, observers>>

\* A handler that changes the account it has loaded and commits.
Change1(r, kind, new) ==
    /\ Pend(r, Becomes(Account, db[Account], new))
    /\ Go(r, [Idle EXCEPT !.pc = "store", !.kind = kind, !.user = db[Account]])

\* The table whose open codes a request consumes to make one.
Table(kind) == CASE kind = "forgot" -> "reset" [] kind = "askdelete" -> "deletion" [] OTHER -> "login"

\* The rows a request has read and still goes by.
GoesBy(r) ==
    LET s == at[r] IN
    IF s.pc = "idle" THEN {}
    ELSE {Account} \cup ({s.row} \ {NoRow})
         \cup (IF s.pc = "store" THEN {Table(s.kind)} \X Key ELSE {})
         \cup (IF s.pc = "store" /\ s.kind = "reset" THEN {"session"} \X Key ELSE {})

-----------------------------------------------------------------------------
(* Registration and OAuth.                                                 *)

NewUser(p, provider) == [password |-> p, mfa |-> TRUE, secret |-> 0, codes |-> NoRow,
                         provider |-> provider]

\* register: the address is looked up, then the account inserted.
Register(r, p) ==
    /\ Starts(r, "register")
    /\ db[Account] = NoRow
    /\ Change1(r, "register", NewUser(p, NoRow))

\* Mutant: a sign-in takes the link over.
OAuthRelinks(r, p, intent) ==
    LET u == db[Account] IN
    /\ Starts(r, "oauth")
    /\ intent = "signup" => u = NoRow
    /\ Pend(r, Becomes(Account, u,
                 IF u = NoRow THEN NewUser(NoRow, p) ELSE [u EXCEPT !.provider = p]))
    /\ Go(r, [Idle EXCEPT !.pc = "store", !.kind = "oauth", !.then = "refresh", !.user = u])

\* _oauth_upsert_and_issue, after the provider has named the address.
OAuth(r, p, intent) ==
    LET u == db[Account] IN
    /\ Starts(r, "oauth")
    /\ intent = "signup" => u = NoRow
    /\ Pend(r, Becomes(Account, u,
                 IF u = NoRow THEN NewUser(NoRow, p)
                 ELSE [u EXCEPT !.provider = IF @ = NoRow THEN p ELSE @]))
    /\ Go(r, [Idle EXCEPT !.pc = "store", !.kind = "oauth", !.then = "refresh", !.user = u])

\* oauth_provider_callback: whoever the provider names, to sign in or to sign up.
Callback(r) == \E p \in Provider, intent \in {"login", "signup"} : OAuth(r, p, intent)

\* The account is refreshed after the commit: a code is asked for, or not.
Refresh(r) ==
    /\ at[r].pc = "refresh"
    /\ Go(r, [at[r] EXCEPT !.user = db[Account],
                           !.pc = IF db[Account].mfa THEN "issue" ELSE "token"])
    /\ UNCHANGED session

-----------------------------------------------------------------------------
(* Sign-in by password, and the emailed code.                              *)

\* login: the right password; a wrong one changes nothing.
Login(r, p) ==
    LET u == db[Account] IN
    /\ Starts(r, "login")
    /\ u # NoRow /\ u.password = p
    /\ Go(r, [Idle EXCEPT !.pc = IF u.mfa THEN "issue" ELSE "token",
                          !.kind = "login", !.user = u, !.password = p])
    /\ UNCHANGED session

\* The token of a login that waits for its second factor is good as long as the code.
Pending == \E k \in Key : db[<<"login", k>>] # NoRow /\ ~ Expired(db[<<"login", k>>])

Resend(r) ==
    /\ Starts(r, "resend")
    /\ Pending /\ db[Account].mfa
    /\ Go(r, [Idle EXCEPT !.pc = "issue", !.kind = "resend"])
    /\ UNCHANGED session

\* Mutant: the open codes are left open.
IssueBeside(r) ==
    LET new == NewRow(Table(at[r].kind)) IN
    /\ at[r].pc = "issue"
    /\ Pend(r, Becomes(new, NoRow, Fresh))
    /\ Go(r, [at[r] EXCEPT !.pc = "store", !.then = "idle"])

\* issue_login_mfa_challenge, the ends of request_password_reset and request_deletion: open
\* codes are consumed and a new one is made.
IssueCode(r) ==
    LET table == Table(at[r].kind)
        new   == NewRow(table)
        open  == {x \in {table} \X Key : Sees(r)[x] # NoRow /\ Sees(r)[x].open}
    IN  /\ at[r].pc = "issue"
        /\ Pend(r, Changes(open \cup {new}, Sees(r),
                     [x \in open \cup {new} |->
                        IF x = new THEN Fresh ELSE [Sees(r)[x] EXCEPT !.open = FALSE]]))
        /\ Go(r, [at[r] EXCEPT !.pc = "store", !.then = "idle"])

\* mfa_verify: the limiter first, then the account is loaded.
Verify(r, g) ==
    /\ Starts(r, "verify")
    /\ Pending
    /\ Admit
    /\ at' = [at EXCEPT ![r] = [Idle EXCEPT !.kind = "verify", !.user = db[Account], !.guess = g,
                                  !.pc = IF g[1] = "recovery" THEN "check" ELSE "guess"]]
    /\ UNCHANGED <<session, scene, generation, observers>>

TurnedAway(r) ==
    /\ Starts(r, "verify") /\ Pending
    /\ Refuse
    /\ UNCHANGED <<session, scene, generation, at, observers>>

\* Mutant: however often it was tried.
LatestUnlimited(r, table) ==
    LET open == {k \in Key : db[<<table, k>>] # NoRow /\ db[<<table, k>>].open}
        latest == {<<table, k>> : k \in {j \in open : \A i \in open : i <= j}}
    IN  {x \in latest : ~ Expired(db[x])}

\* The newest open code of a table, unless it is expired or was tried too often.
Latest(r, table) ==
    LET open == {k \in Key : db[<<table, k>>] # NoRow /\ db[<<table, k>>].open}
        latest == {<<table, k>> : k \in {j \in open : \A i \in open : i <= j}}
    IN  {x \in latest : ~ Expired(db[x]) /\ db[x].attempts < MaxAttempts}

\* verify_totp and consume_recovery_code, by the account as it was loaded.
IsTotp(u, g) == g[1] = "totp" /\ u.secret = g[2]
IsRecovery(u, g) == g[1] = "recovery" /\ u.codes # NoRow /\ g[2] \in u.codes

\* Mutant: a code that was right is not consumed.
AttemptKeepsOpen(r, x, right, new) ==
    /\ Pend(r, Becomes(x, db[x], [db[x] EXCEPT !.attempts = @ + 1]))
    /\ looked' = [looked EXCEPT ![x] = @ + 1]
    /\ at' = [at EXCEPT ![r] = new]
    /\ UNCHANGED <<limiter, scene, generation, accepted, replayed, proven, raced>>

\* Mutant: only right guesses are counted.
AttemptUncounted(r, x, right, new) ==
    /\ Pend(r, Becomes(x, db[x], [db[x] EXCEPT !.attempts = IF right THEN @ + 1 ELSE @, !.open = ~ right]))
    /\ looked' = [looked EXCEPT ![x] = @ + 1]
    /\ at' = [at EXCEPT ![r] = new]
    /\ UNCHANGED <<limiter, scene, generation, accepted, replayed, proven, raced>>

\* The attempt is counted, before the code is compared.
Attempt(r, x, right, new) ==
    /\ Pend(r, Becomes(x, db[x], [db[x] EXCEPT !.attempts = @ + 1, !.open = ~ right]))
    /\ looked' = [looked EXCEPT ![x] = @ + 1]
    /\ at' = [at EXCEPT ![r] = new]
    /\ UNCHANGED <<limiter, scene, generation, accepted, replayed, proven, raced>>

\* verify_email_login_otp, committed right or wrong; a code that is not the emailed one may
\* be the authenticator's.
CompareLogin(r) ==
    LET s == at[r]
        latest == Latest(r, "login")
    IN  /\ s.pc = "guess" /\ s.kind = "verify"
        /\ \/ latest = {} /\ Go(r, [s EXCEPT !.pc = "check"]) /\ UNCHANGED session
           \/ \E x \in latest :
                IF s.guess = x
                  THEN Attempt(r, x, TRUE, [s EXCEPT !.row = x, !.claims = x,
                                                     !.pc = "store", !.then = "token"])
                  ELSE Attempt(r, x, FALSE, [s EXCEPT !.row = x, !.pc = "store", !.then = "check"])

\* confirm_deletion: the emailed code or a second factor; the last wrong one closes the code.
CompareDeletion(r) ==
    LET s == at[r]
        latest == Latest(r, "deletion")
    IN  /\ s.pc = "guess" /\ s.kind = "delete"
        /\ \/ latest = {} /\ Go(r, Idle) /\ UNCHANGED session
           \/ \E x \in latest :
                IF s.guess = x \/ (s.user.mfa /\ (IsTotp(s.user, s.guess) \/ IsRecovery(s.user, s.guess)))
                  THEN Attempt(r, x, FALSE, [s EXCEPT !.row = x, !.pc = "close",
                                               !.claims = IF s.guess = x THEN x ELSE NoRow])
                  ELSE Attempt(r, x, FALSE, [s EXCEPT !.row = x, !.pc = "store",
                         !.then = IF db[x].attempts + 1 >= MaxAttempts THEN "close" ELSE "idle"])

\* The code is consumed; what wipe_user then does is in Households.
Close(r) ==
    LET s == at[r] IN
    /\ s.pc = "close"
    /\ Pend(r, Becomes(s.row, Sees(r)[s.row], [Sees(r)[s.row] EXCEPT !.open = FALSE]))
    /\ Go(r, [s EXCEPT !.pc = "store", !.then = "idle"])

\* verify_mfa_code.
CheckTotp(r) ==
    LET s == at[r] IN
    /\ s.pc = "check" /\ IsTotp(s.user, s.guess)
    /\ Go(r, [s EXCEPT !.pc = "token"])
    /\ UNCHANGED session

\* The list of codes is written whole, without the one used.
CheckRecovery(r) ==
    LET s == at[r] IN
    /\ s.pc = "check" /\ IsRecovery(s.user, s.guess)
    /\ Pend(r, Becomes(Account, s.user, [s.user EXCEPT !.codes = @ \ {s.guess[2]}]))
    /\ Go(r, [s EXCEPT !.pc = "store", !.then = "token", !.claims = s.guess])

CheckFails(r) ==
    LET s == at[r] IN
    /\ s.pc = "check" /\ ~ IsTotp(s.user, s.guess) /\ ~ IsRecovery(s.user, s.guess)
    /\ Go(r, Idle)
    /\ UNCHANGED session

\* issue_token_pair.
IssueToken(r) ==
    LET s == at[r] IN
    /\ s.pc = "token"
    /\ Pend(r, Becomes(NewRow("session"), NoRow, [live |-> TRUE, by |-> s.password]))
    /\ Go(r, [s EXCEPT !.pc = "store", !.then = "idle", !.claims = NoRow])

-----------------------------------------------------------------------------
(* Authenticator and settings: the account is loaded, changed and stored.  *)

Enroll(r) ==
    /\ Starts(r, "enroll")
    /\ ~ AuthenticatorEnabled(db[Account])
    /\ generation < MaxRow
    /\ generation' = generation + 1
    /\ Pend(r, Becomes(Account, db[Account],
                 [db[Account] EXCEPT !.secret = generation + 1, !.codes = NoRow]))
    /\ at' = [at EXCEPT ![r] = [Idle EXCEPT !.pc = "store", !.kind = "enroll", !.user = db[Account]]]
    /\ UNCHANGED <<limiter, scene, observers>>

\* The code shown by an authenticator that holds the account's secret.
Activate(r) ==
    LET u == db[Account] IN
    /\ Starts(r, "activate")
    /\ ~ AuthenticatorEnabled(u)
    /\ u.secret # 0
    /\ generation < MaxRow
    /\ generation' = generation + 1
    /\ Pend(r, Becomes(Account, u, [u EXCEPT !.mfa = TRUE, !.codes = Codes(generation + 1)]))
    /\ at' = [at EXCEPT ![r] = [Idle EXCEPT !.pc = "store", !.kind = "activate", !.user = u]]
    /\ proven' = proven \cup {u.secret}
    /\ UNCHANGED <<limiter, scene, looked, accepted, replayed, raced>>

\* Mutant: new codes without an authenticator.
RegenerateAlways(r) ==
    /\ Starts(r, "regenerate")
    /\ generation < MaxRow
    /\ generation' = generation + 1
    /\ Pend(r, Becomes(Account, db[Account], [db[Account] EXCEPT !.codes = Codes(generation + 1)]))
    /\ at' = [at EXCEPT ![r] = [Idle EXCEPT !.pc = "store", !.kind = "regenerate", !.user = db[Account]]]
    /\ UNCHANGED <<limiter, scene, observers>>

Regenerate(r) ==
    LET u == db[Account] IN
    /\ Starts(r, "regenerate")
    /\ AuthenticatorEnabled(u)
    /\ generation < MaxRow
    /\ generation' = generation + 1
    /\ Pend(r, Becomes(Account, u, [u EXCEPT !.codes = Codes(generation + 1)]))
    /\ at' = [at EXCEPT ![r] = [Idle EXCEPT !.pc = "store", !.kind = "regenerate", !.user = u]]
    /\ UNCHANGED <<limiter, scene, observers>>

SetMfa(r, kind, on) ==
    /\ Starts(r, kind)
    /\ db[Account].mfa # on
    /\ Change1(r, kind, [db[Account] EXCEPT !.mfa = on])

-----------------------------------------------------------------------------
(* Password reset and deletion codes.                                      *)

\* request_password_reset, unless too many were made lately.
Forgot(r) ==
    /\ Starts(r, "forgot")
    /\ db[Account] # NoRow /\ db[Account].password # NoRow
    /\ Cardinality({k \in Key : db[<<"reset", k>>] # NoRow}) < MaxRequests
    /\ Go(r, [Idle EXCEPT !.pc = "issue", !.kind = "forgot"])
    /\ UNCHANGED session

\* confirm_password_reset: the link is looked up ...
Reset(r, x, p) ==
    /\ Starts(r, "reset")
    /\ db[x] # NoRow /\ db[x].open /\ ~ Expired(db[x])
    /\ Go(r, [Idle EXCEPT !.pc = "apply", !.kind = "reset", !.row = x, !.password = p])
    /\ UNCHANGED session

\* ... the account loaded, both written, the account first ...
Apply(r) ==
    LET s == at[r] IN
    /\ s.pc = "apply"
    /\ Pend(r, Becomes(Account, db[Account], [db[Account] EXCEPT !.password = s.password]))
    /\ Go(r, [s EXCEPT !.pc = "consume", !.user = db[Account]])

Consume(r) ==
    LET s == at[r] IN
    /\ s.pc = "consume"
    /\ Pend(r, Becomes(s.row, db[s.row], [db[s.row] EXCEPT !.open = FALSE]))
    /\ Go(r, [s EXCEPT !.pc = "revoke"])

\* Mutant: the sessions live on.
RevokeNothing(r) ==
    /\ at[r].pc = "revoke"
    /\ Go(r, [at[r] EXCEPT !.pc = "store", !.claims = at[r].row])
    /\ UNCHANGED session

\* ... and the sessions that are live are revoked.
Revoke(r) ==
    LET live == {x \in {"session"} \X Key : db[x] # NoRow /\ db[x].live} IN
    /\ at[r].pc = "revoke"
    /\ Pend(r, Changes(live, db, [x \in live |-> [db[x] EXCEPT !.live = FALSE]]))
    /\ Go(r, [at[r] EXCEPT !.pc = "store", !.claims = at[r].row])

AskDelete(r) ==
    /\ Starts(r, "askdelete")
    /\ Cardinality({k \in Key : db[<<"deletion", k>>] # NoRow}) < MaxRequests
    /\ Go(r, [Idle EXCEPT !.pc = "issue", !.kind = "askdelete"])
    /\ UNCHANGED session

Delete(r, g) ==
    /\ Starts(r, "delete")
    /\ Go(r, [Idle EXCEPT !.pc = "guess", !.kind = "delete", !.guess = g, !.user = db[Account]])
    /\ UNCHANGED session

-----------------------------------------------------------------------------

\* What a stored row was decided by: an account or a session by the account, a new code by
\* the codes of its table, a guess by the code's own row.
Bases(s, x) ==
    CASE x = Account \/ x[1] = "session" -> {Account}
      [] x \in CodeRows /\ s.kind \in {"verify", "delete", "reset"} -> {x}
      [] OTHER -> {x[1]} \X Key

\* Rows stored by a request that others had overtaken, and sessions a reset did not see.
Misjudged(r) ==
    {x \in DOMAIN held[r] : Bases(at[r], x) \cap at[r].behind # {}}
    \cup {x \in at[r].behind : x[1] = "session"}

\* The row an accepted code rests on.
Basis(s) == IF s.claims[1] = "recovery" THEN Account ELSE s.row

Commit(r) ==
    LET s == at[r] IN
    /\ s.pc = "store"
    /\ Store(r)
    /\ at' = [q \in Req |->
                IF q = r THEN IF s.then = "idle" THEN Idle
                              ELSE [s EXCEPT !.pc = s.then, !.claims = NoRow]
                ELSE [at[q] EXCEPT !.behind = @ \cup (DOMAIN held[r] \cap GoesBy(q))]]
    /\ accepted' = accepted \cup ({s.claims} \ {NoRow})
    /\ replayed' = replayed \cup {c \in {s.claims} \cap accepted : Basis(s) \notin s.behind}
    /\ raced' = raced \cup Misjudged(r)
    /\ UNCHANGED <<limiter, scene, generation, looked, proven>>

Send(r) == Flush(r) /\ UNCHANGED <<limiter, scene, generation, at, observers>>
Fail(r) == (FlushFails(r) \/ DeadlockVictim(r)) /\ Go(r, Idle)

Work(r) ==
    \/ Refresh(r) \/ IssueCode(r) \/ CompareLogin(r) \/ CompareDeletion(r) \/ Close(r)
    \/ CheckTotp(r) \/ CheckRecovery(r) \/ CheckFails(r) \/ IssueToken(r)
    \/ Apply(r) \/ Consume(r) \/ Revoke(r) \/ Commit(r)

Advance(r) == IF Clean(r) THEN Work(r) ELSE Send(r) \/ Fail(r)

\* A request that is turned down (a wrong password, a conflict, a link that is used)
\* changes nothing but the log of security events.
TurnedDown(r) == at[r].pc = "idle" /\ UNCHANGED vars

Begin(r) ==
    \/ \E p \in Password : Register(r, p) \/ Login(r, p)
    \/ Callback(r)
    \/ Resend(r) \/ TurnedAway(r) \/ TurnedDown(r)
    \/ Enroll(r) \/ Activate(r) \/ Regenerate(r)
    \/ \E g \in scene.guesses : Verify(r, g) \/ Delete(r, g)
    \/ SetMfa(r, "disable", FALSE) \/ SetMfa(r, "enable", TRUE)
    \/ Forgot(r) \/ AskDelete(r)
    \/ \E k \in Key, p \in Password : Reset(r, <<"reset", k>>, p)

\* The clock, in the scenes it matters to.
Time == "time" \in scene.kinds /\ Tick /\ UNCHANGED <<session, scene, generation, at, observers>>

Next == (\E r \in Req : Begin(r) \/ Advance(r)) \/ Time

Spec == Init /\ [][Next]_vars

-----------------------------------------------------------------------------
(* Properties.                                                             *)

\* "Validate a one-time recovery code and remove its hash" (auth/service.py:268), and the
\* same of emailed codes and reset links: one that was accepted is accepted again only by a
\* request that had read it before; a recovery code also after requests that overtook each
\* other wrote the list of codes.
OneTime == \A c \in replayed : c[1] = "recovery" /\ Account \in raced

\* "Invalidate prior unused challenges" (account/service.py:56): of the codes of one table,
\* made by requests that did not overlap, at most one is open.
OneOpenCode ==
    \A x, y \in CodeRows \ raced :
        x[1] = y[1] /\ db[x] # NoRow /\ db[y] # NoRow /\ db[x].open /\ db[y].open => x = y

\* A guess is counted before it is compared: when no request is about a code, its counter
\* is the number of guesses compared with it, hence within the limit, unless guesses
\* overtook each other.
GuessesAreCounted ==
    \A x \in CodeRows :
        db[x] # NoRow /\ x \notin raced /\ (\A r \in Req : at[r].row # x) =>
            looked[x] = db[x].attempts

\* Recovery codes are there only for a secret that an authenticator has proven to hold,
\* unless requests that changed the account overtook each other.
AuthenticatorIsProven ==
    LET u == db[Account] IN
    u # NoRow /\ u.codes # NoRow /\ Account \notin raced => u.secret \in proven

\* A reset ends every session: the live ones that a password opened were opened by the
\* present one, unless the reset was stored while the login was on its way.
ResetEndsSessions ==
    \A k \in Key :
        LET x == <<"session", k>> IN
        db[x] # NoRow /\ db[x].live /\ db[x].by # NoRow /\ x \notin raced =>
            db[x].by = db[Account].password

\* The provider an account is linked with, and a password that no reset changed, stand:
\* registration and OAuth never take over an account, save when they overlapped.
AccountStands ==
    [][\A r \in Req :
         at[r].kind \in {"register", "oauth"} /\ Commit(r) /\ db[Account] # NoRow =>
           /\ db'[Account].password = db[Account].password
           /\ db[Account].provider # NoRow /\ Account \notin at[r].behind =>
                db'[Account].provider = db[Account].provider]_vars
=============================================================================
