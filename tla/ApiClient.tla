------------------------------ MODULE ApiClient ------------------------------
(***************************************************************************)
(* The mobile app: WoneyClient with its token storage, against the server  *)
(* of Sessions.  Calls run concurrently: each, when it meets a 401,        *)
(* exchanges the stored refresh token by itself.                           *)
(*                                                                         *)
(* Sources: packages/api-client/src/client.ts, apps/mobile/src/api.ts and  *)
(* apps/mobile/App.tsx.                                                    *)
(***************************************************************************)
EXTENDS Sessions

VARIABLES
    user,          \* the app shows the screens of a user who signed in
    live,          \* it holds an access token the server accepts
    store,         \* the stored refresh token
    call,          \* what waits for the response of request r
    cut            \* observer: the tokens presented when the app was killed

device == <<user, live, store, cut>>
vars == <<server, device, call>>

\* sent: a call to a route that needs authorization, without a live access token.
\* ignored: sent by another device, or by an app that was killed since.
CallPc == {"idle", "sent", "refresh", "login", "logout", "ignored"}

TypeOK ==
    /\ ServerTypeOK
    /\ user \in BOOLEAN
    /\ live \in BOOLEAN
    /\ store \in Token \cup {NoToken}
    /\ call \in [Req -> CallPc]
    /\ cut \subseteq Token

Init ==
    /\ ServerInit
    /\ user = FALSE
    /\ live = FALSE
    /\ store = NoToken
    /\ call = [r \in Req |-> "idle"]
    /\ cut = {}

Wait(r, pc) == call[r] = "idle" /\ call' = [call EXCEPT ![r] = pc]

\* The response of r is delivered.
Deliver(r, pc) ==
    /\ call[r] = pc /\ req[r].pc = "done"
    /\ call' = [call EXCEPT ![r] = "idle"]
    /\ Step(r, Idle)
    /\ UNCHANGED tables

\* Mutant: the tokens of the pair are swapped.
SetTokensSwapped(t) == store' = TRUE /\ live' = t

SetTokens(t) == store' = t /\ live' = TRUE
Clear        == store' = NoToken /\ live' = FALSE

-----------------------------------------------------------------------------
(* The client.                                                             *)

\* request, for a route that needs authorization; with a live access token nothing
\* changes.
Send(r) ==
    /\ user /\ ~ live
    /\ Wait(r, "sent")
    /\ UNCHANGED <<server, device>>

\* A 401: the token that is stored by now is exchanged.
Answered(r) ==
    /\ call[r] = "sent"
    /\ call' = [call EXCEPT ![r] = "refresh"]
    /\ BeginRefresh(r, store)
    /\ UNCHANGED <<tables, device>>

\* Mutant: a refused exchange leaves the tokens alone.
RefreshedKeeps(r) ==
    /\ Deliver(r, "refresh")
    /\ IF req[r].answer # NoToken THEN SetTokens(req[r].answer) ELSE UNCHANGED <<live, store>>
    /\ UNCHANGED <<user, cut>>

\* tryRefresh stores the new pair, or clears the storage on any failure.  The call is
\* sent once more at most, which changes nothing here.
Refreshed(r) ==
    /\ Deliver(r, "refresh")
    /\ IF req[r].answer # NoToken THEN SetTokens(req[r].answer) ELSE Clear
    /\ UNCHANGED <<user, cut>>

\* The sign-in screen is shown to whoever is not signed in, a stored token or not, and
\* is busy until the answer.
Login(r) ==
    /\ ~ user /\ \A q \in Req : call[q] # "login"
    /\ Wait(r, "login")
    /\ BeginLogin(r)
    /\ UNCHANGED <<tables, device>>

\* It ends with a call of /me, which may fail.
LoggedIn(r) ==
    /\ Deliver(r, "login")
    /\ IF req[r].answer # NoToken THEN SetTokens(req[r].answer) /\ user' \in BOOLEAN
                                  ELSE UNCHANGED <<user, live, store>>
    /\ UNCHANGED cut

Logout(r) ==
    /\ user
    /\ Wait(r, "logout")
    /\ BeginLogout(r, store)
    /\ UNCHANGED <<tables, device>>

\* The storage is cleared whatever the server answers.
LoggedOut(r) ==
    /\ Deliver(r, "logout")
    /\ Clear
    /\ user' = FALSE
    /\ UNCHANGED cut

\* The user logs out everywhere, or resets the password, on this or another device.
Elsewhere(r) ==
    /\ Wait(r, "ignored")
    /\ BeginAll(r)
    /\ UNCHANGED <<tables, device>>

Ignored(r) ==
    /\ Deliver(r, "ignored")
    /\ UNCHANGED device

\* The app is killed and started again: the keychain keeps the refresh token, and the
\* requests under way go on without it.
Restart ==
    /\ user' = FALSE
    /\ live' = FALSE
    /\ call' = [r \in Req |-> IF call[r] \in {"idle", "sent"} THEN "idle" ELSE "ignored"]
    /\ cut' = cut \cup {t \in Token : \E r \in Req :
                             call[r] \in {"refresh", "logout"} /\ req[r].token = t}
    /\ UNCHANGED <<server, store>>

\* 15 minutes pass.
AccessExpires ==
    /\ live
    /\ live' = FALSE
    /\ UNCHANGED <<server, user, store, call, cut>>

-----------------------------------------------------------------------------

Next ==
    \/ \E r \in Req :
         \/ Send(r) \/ Answered(r) \/ Refreshed(r) \/ Login(r) \/ LoggedIn(r)
         \/ Logout(r) \/ LoggedOut(r) \/ Elsewhere(r) \/ Ignored(r)
         \/ (Serve(r) \/ Drop(r)) /\ UNCHANGED <<device, call>>
    \/ \E t \in Token : Expire(t) /\ UNCHANGED <<device, call>>
    \/ Restart
    \/ AccessExpires

Spec == Init /\ [][Next]_vars

-----------------------------------------------------------------------------
(* Properties.                                                             *)

\* The stored refresh token is one the server accepts until it expires, unless it is just
\* being exchanged or given up, all sessions were revoked, or the app was killed while it
\* presented it: however calls overlap and responses are lost, a running app does not
\* keep a token it has spent.
StoredTokenLives ==
    store # NoToken /\ row[store] = "revoked" =>
       \/ store \in swept \cup cut
       \/ \E r \in Req : call[r] \in {"refresh", "logout"} /\ req[r].token = store
=============================================================================
