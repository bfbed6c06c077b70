----------------------------- MODULE ImportLog -----------------------------
(***************************************************************************)
(* What bank synchronisation promises of the stored transactions, whatever *)
(* requests overlap, fail or die: a connection is opened once and closed   *)
(* once, and while it is open its ledger only grows, by whole snapshots,   *)
(* one atomic step each time ("upsert idempotently on external_id").       *)
(***************************************************************************)
EXTENDS Naturals

CONSTANTS Conn, MaxVersion, Feed

VARIABLES
    phase,     \* "new", "open" or "closed"
    ledger     \* the transactions stored for each connection

logVars == <<phase, ledger>>

Init ==
    /\ phase  = [c \in Conn |-> "new"]
    /\ ledger = [c \in Conn |-> {}]

Open(c) ==
    /\ phase[c] = "new"
    /\ phase' = [phase EXCEPT ![c] = "open"]
    /\ UNCHANGED ledger

\* One commit may import snapshots of several connections: v[c] is what is imported
\* of c, a set of versions that is empty for the connections left alone.
Import(v) ==
    /\ \A c \in Conn : v[c] # {} => phase[c] = "open"
    /\ ledger' = [c \in Conn |-> ledger[c] \cup UNION {Feed[i].txns : i \in v[c]}]
    /\ UNCHANGED phase

Close(c) ==
    /\ phase[c] = "open"
    /\ phase'  = [phase EXCEPT ![c] = "closed"]
    /\ ledger' = [ledger EXCEPT ![c] = {}]

Next ==
    \/ \E c \in Conn : Open(c) \/ Close(c)
    \/ \E v \in [Conn -> SUBSET (1..MaxVersion)] : Import(v)

Spec == Init /\ [][Next]_logVars
=============================================================================
