----------------------------- MODULE RateLimit -----------------------------
(***************************************************************************)
(* The sliding window that limits the calls of one client to one bucket.   *)
(* Source: backend/app/core/rate_limit.py.  The check runs without an      *)
(* await and under a lock: it is one step.                                 *)
(***************************************************************************)
EXTENDS Naturals, Sequences, FiniteSets

CONSTANTS
    Limit, Window,
    MaxTime        \* bound on the clock

ASSUME LimitAssumption == Limit \in Nat \ {0} /\ Window \in Nat /\ MaxTime \in Nat

VARIABLES
    now,           \* the monotonic clock
    log,           \* the times of all calls let in; the deque is its end ...
    dropped        \* ... after this many, which were popped

limiter == <<now, log, dropped>>

LimiterTypeOK ==
    /\ now \in 0..MaxTime
    /\ log \in Seq(0..MaxTime)
    /\ dropped \in 0..Len(log)

LimiterInit == now = 0 /\ log = <<>> /\ dropped = 0

\* Mutant: entries as old as the window are popped, too.
PoppedEarly(d) ==
    /\ d \in dropped..Len(log)
    /\ \A i \in dropped + 1..d : log[i] + Window <= now
    /\ d < Len(log) => log[d + 1] + Window > now

\* Mutant: at most one entry is popped.
PoppedOnce(d) ==
    /\ d \in dropped..Len(log) /\ d <= dropped + 1
    /\ d > dropped => log[d] + Window < now
    /\ d = dropped /\ d < Len(log) => log[d + 1] + Window >= now

\* Entries older than the window are popped from the left, up to the first that is not.
Popped(d) ==
    /\ d \in dropped..Len(log)
    /\ \A i \in dropped + 1..d : log[i] + Window < now
    /\ d < Len(log) => log[d + 1] + Window >= now

\* The call is counted ...
Admit ==
    /\ \E d \in 0..Len(log) : Popped(d) /\ Len(log) - d < Limit /\ dropped' = d
    /\ log' = Append(log, now)
    /\ UNCHANGED now

\* ... or refused with 429, which is not counted.
Refuse ==
    /\ \E d \in 0..Len(log) : Popped(d) /\ Len(log) - d >= Limit /\ dropped' = d
    /\ UNCHANGED <<now, log>>

Tick == now < MaxTime /\ now' = now + 1 /\ UNCHANGED <<log, dropped>>

-----------------------------------------------------------------------------
(* Properties.                                                             *)

\* Any Limit + 1 successive calls let in are further apart than the window, ends
\* included: the bucket never lets in more than Limit calls in a closed window.
WindowBounds ==
    \A i \in 1..Len(log) : i + Limit <= Len(log) => log[i + Limit] > log[i] + Window

\* What is left in the deque when a call is decided are the calls of the closed window and
\* no others, although entries are only looked at from the left, and popped only when
\* somebody calls: nobody is refused who has made fewer than Limit calls in it ("Raise 429
\* if this client exceeded `limit` hits in `window_seconds`", core/rate_limit.py:34).
CountsTheWindow ==
    \A d \in 0..Len(log) :
        Popped(d) => Len(log) - d = Cardinality({i \in 1..Len(log) : log[i] + Window >= now})
=============================================================================
