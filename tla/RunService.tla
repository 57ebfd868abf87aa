----------------------------- MODULE RunService -----------------------------
(***************************************************************************)
(* What the scheduler promises to its callers, without queues, timers,     *)
(* mutexes or contexts: a request is accepted, waits, may execute while    *)
(* its lane has room, and is answered once; nothing happens to it after    *)
(* its answer.  A session is bound to one lane, once.                      *)
(***************************************************************************)
EXTENDS Naturals, FiniteSets

CONSTANTS Requests, Sessions, Lanes, SessionOf, Concurrency, NoLane

VARIABLES phase, home

vars == <<phase, home>>

Phases == {"idle", "waiting", "executing", "answered"}

TypeOK ==
    /\ phase \in [Requests -> Phases]
    /\ home \in [Sessions -> Lanes \cup {NoLane}]

Init ==
    /\ phase = [r \in Requests |-> "idle"]
    /\ home = [s \in Sessions |-> NoLane]

Executing(l) ==
    {r \in Requests : phase[r] = "executing" /\ home[SessionOf[r]] = l}

Bind(s) ==
    /\ home[s] = NoLane
    /\ \E l \in Lanes : home' = [home EXCEPT ![s] = l]
    /\ UNCHANGED phase

Accept(r) ==
    /\ phase[r] = "idle"
    /\ home[SessionOf[r]] # NoLane
    /\ phase' = [phase EXCEPT ![r] = "waiting"]
    /\ UNCHANGED home

Begin(r) ==
    LET l == home[SessionOf[r]] IN
    /\ phase[r] = "waiting"
    /\ l # NoLane
    /\ Cardinality(Executing(l)) < Concurrency[l]
    /\ phase' = [phase EXCEPT ![r] = "executing"]
    /\ UNCHANGED home

End(r) ==
    /\ phase[r] = "executing"
    /\ phase' = [phase EXCEPT ![r] = "answered"]
    /\ UNCHANGED home

\* Requests that wait, or that arrive during a shutdown, may be turned away;
\* a drain turns away several at once.
TurnAway(R) ==
    /\ \A r \in R : phase[r] \in {"idle", "waiting"}
    /\ phase' = [r \in Requests |-> IF r \in R THEN "answered" ELSE phase[r]]
    /\ UNCHANGED home

Next ==
    \/ \E s \in Sessions : Bind(s)
    \/ \E r \in Requests : Accept(r) \/ Begin(r) \/ End(r)
    \/ \E R \in SUBSET Requests : TurnAway(R)

Spec == Init /\ [][Next]_vars
=============================================================================
