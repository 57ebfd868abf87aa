--------------------------- MODULE PluginRuntime ---------------------------
(***************************************************************************)
(* The runtime manager of the plugins (internal/plugins/runtime.go) and    *)
(* its circuit breakers (circuit.go): processes are started and stopped by *)
(* the host while tool calls run through them.  A client is one MCP        *)
(* process; each has the breaker that was created with it.                 *)
(***************************************************************************)
EXTENDS Naturals, FiniteSets

CONSTANTS
    Plugins,
    Clients,     \* bound: MCP processes that are ever started
    Owner,       \* [Clients -> Plugins]: whose process a client is
    Callers,     \* bound: tool calls under way at a time
    Threshold,   \* CircuitBreakerThreshold
    NoClient

ASSUME RuntimeAssumption ==
    /\ NoClient \notin Clients
    /\ Owner \in [Clients -> Plugins]
    /\ Threshold \in Nat \ {0}

VARIABLES
    process,     \* [Plugins -> Clients or NoClient]: rm.processes, rm.circuits
    alive,       \* clients that answer: neither closed nor dead
    started,     \* clients that were ever started
    breaker,     \* [Clients -> Breaker]
    call         \* [Callers -> Call]

runtimeVars == <<process, alive, started, breaker, call>>

\* expired: resetTimeout has passed since lastFailure.
Breaker == [state : {"closed", "open", "half-open"}, failures : Nat,
            expired : BOOLEAN]

\* A call looks up its process, then passes the breaker.
Call == [at : {"idle", "picked", "running"},
         client : Clients \cup {NoClient}]
NoCall == [at |-> "idle", client |-> NoClient]

NewBreaker == [state |-> "closed", failures |-> 0, expired |-> FALSE]

RuntimeInit ==
    /\ process = [p \in Plugins |-> NoClient]
    /\ alive = {} /\ started = {}
    /\ breaker = [g \in Clients |-> NewBreaker]
    /\ call = [c \in Callers |-> NoCall]

RuntimeTypeOK ==
    /\ process \in [Plugins -> Clients \cup {NoClient}]
    /\ alive \subseteq started /\ started \subseteq Clients
    /\ breaker \in [Clients -> Breaker]
    /\ call \in [Callers -> Call]
-----------------------------------------------------------------------------
(* The circuit breaker: what each operation makes of its state. *)

Allows(b) == b.state = "closed" \/ (b.state = "open" /\ b.expired)
AfterAllow(b) ==
    IF b.state = "open" THEN [b EXCEPT !.state = "half-open", !.expired = FALSE] ELSE b

AfterSuccess(b) ==
    IF b.state = "open" THEN b ELSE [b EXCEPT !.state = "closed", !.failures = 0]

\* Mutated: a failed probe leaves the breaker half-open.
AfterFailure_Probe(b) ==
    LET n == IF b.state = "closed" THEN b.failures + 1 ELSE b.failures
    IN [state |-> IF b.state = "closed" /\ n >= Threshold THEN "open" ELSE b.state,
        failures |-> n, expired |-> FALSE]

AfterFailure(b) ==
    LET n == IF b.state = "closed" THEN b.failures + 1 ELSE b.failures
    IN [state |-> IF b.state # "closed" \/ n >= Threshold THEN "open" ELSE "closed",
        failures |-> n, expired |-> FALSE]

-----------------------------------------------------------------------------
\* StartPlugin stores the process and its breaker over what was there; an
\* older client of the plugin is neither closed nor remembered.
StartPlugin(p, g) ==
    /\ g \notin started /\ Owner[g] = p
    /\ process' = [process EXCEPT ![p] = g]
    /\ alive' = alive \cup {g} /\ started' = started \cup {g}
    /\ breaker' = [breaker EXCEPT ![g] = NewBreaker]
    /\ UNCHANGED call

\* StopPlugin; without a process it returns an error that its callers ignore.
StopPlugin(p) ==
    /\ process' = [process EXCEPT ![p] = NoClient]
    /\ alive' = alive \ {process[p]}
    /\ UNCHANGED <<started, breaker, call>>

\* CallTool, up to the unlock: process and breaker are read together.
PickProcess(c, p) ==
    /\ call[c].at = "idle" /\ process[p] # NoClient
    /\ call' = [call EXCEPT ![c] = [at |-> "picked", client |-> process[p]]]
    /\ UNCHANGED <<process, alive, started, breaker>>

\* Allow: an open breaker lets one probe through after its timeout.  The call
\* counts itself in flight only after the lookup: WaitInFlight may miss it.
PassBreaker(c) ==
    LET b == breaker[call[c].client]
    IN /\ call[c].at = "picked"
       /\ \/ /\ Allows(b)
             /\ breaker' = [breaker EXCEPT ![call[c].client] = AfterAllow(b)]
             /\ call' = [call EXCEPT ![c].at = "running"]
          \/ /\ ~Allows(b)
             /\ call' = [call EXCEPT ![c] = NoCall]
             /\ UNCHANGED breaker
       /\ UNCHANGED <<process, alive, started>>

\* Mutated: the breaker is looked up again, by name, when the call ends.
FinishCall_Current(c, ok) ==
    LET g == process[Owner[call[c].client]]
    IN /\ call[c].at = "running"
       /\ breaker' = IF g = NoClient THEN breaker
                     ELSE [breaker EXCEPT ![g] =
                             IF ok THEN AfterSuccess(@) ELSE AfterFailure(@)]
       /\ call' = [call EXCEPT ![c] = NoCall]
       /\ UNCHANGED <<process, alive, started>>

\* The client answers, or fails: the breaker read at the start learns of it.
FinishCall(c, ok) ==
    /\ call[c].at = "running"
    /\ breaker' = [breaker EXCEPT ![call[c].client] =
                     IF ok THEN AfterSuccess(@) ELSE AfterFailure(@)]
    /\ call' = [call EXCEPT ![c] = NoCall]
    /\ UNCHANGED <<process, alive, started>>

\* time.Since(lastFailure) reaches resetTimeout.
ResetElapses(g) ==
    /\ breaker[g].state = "open" /\ ~breaker[g].expired
    /\ breaker' = [breaker EXCEPT ![g].expired = TRUE]
    /\ UNCHANGED <<process, alive, started, call>>

\* An MCP process dies on its own.
ClientDies(g) ==
    /\ g \in alive
    /\ alive' = alive \ {g}
    /\ UNCHANGED <<process, started, breaker, call>>

CallStep(c) ==
    PassBreaker(c) \/ \E ok \in BOOLEAN : FinishCall(c, ok)
-----------------------------------------------------------------------------
\* A half-open breaker rejects every call until a result is recorded: a call
\* that will record one is always under way, whatever late results of earlier
\* calls and whatever stops of the plugin came in between.  Otherwise the
\* plugin would be cut off for good.
HalfOpenHasCall ==
    \A g \in Clients : breaker[g].state = "half-open" =>
      \E c \in Callers : call[c].client = g /\ call[c].at = "running"
=============================================================================
