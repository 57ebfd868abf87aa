---------------------------- MODULE AgentRouter ----------------------------
(***************************************************************************)
(* The runs of one session in internal/agent/router.go, and the instance   *)
(* of the agent's loop that the router has cached.                         *)
(*                                                                         *)
(* activeRuns and sessionRuns are sync.Maps.  A call that touches both is  *)
(* one step: RegisterRun stores the run before it stores the index, the    *)
(* others delete the index first, and a reader that meets the state in     *)
(* between (an index without run, a run without index) answers as it does  *)
(* when there is neither.                                                  *)
(***************************************************************************)
EXTENDS Integers, SequencesExt

CONSTANTS
    Runs, Loops, Injections,
    InboxSize,        \* injectBufferSize
    NoRun

ASSUME RouterAssumption == InboxSize \in Nat \ {0} /\ NoRun \notin Runs

VARIABLES
    cached,    \* the Loop that Get answers with
    active,    \* SUBSET Runs: activeRuns
    index,     \* Runs or NoRun: sessionRuns[sessionKey]
    inbox      \* [Runs -> Seq(Injections)]: InjectCh

routerVars == <<cached, active, index, inbox>>

RouterInit ==
    /\ cached \in Loops /\ active = {} /\ index = NoRun
    /\ inbox = [r \in Runs |-> <<>>]

RouterTypeOK ==
    /\ cached \in Loops /\ active \subseteq Runs
    /\ index \in active \cup {NoRun}
    /\ inbox \in [Runs -> BoundedSeq(Injections, InboxSize)]

\* The entry expired or was removed: the next Get resolves a new instance.
Expire ==
    /\ cached' \in Loops \ {cached}
    /\ UNCHANGED <<active, index, inbox>>

RegisterRun(r) ==
    /\ active' = active \cup {r} /\ index' = r
    /\ UNCHANGED <<cached, inbox>>

\* Mutated: the index is deleted by session, also by a run that was aborted.
UnregisterRun_Session(r) ==
    /\ active' = active \ {r} /\ index' = NoRun
    /\ UNCHANGED <<cached, inbox>>

\* Whatever the index says: it may be another run's.
UnregisterRun(r) ==
    /\ active' = active \ {r}
    /\ index' = IF r \in active THEN NoRun ELSE index
    /\ UNCHANGED <<cached, inbox>>

\* AbortRun; AbortRunsForSession does this for each run of the session.
AbortRun(r) == r \in active /\ UnregisterRun(r)

\* A full channel refuses the message.
InjectMessage(i) ==
    /\ index # NoRun /\ Len(inbox[index]) < InboxSize
    /\ inbox' = [inbox EXCEPT ![index] = Append(@, i)]
    /\ UNCHANGED <<cached, active, index>>

\* Mutated: one message per turn.
Drain_One(r) ==
    /\ inbox' = [inbox EXCEPT ![r] = IF @ = <<>> THEN @ ELSE Tail(@)]
    /\ UNCHANGED <<cached, active, index>>

\* drainInjectChannel: all that is there, without waiting.
Drain(r) ==
    /\ inbox' = [inbox EXCEPT ![r] = <<>>]
    /\ UNCHANGED <<cached, active, index>>

RouterRestart ==
    /\ active' = {} /\ index' = NoRun /\ inbox' = [r \in Runs |-> <<>>]
    /\ UNCHANGED cached
=============================================================================
