---------------------------- MODULE ExecApproval ----------------------------
(***************************************************************************)
(* The approval of commands (internal/tools/exec_approval.go): a run that  *)
(* wants to execute a command waits for the decision of an operator, for a *)
(* limited time; several operators may decide.  One mutex guards the map   *)
(* of the pending requests, and Resolve sends on the channel of a request  *)
(* while it holds it.                                                      *)
(***************************************************************************)
EXTENDS Naturals, FiniteSets

CONSTANTS
    Requests,        \* commands that need a decision, each with an id of its own
    Binary,          \* [Requests -> names]: extractBin of the command
    Asking,          \* requests that are asked whatever is allowed: ExecAskAlways
    Operators, NoOperator,
    Undecided

Decision == {"allow-once", "allow-always", "deny"}

ASSUME ApprovalAssumption == NoOperator \notin Operators /\ Undecided \notin Decision

VARIABLES
    request,         \* [Requests -> Stage]: where the tool is
    answer,          \* what the tool got: an answer of its own, or Undecided
    channel,         \* resultCh: one place
    pending,
    alwaysAllow,
    call,            \* [Operators -> Call]: calls of Resolve
    holder,          \* the operator whose Resolve waits to send, with the mutex
    decided          \* history: <<operator, request>> that Resolve found pending

appVars == <<request, answer, channel, pending, alwaysAllow, call, holder, decided>>

Stage == {"new", "ask", "waiting", "chosen", "timedout", "extend", "over"}
NoResolve == [at |-> "none", id |-> Undecided, decision |-> Undecided]

ApprovalInit ==
    /\ request = [r \in Requests |-> "new"] /\ answer = [r \in Requests |-> Undecided]
    /\ channel = [r \in Requests |-> Undecided] /\ pending = {} /\ alwaysAllow = {}
    /\ call = [o \in Operators |-> NoResolve]
    /\ holder = NoOperator /\ decided = {}

\* The mutex is free: whoever takes it below lets it go in the same step.
Free == holder = NoOperator
-----------------------------------------------------------------------------
(* The tool. *)

\* CheckCommand, where the mode asks for what no list allows.
CheckCommand(r) ==
    /\ request[r] = "new" /\ Free
    /\ IF Binary[r] \in alwaysAllow /\ r \notin Asking
       THEN /\ request' = [request EXCEPT ![r] = "over"]
            /\ answer' = [answer EXCEPT ![r] = "allow-always"]
       ELSE /\ request' = [request EXCEPT ![r] = "ask"]
            /\ UNCHANGED answer
    /\ UNCHANGED <<channel, pending, alwaysAllow, call, holder, decided>>

RequestApproval(r) ==
    /\ request[r] = "ask" /\ Free
    /\ request' = [request EXCEPT ![r] = "waiting"]
    /\ pending' = pending \cup {r}
    /\ UNCHANGED <<answer, channel, alwaysAllow, call, holder, decided>>

Receive(r) ==
    /\ request[r] = "waiting" /\ channel[r] # Undecided
    /\ request' = [request EXCEPT ![r] = "chosen"]
    /\ answer' = [answer EXCEPT ![r] = channel[r]]
    /\ channel' = [channel EXCEPT ![r] = Undecided]
    /\ UNCHANGED <<pending, alwaysAllow, call, holder, decided>>

\* select has no order: the timer may win over a decision that is there.
TimeOut(r) ==
    /\ request[r] = "waiting"
    /\ request' = [request EXCEPT ![r] = "timedout"]
    /\ answer' = [answer EXCEPT ![r] = "deny"]
    /\ UNCHANGED <<channel, pending, alwaysAllow, call, holder, decided>>

EndRequest(r) ==
    /\ request[r] \in {"chosen", "timedout"} /\ Free
    /\ request' = [request EXCEPT ![r] = IF answer[r] = "allow-always" THEN "extend" ELSE "over"]
    /\ pending' = pending \ {r}
    /\ UNCHANGED <<answer, channel, alwaysAllow, call, holder, decided>>

AllowAlways(r) ==
    /\ request[r] = "extend" /\ Free
    /\ request' = [request EXCEPT ![r] = "over"]
    /\ alwaysAllow' = alwaysAllow \cup {Binary[r]}
    /\ UNCHANGED <<answer, channel, pending, call, holder, decided>>
-----------------------------------------------------------------------------
(* Resolve. *)

Decide(o, r, d) ==
    /\ call[o].at = "none"
    /\ call' = [call EXCEPT ![o] = [at |-> "called", id |-> r, decision |-> d]]
    /\ UNCHANGED <<request, answer, channel, pending, alwaysAllow, holder, decided>>

CallOver(o) == call' = [call EXCEPT ![o].at = "over"]

NotPending(o) ==
    /\ call[o].at = "called" /\ Free /\ call[o].id \notin pending
    /\ CallOver(o)
    /\ UNCHANGED <<request, answer, channel, pending, alwaysAllow, holder, decided>>

\* Mutated: the channel of a request has no place, a send waits for the tool.
HasPlace_Unbuffered(r) == request[r] = "waiting" /\ channel[r] = Undecided

HasPlace(r) == channel[r] = Undecided

Resolve(o) ==
    /\ call[o].at = "called" /\ Free /\ call[o].id \in pending
    /\ decided' = decided \cup {<<o, call[o].id>>}
    /\ IF HasPlace(call[o].id)
       THEN /\ channel' = [channel EXCEPT ![call[o].id] = call[o].decision]
            /\ CallOver(o)
            /\ UNCHANGED holder
       ELSE /\ holder' = o
            /\ UNCHANGED <<channel, call>>
    /\ UNCHANGED <<request, answer, pending, alwaysAllow>>

\* The tool has made place meanwhile.
Send(o) ==
    /\ holder = o /\ HasPlace(call[o].id)
    /\ channel' = [channel EXCEPT ![call[o].id] = call[o].decision]
    /\ holder' = NoOperator
    /\ CallOver(o)
    /\ UNCHANGED <<request, answer, pending, alwaysAllow, decided>>
-----------------------------------------------------------------------------
RequestStep(r) ==
    RequestApproval(r) \/ Receive(r) \/ TimeOut(r) \/ EndRequest(r) \/ AllowAlways(r)

ResolveStep(o) == NotPending(o) \/ Resolve(o) \/ Send(o)

ApprovalNext ==
    \/ \E r \in Requests : CheckCommand(r) \/ RequestStep(r)
    \/ \E o \in Operators : ResolveStep(o) \/ \E r \in Requests, d \in Decision : Decide(o, r, d)

\* A goroutine that can go on does, and timers fire.
ApprovalFairness ==
    /\ \A r \in Requests : WF_appVars(RequestStep(r))
    /\ \A o \in Operators : WF_appVars(ResolveStep(o))

ApprovalSpec == ApprovalInit /\ [][ApprovalNext]_appVars /\ ApprovalFairness
-----------------------------------------------------------------------------
(* Properties. *)

\* A call of an operator returns, and a command that waits for a decision gets
\* an answer, unless two operators decide one request: the second decision may
\* find the place taken by the first and then keeps the mutex from the tool,
\* whose time is up.
DecidedTwice ==
    \E r \in Requests : Cardinality({o \in Operators : <<o, r>> \in decided}) > 1

ApprovalEnds ==
    /\ \A r \in Requests : (request[r] = "waiting") ~> (request[r] = "over" \/ DecidedTwice)
    /\ \A o \in Operators : (call[o].at = "called") ~> (call[o].at = "over" \/ DecidedTwice)
=============================================================================
