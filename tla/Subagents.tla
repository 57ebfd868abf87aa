----------------------------- MODULE Subagents -----------------------------
(* Subagents: the manager that spawns, limits, cancels, steers and archives   *)
(* them (internal/tools/subagent.go, subagent_exec.go, subagent_control.go),  *)
(* the debounced queue of their results (internal/tools/announce_queue.go),   *)
(* and the runs that announce the results in the parent's session             *)
(* (cmd/gateway.go, handleSubagentAnnounce of                                 *)
(* cmd/gateway_consumer_handlers.go).                                         *)
(*                                                                            *)
(* A subagent has an identifier of its own, so that a spawn uses a fresh one. *)
(* The spawn depth is left out: the only spawn tool has depth 0.  The bound   *)
(* on the iterations of a subagent is left out, for a subagent that reaches   *)
(* it ends like one that answers.                                             *)
EXTENDS Naturals, Sequences, FiniteSets, SequencesExt

CONSTANTS Subs,
          SyncSubs,        \* those run by RunSync
          Parents,
          Groups,          \* keys of the announce queue: parent and chat
          ParentOf,        \* the parent of each group
          GroupOf,         \* the group of each subagent
          Origins,         \* session keys
          OriginOf,        \* the session each subagent was spawned from
          MaxConcurrent, MaxChildren,    \* SubagentConfig
          QueueCap,        \* AnnounceQueue.cap
          MaxCommands      \* bound: cancel, cancel all and steer commands

ASSUME SubagentsAssumption ==
    /\ SyncSubs \subseteq Subs
    /\ ParentOf \in [Groups -> Parents]
    /\ GroupOf \in [Subs -> Groups] /\ OriginOf \in [Subs -> Origins]
    /\ MaxConcurrent \in Nat \ {0} /\ MaxChildren \in Nat \ {0}
    /\ QueueCap \in Nat \ {0} /\ MaxCommands \in Nat

VARIABLES
    status,      \* SubagentTask.Status, "none" or "archived" outside the map
    exec,        \* where executeTask and runTask are
    noCtx,       \* the subagents whose context is cancelled
    steering,    \* steered subagents that are still to be replaced, per group
    commands,    \* how many commands were given
    pending,     \* AnnounceQueue.queues: the items of each group
    timer,       \* the groups whose queue has a running timer
    loose,       \* running timers of queues that were taken, per group
    fired,       \* timers that fired and have not taken the mutex, per group
    draining,    \* batches on their way to the bus
    announcing,  \* batches whose goroutine waits for or holds the announce mutex
    announced    \* history: how often each result was announced

taskVars == <<status, exec, noCtx, steering, commands>>
queueVars == <<pending, timer, loose, fired>>
wayVars == <<draining, announcing, announced>>
subVars == <<taskVars, queueVars, wayVars>>

SubInit ==
    /\ status = [t \in Subs |-> "none"]
    /\ exec = [t \in Subs |-> "none"]
    /\ noCtx = {} /\ commands = 0
    /\ steering = [g \in Groups |-> 0]
    /\ pending = [g \in Groups |-> <<>>]
    /\ timer = {}
    /\ loose = [g \in Groups |-> 0] /\ fired = [g \in Groups |-> 0]
    /\ draining = {} /\ announcing = {}
    /\ announced = [t \in Subs |-> 0]
-----------------------------------------------------------------------------
(* The manager. *)

Running == {t \in Subs : status[t] = "running"}
Listed == {t \in Subs : status[t] \notin {"none", "archived"}}

ChildrenOf(p) == {t \in Listed : ParentOf[GroupOf[t]] = p}

\* Mutated: one place too many.
MaySpawn_OffByOne(g) ==
    /\ Cardinality(Running) <= MaxConcurrent
    /\ Cardinality(ChildrenOf(ParentOf[g])) < MaxChildren

\* The limits of Spawn: what runs under any parent, and what the map still
\* lists of this parent, finished or not.
MaySpawn(g) ==
    /\ Cardinality(Running) < MaxConcurrent
    /\ Cardinality(ChildrenOf(ParentOf[g])) < MaxChildren

Started(t) ==
    /\ status[t] = "none"
    /\ status' = [status EXCEPT ![t] = "running"]
    /\ exec' = [exec EXCEPT ![t] = "working"]

Spawn(t) ==
    /\ t \notin SyncSubs
    /\ MaySpawn(GroupOf[t])
    /\ Started(t)
    /\ UNCHANGED <<noCtx, steering, commands, queueVars, wayVars>>

\* RunSync registers and runs the subagent without a look at the limits.
RunSync(t) ==
    /\ t \in SyncSubs
    /\ Started(t)
    /\ UNCHANGED <<noCtx, steering, commands, queueVars, wayVars>>

Executing(t) == exec[t] \in {"working", "calling"}

\* executeTask settles the status, whatever a cancel wrote meanwhile.
Settle(t, s) ==
    /\ status' = [status EXCEPT ![t] = s]
    /\ exec' = [exec EXCEPT ![t] = "ended"]
    /\ UNCHANGED <<noCtx, steering, commands, queueVars, wayVars>>

\* The test of the context, before the first and every later iteration.
SeesCancel(t) == exec[t] = "working" /\ t \in noCtx /\ Settle(t, "cancelled")

CallModel(t) ==
    /\ exec[t] = "working" /\ t \notin noCtx
    /\ exec' = [exec EXCEPT ![t] = "calling"]
    /\ UNCHANGED <<status, noCtx, steering, commands, queueVars, wayVars>>

RunTools(t) ==
    /\ exec[t] = "calling"
    /\ exec' = [exec EXCEPT ![t] = "working"]
    /\ UNCHANGED <<status, noCtx, steering, commands, queueVars, wayVars>>

ModelFails(t) == exec[t] = "calling" /\ Settle(t, "failed")

ModelAnswers(t) == exec[t] = "calling" /\ Settle(t, "completed")

\* scheduleArchive, some minutes after executeTask ended.
ArchiveSub(t) ==
    /\ exec[t] \in {"ended", "returned"}
    /\ t \in Listed \ Running
    /\ status' = [status EXCEPT ![t] = "archived"]
    /\ UNCHANGED <<exec, noCtx, steering, commands, queueVars, wayVars>>

\* cancelTaskLocked: a subagent run by RunSync has no cancel function.
CancelLocked(T) ==
    /\ status' = [t \in Subs |-> IF t \in T THEN "cancelled" ELSE status[t]]
    /\ noCtx' = noCtx \cup (T \ SyncSubs)

Command == commands < MaxCommands /\ commands' = commands + 1

\* By its ID or as "last"; "all" knows no parent.
CancelSub(T) ==
    /\ Command
    /\ T = Running \/ \E t \in Running : T = {t}
    /\ T # {}
    /\ CancelLocked(T)
    /\ UNCHANGED <<exec, steering, queueVars, wayVars>>

\* RunSync runs under the context of its caller, which may be stopped.
StopCaller(t) ==
    /\ t \in SyncSubs \ noCtx /\ Executing(t)
    /\ noCtx' = noCtx \cup {t}
    /\ UNCHANGED <<status, exec, steering, commands, queueVars, wayVars>>

\* Steer cancels, settles and spawns a replacement.
Steer(t) ==
    /\ Command
    /\ t \in Running
    /\ CancelLocked({t})
    /\ steering' = [steering EXCEPT ![GroupOf[t]] = @ + 1]
    /\ UNCHANGED <<exec, queueVars, wayVars>>

Respawn(t) ==
    /\ steering[GroupOf[t]] > 0
    /\ t \notin SyncSubs
    /\ MaySpawn(GroupOf[t])
    /\ Started(t)
    /\ steering' = [steering EXCEPT ![GroupOf[t]] = @ - 1]
    /\ UNCHANGED <<noCtx, commands, queueVars, wayVars>>

\* The limits may refuse the replacement of what is already cancelled.
RespawnFails(g) ==
    /\ steering[g] > 0
    /\ ~MaySpawn(g)
    /\ steering' = [steering EXCEPT ![g] = @ - 1]
    /\ UNCHANGED <<status, exec, noCtx, commands, queueVars, wayVars>>
-----------------------------------------------------------------------------
(* The announce queue. *)

\* The queue of a group leaves the map and its items go to a goroutine.
TakeQueue(g, items) ==
    /\ draining' = draining \cup {items}
    /\ pending' = [pending EXCEPT ![g] = <<>>]

\* Mutated: the items to drain are copied before the last one is appended.
Enqueue_CopiedFirst(g, items) ==
    IF Len(items) >= QueueCap
    THEN TakeQueue(g, pending[g]) /\ timer' = timer \ {g}
    ELSE /\ pending' = [pending EXCEPT ![g] = items]
         /\ timer' = timer \cup {g}
         /\ UNCHANGED draining

\* At the cap the queue is taken at once, otherwise its timer starts anew.
Enqueue(g, items) ==
    IF Len(items) >= QueueCap
    THEN TakeQueue(g, items) /\ timer' = timer \ {g}
    ELSE /\ pending' = [pending EXCEPT ![g] = items]
         /\ timer' = timer \cup {g}
         /\ UNCHANGED draining

\* The end of runTask, and of RunSync, whose caller has the result.
ReturnSub(t) ==
    /\ exec[t] = "ended"
    /\ exec' = [exec EXCEPT ![t] = "returned"]
    /\ IF t \in SyncSubs THEN UNCHANGED <<pending, timer, draining>>
       ELSE Enqueue(GroupOf[t], Append(pending[GroupOf[t]], t))
    /\ UNCHANGED <<status, noCtx, steering, commands, loose, fired, announcing, announced>>

QueueTimerFires(g) ==
    /\ \/ g \in timer /\ timer' = timer \ {g} /\ UNCHANGED loose
       \/ loose[g] > 0 /\ loose' = [loose EXCEPT ![g] = @ - 1] /\ UNCHANGED timer
    /\ fired' = [fired EXCEPT ![g] = @ + 1]
    /\ UNCHANGED <<taskVars, pending, wayVars>>

\* The callback takes the queue the group has by now, and does not stop the
\* timer of a younger one.
QueueTimerDrains(g) ==
    /\ fired[g] > 0
    /\ fired' = [fired EXCEPT ![g] = @ - 1]
    /\ IF pending[g] = <<>> THEN UNCHANGED <<pending, draining>>
       ELSE TakeQueue(g, pending[g])
    /\ timer' = timer \ {g}
    /\ loose' = [loose EXCEPT ![g] = @ + Cardinality(timer \cap {g})]
    /\ UNCHANGED <<taskVars, announcing, announced>>
-----------------------------------------------------------------------------
(* The announcing runs. *)

\* onDrain publishes one inbound message for the batch (the way of a message
\* to the consumer is Inbound's subject), and the consumer starts a goroutine
\* that locks the mutex of the session.
PublishBatch(b) ==
    /\ b \in draining
    /\ draining' = draining \ {b}
    /\ announcing' = announcing \cup {[batch |-> b, locked |-> FALSE]}
    /\ UNCHANGED <<taskVars, queueVars, announced>>

\* The session is the origin of the batch's first item.
Origin(a) == OriginOf[Head(a.batch)]

LockAnnounce(a) ==
    /\ a \in announcing /\ ~a.locked
    /\ \A o \in announcing : Origin(o) = Origin(a) => ~o.locked
    /\ announcing' = (announcing \ {a}) \cup {[a EXCEPT !.locked = TRUE]}
    /\ UNCHANGED <<taskVars, queueVars, draining, announced>>

\* The run has ended, and with it the goroutine.
EndAnnounce(a) ==
    /\ a \in announcing /\ a.locked
    /\ announcing' = announcing \ {a}
    /\ announced' = [t \in Subs |-> IF t \in ToSet(a.batch) THEN announced[t] + 1
                                    ELSE announced[t]]
    /\ UNCHANGED <<taskVars, queueVars, draining>>
-----------------------------------------------------------------------------
SubStep(t) ==
    \/ Spawn(t) \/ RunSync(t) \/ SeesCancel(t) \/ CallModel(t) \/ RunTools(t)
    \/ ModelFails(t) \/ ModelAnswers(t) \/ ReturnSub(t) \/ ArchiveSub(t)
    \/ StopCaller(t) \/ Steer(t) \/ Respawn(t)

AnnounceStep ==
    \/ \E g \in Groups : QueueTimerFires(g) \/ QueueTimerDrains(g)
    \/ \E b \in draining : PublishBatch(b)
    \/ \E a \in announcing : LockAnnounce(a) \/ EndAnnounce(a)

SubNext ==
    \/ \E t \in Subs : SubStep(t)
    \/ \E T \in SUBSET Subs : CancelSub(T)
    \/ \E g \in Groups : RespawnFails(g)
    \/ AnnounceStep

SubSpec == SubInit /\ [][SubNext]_subVars

SubTypeOK ==
    /\ status \in [Subs -> {"none", "running", "completed", "failed", "cancelled", "archived"}]
    /\ exec \in [Subs -> {"none", "working", "calling", "ended", "returned"}]
    /\ noCtx \subseteq Subs
    /\ steering \in [Groups -> Nat] /\ commands \in 0 .. MaxCommands
    /\ pending \in [Groups -> Seq(Subs)] /\ \A g \in Groups : Len(pending[g]) < QueueCap
    /\ \A g \in timer : g \in Groups /\ pending[g] # <<>>
    /\ loose \in [Groups -> Nat] /\ fired \in [Groups -> Nat]
    /\ draining \subseteq Seq(Subs)
    /\ announcing \subseteq [batch : Seq(Subs), locked : BOOLEAN]
    /\ announced \in [Subs -> Nat]

\* The state is well typed.  The subagents that execute and that nobody
\* cancelled never exceed the limit, but for those of RunSync, which ignores
\* it; and none that has ended keeps its place, whatever the cancel, the model
\* and the context do last.
PlacesMatchRuns ==
    /\ SubTypeOK
    /\ Cardinality({t \in Subs \ SyncSubs : Executing(t) /\ t \notin noCtx}) <= MaxConcurrent
    /\ \A t \in Running : Executing(t)

\* Every result of a subagent in the background is on its way to one
\* announcement, or was announced once; none waits in a queue without a timer.
ResultOnItsWay ==
    /\ \A t \in Subs \ SyncSubs :
         announced[t]
           + Cardinality({g \in Groups : t \in ToSet(pending[g])})
           + Cardinality({b \in draining : t \in ToSet(b)})
           + Cardinality({a \in announcing : t \in ToSet(a.batch)})
         = IF exec[t] = "returned" THEN 1 ELSE 0
    /\ \A g \in Groups : pending[g] # <<>> => g \in timer \/ fired[g] > 0
=============================================================================
