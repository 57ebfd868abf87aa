----------------------------- MODULE Scheduler -----------------------------
(***************************************************************************)
(* The run scheduler of the gateway (internal/scheduler): callers of       *)
(* Schedule, one SessionQueue per session key, debounce timers, the lanes  *)
(* (token pools) the runs execute in, /stop, /stopall, Reset and shutdown. *)
(*                                                                         *)
(* A critical section of SessionQueue.mu is one action unless it contains  *)
(* Lane.Submit: Submit blocks with the mutex held, so the mutex is state   *)
(* (lock) and the loop of startAvailable is walked step by step.           *)
(***************************************************************************)
EXTENDS Naturals, Sequences, FiniteSets

CONSTANTS
    Requests,        \* calls of Schedule, one each
    Sessions,        \* session keys
    Lanes,           \* lane names
    RunIds,          \* values of RunRequest.RunID
    SessionOf,       \* [Requests -> Sessions]
    LaneOf,          \* [Requests -> Lanes]: the lane argument of Schedule
    RunIdOf,         \* [Requests -> RunIds]
    OptMax,          \* [Requests -> Nat]: ScheduleOpts.MaxConcurrent, 0 = none
    Background,      \* requests scheduled with context.Background() (cron)
    Concurrency,     \* [Lanes -> Nat \ {0}]: LaneConfig.Concurrency
    DefaultMax,      \* QueueConfig.MaxConcurrent
    Cap,             \* QueueConfig.Cap
    Interrupt,       \* QueueConfig.Mode = "interrupt"
    DropNew,         \* QueueConfig.Drop = "new"
    Debounce,        \* QueueConfig.DebounceMs > 0
    Adaptive,        \* a tokenEstimateFn is set
    MaxStops,        \* bound: /stop commands per behaviour
    MaxStopAlls,     \* bound: /stopall commands per behaviour
    MaxResets,       \* bound: Reset calls per behaviour
    MayShutdown,     \* the behaviour may contain a shutdown
    NoReq, NoLane, Free

ASSUME RequestAssumption ==
    /\ SessionOf \in [Requests -> Sessions]
    /\ LaneOf \in [Requests -> Lanes]
    /\ RunIdOf \in [Requests -> RunIds]
    /\ OptMax \in [Requests -> Nat]
    /\ Background \subseteq Requests
    /\ NoReq \notin Requests
    /\ NoLane \notin Lanes

ASSUME ConfigAssumption ==
    /\ Concurrency \in [Lanes -> Nat \ {0}]
    /\ DefaultMax \in Nat \ {0}
    /\ Cap \in Nat \ {0}
    /\ MaxStops \in Nat /\ MaxStopAlls \in Nat /\ MaxResets \in Nat
    /\ {Interrupt, DropNew, Debounce, Adaptive, MayShutdown} \subseteq BOOLEAN

ASSUME FiniteAssumption == IsFiniteSet(Requests) /\ IsFiniteSet(RunIds)

VARIABLES
    pc,          \* the goroutine that called Schedule for a request
    run,         \* the lane goroutine that executes a request
    outcome,     \* what was sent on PendingRequest.ResultCh
    cancelled,   \* requests whose run context was cancelled by its entry
    runCtx,      \* the request whose context a run was started with
    genOf,       \* generation captured when a run was started
    lane,        \* SessionQueue.lane
    queue,       \* SessionQueue.queue
    active,      \* SessionQueue.activeRuns: run ID -> request of the entry
    order,       \* SessionQueue.activeOrder
    maxC,        \* SessionQueue.maxConcurrent
    parent,      \* SessionQueue.parentCtx, as the request that supplied it
    cutoff,      \* requests with EnqueuedAt before abortCutoffTime
    gen,         \* SessionQueue.generation
    timer,       \* context captured by the pending debounce timer, or NoReq
    callbacks,   \* fired timer callbacks waiting for the mutex, by context
    lock,        \* SessionQueue.mu held across steps: Free or a Holder
    tokens,      \* Lane.sem
    stopped,     \* lanes whose context is cancelled
    ctxDone,     \* the gateway context is cancelled
    draining,    \* Scheduler.draining
    stopAll,     \* progress of LaneManager.StopAll
    used         \* operator commands spent

callVars == <<pc, outcome>>
runVars == <<run, cancelled, runCtx, genOf>>
sessVars == <<lane, maxC, parent, cutoff, gen>>
timeVars == <<timer, callbacks>>
laneVars == <<tokens, stopped>>
haltVars == <<ctxDone, draining, stopAll>>
vars == <<pc, run, outcome, cancelled, runCtx, genOf, lane, queue, active,
          order, maxC, parent, cutoff, gen, timer, callbacks, lock, tokens,
          stopped, ctxDone, draining, stopAll, used>>

CallStates == {"new", "admitted", "sized", "stamped", "enqueuing", "returned"}
RunStates == {"none", "running", "answered", "scheduling", "exiting", "done"}
Outcomes == {"finished", "canceled", "dropped", "full", "stale", "cleared",
             "draining"}

\* The thread inside startAvailable, the context it passes to Submit, and
\* how far the loop is: "loop" (capacity test), "pop" (skipping stale heads),
\* "submit" (blocked in Lane.Submit for request sub).
Holder == [by : {"enqueue", "timer", "run"}, req : Requests,
           ctx : Requests \cup {NoReq}, at : {"loop", "pop", "submit"},
           sub : Requests \cup {NoReq}]

ASSUME FreeAssumption == Free \notin Holder

Commands == {"stop", "stopall", "reset"}
Bound == [stop |-> MaxStops, stopall |-> MaxStopAlls, reset |-> MaxResets]

Init ==
    /\ pc = [r \in Requests |-> "new"]
    /\ run = [r \in Requests |-> "none"]
    /\ outcome = [r \in Requests |-> <<>>]
    /\ cancelled = {}
    /\ runCtx = [r \in Requests |-> NoReq]
    /\ genOf = [r \in Requests |-> 0]
    /\ lane = [s \in Sessions |-> NoLane]
    /\ queue = [s \in Sessions |-> <<>>]
    /\ active = [s \in Sessions |-> [i \in RunIds |-> NoReq]]
    /\ order = [s \in Sessions |-> <<>>]
    /\ maxC = [s \in Sessions |-> DefaultMax]
    /\ parent = [s \in Sessions |-> NoReq]
    /\ cutoff = [s \in Sessions |-> {}]
    /\ gen = [s \in Sessions |-> 0]
    /\ timer = [s \in Sessions |-> NoReq]
    /\ callbacks = [s \in Sessions |-> [r \in Requests |-> 0]]
    /\ lock = [s \in Sessions |-> Free]
    /\ tokens = Concurrency
    /\ stopped = {}
    /\ ctxDone = FALSE
    /\ draining = FALSE
    /\ stopAll = "idle"
    /\ used = [c \in Commands |-> 0]

-----------------------------------------------------------------------------
Members(q) == {q[i] : i \in DOMAIN q}

\* One send on each of the channels of R; a second send on a channel would
\* panic, so the history of sends is kept.
Answered(R, o) ==
    [r \in Requests |-> IF r \in R THEN Append(outcome[r], o) ELSE outcome[r]]

ActiveIds(s) == {i \in RunIds : active[s][i] # NoReq}
ActiveReqs(s) == {active[s][i] : i \in ActiveIds(s)}

\* effectiveMaxConcurrent: the token estimate is re-read on every call and
\* may be above the threshold at any of them.
Limits(s) == IF Adaptive THEN {1, maxC[s]} ELSE {maxC[s]}

\* Mutated: one run too many.
HasCapacity_OffByOne(s, limit) == Cardinality(ActiveIds(s)) <= limit

HasCapacity(s, limit) == Cardinality(ActiveIds(s)) < limit

CtxDone(r) == ctxDone /\ r \notin Background

\* The order without the first occurrence of id: the elements before it, then
\* those after it.
RemoveFromOrder(seq, id) ==
    LET n == Cardinality({i \in 1..Len(seq) : \A j \in 1..i : seq[j] # id})
    IN SubSeq(seq, 1, n) \o SubSeq(seq, n + 2, Len(seq))

\* What the thread does once it is out of the critical section: Enqueue
\* returns to its caller, executeRun returns to the lane goroutine.
Leave(by, r) ==
    /\ pc' = IF by = "enqueue" THEN [pc EXCEPT ![r] = "returned"] ELSE pc
    /\ run' = IF by = "run" THEN [run EXCEPT ![r] = "exiting"] ELSE run

\* The thread stays in the critical section, inside startAvailable.
StartAvailable(s, by, r, ctx) ==
    /\ lock' = [lock EXCEPT ![s] =
         [by |-> by, req |-> r, ctx |-> ctx, at |-> "loop", sub |-> NoReq]]
    /\ pc' = IF by = "enqueue" THEN [pc EXCEPT ![r] = "enqueuing"] ELSE pc
    /\ run' = IF by = "run" THEN [run EXCEPT ![r] = "scheduling"] ELSE run

\* The holder of the mutex moves on inside startAvailable.
LockAt(s, at, sub) ==
    [lock EXCEPT ![s] = [by |-> lock[s].by, req |-> lock[s].req,
                         ctx |-> lock[s].ctx, at |-> at, sub |-> sub]]

\* if hasCapacity && queue not empty { scheduleNext(ctx) }, at the end of
\* Enqueue and of executeRun, after their changes of queue and active.
TryScheduleNext(s, by, r, ctx) ==
    \E limit \in Limits(s) :
      IF HasCapacity(s, limit)' /\ queue'[s] # <<>>
      THEN IF Debounce
           THEN /\ timer' = [timer EXCEPT ![s] = ctx]
                /\ Leave(by, r)
                /\ UNCHANGED lock
           ELSE /\ StartAvailable(s, by, r, ctx)
                /\ UNCHANGED timer
      ELSE /\ Leave(by, r)
           /\ UNCHANGED <<timer, lock>>
-----------------------------------------------------------------------------
(* Schedule and ScheduleWithOpts, up to the session queue. *)

ScheduleRefused(r) ==
    /\ pc[r] = "new"
    /\ draining
    /\ outcome' = Answered({r}, "draining")
    /\ pc' = [pc EXCEPT ![r] = "returned"]
    /\ UNCHANGED <<runVars, queue, active, order, sessVars, timeVars, lock,
                   laneVars, haltVars, used>>

\* The session keeps the lane of the request that created it.
Schedule(r) ==
    LET s == SessionOf[r] IN
    /\ pc[r] = "new"
    /\ ~draining
    /\ pc' = [pc EXCEPT ![r] = IF OptMax[r] > 0 THEN "admitted" ELSE "sized"]
    /\ lane' = IF lane[s] = NoLane THEN [lane EXCEPT ![s] = LaneOf[r]] ELSE lane
    /\ UNCHANGED <<runVars, outcome, queue, active, order, maxC, parent,
                   cutoff, gen, timeVars, lock, laneVars, haltVars, used>>

SetMaxConcurrent(r) ==
    LET s == SessionOf[r] IN
    /\ pc[r] = "admitted"
    /\ lock[s] = Free
    /\ maxC' = [maxC EXCEPT ![s] = IF OptMax[r] = 0 THEN 1 ELSE OptMax[r]]
    /\ pc' = [pc EXCEPT ![r] = "sized"]
    /\ UNCHANGED <<runVars, outcome, lane, queue, active, order, parent,
                   cutoff, gen, timeVars, lock, laneVars, haltVars, used>>

\* EnqueuedAt is read before the mutex is taken.
Stamp(r) ==
    /\ pc[r] = "sized"
    /\ pc' = [pc EXCEPT ![r] = "stamped"]
    /\ UNCHANGED <<runVars, outcome, queue, active, order, sessVars, timeVars,
                   lock, laneVars, haltVars, used>>

SetParent(s, r) ==
    parent' = IF parent[s] = NoReq THEN [parent EXCEPT ![s] = r] ELSE parent

\* Mutated: the rejected request is answered and queued all the same.
EnqueueFifo_RejectedStays(r) ==
    LET s == SessionOf[r] IN
    /\ ~Interrupt
    /\ pc[r] = "stamped"
    /\ lock[s] = Free
    /\ SetParent(s, r)
    /\ queue' = [queue EXCEPT ![s] = Append(@, r)]
    /\ outcome' = IF Len(queue[s]) >= Cap THEN Answered({r}, "full") ELSE outcome
    /\ UNCHANGED <<cancelled, runCtx, genOf, active, order, lane, maxC, cutoff,
                   gen, callbacks, laneVars, haltVars, used>>
    /\ TryScheduleNext(s, "enqueue", r, r)

\* Enqueue in queue and followup mode, with applyDropPolicy.
EnqueueFifo(r) ==
    LET s == SessionOf[r]
        q == queue[s]
        full == Len(q) >= Cap
    IN
    /\ ~Interrupt
    /\ pc[r] = "stamped"
    /\ lock[s] = Free
    /\ SetParent(s, r)
    /\ \/ /\ ~full
          /\ queue' = [queue EXCEPT ![s] = Append(q, r)]
          /\ UNCHANGED outcome
       \/ /\ full /\ ~DropNew
          /\ queue' = [queue EXCEPT ![s] = Append(Tail(q), r)]
          /\ outcome' = Answered({Head(q)}, "dropped")
       \/ /\ full /\ DropNew
          /\ outcome' = Answered({r}, "full")
          /\ UNCHANGED queue
    /\ UNCHANGED <<cancelled, runCtx, genOf, active, order, lane, maxC, cutoff,
                   gen, callbacks, laneVars, haltVars, used>>
    /\ TryScheduleNext(s, "enqueue", r, r)

\* Mutated: the active runs are neither cancelled nor forgotten.
EnqueueInterrupt_NoCancel(r) ==
    LET s == SessionOf[r] IN
    /\ Interrupt
    /\ pc[r] = "stamped"
    /\ lock[s] = Free
    /\ SetParent(s, r)
    /\ outcome' = Answered(Members(queue[s]), "canceled")
    /\ queue' = [queue EXCEPT ![s] = <<r>>]
    /\ UNCHANGED <<cancelled, active, order, runCtx, genOf, lane, maxC, cutoff,
                   gen, callbacks, laneVars, haltVars, used>>
    /\ TryScheduleNext(s, "enqueue", r, r)

\* Enqueue in interrupt mode: the active runs are cancelled and forgotten,
\* the queue is drained, and the request is the only one left.
EnqueueInterrupt(r) ==
    LET s == SessionOf[r] IN
    /\ Interrupt
    /\ pc[r] = "stamped"
    /\ lock[s] = Free
    /\ SetParent(s, r)
    /\ cancelled' = cancelled \cup ActiveReqs(s)
    /\ active' = [active EXCEPT ![s] = [i \in RunIds |-> NoReq]]
    /\ order' = [order EXCEPT ![s] = <<>>]
    /\ outcome' = Answered(Members(queue[s]), "canceled")
    /\ queue' = [queue EXCEPT ![s] = <<r>>]
    /\ UNCHANGED <<runCtx, genOf, lane, maxC, cutoff, gen, callbacks, laneVars,
                   haltVars, used>>
    /\ TryScheduleNext(s, "enqueue", r, r)
-----------------------------------------------------------------------------
(* The debounce timer. *)

TimerFires(s) ==
    /\ timer[s] # NoReq
    /\ callbacks' = [callbacks EXCEPT ![s][timer[s]] = @ + 1]
    /\ timer' = [timer EXCEPT ![s] = NoReq]
    /\ UNCHANGED <<callVars, runVars, queue, active, order, sessVars, lock,
                   laneVars, haltVars, used>>

\* The callback takes the mutex and tests capacity and queue again.
TimerCallback(s, ctx) ==
    /\ callbacks[s][ctx] > 0
    /\ lock[s] = Free
    /\ callbacks' = [callbacks EXCEPT ![s][ctx] = @ - 1]
    /\ \E limit \in Limits(s) :
         IF HasCapacity(s, limit) /\ queue[s] # <<>>
         THEN StartAvailable(s, "timer", ctx, ctx)
         ELSE UNCHANGED <<lock, pc, run>>
    /\ UNCHANGED <<outcome, cancelled, runCtx, genOf, queue, active, order,
                   sessVars, timer, laneVars, haltVars, used>>
-----------------------------------------------------------------------------
(* startAvailable and startOne, by the thread that holds the mutex. *)

\* The loop ends (no capacity, or nothing queued) and the mutex is released.
StopStarting(s) ==
    /\ lock[s] # Free
    /\ \/ queue[s] = <<>> /\ lock[s].at \in {"loop", "pop"}
       \/ /\ lock[s].at = "loop"
          /\ \E limit \in Limits(s) : ~HasCapacity(s, limit)
    /\ Leave(lock[s].by, lock[s].req)
    /\ lock' = [lock EXCEPT ![s] = Free]
    /\ UNCHANGED <<outcome, cancelled, runCtx, genOf, queue, active, order,
                   sessVars, timeVars, laneVars, haltVars, used>>

MayPop(s) ==
    /\ lock[s] # Free
    /\ queue[s] # <<>>
    /\ \/ lock[s].at = "pop"
       \/ /\ lock[s].at = "loop"
          /\ \E limit \in Limits(s) : HasCapacity(s, limit)

\* A head enqueued before the last /stopall is answered and skipped.
SkipStale(s) ==
    /\ MayPop(s)
    /\ Head(queue[s]) \in cutoff[s]
    /\ outcome' = Answered({Head(queue[s])}, "stale")
    /\ queue' = [queue EXCEPT ![s] = Tail(@)]
    /\ lock' = LockAt(s, "pop", NoReq)
    /\ UNCHANGED <<pc, runVars, active, order, sessVars, timeVars, laneVars,
                   haltVars, used>>

\* The first fresh head clears the cutoff, becomes active and is submitted.
StartOne(s) ==
    LET r == Head(queue[s]) IN
    /\ MayPop(s)
    /\ r \notin cutoff[s]
    /\ cutoff' = [cutoff EXCEPT ![s] = {}]
    /\ queue' = [queue EXCEPT ![s] = Tail(@)]
    /\ active' = [active EXCEPT ![s][RunIdOf[r]] = r]
    /\ order' = [order EXCEPT ![s] = Append(@, RunIdOf[r])]
    /\ genOf' = [genOf EXCEPT ![r] = gen[s]]
    /\ lock' = LockAt(s, "submit", r)
    /\ UNCHANGED <<callVars, run, cancelled, runCtx, lane, maxC, parent, gen,
                   timeVars, laneVars, haltVars, used>>

\* Lane.Submit gets a token: the run starts under the context of the thread
\* that submits it.  The select has no priority, so this may happen on a
\* stopped lane too.
SubmitToken(s) ==
    LET r == lock[s].sub IN
    /\ lock[s] # Free
    /\ lock[s].at = "submit"
    /\ tokens[lane[s]] > 0
    /\ tokens' = [tokens EXCEPT ![lane[s]] = @ - 1]
    /\ run' = [run EXCEPT ![r] = "running"]
    /\ runCtx' = [runCtx EXCEPT ![r] = lock[s].ctx]
    /\ lock' = LockAt(s, "loop", NoReq)
    /\ UNCHANGED <<callVars, cancelled, genOf, queue, active, order, sessVars,
                   timeVars, stopped, haltVars, used>>

\* Mutated: the refused request gets no answer.
SubmitRefused_Unanswered(s) ==
    LET r == lock[s].sub IN
    /\ lock[s] # Free
    /\ lock[s].at = "submit"
    /\ CtxDone(lock[s].ctx) \/ lane[s] \in stopped
    /\ active' = [active EXCEPT ![s][RunIdOf[r]] = NoReq]
    /\ order' = [order EXCEPT ![s] = RemoveFromOrder(@, RunIdOf[r])]
    /\ lock' = LockAt(s, "loop", NoReq)
    /\ UNCHANGED <<callVars, runVars, queue, sessVars, timeVars, laneVars,
                   haltVars, used>>

\* Lane.Submit returns an error: the context is done or the lane is stopped.
SubmitRefused(s) ==
    LET r == lock[s].sub IN
    /\ lock[s] # Free
    /\ lock[s].at = "submit"
    /\ CtxDone(lock[s].ctx) \/ lane[s] \in stopped
    /\ outcome' = Answered({r}, "canceled")
    /\ active' = [active EXCEPT ![s][RunIdOf[r]] = NoReq]
    /\ order' = [order EXCEPT ![s] = RemoveFromOrder(@, RunIdOf[r])]
    /\ lock' = LockAt(s, "loop", NoReq)
    /\ UNCHANGED <<pc, runVars, queue, sessVars, timeVars, laneVars, haltVars,
                   used>>
-----------------------------------------------------------------------------
(* executeRun in the lane goroutine. *)

\* The run function returns; its outcome is delivered before the mutex.
FinishRun(r) ==
    /\ run[r] = "running"
    /\ outcome' = Answered({r}, "finished")
    /\ run' = [run EXCEPT ![r] = "answered"]
    /\ UNCHANGED <<pc, cancelled, runCtx, genOf, queue, active, order,
                   sessVars, timeVars, lock, laneVars, haltVars, used>>

\* Mutated: a run whose entry is gone (after /stop) leaves without scheduling.
CompleteRun_OnlyIfFound(r) ==
    LET s == SessionOf[r]
        id == RunIdOf[r]
    IN
    /\ run[r] = "answered"
    /\ lock[s] = Free
    /\ UNCHANGED <<outcome, cancelled, runCtx, genOf, queue, sessVars,
                   callbacks, laneVars, haltVars, used>>
    /\ IF active[s][id] # NoReq
       THEN /\ active' = [active EXCEPT ![s][id] = NoReq]
            /\ order' = [order EXCEPT ![s] = RemoveFromOrder(@, id)]
            /\ TryScheduleNext(s, "run", r, parent[s])
       ELSE /\ Leave("run", r)
            /\ UNCHANGED <<active, order, timer, lock>>

\* The entry found under the run ID belongs to the current generation: it is
\* removed, whichever request it belongs to.
CompleteRun(r) ==
    LET s == SessionOf[r]
        id == RunIdOf[r]
        entry == active[s][id]
        found == entry # NoReq /\ genOf[entry] = gen[s]
    IN
    /\ run[r] = "answered"
    /\ lock[s] = Free
    /\ found \/ genOf[r] = gen[s]
    /\ active' = IF found THEN [active EXCEPT ![s][id] = NoReq] ELSE active
    /\ order' = IF found THEN [order EXCEPT ![s] = RemoveFromOrder(@, id)]
                         ELSE order
    /\ UNCHANGED <<outcome, cancelled, runCtx, genOf, queue, sessVars,
                   callbacks, laneVars, haltVars, used>>
    /\ TryScheduleNext(s, "run", r, parent[s])

\* A completion of an older generation leaves the queue alone.
CompleteOldRun(r) ==
    LET s == SessionOf[r]
        entry == active[s][RunIdOf[r]]
    IN
    /\ run[r] = "answered"
    /\ lock[s] = Free
    /\ ~(entry # NoReq /\ genOf[entry] = gen[s])
    /\ genOf[r] # gen[s]
    /\ run' = [run EXCEPT ![r] = "exiting"]
    /\ UNCHANGED <<callVars, cancelled, runCtx, genOf, queue, active, order,
                   sessVars, timeVars, lock, laneVars, haltVars, used>>

\* Mutated: the token of a cancelled run is lost.
ReturnToken_NotIfCancelled(r) ==
    LET l == lane[SessionOf[r]] IN
    /\ run[r] = "exiting"
    /\ run' = [run EXCEPT ![r] = "done"]
    /\ tokens' = IF r \in cancelled THEN tokens ELSE [tokens EXCEPT ![l] = @ + 1]
    /\ UNCHANGED <<callVars, cancelled, runCtx, genOf, queue, active, order,
                   sessVars, timeVars, lock, stopped, haltVars, used>>

\* The deferred function of Submit's goroutine gives the token back.
ReturnToken(r) ==
    LET l == lane[SessionOf[r]] IN
    /\ run[r] = "exiting"
    /\ run' = [run EXCEPT ![r] = "done"]
    /\ tokens' = [tokens EXCEPT ![l] = @ + 1]
    /\ UNCHANGED <<callVars, cancelled, runCtx, genOf, queue, active, order,
                   sessVars, timeVars, lock, stopped, haltVars, used>>
-----------------------------------------------------------------------------
(* Commands and shutdown. *)

Spend(c) == used[c] < Bound[c] /\ used' = [used EXCEPT ![c] = @ + 1]

\* Mutated: the entry is forgotten but its context is not cancelled.
CancelOne_Forget(s) ==
    /\ lane[s] # NoLane
    /\ lock[s] = Free
    /\ order[s] # <<>>
    /\ Spend("stop")
    /\ active' = [active EXCEPT ![s][Head(order[s])] = NoReq]
    /\ order' = [order EXCEPT ![s] = Tail(@)]
    /\ UNCHANGED <<callVars, cancelled, run, runCtx, genOf, queue, sessVars,
                   timeVars, lock, laneVars, haltVars>>

\* /stop: the head of activeOrder is cancelled and forgotten.  A head that is
\* no longer in activeRuns is left where it is and nothing is cancelled.
CancelOne(s) ==
    LET id == Head(order[s]) IN
    /\ lane[s] # NoLane
    /\ lock[s] = Free
    /\ Spend("stop")
    /\ \/ /\ order[s] # <<>> /\ active[s][id] # NoReq
          /\ cancelled' = cancelled \cup {active[s][id]}
          /\ active' = [active EXCEPT ![s][id] = NoReq]
          /\ order' = [order EXCEPT ![s] = Tail(@)]
       \/ /\ order[s] = <<>> \/ (order[s] # <<>> /\ active[s][id] = NoReq)
          /\ UNCHANGED <<cancelled, active, order>>
    /\ UNCHANGED <<callVars, run, runCtx, genOf, queue, sessVars, timeVars,
                   lock, laneVars, haltVars>>

\* Mutated: the drained requests stay in the queue.
DropEverything_KeepQueue(s, o) ==
    /\ cancelled' = cancelled \cup ActiveReqs(s)
    /\ active' = [active EXCEPT ![s] = [i \in RunIds |-> NoReq]]
    /\ order' = [order EXCEPT ![s] = <<>>]
    /\ outcome' = Answered(Members(queue[s]), o)
    /\ UNCHANGED queue

\* Every run of the session is cancelled and forgotten and every queued
\* request is answered with o.
DropEverything(s, o) ==
    /\ cancelled' = cancelled \cup ActiveReqs(s)
    /\ active' = [active EXCEPT ![s] = [i \in RunIds |-> NoReq]]
    /\ order' = [order EXCEPT ![s] = <<>>]
    /\ outcome' = Answered(Members(queue[s]), o)
    /\ queue' = [queue EXCEPT ![s] = <<>>]

\* Requests of s that have read the clock in Enqueue.
StampedReqs(s) ==
    {r \in Requests : SessionOf[r] = s
                      /\ pc[r] \in {"stamped", "enqueuing", "returned"}}

\* /stopall: the cutoff is now, so it lies after every stamp taken so far.
CancelAll(s) ==
    /\ lane[s] # NoLane
    /\ lock[s] = Free
    /\ Spend("stopall")
    /\ DropEverything(s, "canceled")
    /\ cutoff' = [cutoff EXCEPT ![s] = StampedReqs(s)]
    /\ UNCHANGED <<pc, run, runCtx, genOf, lane, maxC, parent, gen, timeVars,
                   lock, laneVars, haltVars>>

\* Mutated: the generation is bumped but activeRuns is kept.
Reset_KeepActive(s) ==
    /\ lane[s] # NoLane
    /\ lock[s] = Free
    /\ Spend("reset")
    /\ cancelled' = cancelled \cup ActiveReqs(s)
    /\ outcome' = Answered(Members(queue[s]), "cleared")
    /\ queue' = [queue EXCEPT ![s] = <<>>]
    /\ gen' = [gen EXCEPT ![s] = @ + 1]
    /\ UNCHANGED <<pc, run, runCtx, genOf, active, order, lane, maxC, parent,
                   cutoff, timeVars, lock, laneVars, haltVars>>

Reset(s) ==
    /\ lane[s] # NoLane
    /\ lock[s] = Free
    /\ Spend("reset")
    /\ DropEverything(s, "cleared")
    /\ gen' = [gen EXCEPT ![s] = @ + 1]
    /\ UNCHANGED <<pc, run, runCtx, genOf, lane, maxC, parent, cutoff,
                   timeVars, lock, laneVars, haltVars>>

\* The signal handler cancels the gateway context; Stop is deferred after it.
Shutdown ==
    /\ MayShutdown
    /\ ~ctxDone
    /\ ctxDone' = TRUE
    /\ UNCHANGED <<callVars, runVars, queue, active, order, sessVars, timeVars,
                   lock, laneVars, draining, stopAll, used>>

MarkDraining ==
    /\ ctxDone
    /\ ~draining
    /\ draining' = TRUE
    /\ stopAll' = "stopping"
    /\ UNCHANGED <<callVars, runVars, queue, active, order, sessVars, timeVars,
                   lock, laneVars, ctxDone, used>>

\* The runs of lane l that Lane.wg counts.
Working(l) ==
    {r \in Requests : lane[SessionOf[r]] = l
                      /\ run[r] \in {"running", "answered", "scheduling",
                                     "exiting"}}

\* Mutated: the lane waits for its work before it is cancelled.
StopLane_WaitFirst(l) ==
    /\ stopAll = "stopping"
    /\ l \notin stopped
    /\ Working(l) = {}
    /\ stopped' = stopped \cup {l}
    /\ UNCHANGED <<callVars, runVars, queue, active, order, sessVars, timeVars,
                   lock, tokens, haltVars, used>>

\* Lane.Stop cancels the lane, then waits for its work; the next lane is
\* stopped after that.
StopLane(l) ==
    /\ stopAll = "stopping"
    /\ l \notin stopped
    /\ \A k \in stopped : Working(k) = {}
    /\ stopped' = stopped \cup {l}
    /\ UNCHANGED <<callVars, runVars, queue, active, order, sessVars, timeVars,
                   lock, tokens, haltVars, used>>

StopReturns ==
    /\ stopAll = "stopping"
    /\ stopped = Lanes
    /\ \A k \in Lanes : Working(k) = {}
    /\ stopAll' = "stopped"
    /\ UNCHANGED <<callVars, runVars, queue, active, order, sessVars, timeVars,
                   lock, laneVars, ctxDone, draining, used>>
-----------------------------------------------------------------------------
CallerStep(r) ==
    \/ ScheduleRefused(r) \/ Schedule(r) \/ SetMaxConcurrent(r) \/ Stamp(r)
    \/ EnqueueFifo(r) \/ EnqueueInterrupt(r)

TimerStep(s) == TimerFires(s) \/ \E ctx \in Requests : TimerCallback(s, ctx)

LockStep(s) ==
    StopStarting(s) \/ SkipStale(s) \/ StartOne(s)
    \/ SubmitToken(s) \/ SubmitRefused(s)

RunStep(r) == FinishRun(r) \/ CompleteRun(r) \/ CompleteOldRun(r) \/ ReturnToken(r)

CommandStep(s) == CancelOne(s) \/ CancelAll(s) \/ Reset(s)

HaltStep == MarkDraining \/ StopReturns \/ \E l \in Lanes : StopLane(l)

Next ==
    \/ \E r \in Requests : CallerStep(r) \/ RunStep(r)
    \/ \E s \in Sessions : TimerStep(s) \/ LockStep(s) \/ CommandStep(s)
    \/ Shutdown \/ HaltStep

Spec == Init /\ [][Next]_vars

\* The Go runtime runs every runnable goroutine, mutex and channel waiters are
\* served in turn, timers fire, and a run function returns.  Nobody is obliged
\* to call Schedule, to send a command or to shut down.
Fairness ==
    /\ \A r \in Requests : WF_vars(CallerStep(r) /\ pc[r] # "new")
    /\ \A r \in Requests : WF_vars(RunStep(r))
    /\ \A s \in Sessions : WF_vars(TimerFires(s)) /\ WF_vars(LockStep(s))
    /\ \A s \in Sessions, ctx \in Requests : WF_vars(TimerCallback(s, ctx))
    /\ WF_vars(HaltStep)

FairSpec == Spec /\ Fairness
-----------------------------------------------------------------------------
(* Properties. *)

\* Every variable holds a value of its type.
TypeOK ==
    /\ pc \in [Requests -> CallStates]
    /\ run \in [Requests -> RunStates]
    /\ outcome \in [Requests -> Seq(Outcomes)]
    /\ cancelled \subseteq Requests
    /\ runCtx \in [Requests -> Requests \cup {NoReq}]
    /\ genOf \in [Requests -> Nat]
    /\ lane \in [Sessions -> Lanes \cup {NoLane}]
    /\ queue \in [Sessions -> Seq(Requests)]
    /\ active \in [Sessions -> [RunIds -> Requests \cup {NoReq}]]
    /\ order \in [Sessions -> Seq(RunIds)]
    /\ maxC \in [Sessions -> Nat \ {0}]
    /\ parent \in [Sessions -> Requests \cup {NoReq}]
    /\ cutoff \in [Sessions -> SUBSET Requests]
    /\ gen \in [Sessions -> Nat]
    /\ timer \in [Sessions -> Requests \cup {NoReq}]
    /\ callbacks \in [Sessions -> [Requests -> Nat]]
    /\ lock \in [Sessions -> Holder \cup {Free}]
    /\ tokens \in [Lanes -> Nat]
    /\ stopped \subseteq Lanes
    /\ ctxDone \in BOOLEAN
    /\ draining \in BOOLEAN
    /\ stopAll \in {"idle", "stopping", "stopped"}
    /\ used \in [Commands -> Nat]

\* A result channel is written at most once, whatever races between drop
\* policy, drain, stale skip, refused submit and completion: each writer also
\* closes the channel, so a second write would panic the gateway.
AnsweredOnce == \A r \in Requests : Len(outcome[r]) <= 1

\* No token of a lane is lost or duplicated: the free ones and the working
\* goroutines together are the lane's concurrency.  The limit on the runs of a
\* lane follows.
TokensConserved ==
    \A l \in Lanes : tokens[l] + Cardinality(Working(l)) = Concurrency[l]

Running(s) == {r \in Requests : SessionOf[r] = s /\ run[r] = "running"}
LimitOf(s) ==
    {DefaultMax} \cup
    {OptMax[r] : r \in {q \in Requests : SessionOf[q] = s /\ pc[q] \notin {"new", "admitted"}}}

\* Two runs of one session that nobody cancelled never exceed the largest
\* concurrency the session was given so far, whatever completions, timers and
\* callers interleave.
UncancelledWithinLimit ==
    \A s \in Sessions :
      \E n \in LimitOf(s) : Cardinality(Running(s) \ cancelled) <= n

\* Somebody will come back to the queue of s: a timer, a fired callback, or a
\* run of this generation.
HasWaker(s) ==
    \/ timer[s] # NoReq
    \/ \E ctx \in Requests : callbacks[s][ctx] > 0
    \/ \E r \in Requests : /\ SessionOf[r] = s
                           /\ run[r] \in {"running", "answered"}
                           /\ genOf[r] = gen[s]

\* No lost wake-up: when requests wait and nobody is inside the queue, somebody
\* will come back to it.
QueuedHasWaker ==
    \A s \in Sessions : queue[s] # <<>> /\ lock[s] = Free => HasWaker(s)

\* activeOrder lists exactly the runs in activeRuns, once each ("FIFO order of
\* active runIDs"): otherwise /stop looks at a run that is not there.
OrderMatchesActive ==
    \A s \in Sessions : /\ Members(order[s]) = ActiveIds(s)
                        /\ Len(order[s]) = Cardinality(ActiveIds(s))

\* Every executing run that was not cancelled has an entry of its own in
\* activeRuns, so /stopall and an interrupt reach it.
UncancelledIsRegistered ==
    \A r \in Requests :
      run[r] = "running" /\ r \notin cancelled =>
        \/ active[SessionOf[r]][RunIdOf[r]] = r
        \/ genOf[r] # gen[SessionOf[r]]

\* What /stop, /stopall and an interrupt look at is what executes.
RegistryMatchesRuns == OrderMatchesActive /\ UncancelledIsRegistered

\* No leaked entry: outside the critical section an entry of activeRuns belongs
\* to a run that still executes or is about to remove it.  A leaked one would
\* take the capacity of its session for ever.
NoLeakedEntry ==
    \A s \in Sessions :
      lock[s] = Free => \A r \in ActiveReqs(s) : run[r] \in {"running", "answered"}

\* In interrupt mode at most one request waits and at most one uncancelled run
\* executes per session, even when the session allows more.
InterruptKeepsOne ==
    Interrupt => \A s \in Sessions : /\ Len(queue[s]) <= 1
                                     /\ Cardinality(Running(s) \ cancelled) <= 1

\* Every request that reached its queue gets a result on its channel.
EventuallyAnswered ==
    \A r \in Requests : pc[r] = "stamped" ~> outcome[r] # <<>>

\* The same, as long as no session stays inside Lane.Submit for ever: blocking
\* with the mutex held is the only way in which a request is left unanswered,
\* whatever is stopped, shut down or refused meanwhile.
AnsweredUnlessBlocked ==
    (\A s \in Sessions : []<>(lock[s] = Free)) => EventuallyAnswered

\* After a shutdown Stop returns, even if runs and Submits were blocking each
\* other: the cancelled contexts release every Submit.
ShutdownCompletes == ctxDone ~> stopAll = "stopped"
-----------------------------------------------------------------------------
(* Strengthening of AnsweredOnce that every step preserves. *)

\* An unanswered request that no goroutine executes yet.
Idle(r) == outcome[r] = <<>> /\ run[r] = "none"

\* A call that has not entered its queue is nowhere in the scheduler.
EarlyCalls ==
    \A r \in Requests :
      pc[r] \in {"new", "admitted", "sized", "stamped"} => Idle(r)

\* A queue holds unanswered requests of its session, each once.
QueueEntries ==
    \A s \in Sessions :
      /\ \A i \in 1..Len(queue[s]) :
           /\ SessionOf[queue[s][i]] = s
           /\ Idle(queue[s][i])
           /\ pc[queue[s][i]] \in {"enqueuing", "returned"}
      /\ \A i, j \in 1..Len(queue[s]) : queue[s][i] = queue[s][j] => i = j

\* The request inside Submit has left the queue and was not answered.
SubmitEntry ==
    \A s \in Sessions :
      lock[s] # Free /\ lock[s].at = "submit" =>
        /\ lock[s].sub \in Requests
        /\ SessionOf[lock[s].sub] = s
        /\ Idle(lock[s].sub)
        /\ pc[lock[s].sub] \in {"enqueuing", "returned"}
        /\ \A i \in 1..Len(queue[s]) : queue[s][i] # lock[s].sub

\* A completing run that holds the mutex is one of the session.
LockOwner ==
    \A s \in Sessions :
      lock[s] # Free /\ lock[s].by = "run" =>
        SessionOf[lock[s].req] = s /\ run[lock[s].req] = "scheduling"

\* A run is answered when it ends, not before.
RunningUnanswered ==
    \A r \in Requests :
      /\ run[r] = "running" => outcome[r] = <<>>
      /\ run[r] # "none" => pc[r] \in {"enqueuing", "returned"}

AnswerInv ==
    /\ TypeOK
    /\ AnsweredOnce
    /\ EarlyCalls
    /\ QueueEntries
    /\ SubmitEntry
    /\ LockOwner
    /\ RunningUnanswered
-----------------------------------------------------------------------------
(* Strengthenings of the other invariants; AnswerInv is part of each. *)

\* The lane of a session is known before any of its calls goes on.
LaneKnown ==
    /\ \A r \in Requests :
         pc[r] \in {"admitted", "sized", "stamped"} \/ run[r] # "none" =>
           lane[SessionOf[r]] # NoLane
    /\ \A s \in Sessions :
         queue[s] # <<>> \/ lock[s] # Free => lane[s] # NoLane

\* A run answers before it does anything else.
EndedAnswered ==
    \A r \in Requests : run[r] \notin {"none", "running"} => outcome[r] # <<>>

\* A thread inside Enqueue belongs to a call that has entered it.
EnqueueOwner ==
    \A s \in Sessions :
      lock[s] # Free /\ lock[s].by = "enqueue" =>
        pc[lock[s].req] \in {"enqueuing", "returned"}

LaneInv ==
    AnswerInv /\ LaneKnown /\ EndedAnswered /\ EnqueueOwner /\ TokensConserved

Submitting(s, r) == lock[s] # Free /\ lock[s].at = "submit" /\ lock[s].sub = r

\* An entry of activeRuns is of its session, under its run ID and of the current
\* generation; its request executes, is about to remove it, or is in Submit.
EntriesCurrent(s) ==
    \A i \in RunIds : active[s][i] # NoReq =>
      /\ SessionOf[active[s][i]] = s
      /\ RunIdOf[active[s][i]] = i
      /\ genOf[active[s][i]] = gen[s]
      /\ \/ run[active[s][i]] \in {"running", "answered"}
         \/ Submitting(s, active[s][i])

\* A session in which something waits has a context to start it with.
ParentKnown(s) == queue[s] # <<>> => parent[s] # NoReq

\* The limit in force was given to the session, and one it was given bounds its
\* entries, strictly while startOne looks for the next request to start.
LimitKnown(s) ==
    /\ maxC[s] \in LimitOf(s)
    /\ \E n \in LimitOf(s) :
         /\ Cardinality(ActiveIds(s)) <= n
         /\ lock[s] # Free /\ lock[s].at = "pop" => Cardinality(ActiveIds(s)) < n

\* In interrupt mode a request waits or one has an entry, never both.
OneAtATime(s) == Interrupt => Len(queue[s]) + Cardinality(ActiveIds(s)) <= 1

SessionInv(s) ==
    /\ EntriesCurrent(s) /\ ParentKnown(s) /\ LimitKnown(s) /\ OneAtATime(s)
    /\ queue[s] # <<>> /\ lock[s] = Free => HasWaker(s)

RegistryInv ==
    /\ AnswerInv
    /\ \A r \in Requests : pc[r] = "admitted" => OptMax[r] # 0
    /\ \A s \in Sessions : SessionInv(s)

\* The requests of a session have different run IDs.  Those started by a message
\* of a channel have, up to the eight characters of a UUID in the ID; those of a
\* teammate or of a job need not.
DistinctRunIds ==
    \A r, q \in Requests :
      SessionOf[r] = SessionOf[q] /\ RunIdOf[r] = RunIdOf[q] => r = q

\* A run that nobody cancelled, and a request in Submit, own their entry.
OwnEntries(s) ==
    \A r \in Requests :
      /\ SessionOf[r] = s /\ run[r] \in {"running", "answered"} /\ r \notin cancelled =>
           active[s][RunIdOf[r]] = r
      /\ Submitting(s, r) => active[s][RunIdOf[r]] = r

\* activeOrder is activeRuns without repetitions.
OrderExact(s) ==
    /\ Members(order[s]) = ActiveIds(s)
    /\ \A i, j \in 1..Len(order[s]) : order[s][i] = order[s][j] => i = j

OwnInv == RegistryInv /\ \A s \in Sessions : OwnEntries(s) /\ OrderExact(s)
-----------------------------------------------------------------------------
(* Refinement: the scheduler implements RunService. *)

Phase(r) ==
    CASE run[r] = "running" -> "executing"
      [] run[r] # "running" /\ outcome[r] # <<>> -> "answered"
      [] run[r] # "running" /\ outcome[r] = <<>>
           /\ pc[r] \in {"stamped", "enqueuing", "returned"} -> "waiting"
      [] OTHER -> "idle"

Service == INSTANCE RunService WITH
    phase <- [r \in Requests |-> Phase(r)],
    home <- lane

\* Callers see RunService: one answer each, no execution after the answer, and
\* never more executions in a lane than its concurrency.
ImplementsRunService == Service!Spec

=============================================================================
