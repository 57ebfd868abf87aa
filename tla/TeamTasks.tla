----------------------------- MODULE TeamTasks -----------------------------
(***************************************************************************)
(* A team at work on its task board: the lead creates tasks in a turn, the *)
(* post-turn step and the dispatcher of unblocked tasks assign them and    *)
(* send them over the bus, the consumer runs them in the members' sessions *)
(* and settles them, and the task ticker takes back what nobody works on.  *)
(* The rows and their statements are in TaskStore; a session of a member   *)
(* is named by the member.                                                 *)
(***************************************************************************)
EXTENDS TaskStore

CONSTANTS
    Slots,              \* bound: jobs between dispatch and the end of their
                        \* post-turn step
    Assignee,           \* [Tasks -> Agents]: the assignee argument of create
    MayBlock,           \* [Tasks -> SUBSET Tasks]: blocked_by arguments
    MaxDispatches,      \* maxTaskDispatches
    Approvals,          \* tasks may be created with require_approval
    Board,              \* the dashboard creates and assigns tasks, too
    Tools,              \* agents claim, complete, review and approve by tool
    BusMayFill,         \* TryPublishInbound may find the buffer full
    HeartbeatMayFail,   \* RenewTaskLock may fail in the database
    MaxUpdates, MaxRetries, MaxCancels, MaxProgress, MaxRestarts, \* bounds
    Turn, RetryCall, NoJob

ASSUME TeamAssumption ==
    /\ {Turn, RetryCall} \cap Slots = {} /\ Turn # RetryCall
    /\ Assignee \in [Tasks -> Agents]
    /\ MayBlock \in [Tasks -> SUBSET Tasks]
    /\ MaxDispatches \in Nat

VARIABLES
    draft,       \* the blocked_by a create or update has validated, not written
    created,     \* PendingTeamDispatch of the lead's turn
    doomed,      \* tasks ProcessPendingTasks is about to fail
    jobs,        \* [Slots -> Job]: messages of dispatchTaskToAgent and their runs
    work,        \* tasks a dispatcher has read and not assigned yet
    served,      \* owners the dispatcher at the end of a job has served
    session,     \* taskRunSessions: the session a task runs in, or NoAgent
    booting,     \* the ticker has not yet done its recovery at startup
    robbed,      \* history: tasks recovered while a job of theirs was alive
    used         \* commands spent

jobVars == <<jobs, session>>
listVars == <<work, served>>
turnVars == <<draft, created, doomed>>
vars == <<row, draft, created, doomed, jobs, work, served, session, booting,
          robbed, used>>

\* The message is in the bus; queued and executing in the scheduler; cancelled
\* there; the outcome has come; the row is settled; unblocked tasks are listed.
Job == [task : Tasks, agent : Agents,
        at : {"sent", "queued", "running", "aborted", "ended", "settled", "listing"},
        ok : BOOLEAN, beating : BOOLEAN]

\* Who assigns tasks from a list: the end of a member's job, the end of the
\* lead's turn, and a retry.
Dispatchers == Slots \cup {Turn, RetryCall}
Copy == [task : Tasks, owner : Agents, count : Nat]

Commands == {"update", "retry", "cancel", "progress", "restart"}
Bound == [update |-> MaxUpdates, retry |-> MaxRetries, cancel |-> MaxCancels,
          progress |-> MaxProgress, restart |-> MaxRestarts]
Spend(c) == used[c] < Bound[c] /\ used' = [used EXCEPT ![c] = @ + 1]

Init ==
    /\ StoreInit
    /\ draft = [t \in Tasks |-> {}]
    /\ created = {}
    /\ doomed = {}
    /\ jobs = [j \in Slots |-> NoJob]
    /\ work = [d \in Dispatchers |-> {}]
    /\ served = [j \in Slots |-> {}]
    /\ session = [t \in Tasks |-> NoAgent]
    /\ booting = FALSE
    /\ robbed = {}
    /\ used = [c \in Commands |-> 0]

Live(j) == jobs[j] # NoJob /\ jobs[j].at \notin {"settled", "listing"}
LiveJobs(t) == {j \in Slots : Live(j) /\ jobs[j].task = t}
FreeSlots == {j \in Slots : jobs[j] = NoJob}

CopyOf(t) == [task |-> t, owner |-> row[t].owner, count |-> row[t].count]
Assigned(t) == Status(t) = "pending" /\ row[t].owner # NoAgent
-----------------------------------------------------------------------------
(* The lead's turn: create, update, cancel, approve, reject, delete. *)

\* The blockers are read and must not be finished; the row is written later.
CheckBlockers(t, B) ==
    /\ draft[t] = {}
    /\ Status(t) = "absent" \/ (Stored(t) /\ Spend("update"))
    /\ \A b \in B : Stored(b) /\ Status(b) \notin Final
    /\ draft' = [draft EXCEPT ![t] = {B}]
    /\ Status(t) = "absent" => UNCHANGED used
    /\ UNCHANGED <<row, created, doomed, jobVars, listVars, booting, robbed>>

Create(t) ==
    /\ \E B \in draft[t], approval \in {FALSE, Approvals} :
         LET status == IF approval THEN "in_review"
                       ELSE IF B # {} THEN "blocked" ELSE "pending"
         IN  /\ CreateTask(t, status, Assignee[t], B)
             /\ created' = IF status = "pending" THEN created \cup {t} ELSE created
    /\ draft' = [draft EXCEPT ![t] = {}]
    /\ UNCHANGED <<doomed, jobVars, listVars, booting, robbed, used>>

\* Only blocked_by changes: the status stays what it was.
Update(t) ==
    /\ Stored(t)
    /\ \E B \in draft[t] : row' = [row EXCEPT ![t].blockedBy = B]
    /\ draft' = [draft EXCEPT ![t] = {}]
    /\ UNCHANGED <<created, doomed, jobVars, listVars, booting, robbed, used>>

\* The row was deleted in the meantime: the UPDATE finds nothing.
UpdateLost(t) ==
    /\ draft[t] # {}
    /\ Status(t) = "deleted"
    /\ draft' = [draft EXCEPT ![t] = {}]
    /\ UNCHANGED <<row, created, doomed, jobVars, listVars, booting, robbed, used>>

\* The event of a cancelled or failed task stops the session its run is in:
\* what runs there is aborted and what is queued there ends with an error.  js
\* are the jobs as the step has left them so far.
StopSession(t, js) ==
    LET hit(j) == js[j] # NoJob /\ js[j].agent = session[t]
        queued == {j \in Slots : hit(j) /\ js[j].at = "queued"}
        running == {j \in Slots : hit(j) /\ js[j].at = "running"}
    IN  /\ jobs' = [j \in Slots |->
             IF j \in queued THEN [js[j] EXCEPT !.at = "ended", !.ok = FALSE,
                                                !.beating = FALSE]
             ELSE IF j \in running THEN [js[j] EXCEPT !.at = "aborted"]
             ELSE js[j]]
        /\ session' = [u \in Tasks |->
             IF u = t \/ u \in {js[j].task : j \in queued} THEN NoAgent
             ELSE session[u]]

Cancel(t) ==
    /\ Spend("cancel")
    /\ CancelTask(t)
    /\ StopSession(t, jobs)
    /\ UNCHANGED <<turnVars, listVars, booting, robbed>>

\* By tool or in the dashboard.  The tool's reject cancels whatever is not
\* finished; its event stops no run.
Approve(t) ==
    /\ Tools
    /\ ApproveTask(t)
    /\ UNCHANGED <<turnVars, jobVars, listVars, booting, robbed, used>>

Reject(t) ==
    /\ Spend("cancel")
    /\ CancelTask(t) \/ RejectTask(t)
    /\ UNCHANGED <<turnVars, jobVars, listVars, booting, robbed>>

Delete(t) ==
    /\ Board
    /\ DeleteTask(t)
    /\ UNCHANGED <<turnVars, jobVars, listVars, booting, robbed, used>>
-----------------------------------------------------------------------------
(* Assigning and sending. *)

\* One message to the agent, unless the buffer is full: then a publish that does
\* not wait drops it.
Send(t, a, try) ==
    \/ /\ FreeSlots # {}
       /\ LET j == CHOOSE k \in FreeSlots : TRUE
          IN  jobs' = [jobs EXCEPT ![j] = [task |-> t, agent |-> a, at |-> "sent",
                                           ok |-> FALSE, beating |-> FALSE]]
    \/ try /\ (BusMayFill \/ FreeSlots = {}) /\ UNCHANGED jobs

\* AssignTask, then dispatchTaskToAgent with the copy of the row the dispatcher
\* read before.  At the cap the task should fail, by an UpdateTask of its
\* status; below it the count is written and the message sent.
AssignAndDispatch(c) ==
    LET t == c.task
        r == InProgress(row[t], c.owner)
    IN
    IF c.count >= MaxDispatches
    THEN /\ row' = [row EXCEPT ![t] =
              Updated(r, {"status", "result"}, [r EXCEPT !.status = "failed"])]
         /\ UNCHANGED jobs
    ELSE /\ row' = [row EXCEPT ![t] =
              Updated(r, {"metadata"}, [r EXCEPT !.count = c.count + 1])]
         /\ Send(t, c.owner, TRUE)

Serve(d, a) == served' = [j \in Slots |-> IF j = d THEN served[j] \cup {a}
                                                  ELSE served[j]]

\* Mutated: the task is assigned even when it is no longer pending.
DispatchNext_Unguarded(d) ==
    /\ d = Turn => doomed = {}
    /\ \E c \in work[d] :
         /\ work' = [work EXCEPT ![d] = @ \ {c}]
         /\ AssignAndDispatch(c)
         /\ Serve(d, c.owner)
    /\ UNCHANGED <<turnVars, session, booting, robbed, used>>

\* The next task of a list.  DispatchUnblockedTasks serves each owner once;
\* a task that is no longer pending is passed over.
DispatchNext(d) ==
    /\ d = Turn => doomed = {}
    /\ \E c \in work[d] :
         /\ work' = [work EXCEPT ![d] = @ \ {c}]
         /\ \/ /\ Status(c.task) = "pending"
               /\ d \in Slots => c.owner \notin served[d]
               /\ AssignAndDispatch(c)
               /\ Serve(d, c.owner)
            \/ /\ \/ Status(c.task) # "pending"
                  \/ d \in Slots /\ c.owner \in served[d]
               /\ UNCHANGED <<row, jobs, served>>
    /\ UNCHANGED <<turnVars, session, booting, robbed, used>>

\* validateBlockedBy: tasks that block themselves, and those that Kahn's
\* algorithm never reaches because each waits for another one of them.
SelfBlocked(B) == {t \in B : t \in row[t].blockedBy}
Cycled(B) ==
    LET rest == B \ SelfBlocked(B)
    IN  UNION {S \in SUBSET rest : \A t \in S : row[t].blockedBy \cap S # {}}

\* ProcessPendingTasks reads the tasks of the turn.
TurnEnds ==
    LET batch == {t \in created : Stored(t)}
        bad == SelfBlocked(batch) \cup Cycled(batch)
    IN
    /\ created # {} /\ work[Turn] = {} /\ doomed = {}
    /\ created' = {}
    /\ doomed' = bad
    /\ work' = [work EXCEPT ![Turn] =
                  {CopyOf(t) : t \in {u \in batch \ bad : Assigned(u)}}]
    /\ UNCHANGED <<row, draft, jobVars, served, booting, robbed, used>>

FailDoomed(t) ==
    /\ t \in doomed
    /\ doomed' = doomed \ {t}
    /\ IF Status(t) \in {"pending", "blocked"} THEN FailPendingTask(t)
                                               ELSE UNCHANGED row
    /\ StopSession(t, jobs)
    /\ UNCHANGED <<draft, created, listVars, booting, robbed, used>>

\* retry resets the row first and dispatches afterwards.
Retry(t) ==
    /\ work[RetryCall] = {}
    /\ row[t].owner # NoAgent
    /\ Spend("retry")
    /\ ResetTaskStatus(t)
    /\ work' = [work EXCEPT ![RetryCall] = {CopyOf(t)}]
    /\ UNCHANGED <<turnVars, jobVars, served, booting, robbed>>

\* The dashboard: a task without owner, and the assignment of a pending task,
\* which publishes and waits if it must, and leaves the count alone.
BoardCreate(t) ==
    /\ Board
    /\ draft[t] = {}
    /\ CreateTask(t, "pending", NoAgent, {})
    /\ UNCHANGED <<turnVars, jobVars, listVars, booting, robbed, used>>

BoardAssign(t, a) ==
    /\ Board
    /\ Status(t) = "pending"
    /\ row' = [row EXCEPT ![t] = InProgress(@, a)]
    /\ Send(t, a, FALSE)
    /\ UNCHANGED <<turnVars, listVars, session, booting, robbed, used>>
-----------------------------------------------------------------------------
(* The consumer: a job from its message to the end of its post-turn step. *)

\* Mutated: the session of the run is not recorded.
Consume_Untracked(j) ==
    /\ jobs[j] # NoJob /\ jobs[j].at = "sent"
    /\ jobs' = [jobs EXCEPT ![j].at = "queued", ![j].beating = TRUE]
    /\ UNCHANGED <<row, session, turnVars, listVars, booting, robbed, used>>

\* handleTeammateMessage schedules the run and starts the heartbeat, without a
\* look at the row.
Consume(j) ==
    /\ jobs[j] # NoJob /\ jobs[j].at = "sent"
    /\ jobs' = [jobs EXCEPT ![j].at = "queued", ![j].beating = TRUE]
    /\ session' = [session EXCEPT ![jobs[j].task] = jobs[j].agent]
    /\ UNCHANGED <<row, turnVars, listVars, booting, robbed, used>>

\* One run per session at a time, cancelled ones apart (see Scheduler).
StartRun(j) ==
    /\ jobs[j] # NoJob /\ jobs[j].at = "queued"
    /\ \A k \in Slots : jobs[k] # NoJob /\ jobs[k].agent = jobs[j].agent =>
                          jobs[k].at # "running"
    /\ jobs' = [jobs EXCEPT ![j].at = "running"]
    /\ UNCHANGED <<row, turnVars, listVars, session, booting, robbed, used>>

\* The heartbeat ends for good at the first renewal that fails.
HeartbeatFails(j) ==
    /\ Live(j) /\ jobs[j].beating
    /\ Status(jobs[j].task) # "in_progress" \/ HeartbeatMayFail
    /\ jobs' = [jobs EXCEPT ![j].beating = FALSE]
    /\ UNCHANGED <<row, turnVars, listVars, session, booting, robbed, used>>

\* The outcome arrives: the session entry and the heartbeat go.
EndRun(j) ==
    /\ jobs[j] # NoJob /\ jobs[j].at \in {"running", "aborted"}
    /\ \E ok \in BOOLEAN :
         jobs' = [jobs EXCEPT ![j].at = "ended", ![j].ok = ok, ![j].beating = FALSE]
    /\ session' = [session EXCEPT ![jobs[j].task] = NoAgent]
    /\ UNCHANGED <<row, turnVars, listVars, booting, robbed, used>>

\* Auto-complete or auto-fail.  The read of the status before the statement is
\* part of this step: a task it finds finished is one the statement refuses.
Settle(j) ==
    LET t == jobs[j].task
        js == [jobs EXCEPT ![j].at = "settled"]
    IN
    /\ jobs[j] # NoJob /\ jobs[j].at = "ended"
    /\ \/ jobs[j].ok /\ CompleteTask(t) /\ jobs' = js /\ UNCHANGED session
       \/ ~jobs[j].ok /\ FailTask(t) /\ StopSession(t, js)
       \/ /\ Status(t) # "in_progress"
          /\ jobs' = js
          /\ UNCHANGED <<row, session>>
    /\ UNCHANGED <<turnVars, listVars, booting, robbed, used>>

\* DispatchUnblockedTasks lists the pending tasks with an owner.
ListUnblocked(j) ==
    /\ jobs[j] # NoJob /\ jobs[j].at = "settled"
    /\ jobs' = [jobs EXCEPT ![j].at = "listing"]
    /\ work' = [work EXCEPT ![j] = {CopyOf(t) : t \in {u \in Tasks : Assigned(u)}}]
    /\ UNCHANGED <<row, turnVars, served, session, booting, robbed, used>>

JobOver(j) ==
    /\ jobs[j] # NoJob /\ jobs[j].at = "listing" /\ work[j] = {}
    /\ jobs' = [jobs EXCEPT ![j] = NoJob]
    /\ served' = [served EXCEPT ![j] = {}]
    /\ UNCHANGED <<row, turnVars, work, session, booting, robbed, used>>
-----------------------------------------------------------------------------
(* Tools of the agents. *)

Claim(t, a) ==
    /\ Tools
    /\ ClaimTask(t, a)
    /\ UNCHANGED <<turnVars, jobVars, listVars, booting, robbed, used>>

\* complete claims a pending task first; any agent may complete any task.
Complete(t, a) ==
    /\ Tools
    /\ \/ CompleteTask(t)
       \/ Status(t) = "pending" /\ row[t].owner = NoAgent
          /\ row' = [Ended(t, "completed") EXCEPT ![t].owner = a]
    /\ UNCHANGED <<turnVars, jobVars, listVars, booting, robbed, used>>

Review(t) ==
    /\ Tools
    /\ row[t].owner # NoAgent
    /\ ReviewTask(t)
    /\ UNCHANGED <<turnVars, jobVars, listVars, booting, robbed, used>>

Progress(t) ==
    /\ row[t].owner # NoAgent
    /\ Spend("progress")
    /\ RenewTaskLock(t)
    /\ UNCHANGED <<turnVars, jobVars, listVars, booting, robbed>>
-----------------------------------------------------------------------------
(* Time, the ticker, and a restart. *)

\* Thirty minutes without a renewal: nothing renews the lease of the task any
\* more, and its message, if there is one, has long left the bus.
LeaseExpires(t) ==
    /\ Status(t) = "in_progress" /\ row[t].lease = "held"
    /\ \A j \in LiveJobs(t) : jobs[j].at \in {"queued", "running", "aborted"}
                              /\ ~jobs[j].beating
    /\ row' = [row EXCEPT ![t].lease = "expired"]
    /\ UNCHANGED <<turnVars, jobVars, listVars, booting, robbed, used>>

Rob(R) == robbed' = robbed \cup {t \in R : LiveJobs(t) # {}}

RecoverStale ==
    /\ ExpiredTasks # {}
    /\ Recover(ExpiredTasks)
    /\ Rob(ExpiredTasks)
    /\ UNCHANGED <<turnVars, jobVars, listVars, booting, used>>

\* The recovery the ticker starts with; the consumer is already at work.
ForceRecover ==
    /\ booting
    /\ booting' = FALSE
    /\ Recover(StartedTasks)
    /\ Rob(StartedTasks)
    /\ UNCHANGED <<turnVars, jobVars, listVars, used>>

\* A task that a turn or a dispatcher is about to assign is not two hours old.
GoesStale(t) ==
    /\ MarkStale(t)
    /\ t \notin created \cup doomed
    /\ \A d \in Dispatchers : \A c \in work[d] : c.task # t
    /\ UNCHANGED <<turnVars, jobVars, listVars, booting, robbed, used>>

\* The process dies: the rows are what is left.
Restart ==
    /\ Spend("restart")
    /\ draft' = [t \in Tasks |-> {}]
    /\ created' = {}
    /\ doomed' = {}
    /\ jobs' = [j \in Slots |-> NoJob]
    /\ work' = [d \in Dispatchers |-> {}]
    /\ served' = [j \in Slots |-> {}]
    /\ session' = [t \in Tasks |-> NoAgent]
    /\ booting' = TRUE
    /\ UNCHANGED <<row, robbed>>
-----------------------------------------------------------------------------
LeadStep(t) ==
    \/ \E B \in SUBSET MayBlock[t] : CheckBlockers(t, B)
    \/ Create(t) \/ Update(t) \/ UpdateLost(t)
    \/ Cancel(t) \/ Approve(t) \/ Reject(t) \/ Delete(t)
    \/ Retry(t) \/ BoardCreate(t) \/ \E a \in Agents : BoardAssign(t, a)

PostTurnStep ==
    \/ TurnEnds
    \/ \E t \in Tasks : FailDoomed(t)
    \/ DispatchNext(Turn) \/ DispatchNext(RetryCall)

JobStep(j) ==
    \/ Consume(j) \/ StartRun(j) \/ EndRun(j) \/ Settle(j)
    \/ ListUnblocked(j) \/ DispatchNext(j) \/ JobOver(j)

ToolStep(t) ==
    \/ \E a \in Agents : Claim(t, a) \/ Complete(t, a)
    \/ Review(t) \/ Progress(t)

Next ==
    \/ \E t \in Tasks : LeadStep(t) \/ ToolStep(t) \/ LeaseExpires(t) \/ GoesStale(t)
    \/ PostTurnStep
    \/ \E j \in Slots : JobStep(j) \/ HeartbeatFails(j)
    \/ RecoverStale \/ ForceRecover \/ Restart

Spec == Init /\ [][Next]_vars

\* Turns end, messages are consumed, runs return, the ticker ticks, time
\* passes.  No agent is obliged to call a tool and no user to do anything.
Fairness ==
    /\ WF_vars(PostTurnStep)
    /\ \A j \in Slots : WF_vars(JobStep(j))
    /\ \A t \in Tasks : WF_vars(LeaseExpires(t)) /\ WF_vars(GoesStale(t))
    /\ WF_vars(RecoverStale) /\ WF_vars(ForceRecover)

FairSpec == Spec /\ Fairness
-----------------------------------------------------------------------------
(* Properties. *)

TypeOK ==
    /\ StoreTypeOK
    /\ draft \in [Tasks -> SUBSET SUBSET Tasks]
    /\ created \subseteq Tasks /\ doomed \subseteq Tasks /\ robbed \subseteq Tasks
    /\ jobs \in [Slots -> Job \cup {NoJob}]
    /\ work \in [Dispatchers -> SUBSET Copy]
    /\ served \in [Slots -> SUBSET Agents]
    /\ session \in [Tasks -> Agents \cup {NoAgent}]
    /\ booting \in BOOLEAN
    /\ used \in [Commands -> Nat]

\* Two jobs never work on one task, whichever of the post-turn step, the
\* dispatcher of unblocked tasks, a retry and the dashboard assign it, unless
\* the ticker recovered it from a run that was still alive.
OneRunPerTask ==
    \A t \in Tasks : t \notin robbed => Cardinality(LiveJobs(t)) <= 1

\* The strengthening of OneRunPerTask that every step preserves: while a job of
\* a task is alive, the task has a status from which it cannot be assigned.
Busy == {"in_progress", "in_review", "completed", "cancelled", "deleted"}
OneLive(t) ==
    t \notin robbed => /\ \A i, j \in LiveJobs(t) : i = j
                       /\ LiveJobs(t) # {} => Status(t) \in Busy
LiveInv == \A t \in Tasks : OneLive(t)

\* A cancel reaches the run: while a task waits or runs in a session the
\* consumer knows which session that is.
CancelFindsRun ==
    \A j \in Slots :
      jobs[j] # NoJob /\ jobs[j].at \in {"queued", "running"}
        /\ jobs[j].task \notin robbed =>
          session[jobs[j].task] = jobs[j].agent

\* The step that finishes a task releases every task that waits for it, in
\* whatever way it finishes.
FinishReleases ==
    [][\A t \in Tasks : Status(t) \notin Final /\ row'[t].status \in Final =>
         \A d \in Tasks : t \notin row'[d].blockedBy]_vars

\* Completed and cancelled are for ever: no late outcome, recovery, retry or
\* dispatch takes a task out of them, and nothing but a delete follows.
FinishedForGood ==
    [][\A t \in Tasks : Status(t) \in {"completed", "cancelled"} =>
         row'[t].status \in {Status(t), "deleted"}]_vars

\* No task is in progress for ever: if its run does not settle it, because the
\* message was dropped, the process died or its agent is gone, the ticker does.
ProgressEnds ==
    \A t \in Tasks : Status(t) = "in_progress" ~> Status(t) # "in_progress"

=============================================================================
