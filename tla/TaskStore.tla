----------------------------- MODULE TaskStore -----------------------------
(***************************************************************************)
(* The rows of team_tasks (internal/store/pg/teams_tasks*.go): every SQL   *)
(* statement that changes one.  A statement or transaction is one action;  *)
(* its guard is the WHERE clause, without which the store reports that no  *)
(* row was affected and the caller gives up.  One team, one conversation.  *)
(***************************************************************************)
EXTENDS Naturals, FiniteSets

CONSTANTS
    Tasks,       \* task ids
    Agents,      \* members of the team
    NoAgent      \* owner_agent_id IS NULL

ASSUME StoreAssumption == NoAgent \notin Agents

VARIABLE row     \* [Tasks -> Row]

\* "absent": not inserted yet; "deleted": the row was removed.
Final == {"completed", "cancelled", "failed"}
Statuses == Final \cup {"absent", "pending", "in_progress", "blocked",
                        "in_review", "stale", "deleted"}

\* lease abstracts lock_expires_at: NULL, in the future, in the past;
\* count is metadata.dispatch_count.
Row == [status : Statuses, owner : Agents \cup {NoAgent},
        lease : {"none", "held", "expired"}, blockedBy : SUBSET Tasks,
        count : Nat]

Status(t) == row[t].status
Stored(t) == Status(t) \notin {"absent", "deleted"}

NoRow == [status |-> "absent", owner |-> NoAgent, lease |-> "none",
          blockedBy |-> {}, count |-> 0]

StoreInit == row = [t \in Tasks |-> NoRow]

StoreTypeOK == row \in [Tasks -> Row]
-----------------------------------------------------------------------------
CreateTask(t, status, owner, blockers) ==
    /\ Status(t) = "absent"
    /\ row' = [row EXCEPT ![t] = [NoRow EXCEPT !.status = status,
                                  !.owner = owner, !.blockedBy = blockers]]

\* The row of a task that t has just stopped blocking.
Released(r, t) ==
    [r EXCEPT !.blockedBy = @ \ {t},
              !.status = IF @ = "blocked" /\ r.blockedBy = {t}
                         THEN "pending" ELSE @]

\* The rows when t ends with a final status: the lease is cleared and, in the
\* same transaction, the tasks that wait for t are released.
Ended(t, status) ==
    LET rows == [row EXCEPT ![t].status = status, ![t].lease = "none"]
    IN  [d \in Tasks |-> IF t \in rows[d].blockedBy THEN Released(rows[d], t)
                                                    ELSE rows[d]]

\* AssignTask and ClaimTask set the owner and a fresh lease.
InProgress(r, a) == [r EXCEPT !.status = "in_progress", !.owner = a,
                              !.lease = "held"]

ClaimTask(t, a) ==
    /\ Status(t) = "pending"
    /\ row[t].owner = NoAgent
    /\ row' = [row EXCEPT ![t] = InProgress(@, a)]

CompleteTask(t) ==
    /\ Status(t) = "in_progress"
    /\ row' = Ended(t, "completed")

FailTask(t) ==
    /\ Status(t) = "in_progress"
    /\ row' = Ended(t, "failed")

\* Mutated: dependents are not released.
FailPendingTask_NoRelease(t) ==
    /\ Status(t) \in {"pending", "blocked"}
    /\ row' = [row EXCEPT ![t].status = "failed", ![t].lease = "none"]

FailPendingTask(t) ==
    /\ Status(t) \in {"pending", "blocked"}
    /\ row' = Ended(t, "failed")

\* Mutated: a completed task can be cancelled, too.
CancelTask_Completed(t) ==
    /\ Stored(t) /\ Status(t) # "cancelled"
    /\ row' = Ended(t, "cancelled")

\* Everything but a completed or cancelled task, a failed one included.
CancelTask(t) ==
    /\ Stored(t) /\ Status(t) \notin {"completed", "cancelled"}
    /\ row' = Ended(t, "cancelled")

ReviewTask(t) ==
    /\ Status(t) = "in_progress"
    /\ row' = [row EXCEPT ![t].status = "in_review"]

ApproveTask(t) ==
    /\ Status(t) = "in_review"
    /\ row' = Ended(t, "completed")

RejectTask(t) ==
    /\ Status(t) = "in_review"
    /\ row' = Ended(t, "cancelled")

ResetTaskStatus(t) ==
    /\ Status(t) \in {"stale", "failed"}
    /\ row' = [row EXCEPT ![t].status = "pending", ![t].lease = "none"]

\* RenewTaskLock and UpdateTaskProgress: whoever asks, the lease of the task is
\* extended.
RenewTaskLock(t) ==
    /\ Status(t) = "in_progress"
    /\ row' = [row EXCEPT ![t].lease = "held"]

DeleteTask(t) ==
    /\ Status(t) \in Final
    /\ row' = [row EXCEPT ![t].status = "deleted"]

\* The tasks of R go back to pending and lose their owner.
Recover(R) ==
    row' = [t \in Tasks |->
              IF t \in R THEN [row[t] EXCEPT !.status = "pending",
                                             !.owner = NoAgent, !.lease = "none"]
                         ELSE row[t]]

\* Mutated: the test for NULL is the wrong way round.
ExpiredTasks_Null == {t \in Tasks : Status(t) = "in_progress" /\ row[t].lease = "none"}

\* RecoverAllStaleTasks, and ForceRecoverAllTasks at startup.
ExpiredTasks == {t \in Tasks : Status(t) = "in_progress" /\ row[t].lease = "expired"}
StartedTasks == {t \in Tasks : Status(t) = "in_progress"}

\* MarkAllStaleTasks, for one task that was pending for two hours.
MarkStale(t) ==
    /\ Status(t) = "pending"
    /\ row' = [row EXCEPT ![t].status = "stale"]

\* UpdateTask accepts the columns of allowedTaskUpdateCols only: an update that
\* names another one, status or result say, is refused as a whole.
Updatable == {"subject", "description", "priority", "assignee_user_id",
              "metadata", "blocked_by", "updated_at"}

Updated(r, cols, new) == IF cols \subseteq Updatable THEN new ELSE r

=============================================================================
