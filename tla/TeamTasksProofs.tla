-------------------------- MODULE TeamTasksProofs --------------------------
(***************************************************************************)
(* Proofs about TeamTasks, for every set of tasks, agents and slots and    *)
(* all bounds: types, what a step may do to the rows, one run per task.    *)
(***************************************************************************)
EXTENDS TeamTasks, FiniteSetTheorems, TLAPS

\* What every step does to the rows: they stay well typed, a completed or
\* cancelled task stays so or is deleted, and a task that ends releases the
\* tasks that wait for it.
Stays(t) == Status(t) \in {"completed", "cancelled"} =>
              row'[t].status \in {Status(t), "deleted"}
Releases(t) == Status(t) \notin Final /\ row'[t].status \in Final =>
                 \A d \in Tasks : t \notin row'[d].blockedBy
RowsKept == /\ StoreTypeOK'
            /\ \A t \in Tasks : Stays(t) /\ Releases(t)

\* Steps that leave the rows alone.
LEMMA NoRow_Kept ==
    ASSUME StoreTypeOK, UNCHANGED row
    PROVE  RowsKept
BY DEF StoreTypeOK, RowsKept, Stays, Releases, Status

\* Steps that write one row and do not end its task.
LEMMA OneRow_Kept ==
    ASSUME StoreTypeOK, NEW t \in Tasks, NEW r \in Row,
           row' = [row EXCEPT ![t] = r],
           r.status \notin Final \/ r.status = Status(t),
           Status(t) \in {"completed", "cancelled"} => r.status \in {Status(t), "deleted"}
    PROVE  RowsKept
<1>1. row \in [Tasks -> Row]
  BY DEF StoreTypeOK
<1>2. row' \in [Tasks -> Row]
  BY <1>1
<1>3. row'[t] = r /\ \A d \in Tasks : d # t => row'[d] = row[d]
  BY <1>1
<1>4. \A d \in Tasks : Stays(d) /\ Releases(d)
  BY <1>3 DEF Stays, Releases, Status
<1> QED
  BY <1>2, <1>4 DEF RowsKept, StoreTypeOK

\* The fields of a released row.
LEMMA Released_Row ==
    ASSUME NEW r \in Row, NEW t \in Tasks
    PROVE  /\ Released(r, t) \in Row
           /\ Released(r, t).blockedBy = r.blockedBy \ {t}
           /\ Released(r, t).status = IF r.status = "blocked" /\ r.blockedBy = {t}
                                      THEN "pending" ELSE r.status
<1> DEFINE s == IF r.status = "blocked" /\ r.blockedBy = {t} THEN "pending" ELSE r.status
           b == r.blockedBy \ {t}
<1>1. s \in Statuses /\ b \in SUBSET Tasks
  BY DEF Row, Statuses, Final
<1>2. Released(r, t) = [r EXCEPT !.blockedBy = b, !.status = s]
  BY DEF Released
<1> HIDE DEF s, b
<1>3. /\ [r EXCEPT !.blockedBy = b, !.status = s] \in Row
      /\ [r EXCEPT !.blockedBy = b, !.status = s].blockedBy = b
      /\ [r EXCEPT !.blockedBy = b, !.status = s].status = s
  BY <1>1 DEF Row
<1> QED
  BY <1>2, <1>3 DEF s, b

\* The rows after a task has ended.
LEMMA Ended_Rows ==
    ASSUME StoreTypeOK, NEW t \in Tasks, NEW s \in Final
    PROVE  /\ Ended(t, s) \in [Tasks -> Row]
           /\ Ended(t, s)[t].status = s
           /\ \A d \in Tasks : /\ t \notin Ended(t, s)[d].blockedBy
                               /\ d # t => Ended(t, s)[d].status \in {row[d].status, "pending"}
                               /\ d # t /\ row[d].status # "blocked" =>
                                    Ended(t, s)[d].status = row[d].status
<1> DEFINE rows == [row EXCEPT ![t].status = s, ![t].lease = "none"]
<1>0. row \in [Tasks -> Row] /\ s \in Statuses /\ s # "blocked"
  BY DEF StoreTypeOK, Statuses, Final
<1>1. rows \in [Tasks -> Row] /\ rows[t].status = s /\ \A d \in Tasks : d # t => rows[d] = row[d]
  <2> DEFINE r == [row[t] EXCEPT !.status = s, !.lease = "none"]
  <2>0. row[t] \in Row
    BY <1>0
  <2>1. r \in Row /\ r.status = s
    BY <1>0, <2>0 DEF Row
  <2>2. rows = [row EXCEPT ![t] = r]
    BY <1>0
  <2> HIDE DEF r, rows
  <2> QED
    BY <1>0, <2>1, <2>2
<1>2. Ended(t, s) = [d \in Tasks |-> IF t \in rows[d].blockedBy
                                     THEN Released(rows[d], t) ELSE rows[d]]
  BY DEF Ended
<1> HIDE DEF rows
<1>3. \A d \in Tasks : /\ Released(rows[d], t) \in Row
                       /\ Released(rows[d], t).blockedBy = rows[d].blockedBy \ {t}
                       /\ Released(rows[d], t).status \in {rows[d].status, "pending"}
                       /\ rows[d].status # "blocked" =>
                            Released(rows[d], t).status = rows[d].status
  BY <1>1, Released_Row
<1>4. \A d \in Tasks : Ended(t, s)[d] = IF t \in rows[d].blockedBy
                                        THEN Released(rows[d], t) ELSE rows[d]
  BY <1>2
<1>5. Ended(t, s) \in [Tasks -> Row]
  BY <1>1, <1>2, <1>3
<1>6. Ended(t, s)[t].status = s
  BY <1>0, <1>1, <1>3, <1>4
<1>7. \A d \in Tasks : t \notin Ended(t, s)[d].blockedBy
  BY <1>3, <1>4
<1> QED
  BY <1>1, <1>3, <1>4, <1>5, <1>6, <1>7

\* Steps that end a task which was neither completed nor cancelled.
LEMMA Ended_Kept ==
    ASSUME StoreTypeOK, NEW t \in Tasks, NEW s \in Final,
           Status(t) \notin {"completed", "cancelled"}, row' = Ended(t, s)
    PROVE  RowsKept
<1> DEFINE E == Ended(t, s)
<1>1. /\ E \in [Tasks -> Row] /\ E[t].status = s
      /\ \A d \in Tasks : /\ t \notin E[d].blockedBy
                          /\ d # t => E[d].status \in {row[d].status, "pending"}
                          /\ d # t /\ row[d].status # "blocked" =>
                               E[d].status = row[d].status
  BY Ended_Rows
<1>2. row' = E
  OBVIOUS
<1> HIDE DEF E
<1>3. \A d \in Tasks : Stays(d)
  BY <1>1, <1>2 DEF Stays, Status
<1>4. \A d \in Tasks : Releases(d)
  BY <1>1, <1>2 DEF Releases, Status, Final
<1> QED
  BY <1>1, <1>2, <1>3, <1>4 DEF RowsKept, StoreTypeOK

\* The recoveries.
LEMMA Recover_Kept ==
    ASSUME StoreTypeOK, NEW R \in SUBSET Tasks,
           \A t \in R : Status(t) = "in_progress", Recover(R)
    PROVE  RowsKept
<1>1. row \in [Tasks -> Row]
  BY DEF StoreTypeOK
<1>2. ASSUME NEW t \in Tasks
      PROVE  LET r == [row[t] EXCEPT !.status = "pending", !.owner = NoAgent,
                                     !.lease = "none"]
             IN  r \in Row /\ r.status = "pending"
  <2>1. row[t] \in Row /\ "pending" \in Statuses
    BY <1>1 DEF Statuses
  <2> QED
    BY <2>1 DEF Row
<1>3. /\ row' \in [Tasks -> Row]
      /\ \A t \in Tasks : IF t \in R THEN row'[t].status = "pending" ELSE row'[t] = row[t]
  BY <1>1, <1>2 DEF Recover
<1>4. \A t \in Tasks : Stays(t) /\ Releases(t)
  BY <1>3 DEF Stays, Releases, Status, Final
<1> QED
  BY <1>3, <1>4 DEF RowsKept, StoreTypeOK

\* The statements that write one row.
LEMMA Statement_Kept ==
    ASSUME StoreTypeOK, NEW t \in Tasks,
           \/ ReviewTask(t) \/ ResetTaskStatus(t) \/ RenewTaskLock(t)
           \/ DeleteTask(t) \/ MarkStale(t)
    PROVE  RowsKept
<1>0. row \in [Tasks -> Row] /\ row[t] \in Row
  BY DEF StoreTypeOK
<1>1. CASE ReviewTask(t)
  <2> DEFINE r == [row[t] EXCEPT !.status = "in_review"]
  <2>1. r \in Row /\ r.status = "in_review"
    BY <1>0 DEF Row, Statuses
  <2>2. row' = [row EXCEPT ![t] = r] /\ Status(t) = "in_progress"
    BY <1>1 DEF ReviewTask
  <2> HIDE DEF r
  <2> QED
    BY <2>1, <2>2, OneRow_Kept DEF Final
<1>2. CASE ResetTaskStatus(t)
  <2> DEFINE r == [row[t] EXCEPT !.status = "pending", !.lease = "none"]
  <2>1. r \in Row /\ r.status = "pending"
    BY <1>0 DEF Row, Statuses
  <2>2. row' = [row EXCEPT ![t] = r] /\ Status(t) \in {"stale", "failed"}
    BY <1>2 DEF ResetTaskStatus
  <2> HIDE DEF r
  <2> QED
    BY <2>1, <2>2, OneRow_Kept DEF Final
<1>3. CASE RenewTaskLock(t)
  <2> DEFINE r == [row[t] EXCEPT !.lease = "held"]
  <2>1. r \in Row /\ r.status = Status(t)
    BY <1>0 DEF Row, Status
  <2>2. row' = [row EXCEPT ![t] = r] /\ Status(t) = "in_progress"
    BY <1>3 DEF RenewTaskLock
  <2> HIDE DEF r
  <2> QED
    BY <2>1, <2>2, OneRow_Kept DEF Final
<1>4. CASE DeleteTask(t)
  <2> DEFINE r == [row[t] EXCEPT !.status = "deleted"]
  <2>1. r \in Row /\ r.status = "deleted"
    BY <1>0 DEF Row, Statuses
  <2>2. row' = [row EXCEPT ![t] = r]
    BY <1>4 DEF DeleteTask
  <2> HIDE DEF r
  <2> QED
    BY <2>1, <2>2, OneRow_Kept DEF Final
<1>5. CASE MarkStale(t)
  <2> DEFINE r == [row[t] EXCEPT !.status = "stale"]
  <2>1. r \in Row /\ r.status = "stale"
    BY <1>0 DEF Row, Statuses
  <2>2. row' = [row EXCEPT ![t] = r] /\ Status(t) = "pending"
    BY <1>5 DEF MarkStale
  <2> HIDE DEF r
  <2> QED
    BY <2>1, <2>2, OneRow_Kept DEF Final
<1> QED
  BY <1>1, <1>2, <1>3, <1>4, <1>5

\* The insert.
LEMMA Create_Kept ==
    ASSUME StoreTypeOK, NEW t \in Tasks, NEW s \in {"pending", "blocked", "in_review"},
           NEW o \in Agents \cup {NoAgent}, NEW B \in SUBSET Tasks,
           CreateTask(t, s, o, B)
    PROVE  RowsKept
<1> DEFINE r == [NoRow EXCEPT !.status = s, !.owner = o, !.blockedBy = B]
<1>1. r \in Row /\ r.status = s
  BY DEF NoRow, Row, Statuses
<1>2. row' = [row EXCEPT ![t] = r] /\ Status(t) = "absent"
  BY DEF CreateTask
<1> HIDE DEF r
<1> QED
  BY <1>1, <1>2, OneRow_Kept DEF Final

\* An owner and a fresh lease for a pending task.
LEMMA InProgress_Row ==
    ASSUME NEW r \in Row, NEW a \in Agents
    PROVE  InProgress(r, a) \in Row /\ InProgress(r, a).status = "in_progress"
BY DEF InProgress, Row, Statuses

LEMMA InProgress_Kept ==
    ASSUME StoreTypeOK, NEW t \in Tasks, NEW a \in Agents, Status(t) = "pending",
           row' = [row EXCEPT ![t] = InProgress(@, a)]
    PROVE  RowsKept
<1>1. row[t] \in Row /\ row' = [row EXCEPT ![t] = InProgress(row[t], a)]
  BY DEF StoreTypeOK
<1> QED
  BY <1>1, InProgress_Row, OneRow_Kept DEF Final

\* The statements that end a task.
LEMMA Ending_Kept ==
    ASSUME StoreTypeOK, NEW t \in Tasks,
           \/ CompleteTask(t) \/ FailTask(t) \/ FailPendingTask(t)
           \/ CancelTask(t) \/ ApproveTask(t) \/ RejectTask(t)
    PROVE  RowsKept
<1>1. \E s \in Final : row' = Ended(t, s)
  BY DEF CompleteTask, FailTask, FailPendingTask, CancelTask, ApproveTask,
         RejectTask, Final
<1>2. Status(t) \notin {"completed", "cancelled"}
  BY DEF CompleteTask, FailTask, FailPendingTask, CancelTask, ApproveTask,
         RejectTask
<1> QED
  BY <1>1, <1>2, Ended_Kept
-----------------------------------------------------------------------------
\* The other conjuncts of TypeOK, by the part of the system they are about.
TurnOK == /\ draft \in [Tasks -> SUBSET SUBSET Tasks]
          /\ created \subseteq Tasks /\ doomed \subseteq Tasks
JobsOK == /\ jobs \in [Slots -> Job \cup {NoJob}]
          /\ session \in [Tasks -> Agents \cup {NoAgent}]
ListsOK == /\ work \in [Dispatchers -> SUBSET Copy]
           /\ served \in [Slots -> SUBSET Agents]
RestOK == robbed \subseteq Tasks /\ booting \in BOOLEAN /\ used \in [Commands -> Nat]

LEMMA TypeOK_Parts == TypeOK <=> StoreTypeOK /\ TurnOK /\ JobsOK /\ ListsOK /\ RestOK
BY DEF TypeOK, TurnOK, JobsOK, ListsOK, RestOK

\* Parts that a step leaves alone.
LEMMA SameParts ==
    /\ TurnOK /\ UNCHANGED turnVars => TurnOK'
    /\ JobsOK /\ UNCHANGED jobVars => JobsOK'
    /\ ListsOK /\ UNCHANGED listVars => ListsOK'
    /\ RestOK /\ UNCHANGED <<booting, robbed, used>> => RestOK'
BY DEF TurnOK, JobsOK, ListsOK, RestOK, turnVars, jobVars, listVars

\* A command is counted.
LEMMA SpendType ==
    ASSUME RestOK, NEW c \in Commands, Spend(c), UNCHANGED <<booting, robbed>>
    PROVE  RestOK'
BY DEF RestOK, Spend

\* Stopping a session keeps the types of the jobs.
LEMMA StopSessionType ==
    ASSUME JobsOK, NEW t \in Tasks, NEW js \in [Slots -> Job \cup {NoJob}],
           StopSession(t, js)
    PROVE  JobsOK'
<1>1. ASSUME NEW j \in Slots, js[j] # NoJob
      PROVE  /\ [js[j] EXCEPT !.at = "ended", !.ok = FALSE, !.beating = FALSE] \in Job
             /\ [js[j] EXCEPT !.at = "aborted"] \in Job
  <2>1. js[j] \in Job
    BY <1>1
  <2> QED
    BY <2>1 DEF Job
<1>2. jobs' \in [Slots -> Job \cup {NoJob}]
  BY <1>1 DEF StopSession
<1>3. session' \in [Tasks -> Agents \cup {NoAgent}]
  BY DEF StopSession, JobsOK
<1> QED
  BY <1>2, <1>3 DEF JobsOK

\* A message is a job in a free slot.
LEMMA SendType ==
    ASSUME JobsOK, NEW t \in Tasks, NEW a \in Agents, NEW try, Send(t, a, try),
           UNCHANGED session
    PROVE  JobsOK'
<1>1. [task |-> t, agent |-> a, at |-> "sent", ok |-> FALSE, beating |-> FALSE] \in Job
  BY DEF Job
<1>2. CASE FreeSlots # {}
  <2>1. (CHOOSE k \in FreeSlots : TRUE) \in Slots
    BY <1>2 DEF FreeSlots
  <2> QED
    BY <1>1, <2>1 DEF Send, JobsOK
<1>3. CASE FreeSlots = {}
  BY <1>3 DEF Send, JobsOK
<1> QED
  BY <1>2, <1>3

\* Assigning and sending a pending task.
LEMMA AssignAndDispatch_Kept ==
    ASSUME StoreTypeOK, JobsOK, NEW c \in Copy, Status(c.task) = "pending",
           AssignAndDispatch(c), UNCHANGED session
    PROVE  RowsKept /\ JobsOK'
<1> DEFINE t == c.task
           r == InProgress(row[t], c.owner)
           n == [r EXCEPT !.count = c.count + 1]
<1>0. /\ t \in Tasks /\ c.owner \in Agents /\ c.count \in Nat /\ row[t] \in Row
      /\ MaxDispatches \in Nat
  BY TeamAssumption DEF Copy, StoreTypeOK
<1>1. r \in Row /\ r.status = "in_progress"
  BY <1>0, InProgress_Row
<1> HIDE DEF r
<1>2. n \in Row /\ n.status = "in_progress"
  BY <1>0, <1>1 DEF Row
<1>3. CASE c.count >= MaxDispatches
  <2>1. row' = [row EXCEPT ![t] = Updated(r, {"status", "result"}, [r EXCEPT !.status = "failed"])]
        /\ UNCHANGED jobs
    BY <1>3 DEF AssignAndDispatch, r
  <2>2. ~({"status", "result"} \subseteq Updatable)
    BY DEF Updatable
  <2>3. row' = [row EXCEPT ![t] = r]
    BY <2>1, <2>2 DEF Updated
  <2> QED
    BY <1>0, <1>1, <2>1, <2>3, OneRow_Kept DEF JobsOK, Final
<1>4. CASE ~(c.count >= MaxDispatches)
  <2>1. row' = [row EXCEPT ![t] = Updated(r, {"metadata"}, n)] /\ Send(t, c.owner, TRUE)
    BY <1>4 DEF AssignAndDispatch, r
  <2>2. row' = [row EXCEPT ![t] = n]
    BY <2>1 DEF Updated, Updatable
  <2> HIDE DEF n
  <2> QED
    BY <1>0, <1>2, <2>1, <2>2, OneRow_Kept, SendType DEF Final
<1> QED
  BY <1>3, <1>4
-----------------------------------------------------------------------------
(* One lemma per group of actions. *)

Kept == RowsKept /\ TurnOK' /\ JobsOK' /\ ListsOK' /\ RestOK'

LEMMA LeadStep_Kept ==
    ASSUME TypeOK, NEW t \in Tasks, LeadStep(t)
    PROVE  Kept
<1>0. /\ StoreTypeOK /\ TurnOK /\ JobsOK /\ ListsOK /\ RestOK
      /\ Assignee[t] \in Agents /\ MayBlock[t] \in SUBSET Tasks
  BY TypeOK_Parts, TeamAssumption
<1>1. ASSUME NEW B \in SUBSET MayBlock[t], CheckBlockers(t, B) PROVE Kept
  <2>1. TurnOK'
    BY <1>0, <1>1 DEF CheckBlockers, TurnOK
  <2>2. RestOK'
    <3>1. CASE Status(t) = "absent"
      BY <1>0, <1>1, <3>1, SameParts DEF CheckBlockers
    <3>2. CASE Status(t) # "absent"
      BY <1>0, <1>1, <3>2, SpendType DEF CheckBlockers, Commands
    <3> QED
      BY <3>1, <3>2
  <2> QED
    BY <1>0, <1>1, <2>1, <2>2, SameParts, NoRow_Kept DEF CheckBlockers, Kept
<1>2. CASE Create(t)
  <2>1. PICK B \in draft[t], approval \in {FALSE, Approvals} :
          LET status == IF approval THEN "in_review"
                        ELSE IF B # {} THEN "blocked" ELSE "pending"
          IN  /\ CreateTask(t, status, Assignee[t], B)
              /\ created' = IF status = "pending" THEN created \cup {t} ELSE created
    BY <1>2 DEF Create
  <2>2. B \in SUBSET Tasks
    BY <1>0 DEF TurnOK
  <2>3. PICK s \in {"pending", "blocked", "in_review"} : CreateTask(t, s, Assignee[t], B)
    BY <2>1
  <2>4. RowsKept
    BY <1>0, <2>2, <2>3, Create_Kept
  <2>5. created' \subseteq Tasks
    BY <1>0, <2>1 DEF TurnOK
  <2>6. TurnOK'
    BY <1>0, <1>2, <2>5 DEF Create, TurnOK
  <2> QED
    BY <1>0, <1>2, <2>4, <2>6, SameParts DEF Create, Kept
<1>3. CASE Update(t)
  <2>1. PICK B \in draft[t] : row' = [row EXCEPT ![t].blockedBy = B]
    BY <1>3 DEF Update
  <2> DEFINE r == [row[t] EXCEPT !.blockedBy = B]
  <2>2. B \in SUBSET Tasks /\ row[t] \in Row
    BY <1>0 DEF TurnOK, StoreTypeOK
  <2>3. r \in Row /\ r.status = Status(t)
    BY <2>2 DEF Row, Status
  <2>4. row' = [row EXCEPT ![t] = r]
    BY <2>1
  <2> HIDE DEF r
  <2>5. RowsKept
    BY <1>0, <2>3, <2>4, OneRow_Kept
  <2>6. TurnOK'
    BY <1>0, <1>3 DEF Update, TurnOK
  <2> QED
    BY <1>0, <1>3, <2>5, <2>6, SameParts DEF Update, Kept
<1>4. CASE UpdateLost(t)
  <2>1. TurnOK'
    BY <1>0, <1>4 DEF UpdateLost, TurnOK
  <2> QED
    BY <1>0, <1>4, <2>1, SameParts, NoRow_Kept DEF UpdateLost, Kept
<1>5. CASE Cancel(t)
  <2>1. JobsOK'
    BY <1>0, <1>5, StopSessionType DEF Cancel, JobsOK
  <2>2. RestOK'
    BY <1>0, <1>5, SpendType DEF Cancel, Commands
  <2> QED
    BY <1>0, <1>5, <2>1, <2>2, SameParts, Ending_Kept DEF Cancel, Kept
<1>6. CASE Approve(t)
  BY <1>0, <1>6, SameParts, Ending_Kept DEF Approve, Kept
<1>7. CASE Reject(t)
  <2>1. RestOK'
    BY <1>0, <1>7, SpendType DEF Reject, Commands
  <2> QED
    BY <1>0, <1>7, <2>1, SameParts, Ending_Kept DEF Reject, Kept
<1>8. CASE Delete(t)
  BY <1>0, <1>8, SameParts, Statement_Kept DEF Delete, Kept
<1>9. CASE Retry(t)
  <2>1. CopyOf(t) \in Copy
    BY <1>0, <1>9 DEF Retry, CopyOf, Copy, StoreTypeOK, Row
  <2>2. ListsOK'
    BY <1>0, <1>9, <2>1 DEF Retry, ListsOK
  <2>3. RestOK'
    BY <1>0, <1>9, SpendType DEF Retry, Commands
  <2> QED
    BY <1>0, <1>9, <2>2, <2>3, SameParts, Statement_Kept DEF Retry, Kept
<1>10. CASE BoardCreate(t)
  <2>1. RowsKept
    BY <1>0, <1>10, Create_Kept DEF BoardCreate
  <2> QED
    BY <1>0, <1>10, <2>1, SameParts DEF BoardCreate, Kept
<1>11. ASSUME NEW a \in Agents, BoardAssign(t, a) PROVE Kept
  <2>1. RowsKept
    BY <1>0, <1>11, InProgress_Kept DEF BoardAssign
  <2>2. JobsOK'
    BY <1>0, <1>11, SendType DEF BoardAssign
  <2> QED
    BY <1>0, <1>11, <2>1, <2>2, SameParts DEF BoardAssign, Kept
<1> QED
  BY <1>1, <1>2, <1>3, <1>4, <1>5, <1>6, <1>7, <1>8, <1>9, <1>10, <1>11 DEF LeadStep

\* The next task of a list, for every dispatcher.
LEMMA DispatchNext_Kept ==
    ASSUME TypeOK, NEW d \in Dispatchers, DispatchNext(d)
    PROVE  Kept
<1>0. /\ StoreTypeOK /\ TurnOK /\ JobsOK /\ ListsOK /\ RestOK
      /\ UNCHANGED <<turnVars, session, booting, robbed, used>>
  BY TypeOK_Parts DEF DispatchNext
<1>1. PICK c \in work[d] :
        /\ work' = [work EXCEPT ![d] = @ \ {c}]
        /\ \/ /\ Status(c.task) = "pending"
              /\ AssignAndDispatch(c)
              /\ Serve(d, c.owner)
           \/ UNCHANGED <<row, jobs, served>>
  BY DEF DispatchNext
<1>2. c \in Copy /\ c.owner \in Agents
  BY <1>0 DEF ListsOK, Copy
<1>3. ListsOK'
  BY <1>0, <1>1, <1>2 DEF ListsOK, Serve
<1>4. RowsKept /\ JobsOK'
  <2>1. CASE Status(c.task) = "pending" /\ AssignAndDispatch(c)
    BY <1>0, <1>2, <2>1, AssignAndDispatch_Kept
  <2>2. CASE UNCHANGED <<row, jobs, served>>
    BY <1>0, <2>2, NoRow_Kept, SameParts DEF jobVars
  <2> QED
    BY <1>1, <2>1, <2>2
<1> QED
  BY <1>0, <1>3, <1>4, SameParts DEF Kept

LEMMA PostTurnStep_Kept ==
    ASSUME TypeOK, PostTurnStep
    PROVE  Kept
<1>0. /\ StoreTypeOK /\ TurnOK /\ JobsOK /\ ListsOK /\ RestOK
      /\ Turn \in Dispatchers /\ RetryCall \in Dispatchers
  BY TypeOK_Parts DEF Dispatchers
<1>1. CASE TurnEnds
  <2> DEFINE batch == {t \in created : Stored(t)}
             bad == SelfBlocked(batch) \cup Cycled(batch)
             list == {CopyOf(t) : t \in {u \in batch \ bad : Assigned(u)}}
  <2>1. batch \in SUBSET Tasks
    BY <1>0 DEF TurnOK
  <2>2. bad \subseteq batch
    BY DEF SelfBlocked, Cycled
  <2>3. \A u \in batch : Assigned(u) => CopyOf(u) \in Copy
    BY <1>0, <2>1 DEF Assigned, CopyOf, Copy, StoreTypeOK, Row
  <2>4. list \in SUBSET Copy
    BY <2>3
  <2>5. /\ created' = {} /\ doomed' = bad /\ work' = [work EXCEPT ![Turn] = list]
        /\ UNCHANGED <<row, draft, jobVars, served, booting, robbed, used>>
    BY <1>1 DEF TurnEnds
  <2> HIDE DEF batch, bad, list
  <2>6. TurnOK'
    BY <1>0, <2>1, <2>2, <2>5 DEF TurnOK
  <2>7. ListsOK'
    BY <1>0, <2>4, <2>5 DEF ListsOK
  <2> QED
    BY <1>0, <2>5, <2>6, <2>7, SameParts, NoRow_Kept DEF Kept
<1>2. ASSUME NEW t \in Tasks, FailDoomed(t) PROVE Kept
  <2>1. TurnOK'
    BY <1>0, <1>2 DEF FailDoomed, TurnOK
  <2>2. RowsKept
    BY <1>0, <1>2, Ending_Kept, NoRow_Kept DEF FailDoomed
  <2>3. JobsOK'
    BY <1>0, <1>2, StopSessionType DEF FailDoomed, JobsOK
  <2> QED
    BY <1>0, <1>2, <2>1, <2>2, <2>3, SameParts DEF FailDoomed, Kept
<1> QED
  BY <1>0, <1>1, <1>2, DispatchNext_Kept DEF PostTurnStep

\* A job in its slot.
LEMMA JobType ==
    ASSUME JobsOK, NEW j \in Slots, jobs[j] # NoJob
    PROVE  jobs[j] \in Job /\ jobs[j].task \in Tasks /\ jobs[j].agent \in Agents
BY DEF JobsOK, Job

LEMMA JobStep_Kept ==
    ASSUME TypeOK, NEW j \in Slots, JobStep(j) \/ HeartbeatFails(j)
    PROVE  Kept
<1>0. /\ StoreTypeOK /\ TurnOK /\ JobsOK /\ ListsOK /\ RestOK /\ j \in Dispatchers
  BY TypeOK_Parts DEF Dispatchers
<1>1. CASE Consume(j)
  <2>0. jobs[j] # NoJob
    BY <1>1 DEF Consume
  <2>1. jobs[j] \in Job /\ jobs[j].agent \in Agents
    BY <1>0, <2>0, JobType
  <2>2. [jobs[j] EXCEPT !.at = "queued", !.beating = TRUE] \in Job
    BY <2>1 DEF Job
  <2>3. jobs' = [jobs EXCEPT ![j] = [jobs[j] EXCEPT !.at = "queued", !.beating = TRUE]]
    BY <1>0, <1>1 DEF Consume, JobsOK
  <2>4. JobsOK'
    BY <1>0, <1>1, <2>1, <2>2, <2>3 DEF Consume, JobsOK
  <2> QED
    BY <1>0, <1>1, <2>4, SameParts, NoRow_Kept DEF Consume, Kept
<1>2. CASE StartRun(j)
  <2>1. jobs[j] \in Job
    BY <1>0, <1>2, JobType DEF StartRun
  <2>2. [jobs[j] EXCEPT !.at = "running"] \in Job
    BY <2>1 DEF Job
  <2>3. jobs' = [jobs EXCEPT ![j] = [jobs[j] EXCEPT !.at = "running"]]
    BY <1>0, <1>2 DEF StartRun, JobsOK
  <2>4. JobsOK'
    BY <1>0, <1>2, <2>2, <2>3 DEF StartRun, JobsOK
  <2> QED
    BY <1>0, <1>2, <2>4, SameParts, NoRow_Kept DEF StartRun, Kept
<1>3. CASE EndRun(j)
  <2>1. jobs[j] \in Job
    BY <1>0, <1>3, JobType DEF EndRun
  <2>2. PICK ok \in BOOLEAN :
          jobs' = [jobs EXCEPT ![j].at = "ended", ![j].ok = ok, ![j].beating = FALSE]
    BY <1>3 DEF EndRun
  <2> DEFINE n == [jobs[j] EXCEPT !.at = "ended", !.ok = ok, !.beating = FALSE]
  <2>3. n \in Job
    BY <2>1 DEF Job
  <2>4. jobs' = [jobs EXCEPT ![j] = n]
    BY <1>0, <2>2 DEF JobsOK
  <2> HIDE DEF n
  <2>5. JobsOK'
    BY <1>0, <1>3, <2>3, <2>4 DEF EndRun, JobsOK
  <2> QED
    BY <1>0, <1>3, <2>5, SameParts, NoRow_Kept DEF EndRun, Kept
<1>4. CASE Settle(j)
  <2> DEFINE t == jobs[j].task
             js == [jobs EXCEPT ![j].at = "settled"]
  <2>1. jobs[j] \in Job /\ t \in Tasks
    BY <1>0, <1>4, JobType DEF Settle
  <2>2. [jobs[j] EXCEPT !.at = "settled"] \in Job
    BY <2>1 DEF Job
  <2>3. js = [jobs EXCEPT ![j] = [jobs[j] EXCEPT !.at = "settled"]]
    BY <1>0 DEF JobsOK
  <2>4. js \in [Slots -> Job \cup {NoJob}]
    BY <1>0, <2>2, <2>3 DEF JobsOK
  <2>5. /\ \/ CompleteTask(t) /\ jobs' = js /\ UNCHANGED session
           \/ FailTask(t) /\ StopSession(t, js)
           \/ jobs' = js /\ UNCHANGED <<row, session>>
        /\ UNCHANGED <<turnVars, listVars, booting, robbed, used>>
    BY <1>4 DEF Settle
  <2> HIDE DEF t, js
  <2>6. RowsKept
    BY <1>0, <2>1, <2>5, Ending_Kept, NoRow_Kept
  <2>7. JobsOK'
    <3>1. CASE jobs' = js /\ UNCHANGED session
      BY <1>0, <2>4, <3>1 DEF JobsOK
    <3>2. CASE StopSession(t, js)
      BY <1>0, <2>1, <2>4, <3>2, StopSessionType
    <3> QED
      BY <2>5, <3>1, <3>2
  <2> QED
    BY <1>0, <2>5, <2>6, <2>7, SameParts DEF Kept
<1>5. CASE ListUnblocked(j)
  <2>1. jobs[j] \in Job
    BY <1>0, <1>5, JobType DEF ListUnblocked
  <2>2. [jobs[j] EXCEPT !.at = "listing"] \in Job
    BY <2>1 DEF Job
  <2>3. jobs' = [jobs EXCEPT ![j] = [jobs[j] EXCEPT !.at = "listing"]]
    BY <1>0, <1>5 DEF ListUnblocked, JobsOK
  <2>4. JobsOK'
    BY <1>0, <1>5, <2>2, <2>3 DEF ListUnblocked, JobsOK
  <2> DEFINE list == {CopyOf(t) : t \in {u \in Tasks : Assigned(u)}}
  <2>5. \A u \in Tasks : Assigned(u) => CopyOf(u) \in Copy
    BY <1>0 DEF Assigned, CopyOf, Copy, StoreTypeOK, Row
  <2>6. list \in SUBSET Copy
    BY <2>5
  <2>7. work' = [work EXCEPT ![j] = list] /\ UNCHANGED served
    BY <1>5 DEF ListUnblocked
  <2> HIDE DEF list
  <2>8. ListsOK'
    BY <1>0, <2>6, <2>7 DEF ListsOK
  <2> QED
    BY <1>0, <1>5, <2>4, <2>8, SameParts, NoRow_Kept DEF ListUnblocked, Kept
<1>6. CASE JobOver(j)
  <2>1. JobsOK'
    BY <1>0, <1>6 DEF JobOver, JobsOK
  <2>2. ListsOK'
    BY <1>0, <1>6 DEF JobOver, ListsOK
  <2> QED
    BY <1>0, <1>6, <2>1, <2>2, SameParts, NoRow_Kept DEF JobOver, Kept
<1>7. CASE HeartbeatFails(j)
  <2>1. jobs[j] \in Job
    BY <1>0, <1>7, JobType DEF HeartbeatFails, Live
  <2>2. [jobs[j] EXCEPT !.beating = FALSE] \in Job
    BY <2>1 DEF Job
  <2>3. jobs' = [jobs EXCEPT ![j] = [jobs[j] EXCEPT !.beating = FALSE]]
    BY <1>0, <1>7 DEF HeartbeatFails, JobsOK
  <2>4. JobsOK'
    BY <1>0, <1>7, <2>2, <2>3 DEF HeartbeatFails, JobsOK
  <2> QED
    BY <1>0, <1>7, <2>4, SameParts, NoRow_Kept DEF HeartbeatFails, Kept
<1> QED
  BY <1>0, <1>1, <1>2, <1>3, <1>4, <1>5, <1>6, <1>7, DispatchNext_Kept DEF JobStep

LEMMA ToolStep_Kept ==
    ASSUME TypeOK, NEW t \in Tasks, ToolStep(t)
    PROVE  Kept
<1>0. StoreTypeOK /\ TurnOK /\ JobsOK /\ ListsOK /\ RestOK
  BY TypeOK_Parts
<1>1. ASSUME NEW a \in Agents, Claim(t, a) PROVE Kept
  <2>1. RowsKept
    BY <1>0, <1>1, InProgress_Kept DEF Claim, ClaimTask
  <2> QED
    BY <1>0, <1>1, <2>1, SameParts DEF Claim, Kept
<1>2. ASSUME NEW a \in Agents, Complete(t, a) PROVE Kept
  <2>1. CASE CompleteTask(t)
    BY <1>0, <1>2, <2>1, SameParts, Ending_Kept DEF Complete, Kept
  <2>2. CASE /\ Status(t) = "pending"
             /\ row' = [Ended(t, "completed") EXCEPT ![t].owner = a]
    <3> DEFINE E == Ended(t, "completed")
               r == [E[t] EXCEPT !.owner = a]
    <3>1. /\ E \in [Tasks -> Row] /\ E[t].status = "completed"
          /\ \A d \in Tasks : /\ t \notin E[d].blockedBy
                              /\ d # t => E[d].status \in {row[d].status, "pending"}
                              /\ d # t /\ row[d].status # "blocked" =>
                                   E[d].status = row[d].status
      BY <1>0, Ended_Rows DEF Final
    <3> HIDE DEF E
    <3>2. E[t] \in Row
      BY <3>1
    <3>3. r \in Row /\ r.status = "completed" /\ r.blockedBy = E[t].blockedBy
      BY <3>1, <3>2 DEF Row
    <3>4. row' = [E EXCEPT ![t] = r]
      BY <2>2, <3>1 DEF E
    <3> HIDE DEF r
    <3>5. row' \in [Tasks -> Row] /\ row'[t] = r /\ \A d \in Tasks : d # t => row'[d] = E[d]
      BY <3>1, <3>3, <3>4
    <3>6. \A d \in Tasks : Stays(d)
      BY <2>2, <3>1, <3>5 DEF Stays, Status
    <3>7. \A d \in Tasks : t \notin row'[d].blockedBy
      BY <3>1, <3>3, <3>5
    <3>8. \A d \in Tasks : Releases(d)
      BY <3>1, <3>5, <3>7 DEF Releases, Status, Final
    <3>9. RowsKept
      BY <3>5, <3>6, <3>8 DEF RowsKept, StoreTypeOK
    <3> QED
      BY <1>0, <1>2, <3>9, SameParts DEF Complete, Kept
  <2> QED
    BY <1>2, <2>1, <2>2 DEF Complete
<1>3. CASE Review(t)
  BY <1>0, <1>3, SameParts, Statement_Kept DEF Review, Kept
<1>4. CASE Progress(t)
  <2>1. RestOK'
    BY <1>0, <1>4, SpendType DEF Progress, Commands
  <2> QED
    BY <1>0, <1>4, <2>1, SameParts, Statement_Kept DEF Progress, Kept
<1> QED
  BY <1>1, <1>2, <1>3, <1>4 DEF ToolStep

\* Time, the ticker and the restart.
LEMMA TimeStep_Kept ==
    ASSUME TypeOK,
           \/ \E t \in Tasks : LeaseExpires(t) \/ GoesStale(t)
           \/ RecoverStale \/ ForceRecover \/ Restart
    PROVE  Kept
<1>0. StoreTypeOK /\ TurnOK /\ JobsOK /\ ListsOK /\ RestOK
  BY TypeOK_Parts
<1>1. ASSUME NEW t \in Tasks, LeaseExpires(t) PROVE Kept
  <2> DEFINE r == [row[t] EXCEPT !.lease = "expired"]
  <2>1. row[t] \in Row
    BY <1>0 DEF StoreTypeOK
  <2>2. r \in Row /\ r.status = Status(t)
    BY <2>1 DEF Row, Status
  <2>3. row' = [row EXCEPT ![t] = r] /\ Status(t) = "in_progress"
    BY <1>1 DEF LeaseExpires
  <2> HIDE DEF r
  <2>4. RowsKept
    BY <1>0, <2>2, <2>3, OneRow_Kept
  <2> QED
    BY <1>0, <1>1, <2>4, SameParts DEF LeaseExpires, Kept
<1>2. ASSUME NEW t \in Tasks, GoesStale(t) PROVE Kept
  BY <1>0, <1>2, SameParts, Statement_Kept DEF GoesStale, Kept
<1>3. CASE RecoverStale
  <2>1. ExpiredTasks \in SUBSET Tasks /\ \A t \in ExpiredTasks : Status(t) = "in_progress"
    BY DEF ExpiredTasks
  <2>2. RowsKept
    BY <1>0, <1>3, <2>1, Recover_Kept DEF RecoverStale
  <2>3. RestOK'
    BY <1>0, <1>3, <2>1 DEF RecoverStale, Rob, RestOK
  <2> QED
    BY <1>0, <1>3, <2>2, <2>3, SameParts DEF RecoverStale, Kept
<1>4. CASE ForceRecover
  <2>1. StartedTasks \in SUBSET Tasks /\ \A t \in StartedTasks : Status(t) = "in_progress"
    BY DEF StartedTasks
  <2>2. RowsKept
    BY <1>0, <1>4, <2>1, Recover_Kept DEF ForceRecover
  <2>3. RestOK'
    BY <1>0, <1>4, <2>1 DEF ForceRecover, Rob, RestOK
  <2> QED
    BY <1>0, <1>4, <2>2, <2>3, SameParts DEF ForceRecover, Kept
<1>5. CASE Restart
  <2>1. TurnOK' /\ JobsOK' /\ ListsOK'
    BY <1>5 DEF Restart, TurnOK, JobsOK, ListsOK
  <2>2. RestOK'
    BY <1>0, <1>5 DEF Restart, RestOK, Spend, Commands
  <2> QED
    BY <1>0, <1>5, <2>1, <2>2, NoRow_Kept DEF Restart, Kept
<1> QED
  BY <1>1, <1>2, <1>3, <1>4, <1>5
-----------------------------------------------------------------------------
LEMMA Step_Kept == TypeOK /\ [Next]_vars => Kept
<1> SUFFICES ASSUME TypeOK, [Next]_vars PROVE Kept
  OBVIOUS
<1>1. CASE Next
  <2>1. ASSUME NEW t \in Tasks, LeadStep(t) \/ ToolStep(t) PROVE Kept
    BY <2>1, LeadStep_Kept, ToolStep_Kept
  <2>2. ASSUME NEW j \in Slots, JobStep(j) \/ HeartbeatFails(j) PROVE Kept
    BY <2>2, JobStep_Kept
  <2> QED
    BY <1>1, <2>1, <2>2, PostTurnStep_Kept, TimeStep_Kept DEF Next
<1>2. CASE UNCHANGED vars
  <2>1. /\ UNCHANGED row /\ UNCHANGED turnVars /\ UNCHANGED jobVars
        /\ UNCHANGED listVars /\ UNCHANGED <<booting, robbed, used>>
    BY <1>2 DEF vars, turnVars, jobVars, listVars
  <2> QED
    BY <2>1, TypeOK_Parts, SameParts, NoRow_Kept DEF Kept
<1> QED
  BY <1>1, <1>2

LEMMA InitType == Init => TypeOK
<1> SUFFICES ASSUME Init PROVE TypeOK
  OBVIOUS
<1>1. NoRow \in Row
  BY DEF NoRow, Row, Statuses
<1>2. StoreTypeOK
  BY <1>1 DEF Init, StoreInit, StoreTypeOK
<1>3. TurnOK /\ JobsOK /\ ListsOK /\ RestOK
  BY DEF Init, TurnOK, JobsOK, ListsOK, RestOK
<1> QED
  BY <1>2, <1>3, TypeOK_Parts

\* Every reachable state of the board, the turn, the jobs and the dispatchers
\* is well typed: in particular a dispatcher only ever holds tasks that somebody
\* owns.
THEOREM TeamTypeOK == Spec => []TypeOK
<1>1. TypeOK /\ [Next]_vars => TypeOK'
  <2>1. Kept => TypeOK'
    BY DEF Kept, RowsKept, TypeOK, StoreTypeOK, TurnOK, JobsOK, ListsOK, RestOK
  <2> QED
    BY <2>1, Step_Kept
<1> QED
  BY <1>1, InitType, PTL DEF Spec

\* No step of any actor takes a completed or cancelled task to another status,
\* a delete apart: late outcomes, retries, recoveries and dispatches included.
THEOREM TeamFinishedForGood == Spec => FinishedForGood
<1>1. TypeOK /\ [Next]_vars =>
        [\A t \in Tasks : Status(t) \in {"completed", "cancelled"} =>
           row'[t].status \in {Status(t), "deleted"}]_vars
  BY Step_Kept DEF Kept, RowsKept, Stays
<1> QED
  BY <1>1, TeamTypeOK, PTL DEF Spec, FinishedForGood

\* However a task is finished, the step that finishes it takes it out of the
\* blockers of every other task.
THEOREM TeamFinishReleases == Spec => FinishReleases
<1>1. TypeOK /\ [Next]_vars =>
        [\A t \in Tasks : Status(t) \notin Final /\ row'[t].status \in Final =>
           \A d \in Tasks : t \notin row'[d].blockedBy]_vars
  BY Step_Kept DEF Kept, RowsKept, Releases
<1> QED
  BY <1>1, TeamTypeOK, PTL DEF Spec, FinishReleases
-----------------------------------------------------------------------------
(* One run per task. *)

\* A step that leaves busy tasks busy and starts no job.
BusyKept == \A t \in Tasks : Status(t) \in Busy => row'[t].status \in Busy
NoNewJob == \A j \in Slots : Live(j)' => Live(j) /\ jobs'[j].task = jobs[j].task

LEMMA NoNewJob_Subset ==
    ASSUME NoNewJob, NEW t
    PROVE  LiveJobs(t)' \subseteq LiveJobs(t)
BY DEF NoNewJob, LiveJobs

LEMMA Quiet_Live ==
    ASSUME LiveInv, BusyKept, NoNewJob, robbed \subseteq robbed'
    PROVE  LiveInv'
<1>1. ASSUME NEW t \in Tasks PROVE OneLive(t)'
  <2>1. LiveJobs(t)' \subseteq LiveJobs(t) /\ OneLive(t)
    BY NoNewJob_Subset DEF LiveInv
  <2> QED
    BY <2>1 DEF OneLive, BusyKept, Status, Busy
<1> QED
  BY <1>1 DEF LiveInv

\* A message for a task that was pending.
LEMMA Send_Live ==
    ASSUME LiveInv, BusyKept, JobsOK, NEW t \in Tasks, NEW a, NEW try, Send(t, a, try),
           Status(t) = "pending", row'[t].status \in Busy, UNCHANGED robbed
    PROVE  LiveInv'
<1> DEFINE k == CHOOSE x \in FreeSlots : TRUE
           n == [task |-> t, agent |-> a, at |-> "sent", ok |-> FALSE, beating |-> FALSE]
<1>1. CASE UNCHANGED jobs
  <2>1. NoNewJob
    BY <1>1 DEF NoNewJob, Live
  <2> QED
    BY <2>1, Quiet_Live
<1>2. CASE FreeSlots # {} /\ jobs' = [jobs EXCEPT ![k] = n]
  <2>1. k \in Slots /\ jobs[k] = NoJob
    BY <1>2 DEF FreeSlots
  <2>2. n.task = t
    OBVIOUS
  <2> HIDE DEF k, n
  <2>3. jobs'[k] = n /\ \A j \in Slots : j # k => jobs'[j] = jobs[j]
    BY <1>2, <2>1 DEF JobsOK
  <2>4. LiveJobs(t)' \subseteq LiveJobs(t) \cup {k}
    BY <2>3 DEF LiveJobs, Live
  <2>5. t \notin robbed => LiveJobs(t) = {}
    <3>1. OneLive(t) /\ Status(t) \notin Busy
      BY DEF LiveInv, Busy
    <3> QED
      BY <3>1 DEF OneLive
  <2>6. OneLive(t)'
    BY <2>4, <2>5 DEF OneLive, Status
  <2>7. ASSUME NEW u \in Tasks, u # t PROVE OneLive(u)'
    <3>1. LiveJobs(u)' \subseteq LiveJobs(u)
      BY <2>2, <2>3, <2>7 DEF LiveJobs, Live
    <3>2. OneLive(u)
      BY DEF LiveInv
    <3> QED
      BY <3>1, <3>2 DEF OneLive, BusyKept, Status, Busy
  <2> QED
    BY <2>6, <2>7 DEF LiveInv
<1> QED
  BY <1>1, <1>2 DEF Send

\* Rows: the steps that keep busy tasks busy.
LEMMA NoRow_Busy == ASSUME UNCHANGED row PROVE BusyKept
BY DEF BusyKept, Status

LEMMA OneRow_Busy ==
    ASSUME StoreTypeOK, NEW t \in Tasks, NEW r, row' = [row EXCEPT ![t] = r],
           Status(t) \in Busy => r.status \in Busy
    PROVE  BusyKept
<1>1. row'[t] = r /\ \A d \in Tasks : d # t => row'[d] = row[d]
  BY DEF StoreTypeOK
<1> QED
  BY <1>1 DEF BusyKept, Status

LEMMA Ended_Busy ==
    ASSUME StoreTypeOK, NEW t \in Tasks, NEW s \in Final,
           Status(t) \in Busy => s \in Busy, row' = Ended(t, s)
    PROVE  BusyKept
<1>1. /\ row'[t].status = s
      /\ \A d \in Tasks : d # t /\ row[d].status # "blocked" =>
                           row'[d].status = row[d].status
  BY Ended_Rows
<1> QED
  BY <1>1 DEF BusyKept, Status, Busy

LEMMA Statement_Busy ==
    ASSUME StoreTypeOK, NEW t \in Tasks,
           \/ ReviewTask(t) \/ ResetTaskStatus(t) \/ RenewTaskLock(t)
           \/ DeleteTask(t) \/ MarkStale(t)
    PROVE  BusyKept
<1>0. row \in [Tasks -> Row] /\ row[t] \in Row
  BY DEF StoreTypeOK
<1>1. \/ row'[t].status = Status(t)
      \/ row'[t].status \in Busy
      \/ Status(t) \notin Busy
  BY <1>0 DEF ReviewTask, ResetTaskStatus, RenewTaskLock, DeleteTask, MarkStale, Busy,
              Status, Row
<1>2. \A d \in Tasks : d # t => row'[d] = row[d]
  BY <1>0 DEF ReviewTask, ResetTaskStatus, RenewTaskLock, DeleteTask, MarkStale
<1> QED
  BY <1>1, <1>2 DEF BusyKept, Status

LEMMA Ending_Busy ==
    ASSUME StoreTypeOK, NEW t \in Tasks,
           \/ CompleteTask(t) \/ FailPendingTask(t)
           \/ CancelTask(t) \/ ApproveTask(t) \/ RejectTask(t)
    PROVE  BusyKept
<1>1. CASE FailPendingTask(t)
  BY <1>1, Ended_Busy DEF FailPendingTask, Final, Busy
<1>2. CASE CompleteTask(t) \/ CancelTask(t) \/ ApproveTask(t) \/ RejectTask(t)
  BY <1>2, Ended_Busy DEF CompleteTask, CancelTask, ApproveTask, RejectTask, Final, Busy
<1> QED
  BY <1>1, <1>2

\* Jobs: the steps that start none.
LEMMA SameJobs_NoNew == ASSUME UNCHANGED jobs PROVE NoNewJob
BY DEF NoNewJob, Live

LEMMA StopSession_NoNew ==
    ASSUME NEW t \in Tasks, NEW js \in [Slots -> Job \cup {NoJob}], StopSession(t, js),
           \A j \in Slots : js[j] # NoJob /\ js[j].at \notin {"settled", "listing"} =>
                             Live(j) /\ js[j].task = jobs[j].task
    PROVE  NoNewJob
<1>1. ASSUME NEW j \in Slots, Live(j)' PROVE Live(j) /\ jobs'[j].task = jobs[j].task
  <2>1. \/ jobs'[j] = js[j]
        \/ /\ js[j] # NoJob /\ js[j].at \in {"queued", "running"}
           /\ \/ jobs'[j] = [js[j] EXCEPT !.at = "ended", !.ok = FALSE, !.beating = FALSE]
              \/ jobs'[j] = [js[j] EXCEPT !.at = "aborted"]
    BY DEF StopSession
  <2>2. js[j] # NoJob => js[j] \in Job
    OBVIOUS
  <2>3. jobs'[j].task = js[j].task /\ js[j] # NoJob /\ js[j].at \notin {"settled", "listing"}
    BY <1>1, <2>1, <2>2 DEF Live, Job
  <2> QED
    BY <2>3
<1> QED
  BY <1>1 DEF NoNewJob

LEMMA OneJob_NoNew ==
    ASSUME JobsOK, NEW j \in Slots, NEW n, jobs' = [jobs EXCEPT ![j] = n],
           n # NoJob /\ n.at \notin {"settled", "listing"} =>
             Live(j) /\ n.task = jobs[j].task
    PROVE  NoNewJob
<1>1. jobs'[j] = n /\ \A k \in Slots : k # j => jobs'[k] = jobs[k]
  BY DEF JobsOK
<1> QED
  BY <1>1 DEF NoNewJob, Live

\* A session is stopped and nothing else happens to the jobs.
LEMMA Stop_NoNew ==
    ASSUME JobsOK, NEW t \in Tasks, StopSession(t, jobs)
    PROVE  NoNewJob
<1>1. \A j \in Slots : jobs[j] # NoJob /\ jobs[j].at \notin {"settled", "listing"} =>
                         Live(j) /\ jobs[j].task = jobs[j].task
  BY DEF Live
<1> QED
  BY <1>1, StopSession_NoNew DEF JobsOK

\* The steps, actor by actor.
LEMMA LeadStep_Live ==
    ASSUME TypeOK, LiveInv, NEW t \in Tasks, LeadStep(t)
    PROVE  LiveInv'
<1>0. StoreTypeOK /\ JobsOK /\ row \in [Tasks -> Row] /\ row[t] \in Row
  BY TypeOK_Parts DEF StoreTypeOK
<1>1. CASE \/ \E B \in SUBSET MayBlock[t] : CheckBlockers(t, B)
           \/ UpdateLost(t)
  BY <1>1, NoRow_Busy, SameJobs_NoNew, Quiet_Live DEF CheckBlockers, UpdateLost, jobVars
<1>2. CASE Create(t) \/ BoardCreate(t)
  <2>1. \E r : row' = [row EXCEPT ![t] = r] /\ Status(t) = "absent"
    BY <1>2 DEF Create, BoardCreate, CreateTask
  <2>2. BusyKept
    BY <1>0, <2>1, OneRow_Busy DEF Busy
  <2> QED
    BY <1>2, <2>2, SameJobs_NoNew, Quiet_Live DEF Create, BoardCreate, jobVars
<1>3. CASE Update(t)
  <2>1. PICK B \in draft[t] : row' = [row EXCEPT ![t].blockedBy = B]
    BY <1>3 DEF Update
  <2>2. BusyKept
    BY <1>0, <2>1 DEF BusyKept, Status, Row
  <2> QED
    BY <1>3, <2>2, SameJobs_NoNew, Quiet_Live DEF Update, jobVars
<1>4. CASE Cancel(t)
  <2>1. BusyKept /\ NoNewJob
    BY <1>0, <1>4, Ending_Busy, Stop_NoNew DEF Cancel
  <2> QED
    BY <1>4, <2>1, Quiet_Live DEF Cancel
<1>5. CASE Approve(t) \/ Reject(t)
  BY <1>0, <1>5, Ending_Busy, SameJobs_NoNew, Quiet_Live DEF Approve, Reject, jobVars
<1>6. CASE Delete(t) \/ Retry(t)
  BY <1>0, <1>6, Statement_Busy, SameJobs_NoNew, Quiet_Live DEF Delete, Retry, jobVars
<1>7. ASSUME NEW a \in Agents, BoardAssign(t, a) PROVE LiveInv'
  <2>1. InProgress(row[t], a).status = "in_progress"
    BY <1>0 DEF InProgress, Row
  <2>2. row' = [row EXCEPT ![t] = InProgress(row[t], a)]
    BY <1>7 DEF BoardAssign
  <2>3. BusyKept /\ row'[t].status \in Busy
    BY <1>0, <2>1, <2>2, OneRow_Busy DEF Busy
  <2> QED
    BY <1>0, <1>7, <2>3, Send_Live DEF BoardAssign
<1> QED
  BY <1>1, <1>2, <1>3, <1>4, <1>5, <1>6, <1>7 DEF LeadStep

\* A dispatcher assigns pending tasks only.
LEMMA DispatchNext_Live ==
    ASSUME TypeOK, LiveInv, NEW d \in Dispatchers, DispatchNext(d)
    PROVE  LiveInv'
<1>0. StoreTypeOK /\ JobsOK /\ ListsOK /\ row \in [Tasks -> Row]
  BY TypeOK_Parts DEF StoreTypeOK
<1>1. PICK c \in work[d] :
        \/ Status(c.task) = "pending" /\ AssignAndDispatch(c)
        \/ UNCHANGED <<row, jobs>>
  BY DEF DispatchNext
<1>2. UNCHANGED robbed
  BY DEF DispatchNext
<1>3. CASE UNCHANGED <<row, jobs>>
  BY <1>2, <1>3, NoRow_Busy, SameJobs_NoNew, Quiet_Live
<1>4. CASE Status(c.task) = "pending" /\ AssignAndDispatch(c)
  <2> DEFINE t == c.task
             r == InProgress(row[t], c.owner)
             failed == Updated(r, {"status", "result"}, [r EXCEPT !.status = "failed"])
             counted == Updated(r, {"metadata"}, [r EXCEPT !.count = c.count + 1])
  <2>1. c \in Copy /\ t \in Tasks /\ row[t] \in Row
    BY <1>0 DEF ListsOK, Copy
  <2>2. r.status = "in_progress" /\ [r EXCEPT !.count = c.count + 1].status = "in_progress"
    BY <2>1 DEF InProgress, Row
  <2>3. failed = r
    BY DEF Updated, Updatable
  <2>4. counted.status = "in_progress"
    BY <2>2 DEF Updated
  <2>5. \/ row' = [row EXCEPT ![t] = failed] /\ UNCHANGED jobs
        \/ row' = [row EXCEPT ![t] = counted] /\ Send(t, c.owner, TRUE)
    BY <1>4 DEF AssignAndDispatch
  <2> HIDE DEF r, failed, counted
  <2>6. BusyKept /\ row'[t].status \in Busy
    BY <1>0, <2>1, <2>2, <2>3, <2>4, <2>5, OneRow_Busy DEF Busy
  <2>7. CASE UNCHANGED jobs
    BY <1>2, <2>6, <2>7, SameJobs_NoNew, Quiet_Live
  <2>8. CASE Send(t, c.owner, TRUE)
    BY <1>0, <1>2, <1>4, <2>1, <2>6, <2>8, Send_Live
  <2> QED
    BY <2>5, <2>7, <2>8
<1> QED
  BY <1>1, <1>3, <1>4

LEMMA PostTurnStep_Live ==
    ASSUME TypeOK, LiveInv, PostTurnStep
    PROVE  LiveInv'
<1>0. StoreTypeOK /\ TurnOK /\ JobsOK
  BY TypeOK_Parts
<1>1. CASE TurnEnds
  BY <1>1, NoRow_Busy, SameJobs_NoNew, Quiet_Live DEF TurnEnds, jobVars
<1>2. ASSUME NEW t \in Tasks, FailDoomed(t) PROVE LiveInv'
  <2>1. BusyKept
    BY <1>0, <1>2, Ending_Busy, NoRow_Busy DEF FailDoomed
  <2>2. NoNewJob
    BY <1>0, <1>2, Stop_NoNew DEF FailDoomed
  <2> QED
    BY <1>2, <2>1, <2>2, Quiet_Live DEF FailDoomed
<1>3. CASE DispatchNext(Turn) \/ DispatchNext(RetryCall)
  BY <1>3, DispatchNext_Live DEF Dispatchers
<1> QED
  BY <1>1, <1>2, <1>3 DEF PostTurnStep

\* The failure of a task settles the one job that was alive for it.
LEMMA Fail_Live ==
    ASSUME TypeOK, LiveInv, NEW j \in Slots, Live(j), NEW t \in Tasks, t = jobs[j].task,
           FailTask(t), NoNewJob, ~Live(j)', UNCHANGED robbed
    PROVE  LiveInv'
<1>1. \A u \in Tasks : u # t /\ Status(u) \in Busy => row'[u].status \in Busy
  <2>1. StoreTypeOK /\ row' = Ended(t, "failed")
    BY TypeOK_Parts DEF FailTask
  <2>2. \A d \in Tasks : d # t /\ row[d].status # "blocked" =>
                           row'[d].status = row[d].status
    BY <2>1, Ended_Rows, "failed" \in Final DEF Final
  <2> QED
    BY <2>2 DEF Busy, Status
<1>2. ASSUME NEW u \in Tasks, u # t PROVE OneLive(u)'
  <2>1. LiveJobs(u)' \subseteq LiveJobs(u) /\ OneLive(u)
    BY NoNewJob_Subset DEF LiveInv
  <2> QED
    BY <1>1, <1>2, <2>1 DEF OneLive, Status, Busy
<1>3. OneLive(t)'
  <2>1. LiveJobs(t)' \subseteq LiveJobs(t) /\ j \in LiveJobs(t) /\ OneLive(t)
    BY NoNewJob_Subset DEF LiveInv, LiveJobs
  <2>2. j \notin LiveJobs(t)'
    BY DEF LiveJobs
  <2>3. t \notin robbed' => LiveJobs(t)' = {}
    BY <2>1, <2>2 DEF OneLive
  <2> QED
    BY <2>3 DEF OneLive
<1> QED
  BY <1>2, <1>3 DEF LiveInv

LEMMA JobStep_Live ==
    ASSUME TypeOK, LiveInv, NEW j \in Slots, JobStep(j) \/ HeartbeatFails(j)
    PROVE  LiveInv'
<1>0. StoreTypeOK /\ JobsOK /\ jobs \in [Slots -> Job \cup {NoJob}] /\ j \in Dispatchers
  BY TypeOK_Parts DEF JobsOK, Dispatchers
\* A step of the job that neither starts nor moves it to another task.
<1>1. ASSUME NEW n, jobs' = [jobs EXCEPT ![j] = n],
             n # NoJob /\ n.at \notin {"settled", "listing"} =>
               Live(j) /\ n.task = jobs[j].task,
             UNCHANGED <<row, robbed>>
      PROVE  LiveInv'
  BY <1>0, <1>1, OneJob_NoNew, NoRow_Busy, Quiet_Live
<1>2. jobs[j] # NoJob => jobs[j] \in Job
  BY <1>0
<1>3. CASE Consume(j)
  <2> DEFINE n == [jobs[j] EXCEPT !.at = "queued", !.beating = TRUE]
  <2>1. jobs' = [jobs EXCEPT ![j] = n] /\ UNCHANGED <<row, robbed>> /\ Live(j)
    BY <1>0, <1>3 DEF Consume, Live
  <2>2. n.task = jobs[j].task
    BY <1>2, <1>3 DEF Consume, Job
  <2> QED
    BY <1>1, <2>1, <2>2
<1>4. CASE StartRun(j)
  <2> DEFINE n == [jobs[j] EXCEPT !.at = "running"]
  <2>1. jobs' = [jobs EXCEPT ![j] = n] /\ UNCHANGED <<row, robbed>> /\ Live(j)
    BY <1>0, <1>4 DEF StartRun, Live
  <2>2. n.task = jobs[j].task
    BY <1>2, <1>4 DEF StartRun, Job
  <2> QED
    BY <1>1, <2>1, <2>2
<1>5. CASE EndRun(j)
  <2>1. PICK ok \in BOOLEAN :
          jobs' = [jobs EXCEPT ![j].at = "ended", ![j].ok = ok, ![j].beating = FALSE]
    BY <1>5 DEF EndRun
  <2> DEFINE n == [jobs[j] EXCEPT !.at = "ended", !.ok = ok, !.beating = FALSE]
  <2>2. jobs' = [jobs EXCEPT ![j] = n] /\ UNCHANGED <<row, robbed>> /\ Live(j)
    BY <1>0, <1>5, <2>1 DEF EndRun, Live
  <2>3. n.task = jobs[j].task
    BY <1>2, <1>5 DEF EndRun, Job
  <2> QED
    BY <1>1, <2>2, <2>3
<1>6. CASE Settle(j)
  <2> DEFINE t == jobs[j].task
             m == [jobs[j] EXCEPT !.at = "settled"]
             js == [jobs EXCEPT ![j].at = "settled"]
  <2>1. jobs[j] \in Job /\ t \in Tasks /\ Live(j)
    BY <1>2, <1>6 DEF Settle, Live, Job
  <2>2. m \in Job /\ m.at = "settled"
    BY <2>1 DEF Job
  <2>3. js = [jobs EXCEPT ![j] = m]
    BY <1>0
  <2>4. /\ \/ CompleteTask(t) /\ jobs' = js
           \/ FailTask(t) /\ StopSession(t, js)
           \/ jobs' = js /\ UNCHANGED row
        /\ UNCHANGED robbed
    BY <1>6 DEF Settle
  <2> HIDE DEF js, m
  <2>5. CASE jobs' = js
    <3>1. NoNewJob
      BY <1>0, <2>2, <2>3, <2>5, OneJob_NoNew
    <3>2. ASSUME BusyKept PROVE LiveInv'
      BY <2>4, <3>1, <3>2, Quiet_Live
    <3>3. CASE FailTask(t)
      <4>1. ~Live(j)'
        BY <1>0, <2>2, <2>3, <2>5 DEF Live
      <4> QED
        BY <2>1, <2>4, <3>1, <3>3, <4>1, Fail_Live
    <3> QED
      BY <1>0, <2>1, <2>4, <3>2, <3>3, Ending_Busy, NoRow_Busy
  <2>6. CASE FailTask(t) /\ StopSession(t, js)
    <3>1. js \in [Slots -> Job \cup {NoJob}] /\ js[j] = m
          /\ \A k \in Slots : k # j => js[k] = jobs[k]
      BY <1>0, <2>2, <2>3
    <3>2. \A k \in Slots : js[k] # NoJob /\ js[k].at \notin {"settled", "listing"} =>
                             Live(k) /\ js[k].task = jobs[k].task
      BY <2>2, <3>1 DEF Live
    <3>3. NoNewJob
      BY <2>1, <2>6, <3>1, <3>2, StopSession_NoNew
    <3>4. jobs'[j] = m
      BY <2>2, <2>6, <3>1 DEF StopSession
    <3>5. ~Live(j)'
      BY <2>2, <3>4 DEF Live
    <3> QED
      BY <2>1, <2>4, <2>6, <3>3, <3>5, Fail_Live
  <2> QED
    BY <2>4, <2>5, <2>6
<1>7. CASE ListUnblocked(j)
  <2> DEFINE n == [jobs[j] EXCEPT !.at = "listing"]
  <2>1. jobs' = [jobs EXCEPT ![j] = n] /\ UNCHANGED <<row, robbed>>
    BY <1>0, <1>7 DEF ListUnblocked
  <2>2. n.at = "listing"
    BY <1>2, <1>7 DEF ListUnblocked, Job
  <2> QED
    BY <1>1, <2>1, <2>2
<1>8. CASE DispatchNext(j)
  BY <1>0, <1>8, DispatchNext_Live
<1>9. CASE JobOver(j)
  BY <1>1, <1>9 DEF JobOver
<1>10. CASE HeartbeatFails(j)
  <2> DEFINE n == [jobs[j] EXCEPT !.beating = FALSE]
  <2>1. jobs' = [jobs EXCEPT ![j] = n] /\ UNCHANGED <<row, robbed>> /\ Live(j)
    BY <1>0, <1>10 DEF HeartbeatFails
  <2>2. n.task = jobs[j].task
    BY <1>2, <2>1 DEF Live, Job
  <2> QED
    BY <1>1, <2>1, <2>2
<1> QED
  BY <1>3, <1>4, <1>5, <1>6, <1>7, <1>8, <1>9, <1>10 DEF JobStep

LEMMA ToolStep_Live ==
    ASSUME TypeOK, LiveInv, NEW t \in Tasks, ToolStep(t)
    PROVE  LiveInv'
<1>0. StoreTypeOK /\ JobsOK /\ row \in [Tasks -> Row] /\ row[t] \in Row
  BY TypeOK_Parts DEF StoreTypeOK
<1>1. ASSUME BusyKept, UNCHANGED <<jobs, robbed>> PROVE LiveInv'
  BY <1>1, SameJobs_NoNew, Quiet_Live
<1>2. ASSUME NEW a \in Agents, Claim(t, a) PROVE LiveInv'
  <2>1. InProgress(row[t], a).status = "in_progress"
    BY <1>0 DEF InProgress, Row
  <2>2. row' = [row EXCEPT ![t] = InProgress(row[t], a)]
    BY <1>2 DEF Claim, ClaimTask
  <2>3. BusyKept
    BY <1>0, <2>1, <2>2, OneRow_Busy DEF Busy
  <2> QED
    BY <1>1, <1>2, <2>3 DEF Claim, jobVars
<1>3. ASSUME NEW a \in Agents, Complete(t, a) PROVE LiveInv'
  <2>1. UNCHANGED <<jobs, robbed>>
    BY <1>3 DEF Complete, jobVars
  <2>2. CASE CompleteTask(t)
    BY <1>0, <1>1, <2>1, <2>2, Ending_Busy
  <2>3. CASE row' = [Ended(t, "completed") EXCEPT ![t].owner = a]
    <3> DEFINE E == Ended(t, "completed")
    <3>1. /\ E \in [Tasks -> Row] /\ E[t].status = "completed"
          /\ \A d \in Tasks : d # t /\ row[d].status # "blocked" =>
                               E[d].status = row[d].status
      BY <1>0, Ended_Rows, "completed" \in Final DEF Final
    <3> HIDE DEF E
    <3>2. row' = [E EXCEPT ![t].owner = a]
      BY <2>3 DEF E
    <3>3. row'[t].status = "completed" /\ \A d \in Tasks : d # t => row'[d] = E[d]
      BY <3>1, <3>2 DEF Row
    <3>4. BusyKept
      BY <3>1, <3>3 DEF BusyKept, Status, Busy
    <3> QED
      BY <1>1, <2>1, <3>4
  <2> QED
    BY <1>3, <2>2, <2>3 DEF Complete
<1>4. CASE Review(t) \/ Progress(t)
  BY <1>0, <1>1, <1>4, Statement_Busy DEF Review, Progress, jobVars
<1> QED
  BY <1>2, <1>3, <1>4 DEF ToolStep

\* The recovery of R, whose tasks with a living job are recorded.
LEMMA Recover_Live ==
    ASSUME StoreTypeOK, LiveInv, NEW R \in SUBSET Tasks, Recover(R), Rob(R), UNCHANGED jobs
    PROVE  LiveInv'
<1>1. ASSUME NEW t \in Tasks PROVE OneLive(t)'
  <2>1. LiveJobs(t)' = LiveJobs(t) /\ OneLive(t)
    BY DEF LiveInv, LiveJobs, Live
  <2>2. t \notin R => row'[t] = row[t]
    BY DEF Recover
  <2>3. t \notin robbed' => t \notin robbed /\ (t \in R => LiveJobs(t) = {})
    BY DEF Rob
  <2> QED
    BY <2>1, <2>2, <2>3 DEF OneLive, Status, Busy
<1> QED
  BY <1>1 DEF LiveInv

LEMMA TimeStep_Live ==
    ASSUME TypeOK, LiveInv,
           \/ \E t \in Tasks : LeaseExpires(t) \/ GoesStale(t)
           \/ RecoverStale \/ ForceRecover \/ Restart
    PROVE  LiveInv'
<1>0. StoreTypeOK /\ row \in [Tasks -> Row]
  BY TypeOK_Parts DEF StoreTypeOK
<1>1. ASSUME NEW t \in Tasks, LeaseExpires(t) \/ GoesStale(t) PROVE LiveInv'
  <2>2. BusyKept
    <3>1. CASE LeaseExpires(t)
      BY <1>0, <3>1 DEF LeaseExpires, BusyKept, Status, Row
    <3>2. CASE GoesStale(t)
      BY <1>0, <3>2, Statement_Busy DEF GoesStale
    <3> QED
      BY <1>1, <3>1, <3>2
  <2>3. UNCHANGED <<jobs, robbed>>
    BY <1>1 DEF LeaseExpires, GoesStale, jobVars
  <2> QED
    BY <2>2, <2>3, SameJobs_NoNew, Quiet_Live
<1>2. CASE RecoverStale \/ ForceRecover
  <2>1. PICK R \in SUBSET Tasks : Recover(R) /\ Rob(R)
    BY <1>2 DEF RecoverStale, ForceRecover, ExpiredTasks, StartedTasks
  <2> QED
    BY <1>0, <1>2, <2>1, Recover_Live DEF RecoverStale, ForceRecover, jobVars
<1>3. CASE Restart
  <2>1. NoNewJob
    BY <1>3 DEF Restart, NoNewJob, Live
  <2> QED
    BY <1>3, <2>1, NoRow_Busy, Quiet_Live DEF Restart
<1> QED
  BY <1>1, <1>2, <1>3

LEMMA Step_Live == TypeOK /\ LiveInv /\ [Next]_vars => LiveInv'
<1> SUFFICES ASSUME TypeOK, LiveInv, [Next]_vars PROVE LiveInv'
  OBVIOUS
<1>1. CASE Next
  <2>1. ASSUME NEW t \in Tasks, LeadStep(t) \/ ToolStep(t) PROVE LiveInv'
    BY <2>1, LeadStep_Live, ToolStep_Live
  <2>2. ASSUME NEW j \in Slots, JobStep(j) \/ HeartbeatFails(j) PROVE LiveInv'
    BY <2>2, JobStep_Live
  <2> QED
    BY <1>1, <2>1, <2>2, PostTurnStep_Live, TimeStep_Live DEF Next
<1>2. CASE UNCHANGED vars
  BY <1>2, NoRow_Busy, SameJobs_NoNew, Quiet_Live DEF vars
<1> QED
  BY <1>1, <1>2

LEMMA Live_One == TypeOK /\ LiveInv => OneRunPerTask
<1> SUFFICES ASSUME LiveInv, NEW t \in Tasks, t \notin robbed
             PROVE  Cardinality(LiveJobs(t)) <= 1
  BY DEF OneRunPerTask
<1>1. \A i, j \in LiveJobs(t) : i = j
  BY DEF LiveInv, OneLive
<1>2. CASE LiveJobs(t) = {}
  BY <1>2, FS_EmptySet
<1>3. ASSUME NEW j \in LiveJobs(t) PROVE Cardinality(LiveJobs(t)) <= 1
  <2>1. LiveJobs(t) = {j}
    BY <1>1
  <2>2. Cardinality({j}) = 1
    BY FS_Singleton
  <2> QED
    BY <2>1, <2>2
<1> QED
  BY <1>2, <1>3

\* Whoever assigns a task, the post-turn step, a dispatcher of unblocked tasks,
\* a retry or the dashboard, and however their steps interleave, a task that
\* the ticker never took from a living run has at most one job alive.
THEOREM TeamOneRunPerTask == Spec => []OneRunPerTask
<1>1. Init => LiveInv
  BY DEF Init, LiveInv, OneLive, LiveJobs, Live
<1>2. TypeOK /\ LiveInv /\ [Next]_vars => LiveInv'
  BY Step_Live
<1>3. TypeOK /\ LiveInv => OneRunPerTask
  BY Live_One
<1> QED
  BY <1>1, <1>2, <1>3, TeamTypeOK, PTL DEF Spec
-----------------------------------------------------------------------------
(* A cancel reaches the run. *)

\* A job that waits or runs in its session.
InSession(j) == jobs[j] # NoJob /\ jobs[j].at \in {"queued", "running"}

\* A step that puts no job into a session and leaves the sessions alone.
LEMMA Calm_Finds ==
    ASSUME CancelFindsRun, UNCHANGED session, robbed \subseteq robbed',
           \A k \in Slots : InSession(k)' =>
             /\ InSession(k)
             /\ jobs'[k].task = jobs[k].task /\ jobs'[k].agent = jobs[k].agent
    PROVE  CancelFindsRun'
BY DEF CancelFindsRun, InSession

\* A step that changes one job, and does not put it into its session.
LEMMA OneJob_Finds ==
    ASSUME CancelFindsRun, JobsOK, NEW j \in Slots, NEW n, jobs' = [jobs EXCEPT ![j] = n],
           n # NoJob /\ n.at \in {"queued", "running"} =>
             InSession(j) /\ n.task = jobs[j].task /\ n.agent = jobs[j].agent,
           UNCHANGED <<session, robbed>>
    PROVE  CancelFindsRun'
<1>1. \A k \in Slots : jobs'[k] = IF k = j THEN n ELSE jobs[k]
  BY DEF JobsOK
<1> QED
  BY <1>1, Calm_Finds DEF InSession

\* A message that is sent is in no session yet.
LEMMA Send_Finds ==
    ASSUME CancelFindsRun, JobsOK, NEW t, NEW a, NEW try, Send(t, a, try),
           UNCHANGED <<session, robbed>>
    PROVE  CancelFindsRun'
<1> DEFINE n == [task |-> t, agent |-> a, at |-> "sent", ok |-> FALSE, beating |-> FALSE]
<1>1. ASSUME FreeSlots # {}, jobs' = [jobs EXCEPT ![CHOOSE k \in FreeSlots : TRUE] = n]
      PROVE  CancelFindsRun'
  <2>1. PICK j \in Slots : jobs' = [jobs EXCEPT ![j] = n]
    BY <1>1 DEF FreeSlots
  <2>2. n.at = "sent"
    OBVIOUS
  <2> HIDE DEF n
  <2> QED
    BY <2>1, <2>2, OneJob_Finds
<1>2. ASSUME UNCHANGED jobs PROVE CancelFindsRun'
  BY <1>2, Calm_Finds DEF InSession
<1> QED
  BY <1>1, <1>2 DEF Send

\* The stop of a session clears the session of the jobs it ends, and no other
\* job of theirs is alive.
LEMMA StopSession_Finds ==
    ASSUME CancelFindsRun, LiveInv, JobsOK, NEW t \in Tasks,
           NEW js \in [Slots -> Job \cup {NoJob}], StopSession(t, js),
           \A k \in Slots : js[k] # NoJob /\ js[k].at \in {"queued", "running"} =>
                              js[k] = jobs[k],
           UNCHANGED robbed
    PROVE  CancelFindsRun'
<1> DEFINE hit(k) == js[k] # NoJob /\ js[k].agent = session[t]
           queued == {k \in Slots : hit(k) /\ js[k].at = "queued"}
           running == {k \in Slots : hit(k) /\ js[k].at = "running"}
<1>1. /\ \A k \in Slots : jobs'[k] =
             IF k \in queued THEN [js[k] EXCEPT !.at = "ended", !.ok = FALSE,
                                                !.beating = FALSE]
             ELSE IF k \in running THEN [js[k] EXCEPT !.at = "aborted"]
             ELSE js[k]
      /\ \A u \in Tasks : u # t /\ (\A q \in queued : js[q].task # u) =>
                            session'[u] = session[u]
  BY DEF StopSession
<1>2. SUFFICES ASSUME NEW k \in Slots, InSession(k)', jobs'[k].task \notin robbed
               PROVE  session'[jobs'[k].task] = jobs'[k].agent
  BY DEF CancelFindsRun, InSession
<1>3. k \notin queued /\ k \notin running
  <2>1. k \in queued \cup running => js[k] \in Job
    OBVIOUS
  <2>2. k \in queued => jobs'[k].at = "ended"
    BY <1>1, <2>1 DEF Job
  <2>3. k \in running \ queued => jobs'[k].at = "aborted"
    BY <1>1, <2>1 DEF Job
  <2> QED
    BY <1>2, <2>2, <2>3 DEF InSession
<1>4. /\ jobs'[k] = jobs[k] /\ js[k] = jobs[k] /\ InSession(k) /\ jobs[k] \in Job
      /\ session[jobs[k].task] = jobs[k].agent
  <2>1. jobs'[k] = js[k]
    BY <1>1, <1>3
  <2>2. js[k] = jobs[k] /\ InSession(k)
    BY <1>2, <2>1 DEF InSession
  <2> QED
    BY <1>2, <2>1, <2>2 DEF CancelFindsRun, InSession
<1>5. jobs[k].agent # session[t]
  BY <1>3, <1>4 DEF InSession
<1>6. jobs[k].task # t
  BY <1>4, <1>5
<1>7. \A q \in queued : js[q].task # jobs[k].task
  <2>1. SUFFICES ASSUME NEW q \in queued, js[q].task = jobs[k].task PROVE FALSE
    OBVIOUS
  <2>2. jobs[q] = js[q] /\ q # k /\ Live(q) /\ Live(k)
    BY <1>3, <1>4 DEF Live, InSession
  <2>3. q \in LiveJobs(jobs[k].task) /\ k \in LiveJobs(jobs[k].task)
    BY <2>1, <2>2 DEF LiveJobs
  <2>4. jobs[k].task \in Tasks /\ jobs[k].task \notin robbed
    BY <1>2, <1>4 DEF Job
  <2> QED
    BY <2>2, <2>3, <2>4 DEF LiveInv, OneLive
<1> QED
  BY <1>1, <1>4, <1>6, <1>7 DEF Job

\* A job enters its session, or its outcome comes: no other job of its task is
\* alive, so that no other job loses its session.
LEMMA Turn_Finds ==
    ASSUME CancelFindsRun, LiveInv, JobsOK, NEW j \in Slots, Live(j), NEW n \in Job,
           jobs' = [jobs EXCEPT ![j] = n], n.task = jobs[j].task,
           NEW s, session' = [session EXCEPT ![jobs[j].task] = s],
           session \in [Tasks -> Agents \cup {NoAgent}],
           n.at \in {"queued", "running"} => n.agent = s,
           UNCHANGED robbed
    PROVE  CancelFindsRun'
<1>1. \A k \in Slots : jobs'[k] = IF k = j THEN n ELSE jobs[k]
  BY DEF JobsOK
<1>2. jobs[j] \in Job /\ jobs[j].task \in Tasks
  BY DEF JobsOK, Live, Job
<1>3. \A u \in Tasks : session'[u] = IF u = jobs[j].task THEN s ELSE session[u]
  BY <1>2
<1>4. SUFFICES ASSUME NEW k \in Slots, InSession(k)', jobs'[k].task \notin robbed
               PROVE  session'[jobs'[k].task] = jobs'[k].agent
  BY DEF CancelFindsRun, InSession
<1>5. CASE k = j
  BY <1>1, <1>2, <1>3, <1>4, <1>5 DEF InSession
<1>6. CASE k # j
  <2>1. jobs'[k] = jobs[k] /\ InSession(k) /\ jobs[k] \in Job /\ jobs[k].task \in Tasks
    BY <1>1, <1>4, <1>6 DEF InSession, JobsOK, Job
  <2>2. Live(k)
    BY <2>1 DEF Live, InSession
  <2>3. jobs[k].task # jobs[j].task
    BY <1>4, <1>6, <2>1, <2>2 DEF LiveInv, OneLive, LiveJobs
  <2> QED
    BY <1>3, <1>4, <2>1, <2>3 DEF CancelFindsRun, InSession
<1> QED
  BY <1>5, <1>6

LEMMA DispatchNext_Finds ==
    ASSUME TypeOK, CancelFindsRun, NEW d, DispatchNext(d)
    PROVE  CancelFindsRun'
<1>0. JobsOK
  BY TypeOK_Parts
<1>1. UNCHANGED <<session, robbed>>
  BY DEF DispatchNext
<1>2. PICK c : AssignAndDispatch(c) \/ UNCHANGED jobs
  BY DEF DispatchNext
<1>3. Send(c.task, c.owner, TRUE) \/ UNCHANGED jobs
  BY <1>2 DEF AssignAndDispatch
<1>4. CASE UNCHANGED jobs
  BY <1>1, <1>4, Calm_Finds DEF InSession
<1> QED
  BY <1>0, <1>1, <1>3, <1>4, Send_Finds

LEMMA JobStep_Finds ==
    ASSUME TypeOK, LiveInv, CancelFindsRun, NEW j \in Slots, JobStep(j) \/ HeartbeatFails(j)
    PROVE  CancelFindsRun'
<1>0. /\ JobsOK /\ jobs \in [Slots -> Job \cup {NoJob}]
      /\ session \in [Tasks -> Agents \cup {NoAgent}]
      /\ jobs[j] # NoJob => jobs[j] \in Job /\ jobs[j].agent \in Agents
  BY TypeOK_Parts DEF JobsOK, Job
<1>1. CASE Consume(j)
  <2> DEFINE n == [jobs[j] EXCEPT !.at = "queued", !.beating = TRUE]
  <2>1. jobs[j] \in Job /\ Live(j) /\ UNCHANGED robbed
        /\ session' = [session EXCEPT ![jobs[j].task] = jobs[j].agent]
    BY <1>0, <1>1 DEF Consume, Live
  <2>2. jobs' = [jobs EXCEPT ![j] = n]
    BY <1>0, <1>1 DEF Consume
  <2>3. n \in Job /\ n.task = jobs[j].task /\ n.agent = jobs[j].agent
    BY <2>1 DEF Job
  <2> HIDE DEF n
  <2> QED
    BY <1>0, <2>1, <2>2, <2>3, Turn_Finds
<1>2. CASE EndRun(j)
  <2>1. PICK ok \in BOOLEAN :
          jobs' = [jobs EXCEPT ![j].at = "ended", ![j].ok = ok, ![j].beating = FALSE]
    BY <1>2 DEF EndRun
  <2> DEFINE n == [jobs[j] EXCEPT !.at = "ended", !.ok = ok, !.beating = FALSE]
  <2>2. jobs[j] \in Job /\ Live(j) /\ UNCHANGED robbed
        /\ session' = [session EXCEPT ![jobs[j].task] = NoAgent]
    BY <1>0, <1>2 DEF EndRun, Live
  <2>3. jobs' = [jobs EXCEPT ![j] = n]
    BY <1>0, <2>1
  <2>4. n \in Job /\ n.task = jobs[j].task /\ n.at = "ended"
    BY <2>2 DEF Job
  <2> HIDE DEF n
  <2> QED
    BY <1>0, <2>2, <2>3, <2>4, Turn_Finds
<1>3. CASE StartRun(j)
  <2> DEFINE n == [jobs[j] EXCEPT !.at = "running"]
  <2>1. jobs' = [jobs EXCEPT ![j] = n] /\ UNCHANGED <<session, robbed>> /\ InSession(j)
    BY <1>0, <1>3 DEF StartRun, InSession
  <2>2. n.task = jobs[j].task /\ n.agent = jobs[j].agent
    BY <1>0, <1>3 DEF StartRun, Job
  <2> HIDE DEF n
  <2> QED
    BY <1>0, <2>1, <2>2, OneJob_Finds
<1>4. CASE HeartbeatFails(j)
  <2> DEFINE n == [jobs[j] EXCEPT !.beating = FALSE]
  <2>1. jobs' = [jobs EXCEPT ![j] = n] /\ UNCHANGED <<session, robbed>> /\ jobs[j] # NoJob
    BY <1>0, <1>4 DEF HeartbeatFails, Live
  <2>2. n.task = jobs[j].task /\ n.agent = jobs[j].agent /\ n.at = jobs[j].at
    BY <1>0, <2>1 DEF Job
  <2> HIDE DEF n
  <2> QED
    BY <1>0, <2>1, <2>2, OneJob_Finds DEF InSession
<1>5. CASE Settle(j)
  <2> DEFINE t == jobs[j].task
             m == [jobs[j] EXCEPT !.at = "settled"]
             js == [jobs EXCEPT ![j].at = "settled"]
  <2>1. jobs[j] \in Job /\ t \in Tasks
    BY <1>0, <1>5 DEF Settle, Job
  <2>2. m \in Job /\ m.at = "settled" /\ js = [jobs EXCEPT ![j] = m]
    BY <1>0, <2>1 DEF Job
  <2>3. /\ \/ jobs' = js /\ UNCHANGED session
           \/ StopSession(t, js)
        /\ UNCHANGED robbed
    BY <1>5 DEF Settle
  <2> HIDE DEF js, m
  <2>4. CASE jobs' = js /\ UNCHANGED session
    BY <1>0, <2>2, <2>3, <2>4, OneJob_Finds
  <2>5. CASE StopSession(t, js)
    <3>1. js \in [Slots -> Job \cup {NoJob}]
          /\ \A k \in Slots : js[k] = IF k = j THEN m ELSE jobs[k]
      BY <1>0, <2>2
    <3> QED
      BY <1>0, <2>1, <2>2, <2>3, <2>5, <3>1, StopSession_Finds
  <2> QED
    BY <2>3, <2>4, <2>5
<1>6. CASE ListUnblocked(j)
  <2> DEFINE n == [jobs[j] EXCEPT !.at = "listing"]
  <2>1. jobs' = [jobs EXCEPT ![j] = n] /\ UNCHANGED <<session, robbed>>
    BY <1>0, <1>6 DEF ListUnblocked
  <2>2. n.at = "listing"
    BY <1>0, <1>6 DEF ListUnblocked, Job
  <2> HIDE DEF n
  <2> QED
    BY <1>0, <2>1, <2>2, OneJob_Finds
<1>7. CASE JobOver(j)
  <2>1. jobs' = [jobs EXCEPT ![j] = NoJob] /\ UNCHANGED <<session, robbed>>
    BY <1>7 DEF JobOver
  <2> QED
    BY <1>0, <2>1, OneJob_Finds
<1>8. CASE DispatchNext(j)
  BY <1>8, DispatchNext_Finds
<1> QED
  BY <1>1, <1>2, <1>3, <1>4, <1>5, <1>6, <1>7, <1>8 DEF JobStep

LEMMA Step_Finds == TypeOK /\ LiveInv /\ CancelFindsRun /\ [Next]_vars => CancelFindsRun'
<1> SUFFICES ASSUME TypeOK, LiveInv, CancelFindsRun, [Next]_vars PROVE CancelFindsRun'
  OBVIOUS
<1>0. JobsOK /\ jobs \in [Slots -> Job \cup {NoJob}]
  BY TypeOK_Parts DEF JobsOK
<1>1. ASSUME UNCHANGED <<jobs, session>>, robbed \subseteq robbed' PROVE CancelFindsRun'
  BY <1>1, Calm_Finds DEF InSession
<1>2. ASSUME NEW t \in Tasks, LeadStep(t) PROVE CancelFindsRun'
  <2>1. CASE Cancel(t)
    <3>1. StopSession(t, jobs) /\ UNCHANGED robbed
      BY <2>1 DEF Cancel
    <3> QED
      BY <1>0, <3>1, StopSession_Finds
  <2>2. ASSUME NEW a \in Agents, BoardAssign(t, a) PROVE CancelFindsRun'
    <3>1. Send(t, a, FALSE) /\ UNCHANGED <<session, robbed>>
      BY <2>2 DEF BoardAssign
    <3> QED
      BY <1>0, <3>1, Send_Finds
  <2>3. CASE \/ \E B \in SUBSET MayBlock[t] : CheckBlockers(t, B)
             \/ Create(t) \/ Update(t) \/ UpdateLost(t)
    BY <1>1, <2>3 DEF CheckBlockers, Create, Update, UpdateLost, jobVars
  <2>4. CASE \/ Approve(t) \/ Reject(t) \/ Delete(t) \/ Retry(t) \/ BoardCreate(t)
    BY <1>1, <2>4 DEF Approve, Reject, Delete, Retry, BoardCreate, jobVars
  <2> QED
    BY <1>2, <2>1, <2>2, <2>3, <2>4 DEF LeadStep
<1>3. CASE PostTurnStep
  <2>1. ASSUME NEW t \in Tasks, FailDoomed(t) PROVE CancelFindsRun'
    <3>1. StopSession(t, jobs) /\ UNCHANGED robbed
      BY <2>1 DEF FailDoomed
    <3> QED
      BY <1>0, <3>1, StopSession_Finds
  <2>2. CASE TurnEnds
    BY <1>1, <2>2 DEF TurnEnds, jobVars
  <2> QED
    BY <1>3, <2>1, <2>2, DispatchNext_Finds DEF PostTurnStep
<1>4. ASSUME NEW t \in Tasks, ToolStep(t) \/ LeaseExpires(t) \/ GoesStale(t)
      PROVE  CancelFindsRun'
  BY <1>1, <1>4 DEF ToolStep, Claim, Complete, Review, Progress, LeaseExpires, GoesStale,
                    jobVars
<1>5. CASE RecoverStale \/ ForceRecover
  BY <1>1, <1>5 DEF RecoverStale, ForceRecover, Rob, jobVars
<1>6. CASE Restart
  BY <1>6 DEF Restart, CancelFindsRun
<1>7. CASE UNCHANGED vars
  BY <1>1, <1>7 DEF vars, jobVars
<1> QED
  BY <1>2, <1>3, <1>4, <1>5, <1>6, <1>7, JobStep_Finds DEF Next

\* A cancel reaches the run: as long as a task waits or runs in a session, and
\* the ticker never took it from a living run, the consumer knows the session,
\* whatever outcomes, failures and stops of other tasks in that session come
\* in between.
THEOREM TeamCancelFindsRun == Spec => []CancelFindsRun
<1>1. Init => LiveInv /\ CancelFindsRun
  BY DEF Init, LiveInv, OneLive, LiveJobs, Live, CancelFindsRun
<1>2. TypeOK /\ LiveInv /\ [Next]_vars => LiveInv'
  BY Step_Live
<1>3. TypeOK /\ LiveInv /\ CancelFindsRun /\ [Next]_vars => CancelFindsRun'
  BY Step_Finds
<1> QED
  BY <1>1, <1>2, <1>3, TeamTypeOK, PTL DEF Spec

=============================================================================
