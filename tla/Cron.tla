-------------------------------- MODULE Cron --------------------------------
(***************************************************************************)
(* The cron service (internal/store/pg/cron*.go): one loop takes the due   *)
(* jobs from a cache of the enabled rows, clears their next run in the     *)
(* database, runs them all and waits for them; operators and agents edit   *)
(* jobs and run them by hand meanwhile, and the gateway may die.           *)
(*                                                                         *)
(* Times are few and coarse: a query takes none, and the time that the loop*)
(* compares with is taken before its refresh.  A cron expression is, as an *)
(* interval, a schedule that always has a next time.                       *)
(***************************************************************************)
EXTENDS Naturals, FiniteSets

CONSTANTS
    Jobs,
    Schedules,       \* those that jobs may get
    Manuals,         \* bound: calls of RunJob under way at a time
    InitialRows,     \* what earlier runs of the gateway may have left
    LaneSize,        \* ARGOCLAW_LANE_CRON
    NoRow, Never, NoJob,
    MaxTime, MaxEvents   \* bounds: the clock; edits, faults and runs by hand together

Schedule == [kind : {"every", "at"}, arg : Nat \ {0}]
Times == Nat \cup {Never}

\* once: delete_after_run.
Row == [schedule : Schedule, enabled : BOOLEAN, once : BOOLEAN, next : Times]
Rows == [Jobs -> Row \cup {NoRow}]

ASSUME CronAssumption ==
    /\ Schedules \subseteq Schedule
    /\ Never \notin Nat /\ NoRow \notin Row /\ NoJob \notin Jobs
    /\ InitialRows \subseteq Rows /\ LaneSize \in Nat \ {0}
    /\ MaxTime \in Nat /\ MaxEvents \in Nat

VARIABLES
    clock,
    rows,            \* Rows: the table cron_jobs
    jobCache,        \* Rows: NoRow where the cache has no job
    cacheLoaded,
    reading,         \* what the query of a refresh has read
    loop,            \* where runLoop is
    due,             \* Rows: the copies the loop found due
    toClear,         \* due jobs whose next run has still to be cleared
    running,         \* due jobs whose goroutine has not ended
    manual,          \* [Manuals -> Call]: calls of RunJob
    editing,         \* an edit has written its row, the flag has still to go
    known,           \* jobs that were ever added
    fired,           \* history: <<job, time>> the loop has run
    unsure,          \* history: jobs for which a statement of the loop failed
    stranded,        \* history: enabled jobs that code path left without next
    missed,          \* history: jobs edited since the last refresh read the table
    used             \* edits, faults and runs by hand spent

storeVars == <<rows, known, stranded>>
cacheVars == <<jobCache, cacheLoaded, reading, missed>>
loopVars == <<loop, due, toClear, running, fired, unsure>>
vars == <<clock, storeVars, cacheVars, loopVars, manual, editing, used>>

Call == [at : {"none", "got", "run", "done"}, job : Jobs \cup {NoJob},
         copy : Row \cup {NoRow}, parent : Jobs \cup {NoJob}]
NoCall == [at |-> "none", job |-> NoJob, copy |-> NoRow, parent |-> NoJob]
NoRows == [j \in Jobs |-> NoRow]

Spend == used < MaxEvents /\ used' = used + 1

Exists(j) == rows[j] # NoRow
SetRow(j, r) == rows' = [rows EXCEPT ![j] = r]

\* computeNextRun
NextRun(s, t) ==
    IF s.kind = "every" THEN t + s.arg ELSE IF s.arg > t THEN s.arg ELSE Never

Init ==
    /\ clock = 1
    /\ rows \in InitialRows /\ known = {j \in Jobs : Exists(j)} /\ stranded = {}
    /\ jobCache = NoRows /\ cacheLoaded = FALSE /\ reading = NoRows /\ missed = {}
    /\ loop = "off" /\ due = NoRows /\ toClear = {} /\ running = {}
    /\ fired = {} /\ unsure = {}
    /\ manual = [m \in Manuals |-> NoCall]
    /\ editing = FALSE
    /\ used = 0
-----------------------------------------------------------------------------
(* The loop: GetDueJobs. *)

\* What a refresh puts into the cache.
Shown(j) == IF Exists(j) /\ rows[j].enabled THEN rows[j] ELSE NoRow

DueOf(c) ==
    {j \in Jobs : c[j] # NoRow /\ c[j].enabled /\ c[j].next # Never /\ c[j].next <= clock}

\* The rest of checkAndRunDueJobs, if there is anything due.
Take(c) ==
    /\ due' = [j \in Jobs |-> IF j \in DueOf(c) THEN c[j] ELSE NoRow]
    /\ toClear' = DueOf(c)
    /\ loop' = IF DueOf(c) = {} THEN "idle" ELSE "clear"

LookInCache ==
    /\ loop = "idle" /\ cacheLoaded
    /\ DueOf(jobCache) # {}
    /\ Take(jobCache)
    /\ UNCHANGED <<clock, storeVars, cacheVars, running, fired, unsure, manual,
                   editing, used>>

\* The cache is not loaded, or it is older than its TTL.  s.mu is held until the
\* cache is filled; edits of jobs do not take it.
ReadJobs ==
    /\ loop = "idle"
    /\ reading' = [j \in Jobs |-> Shown(j)]
    /\ missed' = {}
    /\ loop' = "read"
    /\ UNCHANGED <<clock, storeVars, jobCache, cacheLoaded, due, toClear, running,
                   fired, unsure, manual, editing, used>>

FillCache ==
    /\ loop = "read"
    /\ jobCache' = reading /\ cacheLoaded' = TRUE
    /\ Take(reading)
    /\ UNCHANGED <<clock, storeVars, reading, missed, running, fired, unsure, manual,
                   editing, used>>

\* The loop goes on with the cache it has, however old.
ReadFails ==
    /\ loop = "read" /\ Spend
    /\ Take(jobCache)
    /\ unsure' = unsure \cup DueOf(jobCache)
    /\ missed' = Jobs
    /\ UNCHANGED <<clock, storeVars, jobCache, cacheLoaded, reading, running, fired,
                   manual, editing>>
-----------------------------------------------------------------------------
(* The loop: the due jobs. *)

\* Mutated: the next run stays in the row until the run has ended.
ClearNext_Keep(j) ==
    /\ loop = "clear" /\ j \in toClear
    /\ toClear' = toClear \ {j}
    /\ UNCHANGED <<clock, storeVars, cacheVars, loop, due, running, fired, unsure,
                   manual, editing, used>>

ClearNext(j) ==
    /\ loop = "clear" /\ j \in toClear
    /\ toClear' = toClear \ {j}
    /\ SetRow(j, IF Exists(j) THEN [rows[j] EXCEPT !.next = Never] ELSE NoRow)
    /\ UNCHANGED <<clock, known, stranded, cacheVars, loop, due, running, fired, unsure,
                   manual, editing, used>>

ClearFails(j) ==
    /\ loop = "clear" /\ j \in toClear /\ Spend
    /\ toClear' = toClear \ {j}
    /\ unsure' = unsure \cup {j}
    /\ UNCHANGED <<clock, storeVars, cacheVars, loop, due, running, fired, manual,
                   editing>>

StartJobs ==
    /\ loop = "clear" /\ toClear = {}
    /\ running' = {j \in Jobs : due[j] # NoRow}
    /\ fired' = fired \cup {<<j, due[j].next>> : j \in running'}
    /\ loop' = "run"
    /\ UNCHANGED <<clock, storeVars, cacheVars, due, toClear, unsure, manual, editing,
                   used>>

\* The end of executeOneJob: what it writes follows from the copy of the job that
\* it was started with.
Save(j, copy) ==
    LET ended == [rows[j] EXCEPT !.next = NextRun(copy.schedule, clock)]
    IN /\ SetRow(j, IF ~Exists(j) \/ copy.once THEN NoRow ELSE ended)
       /\ stranded' = IF copy.schedule.kind = "at" /\ rows[j] # NoRow
                         /\ rows[j].schedule # copy.schedule
                      THEN stranded \cup {j} ELSE stranded
       /\ UNCHANGED known

\* The agent of the job waits in its tool for a job that it runs by hand.
Waits(j) == \E m \in Manuals : manual[m].parent = j

\* A run that waits keeps its place in the cron lane.
LaneFull == Cardinality({j \in Jobs : Waits(j)}) >= LaneSize

\* The handler, with its retries, has returned: the run of the agent is over.
FinishJob(j) ==
    /\ j \in running /\ ~Waits(j) /\ ~LaneFull
    /\ Save(j, due[j])
    /\ running' = running \ {j}
    /\ UNCHANGED <<clock, cacheVars, loop, due, toClear, fired, unsure, manual, editing,
                   used>>

SaveFails(j) ==
    /\ j \in running /\ ~Waits(j) /\ ~LaneFull /\ Spend
    /\ stranded' = stranded \cup {j}
    /\ running' = running \ {j}
    /\ UNCHANGED <<clock, rows, known, cacheVars, loop, due, toClear, fired, unsure,
                   manual, editing>>

EndTick ==
    /\ loop = "run" /\ running = {}
    /\ loop' = "idle" /\ due' = NoRows /\ cacheLoaded' = FALSE
    /\ UNCHANGED <<clock, storeVars, jobCache, reading, missed, toClear, running, fired,
                   unsure, manual, editing, used>>
-----------------------------------------------------------------------------
(* RunJob, by an operator, or by the tool of the agent that runs job parent.   *)

RunJob(m, j, parent) ==
    /\ loop # "off" /\ manual[m].at = "none" /\ Exists(j) /\ Spend
    /\ parent # NoJob => parent \in running /\ ~Waits(parent) /\ ~LaneFull
    /\ manual' = [manual EXCEPT ![m] =
                    [at |-> "got", job |-> j, copy |-> rows[j], parent |-> parent]]
    /\ UNCHANGED <<clock, storeVars, cacheVars, loopVars, editing>>

\* Both invalidations of RunJob wait for a refresh.
StartManual(m) ==
    /\ manual[m].at = "got" /\ loop # "read"
    /\ cacheLoaded' = FALSE
    /\ manual' = [manual EXCEPT ![m].at = "run"]
    /\ UNCHANGED <<clock, storeVars, jobCache, reading, missed, loopVars, editing, used>>

\* Mutated: the jobs share one session.
Behind_OneSession(m) == \E j \in Jobs : Waits(j)

\* The runs of a job share a session that admits one at a time: none starts
\* while an earlier one waits for a job it runs by hand.
Behind(m) == Waits(manual[m].job)

FinishManual(m) ==
    /\ manual[m].at = "run" /\ ~Behind(m) /\ ~LaneFull
    /\ Save(manual[m].job, manual[m].copy)
    /\ manual' = [manual EXCEPT ![m].at = "done"]
    /\ UNCHANGED <<clock, cacheVars, loopVars, editing, used>>

\* Mutated: RunJob leaves it to the invalidation before the run.
EndManual_Keep(m) ==
    /\ manual[m].at = "done" /\ loop # "read"
    /\ manual' = [manual EXCEPT ![m] = NoCall]
    /\ UNCHANGED <<clock, storeVars, cacheVars, loopVars, editing, used>>

EndManual(m) ==
    /\ manual[m].at = "done" /\ loop # "read"
    /\ cacheLoaded' = FALSE
    /\ manual' = [manual EXCEPT ![m] = NoCall]
    /\ UNCHANGED <<clock, storeVars, jobCache, reading, missed, loopVars, editing, used>>
-----------------------------------------------------------------------------
(* Edits: the statement, and then the flag of the cache, without s.mu.         *)

Edit(j) ==
    /\ loop # "off" /\ ~editing /\ Spend
    /\ editing' = TRUE
    /\ missed' = missed \cup {j}
    /\ UNCHANGED <<clock, jobCache, cacheLoaded, reading, loopVars, manual>>

AddJob(j, s) ==
    /\ j \notin known /\ Edit(j)
    /\ SetRow(j, [schedule |-> s, enabled |-> TRUE, once |-> s.kind = "at",
                  next |-> NextRun(s, clock)])
    /\ known' = known \cup {j}
    /\ UNCHANGED stranded

RemoveJob(j) ==
    /\ Exists(j) /\ Edit(j)
    /\ SetRow(j, NoRow)
    /\ UNCHANGED <<known, stranded>>

\* EnableJob, and UpdateJob without a schedule: the next run is left as it is.
EnableJob(j, on) ==
    /\ Exists(j) /\ Edit(j)
    /\ SetRow(j, [rows[j] EXCEPT !.enabled = on])
    /\ UNCHANGED <<known, stranded>>

\* UpdateJob with a schedule.  The merge of a partial schedule with the current
\* one is left out: a patch gives all of it.  A patch of several fields is as
\* many edits.
UpdateJob(j, s) ==
    /\ Exists(j) /\ Edit(j)
    /\ SetRow(j, [rows[j] EXCEPT !.schedule = s, !.next = NextRun(s, clock)])
    /\ stranded' = stranded \ {j}
    /\ UNCHANGED known

SetDeleteAfterRun(j, once) ==
    /\ Exists(j) /\ Edit(j)
    /\ SetRow(j, [rows[j] EXCEPT !.once = once])
    /\ UNCHANGED <<known, stranded>>

Invalidate ==
    /\ editing
    /\ editing' = FALSE /\ cacheLoaded' = FALSE
    /\ UNCHANGED <<clock, storeVars, jobCache, reading, missed, loopVars, manual, used>>
-----------------------------------------------------------------------------
(* Restarts. *)

\* recomputeStaleJobs, for one row.
Repaired(r) ==
    IF r = NoRow \/ ~r.enabled \/ r.next # Never THEN r
    ELSE IF NextRun(r.schedule, clock) # Never
         THEN [r EXCEPT !.next = NextRun(r.schedule, clock)]
         ELSE [r EXCEPT !.enabled = FALSE]

Without(f) == {j \in Jobs : f[j] # NoRow /\ f[j].next = Never}
Disabled(f) == {j \in Jobs : f[j] # NoRow /\ ~f[j].enabled}

\* Mutated: the rows are taken as they are.
Boot_Unrepaired ==
    /\ loop = "off"
    /\ stranded' = Without(rows) \cap Disabled(rows)
    /\ loop' = "idle"
    /\ UNCHANGED <<clock, rows, known, cacheVars, due, toClear, running, fired, unsure,
                   manual, editing, used>>

Boot ==
    /\ loop = "off"
    /\ rows' = [j \in Jobs |-> Repaired(rows[j])]
    /\ stranded' = Without(rows') \cap Disabled(rows')
    /\ loop' = "idle"
    /\ UNCHANGED <<clock, known, cacheVars, due, toClear, running, fired, unsure,
                   manual, editing, used>>

BootFails ==
    /\ loop = "off" /\ Spend
    /\ stranded' = Without(rows)
    /\ loop' = "idle"
    /\ UNCHANGED <<clock, rows, known, cacheVars, due, toClear, running, fired, unsure,
                   manual, editing>>

\* Shutdown does not wait for runs: it is as a crash.
Down ==
    /\ loop # "off" /\ Spend
    /\ loop' = "off"
    /\ jobCache' = NoRows /\ cacheLoaded' = FALSE /\ reading' = NoRows /\ missed' = {}
    /\ due' = NoRows /\ toClear' = {} /\ running' = {}
    /\ manual' = [m \in Manuals |-> NoCall]
    /\ editing' = FALSE
    /\ UNCHANGED <<clock, storeVars, fired, unsure>>

TimePasses ==
    /\ clock < MaxTime /\ loop # "read"
    /\ clock' = clock + 1
    /\ UNCHANGED <<storeVars, cacheVars, loopVars, manual, editing, used>>
-----------------------------------------------------------------------------
EditStep ==
    \/ Invalidate
    \/ \E j \in Jobs :
         \/ RemoveJob(j)
         \/ \E b \in BOOLEAN : EnableJob(j, b) \/ SetDeleteAfterRun(j, b)
         \/ \E s \in Schedules : AddJob(j, s) \/ UpdateJob(j, s)

LoopStep ==
    \/ LookInCache \/ ReadJobs \/ FillCache \/ ReadFails \/ StartJobs \/ EndTick
    \/ \E j \in Jobs : ClearNext(j) \/ ClearFails(j) \/ FinishJob(j) \/ SaveFails(j)

ManualStep(m) ==
    \/ StartManual(m) \/ FinishManual(m) \/ EndManual(m)
    \/ \E j \in Jobs, parent \in Jobs \cup {NoJob} : RunJob(m, j, parent)

CronNext ==
    \/ LoopStep \/ EditStep \/ Boot \/ BootFails \/ Down \/ TimePasses
    \/ \E m \in Manuals : ManualStep(m)

CronSpec == Init /\ [][CronNext]_vars

\* The loop ticks, a loaded cache gets too old, and the runs of agents end.
CronFairness ==
    /\ WF_vars(ReadJobs) /\ WF_vars(FillCache) /\ WF_vars(StartJobs) /\ WF_vars(EndTick)
    /\ \A j \in Jobs : WF_vars(ClearNext(j)) /\ WF_vars(FinishJob(j))
    /\ \A m \in Manuals :
         WF_vars(StartManual(m)) /\ WF_vars(FinishManual(m)) /\ WF_vars(EndManual(m))

FairCronSpec == CronSpec /\ CronFairness
-----------------------------------------------------------------------------
(* Properties. *)

\* A time at which a job was due starts one run of the loop at most, also over
\* restarts and whatever edits, runs by hand and other jobs come in between,
\* unless a statement of the loop for the job had failed.
FiresOnce ==
    [][\A j \in Jobs : StartJobs /\ due[j] # NoRow =>
         <<j, due[j].next>> \notin fired \/ j \in unsure]_vars

\* A recurring job that is enabled has a next run or a run under way that will
\* give it one: otherwise it would silently never run again.  The exceptions
\* are those of stranded: the statement that ends a run failed; a run of the
\* one-time schedule the job had before ended; the job was disabled when the
\* gateway started, which repairs enabled jobs only.
Owed(j) ==
    \/ due[j] # NoRow /\ (loop = "clear" \/ j \in running)
    \/ \E m \in Manuals : manual[m].job = j /\ manual[m].at \in {"got", "run"}

EnabledHasNext ==
    loop # "off" => \A j \in Jobs :
      Exists(j) /\ rows[j].enabled /\ rows[j].schedule.kind = "every" /\ rows[j].next = Never
        => Owed(j) \/ j \in stranded

\* When nothing is under way, a cache that counts as loaded shows the enabled
\* jobs as the table has them, but for jobs edited after the refresh read the
\* table, whose invalidation the end of the refresh may undo or which is still to
\* come, and unless the last refresh failed.
CacheIsCurrent ==
    loop = "idle" /\ cacheLoaded /\ (\A m \in Manuals : manual[m].at = "none") =>
      \A j \in Jobs \ missed :
        jobCache[j] = Shown(j)

\* A job that is due gets its turn, whatever the jobs before it run by hand,
\* unless runs wait for each other, or all places of the lane are taken by runs
\* that wait: the loop waits for all the runs it has started.
Due(j) ==
    loop # "off" /\ Exists(j) /\ rows[j].enabled /\ rows[j].next # Never
    /\ rows[j].next <= clock

Entangled ==
    \E M \in SUBSET Manuals : M # {} /\ \A m \in M :
      manual[m].parent # NoJob /\ \E n \in M : manual[n].parent = manual[m].job

DueIsTaken == \A j \in Jobs : Due(j) ~> (~Due(j) \/ Entangled \/ LaneFull)
=============================================================================
