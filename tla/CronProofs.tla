----------------------------- MODULE CronProofs -----------------------------
(***************************************************************************)
(* Proofs about Cron, for any jobs, schedules and bounds: a time at which  *)
(* a job is due starts one run, an enabled job has a next run, and the     *)
(* cache is current when nothing is under way; and about ExecApproval, for *)
(* any commands and operators.                                             *)
(***************************************************************************)
EXTENDS Cron, ExecApproval, FiniteSetTheorems, TLAPS

TypeOK ==
    /\ clock \in Nat /\ rows \in Rows /\ jobCache \in Rows /\ cacheLoaded \in BOOLEAN
    /\ reading \in Rows /\ due \in Rows /\ fired \subseteq Jobs \X Nat
    /\ loop \in {"off", "idle", "read", "clear", "run"}
    /\ toClear \subseteq {j \in Jobs : due[j] # NoRow}
    /\ running \subseteq {j \in Jobs : due[j] # NoRow}
    /\ (loop = "off" => ~cacheLoaded)
    /\ (loop # "clear" => toClear = {}) /\ (loop # "run" => running = {})
    /\ loop = "clear" => \A j \in Jobs : due[j] # NoRow => due[j].next \in Nat /\ due[j].next <= clock
    /\ manual \in [Manuals -> Call]
    /\ \A m \in Manuals : manual[m].at # "none" =>
         manual[m].job \in Jobs /\ manual[m].copy \in Row

\* The copies in f are not of times at which the job was run already.
Fresh(f) ==
    \A j \in Jobs \ unsure : f[j] # NoRow /\ f[j].next # Never => <<j, f[j].next>> \notin fired

\* A fired time has passed; the rows, and the copies the loop will still look
\* at, hold no fired time; a due job whose next run was cleared has not got the
\* same time again.
TimesInv ==
    /\ \A p \in fired : p[2] <= clock
    /\ Fresh(rows)
    /\ loop = "read" => Fresh(reading)
    /\ cacheLoaded /\ loop # "run" => Fresh(jobCache)
    /\ loop = "clear" =>
         /\ Fresh(due)
         /\ \A j \in Jobs \ (toClear \cup unsure) :
              due[j] # NoRow /\ Exists(j) => rows[j].next # due[j].next

\* A recurring job has a next run also while it is disabled.
NextInv ==
    loop # "off" => \A j \in Jobs :
      Exists(j) /\ rows[j].schedule.kind = "every" /\ rows[j].next = Never
        => Owed(j) \/ j \in stranded

Ended(j) == \E m \in Manuals : manual[m].at = "done" /\ manual[m].job = j

CacheInv ==
    \A j \in Jobs \ missed :
      /\ loop = "read" => reading[j] = Shown(j) \/ Ended(j)
      /\ loop = "idle" /\ cacheLoaded => jobCache[j] = Shown(j) \/ Ended(j)

IInv == TypeOK /\ TimesInv /\ NextInv /\ CacheInv
-----------------------------------------------------------------------------
(* The operators. *)

LEMMA NextRunIsLater ==
  ASSUME NEW s \in Schedule, NEW t \in Nat
  PROVE  /\ NextRun(s, t) \in Times
         /\ NextRun(s, t) # Never => NextRun(s, t) \in Nat /\ NextRun(s, t) > t
         /\ s.kind = "every" => NextRun(s, t) # Never
BY CronAssumption DEF NextRun, Schedule, Times

LEMMA RowFields ==
  ASSUME NEW r \in Row
  PROVE  r # NoRow /\ r.next \in Times /\ r.schedule \in Schedule
BY CronAssumption DEF Row

LEMMA RowNext ==
  ASSUME NEW r \in Row, NEW t \in Times, NEW q, q = [r EXCEPT !.next = t]
  PROVE  q \in Row /\ q.next = t /\ q.schedule = r.schedule
BY DEF Row

LEMMA RowFlag ==
  ASSUME NEW r \in Row, NEW b \in BOOLEAN,
         NEW q, q = [r EXCEPT !.enabled = b] \/ q = [r EXCEPT !.once = b]
  PROVE  q \in Row /\ q.next = r.next /\ q.schedule = r.schedule
BY DEF Row

LEMMA NewRow ==
  ASSUME NEW s \in Schedule, NEW e \in BOOLEAN, NEW o \in BOOLEAN, NEW t \in Times
  PROVE  [schedule |-> s, enabled |-> e, once |-> o, next |-> t] \in Row
BY DEF Row

LEMMA RowSet ==
  ASSUME rows \in Rows, NEW j \in Jobs, NEW r \in Row \cup {NoRow}, SetRow(j, r)
  PROVE  rows' \in Rows /\ rows'[j] = r /\ \A i \in Jobs : i # j => rows'[i] = rows[i]
BY DEF SetRow, Rows

LEMMA Taken ==
  ASSUME NEW c \in Rows, clock \in Nat, Take(c)
  PROVE  /\ due' \in Rows /\ loop' \in {"idle", "clear"}
         /\ loop' = "idle" => toClear' = {}
         /\ toClear' = {j \in Jobs : due'[j] # NoRow} /\ toClear' = DueOf(c)
         /\ \A j \in toClear' : due'[j] = c[j] /\ c[j].next \in Nat /\ c[j].next <= clock
<1>1. \A j \in DueOf(c) : c[j] \in Row /\ c[j].next \in Nat /\ c[j].next <= clock
  BY CronAssumption, RowFields DEF DueOf, Rows, Times
<1>2. /\ due' \in Rows /\ toClear' = DueOf(c) /\ loop' \in {"idle", "clear"}
      /\ loop' = "idle" => toClear' = {}
  BY DEF Take, Rows
<1>3. \A j \in Jobs : due'[j] = IF j \in DueOf(c) THEN c[j] ELSE NoRow
  BY DEF Take
<1>4. \A j \in Jobs : j \in DueOf(c) <=> due'[j] # NoRow
  BY <1>1, <1>3, RowFields
<1>5. DueOf(c) \subseteq Jobs
  BY DEF DueOf
<1> QED
  BY <1>1, <1>2, <1>3, <1>4, <1>5

LEMMA Saved ==
  ASSUME rows \in Rows, clock \in Nat, NEW j \in Jobs, NEW copy \in Row, Save(j, copy)
  PROVE  /\ rows' \in Rows /\ \A i \in Jobs : i # j => rows'[i] = rows[i]
         /\ rows'[j] # NoRow =>
              /\ Exists(j) /\ rows'[j].schedule = rows[j].schedule
              /\ rows'[j].next = NextRun(copy.schedule, clock)
         /\ stranded \subseteq stranded'
         /\ copy.schedule.kind = "at" /\ Exists(j) /\ rows[j].schedule # copy.schedule
              => j \in stranded'
<1> DEFINE t == NextRun(copy.schedule, clock)
           r == IF ~Exists(j) \/ copy.once THEN NoRow ELSE [rows[j] EXCEPT !.next = t]
<1>1. t \in Times
  BY RowFields, NextRunIsLater
<1>2. Exists(j) => rows[j] \in Row
  BY DEF Exists, Rows
<1>3. r \in Row \cup {NoRow}
  BY <1>1, <1>2, RowNext
<1>4. SetRow(j, r)
  BY DEF Save
<1>5. rows' \in Rows /\ rows'[j] = r /\ \A i \in Jobs : i # j => rows'[i] = rows[i]
  BY <1>3, <1>4, RowSet
<1>6. r # NoRow => Exists(j) /\ r.schedule = rows[j].schedule /\ r.next = t
  <2>1. SUFFICES ASSUME r # NoRow PROVE Exists(j) /\ r.schedule = rows[j].schedule /\ r.next = t
    OBVIOUS
  <2>2. Exists(j) /\ r = [rows[j] EXCEPT !.next = t]
    BY <2>1
  <2> QED
    BY <1>1, <1>2, <2>2, RowNext
<1>7. stranded \subseteq stranded'
  BY DEF Save
<1>8. copy.schedule.kind = "at" /\ Exists(j) /\ rows[j].schedule # copy.schedule
        => j \in stranded'
  BY DEF Save, Exists
<1> QED
  BY <1>5, <1>6, <1>7, <1>8
-----------------------------------------------------------------------------
(* The invariant holds at first. *)

LEMMA InitInv == Init => IInv
<1> SUFFICES ASSUME Init PROVE IInv
  OBVIOUS
<1>1. rows \in Rows /\ NoRows \in Rows /\ [m \in Manuals |-> NoCall] \in [Manuals -> Call]
  BY CronAssumption DEF Init, Rows, NoRows, Call, NoCall
<1>2. TypeOK
  BY <1>1 DEF Init, TypeOK, NoCall
<1>3. TimesInv
  BY DEF Init, TimesInv, Fresh
<1>4. NextInv /\ CacheInv
  BY DEF Init, NextInv, CacheInv
<1> QED
  BY <1>2, <1>3, <1>4 DEF IInv
-----------------------------------------------------------------------------
(* The types. *)

LEMMA EditType ==
  ASSUME TypeOK, NEW j \in Jobs, Edit(j), rows' \in Rows
  PROVE  TypeOK'
BY DEF Edit, TypeOK, loopVars

LEMMA LoopType == TypeOK /\ LoopStep => TypeOK'
<1> SUFFICES ASSUME TypeOK, LoopStep PROVE TypeOK'
  OBVIOUS
<1>1. CASE LookInCache
  BY <1>1, Taken DEF LookInCache, TypeOK, storeVars, cacheVars
<1>2. CASE ReadJobs
  <2>1. reading' \in Rows
    BY <1>2, CronAssumption DEF ReadJobs, Shown, Exists, TypeOK, Rows
  <2> QED
    BY <1>2, <2>1 DEF ReadJobs, TypeOK, storeVars
<1>3. CASE FillCache
  BY <1>3, Taken DEF FillCache, TypeOK, storeVars
<1>4. CASE ReadFails
  BY <1>4, Taken DEF ReadFails, TypeOK, storeVars
<1>5. CASE StartJobs
  <2>1. fired' \subseteq Jobs \X Nat
    BY <1>5 DEF StartJobs, TypeOK
  <2> QED
    BY <1>5, <2>1 DEF StartJobs, TypeOK, storeVars, cacheVars
<1>6. CASE EndTick
  BY <1>6 DEF EndTick, TypeOK, storeVars, NoRows, Rows
<1>7. ASSUME NEW j \in Jobs, ClearNext(j) PROVE TypeOK'
  <2>1. rows' \in Rows
    <3>1. CASE Exists(j)
      <4>1. rows[j] \in Row /\ Never \in Times
        BY <3>1 DEF TypeOK, Exists, Rows, Times
      <4>2. SetRow(j, [rows[j] EXCEPT !.next = Never])
        BY <1>7, <3>1 DEF ClearNext
      <4> QED
        BY <4>1, <4>2, RowNext, RowSet DEF TypeOK
    <3>2. CASE ~Exists(j)
      BY <1>7, <3>2, RowSet DEF ClearNext, TypeOK
    <3> QED
      BY <3>1, <3>2
  <2> QED
    BY <1>7, <2>1 DEF ClearNext, TypeOK, cacheVars
<1>8. ASSUME NEW j \in Jobs, ClearFails(j) PROVE TypeOK'
  BY <1>8 DEF ClearFails, TypeOK, storeVars, cacheVars
<1>9. ASSUME NEW j \in Jobs, FinishJob(j) PROVE TypeOK'
  <2>1. due[j] \in Row
    BY <1>9 DEF FinishJob, TypeOK, Rows
  <2>2. rows' \in Rows
    BY <1>9, <2>1, Saved DEF FinishJob, TypeOK
  <2> QED
    BY <1>9, <2>2 DEF FinishJob, TypeOK, cacheVars
<1>10. ASSUME NEW j \in Jobs, SaveFails(j) PROVE TypeOK'
  BY <1>10 DEF SaveFails, TypeOK, cacheVars
<1> QED
  BY <1>1, <1>2, <1>3, <1>4, <1>5, <1>6, <1>7, <1>8, <1>9, <1>10 DEF LoopStep

LEMMA ManualType == TypeOK /\ (\E m \in Manuals : ManualStep(m)) => TypeOK'
<1> SUFFICES ASSUME TypeOK, NEW m \in Manuals, ManualStep(m) PROVE TypeOK'
  OBVIOUS
<1>1. CASE StartManual(m)
  BY <1>1 DEF StartManual, TypeOK, Call, storeVars, loopVars
<1>2. CASE FinishManual(m)
  <2>1. manual[m].job \in Jobs /\ manual[m].copy \in Row
    BY <1>2 DEF FinishManual, TypeOK
  <2>2. rows' \in Rows
    BY <1>2, <2>1, Saved DEF FinishManual, TypeOK
  <2> QED
    BY <1>2, <2>2 DEF FinishManual, TypeOK, Call, cacheVars, loopVars
<1>3. CASE EndManual(m)
  BY <1>3 DEF EndManual, TypeOK, Call, NoCall, storeVars, loopVars
<1>4. ASSUME NEW j \in Jobs, NEW parent \in Jobs \cup {NoJob}, RunJob(m, j, parent) PROVE TypeOK'
  <2>1. rows[j] \in Row
    BY <1>4 DEF RunJob, TypeOK, Exists, Rows
  <2> QED
    BY <1>4, <2>1 DEF RunJob, TypeOK, Call, storeVars, cacheVars, loopVars
<1> QED
  BY <1>1, <1>2, <1>3, <1>4 DEF ManualStep

LEMMA EditedRow ==
  ASSUME rows \in Rows, clock \in Nat, NEW j \in Jobs, NEW b \in BOOLEAN, NEW s \in Schedule,
         AddJob(j, s) \/ RemoveJob(j) \/ EnableJob(j, b) \/ SetDeleteAfterRun(j, b) \/ UpdateJob(j, s)
  PROVE  /\ Edit(j) /\ rows' \in Rows /\ \A i \in Jobs : i # j => rows'[i] = rows[i]
         /\ stranded \ {j} \subseteq stranded'
         /\ rows'[j] # NoRow =>
              \/ /\ Exists(j) /\ rows'[j].next = rows[j].next
                 /\ rows'[j].schedule = rows[j].schedule /\ stranded' = stranded
              \/ rows'[j].schedule = s /\ rows'[j].next = NextRun(s, clock)
<1>1. s \in Schedule
  OBVIOUS
<1>2. NextRun(s, clock) \in Times
  BY NextRunIsLater
<1>3. Exists(j) => rows[j] \in Row
  BY DEF Exists, Rows
<1>4. CASE AddJob(j, s)
  <2> DEFINE r == [schedule |-> s, enabled |-> TRUE, once |-> s.kind = "at",
                   next |-> NextRun(s, clock)]
  <2>1. r \in Row
    BY <1>1, <1>2, NewRow
  <2>2. SetRow(j, r) /\ Edit(j) /\ stranded' = stranded
    BY <1>4 DEF AddJob
  <2>3. r.next = NextRun(s, clock) /\ r.schedule = s
    OBVIOUS
  <2> QED
    BY <2>1, <2>2, <2>3, RowSet
<1>5. CASE RemoveJob(j)
  BY <1>5, RowSet DEF RemoveJob
<1>6. CASE EnableJob(j, b)
  <2> DEFINE r == [rows[j] EXCEPT !.enabled = b]
  <2>1. rows[j] \in Row /\ SetRow(j, r) /\ Edit(j) /\ Exists(j) /\ stranded' = stranded
    BY <1>3, <1>6 DEF EnableJob
  <2>2. r \in Row /\ r.next = rows[j].next /\ r.schedule = rows[j].schedule
    BY <2>1, RowFlag
  <2> QED
    BY <2>1, <2>2, RowSet
<1>7. CASE SetDeleteAfterRun(j, b)
  <2> DEFINE r == [rows[j] EXCEPT !.once = b]
  <2>1. rows[j] \in Row /\ SetRow(j, r) /\ Edit(j) /\ Exists(j) /\ stranded' = stranded
    BY <1>3, <1>7 DEF SetDeleteAfterRun
  <2>2. r \in Row /\ r.next = rows[j].next /\ r.schedule = rows[j].schedule
    BY <2>1, RowFlag
  <2> QED
    BY <2>1, <2>2, RowSet
<1>8. CASE UpdateJob(j, s)
  <2> DEFINE r == [rows[j] EXCEPT !.schedule = s, !.next = NextRun(s, clock)]
  <2>1. rows[j] \in Row /\ SetRow(j, r) /\ Edit(j) /\ stranded' = stranded \ {j}
    BY <1>3, <1>8 DEF UpdateJob
  <2>2. r \in Row /\ r.next = NextRun(s, clock) /\ r.schedule = s
    BY <1>1, <1>2, <2>1 DEF Row
  <2> QED
    BY <2>1, <2>2, RowSet
<1> QED
  BY <1>4, <1>5, <1>6, <1>7, <1>8

LEMMA EveryOne == [kind |-> "every", arg |-> 1] \in Schedule
BY DEF Schedule

\* What an edit, or the end of one, may change.
LEMMA EditEffect ==
  ASSUME TypeOK, EditStep
  PROVE  /\ UNCHANGED <<clock, jobCache, reading, loopVars, manual>>
         /\ rows' \in Rows
         /\ \/ Invalidate
            \/ \E j \in Jobs, s \in Schedule :
                 /\ missed' = missed \cup {j} /\ cacheLoaded' = cacheLoaded
                 /\ \A i \in Jobs : i # j => rows'[i] = rows[i]
                 /\ stranded \ {j} \subseteq stranded'
                 /\ rows'[j] # NoRow =>
                      \/ /\ Exists(j) /\ rows'[j].next = rows[j].next
                         /\ rows'[j].schedule = rows[j].schedule /\ stranded' = stranded
                      \/ rows'[j].schedule = s /\ rows'[j].next = NextRun(s, clock)
<1>1. CASE Invalidate
  BY <1>1 DEF Invalidate, TypeOK, storeVars
<1>2. rows \in Rows /\ clock \in Nat
  BY DEF TypeOK
<1>3. \A j \in Jobs : Edit(j) =>
        /\ UNCHANGED <<clock, jobCache, reading, loopVars, manual>>
        /\ missed' = missed \cup {j} /\ cacheLoaded' = cacheLoaded
  BY DEF Edit
<1>4. CASE ~Invalidate
  <2>1. PICK j \in Jobs, b \in BOOLEAN, s \in Schedule :
          RemoveJob(j) \/ EnableJob(j, b) \/ SetDeleteAfterRun(j, b)
          \/ AddJob(j, s) \/ UpdateJob(j, s)
    <3>1. PICK j \in Jobs : \/ RemoveJob(j)
                          \/ \E b \in BOOLEAN : EnableJob(j, b) \/ SetDeleteAfterRun(j, b)
                          \/ \E s \in Schedules : AddJob(j, s) \/ UpdateJob(j, s)
      BY <1>4 DEF EditStep
    <3> QED
      BY <3>1, EveryOne, CronAssumption
  <2> QED
    BY <1>2, <1>3, <2>1, EditedRow
<1> QED
  BY <1>1, <1>4

LEMMA TypeStep == TypeOK /\ [CronNext]_vars => TypeOK'
<1> SUFFICES ASSUME TypeOK, [CronNext]_vars PROVE TypeOK'
  OBVIOUS
<1>1. CASE LoopStep
  BY <1>1, LoopType
<1>2. CASE EditStep
  <2>1. rows' \in Rows /\ UNCHANGED <<clock, jobCache, reading, loopVars, manual>>
    BY <1>2, EditEffect
  <2>2. cacheLoaded' \in BOOLEAN /\ (cacheLoaded' => cacheLoaded)
    <3>1. Invalidate \/ cacheLoaded' = cacheLoaded
      BY <1>2, EditEffect
    <3>2. cacheLoaded \in BOOLEAN
      BY DEF TypeOK
    <3>3. CASE Invalidate
      <4>1. cacheLoaded' = FALSE
        BY <3>3 DEF Invalidate
      <4> QED
        BY <4>1
    <3>4. CASE cacheLoaded' = cacheLoaded
      BY <3>2, <3>4
    <3> QED
      BY <3>1, <3>3, <3>4
  <2> QED
    BY <2>1, <2>2 DEF TypeOK, loopVars
<1>3. CASE Boot
  <2>1. \A r \in Row : Repaired(r) \in Row
    <3>1. ASSUME NEW r \in Row, NEW t \in Times
          PROVE  [r EXCEPT !.next = t] \in Row /\ [r EXCEPT !.enabled = FALSE] \in Row
      BY DEF Row
    <3>2. \A r \in Row : NextRun(r.schedule, clock) \in Times
      BY RowFields, NextRunIsLater DEF TypeOK
    <3> QED
      BY <3>1, <3>2 DEF Repaired
  <2>2. rows' \in Rows
    BY <1>3, <2>1 DEF Boot, TypeOK, Rows, Repaired
  <2> QED
    BY <1>3, <2>2 DEF Boot, TypeOK, cacheVars
<1>4. CASE BootFails
  BY <1>4 DEF BootFails, TypeOK, cacheVars
<1>5. CASE Down
  BY <1>5 DEF Down, TypeOK, storeVars, NoRows, Rows, NoCall, Call
<1>6. CASE TimePasses
  BY <1>6 DEF TimePasses, TypeOK, storeVars, cacheVars, loopVars
<1>7. CASE \E m \in Manuals : ManualStep(m)
  BY <1>7, ManualType
<1>8. CASE UNCHANGED vars
  BY <1>8 DEF vars, storeVars, cacheVars, loopVars, TypeOK
<1> QED
  BY <1>1, <1>2, <1>3, <1>4, <1>5, <1>6, <1>7, <1>8 DEF CronNext
-----------------------------------------------------------------------------
(* The times. *)

LEMMA WrittenNextIsLater ==
  ASSUME TypeOK, [CronNext]_vars
  PROVE  \A j \in Jobs : rows'[j] # NoRow /\ rows'[j].next # Never =>
           \/ Exists(j) /\ rows'[j].next = rows[j].next
           \/ rows'[j].next \in Nat /\ rows'[j].next > clock
<1> SUFFICES ASSUME NEW j \in Jobs, rows'[j] # NoRow, rows'[j].next # Never,
                    ~(Exists(j) /\ rows'[j].next = rows[j].next)
             PROVE  rows'[j].next \in Nat /\ rows'[j].next > clock
  OBVIOUS
<1>1. rows' # rows
  BY DEF Exists
<1>2. rows \in Rows /\ clock \in Nat /\ due \in Rows
  BY DEF TypeOK
<1>3. ASSUME NEW i \in Jobs, ClearNext(i) PROVE FALSE
  <2>1. CASE Exists(i)
    <3>1. rows[i] \in Row /\ Never \in Times
      BY <1>2, <2>1 DEF Exists, Rows, Times
    <3>2. SetRow(i, [rows[i] EXCEPT !.next = Never])
      BY <1>3, <2>1 DEF ClearNext
    <3> QED
      BY <1>2, <3>1, <3>2, RowNext, RowSet DEF Exists
  <2>2. CASE ~Exists(i)
    BY <1>2, <1>3, <2>2, RowSet DEF ClearNext, Exists
  <2> QED
    BY <2>1, <2>2
<1>4. ASSUME NEW i \in Jobs, NEW copy \in Row, Save(i, copy)
      PROVE  rows'[j].next \in Nat /\ rows'[j].next > clock
  <2>1. copy.schedule \in Schedule
    BY RowFields
  <2>2. i = j
    BY <1>2, <1>4, Saved DEF Exists
  <2>3. rows'[j].next = NextRun(copy.schedule, clock)
    BY <1>2, <1>4, <2>2, Saved
  <2> QED
    BY <1>2, <2>1, <2>3, NextRunIsLater
<1>5. CASE LoopStep
  <2>1. PICK i \in Jobs : ClearNext(i) \/ FinishJob(i)
    BY <1>1, <1>5 DEF LoopStep, LookInCache, ReadJobs, FillCache, ReadFails, StartJobs,
       EndTick, ClearFails, SaveFails, storeVars
  <2>2. FinishJob(i)
    BY <1>3, <2>1
  <2>3. Save(i, due[i]) /\ due[i] \in Row
    BY <1>2, <2>2 DEF FinishJob, TypeOK, Rows
  <2> QED
    BY <1>4, <2>3
<1>6. CASE \E m \in Manuals : ManualStep(m)
  <2>1. PICK m \in Manuals : FinishManual(m)
    BY <1>1, <1>6 DEF ManualStep, StartManual, EndManual, RunJob, storeVars
  <2>2. Save(manual[m].job, manual[m].copy) /\ manual[m].job \in Jobs /\ manual[m].copy \in Row
    BY <2>1 DEF FinishManual, TypeOK
  <2> QED
    BY <1>4, <2>2
<1>7. CASE EditStep
  <2>1. ~Invalidate
    BY <1>1 DEF Invalidate, storeVars
  <2>2. PICK i \in Jobs, s \in Schedule :
          /\ \A k \in Jobs : k # i => rows'[k] = rows[k]
          /\ rows'[i] # NoRow =>
               \/ Exists(i) /\ rows'[i].next = rows[i].next
               \/ rows'[i].next = NextRun(s, clock)
    BY <1>7, <2>1, EditEffect
  <2>3. i = j
    BY <2>2 DEF Exists
  <2> QED
    BY <1>2, <2>2, <2>3, NextRunIsLater
<1>8. CASE Boot
  <2>1. rows'[j] = Repaired(rows[j])
    BY <1>8 DEF Boot
  <2>2. rows[j] \in Row
    BY <1>2, <2>1 DEF Repaired, Rows
  <2>3. rows[j].schedule \in Schedule /\ NextRun(rows[j].schedule, clock) \in Times
    BY <1>2, <2>2, RowFields, NextRunIsLater
  <2>4. rows'[j] = [rows[j] EXCEPT !.next = NextRun(rows[j].schedule, clock)]
    <3>1. rows'[j] # rows[j]
      BY <2>2, RowFields DEF Exists
    <3>2. rows[j].next = Never
      BY <2>1, <3>1 DEF Repaired
    <3>3. rows'[j] # [rows[j] EXCEPT !.enabled = FALSE]
      BY <2>2, <3>2, RowFlag
    <3> QED
      BY <2>1, <3>1, <3>3 DEF Repaired
  <2>5. rows'[j].next = NextRun(rows[j].schedule, clock)
    BY <2>2, <2>3, <2>4, RowNext
  <2> QED
    BY <1>2, <2>3, <2>5, NextRunIsLater
<1>9. CASE BootFails \/ Down \/ TimePasses \/ UNCHANGED vars
  BY <1>1, <1>9 DEF BootFails, Down, TimePasses, vars, storeVars
<1> QED
  BY <1>5, <1>6, <1>7, <1>8, <1>9 DEF CronNext

\* While no job is run, what was written stays fresh.
LEMMA FreshStays ==
  ASSUME TypeOK, TimesInv, [CronNext]_vars, fired' = fired, unsure \subseteq unsure',
         clock' \in Nat, clock' >= clock
  PROVE  /\ \A p \in fired' : p[2] <= clock'
         /\ Fresh(rows)'
<1>1. \A p \in fired' : p[2] \in Nat /\ p[2] <= clock /\ p[2] <= clock'
  <2>1. \A p \in fired : p \in Jobs \X Nat /\ p[2] <= clock
    BY DEF TypeOK, TimesInv
  <2>2. clock \in Nat
    BY DEF TypeOK
  <2> QED
    BY <2>1, <2>2
<1>2. ASSUME NEW j \in Jobs \ unsure', rows'[j] # NoRow, rows'[j].next # Never
      PROVE  <<j, rows'[j].next>> \notin fired'
  <2>1. CASE Exists(j) /\ rows'[j].next = rows[j].next
    BY <1>2, <2>1 DEF TimesInv, Fresh, Exists
  <2>2. CASE rows'[j].next \in Nat /\ rows'[j].next > clock
    <3>1. clock \in Nat
      BY DEF TypeOK
    <3> DEFINE p == <<j, rows'[j].next>>
    <3>2. p[2] = rows'[j].next
      OBVIOUS
    <3>3. ~(p[2] <= clock)
      BY <2>2, <3>1, <3>2
    <3> QED
      BY <1>1, <3>3
  <2> QED
    BY <1>2, <2>1, <2>2, WrittenNextIsLater
<1>3. Fresh(rows)'
  BY <1>2 DEF Fresh
<1> QED
  BY <1>1, <1>3

LEMMA ClearedStays ==
  ASSUME TypeOK, TimesInv, [CronNext]_vars, loop = "clear", loop' = "clear", due' = due,
         toClear \cup unsure \subseteq toClear' \cup unsure'
  PROVE  \A j \in Jobs \ (toClear' \cup unsure') :
           due'[j] # NoRow /\ rows'[j] # NoRow => rows'[j].next # due'[j].next
<1> SUFFICES ASSUME NEW j \in Jobs \ (toClear \cup unsure), due[j] # NoRow, rows'[j] # NoRow
             PROVE  rows'[j].next # due[j].next
  OBVIOUS
<1>1. due[j].next \in Nat /\ due[j].next <= clock /\ clock \in Nat
  BY DEF TypeOK
<1>2. CASE rows'[j].next = Never
  BY <1>1, <1>2, CronAssumption
<1>3. CASE Exists(j) /\ rows'[j].next = rows[j].next
  BY <1>3 DEF TimesInv
<1>4. CASE rows'[j].next \in Nat /\ rows'[j].next > clock
  BY <1>1, <1>4
<1> QED
  BY <1>2, <1>3, <1>4, WrittenNextIsLater

\* Steps that leave the loop's jobs alone.
LEMMA OtherTimes ==
  ASSUME TypeOK, TimesInv, [CronNext]_vars, UNCHANGED <<loopVars, jobCache, reading>>,
         cacheLoaded' => cacheLoaded, clock' \in Nat, clock' >= clock
  PROVE  TimesInv'
<1>1. /\ fired' = fired /\ unsure' = unsure /\ loop' = loop /\ due' = due /\ toClear' = toClear
      /\ jobCache' = jobCache /\ reading' = reading
  BY DEF loopVars
<1>2. (\A p \in fired' : p[2] <= clock') /\ Fresh(rows)'
  BY <1>1, FreshStays
<1>3. loop' = "clear" =>
        \A j \in Jobs \ (toClear' \cup unsure') :
          due'[j] # NoRow /\ rows'[j] # NoRow => rows'[j].next # due'[j].next
  BY <1>1, ClearedStays
<1> QED
  BY <1>1, <1>2, <1>3 DEF TimesInv, Fresh, Exists

LEMMA LoopTimes == TypeOK /\ TimesInv /\ LoopStep => TimesInv'
<1> SUFFICES ASSUME TypeOK, TimesInv, LoopStep PROVE TimesInv'
  OBVIOUS
<1>0. [CronNext]_vars /\ clock' = clock /\ clock' \in Nat /\ clock' >= clock /\ unsure \subseteq unsure'
  <2>1. clock' = clock /\ unsure \subseteq unsure'
    BY DEF LoopStep, LookInCache, ReadJobs, FillCache, ReadFails, StartJobs, EndTick, ClearNext,
       ClearFails, FinishJob, SaveFails
  <2> QED
    BY <2>1 DEF CronNext, TypeOK
<1>1. ASSUME NEW c \in Rows, Take(c), fired' = fired, UNCHANGED rows,
             Fresh(c) \/ DueOf(c) \subseteq unsure', cacheLoaded' => Fresh(jobCache)'
      PROVE  TimesInv'
  <2>1. (\A p \in fired' : p[2] <= clock') /\ Fresh(rows)'
    BY <1>0, <1>1, FreshStays
  <2>2. /\ loop' \in {"idle", "clear"} /\ toClear' = {j \in Jobs : due'[j] # NoRow}
        /\ \A j \in toClear' : due'[j] = c[j] /\ j \in DueOf(c)
    BY <1>1, Taken DEF TypeOK
  <2>3. Fresh(due)'
    BY <1>0, <1>1, <2>2 DEF Fresh
  <2> QED
    BY <1>1, <2>1, <2>2, <2>3 DEF TimesInv
<1>2. CASE LookInCache
  <2>1. Fresh(jobCache) /\ Fresh(jobCache)'
    BY <1>2 DEF LookInCache, TimesInv, cacheVars, Fresh
  <2> QED
    BY <1>1, <1>2, <2>1 DEF LookInCache, TypeOK, storeVars, cacheVars
<1>3. CASE ReadJobs
  <2>1. Fresh(reading)'
    <3>1. reading' = [j \in Jobs |-> Shown(j)] /\ fired' = fired /\ unsure' = unsure /\ rows' = rows
      BY <1>3 DEF ReadJobs, storeVars
    <3>2. \A j \in Jobs : reading'[j] = NoRow \/ reading'[j] = rows[j]
      BY <3>1 DEF Shown
    <3> QED
      BY <3>1, <3>2 DEF Fresh, TimesInv
  <2> QED
    BY <1>3, <2>1 DEF ReadJobs, TimesInv, Fresh, storeVars
<1>4. CASE FillCache
  <2>1. Fresh(reading) /\ Fresh(jobCache)'
    BY <1>4 DEF FillCache, TimesInv, Fresh
  <2> QED
    BY <1>1, <1>4, <2>1 DEF FillCache, TypeOK, storeVars
<1>5. CASE ReadFails
  <2>1. cacheLoaded' => Fresh(jobCache)'
    BY <1>0, <1>5 DEF ReadFails, TimesInv, Fresh
  <2> QED
    BY <1>1, <1>5, <2>1 DEF ReadFails, TypeOK, storeVars
<1>6. CASE StartJobs
  <2>1. /\ loop = "clear" /\ toClear = {} /\ loop' = "run" /\ rows' = rows /\ unsure' = unsure
        /\ fired' = fired \cup {<<j, due[j].next>> : j \in {i \in Jobs : due[i] # NoRow}}
    BY <1>6 DEF StartJobs, storeVars
  <2>2. \A p \in fired' : p[2] <= clock'
    <3>1. \A j \in Jobs : due[j] # NoRow => due[j].next <= clock
      BY <2>1 DEF TypeOK
    <3> QED
      BY <1>0, <2>1, <3>1 DEF TimesInv
  <2>3. Fresh(rows)'
    <3>1. \A j \in Jobs \ unsure : due[j] # NoRow /\ rows[j] # NoRow => rows[j].next # due[j].next
      BY <2>1 DEF TimesInv, Exists
    <3> QED
      BY <2>1, <3>1 DEF TimesInv, Fresh
  <2> QED
    BY <2>1, <2>2, <2>3 DEF TimesInv
<1>7. CASE EndTick
  BY <1>7 DEF EndTick, TimesInv, Fresh, storeVars
<1>8. ASSUME NEW j \in Jobs, ClearNext(j) PROVE TimesInv'
  <2>1. /\ loop = "clear" /\ loop' = loop /\ due' = due /\ fired' = fired /\ unsure' = unsure
        /\ toClear' = toClear \ {j} /\ UNCHANGED <<jobCache, cacheLoaded, reading>>
    BY <1>8 DEF ClearNext, cacheVars
  <2>2. (\A p \in fired' : p[2] <= clock') /\ Fresh(rows)'
    BY <1>0, <2>1, FreshStays
  <2>3. rows'[j] # NoRow => rows'[j].next = Never
    <3>1. CASE Exists(j)
      <4>1. rows[j] \in Row /\ Never \in Times
        BY <3>1 DEF TypeOK, Exists, Rows, Times
      <4>2. SetRow(j, [rows[j] EXCEPT !.next = Never])
        BY <1>8, <3>1 DEF ClearNext
      <4> QED
        BY <4>1, <4>2, RowNext, RowSet DEF TypeOK
    <3>2. CASE ~Exists(j)
      BY <1>8, <3>2, RowSet DEF ClearNext, TypeOK
    <3> QED
      BY <3>1, <3>2
  <2>4. \A i \in Jobs : i # j => rows'[i] = rows[i]
    BY <1>8 DEF ClearNext, SetRow, TypeOK, Rows
  <2>5. \A i \in Jobs \ (toClear' \cup unsure') :
          due'[i] # NoRow /\ rows'[i] # NoRow => rows'[i].next # due'[i].next
    <3>1. due[j] # NoRow => due[j].next # Never
      BY <2>1, CronAssumption DEF TypeOK
    <3>2. \A i \in Jobs \ (toClear \cup unsure) :
            due[i] # NoRow /\ rows[i] # NoRow => rows[i].next # due[i].next
      BY <2>1 DEF TimesInv, Exists
    <3> QED
      BY <2>1, <2>3, <2>4, <3>1, <3>2
  <2> QED
    BY <2>1, <2>2, <2>5 DEF TimesInv, Fresh, Exists
<1>9. ASSUME NEW j \in Jobs, ClearFails(j) PROVE TimesInv'
  BY <1>9 DEF ClearFails, TimesInv, Fresh, Exists, storeVars, cacheVars
<1>10. ASSUME NEW j \in Jobs, FinishJob(j) PROVE TimesInv'
  <2>1. /\ loop = "run" /\ loop' = loop /\ fired' = fired /\ unsure' = unsure
        /\ UNCHANGED <<jobCache, cacheLoaded, reading>>
    BY <1>10 DEF FinishJob, TypeOK, cacheVars
  <2>2. (\A p \in fired' : p[2] <= clock') /\ Fresh(rows)'
    BY <1>0, <2>1, FreshStays
  <2> QED
    BY <2>1, <2>2 DEF TimesInv
<1>11. ASSUME NEW j \in Jobs, SaveFails(j) PROVE TimesInv'
  BY <1>11 DEF SaveFails, TimesInv, Fresh, Exists, cacheVars
<1> QED
  BY <1>2, <1>3, <1>4, <1>5, <1>6, <1>7, <1>8, <1>9, <1>10, <1>11 DEF LoopStep

LEMMA TimesStep == TypeOK /\ TimesInv /\ [CronNext]_vars => TimesInv'
<1> SUFFICES ASSUME TypeOK, TimesInv, [CronNext]_vars PROVE TimesInv'
  OBVIOUS
<1>0. clock \in Nat
  BY DEF TypeOK
<1>1. CASE LoopStep
  BY <1>1, LoopTimes
<1>2. CASE EditStep
  <2>1. cacheLoaded' => cacheLoaded
    BY <1>2, EditEffect DEF Invalidate
  <2> QED
    BY <1>0, <1>2, <2>1, EditEffect, OtherTimes
<1>3. CASE \E m \in Manuals : ManualStep(m)
  <2>1. UNCHANGED <<clock, loopVars, jobCache, reading>> /\ (cacheLoaded' => cacheLoaded)
    BY <1>3 DEF ManualStep, StartManual, FinishManual, EndManual, RunJob, cacheVars
  <2> QED
    BY <1>0, <2>1, OtherTimes
<1>4. CASE Boot \/ BootFails
  <2>1. /\ loop = "off" /\ loop' = "idle" /\ fired' = fired /\ unsure' = unsure /\ clock' = clock
        /\ UNCHANGED <<jobCache, cacheLoaded>>
    BY <1>4 DEF Boot, BootFails, cacheVars
  <2>2. (\A p \in fired' : p[2] <= clock') /\ Fresh(rows)'
    BY <1>0, <2>1, FreshStays
  <2> QED
    BY <2>1, <2>2 DEF TimesInv, Fresh
<1>5. CASE Down
  <2>1. loop' = "off" /\ ~cacheLoaded' /\ UNCHANGED <<clock, rows, fired, unsure>>
    BY <1>5 DEF Down, storeVars
  <2> QED
    BY <2>1 DEF TimesInv, Fresh
<1>6. CASE TimePasses
  BY <1>0, <1>6, OtherTimes DEF TimePasses, cacheVars
<1>7. CASE UNCHANGED vars
  BY <1>0, <1>7, OtherTimes DEF vars, cacheVars
<1> QED
  BY <1>1, <1>2, <1>3, <1>4, <1>5, <1>6, <1>7 DEF CronNext
-----------------------------------------------------------------------------
(* A next run for every recurring job. *)

\* What holds of job j in NextInv.
Provided(j) ==
    loop # "off" /\ Exists(j) /\ rows[j].schedule.kind = "every" /\ rows[j].next = Never
      => Owed(j) \/ j \in stranded

\* The end of a run gives the job a next run, unless the run is of a schedule
\* that the job has no longer.
LEMMA SavedProvides ==
  ASSUME TypeOK, NEW j \in Jobs, NEW copy \in Row, Save(j, copy)
  PROVE  Provided(j)'
<1> SUFFICES ASSUME rows'[j] # NoRow, rows'[j].schedule.kind = "every", rows'[j].next = Never
             PROVE  j \in stranded'
  BY DEF Provided, Exists
<1>1. rows \in Rows /\ clock \in Nat /\ copy.schedule \in Schedule
  BY RowFields DEF TypeOK
<1>2. /\ Exists(j) /\ rows[j].schedule.kind = "every"
      /\ NextRun(copy.schedule, clock) = Never
  BY <1>1, Saved
<1>3. copy.schedule.kind = "at"
  BY <1>1, <1>2, NextRunIsLater DEF Schedule
<1> QED
  BY <1>1, <1>2, <1>3, Saved

LEMMA LoopProvides == TypeOK /\ NextInv /\ LoopStep => NextInv'
<1> SUFFICES ASSUME TypeOK, NextInv, LoopStep, NEW j \in Jobs PROVE Provided(j)'
  BY DEF NextInv, Provided, Exists, Owed
<1>0. Provided(j)
  BY DEF NextInv, Provided
<1>1. CASE LookInCache \/ FillCache \/ ReadFails
  <2>1. /\ loop \notin {"off", "clear"} /\ running = {} /\ UNCHANGED <<rows, stranded, manual, running>>
    BY <1>1 DEF LookInCache, FillCache, ReadFails, TypeOK, storeVars
  <2> QED
    BY <1>0, <2>1 DEF Provided, Owed, Exists
<1>2. CASE ReadJobs
  BY <1>0, <1>2 DEF ReadJobs, Provided, Owed, Exists, storeVars
<1>3. CASE StartJobs
  BY <1>0, <1>3 DEF StartJobs, Provided, Owed, Exists, storeVars
<1>4. CASE EndTick
  BY <1>0, <1>4 DEF EndTick, Provided, Owed, Exists, storeVars
<1>5. ASSUME NEW i \in Jobs, ClearNext(i) PROVE Provided(j)'
  <2>1. /\ loop = "clear" /\ loop' = loop /\ UNCHANGED <<due, running, manual, stranded>>
        /\ due[i] # NoRow /\ (i # j => rows'[j] = rows[j])
    BY <1>5 DEF ClearNext, SetRow, TypeOK, Rows
  <2>2. CASE i = j
    BY <2>1, <2>2 DEF Provided, Owed
  <2>3. CASE i # j
    BY <1>0, <2>1, <2>3 DEF Provided, Owed, Exists
  <2> QED
    BY <2>2, <2>3
<1>6. ASSUME NEW i \in Jobs, ClearFails(i) PROVE Provided(j)'
  BY <1>0, <1>6 DEF ClearFails, Provided, Owed, Exists, storeVars
<1>7. ASSUME NEW i \in Jobs, FinishJob(i) PROVE Provided(j)'
  <2>1. /\ due[i] \in Row /\ Save(i, due[i]) /\ UNCHANGED <<loop, due, manual>>
        /\ running' = running \ {i} /\ loop = "run"
    BY <1>7 DEF FinishJob, TypeOK, Rows
  <2>2. CASE i = j
    BY <2>1, <2>2, SavedProvides
  <2>3. CASE i # j
    <3>1. rows'[j] = rows[j] /\ stranded \subseteq stranded'
      BY <2>1, <2>3, Saved DEF TypeOK
    <3> QED
      BY <1>0, <2>1, <2>3, <3>1 DEF Provided, Owed, Exists
  <2> QED
    BY <2>2, <2>3
<1>8. ASSUME NEW i \in Jobs, SaveFails(i) PROVE Provided(j)'
  <2>1. i \in running /\ loop = "run"
    BY <1>8 DEF SaveFails, TypeOK
  <2> QED
    BY <1>0, <1>8, <2>1 DEF SaveFails, Provided, Owed, Exists
<1> QED
  BY <1>1, <1>2, <1>3, <1>4, <1>5, <1>6, <1>7, <1>8 DEF LoopStep

LEMMA ManualProvides == TypeOK /\ NextInv /\ (\E m \in Manuals : ManualStep(m)) => NextInv'
<1> SUFFICES ASSUME TypeOK, NextInv, NEW m \in Manuals, ManualStep(m), NEW j \in Jobs
             PROVE  Provided(j)'
  BY DEF NextInv, Provided, Exists, Owed
<1>0. Provided(j) /\ manual \in [Manuals -> Call]
  BY DEF NextInv, Provided, TypeOK
<1>1. CASE FinishManual(m)
  <2> DEFINE i == manual[m].job
  <2>1. /\ i \in Jobs /\ manual[m].copy \in Row /\ Save(i, manual[m].copy)
        /\ UNCHANGED <<loop, due, running>> /\ manual' = [manual EXCEPT ![m].at = "done"]
    BY <1>1 DEF FinishManual, TypeOK, loopVars
  <2>2. CASE i = j
    BY <2>1, <2>2, SavedProvides
  <2>3. CASE i # j
    <3>1. rows'[j] = rows[j] /\ stranded \subseteq stranded'
      BY <2>1, <2>3, Saved DEF TypeOK
    <3>2. \A n \in Manuals : manual[n].job = j => manual'[n] = manual[n]
      BY <1>0, <2>1, <2>3
    <3> QED
      BY <1>0, <2>1, <3>1, <3>2 DEF Provided, Owed, Exists
  <2> QED
    BY <2>2, <2>3
<1>2. CASE ~FinishManual(m)
  <2>1. /\ UNCHANGED <<rows, stranded, loop, due, running>>
        /\ \A n \in Manuals : manual[n].at \in {"got", "run"} =>
             manual'[n].job = manual[n].job /\ manual'[n].at \in {"got", "run"}
    <3>1. CASE StartManual(m)
      BY <1>0, <3>1 DEF StartManual, storeVars, loopVars, Call
    <3>2. CASE EndManual(m)
      BY <1>0, <3>2 DEF EndManual, storeVars, loopVars
    <3>3. ASSUME NEW i \in Jobs, NEW parent \in Jobs \cup {NoJob}, RunJob(m, i, parent)
          PROVE  /\ UNCHANGED <<rows, stranded, loop, due, running>>
                 /\ \A n \in Manuals : manual[n].at \in {"got", "run"} =>
                      manual'[n].job = manual[n].job /\ manual'[n].at \in {"got", "run"}
      BY <1>0, <3>3 DEF RunJob, storeVars, loopVars
    <3> QED
      BY <1>2, <3>1, <3>2, <3>3 DEF ManualStep
  <2> QED
    BY <1>0, <2>1 DEF Provided, Owed, Exists
<1> QED
  BY <1>1, <1>2

LEMMA NextStep == TypeOK /\ NextInv /\ [CronNext]_vars => NextInv'
<1> SUFFICES ASSUME TypeOK, NextInv, [CronNext]_vars PROVE NextInv'
  OBVIOUS
<1>0. \A j \in Jobs : Provided(j)
  BY DEF NextInv, Provided
<1>1. CASE LoopStep
  BY <1>1, LoopProvides
<1>2. CASE \E m \in Manuals : ManualStep(m)
  BY <1>2, ManualProvides
<1>3. CASE EditStep
  <2>1. UNCHANGED <<loop, due, running, manual>>
    BY <1>3, EditEffect DEF loopVars
  <2>2. CASE Invalidate
    BY <1>0, <2>1, <2>2 DEF Invalidate, NextInv, Provided, Owed, Exists, storeVars
  <2>3. CASE ~Invalidate
    <3>1. PICK i \in Jobs, s \in Schedule :
            /\ \A k \in Jobs : k # i => rows'[k] = rows[k]
            /\ stranded \ {i} \subseteq stranded'
            /\ rows'[i] # NoRow =>
                 \/ /\ Exists(i) /\ rows'[i].next = rows[i].next
                    /\ rows'[i].schedule = rows[i].schedule /\ stranded' = stranded
                 \/ rows'[i].schedule = s /\ rows'[i].next = NextRun(s, clock)
      BY <1>3, <2>3, EditEffect
    <3>2. s.kind = "every" => NextRun(s, clock) # Never
      BY NextRunIsLater DEF TypeOK
    <3>3. ASSUME NEW j \in Jobs PROVE Provided(j)'
      <4>1. CASE j = i
        BY <1>0, <2>1, <3>1, <3>2, <4>1 DEF Provided, Owed, Exists
      <4>2. CASE j # i
        BY <1>0, <2>1, <3>1, <4>2 DEF Provided, Owed, Exists
      <4> QED
        BY <4>1, <4>2
    <3> QED
      BY <3>3 DEF NextInv, Provided, Exists, Owed
  <2> QED
    BY <2>2, <2>3
<1>4. CASE Boot
  <2>1. ASSUME NEW j \in Jobs, rows'[j] # NoRow, rows'[j].schedule.kind = "every", rows'[j].next = Never
        PROVE  j \in stranded'
    <3>1. rows'[j] = Repaired(rows[j])
      BY <1>4 DEF Boot
    <3>2. rows[j] \in Row
      BY <2>1, <3>1 DEF Repaired, TypeOK, Rows
    <3>3. /\ rows[j].schedule \in Schedule /\ NextRun(rows[j].schedule, clock) \in Times
          /\ rows[j].schedule.kind = "every" => NextRun(rows[j].schedule, clock) # Never
      BY <3>2, RowFields, NextRunIsLater DEF TypeOK
    <3>4. ~rows'[j].enabled
      <4>1. CASE rows[j].enabled /\ rows[j].next = Never
        <5>1. rows'[j] = IF NextRun(rows[j].schedule, clock) # Never
                         THEN [rows[j] EXCEPT !.next = NextRun(rows[j].schedule, clock)]
                         ELSE [rows[j] EXCEPT !.enabled = FALSE]
          BY <3>1, <3>2, <4>1, RowFields DEF Repaired
        <5>2. rows[j].schedule.kind = "every"
          BY <2>1, <3>2, <3>3, <5>1, RowNext, RowFlag
        <5> QED
          BY <2>1, <3>2, <3>3, <5>1, <5>2, RowNext
      <4>2. CASE ~(rows[j].enabled /\ rows[j].next = Never)
        BY <2>1, <3>1, <4>2 DEF Repaired
      <4> QED
        BY <4>1, <4>2
    <3> QED
      BY <1>4, <2>1, <3>4 DEF Boot, Without, Disabled
  <2> QED
    BY <2>1 DEF NextInv, Exists
<1>5. CASE BootFails
  BY <1>5 DEF BootFails, NextInv, Without, Exists
<1>6. CASE Down
  BY <1>6 DEF Down, NextInv
<1>7. CASE TimePasses \/ UNCHANGED vars
  BY <1>7 DEF TimePasses, vars, NextInv, Owed, Exists, storeVars, loopVars
<1> QED
  BY <1>1, <1>2, <1>3, <1>4, <1>5, <1>6, <1>7 DEF CronNext
-----------------------------------------------------------------------------
(* The cache. *)

LEMMA CacheStep == TypeOK /\ CacheInv /\ [CronNext]_vars => CacheInv'
<1> SUFFICES ASSUME TypeOK, CacheInv, [CronNext]_vars PROVE CacheInv'
  OBVIOUS
<1>1. CASE LookInCache \/ ReadJobs \/ FillCache \/ ReadFails
  BY <1>1, Taken DEF LookInCache, ReadJobs, FillCache, ReadFails, CacheInv, Shown, Exists, Ended,
     TypeOK, storeVars, cacheVars
<1>2. CASE StartJobs \/ EndTick \/ (\E j \in Jobs : ClearNext(j) \/ ClearFails(j)
                                       \/ FinishJob(j) \/ SaveFails(j))
  BY <1>2 DEF StartJobs, EndTick, ClearNext, ClearFails, FinishJob, SaveFails, CacheInv, TypeOK
<1>3. CASE LoopStep
  BY <1>1, <1>2, <1>3 DEF LoopStep
<1>4. ASSUME NEW m \in Manuals, ManualStep(m) PROVE CacheInv'
  <2>1. manual \in [Manuals -> Call]
    BY DEF TypeOK
  <2>2. CASE StartManual(m) \/ EndManual(m)
    BY <2>2 DEF StartManual, EndManual, CacheInv, loopVars
  <2>3. CASE FinishManual(m)
    <3> DEFINE i == manual[m].job
    <3>1. /\ i \in Jobs /\ manual[m].copy \in Row /\ Save(i, manual[m].copy)
          /\ manual[m].at = "run" /\ manual' = [manual EXCEPT ![m].at = "done"]
          /\ UNCHANGED <<loop, jobCache, cacheLoaded, reading, missed>>
      BY <2>3 DEF FinishManual, TypeOK, cacheVars, loopVars
    <3>2. \A j \in Jobs : j # i => rows'[j] = rows[j]
      BY <3>1, Saved DEF TypeOK
    <3>3. Ended(i)' /\ \A j \in Jobs : Ended(j) => Ended(j)'
      BY <2>1, <3>1 DEF Ended
    <3> QED
      BY <3>1, <3>2, <3>3 DEF CacheInv, Shown, Exists
  <2>4. ASSUME NEW j \in Jobs, NEW parent \in Jobs \cup {NoJob}, RunJob(m, j, parent) PROVE CacheInv'
    <3>1. \A i \in Jobs : Ended(i) => Ended(i)'
      BY <2>1, <2>4 DEF RunJob, Ended
    <3> QED
      BY <2>4, <3>1 DEF RunJob, CacheInv, Shown, Exists, storeVars, cacheVars, loopVars
  <2> QED
    BY <1>4, <2>2, <2>3, <2>4 DEF ManualStep
<1>5. CASE EditStep
  <2>1. UNCHANGED <<loop, jobCache, reading, manual>>
    BY <1>5, EditEffect DEF loopVars
  <2>2. CASE Invalidate
    BY <2>1, <2>2 DEF Invalidate, CacheInv, Shown, Exists, Ended, storeVars
  <2>3. CASE ~Invalidate
    <3>1. PICK j \in Jobs : /\ missed' = missed \cup {j} /\ cacheLoaded' = cacheLoaded
                           /\ \A i \in Jobs : i # j => rows'[i] = rows[i]
      BY <1>5, <2>3, EditEffect
    <3> QED
      BY <2>1, <3>1 DEF CacheInv, Shown, Exists, Ended
  <2> QED
    BY <2>2, <2>3
<1>6. CASE Boot \/ BootFails \/ Down
  BY <1>6 DEF Boot, BootFails, Down, CacheInv, TypeOK, cacheVars
<1>7. CASE TimePasses \/ UNCHANGED vars
  BY <1>7 DEF TimePasses, vars, CacheInv, Shown, Exists, Ended, storeVars, cacheVars, loopVars
<1> QED
  BY <1>3, <1>4, <1>5, <1>6, <1>7 DEF CronNext
-----------------------------------------------------------------------------
\* The types, and what the three theorems below rest on, hold in every state.
THEOREM CronInvariant == CronSpec => []IInv
<1>1. IInv /\ [CronNext]_vars => IInv'
  BY TypeStep, TimesStep, NextStep, CacheStep DEF IInv
<1> QED
  BY InitInv, <1>1, PTL DEF CronSpec

\* A time at which a job was due starts one run of the loop at most, whatever
\* happens between the ticks (the invariant: rows and copies hold no fired time,
\* for what is written lies in the future).
THEOREM CronFiresOnce == CronSpec => FiresOnce
<1> DEFINE Once == \A j \in Jobs : StartJobs /\ due[j] # NoRow =>
                     <<j, due[j].next>> \notin fired \/ j \in unsure
<1>1. IInv => Once
  <2> SUFFICES ASSUME IInv, NEW j \in Jobs, StartJobs, due[j] # NoRow, j \notin unsure
               PROVE  <<j, due[j].next>> \notin fired
    OBVIOUS
  <2>1. loop = "clear"
    BY DEF StartJobs
  <2>2. due[j].next # Never
    BY <2>1, CronAssumption DEF IInv, TypeOK
  <2> QED
    BY <2>1, <2>2 DEF IInv, TimesInv, Fresh
<1>2. []IInv => [][Once]_vars
  BY <1>1, PTL
<1> QED
  BY CronInvariant, <1>2, PTL DEF FiresOnce

\* A recurring job that is enabled has a next run, or a run that will give it
\* one, whatever edits and runs by hand come in between.
THEOREM CronEnabledHasNext == CronSpec => []EnabledHasNext
<1>1. IInv => EnabledHasNext
  BY DEF IInv, NextInv, EnabledHasNext
<1> QED
  BY CronInvariant, <1>1, PTL

\* A loaded cache shows what a refresh would, when nothing is under way: the
\* runs by hand that it missed are those that have still to invalidate it.
THEOREM CronCacheIsCurrent == CronSpec => []CacheIsCurrent
<1>1. IInv => CacheIsCurrent
  BY DEF IInv, CacheInv, CacheIsCurrent, Ended
<1> QED
  BY CronInvariant, <1>1, PTL
-----------------------------------------------------------------------------
(* Approvals. *)

ApprovalTypes ==
    /\ request \in [Requests -> Stage] /\ answer \in [Requests -> Decision \cup {Undecided}]
    /\ channel \in [Requests -> Decision \cup {Undecided}]
    /\ call \in [Operators -> [at : {"none", "called", "over"}, id : Requests \cup {Undecided},
                               decision : Decision \cup {Undecided}]]
    /\ \A o \in Operators : call[o].at # "none" => call[o].id \in Requests /\ call[o].decision \in Decision
    /\ holder \in Operators \cup {NoOperator} /\ pending \subseteq Requests
    /\ holder # NoOperator => call[holder].at = "called"
    /\ decided \subseteq Operators \X Requests

\* Operator o decided d for request r.
DecidedBy(o, r, d) == <<o, r>> \in decided /\ call[o].id = r /\ call[o].decision = d

Deciders(r) == {o \in Operators : <<o, r>> \in decided}

\* Whoever decided a request has returned, or waits for the place of another's decision.
CallsOK ==
    /\ \A o \in Operators, r \in Requests : <<o, r>> \in decided =>
         call[o].id = r /\ (call[o].at = "over" \/ (call[o].at = "called" /\ holder = o))
    /\ holder # NoOperator =>
         /\ <<holder, call[holder].id>> \in decided
         /\ \E o \in Operators \ {holder} : <<o, call[holder].id>> \in decided
    /\ \A r \in Requests : IsFiniteSet(Deciders(r))

\* What is in a channel, in an answer or in the list is the decision of an operator.
AnswersOK ==
    /\ \A r \in Requests : channel[r] # Undecided =>
         \E o \in Operators \ {holder} : DecidedBy(o, r, channel[r])
    /\ \A b \in alwaysAllow : \E o \in Operators, q \in Requests :
         DecidedBy(o, q, "allow-always") /\ Binary[q] = b
    /\ \A r \in Requests : request[r] \in {"new", "ask", "waiting"} => answer[r] = Undecided
    /\ \A r \in Requests : request[r] \in {"chosen", "extend"} =>
         \E o \in Operators : DecidedBy(o, r, answer[r])
    /\ \A r \in Requests : request[r] = "timedout" => answer[r] = "deny"
    /\ \A r \in Requests : request[r] = "extend" => answer[r] = "allow-always"

\* A command is let through because an operator allowed it, or allowed a command of the
\* same binary for good and this one need not be asked for each time.
AllowedByOperator ==
    \A r \in Requests : answer[r] \in {"allow-once", "allow-always"} =>
        \E o \in Operators, q \in Requests :
            \/ q = r /\ DecidedBy(o, q, answer[r])
            \/ DecidedBy(o, q, "allow-always") /\ Binary[q] = Binary[r] /\ r \notin Asking

\* The mutex is kept beyond a step only when two operators decided one request.
HeldIfDecidedTwice == holder # NoOperator => DecidedTwice

ApprovalInv == ApprovalTypes /\ CallsOK /\ AnswersOK /\ AllowedByOperator

LEMMA ApprovalInitInv == ApprovalInit => ApprovalInv
<1> SUFFICES ASSUME ApprovalInit PROVE ApprovalInv
  OBVIOUS
<1>1. ApprovalTypes
  BY ApprovalAssumption DEF ApprovalInit, ApprovalTypes, Stage, NoResolve, Decision
<1>2. \A r \in Requests : Deciders(r) = {}
  BY DEF ApprovalInit, Deciders
<1>3. CallsOK
  BY <1>2, FS_EmptySet DEF ApprovalInit, CallsOK
<1>4. AnswersOK /\ AllowedByOperator
  BY ApprovalAssumption DEF ApprovalInit, AnswersOK, AllowedByOperator, Decision
<1> QED BY <1>1, <1>3, <1>4 DEF ApprovalInv

LEMMA ApprovalTypesStep == ApprovalTypes /\ [ApprovalNext]_appVars => ApprovalTypes'
<1> SUFFICES ASSUME ApprovalTypes, [ApprovalNext]_appVars PROVE ApprovalTypes'
  OBVIOUS
<1> USE ApprovalAssumption
<1>1. ASSUME NEW r \in Requests, CheckCommand(r) \/ RequestStep(r) PROVE ApprovalTypes'
  <2>1. CASE CheckCommand(r)
    BY <2>1 DEF CheckCommand, ApprovalTypes, Stage, Decision
  <2>2. CASE RequestApproval(r)
    BY <2>2 DEF RequestApproval, ApprovalTypes, Stage
  <2>3. CASE Receive(r)
    BY <2>3 DEF Receive, ApprovalTypes, Stage
  <2>4. CASE TimeOut(r)
    BY <2>4 DEF TimeOut, ApprovalTypes, Stage, Decision
  <2>5. CASE EndRequest(r)
    BY <2>5 DEF EndRequest, ApprovalTypes, Stage
  <2>6. CASE AllowAlways(r)
    BY <2>6 DEF AllowAlways, ApprovalTypes, Stage
  <2> QED BY <1>1, <2>1, <2>2, <2>3, <2>4, <2>5, <2>6 DEF RequestStep
<1>2. ASSUME NEW o \in Operators, ResolveStep(o) PROVE ApprovalTypes'
  <2>1. CASE NotPending(o)
    BY <2>1 DEF NotPending, Free, CallOver, ApprovalTypes
  <2>2. CASE Resolve(o)
    <3>1. call[o].id \in Requests /\ call[o].decision \in Decision /\ call[o].at = "called"
      BY <2>2 DEF Resolve, ApprovalTypes
    <3>2. CASE HasPlace(call[o].id)
      <4>1. /\ channel' = [channel EXCEPT ![call[o].id] = call[o].decision]
            /\ call' = [call EXCEPT ![o].at = "over"] /\ holder' = NoOperator
            /\ decided' = decided \cup {<<o, call[o].id>>} /\ UNCHANGED <<request, answer, pending>>
        BY <2>2, <3>2 DEF Resolve, Free, CallOver
      <4>2. channel' \in [Requests -> Decision \cup {Undecided}]
        BY <3>1, <4>1 DEF ApprovalTypes
      <4> QED BY <3>1, <4>1, <4>2 DEF ApprovalTypes
    <3>3. CASE ~HasPlace(call[o].id)
      BY <2>2, <3>1, <3>3 DEF Resolve, Free, ApprovalTypes
    <3> QED BY <3>2, <3>3
  <2>3. CASE Send(o)
    <3>1. call[o].id \in Requests /\ call[o].decision \in Decision
      BY <2>3 DEF Send, ApprovalTypes
    <3> QED BY <2>3, <3>1 DEF Send, CallOver, ApprovalTypes
  <2> QED BY <1>2, <2>1, <2>2, <2>3 DEF ResolveStep
<1>3. ASSUME NEW o \in Operators, NEW r \in Requests, NEW d \in Decision, Decide(o, r, d)
      PROVE  ApprovalTypes'
  BY <1>3 DEF Decide, ApprovalTypes
<1>4. CASE UNCHANGED appVars
  BY <1>4 DEF appVars, ApprovalTypes
<1> QED BY <1>1, <1>2, <1>3, <1>4 DEF ApprovalNext

\* A decision stays the one it was.
LEMMA DecisionStays ==
    ASSUME ApprovalTypes, CallsOK, [ApprovalNext]_appVars,
           NEW o \in Operators, NEW r \in Requests, NEW d, DecidedBy(o, r, d)
    PROVE  DecidedBy(o, r, d)'
<1>1. decided \subseteq decided' /\ <<o, r>> \in decided /\ call[o].at # "none"
  BY DEF ApprovalNext, appVars, CheckCommand, RequestStep, RequestApproval, Receive, TimeOut,
         EndRequest, AllowAlways, ResolveStep, NotPending, Resolve, Send, Decide, CallsOK, DecidedBy
<1>2. call' = call \/ \E p \in Operators : (CallOver(p) \/ \E q \in Requests, e \in Decision : Decide(p, q, e))
  BY DEF ApprovalNext, appVars, CheckCommand, RequestStep, RequestApproval, Receive, TimeOut,
         EndRequest, AllowAlways, ResolveStep, NotPending, Resolve, Send
<1>3. call[o]'.id = call[o].id /\ call[o]'.decision = call[o].decision
  <2>1. ASSUME NEW p \in Operators, CallOver(p) PROVE call[o]'.id = call[o].id /\ call[o]'.decision = call[o].decision
    BY <2>1 DEF CallOver, ApprovalTypes
  <2>2. ASSUME NEW p \in Operators, NEW q \in Requests, NEW e \in Decision, Decide(p, q, e)
        PROVE  call[o]' = call[o]
    BY <1>1, <2>2 DEF Decide, ApprovalTypes
  <2> QED BY <1>2, <2>1, <2>2
<1> QED BY <1>1, <1>3 DEF DecidedBy

LEMMA CallsStep == ApprovalTypes /\ CallsOK /\ AnswersOK /\ [ApprovalNext]_appVars => CallsOK'
<1> SUFFICES ASSUME ApprovalTypes, CallsOK, AnswersOK, [ApprovalNext]_appVars PROVE CallsOK'
  OBVIOUS
<1> USE ApprovalAssumption
<1>1. CASE UNCHANGED <<call, holder, decided>>
  BY <1>1 DEF CallsOK, Deciders
<1>2. ASSUME NEW o \in Operators, NEW r \in Requests, NEW d \in Decision, Decide(o, r, d)
      PROVE  CallsOK'
  <2>1. \A q \in Requests : <<o, q>> \notin decided
    BY <1>2 DEF Decide, CallsOK
  <2>2. \A p \in Operators \ {o} : call'[p] = call[p]
    BY <1>2 DEF Decide, ApprovalTypes
  <2>3. holder' = holder /\ decided' = decided /\ holder # o
    <3>1. holder' = holder /\ decided' = decided
      BY <1>2 DEF Decide
    <3>2. ASSUME holder = o PROVE FALSE
      <4>1. <<o, call[o].id>> \in decided
        BY <3>2 DEF CallsOK
      <4> QED BY <2>1, <4>1 DEF ApprovalTypes
    <3> QED BY <3>1, <3>2
  <2>4. \A p \in Operators, q \in Requests : <<p, q>> \in decided' => p # o
    BY <2>1, <2>3
  <2>5. holder # NoOperator => holder \in Operators \ {o}
    BY <2>3 DEF ApprovalTypes
  <2> QED BY <2>2, <2>3, <2>4, <2>5 DEF CallsOK, Deciders
<1>3. ASSUME NEW o \in Operators, NotPending(o) PROVE CallsOK'
  <2>1. holder = NoOperator /\ holder' = NoOperator /\ decided' = decided /\ call[o].at = "called"
    BY <1>3 DEF NotPending, Free
  <2>2. \A q \in Requests : <<o, q>> \notin decided
    BY <2>1 DEF CallsOK
  <2>3. \A p \in Operators \ {o} : call'[p] = call[p]
    BY <1>3 DEF NotPending, CallOver, ApprovalTypes
  <2> QED BY <2>1, <2>2, <2>3 DEF CallsOK, Deciders
<1>4. ASSUME NEW o \in Operators, Resolve(o) PROVE CallsOK'
  <2> DEFINE r == call[o].id
  <2>1. /\ holder = NoOperator /\ decided' = decided \cup {<<o, r>>} /\ call[o].at = "called"
        /\ r \in Requests
    BY <1>4 DEF Resolve, Free, ApprovalTypes
  <2>2. \A q \in Requests : <<o, q>> \notin decided
    BY <2>1 DEF CallsOK
  <2>3. \A q \in Requests : IsFiniteSet(Deciders(q))'
    <3> TAKE q \in Requests
    <3>1. IsFiniteSet(Deciders(q) \cup {o})
      BY FS_AddElement DEF CallsOK
    <3>2. Deciders(q)' \subseteq Deciders(q) \cup {o}
      BY <2>1 DEF Deciders
    <3> QED BY <3>1, <3>2, FS_Subset
  <2>4. \A p \in Operators \ {o} : call'[p] = call[p]
    BY <1>4 DEF Resolve, CallOver, ApprovalTypes
  <2>5. call'[o].id = r
    BY <1>4 DEF Resolve, CallOver, ApprovalTypes
  <2>6. CASE HasPlace(r)
    <3>1. holder' = NoOperator /\ call'[o].at = "over"
      BY <1>4, <2>1, <2>6 DEF Resolve, CallOver, ApprovalTypes
    <3>2. \A p \in Operators, q \in Requests : <<p, q>> \in decided' =>
            call'[p].id = q /\ call'[p].at = "over"
      BY <2>1, <2>2, <2>4, <2>5, <3>1 DEF CallsOK
    <3> QED BY <2>3, <3>1, <3>2 DEF CallsOK
  <2>7. CASE ~HasPlace(r)
    <3>1. holder' = o /\ call' = call
      BY <1>4, <2>7 DEF Resolve
    <3>2. PICK p \in Operators : DecidedBy(p, r, channel[r])
      BY <2>1, <2>7 DEF HasPlace, AnswersOK
    <3>3. <<p, r>> \in decided' /\ p # o
      BY <2>1, <2>2, <3>2 DEF DecidedBy
    <3>4. \A q \in Operators, s \in Requests : <<q, s>> \in decided' =>
            call'[q].id = s /\ (call'[q].at = "over" \/ (call'[q].at = "called" /\ holder' = q))
      BY <2>1, <2>2, <3>1 DEF CallsOK
    <3> HIDE DEF r
    <3>5. <<holder', call'[holder'].id>> \in decided'
      BY <2>1, <2>5, <3>1
    <3>6. \E q \in Operators \ {holder'} : <<q, call'[holder'].id>> \in decided'
      BY <2>5, <3>1, <3>3
    <3> QED BY <2>3, <3>4, <3>5, <3>6 DEF CallsOK
  <2> QED BY <2>6, <2>7
<1>5. ASSUME NEW o \in Operators, Send(o) PROVE CallsOK'
  <2>1. holder = o /\ holder' = NoOperator /\ decided' = decided
    BY <1>5 DEF Send
  <2>2. \A p \in Operators \ {o} : call'[p] = call[p]
    BY <1>5 DEF Send, CallOver, ApprovalTypes
  <2>3. call'[o].id = call[o].id /\ call'[o].at = "over"
    BY <1>5 DEF Send, CallOver, ApprovalTypes
  <2>4. \A p \in Operators, q \in Requests : <<p, q>> \in decided' =>
          call'[p].id = q /\ call'[p].at = "over"
    BY <2>1, <2>2, <2>3 DEF CallsOK
  <2> QED BY <2>1, <2>4 DEF CallsOK, Deciders
<1>6. ASSUME NEW r \in Requests, CheckCommand(r) \/ RequestStep(r)
      PROVE  UNCHANGED <<call, holder, decided>>
  BY <1>6 DEF CheckCommand, RequestStep, RequestApproval, Receive, TimeOut, EndRequest, AllowAlways
<1>7. CASE UNCHANGED appVars
  BY <1>1, <1>7 DEF appVars
<1> QED BY <1>1, <1>2, <1>3, <1>4, <1>5, <1>6, <1>7 DEF ApprovalNext, ResolveStep

\* Whoever has decided and does not keep the mutex does not take it any more.
LEMMA HolderIsNew ==
    ASSUME ApprovalTypes, CallsOK, [ApprovalNext]_appVars,
           NEW o \in Operators, NEW r \in Requests, <<o, r>> \in decided, o # holder
    PROVE  o # holder'
<1>1. CASE holder' = holder \/ holder' = NoOperator
  BY <1>1, ApprovalAssumption
<1>2. ASSUME NEW p \in Operators, Resolve(p), holder' = p PROVE o # p
  <2>1. call[p].at = "called" /\ holder = NoOperator
    BY <1>2 DEF Resolve, Free
  <2>2. call[o].at = "over"
    BY DEF CallsOK
  <2> QED BY <2>1, <2>2
<1>3. \/ holder' = holder \/ holder' = NoOperator
      \/ \E p \in Operators : Resolve(p) /\ holder' = p
  BY DEF ApprovalNext, appVars, CheckCommand, RequestStep, RequestApproval, Receive, TimeOut,
         EndRequest, AllowAlways, ResolveStep, NotPending, Resolve, Send, Decide
<1> QED BY <1>1, <1>2, <1>3

\* What is sent is the decision of the one who sends it.
LEMMA ChannelStep ==
    ASSUME ApprovalTypes, CallsOK, AnswersOK, [ApprovalNext]_appVars,
           NEW r \in Requests, channel'[r] # Undecided
    PROVE  \E o \in Operators \ {holder'} : DecidedBy(o, r, channel[r])'
<1> DEFINE d == channel'[r]
<1>1. CASE channel'[r] = channel[r]
  <2>1. PICK o \in Operators \ {holder} : DecidedBy(o, r, d)
    BY <1>1 DEF AnswersOK
  <2>2. o # holder'
    BY <2>1, HolderIsNew DEF DecidedBy
  <2> DEFINE e == channel[r]
  <2>3. DecidedBy(o, r, e)
    BY <1>1, <2>1
  <2>4. <<o, r>> \in decided' /\ call'[o].id = r /\ call'[o].decision = call[o].decision
    BY <2>3, DecisionStays DEF DecidedBy
  <2> QED BY <1>1, <2>1, <2>2, <2>4 DEF DecidedBy
<1>2. ASSUME NEW p \in Operators, channel' = [channel EXCEPT ![call[p].id] = call[p].decision],
             CallOver(p), holder' = NoOperator, <<p, call[p].id>> \in decided', channel'[r] # channel[r]
      PROVE  \E o \in Operators \ {holder'} : DecidedBy(o, r, channel[r])'
  <2>1. r = call[p].id /\ channel'[r] = call[p].decision
    BY <1>2 DEF ApprovalTypes
  <2>2. call'[p].id = call[p].id /\ call'[p].decision = call[p].decision
    BY <1>2 DEF CallOver, ApprovalTypes
  <2>3. p # holder'
    BY <1>2, ApprovalAssumption
  <2> QED BY <1>2, <2>1, <2>2, <2>3 DEF DecidedBy
<1>3. CASE channel'[r] # channel[r]
  <2>1. ASSUME NEW q \in Requests, CheckCommand(q) \/ RequestStep(q) PROVE FALSE
    BY <1>3, <2>1 DEF CheckCommand, RequestStep, RequestApproval, Receive, TimeOut, EndRequest,
                      AllowAlways, ApprovalTypes
  <2>2. ASSUME NEW p \in Operators, NotPending(p) PROVE FALSE
    BY <1>3, <2>2 DEF NotPending
  <2>3. ASSUME NEW p \in Operators, NEW q \in Requests, NEW e \in Decision, Decide(p, q, e) PROVE FALSE
    BY <1>3, <2>3 DEF Decide
  <2>4. ASSUME NEW p \in Operators, Resolve(p)
        PROVE  \E o \in Operators \ {holder'} : DecidedBy(o, r, channel[r])'
    <3>1. /\ channel' = [channel EXCEPT ![call[p].id] = call[p].decision] /\ CallOver(p)
          /\ holder' = NoOperator /\ <<p, call[p].id>> \in decided'
      BY <1>3, <2>4 DEF Resolve, Free
    <3> QED BY <1>2, <1>3, <3>1
  <2>5. ASSUME NEW p \in Operators, Send(p)
        PROVE  \E o \in Operators \ {holder'} : DecidedBy(o, r, channel[r])'
    <3>1. <<p, call[p].id>> \in decided /\ decided' = decided
      BY <2>5, ApprovalAssumption DEF Send, CallsOK
    <3>2. /\ channel' = [channel EXCEPT ![call[p].id] = call[p].decision] /\ CallOver(p)
          /\ holder' = NoOperator
      BY <2>5 DEF Send
    <3> QED BY <1>2, <1>3, <3>1, <3>2
  <2>6. CASE UNCHANGED appVars
    BY <1>3, <2>6 DEF appVars
  <2> QED BY <2>1, <2>2, <2>3, <2>4, <2>5, <2>6 DEF ApprovalNext, ResolveStep
<1> QED BY <1>1, <1>3

\* A binary is allowed for good because an operator said so.
LEMMA ListStep ==
    ASSUME ApprovalTypes, CallsOK, AnswersOK, [ApprovalNext]_appVars, NEW b \in alwaysAllow'
    PROVE  \E o \in Operators, q \in Requests :
              DecidedBy(o, q, "allow-always")' /\ Binary[q] = b
<1>1. \E o \in Operators, q \in Requests : DecidedBy(o, q, "allow-always") /\ Binary[q] = b
  <2>1. CASE b \in alwaysAllow
    BY <2>1 DEF AnswersOK
  <2>2. CASE b \notin alwaysAllow
    <3>1. PICK q \in Requests : AllowAlways(q)
      BY <2>2 DEF ApprovalNext, appVars, CheckCommand, RequestStep, RequestApproval, Receive,
                  TimeOut, EndRequest, ResolveStep, NotPending, Resolve, Send, Decide
    <3>2. request[q] = "extend" /\ b = Binary[q]
      BY <2>2, <3>1 DEF AllowAlways
    <3>3. answer[q] = "allow-always"
      BY <3>2 DEF AnswersOK
    <3>4. \E o \in Operators : DecidedBy(o, q, answer[q])
      BY <3>2 DEF AnswersOK
    <3> QED BY <3>2, <3>3, <3>4
  <2> QED BY <2>1, <2>2
<1>2. PICK o \in Operators, q \in Requests : DecidedBy(o, q, "allow-always") /\ Binary[q] = b
  BY <1>1
<1>3. DecidedBy(o, q, "allow-always")'
  BY <1>2, DecisionStays
<1> QED BY <1>2, <1>3

\* How the answer of a request changes.
LEMMA AnswerCases ==
    ASSUME ApprovalTypes, AnswersOK, [ApprovalNext]_appVars, NEW r \in Requests
    PROVE  \/ /\ answer'[r] = answer[r]
              /\ \/ request'[r] = request[r]
                 \/ request'[r] \in {"ask", "waiting"} /\ request[r] \in {"new", "ask"}
                 \/ request'[r] = "extend" /\ request[r] = "chosen" /\ answer[r] = "allow-always"
                 \/ request'[r] = "over"
           \/ /\ answer'[r] = "allow-always" /\ request'[r] = "over"
              /\ Binary[r] \in alwaysAllow /\ r \notin Asking /\ request[r] = "new"
           \/ /\ answer'[r] = channel[r] /\ channel[r] # Undecided /\ request'[r] = "chosen"
              /\ request[r] = "waiting"
           \/ answer'[r] = "deny" /\ request'[r] = "timedout" /\ request[r] = "waiting"
<1>1. ASSUME NEW q \in Requests, q # r, CheckCommand(q) \/ RequestStep(q)
      PROVE  answer'[r] = answer[r] /\ request'[r] = request[r]
  BY <1>1 DEF CheckCommand, RequestStep, RequestApproval, Receive, TimeOut, EndRequest,
              AllowAlways, ApprovalTypes
<1>2. CASE CheckCommand(r)
  BY <1>2 DEF CheckCommand, ApprovalTypes
<1>3. CASE RequestApproval(r)
  BY <1>3 DEF RequestApproval, ApprovalTypes
<1>4. CASE Receive(r)
  BY <1>4 DEF Receive, ApprovalTypes
<1>5. CASE TimeOut(r)
  BY <1>5 DEF TimeOut, ApprovalTypes
<1>6. CASE EndRequest(r)
  <2>1. answer' = answer /\ request' = [request EXCEPT ![r] = IF answer[r] = "allow-always" THEN "extend" ELSE "over"]
    BY <1>6 DEF EndRequest
  <2>2. request[r] = "timedout" => answer[r] # "allow-always"
    BY DEF AnswersOK
  <2>3. request[r] \in {"chosen", "timedout"}
    BY <1>6 DEF EndRequest
  <2> QED BY <2>1, <2>2, <2>3 DEF ApprovalTypes
<1>7. CASE AllowAlways(r)
  BY <1>7 DEF AllowAlways, ApprovalTypes
<1>8. CASE UNCHANGED <<request, answer>>
  BY <1>8
<1>9. ASSUME NEW o \in Operators, ResolveStep(o) \/ \E q \in Requests, d \in Decision : Decide(o, q, d)
      PROVE  UNCHANGED <<request, answer>>
  BY <1>9 DEF ResolveStep, NotPending, Resolve, Send, Decide
<1>10. CASE UNCHANGED appVars
  BY <1>8, <1>10 DEF appVars
<1> QED BY <1>1, <1>2, <1>3, <1>4, <1>5, <1>6, <1>7, <1>8, <1>9, <1>10 DEF ApprovalNext, RequestStep

LEMMA AnswersStep ==
    ApprovalTypes /\ CallsOK /\ AnswersOK /\ AllowedByOperator /\ [ApprovalNext]_appVars
      => AnswersOK' /\ AllowedByOperator'
<1> SUFFICES ASSUME ApprovalTypes, CallsOK, AnswersOK, AllowedByOperator, [ApprovalNext]_appVars
             PROVE  AnswersOK' /\ AllowedByOperator'
  OBVIOUS
<1> DEFINE Reason(r, d) ==
             \E o \in Operators, q \in Requests :
                 \/ q = r /\ DecidedBy(o, q, d)
                 \/ DecidedBy(o, q, "allow-always") /\ Binary[q] = Binary[r] /\ r \notin Asking
           Allowing == {"allow-once", "allow-always"}
<1>1. ASSUME NEW o \in Operators, NEW r \in Requests, NEW d, DecidedBy(o, r, d)
      PROVE  <<o, r>> \in decided' /\ call'[o].id = r /\ call'[o].decision = d
  BY <1>1, DecisionStays DEF DecidedBy
<1>2. \A r \in Requests : channel'[r] # Undecided =>
         \E o \in Operators \ {holder'} : DecidedBy(o, r, channel[r])'
  BY ChannelStep
<1>3. \A b \in alwaysAllow' : \E o \in Operators, q \in Requests :
         DecidedBy(o, q, "allow-always")' /\ Binary[q] = b
  BY ListStep
<1>4. ASSUME NEW r \in Requests, answer'[r] \in Allowing
      PROVE  Reason(r, answer'[r])
  <2>1. CASE answer'[r] = answer[r]
    BY <1>4, <2>1 DEF AllowedByOperator
  <2>2. CASE Binary[r] \in alwaysAllow /\ r \notin Asking
    BY <2>2 DEF AnswersOK
  <2>3. CASE answer'[r] = channel[r] /\ channel[r] # Undecided
    BY <2>3 DEF AnswersOK
  <2> QED BY <1>4, <2>1, <2>2, <2>3, AnswerCases
<1>5. AllowedByOperator'
  <2> SUFFICES ASSUME NEW r \in Requests, answer'[r] \in Allowing
               PROVE  \E o \in Operators, q \in Requests :
                        \/ q = r /\ <<o, q>> \in decided' /\ call'[o].id = q
                           /\ call'[o].decision = answer'[r]
                        \/ /\ <<o, q>> \in decided' /\ call'[o].id = q
                           /\ call'[o].decision = "allow-always"
                           /\ Binary[q] = Binary[r] /\ r \notin Asking
    BY DEF AllowedByOperator, DecidedBy
  <2> DEFINE d == answer'[r]
  <2>1. Reason(r, d)
    BY <1>4
  <2> HIDE DEF d
  <2>2. PICK o \in Operators, q \in Requests :
               \/ q = r /\ DecidedBy(o, q, d)
               \/ DecidedBy(o, q, "allow-always") /\ Binary[q] = Binary[r] /\ r \notin Asking
    BY <2>1
  <2>3. CASE q = r /\ DecidedBy(o, q, d)
    BY <1>1, <2>3 DEF d
  <2>4. CASE DecidedBy(o, q, "allow-always") /\ Binary[q] = Binary[r] /\ r \notin Asking
    BY <1>1, <2>4
  <2> QED BY <2>2, <2>3, <2>4
<1>6. ASSUME NEW r \in Requests
      PROVE  /\ request'[r] \in {"new", "ask", "waiting"} => answer'[r] = Undecided
             /\ request'[r] = "timedout" => answer'[r] = "deny"
             /\ request'[r] = "extend" => answer'[r] = "allow-always"
  BY AnswerCases DEF AnswersOK
<1>7. ASSUME NEW r \in Requests, request'[r] \in {"chosen", "extend"}
      PROVE  \E o \in Operators : DecidedBy(o, r, answer[r])'
  <2> DEFINE d == answer'[r]
  <2>1. \E o \in Operators : DecidedBy(o, r, d)
    <3>1. CASE answer'[r] = answer[r] /\ request[r] \in {"chosen", "extend"}
      BY <3>1 DEF AnswersOK
    <3>2. CASE answer'[r] = channel[r] /\ channel[r] # Undecided
      BY <3>2 DEF AnswersOK
    <3> QED BY <1>7, <3>1, <3>2, AnswerCases
  <2> HIDE DEF d
  <2>2. PICK o \in Operators : DecidedBy(o, r, d)
    BY <2>1
  <2>3. <<o, r>> \in decided' /\ call'[o].id = r /\ call'[o].decision = d
    BY <1>1, <2>2
  <2> QED BY <2>3 DEF d, DecidedBy
<1> QED BY <1>2, <1>3, <1>5, <1>6, <1>7 DEF AnswersOK

LEMMA ApprovalInvariant == ApprovalSpec => []ApprovalInv
<1>1. ApprovalInv /\ [ApprovalNext]_appVars => ApprovalInv'
  BY ApprovalTypesStep, CallsStep, AnswersStep DEF ApprovalInv
<1> QED BY ApprovalInitInv, <1>1, PTL DEF ApprovalSpec

\* No command is let through but by an operator's decision: on itself, or one that allowed
\* its binary for good, and that only where the mode does not ask each time
\* (exec_approval.go).
THEOREM ApprovalAllowedByOperator == ApprovalSpec => []AllowedByOperator
<1>1. ApprovalInv => AllowedByOperator
  BY DEF ApprovalInv
<1> QED BY ApprovalInvariant, <1>1, PTL

\* An answer is final: a decision that comes after the time is up, or after another
\* one, changes nothing for the command (exec_approval.go).
THEOREM ApprovalAnswerIsFinal ==
    ApprovalSpec => [][\A r \in Requests : answer[r] # Undecided => answer'[r] = answer[r]]_appVars
<1>1. ApprovalInv /\ [ApprovalNext]_appVars =>
        [\A r \in Requests : answer[r] # Undecided => answer'[r] = answer[r]]_appVars
  <2> SUFFICES ASSUME ApprovalInv, [ApprovalNext]_appVars, NEW r \in Requests, answer[r] # Undecided
               PROVE  answer'[r] = answer[r]
    OBVIOUS
  <2>1. request[r] \notin {"new", "ask", "waiting"}
    BY DEF ApprovalInv, AnswersOK
  <2> QED BY <2>1, AnswerCases DEF ApprovalInv
<1> QED BY ApprovalInvariant, <1>1, PTL DEF ApprovalSpec

\* Nothing waits with the mutex unless two operators decided one request: the send of
\* a first decision finds its place free (exec_approval.go, Resolve).
THEOREM ApprovalHeldIfDecidedTwice == ApprovalSpec => []HeldIfDecidedTwice
<1>1. ApprovalInv => HeldIfDecidedTwice
  <2> SUFFICES ASSUME ApprovalInv, holder # NoOperator PROVE DecidedTwice
    BY DEF HeldIfDecidedTwice
  <2> DEFINE r == call[holder].id
             both == Deciders(r)
  <2>1. holder \in Operators /\ r \in Requests
    BY DEF ApprovalInv, ApprovalTypes
  <2>2. PICK o \in Operators \ {holder} : <<o, r>> \in decided
    BY DEF ApprovalInv, CallsOK
  <2>3. holder \in both /\ o \in both /\ IsFiniteSet(both) /\ o # holder
    BY <2>1, <2>2 DEF ApprovalInv, CallsOK, Deciders
  <2> HIDE DEF both
  <2>4. Cardinality(both) > 1
    <3>1. {o} \cup {holder} \subseteq both
      BY <2>3
    <3>2. IsFiniteSet({o}) /\ Cardinality({o}) = 1
      BY FS_Singleton
    <3>3. Cardinality({o} \cup {holder}) = 2
      <4>1. holder \notin {o}
        BY <2>3
      <4> QED BY <3>2, <4>1, FS_AddElement
    <3>4. Cardinality({o} \cup {holder}) <= Cardinality(both) /\ Cardinality(both) \in Nat
      BY <2>3, <3>1, FS_Subset, FS_CardinalityType
    <3> QED BY <3>3, <3>4
  <2> QED BY <2>1, <2>4 DEF DecidedTwice, Deciders, both
<1> QED BY ApprovalInvariant, <1>1, PTL
=============================================================================
