-------------------------- MODULE SubagentsProofs --------------------------
(* Theorems about Subagents: the places of the manager match what runs, and  *)
(* every result is on its way to one announcement or was announced once.     *)
EXTENDS Subagents, FiniteSetTheorems, TLAPS

\* Where the result of t is: the queues, the batches and the announcing
\* goroutines that hold it.
Queues(t) == {g \in Groups : t \in ToSet(pending[g])}
Batches(t) == {b \in draining : t \in ToSet(b)}
Announcers(t) == {a \in announcing : t \in ToSet(a.batch)}

Nowhere(t) == Queues(t) = {} /\ Batches(t) = {} /\ Announcers(t) = {}

\* A result that was returned is in one place, or was announced once.
OneWay(t) ==
    IF exec[t] # "returned" THEN announced[t] = 0 /\ Nowhere(t)
    ELSE \/ announced[t] = 1 /\ Nowhere(t)
         \/ /\ announced[t] = 0 /\ Batches(t) = {} /\ Announcers(t) = {}
            /\ \E g \in Groups : Queues(t) = {g}
         \/ /\ announced[t] = 0 /\ Queues(t) = {} /\ Announcers(t) = {}
            /\ \E b \in draining : Batches(t) = {b}
         \/ /\ announced[t] = 0 /\ Queues(t) = {} /\ Batches(t) = {}
            /\ \E a \in announcing : Announcers(t) = {a}

TimerWaits == \A g \in Groups : pending[g] # <<>> => g \in timer \/ fired[g] > 0

\* What the status says of the execution, and how many places are taken.
StatusMatches ==
    /\ \A t \in Running : Executing(t)
    /\ \A t \in Subs \ SyncSubs : Executing(t) /\ t \notin noCtx => t \in Running
    /\ \A t \in Subs : status[t] = "none" => exec[t] = "none"
    /\ IsFiniteSet(Running)
    /\ Cardinality(Running \ SyncSubs) <= MaxConcurrent

SubInv ==
    /\ SubTypeOK
    /\ StatusMatches
    /\ \A t \in Subs \ SyncSubs : OneWay(t)
    /\ TimerWaits
-----------------------------------------------------------------------------
(* Sequences. *)

\* The empty sequence holds nothing.
LEMMA EmptyHolds == ToSet(<<>>) = {}
BY DEF ToSet

\* What is appended is held, and nothing else is new.
LEMMA AppendHolds ==
    ASSUME NEW S, NEW q \in Seq(S), NEW x \in S
    PROVE  ToSet(Append(q, x)) = ToSet(q) \cup {x}
<1>1. /\ Len(q) \in Nat /\ DOMAIN q = 1 .. Len(q)
      /\ DOMAIN Append(q, x) = 1 .. (Len(q) + 1)
      /\ Append(q, x)[Len(q) + 1] = x
      /\ \A i \in 1 .. Len(q) : Append(q, x)[i] = q[i]
  BY SMT
<1>2. DOMAIN Append(q, x) = DOMAIN q \cup {Len(q) + 1}
  BY <1>1
<1> QED BY <1>1, <1>2 DEF ToSet
-----------------------------------------------------------------------------
(* The start. *)

\* Initially nothing runs and nothing is on its way.
LEMMA SubInit_Inv == SubInit => SubInv
<1> SUFFICES ASSUME SubInit PROVE SubInv
  OBVIOUS
<1> USE SubagentsAssumption
<1>1. SubTypeOK
  BY DEF SubInit, SubTypeOK
<1>2. Running = {} /\ Running \ SyncSubs = {}
  BY DEF SubInit, Running
<1>3. StatusMatches
  BY <1>2, FS_EmptySet DEF StatusMatches, SubInit, Executing
<1>4. \A t \in Subs : OneWay(t)
  BY EmptyHolds DEF SubInit, OneWay, Nowhere, Queues, Batches, Announcers
<1>5. TimerWaits
  BY DEF SubInit, TimerWaits
<1> QED BY <1>1, <1>3, <1>4, <1>5 DEF SubInv
-----------------------------------------------------------------------------
(* The manager's steps. *)

\* A step after which no more runs than before keeps the limit.
LEMMA FewerRun ==
    ASSUME IsFiniteSet(Running), Cardinality(Running \ SyncSubs) <= MaxConcurrent,
           Running' \subseteq Running
    PROVE  IsFiniteSet(Running') /\ Cardinality(Running' \ SyncSubs) <= MaxConcurrent
<1> DEFINE A == Running \ SyncSubs
           B == Running' \ SyncSubs
<1>1. IsFiniteSet(A) /\ B \subseteq A
  BY FS_Difference, FS_Subset
<1>2. IsFiniteSet(B) /\ Cardinality(B) <= Cardinality(A)
  BY <1>1, FS_Subset
<1>3. Cardinality(A) \in Nat /\ Cardinality(B) \in Nat
  BY <1>1, <1>2, FS_CardinalityType
<1>4. MaxConcurrent \in Nat
  BY SubagentsAssumption
<1>5. Cardinality(B) <= MaxConcurrent
  <2> HIDE DEF A, B
  <2> QED BY <1>2, <1>3, <1>4 DEF A
<1> QED BY <1>5, FS_Subset

\* One more runs, and if it took a place there was room for it.
LEMMA OneMoreRuns ==
    ASSUME IsFiniteSet(Running), Cardinality(Running \ SyncSubs) <= MaxConcurrent,
           NEW t, Running' = Running \cup {t},
           t \in SyncSubs \/ Cardinality(Running) < MaxConcurrent
    PROVE  IsFiniteSet(Running') /\ Cardinality(Running' \ SyncSubs) <= MaxConcurrent
<1>1. IsFiniteSet(Running')
  BY FS_AddElement
<1>2. CASE t \in SyncSubs
  <2>1. Running' \ SyncSubs = Running \ SyncSubs
    BY <1>2
  <2> QED BY <1>1, <2>1
<1>3. CASE Cardinality(Running) < MaxConcurrent
  <2> DEFINE A == Running
             B == Running'
             C == Running' \ SyncSubs
  <2>1. /\ Cardinality(B) \in Nat /\ Cardinality(A) \in Nat
        /\ Cardinality(B) <= Cardinality(A) + 1
    <3>1. Cardinality(Running) \in Nat
      BY FS_CardinalityType
    <3>2. Cardinality(Running') = Cardinality(Running) \/ Cardinality(Running') = Cardinality(Running) + 1
      BY FS_AddElement
    <3> QED BY <3>1, <3>2
  <2>2. Cardinality(C) <= Cardinality(B) /\ Cardinality(C) \in Nat
    <3>1. C \subseteq B
      OBVIOUS
    <3> QED BY <3>1, <1>1, FS_Subset, FS_CardinalityType
  <2>3. MaxConcurrent \in Nat
    BY SubagentsAssumption
  <2>4. Cardinality(C) <= MaxConcurrent
    <3> HIDE DEF A, B, C
    <3> QED BY <2>1, <2>2, <2>3, <1>3 DEF A
  <2> QED BY <1>1, <2>4
<1> QED BY <1>2, <1>3

\* Results stay where they are while nothing moves them and none is returned.
LEMMA ResultsStay ==
    ASSUME SubInv, UNCHANGED <<pending, draining, announcing, announced>>,
           \A t \in Subs : exec'[t] = "returned" <=> exec[t] = "returned"
    PROVE  \A t \in Subs \ SyncSubs : OneWay(t)'
<1> TAKE t \in Subs \ SyncSubs
<1>1. OneWay(t) /\ (exec'[t] = "returned" <=> exec[t] = "returned")
  BY DEF SubInv
<1>2. Queues(t)' = Queues(t) /\ Batches(t)' = Batches(t) /\ Announcers(t)' = Announcers(t)
  BY DEF Queues, Batches, Announcers
<1> QED BY <1>1, <1>2 DEF OneWay, Nowhere

\* A subagent begins: through Spawn, RunSync or the second half of Steer.
LEMMA Start_Inv ==
    ASSUME SubInv, NEW t \in Subs, Spawn(t) \/ RunSync(t) \/ Respawn(t)
    PROVE  SubInv'
<1> USE SubagentsAssumption
<1>0. /\ SubTypeOK /\ StatusMatches /\ TimerWaits
      /\ Started(t) /\ UNCHANGED <<noCtx, commands, queueVars, wayVars>>
      /\ t \in SyncSubs \/ Cardinality(Running) < MaxConcurrent
  BY DEF SubInv, Spawn, RunSync, Respawn, MaySpawn
<1>1. /\ status[t] = "none" /\ exec[t] = "none"
      /\ status' = [status EXCEPT ![t] = "running"]
      /\ exec' = [exec EXCEPT ![t] = "working"]
  BY <1>0 DEF Started, StatusMatches
<1>2. SubTypeOK'
  <2>1. steering' \in [Groups -> Nat]
    <3>1. steering \in [Groups -> Nat] /\ GroupOf[t] \in Groups
      BY <1>0 DEF SubTypeOK
    <3> QED BY <3>1 DEF Spawn, RunSync, Respawn
  <2> QED BY <1>0, <1>1, <2>1 DEF SubTypeOK, queueVars, wayVars
<1>3. Running' = Running \cup {t}
  BY <1>0, <1>1 DEF Running, SubTypeOK
<1>4. StatusMatches'
  <2>1. IsFiniteSet(Running') /\ Cardinality(Running' \ SyncSubs) <= MaxConcurrent
    BY <1>0, <1>3, OneMoreRuns DEF StatusMatches
  <2>2. \A x \in Subs : Executing(x)' <=> (Executing(x) \/ x = t)
    BY <1>0, <1>1 DEF Executing, SubTypeOK
  <2>3. \A x \in Subs : status'[x] = "none" => exec'[x] = "none"
    BY <1>0, <1>1 DEF StatusMatches, SubTypeOK
  <2>4. Running \subseteq Subs
    BY DEF Running
  <2> QED BY <1>0, <1>3, <2>1, <2>2, <2>3, <2>4 DEF StatusMatches
<1>5. \A x \in Subs \ SyncSubs : OneWay(x)'
  <2>1. \A x \in Subs : exec'[x] = "returned" <=> exec[x] = "returned"
    BY <1>0, <1>1 DEF SubTypeOK
  <2> QED BY <1>0, <2>1, ResultsStay DEF queueVars, wayVars
<1>6. TimerWaits'
  BY <1>0 DEF TimerWaits, queueVars
<1> QED BY <1>2, <1>4, <1>5, <1>6 DEF SubInv

\* The loop of executeTask, its end and the archive.
LEMMA Execute_Inv ==
    ASSUME SubInv, NEW t \in Subs,
           \/ SeesCancel(t) \/ CallModel(t) \/ RunTools(t)
           \/ ModelFails(t) \/ ModelAnswers(t) \/ ArchiveSub(t)
    PROVE  SubInv'
<1> USE SubagentsAssumption
<1> DEFINE Ends == {"completed", "failed", "cancelled"}
<1>0. /\ SubTypeOK /\ StatusMatches /\ TimerWaits
      /\ UNCHANGED <<noCtx, steering, commands, queueVars, wayVars>>
  BY DEF SubInv, SeesCancel, CallModel, RunTools, ModelFails, ModelAnswers, ArchiveSub, Settle
<1>1. \/ /\ exec[t] \in {"working", "calling"} /\ status' = status
         /\ \E e \in {"working", "calling"} : exec' = [exec EXCEPT ![t] = e]
      \/ /\ exec[t] \in {"working", "calling"} /\ exec' = [exec EXCEPT ![t] = "ended"]
         /\ \E e \in Ends : status' = [status EXCEPT ![t] = e]
      \/ /\ exec[t] \in {"ended", "returned"} /\ status[t] # "none" /\ exec' = exec
         /\ status' = [status EXCEPT ![t] = "archived"]
  BY <1>0 DEF SeesCancel, CallModel, RunTools, ModelFails, ModelAnswers, ArchiveSub, Settle, Listed
<1>2. SubTypeOK'
  <2>1. status' \in [Subs -> {"none", "running", "completed", "failed", "cancelled", "archived"}]
    BY <1>0, <1>1 DEF SubTypeOK
  <2>2. exec' \in [Subs -> {"none", "working", "calling", "ended", "returned"}]
    BY <1>0, <1>1 DEF SubTypeOK
  <2> QED BY <1>0, <2>1, <2>2 DEF SubTypeOK, queueVars, wayVars
<1>3. Running' \subseteq Running /\ (exec'[t] \notin {"working", "calling"} => t \notin Running')
  BY <1>0, <1>1 DEF Running, SubTypeOK, StatusMatches, Executing
<1>4. StatusMatches'
  <2>1. IsFiniteSet(Running') /\ Cardinality(Running' \ SyncSubs) <= MaxConcurrent
    BY <1>0, <1>3, FewerRun DEF StatusMatches
  <2>2. \A x \in Running' : Executing(x)'
    BY <1>0, <1>1, <1>3 DEF Executing, SubTypeOK, StatusMatches, Running
  <2>3. \A x \in Subs \ SyncSubs : Executing(x)' /\ x \notin noCtx' => x \in Running'
    BY <1>0, <1>1 DEF Executing, SubTypeOK, StatusMatches, Running
  <2>4. \A x \in Subs : status'[x] = "none" => exec'[x] = "none"
    BY <1>0, <1>1 DEF StatusMatches, SubTypeOK
  <2> QED BY <2>1, <2>2, <2>3, <2>4 DEF StatusMatches
<1>5. \A x \in Subs \ SyncSubs : OneWay(x)'
  <2>1. \A x \in Subs : exec'[x] = "returned" <=> exec[x] = "returned"
    BY <1>0, <1>1 DEF SubTypeOK
  <2> QED BY <1>0, <2>1, ResultsStay DEF queueVars, wayVars
<1>6. TimerWaits'
  BY <1>0 DEF TimerWaits, queueVars
<1> QED BY <1>2, <1>4, <1>5, <1>6 DEF SubInv

\* Cancel, cancel all, steer, the stop of a caller, a refused replacement.
LEMMA Command_Inv ==
    ASSUME SubInv,
           \/ \E T \in SUBSET Subs : CancelSub(T)
           \/ \E t \in Subs : Steer(t) \/ StopCaller(t)
           \/ \E g \in Groups : RespawnFails(g)
    PROVE  SubInv'
<1> USE SubagentsAssumption
<1>0. /\ SubTypeOK /\ StatusMatches /\ TimerWaits
      /\ UNCHANGED <<exec, queueVars, wayVars>>
  BY DEF SubInv, CancelSub, Steer, StopCaller, RespawnFails
<1>1. PICK T \in SUBSET Subs :
        /\ T = {} \/ T \subseteq Running
        /\ status' = [t \in Subs |-> IF t \in T THEN "cancelled" ELSE status[t]]
        /\ \/ noCtx' = noCtx \cup (T \ SyncSubs)
           \/ T = {} /\ \E t \in SyncSubs : noCtx' = noCtx \cup {t}
  <2>1. ASSUME NEW T \in SUBSET Subs, CancelSub(T)
        PROVE  /\ T \subseteq Running
               /\ status' = [t \in Subs |-> IF t \in T THEN "cancelled" ELSE status[t]]
               /\ noCtx' = noCtx \cup (T \ SyncSubs)
    BY <2>1 DEF CancelSub, CancelLocked
  <2>2. ASSUME NEW t \in Subs, Steer(t)
        PROVE  /\ {t} \subseteq Running
               /\ status' = [x \in Subs |-> IF x \in {t} THEN "cancelled" ELSE status[x]]
               /\ noCtx' = noCtx \cup ({t} \ SyncSubs)
    BY <2>2 DEF Steer, CancelLocked
  <2>3. status = [t \in Subs |-> IF t \in {} THEN "cancelled" ELSE status[t]]
    BY <1>0 DEF SubTypeOK
  <2>4. ASSUME NEW t \in Subs, StopCaller(t)
        PROVE  status' = status /\ t \in SyncSubs /\ noCtx' = noCtx \cup {t}
    BY <2>4 DEF StopCaller
  <2>5. ASSUME NEW g \in Groups, RespawnFails(g)
        PROVE  status' = status /\ noCtx' = noCtx \cup ({} \ SyncSubs)
    BY <2>5 DEF RespawnFails
  <2>6. CASE \E T \in SUBSET Subs : CancelSub(T)
    BY <2>6, <2>1
  <2>7. CASE \E t \in Subs : Steer(t)
    <3>1. PICK t \in Subs : Steer(t)
      BY <2>7
    <3>2. {t} \in SUBSET Subs
      OBVIOUS
    <3> QED BY <2>2, <3>1, <3>2
  <2>8. CASE \E t \in Subs : StopCaller(t)
    BY <2>8, <2>4, <2>3
  <2>9. CASE \E g \in Groups : RespawnFails(g)
    BY <2>9, <2>5, <2>3
  <2> QED BY <2>6, <2>7, <2>8, <2>9
<1>2. SubTypeOK'
  <2>1. steering' \in [Groups -> Nat]
    <3>1. steering \in [Groups -> Nat] /\ \A t \in Subs : GroupOf[t] \in Groups
      BY <1>0 DEF SubTypeOK
    <3>2. \/ steering' = steering
          \/ \E t \in Subs : steering' = [steering EXCEPT ![GroupOf[t]] = @ + 1]
          \/ \E g \in Groups : steering[g] > 0 /\ steering' = [steering EXCEPT ![g] = @ - 1]
      BY DEF CancelSub, Steer, StopCaller, RespawnFails
    <3> QED BY <3>1, <3>2
  <2>2. commands' \in 0 .. MaxCommands
    <3>1. commands \in 0 .. MaxCommands /\ MaxCommands \in Nat
      BY <1>0 DEF SubTypeOK
    <3>2. \/ commands' = commands
          \/ commands < MaxCommands /\ commands' = commands + 1
      BY <1>0 DEF CancelSub, Steer, StopCaller, RespawnFails, Command
    <3> QED BY <3>1, <3>2
  <2>3. status' \in [Subs -> {"none", "running", "completed", "failed", "cancelled", "archived"}]
    BY <1>0, <1>1 DEF SubTypeOK
  <2>4. noCtx' \subseteq Subs
    BY <1>0, <1>1 DEF SubTypeOK
  <2> QED BY <1>0, <2>1, <2>2, <2>3, <2>4 DEF SubTypeOK, queueVars, wayVars
<1>3. Running' = Running \ T
  BY <1>0, <1>1 DEF Running, SubTypeOK
<1>4. StatusMatches'
  <2>1. IsFiniteSet(Running') /\ Cardinality(Running' \ SyncSubs) <= MaxConcurrent
    BY <1>0, <1>3, FewerRun DEF StatusMatches
  <2>2. \A x \in Running' : Executing(x)'
    BY <1>0, <1>3 DEF Executing, StatusMatches
  <2>3. \A x \in Subs \ SyncSubs : Executing(x)' /\ x \notin noCtx' => x \in Running'
    BY <1>0, <1>1, <1>3 DEF Executing, StatusMatches
  <2>4. \A x \in Subs : status'[x] = "none" => exec'[x] = "none"
    BY <1>0, <1>1 DEF StatusMatches, SubTypeOK
  <2> QED BY <2>1, <2>2, <2>3, <2>4 DEF StatusMatches
<1>5. \A x \in Subs \ SyncSubs : OneWay(x)'
  BY <1>0, ResultsStay DEF queueVars, wayVars
<1>6. TimerWaits'
  BY <1>0 DEF TimerWaits, queueVars
<1> QED BY <1>2, <1>4, <1>5, <1>6 DEF SubInv
-----------------------------------------------------------------------------
(* The way of the results. *)

\* What is taken from a queue is in the new batch.
LEMMA TakeMoves ==
    ASSUME NEW g \in Groups, NEW items, pending \in [Groups -> Seq(Subs)],
           TakeQueue(g, items), NEW t
    PROVE  /\ Queues(t)' = Queues(t) \ {g}
           /\ t \in ToSet(items) => Batches(t)' = Batches(t) \cup {items}
           /\ t \notin ToSet(items) => Batches(t)' = Batches(t)
<1>1. pending' = [pending EXCEPT ![g] = <<>>] /\ draining' = draining \cup {items}
  BY DEF TakeQueue
<1>2. Queues(t)' = Queues(t) \ {g}
  BY <1>1, EmptyHolds DEF Queues
<1> QED BY <1>1, <1>2 DEF Batches

\* A queue that is taken leaves the rest well typed, if its timer is stopped.
LEMMA TakeTypes ==
    ASSUME SubTypeOK, NEW g \in Groups, NEW items \in Seq(Subs),
           TakeQueue(g, items), timer' = timer \ {g}
    PROVE  /\ pending' \in [Groups -> Seq(Subs)]
           /\ \A h \in Groups : Len(pending'[h]) < QueueCap
           /\ \A h \in timer' : h \in Groups /\ pending'[h] # <<>>
           /\ draining' \subseteq Seq(Subs)
<1>1. pending' = [pending EXCEPT ![g] = <<>>] /\ draining' = draining \cup {items}
  BY DEF TakeQueue
<1>2. <<>> \in Seq(Subs) /\ Len(<<>>) = 0 /\ 0 < QueueCap
  BY SubagentsAssumption
<1> QED BY <1>1, <1>2 DEF SubTypeOK

\* What no step of the announce queue or of the announcing runs disturbs.
LEMMA StatusStays ==
    ASSUME StatusMatches, SubTypeOK, UNCHANGED <<status, noCtx>>,
           \A t \in Subs : /\ Executing(t)' <=> Executing(t)
                           /\ exec[t] = "none" => exec'[t] = "none"
    PROVE  StatusMatches'
<1>1. Running' = Running /\ Running \subseteq Subs
  BY DEF Running
<1> QED BY <1>1 DEF StatusMatches, SubTypeOK

\* A subagent in the background ends: its result joins the queue of its group,
\* and at the cap the whole queue leaves.
LEMMA ReturnSub_Inv ==
    ASSUME SubInv, NEW t \in Subs, ReturnSub(t)
    PROVE  SubInv'
<1> USE SubagentsAssumption
<1> DEFINE g == GroupOf[t]
           items == Append(pending[g], t)
<1>0. /\ SubTypeOK /\ StatusMatches /\ TimerWaits
      /\ exec[t] = "ended" /\ exec' = [exec EXCEPT ![t] = "returned"]
      /\ UNCHANGED <<status, noCtx, steering, commands, loose, fired, announcing, announced>>
  BY DEF SubInv, ReturnSub
<1>1. StatusMatches'
  <2>1. \A x \in Subs : /\ Executing(x)' <=> Executing(x)
                        /\ exec[x] = "none" => exec'[x] = "none"
    BY <1>0 DEF Executing, SubTypeOK
  <2> QED BY <1>0, <2>1, StatusStays
<1>2. CASE t \in SyncSubs
  <2>1. UNCHANGED <<pending, timer, draining>>
    BY <1>2 DEF ReturnSub
  <2>2. SubTypeOK' /\ TimerWaits'
    BY <1>0, <2>1 DEF SubTypeOK, TimerWaits
  <2>3. \A x \in Subs \ SyncSubs : OneWay(x)'
    <3> TAKE x \in Subs \ SyncSubs
    <3>1. OneWay(x) /\ exec'[x] = exec[x]
      BY <1>0, <1>2 DEF SubInv, SubTypeOK
    <3>2. Queues(x)' = Queues(x) /\ Batches(x)' = Batches(x) /\ Announcers(x)' = Announcers(x)
      BY <1>0, <2>1 DEF Queues, Batches, Announcers
    <3> QED BY <1>0, <2>1, <3>1, <3>2 DEF OneWay, Nowhere
  <2> QED BY <1>1, <2>2, <2>3 DEF SubInv
<1>3. CASE t \notin SyncSubs
  <2>0. g \in Groups /\ pending[g] \in Seq(Subs) /\ items \in Seq(Subs) /\ items # <<>>
    <3>1. g \in Groups
      OBVIOUS
    <3>2. pending[g] \in Seq(Subs)
      BY <1>0, <3>1 DEF SubTypeOK
    <3> QED BY <3>1, <3>2
  <2>1. Enqueue(g, items)
    BY <1>3 DEF ReturnSub
  <2>2. ToSet(items) = ToSet(pending[g]) \cup {t}
    BY <2>0, AppendHolds
  <2>3. OneWay(t) /\ announced[t] = 0 /\ Nowhere(t)
    BY <1>0, <1>3 DEF SubInv, OneWay
  <2>4. \A x \in Subs \ SyncSubs : Announcers(x)' = Announcers(x)
    BY <1>0 DEF Announcers
  <2>5. CASE Len(items) >= QueueCap
    <3>1. TakeQueue(g, items) /\ timer' = timer \ {g}
      BY <2>1, <2>5 DEF Enqueue
    <3>2. SubTypeOK' /\ TimerWaits'
      <4>1. exec' \in [Subs -> {"none", "working", "calling", "ended", "returned"}]
        BY <1>0 DEF SubTypeOK
      <4> HIDE DEF items, g
      <4>2. TimerWaits'
        BY <1>0, <2>0, <3>1 DEF SubTypeOK, TimerWaits, TakeQueue
      <4> QED BY <1>0, <2>0, <3>1, <4>1, <4>2, TakeTypes DEF SubTypeOK
    <3>3. \A x \in Subs \ SyncSubs : OneWay(x)'
      <4> TAKE x \in Subs \ SyncSubs
      <4>1. /\ Queues(x)' = Queues(x) \ {g}
            /\ x \in ToSet(items) => Batches(x)' = Batches(x) \cup {items}
            /\ x \notin ToSet(items) => Batches(x)' = Batches(x)
        <5> HIDE DEF items, g
        <5> QED BY <1>0, <2>0, <3>1, TakeMoves DEF SubTypeOK
      <4>2. OneWay(x)
        BY DEF SubInv
      <4>3. items \in draining'
        BY <3>1 DEF TakeQueue
      <4>4. CASE x = t
        <5>1. exec'[x] = "returned"
          BY <1>0, <4>4 DEF SubTypeOK
        <5>2. Batches(x)' = {items} /\ Queues(x)' = {} /\ Announcers(x)' = {} /\ announced'[x] = 0
          BY <1>0, <2>2, <2>3, <2>4, <4>1, <4>4 DEF Nowhere
        <5> QED BY <4>3, <5>1, <5>2 DEF OneWay
      <4>5. CASE x # t /\ x \in ToSet(pending[g])
        <5>1. g \in Queues(x) /\ exec'[x] = exec[x]
          BY <1>0, <2>0, <4>5 DEF Queues, SubTypeOK
        <5>2. /\ exec[x] = "returned" /\ announced[x] = 0 /\ Batches(x) = {}
              /\ Announcers(x) = {} /\ Queues(x) = {g}
          BY <4>2, <5>1 DEF OneWay, Nowhere
        <5>3. Batches(x)' = {items} /\ Queues(x)' = {} /\ Announcers(x)' = {} /\ announced'[x] = 0
          BY <1>0, <2>2, <2>4, <4>1, <4>5, <5>2
        <5> QED BY <4>3, <5>1, <5>2, <5>3 DEF OneWay
      <4>6. CASE x # t /\ x \notin ToSet(pending[g])
        <5>1. g \notin Queues(x) /\ exec'[x] = exec[x]
          BY <1>0, <4>6 DEF Queues, SubTypeOK
        <5>2. Batches(x)' = Batches(x) /\ Queues(x)' = Queues(x) /\ Announcers(x)' = Announcers(x)
          BY <2>2, <2>4, <4>1, <4>6, <5>1
        <5>3. draining \subseteq draining' /\ announcing' = announcing
          BY <1>0, <3>1 DEF TakeQueue
        <5> QED BY <1>0, <4>2, <5>1, <5>2, <5>3 DEF OneWay, Nowhere
      <4> QED BY <4>4, <4>5, <4>6
    <3> QED BY <1>1, <3>2, <3>3 DEF SubInv
  <2>6. CASE ~(Len(items) >= QueueCap)
    <3>1. /\ pending' = [pending EXCEPT ![g] = items]
          /\ timer' = timer \cup {g} /\ UNCHANGED draining
      BY <2>1, <2>6 DEF Enqueue
    <3>2. SubTypeOK'
      <4>1. Len(items) \in Nat /\ Len(items) < QueueCap
        BY <2>0, <2>6
      <4>2. exec' \in [Subs -> {"none", "working", "calling", "ended", "returned"}]
        BY <1>0 DEF SubTypeOK
      <4> HIDE DEF items, g
      <4>3. pending' \in [Groups -> Seq(Subs)]
        BY <1>0, <2>0, <3>1 DEF SubTypeOK
      <4>4. \A h \in Groups : Len(pending'[h]) < QueueCap
        BY <1>0, <2>0, <3>1, <4>1 DEF SubTypeOK
      <4>5. \A h \in timer' : h \in Groups /\ pending'[h] # <<>>
        <5>1. pending \in [Groups -> Seq(Subs)] /\ g \in Groups /\ items # <<>>
          BY <1>0, <2>0 DEF SubTypeOK
        <5>2. \A h \in timer : h \in Groups /\ pending[h] # <<>>
          BY <1>0 DEF SubTypeOK
        <5>3. \A h \in Groups : pending'[h] = IF h = g THEN items ELSE pending[h]
          BY <3>1, <5>1
        <5> QED BY <3>1, <5>1, <5>2, <5>3
      <4> QED BY <1>0, <3>1, <4>2, <4>3, <4>4, <4>5 DEF SubTypeOK
    <3>3. TimerWaits'
      BY <1>0, <2>0, <3>1 DEF SubTypeOK, TimerWaits
    <3>4. \A x \in Subs \ SyncSubs : OneWay(x)'
      <4> TAKE x \in Subs \ SyncSubs
      <4>1. OneWay(x) /\ Batches(x)' = Batches(x) /\ Announcers(x)' = Announcers(x)
        BY <2>4, <3>1 DEF SubInv, Batches
      <4>2. CASE x = t
        <5>1. exec'[x] = "returned"
          BY <1>0, <4>2 DEF SubTypeOK
        <5>2. Queues(x)' = {g}
          BY <1>0, <2>0, <2>2, <2>3, <3>1, <4>2 DEF Queues, SubTypeOK, Nowhere
        <5>3. Batches(x)' = {} /\ Announcers(x)' = {} /\ announced'[x] = 0
          BY <1>0, <2>3, <4>1, <4>2 DEF Nowhere
        <5> QED BY <2>0, <5>1, <5>2, <5>3 DEF OneWay
      <4>3. CASE x # t
        <5>1. Queues(x)' = Queues(x) /\ exec'[x] = exec[x]
          BY <1>0, <2>0, <2>2, <3>1, <4>3 DEF Queues, SubTypeOK
        <5> QED BY <1>0, <3>1, <4>1, <5>1 DEF OneWay, Nowhere
      <4> QED BY <4>2, <4>3
    <3> QED BY <1>1, <3>2, <3>3, <3>4 DEF SubInv
  <2> QED BY <2>5, <2>6
<1> QED BY <1>2, <1>3

\* A timer fires and later takes what the queue of its group holds by then.
LEMMA Timer_Inv ==
    ASSUME SubInv, NEW g \in Groups, QueueTimerFires(g) \/ QueueTimerDrains(g)
    PROVE  SubInv'
<1> USE SubagentsAssumption
<1>0. /\ SubTypeOK /\ StatusMatches /\ TimerWaits
      /\ UNCHANGED <<taskVars, announcing, announced>>
  BY DEF SubInv, QueueTimerFires, QueueTimerDrains, wayVars
<1>1. StatusMatches'
  BY <1>0, StatusStays DEF taskVars, Executing
<1>2. CASE QueueTimerFires(g)
  <2>0. /\ \/ timer' = timer \ {g} /\ loose' = loose
           \/ timer' = timer /\ loose[g] > 0 /\ loose' = [loose EXCEPT ![g] = @ - 1]
        /\ fired' = [fired EXCEPT ![g] = @ + 1]
        /\ UNCHANGED <<pending, draining>>
    BY <1>2 DEF QueueTimerFires, wayVars
  <2>1. SubTypeOK' /\ TimerWaits'
    <3>1. fired \in [Groups -> Nat] /\ loose \in [Groups -> Nat]
      BY <1>0 DEF SubTypeOK
    <3>2. fired' \in [Groups -> Nat] /\ loose' \in [Groups -> Nat]
      BY <2>0, <3>1
    <3>3. TimerWaits'
      BY <1>0, <2>0, <3>1 DEF TimerWaits
    <3> QED BY <1>0, <2>0, <3>2, <3>3 DEF SubTypeOK, taskVars
  <2>2. \A x \in Subs \ SyncSubs : OneWay(x)'
    BY <1>2, ResultsStay DEF QueueTimerFires, taskVars, wayVars
  <2> QED BY <1>1, <2>1, <2>2 DEF SubInv
<1>3. CASE QueueTimerDrains(g)
  <2>0. Cardinality(timer \cap {g}) \in Nat
    <3>1. IsFiniteSet(timer \cap {g})
      BY FS_Singleton, FS_Subset
    <3> QED BY <3>1, FS_CardinalityType
  <2>1. /\ fired[g] > 0 /\ fired' = [fired EXCEPT ![g] = @ - 1]
        /\ timer' = timer \ {g}
        /\ loose' = [loose EXCEPT ![g] = @ + Cardinality(timer \cap {g})]
    BY <1>3 DEF QueueTimerDrains
  <2>t. /\ fired \in [Groups -> Nat] /\ loose \in [Groups -> Nat]
        /\ fired' \in [Groups -> Nat] /\ loose' \in [Groups -> Nat]
        /\ \A h \in Groups \ {g} : fired'[h] = fired[h]
    <3>1. fired \in [Groups -> Nat] /\ loose \in [Groups -> Nat]
      BY <1>0 DEF SubTypeOK
    <3>2. PICK n \in Nat : n = Cardinality(timer \cap {g})
      BY <2>0
    <3> QED BY <2>1, <3>1, <3>2
  <2>2. CASE pending[g] = <<>>
    <3>1. UNCHANGED <<pending, draining>>
      BY <1>3, <2>2 DEF QueueTimerDrains
    <3>2. SubTypeOK' /\ TimerWaits'
      BY <1>0, <2>t, <2>1, <2>2, <3>1 DEF SubTypeOK, TimerWaits, taskVars
    <3>3. \A x \in Subs \ SyncSubs : OneWay(x)'
      BY <1>0, <3>1, ResultsStay DEF taskVars
    <3> QED BY <1>1, <3>2, <3>3 DEF SubInv
  <2>3. CASE pending[g] # <<>>
    <3>1. TakeQueue(g, pending[g]) /\ pending[g] \in Seq(Subs)
      BY <1>0, <1>3, <2>3 DEF QueueTimerDrains, SubTypeOK
    <3>2. SubTypeOK' /\ TimerWaits'
      <4>1. TimerWaits'
        BY <1>0, <2>t, <2>1, <3>1 DEF SubTypeOK, TimerWaits, TakeQueue
      <4>2. /\ pending' \in [Groups -> Seq(Subs)]
            /\ \A h \in Groups : Len(pending'[h]) < QueueCap
            /\ \A h \in timer' : h \in Groups /\ pending'[h] # <<>>
            /\ draining' \subseteq Seq(Subs)
        BY <1>0, <2>1, <3>1, TakeTypes
      <4> QED BY <1>0, <2>t, <4>1, <4>2 DEF SubTypeOK, taskVars
    <3>3. \A x \in Subs \ SyncSubs : OneWay(x)'
      <4> TAKE x \in Subs \ SyncSubs
      <4>1. /\ Queues(x)' = Queues(x) \ {g}
            /\ x \in ToSet(pending[g]) => Batches(x)' = Batches(x) \cup {pending[g]}
            /\ x \notin ToSet(pending[g]) => Batches(x)' = Batches(x)
        <5>1. pending \in [Groups -> Seq(Subs)]
          BY <1>0 DEF SubTypeOK
        <5> QED BY <5>1, <3>1, TakeMoves
      <4>2. OneWay(x) /\ exec' = exec /\ announced' = announced /\ Announcers(x)' = Announcers(x)
        BY <1>0 DEF SubInv, taskVars, Announcers
      <4>3. draining' = draining \cup {pending[g]}
        BY <3>1 DEF TakeQueue
      <4>4. CASE x \in ToSet(pending[g])
        <5>1. g \in Queues(x)
          BY <4>4 DEF Queues
        <5>2. /\ exec[x] = "returned" /\ announced[x] = 0 /\ Batches(x) = {}
              /\ Announcers(x) = {} /\ Queues(x) = {g}
          BY <4>2, <5>1 DEF OneWay, Nowhere
        <5>3. Batches(x)' = {pending[g]} /\ Queues(x)' = {}
          BY <4>1, <4>4, <5>2
        <5>4. pending[g] \in draining'
          BY <4>3
        <5> QED BY <4>2, <5>2, <5>3, <5>4 DEF OneWay
      <4>5. CASE x \notin ToSet(pending[g])
        <5>1. Queues(x)' = Queues(x) /\ Batches(x)' = Batches(x)
          BY <4>1, <4>5 DEF Queues
        <5> QED BY <1>0, <4>2, <4>3, <5>1 DEF OneWay, Nowhere
      <4> QED BY <4>4, <4>5
    <3> QED BY <1>1, <3>2, <3>3 DEF SubInv
  <2> QED BY <2>2, <2>3
<1> QED BY <1>2, <1>3

\* A batch goes to a goroutine, which locks the session's mutex and runs.
LEMMA Announce_Inv ==
    ASSUME SubInv,
           \/ \E b \in draining : PublishBatch(b)
           \/ \E a \in announcing : LockAnnounce(a) \/ EndAnnounce(a)
    PROVE  SubInv'
<1>0. /\ SubTypeOK /\ StatusMatches /\ TimerWaits
      /\ UNCHANGED <<taskVars, queueVars>>
  BY DEF SubInv, PublishBatch, LockAnnounce, EndAnnounce
<1>1. StatusMatches' /\ TimerWaits'
  BY <1>0, StatusStays DEF taskVars, Executing, TimerWaits, queueVars
<1>2. ASSUME NEW x \in Subs \ SyncSubs
      PROVE  OneWay(x) /\ exec' = exec /\ Queues(x)' = Queues(x)
  BY <1>0 DEF SubInv, taskVars, queueVars, Queues
<1>3. ASSUME NEW b \in draining, PublishBatch(b)
      PROVE  SubInv'
  <2> DEFINE a == [batch |-> b, locked |-> FALSE]
  <2>1. /\ draining' = draining \ {b} /\ announcing' = announcing \cup {a}
        /\ announced' = announced
    BY <1>3 DEF PublishBatch
  <2>2. SubTypeOK'
    <3>1. a \in [batch : Seq(Subs), locked : BOOLEAN]
      BY <1>0 DEF SubTypeOK
    <3> HIDE DEF a
    <3> QED BY <1>0, <2>1, <3>1 DEF SubTypeOK, taskVars, queueVars
  <2>3. \A x \in Subs \ SyncSubs : OneWay(x)'
    <3> TAKE x \in Subs \ SyncSubs
    <3>0. OneWay(x) /\ exec' = exec /\ Queues(x)' = Queues(x)
      BY <1>2
    <3>1. CASE x \in ToSet(b)
      <4>1. b \in Batches(x)
        BY <3>1 DEF Batches
      <4>2. /\ exec[x] = "returned" /\ announced[x] = 0 /\ Batches(x) = {b}
            /\ Announcers(x) = {} /\ Queues(x) = {}
        BY <3>0, <4>1 DEF OneWay, Nowhere
      <4>3. Batches(x)' = {}
        BY <2>1, <4>2 DEF Batches
      <4>4. Announcers(x)' = {a} /\ a \in announcing'
        BY <2>1, <3>1, <4>2 DEF Announcers
      <4> HIDE DEF a
      <4> QED BY <2>1, <3>0, <4>2, <4>3, <4>4 DEF OneWay
    <3>2. CASE x \notin ToSet(b)
      <4>1. Batches(x)' = Batches(x) /\ Announcers(x)' = Announcers(x)
        BY <2>1, <3>2 DEF Batches, Announcers
      <4>2. b \notin Batches(x)
        BY <3>2 DEF Batches
      <4> HIDE DEF a
      <4> QED BY <2>1, <3>0, <4>1, <4>2 DEF OneWay, Nowhere
    <3> QED BY <3>1, <3>2
  <2> QED BY <1>1, <2>2, <2>3 DEF SubInv
<1>4. ASSUME NEW a \in announcing, LockAnnounce(a)
      PROVE  SubInv'
  <2> DEFINE o == [a EXCEPT !.locked = TRUE]
  <2>0. a \in [batch : Seq(Subs), locked : BOOLEAN]
    BY <1>0 DEF SubTypeOK
  <2>1. /\ draining' = draining /\ announcing' = (announcing \ {a}) \cup {o}
        /\ announced' = announced /\ ~a.locked
        /\ o.batch = a.batch /\ o \in [batch : Seq(Subs), locked : BOOLEAN]
    BY <1>4, <2>0 DEF LockAnnounce
  <2> HIDE DEF o
  <2>2. SubTypeOK'
    BY <1>0, <2>1 DEF SubTypeOK, taskVars, queueVars
  <2>3. \A x \in Subs \ SyncSubs : OneWay(x)'
    <3> TAKE x \in Subs \ SyncSubs
    <3>0. OneWay(x) /\ exec' = exec /\ Queues(x)' = Queues(x) /\ Batches(x)' = Batches(x)
      BY <1>2, <2>1 DEF Batches
    <3>1. CASE x \in ToSet(a.batch)
      <4>1. a \in Announcers(x)
        BY <3>1 DEF Announcers
      <4>2. /\ exec[x] = "returned" /\ announced[x] = 0 /\ Batches(x) = {}
            /\ Announcers(x) = {a} /\ Queues(x) = {}
        BY <3>0, <4>1 DEF OneWay, Nowhere
      <4>3. Announcers(x)' = {o} /\ o \in announcing'
        BY <2>1, <3>1, <4>2 DEF Announcers
      <4> QED BY <2>1, <3>0, <4>2, <4>3 DEF OneWay
    <3>2. CASE x \notin ToSet(a.batch)
      <4>1. Announcers(x)' = Announcers(x) /\ a \notin Announcers(x)
        BY <2>1, <3>2 DEF Announcers
      <4> QED BY <2>1, <3>0, <4>1 DEF OneWay, Nowhere
    <3> QED BY <3>1, <3>2
  <2> QED BY <1>1, <2>2, <2>3 DEF SubInv
<1>5. ASSUME NEW a \in announcing, EndAnnounce(a)
      PROVE  SubInv'
  <2>1. /\ draining' = draining /\ announcing' = announcing \ {a}
        /\ announced' = [t \in Subs |-> IF t \in ToSet(a.batch) THEN announced[t] + 1
                                        ELSE announced[t]]
    BY <1>5 DEF EndAnnounce
  <2>2. SubTypeOK'
    BY <1>0, <2>1 DEF SubTypeOK, taskVars, queueVars
  <2>3. \A x \in Subs \ SyncSubs : OneWay(x)'
    <3> TAKE x \in Subs \ SyncSubs
    <3>0. OneWay(x) /\ exec' = exec /\ Queues(x)' = Queues(x) /\ Batches(x)' = Batches(x)
      BY <1>2, <2>1 DEF Batches
    <3>1. CASE x \in ToSet(a.batch)
      <4>1. a \in Announcers(x)
        BY <3>1 DEF Announcers
      <4>2. /\ exec[x] = "returned" /\ announced[x] = 0 /\ Batches(x) = {}
            /\ Announcers(x) = {a} /\ Queues(x) = {}
        BY <3>0, <4>1 DEF OneWay, Nowhere
      <4>3. Announcers(x)' = {} /\ announced'[x] = 1
        BY <2>1, <3>1, <4>2 DEF Announcers
      <4> QED BY <3>0, <4>2, <4>3 DEF OneWay, Nowhere
    <3>2. CASE x \notin ToSet(a.batch)
      <4>1. /\ Announcers(x)' = Announcers(x) /\ a \notin Announcers(x)
            /\ announced'[x] = announced[x]
        BY <2>1, <3>2 DEF Announcers
      <4> QED BY <2>1, <3>0, <4>1 DEF OneWay, Nowhere
    <3> QED BY <3>1, <3>2
  <2> QED BY <1>1, <2>2, <2>3 DEF SubInv
<1> QED BY <1>3, <1>4, <1>5
-----------------------------------------------------------------------------
(* The theorems. *)

\* Every step keeps the invariant.
LEMMA SubStep_Inv == SubInv /\ [SubNext]_subVars => SubInv'
<1> SUFFICES ASSUME SubInv, [SubNext]_subVars PROVE SubInv'
  OBVIOUS
<1>1. CASE UNCHANGED subVars
  <2>1. UNCHANGED <<status, noCtx, exec, pending, timer, loose, fired, draining, announcing, announced, steering, commands>>
    BY <1>1 DEF subVars, taskVars, queueVars, wayVars
  <2>2. SubTypeOK' /\ TimerWaits'
    BY <2>1 DEF SubInv, SubTypeOK, TimerWaits
  <2>3. StatusMatches'
    BY <2>1, StatusStays DEF SubInv, Executing
  <2>4. \A t \in Subs \ SyncSubs : OneWay(t)'
    BY <2>1, ResultsStay
  <2> QED BY <2>2, <2>3, <2>4 DEF SubInv
<1>2. CASE SubNext
  <2>1. ASSUME NEW t \in Subs, SubStep(t) PROVE SubInv'
    BY <2>1, Start_Inv, Execute_Inv, Command_Inv, ReturnSub_Inv DEF SubStep
  <2>2. CASE (\E T \in SUBSET Subs : CancelSub(T)) \/ (\E g \in Groups : RespawnFails(g))
    BY <2>2, Command_Inv
  <2>3. CASE AnnounceStep
    BY <2>3, Timer_Inv, Announce_Inv DEF AnnounceStep
  <2> QED BY <1>2, <2>1, <2>2, <2>3 DEF SubNext
<1> QED BY <1>1, <1>2

\* The places of the manager match what runs: for any number of subagents,
\* parents, commands and limits, what executes in the background and nobody
\* cancelled stays within MaxConcurrent, and what has ended gave its place back.
THEOREM SubagentsPlacesMatchRuns == SubSpec => []PlacesMatchRuns
<1>1. SubInv => PlacesMatchRuns
  <2> SUFFICES ASSUME SubInv PROVE PlacesMatchRuns
    OBVIOUS
  <2> DEFINE E == {t \in Subs \ SyncSubs : Executing(t) /\ t \notin noCtx}
             R == Running \ SyncSubs
  <2>1. IsFiniteSet(R) /\ E \subseteq R /\ Cardinality(R) <= MaxConcurrent
    BY FS_Difference DEF SubInv, StatusMatches
  <2>2. Cardinality(E) <= Cardinality(R) /\ Cardinality(E) \in Nat /\ Cardinality(R) \in Nat
    BY <2>1, FS_Subset, FS_CardinalityType
  <2>3. MaxConcurrent \in Nat
    BY SubagentsAssumption
  <2>4. Cardinality(E) <= MaxConcurrent
    <3> HIDE DEF E, R
    <3> QED BY <2>1, <2>2, <2>3
  <2> QED BY <2>4 DEF PlacesMatchRuns, SubInv, StatusMatches
<1> QED BY <1>1, SubInit_Inv, SubStep_Inv, PTL DEF SubSpec

\* No result of a subagent in the background is lost or announced twice: it is
\* in one queue with a timer, in one batch or with one announcing goroutine, or
\* it was announced once.
THEOREM SubagentsResultOnItsWay == SubSpec => []ResultOnItsWay
<1>1. SubInv => ResultOnItsWay
  <2> SUFFICES ASSUME SubInv PROVE ResultOnItsWay
    OBVIOUS
  <2>1. ASSUME NEW t \in Subs \ SyncSubs
        PROVE  announced[t] + Cardinality(Queues(t)) + Cardinality(Batches(t))
                 + Cardinality(Announcers(t))
               = IF exec[t] = "returned" THEN 1 ELSE 0
    <3>1. OneWay(t)
      BY DEF SubInv
    <3>2. Cardinality({}) = 0 /\ \A x : Cardinality({x}) = 1
      BY FS_EmptySet, FS_Singleton
    <3>3. \/ announced[t] = 0 /\ Nowhere(t) /\ exec[t] # "returned"
          \/ announced[t] = 1 /\ Nowhere(t) /\ exec[t] = "returned"
          \/ /\ exec[t] = "returned" /\ announced[t] = 0
             /\ Cardinality(Queues(t)) = 1 /\ Batches(t) = {} /\ Announcers(t) = {}
          \/ /\ exec[t] = "returned" /\ announced[t] = 0
             /\ Cardinality(Batches(t)) = 1 /\ Queues(t) = {} /\ Announcers(t) = {}
          \/ /\ exec[t] = "returned" /\ announced[t] = 0
             /\ Cardinality(Announcers(t)) = 1 /\ Queues(t) = {} /\ Batches(t) = {}
      BY <3>1, <3>2 DEF OneWay
    <3> QED BY <3>2, <3>3 DEF Nowhere
  <2>2. TimerWaits
    BY DEF SubInv
  <2> QED BY <2>1, <2>2 DEF ResultOnItsWay, TimerWaits, Queues, Batches, Announcers
<1> QED BY <1>1, SubInit_Inv, SubStep_Inv, PTL DEF SubSpec
=============================================================================
