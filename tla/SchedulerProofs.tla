-------------------------- MODULE SchedulerProofs --------------------------
(***************************************************************************)
(* Proofs about Scheduler, for every set of requests, sessions and lanes   *)
(* and every configuration the assumptions of Scheduler allow.             *)
(***************************************************************************)
EXTENDS Scheduler, FiniteSetTheorems, FunctionTheorems, SequenceTheorems, TLAPS

\* Sending on channels keeps the history of sends well typed.
LEMMA AnsweredType ==
    ASSUME outcome \in [Requests -> Seq(Outcomes)],
           NEW R, NEW o \in Outcomes
    PROVE  Answered(R, o) \in [Requests -> Seq(Outcomes)]
BY DEF Answered

\* Taking a run ID out of an order leaves a sequence of run IDs.
LEMMA RemoveType ==
    ASSUME NEW q \in Seq(RunIds), NEW id
    PROVE  RemoveFromOrder(q, id) \in Seq(RunIds)
<1> DEFINE B == {i \in 1..Len(q) : \A j \in 1..i : q[j] # id}
           n == Cardinality(B)
<1>1. n \in Nat /\ n <= Len(q)
  <2>1. Len(q) \in Nat
    OBVIOUS
  <2>2. IsFiniteSet(1..Len(q)) /\ Cardinality(1..Len(q)) = Len(q)
    BY <2>1, FS_Interval
  <2>3. B \in SUBSET (1..Len(q))
    OBVIOUS
  <2>4. IsFiniteSet(B) /\ n <= Len(q)
    BY <2>2, <2>3, FS_Subset
  <2> QED
    BY <2>4, FS_CardinalityType
<1>2. \A i \in 1..Len(q) : q[i] \in RunIds
  OBVIOUS
<1> HIDE DEF n
<1>3. SubSeq(q, 1, n) \in Seq(RunIds)
  BY <1>1, <1>2, SubSeqProperties
<1>4. SubSeq(q, n + 2, Len(q)) \in Seq(RunIds)
  BY <1>1, <1>2, SubSeqProperties
<1>5. RemoveFromOrder(q, id) = SubSeq(q, 1, n) \o SubSeq(q, n + 2, Len(q))
  BY DEF RemoveFromOrder, n
<1> QED
  BY <1>3, <1>4, <1>5, ConcatProperties

\* The holder of a mutex stays a Holder while it walks startAvailable.
LEMMA LockAtType ==
    ASSUME TypeOK, NEW s \in Sessions, lock[s] # Free,
           NEW at \in {"loop", "pop", "submit"}, NEW sub \in Requests \cup {NoReq}
    PROVE  /\ lock[s] \in Holder
           /\ LockAt(s, at, sub) \in [Sessions -> Holder \cup {Free}]
<1>1. lock[s] \in Holder
  BY DEF TypeOK
<1>2. [by |-> lock[s].by, req |-> lock[s].req, ctx |-> lock[s].ctx,
       at |-> at, sub |-> sub] \in Holder
  BY <1>1 DEF Holder
<1> QED
  BY <1>1, <1>2 DEF LockAt, TypeOK

\* Entering startAvailable keeps the types of what it assigns.
LEMMA StartAvailableType ==
    ASSUME TypeOK, NEW s \in Sessions, NEW by \in {"enqueue", "timer", "run"},
           NEW r \in Requests, NEW ctx \in Requests \cup {NoReq},
           StartAvailable(s, by, r, ctx)
    PROVE  /\ pc' \in [Requests -> CallStates]
           /\ run' \in [Requests -> RunStates]
           /\ lock' \in [Sessions -> Holder \cup {Free}]
<1>1. [by |-> by, req |-> r, ctx |-> ctx, at |-> "loop", sub |-> NoReq] \in Holder
  BY DEF Holder
<1>2. lock' \in [Sessions -> Holder \cup {Free}]
  BY <1>1 DEF StartAvailable, TypeOK
<1> QED
  BY <1>2 DEF StartAvailable, TypeOK, CallStates, RunStates

\* So does leaving the critical section.
LEMMA LeaveType ==
    ASSUME TypeOK, NEW by \in {"enqueue", "timer", "run"}, NEW r \in Requests,
           Leave(by, r)
    PROVE  /\ pc' \in [Requests -> CallStates]
           /\ run' \in [Requests -> RunStates]
BY DEF Leave, TypeOK, CallStates, RunStates

\* The end of Enqueue and of executeRun keeps the types of what it assigns.
LEMMA TryScheduleNextType ==
    ASSUME TypeOK, NEW s \in Sessions, NEW by \in {"enqueue", "run"},
           NEW r \in Requests, NEW ctx \in Requests \cup {NoReq},
           TryScheduleNext(s, by, r, ctx)
    PROVE  /\ pc' \in [Requests -> CallStates]
           /\ run' \in [Requests -> RunStates]
           /\ timer' \in [Sessions -> Requests \cup {NoReq}]
           /\ lock' \in [Sessions -> Holder \cup {Free}]
<1>1. CASE StartAvailable(s, by, r, ctx) /\ UNCHANGED timer
  <2>1. /\ pc' \in [Requests -> CallStates]
        /\ run' \in [Requests -> RunStates]
        /\ lock' \in [Sessions -> Holder \cup {Free}]
    BY <1>1, StartAvailableType
  <2>2. timer \in [Sessions -> Requests \cup {NoReq}]
    BY DEF TypeOK
  <2> QED
    BY <1>1, <2>1, <2>2
<1>2. CASE Leave(by, r) /\ timer' = [timer EXCEPT ![s] = ctx] /\ UNCHANGED lock
  BY <1>2, LeaveType DEF TypeOK
<1>3. CASE Leave(by, r) /\ UNCHANGED <<timer, lock>>
  BY <1>3, LeaveType DEF TypeOK
<1> QED
  BY <1>1, <1>2, <1>3 DEF TryScheduleNext

\* Emptying a session keeps the types of what it assigns.
LEMMA DropEverythingType ==
    ASSUME TypeOK, NEW s \in Sessions, NEW o \in Outcomes, DropEverything(s, o)
    PROVE  /\ cancelled' \subseteq Requests
           /\ active' \in [Sessions -> [RunIds -> Requests \cup {NoReq}]]
           /\ order' \in [Sessions -> Seq(RunIds)]
           /\ outcome' \in [Requests -> Seq(Outcomes)]
           /\ queue' \in [Sessions -> Seq(Requests)]
<1>1. outcome' \in [Requests -> Seq(Outcomes)]
  BY AnsweredType DEF DropEverything, TypeOK
<1>2. cancelled' \subseteq Requests
  BY DEF DropEverything, ActiveReqs, ActiveIds, TypeOK
<1>3. active' \in [Sessions -> [RunIds -> Requests \cup {NoReq}]]
  BY DEF DropEverything, TypeOK
<1> QED
  BY <1>1, <1>2, <1>3 DEF DropEverything, TypeOK

\* Every step keeps every variable in its type.
LEMMA TypeOKStep == TypeOK /\ [Next]_vars => TypeOK'
<1> USE RequestAssumption, ConfigAssumption
<1> SUFFICES ASSUME TypeOK, [Next]_vars
             PROVE  TypeOK'
  OBVIOUS
<1> USE DEF callVars, runVars, sessVars, timeVars, laneVars, haltVars
<1>1. CASE UNCHANGED vars
  BY <1>1 DEF TypeOK, vars
<1>2. ASSUME NEW r \in Requests, CallerStep(r)
      PROVE  TypeOK'
  <2>1. CASE ScheduleRefused(r)
    <3>1. outcome' \in [Requests -> Seq(Outcomes)]
      BY <2>1, AnsweredType DEF ScheduleRefused, TypeOK, Outcomes
    <3> QED
      BY <2>1, <3>1 DEF ScheduleRefused, TypeOK, CallStates
  <2>2. CASE Schedule(r)
    BY <2>2 DEF Schedule, TypeOK, CallStates
  <2>3. CASE SetMaxConcurrent(r)
    <3>1. SessionOf[r] \in Sessions /\ OptMax[r] \in Nat
      OBVIOUS
    <3>2. maxC' \in [Sessions -> Nat \ {0}]
      BY <2>3, <3>1 DEF SetMaxConcurrent, TypeOK
    <3>3. pc' \in [Requests -> CallStates]
      BY <2>3 DEF SetMaxConcurrent, TypeOK, CallStates
    <3> QED
      BY <2>3, <3>2, <3>3 DEF SetMaxConcurrent, TypeOK
  <2>4. CASE Stamp(r)
    BY <2>4 DEF Stamp, TypeOK, CallStates
  <2>5. CASE EnqueueFifo(r)
    <3>1. SessionOf[r] \in Sessions
      OBVIOUS
    <3>2. TryScheduleNext(SessionOf[r], "enqueue", r, r)
      BY <2>5 DEF EnqueueFifo
    <3>3. outcome' \in [Requests -> Seq(Outcomes)]
      BY <2>5, AnsweredType, SMTT(30) DEF EnqueueFifo, TypeOK, Outcomes
    <3>4. queue' \in [Sessions -> Seq(Requests)]
      <4>1. queue[SessionOf[r]] \in Seq(Requests)
        BY <3>1 DEF TypeOK
      <4>2. Append(queue[SessionOf[r]], r) \in Seq(Requests)
        BY <4>1
      <4>3. Len(queue[SessionOf[r]]) >= Cap
              => Append(Tail(queue[SessionOf[r]]), r) \in Seq(Requests)
        BY <4>1
      <4>4. \/ UNCHANGED queue
            \/ queue' = [queue EXCEPT ![SessionOf[r]] = Append(queue[SessionOf[r]], r)]
            \/ /\ Len(queue[SessionOf[r]]) >= Cap
               /\ queue' = [queue EXCEPT ![SessionOf[r]] =
                               Append(Tail(queue[SessionOf[r]]), r)]
        BY <2>5 DEF EnqueueFifo
      <4> QED
        BY <4>2, <4>3, <4>4 DEF TypeOK
    <3>5. parent' \in [Sessions -> Requests \cup {NoReq}]
      BY <2>5, <3>1 DEF EnqueueFifo, SetParent, TypeOK
    <3> QED
      BY <2>5, <3>1, <3>2, <3>3, <3>4, <3>5, TryScheduleNextType
      DEF EnqueueFifo, TypeOK
  <2>6. CASE EnqueueInterrupt(r)
    <3>1. SessionOf[r] \in Sessions
      OBVIOUS
    <3>2. TryScheduleNext(SessionOf[r], "enqueue", r, r)
      BY <2>6 DEF EnqueueInterrupt
    <3>3. outcome' \in [Requests -> Seq(Outcomes)]
      BY <2>6, AnsweredType DEF EnqueueInterrupt, TypeOK, Outcomes
    <3>4. queue' \in [Sessions -> Seq(Requests)]
      BY <2>6, <3>1 DEF EnqueueInterrupt, TypeOK
    <3>5. parent' \in [Sessions -> Requests \cup {NoReq}]
      BY <2>6, <3>1 DEF EnqueueInterrupt, SetParent, TypeOK
    <3> QED
      <4>1. cancelled' \subseteq Requests
        BY <2>6, <3>1 DEF EnqueueInterrupt, TypeOK, ActiveReqs, ActiveIds
      <4>2. active' \in [Sessions -> [RunIds -> Requests \cup {NoReq}]]
        BY <2>6, <3>1 DEF EnqueueInterrupt, TypeOK
      <4>3. order' \in [Sessions -> Seq(RunIds)]
        BY <2>6, <3>1 DEF EnqueueInterrupt, TypeOK
      <4> QED
        BY <2>6, <3>1, <3>2, <3>3, <3>4, <3>5, <4>1, <4>2, <4>3, TryScheduleNextType
        DEF EnqueueInterrupt, TypeOK
  <2> QED
    BY <1>2, <2>1, <2>2, <2>3, <2>4, <2>5, <2>6 DEF CallerStep
<1>3. ASSUME NEW r \in Requests, RunStep(r)
      PROVE  TypeOK'
  <2>1. CASE FinishRun(r)
    <3>1. outcome' \in [Requests -> Seq(Outcomes)]
      BY <2>1, AnsweredType DEF FinishRun, TypeOK, Outcomes
    <3> QED
      BY <2>1, <3>1 DEF FinishRun, TypeOK, RunStates
  <2>2. CASE CompleteRun(r)
    <3>1. SessionOf[r] \in Sessions /\ RunIdOf[r] \in RunIds
      OBVIOUS
    <3>2. TryScheduleNext(SessionOf[r], "run", r, parent[SessionOf[r]])
      BY <2>2 DEF CompleteRun
    <3>3. order' \in [Sessions -> Seq(RunIds)]
      BY <2>2, <3>1, RemoveType DEF CompleteRun, TypeOK
    <3> QED
      BY <2>2, <3>1, <3>2, <3>3, TryScheduleNextType DEF CompleteRun, TypeOK
  <2>3. CASE CompleteOldRun(r)
    BY <2>3 DEF CompleteOldRun, TypeOK, RunStates
  <2>4. CASE ReturnToken(r)
    <3>1. tokens' \in [Lanes -> Nat]
      <4>1. tokens \in [Lanes -> Nat]
        BY DEF TypeOK
      <4>2. tokens' = [tokens EXCEPT ![lane[SessionOf[r]]] = tokens[lane[SessionOf[r]]] + 1]
        BY <2>4 DEF ReturnToken
      <4>3. \A l \in Lanes : tokens'[l] \in Nat
        BY <4>1, <4>2
      <4> QED
        BY <4>1, <4>2, <4>3
    <3>2. run' \in [Requests -> RunStates]
      BY <2>4 DEF ReturnToken, TypeOK, RunStates
    <3> QED
      BY <2>4, <3>1, <3>2 DEF ReturnToken, TypeOK
  <2> QED
    BY <1>3, <2>1, <2>2, <2>3, <2>4 DEF RunStep
<1>4. ASSUME NEW s \in Sessions, TimerStep(s)
      PROVE  TypeOK'
  <2>1. CASE TimerFires(s)
    <3>1. timer[s] \in Requests
      BY <2>1 DEF TimerFires, TypeOK
    <3>2. callbacks[s] \in [Requests -> Nat]
      BY DEF TypeOK
    <3>3. callbacks' = [callbacks EXCEPT ![s] =
                          [callbacks[s] EXCEPT ![timer[s]] = callbacks[s][timer[s]] + 1]]
      BY <2>1 DEF TimerFires
    <3>4. [callbacks[s] EXCEPT ![timer[s]] = callbacks[s][timer[s]] + 1]
            \in [Requests -> Nat]
      BY <3>1, <3>2
    <3>5. callbacks' \in [Sessions -> [Requests -> Nat]]
      BY <3>3, <3>4 DEF TypeOK
    <3> QED
      BY <2>1, <3>5 DEF TimerFires, TypeOK
  <2>2. ASSUME NEW ctx \in Requests, TimerCallback(s, ctx)
        PROVE  TypeOK'
    <3>1. callbacks[s] \in [Requests -> Nat] /\ callbacks[s][ctx] > 0
      BY <2>2 DEF TimerCallback, TypeOK
    <3>2. callbacks' = [callbacks EXCEPT ![s] =
                          [callbacks[s] EXCEPT ![ctx] = callbacks[s][ctx] - 1]]
      BY <2>2 DEF TimerCallback
    <3>3. [callbacks[s] EXCEPT ![ctx] = callbacks[s][ctx] - 1] \in [Requests -> Nat]
      BY <3>1
    <3>4. callbacks' \in [Sessions -> [Requests -> Nat]]
      BY <3>2, <3>3 DEF TypeOK
    <3>5. CASE StartAvailable(s, "timer", ctx, ctx)
      BY <2>2, <3>4, <3>5, StartAvailableType DEF TimerCallback, TypeOK
    <3>6. CASE UNCHANGED <<lock, pc, run>>
      BY <2>2, <3>4, <3>6 DEF TimerCallback, TypeOK
    <3> QED
      BY <2>2, <3>5, <3>6 DEF TimerCallback
  <2> QED
    BY <1>4, <2>1, <2>2 DEF TimerStep
<1>5. ASSUME NEW s \in Sessions, LockStep(s)
      PROVE  TypeOK'
  <2>0. lock[s] # Free => lock[s] \in Holder
    BY DEF TypeOK
  <2>1. CASE StopStarting(s)
    <3>1. lock[s].by \in {"enqueue", "timer", "run"} /\ lock[s].req \in Requests
      BY <2>0, <2>1 DEF StopStarting, Holder
    <3>2. Leave(lock[s].by, lock[s].req)
      BY <2>1 DEF StopStarting
    <3> QED
      BY <2>1, <3>1, <3>2, LeaveType DEF StopStarting, TypeOK
  <2>2. CASE SkipStale(s)
    <3>1. lock' \in [Sessions -> Holder \cup {Free}]
      BY <2>2, LockAtType DEF SkipStale, MayPop
    <3>2. outcome' \in [Requests -> Seq(Outcomes)]
      BY <2>2, AnsweredType DEF SkipStale, TypeOK, Outcomes
    <3>3. queue' \in [Sessions -> Seq(Requests)]
      BY <2>2 DEF SkipStale, MayPop, TypeOK
    <3> QED
      BY <2>2, <3>1, <3>2, <3>3 DEF SkipStale, TypeOK
  <2>3. CASE StartOne(s)
    <3> DEFINE r == Head(queue[s])
    <3>1. r \in Requests
      BY <2>3 DEF StartOne, MayPop, TypeOK
    <3>2. RunIdOf[r] \in RunIds
      BY <3>1
    <3> HIDE DEF r
    <3>3. lock' \in [Sessions -> Holder \cup {Free}]
      BY <2>3, <3>1, LockAtType DEF StartOne, MayPop, r
    <3>4. active' \in [Sessions -> [RunIds -> Requests \cup {NoReq}]]
      BY <2>3, <3>1, <3>2 DEF StartOne, TypeOK, r
    <3>5. queue' \in [Sessions -> Seq(Requests)]
      BY <2>3 DEF StartOne, MayPop, TypeOK
    <3>6. order' \in [Sessions -> Seq(RunIds)]
      BY <2>3, <3>2 DEF StartOne, TypeOK, r
    <3>7. genOf' \in [Requests -> Nat] /\ cutoff' \in [Sessions -> SUBSET Requests]
      BY <2>3, <3>1 DEF StartOne, TypeOK, r
    <3> QED
      BY <2>3, <3>3, <3>4, <3>5, <3>6, <3>7 DEF StartOne, TypeOK
  <2>4. CASE SubmitToken(s)
    <3>1. lock' \in [Sessions -> Holder \cup {Free}]
      BY <2>4, LockAtType DEF SubmitToken
    <3>2. lock[s].ctx \in Requests \cup {NoReq}
      BY <2>0, <2>4 DEF SubmitToken, Holder
    <3>3. tokens' \in [Lanes -> Nat]
      <4>1. tokens \in [Lanes -> Nat]
        BY DEF TypeOK
      <4>2. tokens' = [tokens EXCEPT ![lane[s]] = tokens[lane[s]] - 1]
              /\ tokens[lane[s]] > 0
        BY <2>4 DEF SubmitToken
      <4>3. \A l \in Lanes : tokens'[l] \in Nat
        BY <4>1, <4>2
      <4> QED
        BY <4>1, <4>2, <4>3
    <3>4. run' \in [Requests -> RunStates]
      BY <2>4 DEF SubmitToken, TypeOK, RunStates
    <3>5. runCtx' \in [Requests -> Requests \cup {NoReq}]
      BY <2>4, <3>2 DEF SubmitToken, TypeOK
    <3> QED
      BY <2>4, <3>1, <3>3, <3>4, <3>5 DEF SubmitToken, TypeOK
  <2>5. CASE SubmitRefused(s)
    <3>1. lock' \in [Sessions -> Holder \cup {Free}]
      BY <2>5, LockAtType DEF SubmitRefused
    <3>2. outcome' \in [Requests -> Seq(Outcomes)]
      BY <2>5, AnsweredType DEF SubmitRefused, TypeOK, Outcomes
    <3>3. order' \in [Sessions -> Seq(RunIds)]
      BY <2>5, RemoveType DEF SubmitRefused, TypeOK
    <3>4. active' \in [Sessions -> [RunIds -> Requests \cup {NoReq}]]
      BY <2>5 DEF SubmitRefused, TypeOK
    <3> QED
      BY <2>5, <3>1, <3>2, <3>3, <3>4 DEF SubmitRefused, TypeOK
  <2> QED
    BY <1>5, <2>1, <2>2, <2>3, <2>4, <2>5 DEF LockStep
<1>6. ASSUME NEW s \in Sessions, CommandStep(s)
      PROVE  TypeOK'
  <2>1. CASE CancelOne(s)
    <3>1. used' \in [Commands -> Nat]
      BY <2>1 DEF CancelOne, Spend, TypeOK, Commands
    <3>2. CASE order[s] # <<>> /\ active[s][Head(order[s])] # NoReq
      <4>1. Head(order[s]) \in RunIds /\ Tail(order[s]) \in Seq(RunIds)
        BY <3>2 DEF TypeOK
      <4>2. cancelled' \subseteq Requests
        BY <2>1, <3>2, <4>1 DEF CancelOne, TypeOK
      <4>3. active' \in [Sessions -> [RunIds -> Requests \cup {NoReq}]]
        <5>1. active' = [active EXCEPT ![s] =
                            [active[s] EXCEPT ![Head(order[s])] = NoReq]]
          BY <2>1, <3>2 DEF CancelOne
        <5>2. active[s] \in [RunIds -> Requests \cup {NoReq}]
          BY DEF TypeOK
        <5> QED
          BY <5>1, <5>2 DEF TypeOK
      <4>4. order' \in [Sessions -> Seq(RunIds)]
        <5>1. order' = [order EXCEPT ![s] = Tail(order[s])]
          BY <2>1, <3>2 DEF CancelOne
        <5>2. order \in [Sessions -> Seq(RunIds)]
          BY DEF TypeOK
        <5> QED
          BY <4>1, <5>1, <5>2
      <4> QED
        BY <2>1, <3>1, <4>2, <4>3, <4>4 DEF CancelOne, TypeOK
    <3>3. CASE order[s] = <<>> \/ active[s][Head(order[s])] = NoReq
      BY <2>1, <3>1, <3>3 DEF CancelOne, TypeOK
    <3> QED
      BY <3>2, <3>3
  <2>2. CASE CancelAll(s)
    <3>1. used' \in [Commands -> Nat]
      BY <2>2 DEF CancelAll, Spend, TypeOK, Commands
    <3>2. cutoff' \in [Sessions -> SUBSET Requests]
      BY <2>2 DEF CancelAll, StampedReqs, TypeOK
    <3>3. DropEverything(s, "canceled") /\ "canceled" \in Outcomes
      BY <2>2 DEF CancelAll, Outcomes
    <3> QED
      BY <2>2, <3>1, <3>2, <3>3, DropEverythingType DEF CancelAll, TypeOK
  <2>3. CASE Reset(s)
    <3>1. used' \in [Commands -> Nat]
      BY <2>3 DEF Reset, Spend, TypeOK, Commands
    <3>2. DropEverything(s, "cleared") /\ "cleared" \in Outcomes
      BY <2>3 DEF Reset, Outcomes
    <3>3. gen' \in [Sessions -> Nat]
      BY <2>3 DEF Reset, TypeOK
    <3> QED
      BY <2>3, <3>1, <3>2, <3>3, DropEverythingType DEF Reset, TypeOK
  <2> QED
    BY <1>6, <2>1, <2>2, <2>3 DEF CommandStep
<1>7. CASE Shutdown
  BY <1>7 DEF Shutdown, TypeOK
<1>8. CASE HaltStep
  BY <1>8 DEF HaltStep, MarkDraining, StopReturns, StopLane, TypeOK
<1> QED
  BY <1>1, <1>2, <1>3, <1>4, <1>5, <1>6, <1>7, <1>8 DEF Next

\* Initially every variable is in its type.
LEMMA TypeOKInit == Init => TypeOK
<1> USE RequestAssumption, ConfigAssumption
<1> SUFFICES ASSUME Init PROVE TypeOK
  OBVIOUS
<1>1. tokens \in [Lanes -> Nat]
  BY DEF Init
<1>2. callbacks \in [Sessions -> [Requests -> Nat]]
  BY DEF Init
<1>3. active \in [Sessions -> [RunIds -> Requests \cup {NoReq}]]
  BY DEF Init
<1>4. /\ outcome \in [Requests -> Seq(Outcomes)]
      /\ queue \in [Sessions -> Seq(Requests)]
      /\ order \in [Sessions -> Seq(RunIds)]
  BY DEF Init
<1>5. /\ pc \in [Requests -> CallStates]
      /\ run \in [Requests -> RunStates]
      /\ used \in [Commands -> Nat]
  BY DEF Init, CallStates, RunStates
<1> QED
  BY <1>1, <1>2, <1>3, <1>4, <1>5 DEF Init, TypeOK

\* Type correctness: every reachable state is well typed.
THEOREM SchedulerTypeOK == Spec => []TypeOK
BY TypeOKInit, TypeOKStep, PTL DEF Spec

-----------------------------------------------------------------------------
(* No result channel is written twice. *)

Late == {"enqueuing", "returned"}

\* x is in nobody's hands but the queue's or the submitting thread's.
Waiting(x, s) ==
    /\ SessionOf[x] = s
    /\ outcome[x] = <<>> /\ run[x] = "none"
    /\ pc[x] \in Late

\* The invariant in the form the proofs use.
LEMMA AnswerFacts ==
    ASSUME AnswerInv
    PROVE  /\ \A r \in Requests : Len(outcome[r]) <= 1
           /\ \A r \in Requests : pc[r] \notin Late => outcome[r] = <<>> /\ run[r] = "none"
           /\ \A s \in Sessions : \A i \in 1..Len(queue[s]) :
                 queue[s][i] \in Requests /\ Waiting(queue[s][i], s)
           /\ \A s \in Sessions : \A i, j \in 1..Len(queue[s]) :
                 queue[s][i] = queue[s][j] => i = j
           /\ \A s \in Sessions : lock[s] # Free /\ lock[s].at = "submit" =>
                 /\ lock[s].sub \in Requests
                 /\ Waiting(lock[s].sub, s)
                 /\ \A i \in 1..Len(queue[s]) : queue[s][i] # lock[s].sub
<1>1. TypeOK
  BY DEF AnswerInv
<1>2. \A r \in Requests : Len(outcome[r]) <= 1
  BY DEF AnswerInv, AnsweredOnce
<1>3. \A r \in Requests : pc[r] \notin Late => outcome[r] = <<>> /\ run[r] = "none"
  BY <1>1 DEF AnswerInv, EarlyCalls, Idle, Late, TypeOK, CallStates
<1>4. ASSUME NEW s \in Sessions
      PROVE  \A i \in 1..Len(queue[s]) :
                 queue[s][i] \in Requests /\ Waiting(queue[s][i], s)
  <2>1. queue[s] \in Seq(Requests)
    BY <1>1 DEF TypeOK
  <2>2. \A i \in 1..Len(queue[s]) : queue[s][i] \in Requests
    BY <2>1
  <2> QED
    BY <2>2 DEF AnswerInv, QueueEntries, Idle, Waiting, Late
<1>5. ASSUME NEW s \in Sessions, NEW i \in 1..Len(queue[s]),
             NEW j \in 1..Len(queue[s]), queue[s][i] = queue[s][j]
      PROVE  i = j
  BY <1>5 DEF AnswerInv, QueueEntries
<1>6. ASSUME NEW s \in Sessions, lock[s] # Free, lock[s].at = "submit"
      PROVE  /\ lock[s].sub \in Requests
             /\ Waiting(lock[s].sub, s)
             /\ \A i \in 1..Len(queue[s]) : queue[s][i] # lock[s].sub
  BY <1>6 DEF AnswerInv, SubmitEntry, Idle, Waiting, Late
<1> QED
  BY <1>2, <1>3, <1>4, <1>5, <1>6

\* What has to be shown of the next state.
LEMMA AnswerGoal ==
    ASSUME TypeOK',
           \A r \in Requests : Len(outcome'[r]) <= 1,
           \A r \in Requests : pc'[r] \notin Late => outcome'[r] = <<>> /\ run'[r] = "none",
           \A s \in Sessions : \A i \in 1..Len(queue'[s]) :
              /\ SessionOf[queue'[s][i]] = s
              /\ outcome'[queue'[s][i]] = <<>> /\ run'[queue'[s][i]] = "none"
              /\ pc'[queue'[s][i]] \in Late,
           \A s \in Sessions : \A i, j \in 1..Len(queue'[s]) :
                 queue'[s][i] = queue'[s][j] => i = j,
           \A s \in Sessions : lock'[s] # Free /\ lock'[s].at = "submit" =>
                 /\ lock'[s].sub \in Requests
                 /\ SessionOf[lock'[s].sub] = s
                 /\ outcome'[lock'[s].sub] = <<>> /\ run'[lock'[s].sub] = "none"
                 /\ pc'[lock'[s].sub] \in Late
                 /\ \A i \in 1..Len(queue'[s]) : queue'[s][i] # lock'[s].sub,
           \A s \in Sessions : lock'[s] # Free /\ lock'[s].by = "run" =>
                 SessionOf[lock'[s].req] = s /\ run'[lock'[s].req] = "scheduling",
           \A r \in Requests : run'[r] = "running" => outcome'[r] = <<>>
    PROVE  AnswerInv'
<1>1. AnsweredOnce'
  BY DEF AnsweredOnce
<1>2. EarlyCalls'
  BY DEF EarlyCalls, Idle, Late
<1>3. QueueEntries'
  BY DEF QueueEntries, Idle, Late
<1>4. SubmitEntry'
  BY DEF SubmitEntry, Idle, Late
<1>5. LockOwner'
  BY DEF LockOwner
<1>6. RunningUnanswered'
  <2>1. \A r \in Requests : run'[r] # "none" => pc'[r] \in Late
    OBVIOUS
  <2> QED
    BY <2>1 DEF RunningUnanswered, Late
<1> QED
  BY <1>1, <1>2, <1>3, <1>4, <1>5, <1>6 DEF AnswerInv

\* A step that answers the requests of R, turns the queue of session s into q,
\* and moves the run of at most one request x of s.
StepShape(s, x, R, o, q) ==
    /\ \A y \in Requests : outcome'[y] = IF y \in R THEN Append(outcome[y], o)
                                                   ELSE outcome[y]
    /\ queue'[s] = q
    /\ \A z \in Sessions : z # s => queue'[z] = queue[z] /\ lock'[z] = lock[z]
    /\ \A y \in Requests : y # x => run'[y] = run[y]
    /\ \A y \in Requests : pc[y] \in Late => pc'[y] \in Late
    /\ \/ run'[x] = run[x]
       \/ SessionOf[x] = s /\ pc'[x] \in Late
          /\ (run'[x] = "running" => outcome[x] = <<>>)
    /\ \A y \in R : /\ outcome[y] = <<>> /\ SessionOf[y] = s
                    /\ pc'[y] \in Late /\ run'[y] # "running"
    /\ \A i \in 1..Len(q) : /\ SessionOf[q[i]] = s /\ outcome[q[i]] = <<>>
                            /\ q[i] \notin R /\ run'[q[i]] = "none"
                            /\ pc'[q[i]] \in Late
    /\ \A i, j \in 1..Len(q) : q[i] = q[j] => i = j
    /\ lock'[s] # Free /\ lock'[s].at = "submit" =>
         /\ lock'[s].sub \in Requests /\ SessionOf[lock'[s].sub] = s
         /\ outcome[lock'[s].sub] = <<>> /\ lock'[s].sub \notin R
         /\ run'[lock'[s].sub] = "none" /\ pc'[lock'[s].sub] \in Late
         /\ \A i \in 1..Len(q) : q[i] # lock'[s].sub
    /\ lock'[s] # Free /\ lock'[s].by = "run" =>
         SessionOf[lock'[s].req] = s /\ run'[lock'[s].req] = "scheduling"

\* Such a step keeps AnswerInv.
LEMMA AnswerStep ==
    ASSUME AnswerInv, TypeOK',
           NEW s \in Sessions, NEW x \in Requests,
           NEW R \in SUBSET Requests, NEW o \in Outcomes, NEW q \in Seq(Requests),
           StepShape(s, x, R, o, q)
    PROVE  AnswerInv'
<1> USE DEF StepShape
<1>0. TypeOK
  BY DEF AnswerInv
<1>1. \A y \in Requests : Len(outcome[y]) <= 1
  BY AnswerFacts
<1>2. \A y \in Requests : Len(outcome'[y]) <= 1
  <2> SUFFICES ASSUME NEW y \in Requests PROVE Len(outcome'[y]) <= 1
    OBVIOUS
  <2>1. CASE y \in R
    <3>1. outcome'[y] = Append(<<>>, o)
      BY <2>1
    <3>2. Len(Append(<<>>, o)) = 1
      OBVIOUS
    <3> QED
      BY <3>1, <3>2
  <2>2. CASE y \notin R
    BY <1>1, <2>2
  <2> QED
    BY <2>1, <2>2
<1>3. \A y \in Requests : pc'[y] \notin Late => outcome'[y] = <<>> /\ run'[y] = "none"
  <2>1. \A y \in Requests : pc[y] \notin Late => outcome[y] = <<>> /\ run[y] = "none"
    BY AnswerFacts
  <2> QED
    BY <2>1
<1>4. ASSUME NEW z \in Sessions, NEW i \in 1..Len(queue'[z])
      PROVE  /\ SessionOf[queue'[z][i]] = z
             /\ outcome'[queue'[z][i]] = <<>> /\ run'[queue'[z][i]] = "none"
             /\ pc'[queue'[z][i]] \in Late
  <2>1. CASE z = s
    <3>1. i \in 1..Len(q) /\ q[i] \in Requests /\ queue'[z][i] = q[i]
      BY <2>1, <1>4
    <3> QED
      BY <3>1, <2>1
  <2>2. CASE z # s
    <3>1. queue'[z] = queue[z] /\ i \in 1..Len(queue[z])
      BY <2>2, <1>4
    <3>2. queue[z][i] \in Requests /\ Waiting(queue[z][i], z)
      BY <3>1, AnswerFacts
    <3>3. queue[z][i] \notin R /\ (queue[z][i] # x \/ run'[x] = run[x])
      BY <2>2, <3>2 DEF Waiting
    <3> QED
      BY <3>1, <3>2, <3>3 DEF Waiting
  <2> QED
    BY <2>1, <2>2
<1>5. ASSUME NEW z \in Sessions, NEW i \in 1..Len(queue'[z]),
             NEW j \in 1..Len(queue'[z]), queue'[z][i] = queue'[z][j]
      PROVE  i = j
  <2>1. CASE z = s
    BY <2>1, <1>5
  <2>2. CASE z # s
    <3>1. queue'[z] = queue[z]
      BY <2>2
    <3> QED
      BY <3>1, <1>5, AnswerFacts
  <2> QED
    BY <2>1, <2>2
<1>6. ASSUME NEW z \in Sessions, lock'[z] # Free, lock'[z].at = "submit"
      PROVE  /\ lock'[z].sub \in Requests
             /\ SessionOf[lock'[z].sub] = z
             /\ outcome'[lock'[z].sub] = <<>> /\ run'[lock'[z].sub] = "none"
             /\ pc'[lock'[z].sub] \in Late
             /\ \A i \in 1..Len(queue'[z]) : queue'[z][i] # lock'[z].sub
  <2>1. CASE z = s
    BY <2>1, <1>6
  <2>2. CASE z # s
    <3>1. queue'[z] = queue[z] /\ lock'[z] = lock[z]
      BY <2>2
    <3>2. /\ lock[z].sub \in Requests
          /\ Waiting(lock[z].sub, z)
          /\ \A i \in 1..Len(queue[z]) : queue[z][i] # lock[z].sub
      BY <1>6, <3>1, AnswerFacts
    <3>3. lock[z].sub \notin R /\ (lock[z].sub # x \/ run'[x] = run[x])
      BY <2>2, <3>2 DEF Waiting
    <3> QED
      BY <3>1, <3>2, <3>3 DEF Waiting
  <2> QED
    BY <2>1, <2>2
<1>7. ASSUME NEW z \in Sessions, lock'[z] # Free, lock'[z].by = "run"
      PROVE  SessionOf[lock'[z].req] = z /\ run'[lock'[z].req] = "scheduling"
  <2>1. CASE z = s
    BY <2>1, <1>7
  <2>2. CASE z # s
    <3>1. lock'[z] = lock[z] /\ lock[z] \in Holder
      BY <2>2, <1>7, <1>0 DEF TypeOK
    <3>2. lock[z].req \in Requests
      BY <3>1 DEF Holder
    <3>3. SessionOf[lock[z].req] = z /\ run[lock[z].req] = "scheduling"
      BY <1>7, <3>1 DEF AnswerInv, LockOwner
    <3> QED
      BY <2>2, <3>1, <3>2, <3>3
  <2> QED
    BY <2>1, <2>2
<1>8. ASSUME NEW y \in Requests, run'[y] = "running"
      PROVE  outcome'[y] = <<>>
  <2>1. run[y] = "running" => outcome[y] = <<>>
    BY DEF AnswerInv, RunningUnanswered
  <2> QED
    BY <1>8, <2>1
<1> QED
  BY <1>2, <1>3, <1>4, <1>5, <1>6, <1>7, <1>8, AnswerGoal

\* The set of the requests of a queue, and the effect of Answered on a request.
LEMMA AnsweredOf ==
    ASSUME TypeOK, NEW R, NEW o \in Outcomes, NEW y \in Requests
    PROVE  Answered(R, o)[y] = IF y \in R THEN Append(outcome[y], o) ELSE outcome[y]
BY DEF Answered

\* What a lock holder looks like after LockAt.
LEMMA LockAtOf ==
    ASSUME TypeOK, NEW s \in Sessions, NEW at, NEW sub, lock' = LockAt(s, at, sub)
    PROVE  /\ \A z \in Sessions : z # s => lock'[z] = lock[z]
           /\ lock'[s].by = lock[s].by /\ lock'[s].req = lock[s].req
           /\ lock'[s].at = at /\ lock'[s].sub = sub
<1>1. lock \in [Sessions -> Holder \cup {Free}]
  BY DEF TypeOK
<1> QED
  BY <1>1 DEF LockAt

\* A step of the calling goroutine of r that changes neither runs nor queues.
LEMMA CallerMoves ==
    ASSUME AnswerInv, TypeOK', NEW r \in Requests, pc[r] \notin Late,
           UNCHANGED <<run, queue, lock>>,
           \A y \in Requests : y # r => pc'[y] = pc[y],
           \/ UNCHANGED outcome
           \/ pc'[r] \in Late /\ \E o \in Outcomes : outcome' = Answered({r}, o)
    PROVE  AnswerInv'
<1>0. TypeOK
  BY DEF AnswerInv
<1> DEFINE s == SessionOf[r]
           q == queue[s]
<1>1. s \in Sessions /\ q \in Seq(Requests)
  BY <1>0, RequestAssumption DEF TypeOK
<1>2. PICK R \in {{}, {r}}, o \in Outcomes :
        /\ \A y \in Requests : outcome'[y] = IF y \in R THEN Append(outcome[y], o)
                                                       ELSE outcome[y]
        /\ R # {} => pc'[r] \in Late
  <2>1. CASE UNCHANGED outcome
    <3>1. \A y \in Requests : outcome'[y] = IF y \in {} THEN Append(outcome[y], "full")
                                                   ELSE outcome[y]
      BY <2>1
    <3> QED
      BY <3>1 DEF Outcomes
  <2>2. CASE pc'[r] \in Late /\ \E o \in Outcomes : outcome' = Answered({r}, o)
    BY <2>2, <1>0, AnsweredOf
  <2> QED
    BY <2>1, <2>2
<1>3. outcome[r] = <<>> /\ run[r] = "none"
  BY AnswerFacts
<1>4. \A i \in 1..Len(q) : q[i] \in Requests /\ q[i] # r /\ Waiting(q[i], s)
  BY <1>1, AnswerFacts DEF Waiting
<1>5. \A i, j \in 1..Len(q) : q[i] = q[j] => i = j
  BY <1>1, AnswerFacts
<1>6. lock[s] # Free /\ lock[s].at = "submit" =>
         /\ lock[s].sub \in Requests /\ Waiting(lock[s].sub, s) /\ lock[s].sub # r
         /\ \A i \in 1..Len(q) : q[i] # lock[s].sub
  BY <1>1, AnswerFacts DEF Waiting
<1>7. lock[s] # Free /\ lock[s].by = "run" =>
        SessionOf[lock[s].req] = s /\ run[lock[s].req] = "scheduling"
  BY <1>1 DEF AnswerInv, LockOwner
<1> HIDE DEF s, q
<1>8. /\ SessionOf[r] = s /\ queue'[s] = q
      /\ \A z \in Sessions : z # s => queue'[z] = queue[z] /\ lock'[z] = lock[z]
      /\ lock'[s] = lock[s]
      /\ \A y \in Requests : run'[y] = run[y]
  BY DEF s, q
<1>9. \A y \in Requests : pc[y] \in Late => pc'[y] \in Late
  OBVIOUS
<1>10. R \in SUBSET Requests
  OBVIOUS
<1>11. \A y \in R : /\ outcome[y] = <<>> /\ SessionOf[y] = s
                   /\ pc'[y] \in Late /\ run'[y] # "running"
  BY <1>2, <1>3, <1>8
<1>12. \A i \in 1..Len(q) : /\ SessionOf[q[i]] = s /\ outcome[q[i]] = <<>>
                           /\ q[i] \notin R /\ run'[q[i]] = "none"
                           /\ pc'[q[i]] \in Late
  BY <1>4, <1>8, <1>9 DEF Waiting
<1>13. lock'[s] # Free /\ lock'[s].at = "submit" =>
         /\ lock'[s].sub \in Requests /\ SessionOf[lock'[s].sub] = s
         /\ outcome[lock'[s].sub] = <<>> /\ lock'[s].sub \notin R
         /\ run'[lock'[s].sub] = "none" /\ pc'[lock'[s].sub] \in Late
         /\ \A i \in 1..Len(q) : q[i] # lock'[s].sub
  BY <1>6, <1>8, <1>9 DEF Waiting
<1>14. lock'[s] # Free /\ lock'[s].by = "run" =>
         SessionOf[lock'[s].req] = s /\ run'[lock'[s].req] = "scheduling"
  BY <1>7, <1>8
<1>15. StepShape(s, r, R, o, q)
  BY <1>2, <1>5, <1>8, <1>9, <1>11, <1>12, <1>13, <1>14 DEF StepShape
<1> QED
  BY <1>1, <1>10, <1>15, AnswerStep

Distinct(q) == \A i, j \in 1..Len(q) : q[i] = q[j] => i = j

\* Appending a new element to a sequence without repetitions.
LEMMA AppendDistinct ==
    ASSUME NEW q \in Seq(Requests), NEW r \in Requests, Distinct(q),
           \A i \in 1..Len(q) : q[i] # r
    PROVE  /\ Append(q, r) \in Seq(Requests)
           /\ Distinct(Append(q, r))
           /\ \A i \in 1..Len(Append(q, r)) :
                Append(q, r)[i] = r \/ \E j \in 1..Len(q) : Append(q, r)[i] = q[j]
<1>1. /\ Append(q, r) \in Seq(Requests) /\ Len(Append(q, r)) = Len(q) + 1
      /\ Append(q, r)[Len(q) + 1] = r
      /\ \A i \in 1..Len(q) : Append(q, r)[i] = q[i]
  OBVIOUS
<1>2. Len(q) \in Nat
  OBVIOUS
<1>3. \A i \in 1..(Len(q) + 1) : i = Len(q) + 1 \/ i \in 1..Len(q)
  BY <1>2
<1> QED
  BY <1>1, <1>2, <1>3 DEF Distinct

\* The tail of a sequence without repetitions does not hold its head.
LEMMA TailDistinct ==
    ASSUME NEW q \in Seq(Requests), q # <<>>, Distinct(q)
    PROVE  /\ Tail(q) \in Seq(Requests) /\ Head(q) = q[1] /\ 1 \in 1..Len(q)
           /\ Distinct(Tail(q))
           /\ \A i \in 1..Len(Tail(q)) :
                /\ Tail(q)[i] # Head(q)
                /\ \E j \in 1..Len(q) : Tail(q)[i] = q[j]
<1>1. /\ Tail(q) \in Seq(Requests) /\ Head(q) = q[1] /\ Len(q) >= 1
      /\ Len(Tail(q)) = Len(q) - 1
      /\ \A i \in 1..(Len(q) - 1) : Tail(q)[i] = q[i + 1]
  OBVIOUS
<1>2. Len(q) \in Nat
  OBVIOUS
<1>3. \A i \in 1..(Len(q) - 1) : i + 1 \in 1..Len(q) /\ i + 1 # 1
  BY <1>2
<1>4. ASSUME NEW i \in 1..Len(Tail(q)), NEW j \in 1..Len(Tail(q)), Tail(q)[i] = Tail(q)[j]
      PROVE  i = j
  <2>1. q[i + 1] = q[j + 1] /\ i + 1 \in 1..Len(q) /\ j + 1 \in 1..Len(q)
    BY <1>1, <1>3, <1>4
  <2>2. i + 1 = j + 1
    BY <2>1 DEF Distinct
  <2> QED
    BY <1>1, <1>2, <2>2
<1>5. ASSUME NEW i \in 1..Len(Tail(q))
      PROVE  Tail(q)[i] # Head(q) /\ \E j \in 1..Len(q) : Tail(q)[i] = q[j]
  <2>1. /\ Tail(q)[i] = q[i + 1] /\ i + 1 \in 1..Len(q) /\ i + 1 # 1
        /\ 1 \in 1..Len(q)
    BY <1>1, <1>2, <1>3, <1>5
  <2> QED
    BY <1>1, <2>1 DEF Distinct
<1> QED
  BY <1>1, <1>2, <1>4, <1>5 DEF Distinct

\* The queue of a session under the invariant.
LEMMA QueueOf ==
    ASSUME AnswerInv, NEW s \in Sessions
    PROVE  /\ queue[s] \in Seq(Requests)
           /\ Distinct(queue[s])
           /\ \A i \in 1..Len(queue[s]) :
                queue[s][i] \in Requests /\ Waiting(queue[s][i], s)
<1>1. TypeOK
  BY DEF AnswerInv
<1> QED
  BY <1>1, AnswerFacts DEF TypeOK, Distinct

\* What scheduleNext does to the lock and to the thread that called it.
LEMMA TryEffect ==
    ASSUME TypeOK, NEW s \in Sessions, NEW by \in {"enqueue", "run"},
           NEW r \in Requests, NEW ctx \in Requests \cup {NoReq},
           lock[s] = Free, TryScheduleNext(s, by, r, ctx)
    PROVE  /\ \A z \in Sessions : z # s => lock'[z] = lock[z]
           /\ \/ lock'[s] = Free
              \/ lock'[s].at = "loop" /\ lock'[s].by = by /\ lock'[s].req = r
           /\ \A y \in Requests : y # r => pc'[y] = pc[y] /\ run'[y] = run[y]
           /\ by = "enqueue" => run'[r] = run[r] /\ pc'[r] \in Late
           /\ by = "run" =>
                /\ pc'[r] = pc[r]
                /\ run'[r] = IF lock'[s] = Free THEN "exiting" ELSE "scheduling"
<1>1. /\ pc \in [Requests -> CallStates] /\ run \in [Requests -> RunStates]
      /\ lock \in [Sessions -> Holder \cup {Free}]
  BY DEF TypeOK
<1>2. CASE Leave(by, r) /\ UNCHANGED lock
  BY <1>1, <1>2 DEF Leave, Late
<1>3. CASE StartAvailable(s, by, r, ctx)
  <2>1. [by |-> by, req |-> r, ctx |-> ctx, at |-> "loop", sub |-> NoReq] # Free
    BY FreeAssumption DEF Holder
  <2> QED
    BY <1>1, <1>3, <2>1 DEF StartAvailable, Late
<1> QED
  BY <1>2, <1>3 DEF TryScheduleNext

\* A step that touches nothing the invariant speaks of.
LEMMA Unaffected ==
    ASSUME AnswerInv, TypeOK', UNCHANGED <<pc, run, outcome, queue, lock>>
    PROVE  AnswerInv'
BY DEF AnswerInv, AnsweredOnce, EarlyCalls, QueueEntries, SubmitEntry,
       LockOwner, RunningUnanswered, Idle

\* A step of the goroutine that executes x, outside the critical section.
LEMMA WorkerMoves ==
    ASSUME AnswerInv, TypeOK', NEW x \in Requests,
           run[x] \in {"running", "answered", "exiting"}, run'[x] # "running",
           \A y \in Requests : y # x => run'[y] = run[y],
           UNCHANGED <<pc, queue, lock>>,
           \/ UNCHANGED outcome
           \/ outcome' = Answered({x}, "finished") /\ run[x] = "running"
    PROVE  AnswerInv'
<1>0. TypeOK
  BY DEF AnswerInv
<1> DEFINE s == SessionOf[x]
           R == IF outcome' = outcome THEN {} ELSE {x}
<1>1. s \in Sessions /\ "finished" \in Outcomes
  BY RequestAssumption DEF Outcomes
<1>2. /\ queue[s] \in Seq(Requests) /\ Distinct(queue[s])
      /\ \A i \in 1..Len(queue[s]) : queue[s][i] \in Requests /\ Waiting(queue[s][i], s)
  BY <1>1, QueueOf
<1>3. pc[x] \in Late /\ (run[x] = "running" => outcome[x] = <<>>)
  BY AnswerFacts DEF AnswerInv, RunningUnanswered
<1>4. \A y \in Requests : outcome'[y] = IF y \in R THEN Append(outcome[y], "finished")
                                                ELSE outcome[y]
  BY <1>0, <1>1, AnsweredOf
<1>5. lock[s] # Free /\ lock[s].at = "submit" =>
         /\ lock[s].sub \in Requests /\ Waiting(lock[s].sub, s)
         /\ \A i \in 1..Len(queue[s]) : queue[s][i] # lock[s].sub
  BY <1>1, AnswerFacts
<1>6. lock[s] # Free /\ lock[s].by = "run" =>
        SessionOf[lock[s].req] = s /\ run'[lock[s].req] = "scheduling"
  <2>1. lock[s] # Free => lock[s].req \in Requests
    BY <1>0, <1>1 DEF TypeOK, Holder
  <2>2. lock[s] # Free /\ lock[s].by = "run" =>
          SessionOf[lock[s].req] = s /\ run[lock[s].req] = "scheduling"
    BY <1>1 DEF AnswerInv, LockOwner
  <2> QED
    BY <2>1, <2>2
<1>7. R \in SUBSET {x} /\ (R # {} => run[x] = "running")
  OBVIOUS
<1>8. SessionOf[x] = s
  OBVIOUS
<1> HIDE DEF s, R
<1>9. \A y \in R : /\ outcome[y] = <<>> /\ SessionOf[y] = s
                   /\ pc'[y] \in Late /\ run'[y] # "running"
  BY <1>3, <1>7, <1>8
<1>10. \A i \in 1..Len(queue[s]) :
         /\ SessionOf[queue[s][i]] = s /\ outcome[queue[s][i]] = <<>>
         /\ queue[s][i] \notin R /\ run'[queue[s][i]] = "none"
         /\ pc'[queue[s][i]] \in Late
  BY <1>2, <1>7 DEF Waiting
<1>11. lock'[s] # Free /\ lock'[s].at = "submit" =>
         /\ lock'[s].sub \in Requests /\ SessionOf[lock'[s].sub] = s
         /\ outcome[lock'[s].sub] = <<>> /\ lock'[s].sub \notin R
         /\ run'[lock'[s].sub] = "none" /\ pc'[lock'[s].sub] \in Late
         /\ \A i \in 1..Len(queue[s]) : queue[s][i] # lock'[s].sub
  BY <1>5, <1>7 DEF Waiting
<1>12. StepShape(s, x, R, "finished", queue[s])
  BY <1>1, <1>2, <1>3, <1>4, <1>6, <1>8, <1>9, <1>10, <1>11 DEF StepShape, Distinct
<1> QED
  BY <1>1, <1>2, <1>7, <1>12, AnswerStep

\* A completion takes the mutex, and may stay inside to start the next run.
LEMMA CompleteRunKeeps ==
    ASSUME AnswerInv, TypeOK', NEW r \in Requests, CompleteRun(r)
    PROVE  AnswerInv'
<1>0. TypeOK
  BY DEF AnswerInv
<1> DEFINE s == SessionOf[r]
<1>1. s \in Sessions /\ SessionOf[r] = s /\ parent[s] \in Requests \cup {NoReq}
      /\ "finished" \in Outcomes
  BY <1>0, RequestAssumption DEF TypeOK, Outcomes
<1>2. /\ queue[s] \in Seq(Requests) /\ Distinct(queue[s])
      /\ \A i \in 1..Len(queue[s]) : queue[s][i] \in Requests /\ Waiting(queue[s][i], s)
  BY <1>1, QueueOf
<1>3. /\ run[r] = "answered" /\ lock[s] = Free
      /\ UNCHANGED <<outcome, queue>>
      /\ TryScheduleNext(s, "run", r, parent[s])
  BY DEF CompleteRun, sessVars
<1> HIDE DEF s
<1>4. /\ \A z \in Sessions : z # s => lock'[z] = lock[z]
      /\ \/ lock'[s] = Free
         \/ lock'[s].at = "loop" /\ lock'[s].by = "run" /\ lock'[s].req = r
      /\ \A y \in Requests : y # r => pc'[y] = pc[y] /\ run'[y] = run[y]
      /\ pc'[r] = pc[r]
      /\ run'[r] = IF lock'[s] = Free THEN "exiting" ELSE "scheduling"
  BY <1>0, <1>1, <1>3, TryEffect
<1>5. pc[r] \in Late
  BY <1>3, AnswerFacts
<1>6. \A i \in 1..Len(queue[s]) :
         /\ SessionOf[queue[s][i]] = s /\ outcome[queue[s][i]] = <<>>
         /\ run'[queue[s][i]] = "none"
         /\ pc'[queue[s][i]] \in Late
  BY <1>2, <1>3, <1>4 DEF Waiting
<1>7. StepShape(s, r, {}, "finished", queue[s])
  BY <1>1, <1>2, <1>3, <1>4, <1>5, <1>6 DEF StepShape, Distinct
<1> QED
  BY <1>1, <1>2, <1>7, AnswerStep

\* The timer's callback answers nobody and starts nothing yet.
LEMMA TimerCallbackKeeps ==
    ASSUME AnswerInv, TypeOK', NEW s \in Sessions, NEW c \in Requests,
           TimerCallback(s, c)
    PROVE  AnswerInv'
<1>0. TypeOK
  BY DEF AnswerInv
<1>1. CASE UNCHANGED <<lock, pc, run>>
  BY <1>1, Unaffected DEF TimerCallback
<1>2. CASE StartAvailable(s, "timer", c, c)
  <2>1. /\ queue[s] \in Seq(Requests) /\ Distinct(queue[s])
        /\ \A i \in 1..Len(queue[s]) : queue[s][i] \in Requests /\ Waiting(queue[s][i], s)
    BY QueueOf
  <2>2. /\ UNCHANGED <<outcome, queue, pc, run>>
        /\ \A z \in Sessions : z # s => lock'[z] = lock[z]
        /\ lock'[s].at = "loop" /\ lock'[s].by = "timer"
    BY <1>0, <1>2 DEF StartAvailable, TimerCallback, TypeOK
  <2>3. StepShape(s, c, {}, "finished", queue[s])
    BY <2>1, <2>2 DEF StepShape, Distinct, Waiting
  <2>4. "finished" \in Outcomes
    BY DEF Outcomes
  <2> QED
    BY <2>1, <2>3, <2>4, AnswerStep
<1> QED
  BY <1>1, <1>2 DEF TimerCallback

\* The thread inside startAvailable: what the invariant says of it.
LEMMA HolderFacts ==
    ASSUME AnswerInv, NEW s \in Sessions, lock[s] # Free
    PROVE  /\ lock[s] \in Holder /\ lock[s].req \in Requests
           /\ lock[s].by \in {"enqueue", "timer", "run"}
           /\ lock[s].by = "run" =>
                SessionOf[lock[s].req] = s /\ run[lock[s].req] = "scheduling"
           /\ lock[s].at = "submit" =>
                /\ lock[s].sub \in Requests /\ Waiting(lock[s].sub, s)
                /\ \A i \in 1..Len(queue[s]) : queue[s][i] # lock[s].sub
<1>1. lock[s] \in Holder
  BY DEF AnswerInv, TypeOK
<1> QED
  BY <1>1, AnswerFacts DEF AnswerInv, LockOwner, Holder

\* The loop ends and the mutex is released.
LEMMA StopStartingKeeps ==
    ASSUME AnswerInv, TypeOK', NEW s \in Sessions, StopStarting(s)
    PROVE  AnswerInv'
<1>0. /\ pc \in [Requests -> CallStates] /\ run \in [Requests -> RunStates]
      /\ lock \in [Sessions -> Holder \cup {Free}]
  BY DEF AnswerInv, TypeOK
<1>1. /\ lock[s] # Free /\ UNCHANGED <<outcome, queue>>
      /\ Leave(lock[s].by, lock[s].req)
      /\ lock' = [lock EXCEPT ![s] = Free]
  BY DEF StopStarting
<1>2. /\ lock[s].req \in Requests
      /\ lock[s].by = "run" =>
           SessionOf[lock[s].req] = s /\ run[lock[s].req] = "scheduling"
  BY <1>1, HolderFacts
<1>3. /\ queue[s] \in Seq(Requests) /\ Distinct(queue[s])
      /\ \A i \in 1..Len(queue[s]) : queue[s][i] \in Requests /\ Waiting(queue[s][i], s)
  BY QueueOf
<1> DEFINE x == lock[s].req
<1>4. /\ x \in Requests /\ lock'[s] = Free
      /\ \A z \in Sessions : z # s => lock'[z] = lock[z]
      /\ \A y \in Requests : y # x => run'[y] = run[y]
      /\ \A y \in Requests : pc[y] \in Late => pc'[y] \in Late
  BY <1>0, <1>1, <1>2 DEF Leave, Late
<1>5. \/ run'[x] = run[x]
      \/ /\ SessionOf[x] = s /\ run[x] = "scheduling"
         /\ run'[x] = "exiting" /\ pc' = pc
  BY <1>0, <1>1, <1>2 DEF Leave
<1> HIDE DEF x
<1>6. \/ run'[x] = run[x]
      \/ SessionOf[x] = s /\ pc'[x] \in Late /\ run'[x] # "running"
  BY <1>4, <1>5, AnswerFacts
<1>7. \A i \in 1..Len(queue[s]) :
         /\ SessionOf[queue[s][i]] = s /\ outcome[queue[s][i]] = <<>>
         /\ run'[queue[s][i]] = "none"
         /\ pc'[queue[s][i]] \in Late
  BY <1>3, <1>4, <1>5 DEF Waiting
<1>8. StepShape(s, x, {}, "finished", queue[s])
  BY <1>1, <1>3, <1>4, <1>6, <1>7 DEF StepShape, Distinct
<1>9. "finished" \in Outcomes
  BY DEF Outcomes
<1> QED
  BY <1>3, <1>4, <1>8, <1>9, AnswerStep

\* The head of a queue and what is left behind it.
LEMMA HeadOf ==
    ASSUME AnswerInv, NEW s \in Sessions, queue[s] # <<>>
    PROVE  /\ Head(queue[s]) \in Requests /\ Waiting(Head(queue[s]), s)
           /\ Tail(queue[s]) \in Seq(Requests) /\ Distinct(Tail(queue[s]))
           /\ \A i \in 1..Len(Tail(queue[s])) :
                /\ Tail(queue[s])[i] # Head(queue[s])
                /\ Tail(queue[s])[i] \in Requests /\ Waiting(Tail(queue[s])[i], s)
                /\ \E j \in 1..Len(queue[s]) : Tail(queue[s])[i] = queue[s][j]
<1>1. /\ queue[s] \in Seq(Requests) /\ Distinct(queue[s])
      /\ \A i \in 1..Len(queue[s]) : queue[s][i] \in Requests /\ Waiting(queue[s][i], s)
  BY QueueOf
<1>2. /\ Tail(queue[s]) \in Seq(Requests) /\ Distinct(Tail(queue[s]))
      /\ Head(queue[s]) = queue[s][1] /\ 1 \in 1..Len(queue[s])
      /\ \A i \in 1..Len(Tail(queue[s])) :
           /\ Tail(queue[s])[i] # Head(queue[s])
           /\ \E j \in 1..Len(queue[s]) : Tail(queue[s])[i] = queue[s][j]
  BY <1>1, TailDistinct
<1>3. ASSUME NEW i \in 1..Len(Tail(queue[s]))
      PROVE  Tail(queue[s])[i] \in Requests /\ Waiting(Tail(queue[s])[i], s)
  <2>1. PICK j \in 1..Len(queue[s]) : Tail(queue[s])[i] = queue[s][j]
    BY <1>2
  <2> QED
    BY <1>1, <2>1
<1> QED
  BY <1>1, <1>2, <1>3

\* A skipped head is answered and is in the queue no more.
LEMMA SkipStaleKeeps ==
    ASSUME AnswerInv, TypeOK', NEW s \in Sessions, SkipStale(s)
    PROVE  AnswerInv'
<1> DEFINE h == Head(queue[s])
           q == Tail(queue[s])
<1>0. TypeOK /\ "stale" \in Outcomes
  BY DEF AnswerInv, Outcomes
<1>1. /\ lock[s] # Free /\ queue[s] # <<>>
      /\ outcome' = Answered({h}, "stale")
      /\ queue' = [queue EXCEPT ![s] = q]
      /\ lock' = LockAt(s, "pop", NoReq)
      /\ UNCHANGED <<pc, run>>
  BY DEF SkipStale, MayPop, runVars
<1>2. /\ h \in Requests /\ Waiting(h, s)
      /\ q \in Seq(Requests) /\ Distinct(q)
      /\ \A i \in 1..Len(q) : q[i] # h /\ q[i] \in Requests /\ Waiting(q[i], s)
  BY <1>1, HeadOf
<1>3. /\ lock[s].by = "run" =>
           SessionOf[lock[s].req] = s /\ run[lock[s].req] = "scheduling"
  BY <1>1, HolderFacts
<1>4. /\ \A z \in Sessions : z # s => lock'[z] = lock[z] /\ queue'[z] = queue[z]
      /\ queue'[s] = q
      /\ lock'[s].by = lock[s].by /\ lock'[s].req = lock[s].req /\ lock'[s].at = "pop"
  <2>1. queue \in [Sessions -> Seq(Requests)]
    BY <1>0 DEF TypeOK
  <2>2. /\ \A z \in Sessions : z # s => lock'[z] = lock[z]
        /\ lock'[s].by = lock[s].by /\ lock'[s].req = lock[s].req
        /\ lock'[s].at = "pop"
    BY <1>0, <1>1, LockAtOf
  <2> QED
    BY <1>1, <2>1, <2>2
<1>5. \A y \in Requests : outcome'[y] = IF y \in {h} THEN Append(outcome[y], "stale")
                                                ELSE outcome[y]
  BY <1>0, <1>1, AnsweredOf
<1> HIDE DEF h, q
<1>6. StepShape(s, h, {h}, "stale", q)
  BY <1>1, <1>2, <1>3, <1>4, <1>5 DEF StepShape, Distinct, Waiting
<1> QED
  BY <1>0, <1>2, <1>6, AnswerStep

\* A fresh head goes from the queue to the thread that submits it.
LEMMA StartOneKeeps ==
    ASSUME AnswerInv, TypeOK', NEW s \in Sessions, StartOne(s)
    PROVE  AnswerInv'
<1> DEFINE h == Head(queue[s])
           q == Tail(queue[s])
<1>0. TypeOK /\ "stale" \in Outcomes
  BY DEF AnswerInv, Outcomes
<1>1. /\ lock[s] # Free /\ queue[s] # <<>>
      /\ queue' = [queue EXCEPT ![s] = q]
      /\ lock' = LockAt(s, "submit", h)
      /\ UNCHANGED <<pc, run, outcome>>
  BY DEF StartOne, MayPop, callVars
<1>2. /\ h \in Requests /\ Waiting(h, s)
      /\ q \in Seq(Requests) /\ Distinct(q)
      /\ \A i \in 1..Len(q) : q[i] # h /\ q[i] \in Requests /\ Waiting(q[i], s)
  BY <1>1, HeadOf
<1>3. /\ lock[s].by = "run" =>
           SessionOf[lock[s].req] = s /\ run[lock[s].req] = "scheduling"
  BY <1>1, HolderFacts
<1>4. /\ \A z \in Sessions : z # s => lock'[z] = lock[z] /\ queue'[z] = queue[z]
      /\ queue'[s] = q
      /\ lock'[s].by = lock[s].by /\ lock'[s].req = lock[s].req
      /\ lock'[s].at = "submit" /\ lock'[s].sub = h
  <2>1. queue \in [Sessions -> Seq(Requests)]
    BY <1>0 DEF TypeOK
  <2>2. /\ \A z \in Sessions : z # s => lock'[z] = lock[z]
        /\ lock'[s].by = lock[s].by /\ lock'[s].req = lock[s].req
        /\ lock'[s].at = "submit" /\ lock'[s].sub = h
    BY <1>0, <1>1, LockAtOf
  <2> QED
    BY <1>1, <2>1, <2>2
<1> HIDE DEF h, q
<1>5. StepShape(s, h, {}, "stale", q)
  BY <1>1, <1>2, <1>3, <1>4 DEF StepShape, Distinct, Waiting
<1> QED
  BY <1>0, <1>2, <1>5, AnswerStep

\* A submitted request that gets a token becomes a run.
LEMMA SubmitTokenKeeps ==
    ASSUME AnswerInv, TypeOK', NEW s \in Sessions, SubmitToken(s)
    PROVE  AnswerInv'
<1> DEFINE x == lock[s].sub
<1>0. TypeOK /\ "stale" \in Outcomes /\ run \in [Requests -> RunStates]
  BY DEF AnswerInv, Outcomes, TypeOK
<1>1. /\ lock[s] # Free /\ lock[s].at = "submit"
      /\ run' = [run EXCEPT ![x] = "running"]
      /\ lock' = LockAt(s, "loop", NoReq)
      /\ UNCHANGED <<pc, queue, outcome>>
  BY DEF SubmitToken, callVars
<1>2. /\ x \in Requests /\ Waiting(x, s)
      /\ \A i \in 1..Len(queue[s]) : queue[s][i] # x
      /\ lock[s].req \in Requests
      /\ lock[s].by = "run" =>
           SessionOf[lock[s].req] = s /\ run[lock[s].req] = "scheduling"
  BY <1>1, HolderFacts
<1>3. /\ queue[s] \in Seq(Requests) /\ Distinct(queue[s])
      /\ \A i \in 1..Len(queue[s]) : queue[s][i] \in Requests /\ Waiting(queue[s][i], s)
  BY QueueOf
<1>4. /\ \A z \in Sessions : z # s => lock'[z] = lock[z]
      /\ lock'[s].by = lock[s].by /\ lock'[s].req = lock[s].req
      /\ lock'[s].at = "loop"
  BY <1>0, <1>1, LockAtOf
<1>5. /\ \A y \in Requests : y # x => run'[y] = run[y]
      /\ lock[s].by = "run" => run'[lock[s].req] = "scheduling"
  BY <1>0, <1>1, <1>2 DEF Waiting
<1> HIDE DEF x
<1>6. \A i \in 1..Len(queue[s]) :
         /\ SessionOf[queue[s][i]] = s /\ outcome[queue[s][i]] = <<>>
         /\ run'[queue[s][i]] = "none"
         /\ pc'[queue[s][i]] \in Late
  BY <1>1, <1>2, <1>3, <1>5 DEF Waiting
<1>7. StepShape(s, x, {}, "stale", queue[s])
  BY <1>1, <1>2, <1>3, <1>4, <1>5, <1>6 DEF StepShape, Distinct, Waiting
<1> QED
  BY <1>0, <1>2, <1>3, <1>7, AnswerStep

\* A refused request is answered by the thread that submitted it.
LEMMA SubmitRefusedKeeps ==
    ASSUME AnswerInv, TypeOK', NEW s \in Sessions, SubmitRefused(s)
    PROVE  AnswerInv'
<1> DEFINE x == lock[s].sub
<1>0. TypeOK /\ "canceled" \in Outcomes
  BY DEF AnswerInv, Outcomes
<1>1. /\ lock[s] # Free /\ lock[s].at = "submit"
      /\ outcome' = Answered({x}, "canceled")
      /\ lock' = LockAt(s, "loop", NoReq)
      /\ UNCHANGED <<pc, queue, run>>
  BY DEF SubmitRefused, runVars
<1>2. /\ x \in Requests /\ Waiting(x, s)
      /\ \A i \in 1..Len(queue[s]) : queue[s][i] # x
      /\ lock[s].by = "run" =>
           SessionOf[lock[s].req] = s /\ run[lock[s].req] = "scheduling"
  BY <1>1, HolderFacts
<1>3. /\ queue[s] \in Seq(Requests) /\ Distinct(queue[s])
      /\ \A i \in 1..Len(queue[s]) : queue[s][i] \in Requests /\ Waiting(queue[s][i], s)
  BY QueueOf
<1>4. /\ \A z \in Sessions : z # s => lock'[z] = lock[z]
      /\ lock'[s].by = lock[s].by /\ lock'[s].req = lock[s].req
      /\ lock'[s].at = "loop"
  BY <1>0, <1>1, LockAtOf
<1>5. \A y \in Requests : outcome'[y] = IF y \in {x} THEN Append(outcome[y], "canceled")
                                                ELSE outcome[y]
  BY <1>0, <1>1, AnsweredOf
<1> HIDE DEF x
<1>6. StepShape(s, x, {x}, "canceled", queue[s])
  BY <1>1, <1>2, <1>3, <1>4, <1>5 DEF StepShape, Distinct, Waiting
<1> QED
  BY <1>0, <1>2, <1>3, <1>6, AnswerStep

\* Enqueue in queue mode: r is appended, or answered, or replaces the head.
LEMMA EnqueueFifoKeeps ==
    ASSUME AnswerInv, TypeOK', NEW r \in Requests, EnqueueFifo(r)
    PROVE  AnswerInv'
<1> DEFINE s == SessionOf[r]
<1>0. /\ TypeOK /\ s \in Sessions /\ SessionOf[r] = s
      /\ {"dropped", "full"} \subseteq Outcomes
  BY RequestAssumption DEF AnswerInv, Outcomes
<1>1. /\ pc[r] = "stamped" /\ lock[s] = Free
      /\ TryScheduleNext(s, "enqueue", r, r)
  BY DEF EnqueueFifo
<1>2. \/ /\ queue' = [queue EXCEPT ![s] = Append(queue[s], r)]
         /\ UNCHANGED outcome
      \/ /\ Len(queue[s]) >= Cap
         /\ queue' = [queue EXCEPT ![s] = Append(Tail(queue[s]), r)]
         /\ outcome' = Answered({Head(queue[s])}, "dropped")
      \/ outcome' = Answered({r}, "full") /\ UNCHANGED queue
  BY DEF EnqueueFifo
<1> HIDE DEF s
<1>3. /\ \A z \in Sessions : z # s => lock'[z] = lock[z]
      /\ \/ lock'[s] = Free
         \/ lock'[s].at = "loop" /\ lock'[s].by = "enqueue"
      /\ \A y \in Requests : y # r => pc'[y] = pc[y] /\ run'[y] = run[y]
      /\ run'[r] = run[r] /\ pc'[r] \in Late
  BY <1>0, <1>1, TryEffect
<1>4. outcome[r] = <<>> /\ run[r] = "none" /\ pc[r] \notin Late
  BY <1>1, AnswerFacts DEF Late
<1>5. /\ queue[s] \in Seq(Requests) /\ Distinct(queue[s])
      /\ \A i \in 1..Len(queue[s]) : /\ queue[s][i] \in Requests
                                     /\ Waiting(queue[s][i], s) /\ queue[s][i] # r
  BY <1>0, <1>4, QueueOf DEF Waiting
<1>6. queue \in [Sessions -> Seq(Requests)]
  BY <1>0 DEF TypeOK
<1>7. CASE /\ queue' = [queue EXCEPT ![s] = Append(queue[s], r)]
           /\ UNCHANGED outcome
  <2> DEFINE q == Append(queue[s], r)
  <2>1. /\ q \in Seq(Requests) /\ Distinct(q)
        /\ \A i \in 1..Len(q) : q[i] = r \/ \E j \in 1..Len(queue[s]) : q[i] = queue[s][j]
    BY <1>5, AppendDistinct
  <2>2. queue'[s] = q /\ \A z \in Sessions : z # s => queue'[z] = queue[z]
    BY <1>0, <1>6, <1>7
  <2> HIDE DEF q
  <2>3. ASSUME NEW i \in 1..Len(q)
        PROVE  /\ SessionOf[q[i]] = s /\ outcome[q[i]] = <<>>
               /\ run'[q[i]] = "none" /\ pc'[q[i]] \in Late
    BY <1>0, <1>3, <1>4, <1>5, <2>1 DEF Waiting
  <2>4. StepShape(s, r, {}, "full", q)
    BY <1>3, <1>7, <2>1, <2>2, <2>3 DEF StepShape, Distinct
  <2> QED
    BY <1>0, <2>1, <2>4, AnswerStep
<1>8. CASE /\ Len(queue[s]) >= Cap
           /\ queue' = [queue EXCEPT ![s] = Append(Tail(queue[s]), r)]
           /\ outcome' = Answered({Head(queue[s])}, "dropped")
  <2> DEFINE q == Append(Tail(queue[s]), r)
             h == Head(queue[s])
  <2>0. queue[s] # <<>>
    BY <1>5, <1>8, ConfigAssumption
  <2>1. /\ h \in Requests /\ Waiting(h, s)
        /\ Tail(queue[s]) \in Seq(Requests) /\ Distinct(Tail(queue[s]))
        /\ \A i \in 1..Len(Tail(queue[s])) :
             /\ Tail(queue[s])[i] # h
             /\ Tail(queue[s])[i] \in Requests /\ Waiting(Tail(queue[s])[i], s)
             /\ \E j \in 1..Len(queue[s]) : Tail(queue[s])[i] = queue[s][j]
    BY <1>0, <2>0, HeadOf
  <2>2. \A i \in 1..Len(Tail(queue[s])) : Tail(queue[s])[i] # r
    BY <1>5, <2>1
  <2>3. /\ q \in Seq(Requests) /\ Distinct(q)
        /\ \A i \in 1..Len(q) :
             q[i] = r \/ \E j \in 1..Len(Tail(queue[s])) : q[i] = Tail(queue[s])[j]
    BY <2>1, <2>2, AppendDistinct
  <2>4. queue'[s] = q /\ \A z \in Sessions : z # s => queue'[z] = queue[z]
    BY <1>0, <1>6, <1>8
  <2>5. \A y \in Requests : outcome'[y] = IF y \in {h} THEN Append(outcome[y], "dropped")
                                                  ELSE outcome[y]
    BY <1>0, <1>8, AnsweredOf
  <2>6. h # r
    BY <1>4, <2>1 DEF Waiting
  <2> HIDE DEF q, h
  <2>7. ASSUME NEW i \in 1..Len(q)
        PROVE  /\ SessionOf[q[i]] = s /\ outcome[q[i]] = <<>> /\ q[i] # h
               /\ run'[q[i]] = "none" /\ pc'[q[i]] \in Late
    BY <1>0, <1>3, <1>4, <2>1, <2>2, <2>3, <2>6 DEF Waiting
  <2>8. SessionOf[h] = s /\ outcome[h] = <<>> /\ pc'[h] \in Late /\ run'[h] # "running"
    BY <1>3, <2>1, <2>6 DEF Waiting
  <2>9. StepShape(s, r, {h}, "dropped", q)
    BY <1>3, <2>3, <2>4, <2>5, <2>7, <2>8 DEF StepShape, Distinct
  <2> QED
    BY <1>0, <2>1, <2>3, <2>9, AnswerStep
<1>9. CASE outcome' = Answered({r}, "full") /\ UNCHANGED queue
  <2>1. \A y \in Requests : outcome'[y] = IF y \in {r} THEN Append(outcome[y], "full")
                                                  ELSE outcome[y]
    BY <1>0, <1>9, AnsweredOf
  <2>2. \A i \in 1..Len(queue[s]) :
          /\ SessionOf[queue[s][i]] = s /\ outcome[queue[s][i]] = <<>>
          /\ run'[queue[s][i]] = "none" /\ pc'[queue[s][i]] \in Late
    BY <1>3, <1>5 DEF Waiting
  <2>3. StepShape(s, r, {r}, "full", queue[s])
    BY <1>0, <1>3, <1>4, <1>5, <1>9, <2>1, <2>2 DEF StepShape, Distinct
  <2> QED
    BY <1>0, <1>5, <2>3, AnswerStep
<1> QED
  BY <1>2, <1>7, <1>8, <1>9

\* The requests that a drain of the queue of s answers.
LEMMA DrainedOf ==
    ASSUME AnswerInv, NEW s \in Sessions
    PROVE  /\ Members(queue[s]) \in SUBSET Requests
           /\ \A y \in Members(queue[s]) : Waiting(y, s)
<1>1. /\ queue[s] \in Seq(Requests)
      /\ \A i \in 1..Len(queue[s]) : queue[s][i] \in Requests /\ Waiting(queue[s][i], s)
  BY QueueOf
<1>2. DOMAIN queue[s] = 1..Len(queue[s])
  BY <1>1
<1> QED
  BY <1>1, <1>2 DEF Members

\* Enqueue in interrupt mode: the queue is drained, r takes its place.
LEMMA EnqueueInterruptKeeps ==
    ASSUME AnswerInv, TypeOK', NEW r \in Requests, EnqueueInterrupt(r)
    PROVE  AnswerInv'
<1> DEFINE s == SessionOf[r]
<1>0. TypeOK /\ s \in Sessions /\ SessionOf[r] = s /\ "canceled" \in Outcomes
  BY RequestAssumption DEF AnswerInv, Outcomes
<1>1. /\ pc[r] = "stamped" /\ lock[s] = Free
      /\ outcome' = Answered(Members(queue[s]), "canceled")
      /\ queue' = [queue EXCEPT ![s] = <<r>>]
      /\ TryScheduleNext(s, "enqueue", r, r)
  BY DEF EnqueueInterrupt
<1> HIDE DEF s
<1> DEFINE R == Members(queue[s])
           q == <<r>>
<1>2. /\ \A z \in Sessions : z # s => lock'[z] = lock[z]
      /\ \/ lock'[s] = Free
         \/ lock'[s].at = "loop" /\ lock'[s].by = "enqueue"
      /\ \A y \in Requests : y # r => pc'[y] = pc[y] /\ run'[y] = run[y]
      /\ run'[r] = run[r] /\ pc'[r] \in Late
  BY <1>0, <1>1, TryEffect
<1>3. outcome[r] = <<>> /\ run[r] = "none" /\ pc[r] \notin Late
  BY <1>1, AnswerFacts DEF Late
<1>4. R \in SUBSET Requests /\ \A y \in R : Waiting(y, s) /\ y # r
  BY <1>0, <1>3, DrainedOf DEF Waiting
<1>5. queue'[s] = q /\ \A z \in Sessions : z # s => queue'[z] = queue[z]
  BY <1>0, <1>1 DEF TypeOK
<1>6. \A y \in Requests : outcome'[y] = IF y \in R THEN Append(outcome[y], "canceled")
                                                ELSE outcome[y]
  BY <1>0, <1>1, AnsweredOf
<1>7. q \in Seq(Requests) /\ \A i \in 1..Len(q) : i = 1 /\ q[i] = r
  OBVIOUS
<1> HIDE DEF R, q
<1>8. \A y \in R : /\ outcome[y] = <<>> /\ SessionOf[y] = s
                   /\ pc'[y] \in Late /\ run'[y] # "running"
  BY <1>2, <1>4 DEF Waiting
<1>9. \A i \in 1..Len(q) : /\ SessionOf[q[i]] = s /\ outcome[q[i]] = <<>>
                           /\ q[i] \notin R /\ run'[q[i]] = "none"
                           /\ pc'[q[i]] \in Late
  BY <1>0, <1>2, <1>3, <1>4, <1>7
<1>10. \A i, j \in 1..Len(q) : q[i] = q[j] => i = j
  BY <1>7
<1>11. StepShape(s, r, R, "canceled", q)
  BY <1>2, <1>5, <1>6, <1>8, <1>9, <1>10 DEF StepShape
<1> QED
  BY <1>0, <1>4, <1>7, <1>11, AnswerStep

\* /stopall and Reset drain the queue of a session outside the critical section.
LEMMA DrainKeeps ==
    ASSUME AnswerInv, TypeOK', NEW s \in Sessions, NEW o \in Outcomes,
           lock[s] = Free, DropEverything(s, o), UNCHANGED <<pc, run, lock>>,
           NEW x \in Requests
    PROVE  AnswerInv'
<1> DEFINE R == Members(queue[s])
           q == <<>>
<1>0. TypeOK
  BY DEF AnswerInv
<1>1. R \in SUBSET Requests /\ \A y \in R : Waiting(y, s)
  BY DrainedOf
<1>2. queue'[s] = q /\ \A z \in Sessions : z # s => queue'[z] = queue[z]
  BY <1>0 DEF DropEverything, TypeOK
<1>3. \A y \in Requests : outcome'[y] = IF y \in R THEN Append(outcome[y], o)
                                                ELSE outcome[y]
  BY <1>0, AnsweredOf DEF DropEverything
<1>4. q \in Seq(Requests) /\ 1..Len(q) = {}
  OBVIOUS
<1> HIDE DEF R, q
<1>5. \A y \in R : /\ outcome[y] = <<>> /\ SessionOf[y] = s
                   /\ pc'[y] \in Late /\ run'[y] # "running"
  BY <1>1 DEF Waiting
<1>6. StepShape(s, x, R, o, q)
  BY <1>2, <1>3, <1>4, <1>5 DEF StepShape
<1> QED
  BY <1>1, <1>4, <1>6, AnswerStep

\* Without requests nothing can be answered.
LEMMA NoRequestsKeeps ==
    ASSUME TypeOK', Requests = {}
    PROVE  AnswerInv'
<1>1. /\ queue' \in [Sessions -> Seq(Requests)]
      /\ lock' \in [Sessions -> Holder \cup {Free}]
  BY DEF TypeOK
<1>2. ASSUME NEW s \in Sessions, NEW i \in 1..Len(queue'[s])
      PROVE  FALSE
  <2>1. queue'[s] \in Seq(Requests)
    BY <1>1
  <2>2. queue'[s][i] \in Requests
    BY <2>1, <1>2
  <2> QED
    BY <2>2
<1>3. \A s \in Sessions : lock'[s] = Free
  BY <1>1 DEF Holder
<1> QED
  BY <1>2, <1>3, AnswerGoal

\* /stopall keeps AnswerInv.
LEMMA CancelAllKeeps ==
    ASSUME AnswerInv, TypeOK', NEW s \in Sessions, CancelAll(s)
    PROVE  AnswerInv'
<1>1. /\ lock[s] = Free /\ DropEverything(s, "canceled")
      /\ UNCHANGED <<pc, run, lock>> /\ "canceled" \in Outcomes
  BY DEF CancelAll, Outcomes
<1>2. CASE Requests = {}
  BY <1>2, NoRequestsKeeps
<1>3. CASE \E x \in Requests : TRUE
  BY <1>1, <1>3, DrainKeeps
<1> QED
  BY <1>2, <1>3

\* Reset keeps AnswerInv.
LEMMA ResetKeeps ==
    ASSUME AnswerInv, TypeOK', NEW s \in Sessions, Reset(s)
    PROVE  AnswerInv'
<1>1. /\ lock[s] = Free /\ DropEverything(s, "cleared")
      /\ UNCHANGED <<pc, run, lock>> /\ "cleared" \in Outcomes
  BY DEF Reset, Outcomes
<1>2. CASE Requests = {}
  BY <1>2, NoRequestsKeeps
<1>3. CASE \E x \in Requests : TRUE
  BY <1>1, <1>3, DrainKeeps
<1> QED
  BY <1>2, <1>3

\* Schedule up to the queue keeps AnswerInv.
LEMMA CallerKeeps ==
    ASSUME AnswerInv, TypeOK', NEW r \in Requests,
           ScheduleRefused(r) \/ Schedule(r) \/ SetMaxConcurrent(r) \/ Stamp(r)
    PROVE  AnswerInv'
<1>0. pc \in [Requests -> CallStates]
  BY DEF AnswerInv, TypeOK
<1>1. pc[r] \notin Late /\ UNCHANGED <<run, queue, lock>>
  BY DEF ScheduleRefused, Schedule, SetMaxConcurrent, Stamp, Late, runVars
<1>2. \A y \in Requests : y # r => pc'[y] = pc[y]
  BY <1>0 DEF ScheduleRefused, Schedule, SetMaxConcurrent, Stamp
<1>3. \/ UNCHANGED outcome
      \/ pc'[r] \in Late /\ \E o \in Outcomes : outcome' = Answered({r}, o)
  <2>1. CASE ScheduleRefused(r)
    <3>1. outcome' = Answered({r}, "draining") /\ pc'[r] \in Late
      BY <1>0, <2>1 DEF ScheduleRefused, Late
    <3> QED
      BY <3>1 DEF Outcomes
  <2>2. CASE Schedule(r) \/ SetMaxConcurrent(r) \/ Stamp(r)
    BY <2>2 DEF Schedule, SetMaxConcurrent, Stamp
  <2> QED
    BY <2>1, <2>2
<1> QED
  BY <1>1, <1>2, <1>3, CallerMoves

\* Finishing, leaving after an old generation, and returning the token.
LEMMA WorkerKeeps ==
    ASSUME AnswerInv, TypeOK', NEW r \in Requests,
           FinishRun(r) \/ CompleteOldRun(r) \/ ReturnToken(r)
    PROVE  AnswerInv'
<1>0. run \in [Requests -> RunStates]
  BY DEF AnswerInv, TypeOK
<1>1. /\ run[r] \in {"running", "answered", "exiting"}
      /\ UNCHANGED <<pc, queue, lock>>
  BY DEF FinishRun, CompleteOldRun, ReturnToken, callVars
<1>2. run'[r] # "running" /\ \A y \in Requests : y # r => run'[y] = run[y]
  BY <1>0 DEF FinishRun, CompleteOldRun, ReturnToken
<1>3. \/ UNCHANGED outcome
      \/ outcome' = Answered({r}, "finished") /\ run[r] = "running"
  BY DEF FinishRun, CompleteOldRun, ReturnToken, callVars
<1> QED
  BY <1>1, <1>2, <1>3, WorkerMoves

\* AnswerInv holds at the start.
LEMMA AnswerInvInit == Init => AnswerInv
<1> SUFFICES ASSUME Init PROVE AnswerInv
  OBVIOUS
<1>1. TypeOK
  BY TypeOKInit
<1>2. /\ \A r \in Requests : outcome[r] = <<>> /\ run[r] = "none"
      /\ \A s \in Sessions : queue[s] = <<>> /\ lock[s] = Free
  BY DEF Init
<1>3. Len(<<>>) = 0
  OBVIOUS
<1>4. AnsweredOnce
  BY <1>2, <1>3 DEF AnsweredOnce
<1>5. QueueEntries
  BY <1>2, <1>3 DEF QueueEntries
<1> QED
  BY <1>1, <1>2, <1>4, <1>5 DEF AnswerInv, EarlyCalls, SubmitEntry, LockOwner,
     RunningUnanswered, Idle

\* Every step keeps AnswerInv.
LEMMA AnswerInvStep == AnswerInv /\ [Next]_vars => AnswerInv'
<1> SUFFICES ASSUME AnswerInv, [Next]_vars PROVE AnswerInv'
  OBVIOUS
<1>0. TypeOK /\ TypeOK'
  BY TypeOKStep DEF AnswerInv
<1>1. ASSUME NEW r \in Requests, CallerStep(r) PROVE AnswerInv'
  BY <1>0, <1>1, CallerKeeps, EnqueueFifoKeeps, EnqueueInterruptKeeps DEF CallerStep
<1>2. ASSUME NEW r \in Requests, RunStep(r) PROVE AnswerInv'
  BY <1>0, <1>2, WorkerKeeps, CompleteRunKeeps DEF RunStep
<1>3. ASSUME NEW s \in Sessions, TimerStep(s) PROVE AnswerInv'
  <2>1. CASE TimerFires(s)
    BY <1>0, <2>1, Unaffected DEF TimerFires, callVars, runVars
  <2>2. CASE \E c \in Requests : TimerCallback(s, c)
    BY <1>0, <2>2, TimerCallbackKeeps
  <2> QED
    BY <1>3, <2>1, <2>2 DEF TimerStep
<1>4. ASSUME NEW s \in Sessions, LockStep(s) PROVE AnswerInv'
  BY <1>0, <1>4, StopStartingKeeps, SkipStaleKeeps, StartOneKeeps, SubmitTokenKeeps,
     SubmitRefusedKeeps DEF LockStep
<1>5. ASSUME NEW s \in Sessions, CommandStep(s) PROVE AnswerInv'
  <2>1. CASE CancelOne(s)
    BY <1>0, <2>1, Unaffected DEF CancelOne, callVars
  <2> QED
    BY <1>0, <1>5, <2>1, CancelAllKeeps, ResetKeeps DEF CommandStep
<1>6. CASE Shutdown \/ HaltStep
  BY <1>0, <1>6, Unaffected DEF Shutdown, HaltStep, MarkDraining, StopReturns, StopLane,
     callVars, runVars
<1>7. CASE UNCHANGED vars
  BY <1>0, <1>7, Unaffected DEF vars
<1> QED
  BY <1>1, <1>2, <1>3, <1>4, <1>5, <1>6, <1>7 DEF Next

\* No result channel is ever written twice, so no send or close of one panics.
THEOREM SchedulerAnsweredOnce == Spec => []AnsweredOnce
<1>1. AnswerInv => AnsweredOnce
  BY DEF AnswerInv
<1> QED
  BY <1>1, AnswerInvInit, AnswerInvStep, PTL DEF Spec
-----------------------------------------------------------------------------
(* Lanes: no token is lost or duplicated. *)

\* The states of the goroutine of a run that Lane.wg counts.
WorkStates == {"running", "answered", "scheduling", "exiting"}

\* The calls that have been given a lane and are not in the queue yet.
Mid == {"admitted", "sized", "stamped"}

\* A step that binds no session twice and answers nobody's answer away, and in
\* which whoever needs a lane has one.
LaneShape ==
    /\ \A s \in Sessions : lane[s] # NoLane => lane'[s] = lane[s]
    /\ \A r \in Requests : pc'[r] \in Mid => pc[r] \in Mid \/ lane'[SessionOf[r]] # NoLane
    /\ \A r \in Requests :
         run'[r] # "none" => run[r] # "none" \/ lane'[SessionOf[r]] # NoLane
    /\ \A s \in Sessions : queue'[s] # <<>> => queue[s] # <<>> \/ lane'[s] # NoLane
    /\ \A s \in Sessions : lock'[s] # Free => lock[s] # Free \/ lane'[s] # NoLane
    /\ \A r \in Requests : outcome[r] # <<>> => outcome'[r] # <<>>
    /\ \A r \in Requests :
         run'[r] \notin {"none", "running"} =>
           run[r] \notin {"none", "running"} \/ outcome'[r] # <<>>
    /\ \A r \in Requests : pc[r] \in Late => pc'[r] \in Late
    /\ \A s \in Sessions : lock'[s] # Free /\ lock'[s].by = "enqueue" =>
         \/ lock[s] # Free /\ lock'[s].by = lock[s].by /\ lock'[s].req = lock[s].req
         \/ pc'[lock'[s].req] \in Late

\* Such a step keeps the bookkeeping of lanes if it keeps the tokens.
LEMMA LaneGoal ==
    ASSUME LaneInv, AnswerInv', LaneShape, TokensConserved'
    PROVE  LaneInv'
<1>1. LaneKnown'
  BY RequestAssumption DEF LaneInv, LaneKnown, LaneShape, Mid
<1>2. EndedAnswered'
  BY DEF LaneInv, EndedAnswered, LaneShape
<1>3. EnqueueOwner'
  <2>1. \A s \in Sessions : lock[s] # Free => lock[s].req \in Requests
    BY HolderFacts DEF LaneInv
  <2> QED
    BY <2>1 DEF LaneInv, EnqueueOwner, LaneShape, Late
<1> QED
  BY <1>1, <1>2, <1>3 DEF LaneInv

\* The work of a lane is finite.
LEMMA WorkingFinite ==
    ASSUME NEW l
    PROVE  /\ Working(l) \in SUBSET Requests /\ IsFiniteSet(Working(l))
           /\ Cardinality(Working(l)) \in Nat
<1>1. Working(l) \in SUBSET Requests
  BY DEF Working
<1> QED
  BY <1>1, FiniteAssumption, FS_Subset, FS_CardinalityType

\* A step in which no run begins or gives back its token.
LEMMA LaneQuiet ==
    ASSUME LaneInv, AnswerInv', LaneShape, UNCHANGED tokens,
           \A r \in Requests : run'[r] \in WorkStates <=> run[r] \in WorkStates
    PROVE  LaneInv'
<1>1. ASSUME NEW l \in Lanes
      PROVE  Working(l)' = Working(l)
  <2>1. \A r \in Requests : run[r] \in WorkStates =>
          lane[SessionOf[r]] # NoLane /\ lane'[SessionOf[r]] = lane[SessionOf[r]]
    BY RequestAssumption DEF LaneInv, LaneKnown, LaneShape, WorkStates
  <2> QED
    BY <2>1 DEF Working, WorkStates
<1>2. TokensConserved'
  BY <1>1 DEF LaneInv, TokensConserved
<1> QED
  BY <1>2, LaneGoal

\* Sending on channels takes no answer back.
LEMMA AnsweredGrows ==
    ASSUME TypeOK, NEW R, NEW o, outcome' = Answered(R, o)
    PROVE  /\ \A r \in Requests : outcome[r] # <<>> => outcome'[r] # <<>>
           /\ \A r \in Requests : r \in R => outcome'[r] # <<>>
<1>1. \A r \in Requests : outcome'[r] = IF r \in R THEN Append(outcome[r], o)
                                                ELSE outcome[r]
  BY DEF Answered
<1>2. \A r \in Requests : outcome[r] \in Seq(Outcomes)
  BY DEF TypeOK
<1>3. \A r \in Requests : Append(outcome[r], o) # <<>>
  <2>1. ASSUME NEW r \in Requests PROVE Append(outcome[r], o) # <<>>
    <3>1. Len(Append(outcome[r], o)) = Len(outcome[r]) + 1 /\ Len(outcome[r]) \in Nat
      BY <1>2
    <3> QED
      BY <3>1
  <2> QED
    BY <2>1
<1> QED
  BY <1>1, <1>3

\* What LaneInv says of a call, a run and a mutex.
LEMMA LaneFacts ==
    ASSUME LaneInv
    PROVE  /\ AnswerInv /\ TypeOK
           /\ \A r \in Requests : pc[r] \in Mid \/ run[r] # "none" =>
                lane[SessionOf[r]] # NoLane
           /\ \A s \in Sessions : queue[s] # <<>> \/ lock[s] # Free => lane[s] # NoLane
           /\ \A r \in Requests : run[r] \notin {"none", "running"} => outcome[r] # <<>>
           /\ \A s \in Sessions :
                lock[s] # Free /\ lock[s].by = "enqueue" => pc[lock[s].req] \in Late
BY DEF LaneInv, LaneKnown, EndedAnswered, EnqueueOwner, AnswerInv, Mid, Late

\* The calls of Schedule up to the queue keep LaneInv.
LEMMA CallerKeepsLane ==
    ASSUME LaneInv, AnswerInv', NEW r \in Requests,
           ScheduleRefused(r) \/ Schedule(r) \/ SetMaxConcurrent(r) \/ Stamp(r)
    PROVE  LaneInv'
<1>0. /\ TypeOK /\ SessionOf[r] \in Sessions /\ LaneOf[r] # NoLane
      /\ pc \in [Requests -> CallStates] /\ lane \in [Sessions -> Lanes \cup {NoLane}]
  BY LaneFacts, RequestAssumption DEF TypeOK
<1>1. UNCHANGED <<run, queue, lock, tokens>>
  BY DEF ScheduleRefused, Schedule, SetMaxConcurrent, Stamp, runVars, laneVars
<1>2. /\ \A s \in Sessions : lane[s] # NoLane => lane'[s] = lane[s]
      /\ \A y \in Requests : pc'[y] \in Mid => pc[y] \in Mid \/ lane'[SessionOf[y]] # NoLane
      /\ \A y \in Requests : pc[y] \in Late => pc'[y] \in Late
  <2>1. CASE ScheduleRefused(r) \/ SetMaxConcurrent(r) \/ Stamp(r)
    BY <2>1, <1>0 DEF ScheduleRefused, SetMaxConcurrent, Stamp, Mid, Late, sessVars
  <2>2. CASE Schedule(r)
    BY <2>2, <1>0 DEF Schedule, Mid, Late
  <2> QED
    BY <2>1, <2>2
<1>3. \A y \in Requests : outcome[y] # <<>> => outcome'[y] # <<>>
  <2>1. CASE ScheduleRefused(r)
    BY <2>1, <1>0, AnsweredGrows DEF ScheduleRefused
  <2>2. CASE Schedule(r) \/ SetMaxConcurrent(r) \/ Stamp(r)
    BY <2>2 DEF Schedule, SetMaxConcurrent, Stamp
  <2> QED
    BY <2>1, <2>2
<1>4. LaneShape
  BY <1>1, <1>2, <1>3 DEF LaneShape
<1> QED
  BY <1>1, <1>4, LaneQuiet

\* Enqueue, in either mode, keeps LaneInv.
LEMMA EnqueueKeepsLane ==
    ASSUME LaneInv, AnswerInv', NEW r \in Requests,
           EnqueueFifo(r) \/ EnqueueInterrupt(r)
    PROVE  LaneInv'
<1> DEFINE s == SessionOf[r]
<1>0. TypeOK /\ s \in Sessions /\ SessionOf[r] = s
  BY LaneFacts, RequestAssumption
<1>1. /\ pc[r] = "stamped" /\ lock[s] = Free
      /\ TryScheduleNext(s, "enqueue", r, r)
      /\ UNCHANGED <<lane, tokens>>
  BY DEF EnqueueFifo, EnqueueInterrupt, laneVars
<1>2. /\ \A z \in Sessions : z # s => queue'[z] = queue[z]
      /\ UNCHANGED outcome \/ \E R, o : outcome' = Answered(R, o)
  BY <1>0 DEF EnqueueFifo, EnqueueInterrupt, TypeOK
<1> HIDE DEF s
<1>3. lane[s] # NoLane
  BY <1>0, <1>1, LaneFacts DEF Mid
<1>4. /\ \A z \in Sessions : z # s => lock'[z] = lock[z]
      /\ lock'[s] = Free \/ lock'[s].req = r
      /\ \A y \in Requests : y # r => pc'[y] = pc[y] /\ run'[y] = run[y]
      /\ run'[r] = run[r] /\ pc'[r] \in Late
  BY <1>0, <1>1, TryEffect
<1>5. \A y \in Requests : outcome[y] # <<>> => outcome'[y] # <<>>
  BY <1>0, <1>2, AnsweredGrows
<1>6. LaneShape
  BY <1>0, <1>1, <1>2, <1>3, <1>4, <1>5 DEF LaneShape, Mid, Late
<1> QED
  BY <1>1, <1>4, <1>6, LaneQuiet

\* Timers keep LaneInv: a callback stays inside only if something is queued.
LEMMA TimerKeepsLane ==
    ASSUME LaneInv, AnswerInv', NEW s \in Sessions, TimerStep(s)
    PROVE  LaneInv'
<1>0. TypeOK
  BY LaneFacts
<1>1. CASE TimerFires(s)
  <2>1. UNCHANGED <<pc, run, outcome, queue, lane, lock, tokens>>
    BY <1>1 DEF TimerFires, callVars, runVars, sessVars, laneVars
  <2>2. LaneShape
    BY <2>1 DEF LaneShape
  <2> QED
    BY <2>1, <2>2, LaneQuiet
<1>2. ASSUME NEW c \in Requests, TimerCallback(s, c)
      PROVE  LaneInv'
  <2>1. UNCHANGED <<outcome, queue, lane, tokens, pc, run>>
    BY <1>2 DEF TimerCallback, StartAvailable, sessVars, laneVars
  <2>2. \/ UNCHANGED lock
        \/ /\ queue[s] # <<>> /\ lock'[s].by = "timer"
           /\ \A z \in Sessions : z # s => lock'[z] = lock[z]
    BY <1>0, <1>2 DEF TimerCallback, StartAvailable, TypeOK
  <2>3. LaneShape
    BY <2>1, <2>2, LaneFacts DEF LaneShape
  <2> QED
    BY <2>1, <2>3, LaneQuiet
<1> QED
  BY <1>1, <1>2 DEF TimerStep

\* The steps inside startAvailable that start nothing keep LaneInv.
LEMMA LoopKeepsLane ==
    ASSUME LaneInv, AnswerInv', NEW s \in Sessions,
           StopStarting(s) \/ SkipStale(s) \/ StartOne(s) \/ SubmitRefused(s)
    PROVE  LaneInv'
<1>0. /\ TypeOK /\ AnswerInv /\ queue \in [Sessions -> Seq(Requests)]
      /\ run \in [Requests -> RunStates] /\ pc \in [Requests -> CallStates]
      /\ lock \in [Sessions -> Holder \cup {Free}]
  BY LaneFacts DEF TypeOK
<1>1. lock[s] # Free /\ UNCHANGED <<lane, tokens>>
  BY DEF StopStarting, SkipStale, StartOne, SubmitRefused, MayPop, sessVars, laneVars
<1>2. lane[s] # NoLane
  BY <1>1, LaneFacts
<1>3. \A y \in Requests : outcome[y] # <<>> => outcome'[y] # <<>>
  <2>1. UNCHANGED outcome \/ \E R, o : outcome' = Answered(R, o)
    BY DEF StopStarting, SkipStale, StartOne, SubmitRefused, callVars
  <2> QED
    BY <1>0, <2>1, AnsweredGrows
<1>4. /\ \A z \in Sessions : z # s => queue'[z] = queue[z] /\ lock'[z] = lock[z]
      /\ \/ lock'[s] = Free
         \/ lock'[s].by = lock[s].by /\ lock'[s].req = lock[s].req
  <2>1. CASE StopStarting(s)
    BY <2>1, <1>0 DEF StopStarting
  <2>2. CASE SkipStale(s) \/ StartOne(s) \/ SubmitRefused(s)
    <3>1. \E at, sub : lock' = LockAt(s, at, sub)
      BY <2>2 DEF SkipStale, StartOne, SubmitRefused
    <3>2. /\ \A z \in Sessions : z # s => lock'[z] = lock[z]
          /\ lock'[s].by = lock[s].by /\ lock'[s].req = lock[s].req
      BY <1>0, <3>1, LockAtOf
    <3> QED
      BY <1>0, <2>2, <3>2 DEF SkipStale, StartOne, SubmitRefused
  <2> QED
    BY <2>1, <2>2
<1>5. /\ \A y \in Requests : pc'[y] \in Mid => pc[y] \in Mid
      /\ \A y \in Requests : pc[y] \in Late => pc'[y] \in Late
      /\ \A y \in Requests : \/ run'[y] = run[y]
                             \/ run[y] = "scheduling" /\ run'[y] = "exiting"
  <2>1. CASE StopStarting(s)
    <3>1. /\ lock[s].req \in Requests
          /\ lock[s].by = "run" => run[lock[s].req] = "scheduling"
      BY <1>0, <1>1, HolderFacts
    <3>2. Leave(lock[s].by, lock[s].req)
      BY <2>1 DEF StopStarting
    <3> QED
      BY <1>0, <3>1, <3>2 DEF Leave, Mid, Late
  <2>2. CASE SkipStale(s) \/ StartOne(s) \/ SubmitRefused(s)
    BY <2>2 DEF SkipStale, StartOne, SubmitRefused, callVars, runVars
  <2> QED
    BY <2>1, <2>2
<1>6. LaneShape
  BY <1>1, <1>2, <1>3, <1>4, <1>5 DEF LaneShape
<1>7. \A y \in Requests : run'[y] \in WorkStates <=> run[y] \in WorkStates
  BY <1>5 DEF WorkStates
<1> QED
  BY <1>1, <1>6, <1>7, LaneQuiet

\* A run that begins takes one token of the lane of its session.
LEMMA SubmitTokenKeepsLane ==
    ASSUME LaneInv, AnswerInv', NEW s \in Sessions, SubmitToken(s)
    PROVE  LaneInv'
<1> DEFINE x == lock[s].sub
<1>0. /\ TypeOK /\ AnswerInv /\ run \in [Requests -> RunStates]
      /\ tokens \in [Lanes -> Nat] /\ lane \in [Sessions -> Lanes \cup {NoLane}]
  BY LaneFacts DEF TypeOK
<1>1. /\ lock[s] # Free /\ lock[s].at = "submit" /\ tokens[lane[s]] > 0
      /\ tokens' = [tokens EXCEPT ![lane[s]] = tokens[lane[s]] - 1]
      /\ run' = [run EXCEPT ![x] = "running"]
      /\ lock' = LockAt(s, "loop", NoReq)
      /\ UNCHANGED <<pc, queue, outcome, lane>>
  BY DEF SubmitToken, callVars, sessVars
<1>2. x \in Requests /\ SessionOf[x] = s /\ run[x] = "none"
  BY <1>0, <1>1, HolderFacts DEF Waiting
<1>3. PICK l \in Lanes : l = lane[s] /\ l # NoLane
  BY <1>0, <1>1, LaneFacts
<1>4. /\ \A z \in Sessions : z # s => lock'[z] = lock[z]
      /\ lock'[s].by = lock[s].by /\ lock'[s].req = lock[s].req
  BY <1>0, <1>1, LockAtOf
<1>5. run'[x] = "running" /\ \A y \in Requests : y # x => run'[y] = run[y]
  BY <1>0, <1>1, <1>2
<1>6. lane[SessionOf[x]] = l
  BY <1>2, <1>3
<1> HIDE DEF x
<1>7. LaneShape
  BY <1>1, <1>2, <1>3, <1>4, <1>5 DEF LaneShape
<1>8. Working(l)' = Working(l) \cup {x} /\ x \notin Working(l)
  BY <1>1, <1>2, <1>3, <1>5, <1>6 DEF Working
<1>9. \A k \in Lanes : k # l => Working(k)' = Working(k)
  BY <1>1, <1>2, <1>3, <1>5, <1>6 DEF Working
<1>10. Cardinality(Working(l)') = Cardinality(Working(l)) + 1
  BY <1>8, WorkingFinite, FS_AddElement
<1>11. /\ tokens'[l] = tokens[l] - 1 /\ tokens[l] \in Nat
       /\ \A k \in Lanes : k # l => tokens'[k] = tokens[k]
  BY <1>0, <1>1, <1>3
<1>12. \A k \in Lanes : tokens[k] + Cardinality(Working(k)) = Concurrency[k]
  BY DEF LaneInv, TokensConserved
<1>13. tokens'[l] + Cardinality(Working(l)') = Concurrency[l]
  <2>1. tokens[l] + Cardinality(Working(l)) = Concurrency[l]
        /\ Cardinality(Working(l)) \in Nat
    BY <1>3, <1>12, WorkingFinite
  <2> QED
    BY <2>1, <1>10, <1>11
<1>14. \A k \in Lanes : tokens'[k] + Cardinality(Working(k)') = Concurrency[k]
  BY <1>9, <1>11, <1>12, <1>13
<1>15. TokensConserved'
  BY <1>14 DEF TokensConserved
<1> QED
  BY <1>7, <1>15, LaneGoal

\* A run that leaves gives its token back to the lane it came from.
LEMMA ReturnTokenKeepsLane ==
    ASSUME LaneInv, AnswerInv', NEW r \in Requests, ReturnToken(r)
    PROVE  LaneInv'
<1>0. /\ TypeOK /\ run \in [Requests -> RunStates] /\ SessionOf[r] \in Sessions
      /\ tokens \in [Lanes -> Nat] /\ lane \in [Sessions -> Lanes \cup {NoLane}]
  BY LaneFacts, RequestAssumption DEF TypeOK
<1>1. /\ run[r] = "exiting" /\ run' = [run EXCEPT ![r] = "done"]
      /\ tokens' = [tokens EXCEPT ![lane[SessionOf[r]]] = tokens[lane[SessionOf[r]]] + 1]
      /\ UNCHANGED <<pc, queue, outcome, lane, lock>>
  BY DEF ReturnToken, callVars, sessVars
<1>2. PICK l \in Lanes : l = lane[SessionOf[r]] /\ l # NoLane
  BY <1>0, <1>1, LaneFacts
<1>3. run'[r] = "done" /\ \A y \in Requests : y # r => run'[y] = run[y]
  BY <1>0, <1>1
<1>4. LaneShape
  BY <1>1, <1>3 DEF LaneShape
<1>5. Working(l)' = Working(l) \ {r} /\ r \in Working(l)
  BY <1>1, <1>2, <1>3 DEF Working
<1>6. \A k \in Lanes : k # l => Working(k)' = Working(k)
  BY <1>1, <1>2, <1>3 DEF Working
<1>7. Cardinality(Working(l)') = Cardinality(Working(l)) - 1
  BY <1>5, WorkingFinite, FS_RemoveElement
<1>8. /\ tokens'[l] = tokens[l] + 1 /\ tokens[l] \in Nat
      /\ \A k \in Lanes : k # l => tokens'[k] = tokens[k]
  BY <1>0, <1>1, <1>2
<1>9. \A k \in Lanes : tokens[k] + Cardinality(Working(k)) = Concurrency[k]
  BY DEF LaneInv, TokensConserved
<1>10. tokens'[l] + Cardinality(Working(l)') = Concurrency[l]
  <2>1. tokens[l] + Cardinality(Working(l)) = Concurrency[l]
        /\ Cardinality(Working(l)) \in Nat
    BY <1>2, <1>9, WorkingFinite
  <2> QED
    BY <2>1, <1>7, <1>8
<1>11. \A k \in Lanes : tokens'[k] + Cardinality(Working(k)') = Concurrency[k]
  BY <1>6, <1>8, <1>9, <1>10
<1>12. TokensConserved'
  BY <1>11 DEF TokensConserved
<1> QED
  BY <1>4, <1>12, LaneGoal

\* The other steps of a run keep its token.
LEMMA RunKeepsLane ==
    ASSUME LaneInv, AnswerInv', NEW r \in Requests,
           FinishRun(r) \/ CompleteRun(r) \/ CompleteOldRun(r)
    PROVE  LaneInv'
<1> DEFINE s == SessionOf[r]
<1>0. /\ TypeOK /\ run \in [Requests -> RunStates] /\ s \in Sessions
      /\ parent[s] \in Requests \cup {NoReq} /\ SessionOf[r] = s
  BY LaneFacts, RequestAssumption DEF TypeOK
<1>1. /\ run[r] \in {"running", "answered"}
      /\ UNCHANGED <<lane, tokens, queue>>
  BY DEF FinishRun, CompleteRun, CompleteOldRun, sessVars, laneVars
<1>2. lane[s] # NoLane
  BY <1>0, <1>1, LaneFacts
<1>3. /\ UNCHANGED pc
      /\ \A z \in Sessions : z # s => lock'[z] = lock[z]
      /\ lock'[s] = lock[s] \/ lock'[s] = Free \/ lock'[s].by = "run"
      /\ \A y \in Requests : y # r => run'[y] = run[y]
      /\ run'[r] \in {"answered", "exiting", "scheduling"}
      /\ \A y \in Requests : outcome[y] # <<>> => outcome'[y] # <<>>
      /\ run[r] = "running" => outcome'[r] # <<>>
  <2>1. CASE FinishRun(r)
    BY <1>0, <2>1, AnsweredGrows DEF FinishRun
  <2>2. CASE CompleteOldRun(r)
    BY <1>0, <2>2 DEF CompleteOldRun, callVars
  <2>3. CASE CompleteRun(r)
    <3>1. /\ lock[s] = Free /\ run[r] = "answered" /\ UNCHANGED outcome
          /\ TryScheduleNext(s, "run", r, parent[s])
      BY <2>3 DEF CompleteRun
    <3>2. UNCHANGED pc
      BY <3>1 DEF TryScheduleNext, Leave, StartAvailable
    <3> HIDE DEF s
    <3> QED
      BY <1>0, <3>1, <3>2, TryEffect
  <2> QED
    BY <2>1, <2>2, <2>3
<1> HIDE DEF s
<1>4. LaneShape
  BY <1>0, <1>1, <1>2, <1>3 DEF LaneShape
<1>5. \A y \in Requests : run'[y] \in WorkStates <=> run[y] \in WorkStates
  BY <1>1, <1>3 DEF WorkStates
<1> QED
  BY <1>1, <1>4, <1>5, LaneQuiet

\* Commands and shutdown move no run.
LEMMA CommandKeepsLane ==
    ASSUME LaneInv, AnswerInv',
           (\E s \in Sessions : CommandStep(s)) \/ Shutdown \/ HaltStep \/ UNCHANGED vars
    PROVE  LaneInv'
<1>0. TypeOK /\ queue \in [Sessions -> Seq(Requests)]
  BY LaneFacts DEF TypeOK
<1>1. UNCHANGED <<pc, run, lane, lock, tokens>>
  BY DEF CommandStep, CancelOne, CancelAll, Reset, Shutdown, HaltStep, MarkDraining,
     StopReturns, StopLane, callVars, runVars, sessVars, laneVars, vars
<1>2. UNCHANGED outcome \/ \E R, o : outcome' = Answered(R, o)
  BY DEF CommandStep, CancelOne, CancelAll, Reset, DropEverything, Shutdown, HaltStep,
     MarkDraining, StopReturns, StopLane, callVars, vars
<1>3. \A z \in Sessions : queue'[z] # <<>> => queue[z] # <<>>
  BY <1>0 DEF CommandStep, CancelOne, CancelAll, Reset, DropEverything, Shutdown,
     HaltStep, MarkDraining, StopReturns, StopLane, vars
<1>4. \A y \in Requests : outcome[y] # <<>> => outcome'[y] # <<>>
  BY <1>0, <1>2, AnsweredGrows
<1>5. LaneShape
  BY <1>1, <1>3, <1>4 DEF LaneShape
<1> QED
  BY <1>1, <1>5, LaneQuiet

\* LaneInv holds at the start: all tokens are free.
LEMMA LaneInvInit == Init => LaneInv
<1> SUFFICES ASSUME Init PROVE LaneInv
  OBVIOUS
<1>1. AnswerInv
  BY AnswerInvInit
<1>2. LaneKnown /\ EndedAnswered
  BY DEF Init, LaneKnown, EndedAnswered
<1>5. EnqueueOwner
  BY DEF Init, EnqueueOwner
<1>3. \A l \in Lanes : Working(l) = {} /\ tokens[l] = Concurrency[l]
  BY DEF Init, Working
<1>4. TokensConserved
  BY <1>3, FS_EmptySet, ConfigAssumption DEF TokensConserved
<1> QED
  BY <1>1, <1>2, <1>5, <1>4 DEF LaneInv

\* Every step keeps LaneInv.
LEMMA LaneInvStep == LaneInv /\ [Next]_vars => LaneInv'
<1> SUFFICES ASSUME LaneInv, [Next]_vars PROVE LaneInv'
  OBVIOUS
<1>0. AnswerInv'
  BY AnswerInvStep DEF LaneInv
<1>1. ASSUME NEW r \in Requests, CallerStep(r) \/ RunStep(r) PROVE LaneInv'
  BY <1>0, <1>1, CallerKeepsLane, EnqueueKeepsLane, RunKeepsLane, ReturnTokenKeepsLane
  DEF CallerStep, RunStep
<1>2. ASSUME NEW s \in Sessions, TimerStep(s) \/ LockStep(s) \/ CommandStep(s)
      PROVE  LaneInv'
  BY <1>0, <1>2, TimerKeepsLane, LoopKeepsLane, SubmitTokenKeepsLane, CommandKeepsLane
  DEF LockStep
<1>3. CASE Shutdown \/ HaltStep \/ UNCHANGED vars
  BY <1>0, <1>3, CommandKeepsLane
<1> QED
  BY <1>1, <1>2, <1>3 DEF Next

\* The free tokens of a lane and the goroutines that work in it always make up its
\* concurrency: no completion, cancellation, refusal or shutdown loses or doubles one.
THEOREM SchedulerTokensConserved == Spec => []TokensConserved
<1>1. LaneInv => TokensConserved
  BY DEF LaneInv
<1> QED
  BY <1>1, LaneInvInit, LaneInvStep, PTL DEF Spec
-----------------------------------------------------------------------------
(* Refinement: the scheduler implements RunService. *)

\* The calls that have reached their queue.
Arrived == {"stamped", "enqueuing", "returned"}

\* The phase of a request, now and after the step.
LEMMA PhaseCases ==
    ASSUME NEW r \in Requests
    PROVE  /\ Phase(r) = IF run[r] = "running" THEN "executing"
                         ELSE IF outcome[r] # <<>> THEN "answered"
                         ELSE IF pc[r] \in Arrived THEN "waiting" ELSE "idle"
           /\ Phase(r)' = IF run'[r] = "running" THEN "executing"
                          ELSE IF outcome'[r] # <<>> THEN "answered"
                          ELSE IF pc'[r] \in Arrived THEN "waiting" ELSE "idle"
BY DEF Phase, Arrived

\* A step that answers the requests of R, none of which executes, and neither begins
\* nor ends nor accepts any other request, is a TurnAway of RunService.
LEMMA TurnsAway ==
    ASSUME LaneInv, UNCHANGED lane, NEW R \in SUBSET Requests,
           \A r \in R : outcome[r] = <<>> /\ outcome'[r] # <<>> /\ run[r] # "running",
           \A r \in Requests : r \notin R => outcome'[r] = outcome[r],
           \A r \in Requests : run'[r] = "running" <=> run[r] = "running",
           \A r \in Requests : r \notin R => (pc'[r] \in Arrived <=> pc[r] \in Arrived)
    PROVE  Service!TurnAway(R)
<1>1. \A r \in R : Phase(r) \in {"idle", "waiting"} /\ Phase(r)' = "answered"
  BY PhaseCases
<1>2. \A r \in Requests : r \notin R => Phase(r)' = Phase(r)
  BY PhaseCases
<1> QED
  BY <1>1, <1>2 DEF Service!TurnAway

\* A step that neither answers, begins, ends nor accepts anything is a stutter.
LEMMA Stutters ==
    ASSUME UNCHANGED <<lane, outcome>>,
           \A r \in Requests : run'[r] = "running" <=> run[r] = "running",
           \A r \in Requests : pc'[r] \in Arrived <=> pc[r] \in Arrived
    PROVE  UNCHANGED Service!vars
<1>1. \A r \in Requests : Phase(r)' = Phase(r)
  BY PhaseCases
<1> QED
  BY <1>1 DEF Service!vars

\* Schedule up to the queue: a session is bound, or a request is accepted.
LEMMA CallerRefines ==
    ASSUME LaneInv, NEW r \in Requests,
           ScheduleRefused(r) \/ Schedule(r) \/ SetMaxConcurrent(r) \/ Stamp(r)
    PROVE  Service!Next \/ UNCHANGED Service!vars
<1>0. /\ TypeOK /\ SessionOf[r] \in Sessions /\ LaneOf[r] \in Lanes
      /\ pc \in [Requests -> CallStates] /\ lane \in [Sessions -> Lanes \cup {NoLane}]
  BY LaneFacts, RequestAssumption DEF TypeOK
<1>1. pc[r] \notin Late /\ UNCHANGED run
  BY DEF ScheduleRefused, Schedule, SetMaxConcurrent, Stamp, Late, runVars
<1>2. outcome[r] = <<>> /\ run[r] = "none"
  BY <1>1, LaneFacts, AnswerFacts
<1>3. CASE ScheduleRefused(r)
  <2>1. /\ \A y \in Requests : y # r => outcome'[y] = outcome[y] /\ pc'[y] = pc[y]
        /\ outcome'[r] # <<>>
    <3>1. outcome'[r] # <<>>
      BY <1>0, <1>3, AnsweredGrows DEF ScheduleRefused
    <3> QED
      BY <1>0, <1>3, <3>1 DEF ScheduleRefused, Answered
  <2>2. Service!TurnAway({r})
    BY <1>1, <1>2, <1>3, <2>1, TurnsAway DEF ScheduleRefused, sessVars
  <2> QED
    BY <2>2 DEF Service!Next
<1>4. CASE Schedule(r)
  <2>1. /\ UNCHANGED <<run, outcome>>
        /\ \A y \in Requests : pc'[y] \in Arrived <=> pc[y] \in Arrived
    BY <1>0, <1>4 DEF Schedule, runVars, Arrived
  <2>2. CASE lane[SessionOf[r]] = NoLane
    <3>1. lane' = [lane EXCEPT ![SessionOf[r]] = LaneOf[r]]
      BY <1>4, <2>2 DEF Schedule
    <3>2. \A y \in Requests : Phase(y)' = Phase(y)
      BY <2>1, PhaseCases
    <3>3. Service!Bind(SessionOf[r])
      BY <1>0, <2>2, <3>1, <3>2 DEF Service!Bind
    <3> QED
      BY <1>0, <3>3 DEF Service!Next
  <2>3. CASE lane[SessionOf[r]] # NoLane
    BY <1>4, <2>1, <2>3, Stutters DEF Schedule
  <2> QED
    BY <2>2, <2>3
<1>5. CASE SetMaxConcurrent(r)
  <2>1. /\ UNCHANGED <<run, outcome, lane>>
        /\ \A y \in Requests : pc'[y] \in Arrived <=> pc[y] \in Arrived
    BY <1>0, <1>5 DEF SetMaxConcurrent, runVars, Arrived
  <2> QED
    BY <2>1, Stutters
<1>6. CASE Stamp(r)
  <2>1. /\ UNCHANGED <<run, outcome, lane>>
        /\ pc[r] = "sized" /\ pc'[r] = "stamped"
        /\ \A y \in Requests : y # r => pc'[y] = pc[y]
    BY <1>0, <1>6 DEF Stamp, runVars, sessVars
  <2>2. lane[SessionOf[r]] # NoLane
    BY <2>1, LaneFacts DEF Mid
  <2>3. /\ Phase(r) = "idle" /\ Phase(r)' = "waiting"
        /\ \A y \in Requests : y # r => Phase(y)' = Phase(y)
    BY <1>2, <2>1, PhaseCases DEF Arrived
  <2>4. Service!Accept(r)
    BY <2>1, <2>2, <2>3 DEF Service!Accept
  <2> QED
    BY <2>4 DEF Service!Next
<1> QED
  BY <1>3, <1>4, <1>5, <1>6

\* Enqueue turns away the dropped head, the rejected request, or the drained queue.
LEMMA EnqueueRefines ==
    ASSUME LaneInv, NEW r \in Requests, EnqueueFifo(r) \/ EnqueueInterrupt(r)
    PROVE  Service!Next
<1> DEFINE s == SessionOf[r]
<1>0. AnswerInv /\ TypeOK /\ s \in Sessions /\ SessionOf[r] = s
  BY LaneFacts, RequestAssumption
<1>1. /\ pc[r] = "stamped" /\ lock[s] = Free
      /\ TryScheduleNext(s, "enqueue", r, r)
      /\ UNCHANGED lane
  BY DEF EnqueueFifo, EnqueueInterrupt
<1>2. outcome[r] = <<>> /\ run[r] = "none"
  BY <1>0, <1>1, AnswerFacts DEF Late
<1>3. \E R \in SUBSET Requests :
        /\ \A y \in R : outcome[y] = <<>> /\ run[y] = "none"
        /\ \/ UNCHANGED outcome /\ R = {}
           \/ \E o : outcome' = Answered(R, o)
  <2>1. CASE EnqueueFifo(r)
    <3>1. CASE UNCHANGED outcome
      BY <3>1
    <3>2. CASE outcome' = Answered({r}, "full")
      BY <1>2, <3>2
    <3>3. CASE Len(queue[s]) >= Cap /\ outcome' = Answered({Head(queue[s])}, "dropped")
      <4>1. queue[s] # <<>>
        BY <1>0, <3>3, ConfigAssumption DEF TypeOK
      <4>2. Head(queue[s]) \in Requests /\ Waiting(Head(queue[s]), s)
        BY <1>0, <4>1, HeadOf
      <4> QED
        BY <3>3, <4>2 DEF Waiting
    <3> QED
      BY <2>1, <3>1, <3>2, <3>3 DEF EnqueueFifo
  <2>2. CASE EnqueueInterrupt(r)
    <3>1. /\ Members(queue[s]) \in SUBSET Requests
          /\ \A y \in Members(queue[s]) : Waiting(y, s)
      BY <1>0, DrainedOf
    <3> QED
      BY <2>2, <3>1 DEF EnqueueInterrupt, Waiting
  <2> QED
    BY <2>1, <2>2
<1> HIDE DEF s
<1>4. PICK R \in SUBSET Requests :
        /\ \A y \in R : outcome[y] = <<>> /\ run[y] = "none"
        /\ \/ UNCHANGED outcome /\ R = {}
           \/ \E o : outcome' = Answered(R, o)
  BY <1>3
<1>5. /\ \A y \in Requests : y # r => pc'[y] = pc[y] /\ run'[y] = run[y]
      /\ run'[r] = run[r] /\ pc'[r] \in Late
  BY <1>0, <1>1, TryEffect
<1>6. /\ \A y \in R : outcome'[y] # <<>>
      /\ \A y \in Requests : y \notin R => outcome'[y] = outcome[y]
  <2>1. CASE UNCHANGED outcome /\ R = {}
    BY <2>1
  <2>2. CASE \E o : outcome' = Answered(R, o)
    BY <1>0, <2>2, AnsweredGrows DEF Answered
  <2> QED
    BY <1>4, <2>1, <2>2
<1>7. \A y \in Requests : pc'[y] \in Arrived <=> pc[y] \in Arrived
  BY <1>1, <1>5 DEF Arrived, Late
<1>8. Service!TurnAway(R)
  BY <1>1, <1>4, <1>5, <1>6, <1>7, TurnsAway
<1> QED
  BY <1>8 DEF Service!Next

\* Timers are invisible.
LEMMA TimerRefines ==
    ASSUME LaneInv, NEW s \in Sessions, TimerStep(s)
    PROVE  UNCHANGED Service!vars
<1>1. UNCHANGED <<pc, run, outcome, lane>>
  BY DEF TimerStep, TimerFires, TimerCallback, StartAvailable, callVars, runVars, sessVars
<1> QED
  BY <1>1, Stutters

\* Inside startAvailable a stale head or a refused request is turned away.
LEMMA LoopRefines ==
    ASSUME LaneInv, NEW s \in Sessions,
           StopStarting(s) \/ SkipStale(s) \/ StartOne(s) \/ SubmitRefused(s)
    PROVE  Service!Next \/ UNCHANGED Service!vars
<1>0. /\ AnswerInv /\ TypeOK
      /\ run \in [Requests -> RunStates] /\ pc \in [Requests -> CallStates]
  BY LaneFacts DEF TypeOK
<1>1. CASE StopStarting(s)
  <2>1. /\ lock[s] # Free /\ UNCHANGED <<outcome, lane>>
        /\ Leave(lock[s].by, lock[s].req)
    BY <1>1 DEF StopStarting, sessVars
  <2>2. /\ lock[s].req \in Requests
        /\ lock[s].by = "run" => run[lock[s].req] = "scheduling"
    BY <1>0, <2>1, HolderFacts
  <2>3. /\ \A y \in Requests : run'[y] = "running" <=> run[y] = "running"
        /\ \A y \in Requests :
             pc'[y] = pc[y] \/ (y = lock[s].req /\ lock[s].by = "enqueue" /\ pc'[y] = "returned")
    BY <1>0, <2>1, <2>2 DEF Leave
  <2>4. lock[s].by = "enqueue" => pc[lock[s].req] \in Arrived
    BY <2>1, LaneFacts DEF Late, Arrived
  <2>5. \A y \in Requests : pc'[y] \in Arrived <=> pc[y] \in Arrived
    BY <2>3, <2>4 DEF Arrived
  <2> QED
    BY <2>1, <2>3, <2>5, Stutters
<1>2. CASE StartOne(s)
  <2>1. UNCHANGED <<pc, run, outcome, lane>>
    BY <1>2 DEF StartOne, callVars
  <2> QED
    BY <2>1, Stutters
<1>3. ASSUME NEW x \in Requests, Waiting(x, s), UNCHANGED <<pc, run, lane>>,
             \E o : outcome' = Answered({x}, o)
      PROVE  Service!Next
  <2>1. /\ outcome'[x] # <<>>
        /\ \A y \in Requests : y # x => outcome'[y] = outcome[y]
    BY <1>0, <1>3, AnsweredGrows DEF Answered
  <2>2. Service!TurnAway({x})
    BY <1>3, <2>1, TurnsAway DEF Waiting
  <2> QED
    BY <2>2 DEF Service!Next
<1>4. CASE SkipStale(s)
  <2>1. Head(queue[s]) \in Requests /\ Waiting(Head(queue[s]), s)
    BY <1>0, <1>4, HeadOf DEF SkipStale, MayPop
  <2> QED
    BY <1>3, <1>4, <2>1 DEF SkipStale, runVars, sessVars
<1>5. CASE SubmitRefused(s)
  <2>1. lock[s].sub \in Requests /\ Waiting(lock[s].sub, s)
    BY <1>0, <1>5, HolderFacts DEF SubmitRefused
  <2> QED
    BY <1>3, <1>5, <2>1 DEF SubmitRefused, runVars, sessVars
<1> QED
  BY <1>1, <1>2, <1>4, <1>5

\* The Cardinality of the instance is that of FiniteSets.
LEMMA SameCardinality ==
    ASSUME NEW S
    PROVE  Service!Cardinality(S) = Cardinality(S)
BY DEF Service!Cardinality, Cardinality

\* A run begins only while its lane has room: a free token leaves fewer goroutines
\* at work, and so fewer executions, than the lane's concurrency.
LEMMA SubmitTokenRefines ==
    ASSUME LaneInv, NEW s \in Sessions, SubmitToken(s)
    PROVE  Service!Next
<1>0. /\ AnswerInv /\ TypeOK /\ run \in [Requests -> RunStates]
      /\ tokens \in [Lanes -> Nat] /\ lane \in [Sessions -> Lanes \cup {NoLane}]
  BY LaneFacts DEF TypeOK
<1>1. /\ lock[s] # Free /\ lock[s].at = "submit" /\ tokens[lane[s]] > 0
      /\ UNCHANGED <<pc, outcome, lane>>
      /\ run' = [run EXCEPT ![lock[s].sub] = "running"]
  BY DEF SubmitToken, callVars, sessVars
<1>2. PICK x \in Requests : x = lock[s].sub /\ Waiting(x, s)
  BY <1>0, <1>1, HolderFacts
<1>3. PICK l \in Lanes : l = lane[s] /\ l # NoLane
  BY <1>0, <1>1, LaneFacts
<1>4. SessionOf[x] = s /\ outcome[x] = <<>> /\ run[x] = "none" /\ pc[x] \in Arrived
  BY <1>2 DEF Waiting, Late, Arrived
<1>5. /\ run'[x] = "running" /\ UNCHANGED <<outcome, pc>>
      /\ \A y \in Requests : y # x => run'[y] = run[y]
  BY <1>0, <1>1, <1>2
<1>6. /\ Phase(x) = "waiting" /\ Phase(x)' = "executing"
      /\ \A y \in Requests : y # x => Phase(y)' = Phase(y)
  BY <1>4, <1>5, PhaseCases
<1>7. Cardinality(Service!Executing(l)) < Concurrency[l]
  <2>1. tokens[l] + Cardinality(Working(l)) = Concurrency[l]
        /\ Cardinality(Working(l)) \in Nat /\ tokens[l] \in Nat /\ tokens[l] > 0
    BY <1>0, <1>1, <1>3, WorkingFinite DEF LaneInv, TokensConserved
  <2>2. Service!Executing(l) \in SUBSET Working(l)
    BY PhaseCases DEF Service!Executing, Working
  <2>3. /\ IsFiniteSet(Service!Executing(l))
        /\ Cardinality(Service!Executing(l)) <= Cardinality(Working(l))
    BY <2>2, WorkingFinite, FS_Subset
  <2>4. Cardinality(Service!Executing(l)) \in Nat
    BY <2>3, FS_CardinalityType
  <2> QED
    BY <2>1, <2>3, <2>4
<1>8. Service!Begin(x)
  <2>1. Service!Cardinality(Service!Executing(l)) < Concurrency[l]
    BY <1>7, SameCardinality
  <2> QED
    BY <1>1, <1>3, <1>4, <1>6, <2>1 DEF Service!Begin
<1> QED
  BY <1>8 DEF Service!Next

\* A run ends when it answers; what it does afterwards is invisible.
LEMMA RunRefines ==
    ASSUME LaneInv, NEW r \in Requests, RunStep(r)
    PROVE  Service!Next \/ UNCHANGED Service!vars
<1>0. /\ AnswerInv /\ TypeOK /\ run \in [Requests -> RunStates]
      /\ SessionOf[r] \in Sessions /\ parent[SessionOf[r]] \in Requests \cup {NoReq}
  BY LaneFacts, RequestAssumption DEF TypeOK
<1>1. CASE FinishRun(r)
  <2>1. /\ run[r] = "running" /\ run'[r] = "answered" /\ UNCHANGED <<pc, lane>>
        /\ \A y \in Requests : y # r => run'[y] = run[y]
        /\ outcome' = Answered({r}, "finished")
    BY <1>0, <1>1 DEF FinishRun, sessVars
  <2>2. outcome'[r] # <<>> /\ \A y \in Requests : y # r => outcome'[y] = outcome[y]
    BY <1>0, <2>1, AnsweredGrows DEF Answered
  <2>3. /\ Phase(r) = "executing" /\ Phase(r)' = "answered"
        /\ \A y \in Requests : y # r => Phase(y)' = Phase(y)
    BY <2>1, <2>2, PhaseCases
  <2>4. Service!End(r)
    BY <2>1, <2>3 DEF Service!End
  <2> QED
    BY <2>4 DEF Service!Next
<1>2. CASE CompleteRun(r)
  <2>1. /\ run[r] = "answered" /\ lock[SessionOf[r]] = Free /\ UNCHANGED <<outcome, lane>>
        /\ TryScheduleNext(SessionOf[r], "run", r, parent[SessionOf[r]])
    BY <1>2 DEF CompleteRun, sessVars
  <2>2. \A y \in Requests : pc'[y] = pc[y] /\ (run'[y] = "running" <=> run[y] = "running")
    BY <1>0, <2>1, TryEffect
  <2> QED
    BY <2>1, <2>2, Stutters
<1>3. CASE CompleteOldRun(r) \/ ReturnToken(r)
  <2>1. UNCHANGED <<pc, outcome, lane>>
    BY <1>3 DEF CompleteOldRun, ReturnToken, callVars, sessVars
  <2>2. \A y \in Requests : run'[y] = "running" <=> run[y] = "running"
    BY <1>0, <1>3 DEF CompleteOldRun, ReturnToken
  <2> QED
    BY <2>1, <2>2, Stutters
<1> QED
  BY <1>1, <1>2, <1>3 DEF RunStep

\* /stopall and Reset turn the whole queue away at once; the rest is invisible.
LEMMA CommandRefines ==
    ASSUME LaneInv,
           (\E s \in Sessions : CommandStep(s)) \/ Shutdown \/ HaltStep \/ UNCHANGED vars
    PROVE  Service!Next \/ UNCHANGED Service!vars
<1>0. AnswerInv /\ TypeOK
  BY LaneFacts
<1>1. UNCHANGED <<pc, run, lane>>
  BY DEF CommandStep, CancelOne, CancelAll, Reset, Shutdown, HaltStep, MarkDraining,
     StopReturns, StopLane, callVars, runVars, sessVars, vars
<1>2. CASE UNCHANGED outcome
  BY <1>1, <1>2, Stutters
<1>3. ASSUME NEW s \in Sessions, NEW o, DropEverything(s, o)
      PROVE  Service!Next
  <2>1. PICK R \in SUBSET Requests : R = Members(queue[s])
    BY <1>0, DrainedOf
  <2>2. \A y \in R : outcome[y] = <<>> /\ run[y] = "none"
    BY <1>0, <2>1, DrainedOf DEF Waiting
  <2>3. outcome' = Answered(R, o)
    BY <1>3, <2>1 DEF DropEverything
  <2>4. /\ \A y \in R : outcome'[y] # <<>>
        /\ \A y \in Requests : y \notin R => outcome'[y] = outcome[y]
    BY <1>0, <2>3, AnsweredGrows DEF Answered
  <2>5. Service!TurnAway(R)
    BY <1>1, <2>2, <2>4, TurnsAway
  <2> QED
    BY <2>5 DEF Service!Next
<1>4. UNCHANGED outcome \/ \E s \in Sessions, o \in {"canceled", "cleared"} : DropEverything(s, o)
  BY DEF CommandStep, CancelOne, CancelAll, Reset, Shutdown, HaltStep, MarkDraining,
     StopReturns, StopLane, callVars, vars
<1> QED
  BY <1>2, <1>3, <1>4

\* The scheduler starts as RunService does.
LEMMA InitRefines == Init => Service!Init
<1> SUFFICES ASSUME Init PROVE Service!Init
  OBVIOUS
<1>1. \A r \in Requests : Phase(r) = "idle"
  BY PhaseCases DEF Init, Arrived
<1> QED
  BY <1>1 DEF Init, Service!Init

\* Every step of the scheduler is a step or a stutter of RunService.
LEMMA StepRefines == LaneInv /\ [Next]_vars => [Service!Next]_Service!vars
<1> SUFFICES ASSUME LaneInv, [Next]_vars
             PROVE  Service!Next \/ UNCHANGED Service!vars
  OBVIOUS
<1>1. ASSUME NEW r \in Requests, CallerStep(r) \/ RunStep(r)
      PROVE  Service!Next \/ UNCHANGED Service!vars
  BY <1>1, CallerRefines, EnqueueRefines, RunRefines DEF CallerStep
<1>2. ASSUME NEW s \in Sessions, TimerStep(s) \/ LockStep(s) \/ CommandStep(s)
      PROVE  Service!Next \/ UNCHANGED Service!vars
  BY <1>2, TimerRefines, LoopRefines, SubmitTokenRefines, CommandRefines DEF LockStep
<1>3. CASE Shutdown \/ HaltStep \/ UNCHANGED vars
  BY <1>3, CommandRefines
<1> QED
  BY <1>1, <1>2, <1>3 DEF Next

\* Callers of the scheduler see RunService: whatever timers, mutexes, generations,
\* stops and shutdowns do, a request is answered once, executes at most once and never
\* after its answer, within the concurrency of the one lane its session is bound to.
THEOREM SchedulerImplementsRunService == Spec => ImplementsRunService
BY LaneInvInit, LaneInvStep, InitRefines, StepRefines, PTL
DEF Spec, ImplementsRunService, Service!Spec
-----------------------------------------------------------------------------
(* The registry of active runs: no leaked entry, no lost wake-up, limits. *)

\* Nothing of session s changes.
Same(s) ==
    /\ UNCHANGED <<queue[s], lock[s], active[s], order[s], maxC[s], parent[s], gen[s],
                   timer[s], callbacks[s]>>
    /\ \A y \in Requests : SessionOf[y] = s => run'[y] = run[y] /\ genOf'[y] = genOf[y]

\* Nothing of any other session changes.
Elsewhere(s) == \A z \in Sessions : z # s => Same(z)

\* The steps that concern one session.
AtSession(s) ==
    \/ \E r \in Requests : /\ SessionOf[r] = s
                           /\ \/ SetMaxConcurrent(r) \/ EnqueueFifo(r)
                              \/ EnqueueInterrupt(r) \/ RunStep(r)
    \/ TimerStep(s) \/ LockStep(s) \/ CommandStep(s)

\* The steps that concern none.
Nowhere ==
    \/ \E r \in Requests : ScheduleRefused(r) \/ Schedule(r) \/ Stamp(r)
    \/ Shutdown \/ HaltStep \/ UNCHANGED vars

\* A step outside the sessions leaves them all as they are.
LEMMA NowhereSame ==
    ASSUME Nowhere, NEW s \in Sessions
    PROVE  Same(s)
BY DEF Nowhere, ScheduleRefused, Schedule, Stamp, Shutdown, HaltStep, MarkDraining,
       StopReturns, StopLane, vars, Same, runVars, sessVars, timeVars

\* The calls whose limit has been set.
Sized == {"sized", "stamped", "enqueuing", "returned"}

\* A call that has its limit keeps it.
LEMMA SizedGrows ==
    ASSUME AnswerInv, [Next]_vars
    PROVE  /\ \A r \in Requests : pc[r] \in Sized => pc'[r] \in Sized
           /\ \A r \in Requests : pc'[r] = "admitted" => pc[r] = "admitted" \/ OptMax[r] # 0
<1>0. TypeOK /\ pc \in [Requests -> CallStates]
  BY DEF AnswerInv, TypeOK
<1>1. ASSUME NEW r \in Requests, CallerStep(r)
      PROVE  /\ \A y \in Requests : y # r => pc'[y] = pc[y]
             /\ pc[r] \in Sized => pc'[r] \in Sized
             /\ pc'[r] = "admitted" => OptMax[r] # 0
  <2>1. CASE EnqueueFifo(r) \/ EnqueueInterrupt(r)
    <3>1. lock[SessionOf[r]] = Free /\ TryScheduleNext(SessionOf[r], "enqueue", r, r)
      BY <2>1 DEF EnqueueFifo, EnqueueInterrupt
    <3>2. pc'[r] \in Late /\ \A y \in Requests : y # r => pc'[y] = pc[y]
      BY <1>0, <3>1, TryEffect, RequestAssumption
    <3> QED
      BY <3>2 DEF Late, Sized
  <2>2. CASE ScheduleRefused(r) \/ Schedule(r) \/ SetMaxConcurrent(r) \/ Stamp(r)
    BY <1>0, <2>2, RequestAssumption
    DEF ScheduleRefused, Schedule, SetMaxConcurrent, Stamp, Sized
  <2> QED
    BY <1>1, <2>1, <2>2 DEF CallerStep
<1>2. ASSUME NEW r \in Requests, RunStep(r)
      PROVE  UNCHANGED pc
  BY <1>2 DEF RunStep, FinishRun, CompleteRun, CompleteOldRun, ReturnToken, callVars,
              TryScheduleNext, Leave, StartAvailable
<1>3. ASSUME NEW s \in Sessions, TimerStep(s) \/ CommandStep(s)
      PROVE  UNCHANGED pc
  BY <1>3 DEF TimerStep, TimerFires, TimerCallback, StartAvailable, callVars,
              CommandStep, CancelOne, CancelAll, Reset
<1>4. ASSUME NEW s \in Sessions, LockStep(s)
      PROVE  \A y \in Requests : pc'[y] = pc[y] \/ pc'[y] = "returned"
  <2>1. CASE StopStarting(s)
    BY <1>0, <2>1 DEF StopStarting, Leave
  <2>2. CASE SkipStale(s) \/ StartOne(s) \/ SubmitToken(s) \/ SubmitRefused(s)
    BY <2>2 DEF SkipStale, StartOne, SubmitToken, SubmitRefused, callVars
  <2> QED
    BY <1>4, <2>1, <2>2 DEF LockStep
<1>5. CASE Shutdown \/ HaltStep \/ UNCHANGED vars
  BY <1>5 DEF Shutdown, HaltStep, MarkDraining, StopReturns, StopLane, vars, callVars
<1> QED
  BY <1>1, <1>2, <1>3, <1>4, <1>5 DEF Next, Sized

\* The limits a session was given stay given.
LEMMA LimitsGrow ==
    ASSUME AnswerInv, [Next]_vars, NEW s
    PROVE  \A n \in LimitOf(s) : n \in LimitOf(s)'
<1>0. pc \in [Requests -> CallStates]
  BY DEF AnswerInv, TypeOK
<1>1. \A r \in Requests : pc[r] \in Sized <=> pc[r] \notin {"new", "admitted"}
  BY <1>0 DEF Sized, CallStates
<1>2. \A r \in Requests : pc[r] \in Sized => pc'[r] \notin {"new", "admitted"}
  BY SizedGrows DEF Sized
<1> QED
  BY <1>1, <1>2 DEF LimitOf

\* A session in which nothing changes keeps its invariant.
LEMMA SameKeeps ==
    ASSUME AnswerInv, [Next]_vars, NEW s \in Sessions, SessionInv(s), Same(s)
    PROVE  SessionInv(s)'
<1>0. /\ TypeOK /\ active[s] \in [RunIds -> Requests \cup {NoReq}]
      /\ lock[s] \in Holder \cup {Free}
  BY DEF AnswerInv, TypeOK
<1>1. ActiveIds(s)' = ActiveIds(s)
  BY DEF Same, ActiveIds
<1>2. EntriesCurrent(s)'
  <2>1. \A i \in RunIds : active[s][i] # NoReq => active[s][i] \in Requests
    BY <1>0
  <2> QED
    BY <2>1 DEF SessionInv, EntriesCurrent, Same, Submitting
<1>3. ParentKnown(s)'
  BY DEF SessionInv, ParentKnown, Same
<1>4. LimitKnown(s)'
  BY <1>1, LimitsGrow DEF SessionInv, LimitKnown, Same
<1>5. OneAtATime(s)'
  BY <1>1 DEF SessionInv, OneAtATime, Same
<1>6. queue'[s] # <<>> /\ lock'[s] = Free => HasWaker(s)'
  BY DEF SessionInv, HasWaker, Same
<1> QED
  BY <1>2, <1>3, <1>4, <1>5, <1>6 DEF SessionInv

\* The variables that hold something for each session, and their types.
LEMMA SessionTypes ==
    ASSUME AnswerInv
    PROVE  /\ queue \in [Sessions -> Seq(Requests)]
           /\ lock \in [Sessions -> Holder \cup {Free}]
           /\ active \in [Sessions -> [RunIds -> Requests \cup {NoReq}]]
           /\ order \in [Sessions -> Seq(RunIds)]
           /\ maxC \in [Sessions -> Nat \ {0}]
           /\ parent \in [Sessions -> Requests \cup {NoReq}]
           /\ gen \in [Sessions -> Nat]
           /\ timer \in [Sessions -> Requests \cup {NoReq}]
           /\ callbacks \in [Sessions -> [Requests -> Nat]]
           /\ run \in [Requests -> RunStates]
           /\ genOf \in [Requests -> Nat]
           /\ pc \in [Requests -> CallStates]
BY DEF AnswerInv, TypeOK

\* scheduleNext touches the timer of its session only.
LEMMA TryTimer ==
    ASSUME AnswerInv, NEW s \in Sessions, NEW by, NEW r, NEW ctx,
           TryScheduleNext(s, by, r, ctx)
    PROVE  \A z \in Sessions : z # s => timer'[z] = timer[z]
BY SessionTypes DEF TryScheduleNext

\* A call of a session leaves the other sessions alone.
LEMMA CallersElsewhere ==
    ASSUME AnswerInv, NEW r \in Requests, NEW s \in Sessions, SessionOf[r] = s,
           SetMaxConcurrent(r) \/ EnqueueFifo(r) \/ EnqueueInterrupt(r)
    PROVE  Elsewhere(s)
<1>0. TypeOK
  BY DEF AnswerInv
<1>1. CASE SetMaxConcurrent(r)
  BY <1>1, SessionTypes DEF SetMaxConcurrent, Elsewhere, Same, runVars, timeVars
<1>2. CASE EnqueueFifo(r) \/ EnqueueInterrupt(r)
  <2>1. /\ lock[s] = Free /\ TryScheduleNext(s, "enqueue", r, r) /\ SetParent(s, r)
        /\ UNCHANGED <<maxC, gen, callbacks, genOf>>
    BY <1>2 DEF EnqueueFifo, EnqueueInterrupt
  <2>2. \A z \in Sessions : z # s =>
          UNCHANGED <<queue[z], active[z], order[z], parent[z]>>
    <3>1. CASE EnqueueFifo(r)
      BY <3>1, SessionTypes DEF EnqueueFifo, SetParent
    <3>2. CASE EnqueueInterrupt(r)
      BY <3>2, SessionTypes DEF EnqueueInterrupt, SetParent
    <3> QED
      BY <1>2, <3>1, <3>2
  <2>3. \A z \in Sessions : z # s => timer'[z] = timer[z]
    BY <2>1, TryTimer
  <2>4. /\ \A z \in Sessions : z # s => lock'[z] = lock[z]
        /\ \A y \in Requests : run'[y] = run[y]
    BY <1>0, <2>1, TryEffect
  <2> QED
    BY <2>1, <2>2, <2>3, <2>4 DEF Elsewhere, Same
<1> QED
  BY <1>1, <1>2

\* So does a run of the session.
LEMMA RunsElsewhere ==
    ASSUME AnswerInv, NEW r \in Requests, NEW s \in Sessions, SessionOf[r] = s,
           RunStep(r)
    PROVE  Elsewhere(s)
<1>0. TypeOK
  BY DEF AnswerInv
<1>1. CASE FinishRun(r) \/ CompleteOldRun(r) \/ ReturnToken(r)
  BY <1>1, SessionTypes
  DEF FinishRun, CompleteOldRun, ReturnToken, Elsewhere, Same, timeVars, sessVars
<1>2. CASE CompleteRun(r)
  <2>1. /\ lock[s] = Free /\ TryScheduleNext(s, "run", r, parent[s])
        /\ UNCHANGED <<queue, maxC, parent, gen, callbacks, genOf>>
    BY <1>2 DEF CompleteRun, sessVars
  <2>2. \A z \in Sessions : z # s => UNCHANGED <<active[z], order[z]>>
    BY <1>2, SessionTypes DEF CompleteRun
  <2>3. \A z \in Sessions : z # s => timer'[z] = timer[z]
    BY <2>1, TryTimer
  <2>4. /\ \A z \in Sessions : z # s => lock'[z] = lock[z]
        /\ \A y \in Requests : y # r => run'[y] = run[y]
    <3>1. PICK p \in Requests \cup {NoReq} : p = parent[s]
      BY SessionTypes
    <3> QED
      BY <1>0, <2>1, <3>1, TryEffect
  <2> QED
    BY <2>1, <2>2, <2>3, <2>4 DEF Elsewhere, Same
<1> QED
  BY <1>1, <1>2 DEF RunStep

\* So do its timer, its commands and the thread that holds its mutex.
LEMMA QueuesElsewhere ==
    ASSUME AnswerInv, NEW s \in Sessions, TimerStep(s) \/ CommandStep(s) \/ LockStep(s)
    PROVE  Elsewhere(s)
<1>0. TypeOK
  BY DEF AnswerInv
<1>1. CASE TimerStep(s)
  <2>1. CASE TimerFires(s)
    BY <2>1, SessionTypes DEF TimerFires, Elsewhere, Same, runVars, sessVars
  <2>2. ASSUME NEW c \in Requests, TimerCallback(s, c)
        PROVE  Elsewhere(s)
    BY <2>2, SessionTypes DEF TimerCallback, StartAvailable, Elsewhere, Same, sessVars
  <2> QED
    BY <1>1, <2>1, <2>2 DEF TimerStep
<1>2. CASE CommandStep(s)
  <2>1. CASE CancelOne(s)
    BY <2>1, SessionTypes DEF CancelOne, Elsewhere, Same, sessVars, timeVars
  <2>2. CASE CancelAll(s) \/ Reset(s)
    BY <2>2, SessionTypes DEF CancelAll, Reset, DropEverything, Elsewhere, Same, timeVars
  <2> QED
    BY <1>2, <2>1, <2>2 DEF CommandStep
<1>3. CASE StopStarting(s)
  <2>1. /\ lock[s] # Free /\ Leave(lock[s].by, lock[s].req)
        /\ lock' = [lock EXCEPT ![s] = Free]
        /\ UNCHANGED <<queue, active, order, maxC, parent, gen, timer, callbacks, genOf>>
    BY <1>3 DEF StopStarting, sessVars, timeVars
  <2>2. /\ lock[s].req \in Requests
        /\ lock[s].by = "run" => SessionOf[lock[s].req] = s
    BY <2>1, HolderFacts
  <2>3. \A y \in Requests : SessionOf[y] # s => run'[y] = run[y]
    BY <2>1, <2>2, SessionTypes DEF Leave
  <2> QED
    BY <2>1, <2>3, SessionTypes DEF Elsewhere, Same
<1>4. CASE SkipStale(s) \/ SubmitRefused(s)
  <2>1. \A z \in Sessions : z # s => lock'[z] = lock[z]
    BY <1>0, <1>4, LockAtOf DEF SkipStale, SubmitRefused
  <2> QED
    BY <1>4, <2>1, SessionTypes
    DEF SkipStale, SubmitRefused, Elsewhere, Same, runVars, sessVars, timeVars
<1>5. CASE StartOne(s)
  <2>1. \A z \in Sessions : z # s => lock'[z] = lock[z]
    BY <1>0, <1>5, LockAtOf DEF StartOne
  <2>2. SessionOf[Head(queue[s])] = s
    BY <1>5, HeadOf DEF StartOne, MayPop, Waiting
  <2> QED
    BY <1>5, <2>1, <2>2, SessionTypes DEF StartOne, Elsewhere, Same, timeVars
<1>6. CASE SubmitToken(s)
  <2>1. \A z \in Sessions : z # s => lock'[z] = lock[z]
    BY <1>0, <1>6, LockAtOf DEF SubmitToken
  <2>2. SessionOf[lock[s].sub] = s
    BY <1>6, HolderFacts DEF SubmitToken, Waiting
  <2> QED
    BY <1>6, <2>1, <2>2, SessionTypes
    DEF SubmitToken, Elsewhere, Same, timeVars, sessVars
<1> QED
  BY <1>1, <1>2, <1>3, <1>4, <1>5, <1>6 DEF LockStep

\* A step of a session leaves the others alone.
LEMMA StepElsewhere ==
    ASSUME AnswerInv, NEW s \in Sessions, AtSession(s)
    PROVE  Elsewhere(s)
BY CallersElsewhere, RunsElsewhere, QueuesElsewhere DEF AtSession

\* A run that has an entry and is not in Submit is in one of these states.
Live == {"running", "answered"}

\* Fewer entries are no more than there were.
LEMMA ShrinkCard ==
    ASSUME NEW s, \A i \in RunIds : active'[s][i] # NoReq => active'[s][i] = active[s][i]
    PROVE  /\ IsFiniteSet(ActiveIds(s)) /\ Cardinality(ActiveIds(s)) \in Nat
           /\ ActiveIds(s)' \in SUBSET ActiveIds(s)
           /\ IsFiniteSet(ActiveIds(s)') /\ Cardinality(ActiveIds(s)') \in Nat
           /\ Cardinality(ActiveIds(s)') <= Cardinality(ActiveIds(s))
<1>1. ActiveIds(s) \in SUBSET RunIds /\ ActiveIds(s)' \in SUBSET ActiveIds(s)
  BY DEF ActiveIds
<1>2. IsFiniteSet(ActiveIds(s)) /\ Cardinality(ActiveIds(s)) \in Nat
  BY <1>1, FiniteAssumption, FS_Subset, FS_CardinalityType
<1>3. IsFiniteSet(ActiveIds(s)') /\ Cardinality(ActiveIds(s)') <= Cardinality(ActiveIds(s))
  BY <1>1, <1>2, FS_Subset
<1> QED
  BY <1>1, <1>2, <1>3, FS_CardinalityType

\* The limits of a session are positive numbers.
LEMMA LimitTypes ==
    ASSUME AnswerInv, NEW s \in Sessions
    PROVE  /\ LimitOf(s) \in SUBSET Nat
           /\ Limits(s) \in SUBSET (Nat \ {0}) /\ \A n \in Limits(s) : n <= maxC[s]
           /\ maxC[s] \in Nat \ {0}
<1>1. maxC[s] \in Nat \ {0}
  BY SessionTypes
<1> QED
  BY <1>1, RequestAssumption, ConfigAssumption DEF LimitOf, Limits

\* A step that adds no entry keeps what SessionInv says of entries, parent,
\* limits and interrupt mode.
LEMMA SessionShrinks ==
    ASSUME AnswerInv, AnswerInv', [Next]_vars, NEW s \in Sessions, SessionInv(s),
           maxC'[s] \in LimitOf(s)',
           \A i \in RunIds, y \in Requests : active'[s][i] = y =>
             /\ active[s][i] = y /\ gen'[s] = gen[s] /\ genOf'[y] = genOf[y]
             /\ run[y] \in Live => run'[y] \in Live
             /\ Submitting(s, y) => Submitting(s, y)' \/ run'[y] \in Live,
           lock'[s] # Free /\ lock'[s].at = "pop" =>
             \E n \in LimitOf(s) : Cardinality(ActiveIds(s)) < n,
           Interrupt => \/ Len(queue'[s]) <= Len(queue[s])
                        \/ Len(queue'[s]) = 1 /\ ActiveIds(s)' = {},
           queue'[s] # <<>> => \/ queue[s] # <<>> /\ parent'[s] = parent[s]
                               \/ parent'[s] # NoReq
    PROVE  EntriesCurrent(s)' /\ ParentKnown(s)' /\ LimitKnown(s)' /\ OneAtATime(s)'
<1>1. EntriesCurrent(s) /\ ParentKnown(s) /\ LimitKnown(s) /\ OneAtATime(s)
  BY DEF SessionInv
<1>2. EntriesCurrent(s)'
  <2> SUFFICES ASSUME NEW i \in RunIds, NEW y \in Requests, active'[s][i] = y
               PROVE  /\ SessionOf[y] = s /\ RunIdOf[y] = i /\ genOf'[y] = gen'[s]
                      /\ run'[y] \in Live \/ Submitting(s, y)'
    <3>1. \A i \in RunIds : active'[s][i] # NoReq => active'[s][i] \in Requests
      BY DEF AnswerInv, TypeOK
    <3> QED
      BY <3>1 DEF EntriesCurrent, Submitting, Live
  <2>1. active[s][i] = y /\ y # NoReq
    BY RequestAssumption
  <2>2. /\ SessionOf[y] = s /\ RunIdOf[y] = i /\ genOf[y] = gen[s]
        /\ run[y] \in Live \/ Submitting(s, y)
    BY <1>1, <2>1 DEF EntriesCurrent, Live
  <2> QED
    BY <2>1, <2>2
<1>3. ParentKnown(s)'
  BY <1>1 DEF ParentKnown
<1>4. /\ ActiveIds(s)' \in SUBSET ActiveIds(s)
      /\ Cardinality(ActiveIds(s)) \in Nat /\ Cardinality(ActiveIds(s)') \in Nat
      /\ Cardinality(ActiveIds(s)') <= Cardinality(ActiveIds(s))
  <2>1. \A i \in RunIds : active'[s][i] # NoReq => active'[s][i] = active[s][i]
    <3>1. \A i \in RunIds : active'[s][i] # NoReq => active'[s][i] \in Requests
      BY DEF AnswerInv, TypeOK
    <3> QED
      BY <3>1
  <2> QED
    BY <2>1, ShrinkCard
<1>5. LimitKnown(s)'
  <2>1. PICK n \in LimitOf(s) :
          /\ Cardinality(ActiveIds(s)) <= n
          /\ lock'[s] # Free /\ lock'[s].at = "pop" => Cardinality(ActiveIds(s)) < n
    BY <1>1, <1>4, LimitTypes DEF LimitKnown
  <2>2. n \in LimitOf(s)' /\ n \in Nat
    BY <2>1, LimitsGrow, LimitTypes
  <2> QED
    BY <1>4, <2>1, <2>2 DEF LimitKnown
<1>6. OneAtATime(s)'
  <2>1. Len(queue[s]) \in Nat /\ Len(queue'[s]) \in Nat
    <3>1. queue[s] \in Seq(Requests) /\ queue'[s] \in Seq(Requests)
      BY DEF AnswerInv, TypeOK
    <3> QED
      BY <3>1
  <2>2. ActiveIds(s)' = {} => Cardinality(ActiveIds(s)') = 0
    BY FS_EmptySet
  <2>3. ASSUME Interrupt
        PROVE  Len(queue'[s]) + Cardinality(ActiveIds(s)') <= 1
    <3>1. Len(queue[s]) + Cardinality(ActiveIds(s)) <= 1
      BY <1>1, <2>3 DEF OneAtATime
    <3>2. CASE Len(queue'[s]) <= Len(queue[s])
      BY <1>4, <2>1, <3>1, <3>2
    <3>3. CASE Len(queue'[s]) = 1 /\ ActiveIds(s)' = {}
      BY <2>2, <3>3
    <3> QED
      BY <2>3, <3>2, <3>3
  <2> QED
    BY <2>3 DEF OneAtATime
<1> QED
  BY <1>2, <1>3, <1>5, <1>6

\* A released mutex with an entry has a run that comes back.
LEMMA EntryWakes ==
    ASSUME AnswerInv', NEW s \in Sessions, EntriesCurrent(s)', lock'[s] = Free,
           ActiveIds(s)' # {}
    PROVE  HasWaker(s)'
<1>1. PICK i \in RunIds : active'[s][i] # NoReq
  BY DEF ActiveIds
<1>2. active'[s][i] \in Requests
  BY <1>1 DEF AnswerInv, TypeOK
<1>3. /\ SessionOf[active'[s][i]] = s /\ genOf'[active'[s][i]] = gen'[s]
      /\ run'[active'[s][i]] \in {"running", "answered"}
  BY <1>1 DEF EntriesCurrent, Submitting
<1> QED
  BY <1>2, <1>3 DEF HasWaker

\* A limit leaves no room only when there is an entry.
LEMMA NoRoom ==
    ASSUME NEW s, NEW n \in Nat \ {0}, ~HasCapacity(s, n)'
    PROVE  ActiveIds(s)' # {}
BY FS_EmptySet DEF HasCapacity

\* After scheduleNext, what waits is waited for.
LEMMA TryWakes ==
    ASSUME AnswerInv, AnswerInv', NEW s \in Sessions, NEW by \in {"enqueue", "run"},
           NEW r \in Requests, NEW ctx \in Requests \cup {NoReq},
           TryScheduleNext(s, by, r, ctx), lock[s] = Free,
           EntriesCurrent(s)', queue'[s] # <<>>, lock'[s] = Free, ctx # NoReq
    PROVE  HasWaker(s)'
<1>0. /\ Limits(s) \in SUBSET (Nat \ {0})
      /\ lock \in [Sessions -> Holder \cup {Free}]
      /\ timer \in [Sessions -> Requests \cup {NoReq}]
  BY LimitTypes, SessionTypes
<1>1. PICK n \in Limits(s) :
        IF HasCapacity(s, n)' /\ queue'[s] # <<>>
        THEN IF Debounce
             THEN timer' = [timer EXCEPT ![s] = ctx]
             ELSE lock' = [lock EXCEPT ![s] =
                    [by |-> by, req |-> r, ctx |-> ctx, at |-> "loop", sub |-> NoReq]]
        ELSE TRUE
  BY DEF TryScheduleNext, StartAvailable
<1>2. CASE ~HasCapacity(s, n)'
  BY <1>0, <1>2, NoRoom, EntryWakes
<1>3. CASE HasCapacity(s, n)' /\ Debounce
  BY <1>0, <1>1, <1>3 DEF HasWaker
<1>4. CASE HasCapacity(s, n)' /\ ~Debounce
  <2>1. lock'[s] = [by |-> by, req |-> r, ctx |-> ctx, at |-> "loop", sub |-> NoReq]
    BY <1>0, <1>1, <1>4
  <2>2. lock'[s] \in Holder
    BY <2>1 DEF Holder
  <2> QED
    BY <2>2, FreeAssumption
<1> QED
  BY <1>2, <1>3, <1>4

\* What SessionInv says of an entry.
LEMMA EntryFacts ==
    ASSUME AnswerInv, NEW s \in Sessions, SessionInv(s),
           NEW i \in RunIds, NEW y \in Requests, active[s][i] = y
    PROVE  /\ SessionOf[y] = s /\ RunIdOf[y] = i /\ genOf[y] = gen[s]
           /\ run[y] \in Live \/ Submitting(s, y)
           /\ lock[s] = Free \/ lock[s].at # "submit" => run[y] \in Live
BY RequestAssumption DEF SessionInv, EntriesCurrent, Live, Submitting

\* A changed limit is one the session was given.
LEMMA SetMaxKeepsSession ==
    ASSUME AnswerInv, AnswerInv', [Next]_vars, NEW r \in Requests, NEW s \in Sessions,
           SessionOf[r] = s, SessionInv(s), pc[r] = "admitted" => OptMax[r] # 0,
           SetMaxConcurrent(r)
    PROVE  SessionInv(s)'
<1>1. /\ pc[r] = "admitted" /\ lock[s] = Free /\ OptMax[r] # 0
      /\ maxC'[s] = OptMax[r] /\ pc'[r] = "sized"
      /\ UNCHANGED <<run, genOf, queue, active, parent, gen, timer, callbacks, lock>>
  BY SessionTypes DEF SetMaxConcurrent, runVars, timeVars
<1>2. maxC'[s] \in LimitOf(s)'
  BY <1>1 DEF LimitOf
<1>3. \A y \in Requests : Submitting(s, y)' <=> Submitting(s, y)
  BY <1>1 DEF Submitting
<1>4. EntriesCurrent(s)' /\ ParentKnown(s)' /\ LimitKnown(s)' /\ OneAtATime(s)'
  BY <1>1, <1>2, <1>3, SessionShrinks, SessionTypes DEF SessionInv, ParentKnown
<1>5. queue'[s] # <<>> /\ lock'[s] = Free => HasWaker(s)'
  BY <1>1 DEF SessionInv, HasWaker
<1> QED
  BY <1>4, <1>5 DEF SessionInv

\* Enqueue leaves a timer or a run behind for what it left in the queue.
LEMMA EnqueueKeepsSession ==
    ASSUME AnswerInv, AnswerInv', [Next]_vars, NEW r \in Requests, NEW s \in Sessions,
           SessionOf[r] = s, SessionInv(s), EnqueueFifo(r) \/ EnqueueInterrupt(r)
    PROVE  SessionInv(s)'
<1>0. TypeOK /\ r # NoReq
  BY RequestAssumption DEF AnswerInv
<1>1. /\ lock[s] = Free /\ TryScheduleNext(s, "enqueue", r, r) /\ SetParent(s, r)
      /\ UNCHANGED <<maxC, gen, genOf>>
  BY DEF EnqueueFifo, EnqueueInterrupt
<1>2. /\ \A i \in RunIds, y \in Requests : active'[s][i] = y => active[s][i] = y
      /\ Interrupt => Len(queue'[s]) = 1 /\ ActiveIds(s)' = {}
  <2>1. CASE EnqueueFifo(r)
    BY <2>1 DEF EnqueueFifo
  <2>2. CASE EnqueueInterrupt(r)
    <3>1. /\ active' = [active EXCEPT ![s] = [i \in RunIds |-> NoReq]]
          /\ queue' = [queue EXCEPT ![s] = <<r>>]
      BY <2>2 DEF EnqueueInterrupt
    <3>2. \A i \in RunIds : active'[s][i] = NoReq
      BY <3>1, SessionTypes
    <3>3. Len(queue'[s]) = 1
      BY <3>1, SessionTypes
    <3> QED
      BY <3>2, <3>3, RequestAssumption DEF ActiveIds
  <2> QED
    BY <2>1, <2>2
<1>3. /\ lock'[s] = Free \/ lock'[s].at = "loop"
      /\ \A y \in Requests : run'[y] = run[y]
  BY <1>0, <1>1, TryEffect
<1>4. parent'[s] # NoReq
  BY <1>0, <1>1, SessionTypes DEF SetParent
<1>5. maxC'[s] \in LimitOf(s)'
  BY <1>1, LimitsGrow DEF SessionInv, LimitKnown
<1>6. \A y \in Requests : ~Submitting(s, y)
  BY <1>1 DEF Submitting
<1>7. EntriesCurrent(s)' /\ ParentKnown(s)' /\ LimitKnown(s)' /\ OneAtATime(s)'
  BY <1>1, <1>2, <1>3, <1>4, <1>5, <1>6, SessionShrinks
<1>8. queue'[s] # <<>> /\ lock'[s] = Free => HasWaker(s)'
  BY <1>0, <1>1, <1>7, TryWakes
<1> QED
  BY <1>7, <1>8 DEF SessionInv

\* A timer that fires leaves its callback; a callback that finds no room leaves
\* the runs that take it.
LEMMA TimerKeepsSession ==
    ASSUME AnswerInv, AnswerInv', [Next]_vars, NEW s \in Sessions, SessionInv(s),
           TimerStep(s)
    PROVE  SessionInv(s)'
<1>1. UNCHANGED <<run, genOf, queue, active, maxC, parent, gen>>
  BY DEF TimerStep, TimerFires, TimerCallback, StartAvailable, runVars, sessVars
<1>2. \/ UNCHANGED lock
      \/ lock[s] = Free /\ lock'[s].at = "loop"
  BY SessionTypes DEF TimerStep, TimerFires, TimerCallback, StartAvailable
<1>3. maxC'[s] \in LimitOf(s)'
  BY <1>1, LimitsGrow DEF SessionInv, LimitKnown
<1>4. \A y \in Requests : Submitting(s, y) => Submitting(s, y)'
  BY <1>2 DEF Submitting
<1>5. EntriesCurrent(s)' /\ ParentKnown(s)' /\ LimitKnown(s)' /\ OneAtATime(s)'
  <2>1. lock'[s] # Free /\ lock'[s].at = "pop" =>
          \E n \in LimitOf(s) : Cardinality(ActiveIds(s)) < n
    BY <1>2 DEF SessionInv, LimitKnown
  <2> QED
    BY <1>1, <1>3, <1>4, <2>1, SessionTypes, SessionShrinks
    DEF SessionInv, ParentKnown
<1>6. ASSUME queue'[s] # <<>>, lock'[s] = Free
      PROVE  HasWaker(s)'
  <2>1. CASE TimerFires(s)
    <3>1. PICK c \in Requests : c = timer[s]
      BY <2>1, SessionTypes DEF TimerFires
    <3>2. callbacks'[s][c] = callbacks[s][c] + 1 /\ callbacks[s][c] \in Nat
      BY <2>1, <3>1, SessionTypes DEF TimerFires
    <3>3. callbacks'[s][c] > 0
      BY <3>2
    <3> QED
      BY <3>3 DEF HasWaker
  <2>2. ASSUME NEW c \in Requests, TimerCallback(s, c)
        PROVE  HasWaker(s)'
    <3>1. PICK n \in Limits(s) :
            IF HasCapacity(s, n) /\ queue[s] # <<>>
            THEN StartAvailable(s, "timer", c, c) ELSE TRUE
      BY <2>2 DEF TimerCallback
    <3>2. ~StartAvailable(s, "timer", c, c)
      <4>1. [by |-> "timer", req |-> c, ctx |-> c, at |-> "loop", sub |-> NoReq] \in Holder
        BY DEF Holder
      <4> QED
        BY <1>6, <4>1, SessionTypes, FreeAssumption DEF StartAvailable
    <3>3. ~HasCapacity(s, n)'
      BY <1>1, <1>6, <3>1, <3>2 DEF HasCapacity, ActiveIds
    <3> QED
      BY <1>5, <1>6, <3>3, LimitTypes, NoRoom, EntryWakes
  <2> QED
    BY <2>1, <2>2 DEF TimerStep
<1> QED
  BY <1>5, <1>6 DEF SessionInv

\* The loop ends with nothing queued, or with the runs that leave no room.
LEMMA StopStartingKeepsSession ==
    ASSUME AnswerInv, AnswerInv', [Next]_vars, NEW s \in Sessions, SessionInv(s),
           StopStarting(s)
    PROVE  SessionInv(s)'
<1>1. /\ lock[s] # Free /\ Leave(lock[s].by, lock[s].req)
      /\ lock' = [lock EXCEPT ![s] = Free]
      /\ UNCHANGED <<queue, active, maxC, parent, gen, genOf>>
      /\ \/ queue[s] = <<>> /\ lock[s].at \in {"loop", "pop"}
         \/ lock[s].at = "loop" /\ \E n \in Limits(s) : ~HasCapacity(s, n)
  BY DEF StopStarting, sessVars
<1>2. lock'[s] = Free /\ \A y \in Requests : ~Submitting(s, y)
  BY <1>1, SessionTypes DEF Submitting
<1>3. /\ lock[s].req \in Requests
      /\ lock[s].by = "run" => run[lock[s].req] = "scheduling"
  BY <1>1, HolderFacts
<1>4. \A y \in Requests : run[y] \in Live => run'[y] \in Live
  BY <1>1, <1>3, SessionTypes DEF Leave, Live
<1>5. maxC'[s] \in LimitOf(s)'
  BY <1>1, LimitsGrow DEF SessionInv, LimitKnown
<1>6. EntriesCurrent(s)' /\ ParentKnown(s)' /\ LimitKnown(s)' /\ OneAtATime(s)'
  BY <1>1, <1>2, <1>4, <1>5, SessionTypes, SessionShrinks DEF SessionInv, ParentKnown
<1>7. ASSUME queue'[s] # <<>>
      PROVE  HasWaker(s)'
  <2>1. PICK n \in Limits(s) : ~HasCapacity(s, n)
    BY <1>1, <1>7
  <2>2. ~HasCapacity(s, n)'
    BY <1>1, <2>1 DEF HasCapacity, ActiveIds
  <2> QED
    BY <1>2, <1>6, <2>2, LimitTypes, NoRoom, EntryWakes
<1> QED
  BY <1>6, <1>7 DEF SessionInv

\* Where the thread inside startAvailable may take a request out, there is room.
LEMMA PopRoom ==
    ASSUME AnswerInv, NEW s \in Sessions, SessionInv(s), MayPop(s)
    PROVE  \E n \in LimitOf(s) : Cardinality(ActiveIds(s)) < n
<1>1. CASE lock[s].at = "pop"
  BY <1>1 DEF MayPop, SessionInv, LimitKnown
<1>2. CASE \E n \in Limits(s) : HasCapacity(s, n)
  <2>1. PICK n \in Limits(s) : Cardinality(ActiveIds(s)) < n
    BY <1>2 DEF HasCapacity
  <2>2. Cardinality(ActiveIds(s)) \in Nat
    <3>1. ActiveIds(s) \in SUBSET RunIds
      BY DEF ActiveIds
    <3> QED
      BY <3>1, FiniteAssumption, FS_Subset, FS_CardinalityType
  <2>3. n \in Nat /\ n <= maxC[s] /\ maxC[s] \in Nat
    BY LimitTypes
  <2>4. Cardinality(ActiveIds(s)) < maxC[s]
    BY <2>1, <2>2, <2>3
  <2> QED
    BY <2>4 DEF SessionInv, LimitKnown
<1> QED
  BY <1>1, <1>2 DEF MayPop

\* A stale head is skipped where there is room.
LEMMA SkipStaleKeepsSession ==
    ASSUME AnswerInv, AnswerInv', [Next]_vars, NEW s \in Sessions, SessionInv(s),
           SkipStale(s)
    PROVE  SessionInv(s)'
<1>0. TypeOK
  BY DEF AnswerInv
<1>1. /\ lock[s] # Free /\ lock[s].at # "submit" /\ queue[s] # <<>>
      /\ lock' = LockAt(s, "pop", NoReq)
      /\ queue' = [queue EXCEPT ![s] = Tail(queue[s])]
      /\ UNCHANGED <<run, genOf, active, maxC, parent, gen>>
  BY DEF SkipStale, MayPop, runVars, sessVars
<1>2. lock'[s].at = "pop" /\ lock'[s] # Free
  <2>1. lock[s] \in Holder
    BY <1>1, HolderFacts
  <2>2. lock'[s] \in Holder
    BY <1>0, <1>1, <2>1, SessionTypes DEF LockAt, Holder
  <2> QED
    BY <1>0, <1>1, <2>2, LockAtOf, FreeAssumption
<1>3. \A y \in Requests : ~Submitting(s, y)
  BY <1>1 DEF Submitting
<1>4. Len(queue'[s]) <= Len(queue[s])
  BY <1>1, SessionTypes
<1>5. maxC'[s] \in LimitOf(s)'
  BY <1>1, LimitsGrow DEF SessionInv, LimitKnown
<1>6. \E n \in LimitOf(s) : Cardinality(ActiveIds(s)) < n
  BY PopRoom DEF SkipStale
<1>7. EntriesCurrent(s)' /\ ParentKnown(s)' /\ LimitKnown(s)' /\ OneAtATime(s)'
  BY <1>1, <1>2, <1>3, <1>4, <1>5, <1>6, SessionShrinks
<1> QED
  BY <1>2, <1>7 DEF SessionInv

\* A request that starts takes the room there was.
LEMMA StartOneKeepsSession ==
    ASSUME AnswerInv, AnswerInv', [Next]_vars, NEW s \in Sessions, SessionInv(s),
           StartOne(s)
    PROVE  SessionInv(s)'
<1> DEFINE r == Head(queue[s])
<1>0. TypeOK
  BY DEF AnswerInv
<1>1. /\ lock[s] # Free /\ lock[s].at # "submit" /\ queue[s] # <<>>
      /\ lock' = LockAt(s, "submit", r)
      /\ queue' = [queue EXCEPT ![s] = Tail(queue[s])]
      /\ active' = [active EXCEPT ![s][RunIdOf[r]] = r]
      /\ genOf' = [genOf EXCEPT ![r] = gen[s]]
      /\ UNCHANGED <<run, maxC, parent, gen>>
  BY DEF StartOne, MayPop
<1>2. r \in Requests /\ SessionOf[r] = s /\ run[r] = "none" /\ RunIdOf[r] \in RunIds
  BY <1>1, HeadOf, RequestAssumption DEF Waiting
<1> HIDE DEF r
<1>3. lock'[s].at = "submit" /\ lock'[s].sub = r /\ lock'[s] # Free
  <2>1. lock[s] \in Holder
    BY <1>1, HolderFacts
  <2>2. lock'[s] \in Holder
    BY <1>0, <1>1, <1>2, <2>1, SessionTypes DEF LockAt, Holder
  <2> QED
    BY <1>0, <1>1, <2>2, LockAtOf, FreeAssumption
<1>4. /\ active'[s][RunIdOf[r]] = r /\ genOf'[r] = gen[s]
      /\ \A i \in RunIds : i # RunIdOf[r] => active'[s][i] = active[s][i]
      /\ \A y \in Requests : y # r => genOf'[y] = genOf[y]
  BY <1>1, <1>2, SessionTypes
<1>5. EntriesCurrent(s)'
  <2> SUFFICES ASSUME NEW i \in RunIds, NEW y \in Requests, active'[s][i] = y
               PROVE  /\ SessionOf[y] = s /\ RunIdOf[y] = i /\ genOf'[y] = gen'[s]
                      /\ run'[y] \in Live \/ Submitting(s, y)'
    <3>1. \A i \in RunIds : active'[s][i] # NoReq => active'[s][i] \in Requests
      BY DEF AnswerInv, TypeOK
    <3> QED
      BY <3>1 DEF EntriesCurrent, Submitting, Live
  <2>1. CASE i = RunIdOf[r]
    BY <1>1, <1>2, <1>3, <1>4, <2>1 DEF Submitting
  <2>2. CASE i # RunIdOf[r]
    <3>1. active[s][i] = y
      BY <1>4, <2>2
    <3>2. /\ SessionOf[y] = s /\ RunIdOf[y] = i /\ genOf[y] = gen[s] /\ run[y] \in Live
      BY <1>1, <3>1, EntryFacts
    <3> QED
      BY <1>1, <1>2, <1>4, <3>2 DEF Live
  <2> QED
    BY <2>1, <2>2
<1>6. ParentKnown(s)'
  BY <1>1 DEF SessionInv, ParentKnown
<1>7. /\ Cardinality(ActiveIds(s)) \in Nat /\ Cardinality(ActiveIds(s)') \in Nat
      /\ Cardinality(ActiveIds(s)') <= Cardinality(ActiveIds(s)) + 1
  <2>1. ActiveIds(s)' = ActiveIds(s) \cup {RunIdOf[r]}
    BY <1>2, <1>4, RequestAssumption DEF ActiveIds
  <2>2. IsFiniteSet(ActiveIds(s)) /\ Cardinality(ActiveIds(s)) \in Nat
    <3>1. ActiveIds(s) \in SUBSET RunIds
      BY DEF ActiveIds
    <3> QED
      BY <3>1, FiniteAssumption, FS_Subset, FS_CardinalityType
  <2> QED
    BY <2>1, <2>2, FS_AddElement
<1>8. LimitKnown(s)'
  <2>1. PICK n \in LimitOf(s) : Cardinality(ActiveIds(s)) < n
    BY PopRoom DEF StartOne
  <2>2. n \in LimitOf(s)' /\ n \in Nat /\ maxC'[s] \in LimitOf(s)'
    BY <1>1, <2>1, LimitsGrow, LimitTypes DEF SessionInv, LimitKnown
  <2>3. Cardinality(ActiveIds(s)') <= n
    BY <1>7, <2>1, <2>2
  <2> QED
    BY <1>3, <2>2, <2>3 DEF LimitKnown
<1>9. OneAtATime(s)'
  <2>1. Len(queue'[s]) + 1 = Len(queue[s]) /\ Len(queue'[s]) \in Nat
    BY <1>1, SessionTypes
  <2>2. ASSUME Interrupt
        PROVE  Len(queue'[s]) + Cardinality(ActiveIds(s)') <= 1
    <3>1. Len(queue[s]) + Cardinality(ActiveIds(s)) <= 1
      BY <2>2 DEF SessionInv, OneAtATime
    <3> QED
      BY <1>7, <2>1, <3>1
  <2> QED
    BY <2>2 DEF OneAtATime
<1> QED
  BY <1>3, <1>5, <1>6, <1>8, <1>9 DEF SessionInv

\* Submit ends with a run or without the entry.
LEMMA SubmitKeepsSession ==
    ASSUME AnswerInv, AnswerInv', [Next]_vars, NEW s \in Sessions, SessionInv(s),
           SubmitToken(s) \/ SubmitRefused(s)
    PROVE  SessionInv(s)'
<1>0. TypeOK
  BY DEF AnswerInv
<1>1. /\ lock[s] # Free /\ lock[s].at = "submit"
      /\ lock' = LockAt(s, "loop", NoReq)
      /\ UNCHANGED <<genOf, queue, maxC, parent, gen>>
  BY DEF SubmitToken, SubmitRefused, runVars, sessVars
<1>2. PICK x \in Requests : x = lock[s].sub /\ SessionOf[x] = s /\ run[x] = "none"
  BY <1>1, HolderFacts DEF Waiting
<1>3. lock'[s].at = "loop" /\ lock'[s] # Free
  <2>1. lock[s] \in Holder
    BY <1>1, HolderFacts
  <2>2. lock'[s] \in Holder
    BY <1>0, <1>1, <2>1, SessionTypes DEF LockAt, Holder
  <2> QED
    BY <1>0, <1>1, <2>2, LockAtOf, FreeAssumption
<1>4. \A y \in Requests : Submitting(s, y) => y = x
  BY <1>2 DEF Submitting
<1>5. \A i \in RunIds, y \in Requests : active'[s][i] = y =>
        /\ active[s][i] = y
        /\ run[y] \in Live => run'[y] \in Live
        /\ Submitting(s, y) => run'[y] \in Live
  <2>1. CASE SubmitToken(s)
    <3>1. active' = active /\ run' = [run EXCEPT ![x] = "running"]
      BY <1>2, <2>1 DEF SubmitToken
    <3> QED
      BY <1>2, <1>4, <3>1, SessionTypes DEF Live
  <2>2. CASE SubmitRefused(s)
    <3>1. active' = [active EXCEPT ![s][RunIdOf[x]] = NoReq] /\ UNCHANGED run
      BY <1>2, <2>2 DEF SubmitRefused, runVars
    <3>2. /\ active'[s][RunIdOf[x]] = NoReq
          /\ \A i \in RunIds : i # RunIdOf[x] => active'[s][i] = active[s][i]
      BY <3>1, RequestAssumption, SessionTypes
    <3>3. \A i \in RunIds, y \in Requests : active'[s][i] = y =>
            active[s][i] = y /\ i # RunIdOf[x] /\ RunIdOf[y] = i
      BY <3>2, RequestAssumption, EntryFacts
    <3> QED
      BY <1>4, <3>1, <3>3
  <2> QED
    BY <2>1, <2>2
<1>6. maxC'[s] \in LimitOf(s)'
  BY <1>1, LimitsGrow DEF SessionInv, LimitKnown
<1>7. /\ gen'[s] = gen[s] /\ parent'[s] = parent[s] /\ queue'[s] = queue[s]
      /\ Len(queue'[s]) <= Len(queue[s])
      /\ \A y \in Requests : genOf'[y] = genOf[y]
  BY <1>1, SessionTypes
<1>8. EntriesCurrent(s)' /\ ParentKnown(s)' /\ LimitKnown(s)' /\ OneAtATime(s)'
  BY <1>3, <1>5, <1>6, <1>7, SessionShrinks
<1> QED
  BY <1>3, <1>8 DEF SessionInv

\* A run that ends comes back to the queue until it has completed.
LEMMA RunsKeepSession ==
    ASSUME AnswerInv, AnswerInv', [Next]_vars, NEW r \in Requests, NEW s \in Sessions,
           SessionOf[r] = s, SessionInv(s),
           FinishRun(r) \/ CompleteOldRun(r) \/ ReturnToken(r)
    PROVE  SessionInv(s)'
<1>1. UNCHANGED <<genOf, queue, active, maxC, parent, gen, timer, callbacks, lock>>
  BY DEF FinishRun, CompleteOldRun, ReturnToken, sessVars, timeVars
<1>2. /\ \A y \in Requests : y # r => run'[y] = run[y]
      /\ \/ run'[r] \in Live
         \/ run[r] \notin Live
         \/ genOf[r] # gen[s]
  BY SessionTypes DEF FinishRun, CompleteOldRun, ReturnToken, Live
<1>3. /\ gen'[s] = gen[s] /\ parent'[s] = parent[s] /\ queue'[s] = queue[s]
      /\ Len(queue'[s]) <= Len(queue[s]) /\ maxC'[s] \in LimitOf(s)'
      /\ \A y \in Requests : genOf'[y] = genOf[y]
  BY <1>1, SessionTypes, LimitsGrow DEF SessionInv, LimitKnown
<1>4. \A i \in RunIds, y \in Requests : active'[s][i] = y =>
        /\ active[s][i] = y
        /\ run[y] \in Live => run'[y] \in Live
        /\ Submitting(s, y) => Submitting(s, y)'
  BY <1>1, <1>2, EntryFacts DEF Submitting
<1>5. lock'[s] # Free /\ lock'[s].at = "pop" =>
        \E n \in LimitOf(s) : Cardinality(ActiveIds(s)) < n
  BY <1>1 DEF SessionInv, LimitKnown
<1>6. EntriesCurrent(s)' /\ ParentKnown(s)' /\ LimitKnown(s)' /\ OneAtATime(s)'
  BY <1>3, <1>4, <1>5, SessionShrinks
<1>7. HasWaker(s) => HasWaker(s)'
  BY <1>1, <1>2 DEF HasWaker, Live
<1> QED
  BY <1>1, <1>6, <1>7 DEF SessionInv

\* A completion takes its entry out and goes on with the queue.
LEMMA CompleteKeepsSession ==
    ASSUME AnswerInv, AnswerInv', [Next]_vars, NEW r \in Requests, NEW s \in Sessions,
           SessionOf[r] = s, SessionInv(s), CompleteRun(r)
    PROVE  SessionInv(s)'
<1> DEFINE id == RunIdOf[r]
<1>0. TypeOK /\ id \in RunIds
  BY RequestAssumption DEF AnswerInv
<1>1. /\ run[r] = "answered" /\ lock[s] = Free
      /\ TryScheduleNext(s, "run", r, parent[s])
      /\ UNCHANGED <<genOf, queue, maxC, parent, gen>>
      /\ \/ active' = [active EXCEPT ![s][id] = NoReq]
         \/ /\ UNCHANGED active
            /\ ~(active[s][id] # NoReq /\ genOf[active[s][id]] = gen[s])
  BY DEF CompleteRun, sessVars
<1> HIDE DEF id
<1>2. active'[s][id] = NoReq /\ \A i \in RunIds : i # id => active'[s][i] = active[s][i]
  <2>1. CASE active' = [active EXCEPT ![s][id] = NoReq]
    BY <1>0, <2>1, SessionTypes
  <2>2. CASE UNCHANGED active /\ active[s][id] = NoReq
    BY <2>2
  <2>3. genOf[active[s][id]] = gen[s] \/ active[s][id] = NoReq
    <3>0. SUFFICES ASSUME active[s][id] # NoReq PROVE genOf[active[s][id]] = gen[s]
      OBVIOUS
    <3>1. PICK y \in Requests : active[s][id] = y
      BY <1>0, <3>0, SessionTypes
    <3> QED
      BY <1>0, <3>1, EntryFacts
  <2> QED
    BY <1>1, <2>1, <2>2, <2>3
<1>3. PICK p \in Requests \cup {NoReq} : p = parent[s]
  BY SessionTypes
<1>4. /\ lock'[s] = Free \/ lock'[s].at = "loop"
      /\ \A y \in Requests : y # r => run'[y] = run[y]
  BY <1>0, <1>1, <1>3, TryEffect
<1>5. \A i \in RunIds, y \in Requests : active'[s][i] = y =>
        /\ active[s][i] = y
        /\ run[y] \in Live => run'[y] \in Live
        /\ ~Submitting(s, y)
  <2> SUFFICES ASSUME NEW i \in RunIds, NEW y \in Requests, active'[s][i] = y
               PROVE  /\ active[s][i] = y /\ y # r /\ ~Submitting(s, y)
    BY <1>4
  <2>1. i # id /\ active[s][i] = y
    BY <1>2, RequestAssumption
  <2>2. RunIdOf[y] = i
    BY <2>1, EntryFacts
  <2> QED
    BY <1>1, <2>1, <2>2 DEF Submitting, id
<1>6. /\ gen'[s] = gen[s] /\ parent'[s] = parent[s] /\ queue'[s] = queue[s]
      /\ Len(queue'[s]) <= Len(queue[s]) /\ maxC'[s] \in LimitOf(s)'
      /\ \A y \in Requests : genOf'[y] = genOf[y]
  BY <1>1, SessionTypes, LimitsGrow DEF SessionInv, LimitKnown
<1>7. EntriesCurrent(s)' /\ ParentKnown(s)' /\ LimitKnown(s)' /\ OneAtATime(s)'
  BY <1>4, <1>5, <1>6, SessionShrinks
<1>8. ASSUME queue'[s] # <<>>, lock'[s] = Free
      PROVE  HasWaker(s)'
  <2>1. p # NoReq
    BY <1>3, <1>6, <1>8 DEF SessionInv, ParentKnown
  <2> QED
    BY <1>1, <1>3, <1>7, <1>8, <2>1, TryWakes
<1> QED
  BY <1>7, <1>8 DEF SessionInv

\* /stop takes an entry away but no run, no timer and nothing of the queue.
LEMMA CancelOneKeepsSession ==
    ASSUME AnswerInv, AnswerInv', [Next]_vars, NEW s \in Sessions, SessionInv(s),
           CancelOne(s)
    PROVE  SessionInv(s)'
<1>1. UNCHANGED <<run, genOf, queue, maxC, parent, gen, timer, callbacks, lock>>
  BY DEF CancelOne, sessVars, timeVars
<1>2. \A i \in RunIds, y \in Requests : active'[s][i] = y => active[s][i] = y
  BY SessionTypes, RequestAssumption DEF CancelOne
<1>3. /\ gen'[s] = gen[s] /\ parent'[s] = parent[s] /\ queue'[s] = queue[s]
      /\ Len(queue'[s]) <= Len(queue[s]) /\ maxC'[s] \in LimitOf(s)'
      /\ \A y \in Requests : genOf'[y] = genOf[y] /\ run'[y] = run[y]
      /\ lock'[s] = Free /\ lock[s] = Free
  BY <1>1, SessionTypes, LimitsGrow DEF SessionInv, LimitKnown, CancelOne
<1>4. \A y \in Requests : ~Submitting(s, y)
  BY <1>3 DEF Submitting
<1>5. EntriesCurrent(s)' /\ ParentKnown(s)' /\ LimitKnown(s)' /\ OneAtATime(s)'
  BY <1>2, <1>3, <1>4, SessionShrinks
<1>6. HasWaker(s) => HasWaker(s)'
  BY <1>1 DEF HasWaker
<1> QED
  BY <1>1, <1>5, <1>6 DEF SessionInv

\* /stopall and Reset leave neither an entry nor a request in the queue.
LEMMA DropKeepsSession ==
    ASSUME AnswerInv, AnswerInv', [Next]_vars, NEW s \in Sessions, SessionInv(s),
           CancelAll(s) \/ Reset(s)
    PROVE  SessionInv(s)'
<1>1. /\ lock[s] = Free /\ UNCHANGED <<lock, maxC, parent>>
      /\ active' = [active EXCEPT ![s] = [i \in RunIds |-> NoReq]]
      /\ queue' = [queue EXCEPT ![s] = <<>>]
  BY DEF CancelAll, Reset, DropEverything
<1>2. queue'[s] = <<>> /\ \A i \in RunIds : active'[s][i] = NoReq
  BY <1>1, SessionTypes
<1>3. \A i \in RunIds, y \in Requests : active'[s][i] # y
  BY <1>2, RequestAssumption
<1>4. /\ Len(queue'[s]) <= Len(queue[s]) /\ maxC'[s] \in LimitOf(s)'
      /\ lock'[s] = Free
  BY <1>1, <1>2, SessionTypes, LimitsGrow DEF SessionInv, LimitKnown
<1>5. EntriesCurrent(s)' /\ ParentKnown(s)' /\ LimitKnown(s)' /\ OneAtATime(s)'
  BY <1>2, <1>3, <1>4, SessionShrinks
<1> QED
  BY <1>2, <1>5 DEF SessionInv

\* Every step of a session keeps what is said of it.
LEMMA AtSessionKeeps ==
    ASSUME AnswerInv, AnswerInv', [Next]_vars, NEW s \in Sessions, SessionInv(s),
           AtSession(s), \A r \in Requests : pc[r] = "admitted" => OptMax[r] # 0
    PROVE  SessionInv(s)'
<1>1. ASSUME NEW r \in Requests, SessionOf[r] = s,
             \/ SetMaxConcurrent(r) \/ EnqueueFifo(r)
             \/ EnqueueInterrupt(r) \/ RunStep(r)
      PROVE  SessionInv(s)'
  BY <1>1, SetMaxKeepsSession, EnqueueKeepsSession, RunsKeepSession, CompleteKeepsSession
  DEF RunStep
<1>2. CASE TimerStep(s)
  BY <1>2, TimerKeepsSession
<1>3. CASE LockStep(s)
  BY <1>3, StopStartingKeepsSession, SkipStaleKeepsSession, StartOneKeepsSession,
     SubmitKeepsSession
  DEF LockStep
<1>4. CASE CommandStep(s)
  BY <1>4, CancelOneKeepsSession, DropKeepsSession DEF CommandStep
<1> QED
  BY <1>1, <1>2, <1>3, <1>4 DEF AtSession

\* Every step concerns one session or none.
LEMMA NextCases ==
    ASSUME [Next]_vars
    PROVE  Nowhere \/ \E s \in Sessions : AtSession(s)
<1>1. ASSUME NEW r \in Requests, CallerStep(r) \/ RunStep(r)
      PROVE  Nowhere \/ AtSession(SessionOf[r])
  BY <1>1 DEF CallerStep, Nowhere, AtSession
<1>2. \A r \in Requests : SessionOf[r] \in Sessions
  BY RequestAssumption
<1>3. ASSUME NEW s \in Sessions, TimerStep(s) \/ LockStep(s) \/ CommandStep(s)
      PROVE  AtSession(s)
  BY <1>3 DEF AtSession
<1>4. CASE Shutdown \/ HaltStep \/ UNCHANGED vars
  BY <1>4 DEF Nowhere
<1> QED
  BY <1>1, <1>2, <1>3, <1>4 DEF Next

\* RegistryInv holds initially and every step keeps it.
LEMMA RegistryInvInit == Init => RegistryInv
<1> SUFFICES ASSUME Init PROVE RegistryInv
  OBVIOUS
<1>1. AnswerInv
  BY AnswerInvInit
<1>2. \A r \in Requests : pc[r] = "admitted" => OptMax[r] # 0
  BY DEF Init
<1>3. ASSUME NEW s \in Sessions
      PROVE  SessionInv(s)
  <2>1. /\ queue[s] = <<>> /\ lock[s] = Free /\ maxC[s] = DefaultMax
        /\ \A i \in RunIds : active[s][i] = NoReq
    BY <1>3 DEF Init
  <2>2. ActiveIds(s) = {} /\ Cardinality(ActiveIds(s)) = 0
    <3>1. ActiveIds(s) = {}
      BY <2>1 DEF ActiveIds
    <3> QED
      BY <3>1, FS_EmptySet
  <2>3. LimitKnown(s)
    <3>1. DefaultMax \in LimitOf(s) /\ DefaultMax \in Nat
      BY ConfigAssumption DEF LimitOf
    <3> QED
      BY <2>1, <2>2, <3>1 DEF LimitKnown
  <2>4. Len(queue[s]) = 0
    BY <2>1
  <2> QED
    BY <2>1, <2>2, <2>3, <2>4
    DEF SessionInv, EntriesCurrent, ParentKnown, OneAtATime
<1> QED
  BY <1>1, <1>2, <1>3 DEF RegistryInv

\* Each step keeps it: the session it concerns by the lemma of its action, the
\* others because nothing of theirs changes.
LEMMA RegistryInvStep == RegistryInv /\ [Next]_vars => RegistryInv'
<1> SUFFICES ASSUME RegistryInv, [Next]_vars PROVE RegistryInv'
  OBVIOUS
<1>1. AnswerInv /\ AnswerInv'
  BY AnswerInvStep DEF RegistryInv
<1>2. \A r \in Requests : pc'[r] = "admitted" => OptMax[r] # 0
  BY <1>1, SizedGrows DEF RegistryInv
<1>3. ASSUME NEW z \in Sessions
      PROVE  SessionInv(z)'
  <2>1. SessionInv(z)
    BY DEF RegistryInv
  <2>2. CASE Nowhere
    BY <1>1, <2>1, <2>2, NowhereSame, SameKeeps
  <2>3. ASSUME NEW s \in Sessions, AtSession(s)
        PROVE  SessionInv(z)'
    <3>1. CASE z = s
      BY <1>1, <2>1, <2>3, <3>1, AtSessionKeeps DEF RegistryInv
    <3>2. CASE z # s
      BY <1>1, <2>1, <2>3, <3>2, StepElsewhere, SameKeeps DEF Elsewhere
    <3> QED
      BY <3>1, <3>2
  <2> QED
    BY <2>2, <2>3, NextCases
<1> QED
  BY <1>1, <1>2, <1>3 DEF RegistryInv

\* No lost wake-up: what waits in a queue that nobody is inside of is waited
\* for by a timer, a fired callback or a run.
THEOREM SchedulerQueuedHasWaker == Spec => []QueuedHasWaker
<1>1. RegistryInv => QueuedHasWaker
  BY DEF RegistryInv, SessionInv, QueuedHasWaker
<1> QED
  BY <1>1, RegistryInvInit, RegistryInvStep, PTL DEF Spec

\* No leaked entry: what takes the capacity of a session executes or is about
\* to give it back.
THEOREM SchedulerNoLeakedEntry == Spec => []NoLeakedEntry
<1>1. RegistryInv => NoLeakedEntry
  BY DEF RegistryInv, SessionInv, EntriesCurrent, Submitting, NoLeakedEntry,
         ActiveReqs, ActiveIds
<1> QED
  BY <1>1, RegistryInvInit, RegistryInvStep, PTL DEF Spec
-----------------------------------------------------------------------------
(* Runs and entries one to one, when the run IDs of a session are distinct. *)

\* An order without the first occurrence of id, element by element.
LEMMA RemoveAt ==
    ASSUME NEW q \in Seq(RunIds), NEW id \in RunIds, Distinct(q)
    PROVE  LET R == RemoveFromOrder(q, id) IN
           /\ R \in Seq(RunIds)
           /\ \/ \E k \in 1..Len(q) :
                   /\ q[k] = id /\ Len(R) = Len(q) - 1
                   /\ \A i \in 1..Len(R) : R[i] = IF i < k THEN q[i] ELSE q[i + 1]
              \/ /\ \A k \in 1..Len(q) : q[k] # id
                 /\ Len(R) = Len(q) /\ \A i \in 1..Len(R) : R[i] = q[i]
<1> DEFINE R == RemoveFromOrder(q, id)
           B == {i \in 1..Len(q) : \A j \in 1..i : q[j] # id}
           n == Cardinality(B)
<1>1. Len(q) \in Nat /\ \A i \in 1..Len(q) : q[i] \in RunIds
  OBVIOUS
<1>2. R \in Seq(RunIds) /\ R = SubSeq(q, 1, n) \o SubSeq(q, n + 2, Len(q))
  BY RemoveType DEF RemoveFromOrder
<1>3. ASSUME NEW m \in Nat, n = m, m <= Len(q)
      PROVE  /\ Len(R) = m + (IF m + 2 <= Len(q) THEN Len(q) - m - 1 ELSE 0)
             /\ \A i \in 1..Len(R) : R[i] = IF i <= m THEN q[i] ELSE q[i + 1]
  <2> DEFINE A == SubSeq(q, 1, m)
             Z == SubSeq(q, m + 2, Len(q))
  <2> HIDE DEF n
  <2>1. /\ A \in Seq(RunIds) /\ Len(A) = m
        /\ \A i \in 1..m : A[i] = q[i]
    <3>1. \A i \in 1..m : q[i] \in RunIds
      BY <1>1, <1>3
    <3>2. /\ A \in Seq(RunIds)
          /\ Len(A) = IF 1 <= m THEN m - 1 + 1 ELSE 0
          /\ \A i \in 1..(m - 1 + 1) : A[i] = q[1 + i - 1]
      BY <3>1, SubSeqProperties
    <3> QED
      BY <3>2
  <2>2. /\ Z \in Seq(RunIds)
        /\ Len(Z) = IF m + 2 <= Len(q) THEN Len(q) - m - 1 ELSE 0
        /\ \A i \in 1..(Len(q) - m - 1) : Z[i] = q[m + i + 1]
    <3>1. \A i \in (m + 2)..Len(q) : q[i] \in RunIds
      BY <1>1
    <3>2. m + 2 \in Int /\ Len(q) \in Int
      BY <1>1
    <3>3. /\ Z \in Seq(RunIds)
          /\ Len(Z) = IF m + 2 <= Len(q) THEN Len(q) - (m + 2) + 1 ELSE 0
          /\ \A i \in 1..(Len(q) - (m + 2) + 1) : Z[i] = q[(m + 2) + i - 1]
      BY <3>1, <3>2, SubSeqProperties
    <3>4. Len(q) - (m + 2) + 1 = Len(q) - m - 1 /\ \A i \in Int : (m + 2) + i - 1 = m + i + 1
      BY <1>1
    <3> QED
      BY <3>3, <3>4
  <2>3. R = A \o Z
    BY <1>2, <1>3
  <2> HIDE DEF A, Z, R
  <2>4. /\ Len(R) = Len(A) + Len(Z)
        /\ \A i \in 1..(Len(A) + Len(Z)) :
             R[i] = IF i <= Len(A) THEN A[i] ELSE Z[i - Len(A)]
    BY <2>1, <2>2, <2>3, ConcatProperties
  <2>5. Len(Z) \in Nat
    BY <2>2
  <2>6. ASSUME NEW i \in 1..Len(R)
        PROVE  R[i] = IF i <= m THEN q[i] ELSE q[i + 1]
    <3>1. CASE i <= m
      BY <2>1, <2>4, <2>6, <3>1
    <3>2. CASE i > m
      <4>1. R[i] = Z[i - m] /\ i - m \in 1..Len(Z)
        BY <2>1, <2>4, <2>5, <2>6, <3>2
      <4>2. i - m \in 1..(Len(q) - m - 1)
        BY <1>1, <2>2, <4>1
      <4>3. m + (i - m) + 1 = i + 1
        BY <2>6
      <4> QED
        BY <2>2, <3>2, <4>1, <4>2, <4>3
    <3> QED
      BY <2>6, <3>1, <3>2
  <2> QED
    BY <2>1, <2>2, <2>4, <2>6
<1>4. n = Cardinality(B) /\ B = {i \in 1..Len(q) : \A j \in 1..i : q[j] # id}
  OBVIOUS
<1> HIDE DEF R, B, n
<1>5. ASSUME NEW k \in 1..Len(q), q[k] = id
      PROVE  /\ Len(R) = Len(q) - 1
             /\ \A i \in 1..Len(R) : R[i] = IF i < k THEN q[i] ELSE q[i + 1]
  <2>1. \A j \in 1..Len(q) : q[j] = id => j = k
    BY <1>5 DEF Distinct
  <2>2. B = 1..(k - 1)
    BY <1>1, <1>4, <1>5, <2>1
  <2>3. k - 1 \in Nat /\ k - 1 <= Len(q)
    BY <1>1
  <2>4. Cardinality(1..(k - 1)) = k - 1
    <3>1. 1 \in Int /\ k - 1 \in Int
      BY <2>3
    <3>2. Cardinality(1..(k - 1)) = IF 1 > k - 1 THEN 0 ELSE (k - 1) - 1 + 1
      BY <3>1, FS_Interval
    <3> QED
      BY <2>3, <3>2
  <2>5. n = k - 1
    BY <1>4, <2>2, <2>4
  <2>6. /\ Len(R) = (k - 1) + (IF (k - 1) + 2 <= Len(q) THEN Len(q) - (k - 1) - 1 ELSE 0)
        /\ \A i \in 1..Len(R) : R[i] = IF i <= k - 1 THEN q[i] ELSE q[i + 1]
    BY <1>3, <2>3, <2>5
  <2>7. Len(R) = Len(q) - 1
    BY <1>1, <2>6
  <2>8. \A i \in 1..Len(R) : R[i] = IF i < k THEN q[i] ELSE q[i + 1]
    BY <1>1, <2>6
  <2> QED
    BY <2>7, <2>8
<1>6. ASSUME \A k \in 1..Len(q) : q[k] # id
      PROVE  Len(R) = Len(q) /\ \A i \in 1..Len(R) : R[i] = q[i]
  <2>1. B = 1..Len(q)
    BY <1>1, <1>4, <1>6
  <2>2. Cardinality(1..Len(q)) = Len(q)
    <3>1. 1 \in Int /\ Len(q) \in Int
      BY <1>1
    <3>2. Cardinality(1..Len(q)) = IF 1 > Len(q) THEN 0 ELSE Len(q) - 1 + 1
      BY <3>1, FS_Interval
    <3> QED
      BY <1>1, <3>2
  <2>3. n = Len(q)
    BY <1>4, <2>1, <2>2
  <2>4. PICK m \in Nat : m = Len(q) /\ n = m /\ m <= Len(q)
    BY <1>1, <2>3
  <2>5. /\ Len(R) = m + (IF m + 2 <= Len(q) THEN Len(q) - m - 1 ELSE 0)
        /\ \A i \in 1..Len(R) : R[i] = IF i <= m THEN q[i] ELSE q[i + 1]
    BY <1>3, <2>4
  <2>6. Len(R) = Len(q)
    BY <1>1, <2>4, <2>5
  <2> QED
    BY <1>1, <2>4, <2>5, <2>6
<1>7. R \in Seq(RunIds)
  BY <1>2
<1> QED
  BY <1>5, <1>6, <1>7 DEF R

\* Taking an ID out of an order without repetitions takes out that ID alone.
LEMMA RemoveDistinct ==
    ASSUME NEW q \in Seq(RunIds), NEW id \in RunIds, Distinct(q)
    PROVE  /\ Members(RemoveFromOrder(q, id)) = Members(q) \ {id}
           /\ Distinct(RemoveFromOrder(q, id))
<1> DEFINE R == RemoveFromOrder(q, id)
<1>1. /\ R \in Seq(RunIds)
      /\ \/ \E k \in 1..Len(q) :
              /\ q[k] = id /\ Len(R) = Len(q) - 1
              /\ \A i \in 1..Len(R) : R[i] = IF i < k THEN q[i] ELSE q[i + 1]
         \/ /\ \A k \in 1..Len(q) : q[k] # id
            /\ Len(R) = Len(q) /\ \A i \in 1..Len(R) : R[i] = q[i]
  BY RemoveAt
<1> HIDE DEF R
<1>2. /\ Members(q) = {q[i] : i \in 1..Len(q)} /\ Members(R) = {R[i] : i \in 1..Len(R)}
      /\ Len(q) \in Nat
  BY <1>1 DEF Members
<1>3. CASE \E k \in 1..Len(q) :
              /\ q[k] = id /\ Len(R) = Len(q) - 1
              /\ \A i \in 1..Len(R) : R[i] = IF i < k THEN q[i] ELSE q[i + 1]
  <2>1. PICK k \in 1..Len(q) :
              /\ q[k] = id /\ Len(R) = Len(q) - 1
              /\ \A i \in 1..Len(R) : R[i] = IF i < k THEN q[i] ELSE q[i + 1]
    BY <1>3
  <2>2. \A i \in 1..Len(R) : i \in 1..Len(q) /\ i + 1 \in 1..Len(q)
    BY <1>2, <2>1
  <2>3. \A j \in 1..Len(q) : q[j] = id => j = k
    BY <2>1 DEF Distinct
  <2>4. Members(R) \subseteq Members(q) \ {id}
    BY <1>2, <2>1, <2>2, <2>3
  <2>5. ASSUME NEW j \in 1..Len(q), q[j] # id
        PROVE  \E i \in 1..Len(R) : R[i] = q[j]
    <3>1. CASE j < k
      <4>1. j \in 1..Len(R) /\ R[j] = q[j]
        BY <1>2, <2>1, <3>1
      <4> QED
        BY <4>1
    <3>2. CASE j > k
      <4>1. j - 1 \in 1..Len(R) /\ ~(j - 1 < k) /\ (j - 1) + 1 = j
        BY <1>2, <2>1, <3>2
      <4>2. R[j - 1] = q[j]
        BY <2>1, <4>1
      <4> QED
        BY <4>1, <4>2
    <3> QED
      BY <2>1, <2>5, <3>1, <3>2
  <2>6. Members(q) \ {id} \subseteq Members(R)
    BY <1>2, <2>5
  <2>7. Distinct(R)
    <3> SUFFICES ASSUME NEW i \in 1..Len(R), NEW j \in 1..Len(R), R[i] = R[j]
                 PROVE  i = j
      BY DEF Distinct
    <3>1. /\ R[i] = IF i < k THEN q[i] ELSE q[i + 1]
          /\ R[j] = IF j < k THEN q[j] ELSE q[j + 1]
      BY <2>1
    <3>2. (IF i < k THEN i ELSE i + 1) = (IF j < k THEN j ELSE j + 1)
      BY <2>2, <3>1 DEF Distinct
    <3> QED
      BY <3>2
  <2> QED
    BY <2>4, <2>6, <2>7 DEF R
<1>4. CASE /\ \A k \in 1..Len(q) : q[k] # id
           /\ Len(R) = Len(q) /\ \A i \in 1..Len(R) : R[i] = q[i]
  <2>1. Members(R) = Members(q) \ {id}
    BY <1>2, <1>4
  <2>2. Distinct(R)
    BY <1>4 DEF Distinct
  <2> QED
    BY <2>1, <2>2 DEF R
<1> QED
  BY <1>1, <1>3, <1>4

\* The members of an order by position.
LEMMA MembersOf ==
    ASSUME NEW q \in Seq(RunIds)
    PROVE  Members(q) = {q[i] : i \in 1..Len(q)}
BY DEF Members

\* The tail of an order without repetitions is the order without its head.
LEMMA TailMembers ==
    ASSUME NEW q \in Seq(RunIds), q # <<>>, Distinct(q)
    PROVE  Members(Tail(q)) = Members(q) \ {Head(q)} /\ Distinct(Tail(q))
<1>1. /\ Tail(q) \in Seq(RunIds) /\ Head(q) = q[1] /\ Len(q) >= 1
      /\ Len(Tail(q)) = Len(q) - 1 /\ Len(q) \in Nat
      /\ \A i \in 1..(Len(q) - 1) : Tail(q)[i] = q[i + 1]
  OBVIOUS
<1>2. /\ Members(q) = {q[i] : i \in 1..Len(q)}
      /\ Members(Tail(q)) = {Tail(q)[i] : i \in 1..Len(Tail(q))}
  BY <1>1, MembersOf
<1>3. \A i \in 1..(Len(q) - 1) : i + 1 \in 1..Len(q) /\ i + 1 # 1
  BY <1>1
<1>4. \A j \in 1..Len(q) : j # 1 => j - 1 \in 1..(Len(q) - 1) /\ (j - 1) + 1 = j
  BY <1>1
<1>5. 1 \in 1..Len(q)
  BY <1>1
<1>6. Members(Tail(q)) \subseteq Members(q) \ {Head(q)}
  <2> SUFFICES ASSUME NEW i \in 1..Len(Tail(q))
               PROVE  Tail(q)[i] \in Members(q) \ {Head(q)}
    BY <1>2
  <2>1. Tail(q)[i] = q[i + 1] /\ i + 1 \in 1..Len(q) /\ i + 1 # 1
    BY <1>1, <1>3
  <2>2. q[i + 1] # q[1]
    BY <1>5, <2>1 DEF Distinct
  <2> QED
    BY <1>1, <1>2, <2>1, <2>2
<1>7. ASSUME NEW j \in 1..Len(q), q[j] # Head(q)
      PROVE  q[j] \in Members(Tail(q))
  <2>1. j - 1 \in 1..(Len(q) - 1) /\ Tail(q)[j - 1] = q[j]
    BY <1>1, <1>4, <1>7
  <2> QED
    BY <1>1, <1>2, <2>1
<1>8. Members(q) \ {Head(q)} \subseteq Members(Tail(q))
  BY <1>2, <1>7
<1>9. ASSUME NEW i \in 1..Len(Tail(q)), NEW j \in 1..Len(Tail(q)), Tail(q)[i] = Tail(q)[j]
      PROVE  i = j
  <2>1. q[i + 1] = q[j + 1] /\ i + 1 \in 1..Len(q) /\ j + 1 \in 1..Len(q)
    BY <1>1, <1>3, <1>9
  <2>2. i + 1 = j + 1
    BY <2>1 DEF Distinct
  <2> QED
    BY <1>1, <2>2
<1> QED
  BY <1>6, <1>8, <1>9 DEF Distinct

\* Appending a new ID to an order without repetitions.
LEMMA AppendMembers ==
    ASSUME NEW q \in Seq(RunIds), NEW id \in RunIds, Distinct(q), id \notin Members(q)
    PROVE  Members(Append(q, id)) = Members(q) \cup {id} /\ Distinct(Append(q, id))
<1>1. /\ Append(q, id) \in Seq(RunIds) /\ Len(Append(q, id)) = Len(q) + 1
      /\ Append(q, id)[Len(q) + 1] = id /\ Len(q) \in Nat
      /\ \A i \in 1..Len(q) : Append(q, id)[i] = q[i]
  OBVIOUS
<1>2. /\ Members(q) = {q[i] : i \in 1..Len(q)}
      /\ Members(Append(q, id)) = {Append(q, id)[i] : i \in 1..(Len(q) + 1)}
  BY <1>1 DEF Members
<1>3. \A i \in 1..(Len(q) + 1) : i = Len(q) + 1 \/ i \in 1..Len(q)
  BY <1>1
<1>4. /\ Len(q) + 1 \in 1..(Len(q) + 1)
      /\ \A i \in 1..Len(q) : i \in 1..(Len(q) + 1)
  BY <1>1
<1>5. Members(Append(q, id)) = Members(q) \cup {id}
  BY <1>1, <1>2, <1>3, <1>4
<1>6. \A i \in 1..Len(q) : q[i] # id
  BY <1>2
<1> QED
  BY <1>1, <1>3, <1>5, <1>6 DEF Distinct

\* A sequence without repetitions is as long as it has members.
LEMMA DistinctLength ==
    ASSUME NEW q \in Seq(RunIds), Distinct(q)
    PROVE  Len(q) = Cardinality(Members(q))
<1>1. Len(q) \in Nat /\ Members(q) = {q[i] : i \in 1..Len(q)}
  BY DEF Members
<1> DEFINE f == [i \in 1..Len(q) |-> q[i]]
<1>2. f \in Bijection(1..Len(q), Members(q))
  <2>1. f \in [1..Len(q) -> Members(q)]
    BY <1>1
  <2>2. \A i, j \in 1..Len(q) : f[i] = f[j] => i = j
    BY DEF Distinct
  <2>3. \A x \in Members(q) : \E i \in 1..Len(q) : f[i] = x
    BY <1>1
  <2> QED
    BY <2>1, <2>2, <2>3, Fun_IsBij
<1>3. IsFiniteSet(1..Len(q)) /\ Cardinality(1..Len(q)) = Len(q)
  BY <1>1, FS_Interval
<1> QED
  BY <1>2, <1>3, FS_Bijection DEF ExistsBijection

\* The request x owns its entry.
Owns(s, x) == active[s][RunIdOf[x]] = x

\* The invariant in the form the proofs use.
LEMMA OwnFacts ==
    ASSUME NEW s, OwnEntries(s), OrderExact(s), NEW y \in Requests, SessionOf[y] = s
    PROVE  /\ run[y] \in Live /\ y \notin cancelled => Owns(s, y)
           /\ Submitting(s, y) => Owns(s, y)
           /\ Members(order[s]) = ActiveIds(s) /\ Distinct(order[s])
BY DEF OwnEntries, OrderExact, Live, Owns, Distinct

\* What has to be shown of the next state.
LEMMA OwnGoal ==
    ASSUME NEW s \in Sessions,
           \A y \in Requests : SessionOf[y] = s =>
             /\ run'[y] \in Live /\ y \notin cancelled' => active'[s][RunIdOf[y]] = y
             /\ Submitting(s, y)' => active'[s][RunIdOf[y]] = y,
           AnswerInv',
           Members(order'[s]) = ActiveIds(s)', Distinct(order'[s])
    PROVE  OwnEntries(s)' /\ OrderExact(s)'
<1>1. \A y \in Requests : Submitting(s, y)' => SessionOf[y] = s
  BY DEF Submitting, AnswerInv, SubmitEntry
<1>2. OwnEntries(s)'
  BY <1>1 DEF OwnEntries, Live
<1>3. OrderExact(s)'
  BY DEF OrderExact, Distinct
<1> QED
  BY <1>2, <1>3

\* A step that neither changes the registry nor starts a run outside Submit.
LEMMA OwnQuiet ==
    ASSUME NEW s \in Sessions, OwnEntries(s), OrderExact(s), AnswerInv',
           UNCHANGED <<active[s], order[s]>>, cancelled \subseteq cancelled',
           \A y \in Requests : SessionOf[y] = s =>
             /\ run'[y] \in Live => run[y] \in Live \/ Submitting(s, y)
             /\ Submitting(s, y)' => Submitting(s, y)
    PROVE  OwnEntries(s)' /\ OrderExact(s)'
<1>1. ASSUME NEW y \in Requests, SessionOf[y] = s
      PROVE  /\ run'[y] \in Live /\ y \notin cancelled' => active'[s][RunIdOf[y]] = y
             /\ Submitting(s, y)' => active'[s][RunIdOf[y]] = y
  BY <1>1, OwnFacts DEF Owns
<1>2. Members(order'[s]) = ActiveIds(s)' /\ Distinct(order'[s])
  BY DEF OrderExact, Distinct, ActiveIds
<1> QED
  BY <1>1, <1>2, OwnGoal

\* No step takes a cancellation back.
LEMMA CancelledGrows == ASSUME [Next]_vars PROVE cancelled \subseteq cancelled'
<1>1. ASSUME NEW r \in Requests, CallerStep(r) \/ RunStep(r)
      PROVE  cancelled \subseteq cancelled'
  BY <1>1 DEF CallerStep, ScheduleRefused, Schedule, SetMaxConcurrent, Stamp, EnqueueFifo,
              EnqueueInterrupt, RunStep, FinishRun, CompleteRun, CompleteOldRun,
              ReturnToken, runVars
<1>2. ASSUME NEW s \in Sessions, TimerStep(s) \/ LockStep(s) \/ CommandStep(s)
      PROVE  cancelled \subseteq cancelled'
  BY <1>2 DEF TimerStep, TimerFires, TimerCallback, LockStep, StopStarting, SkipStale,
              StartOne, SubmitToken, SubmitRefused, CommandStep, CancelOne, CancelAll,
              Reset, DropEverything, runVars
<1>3. CASE Shutdown \/ HaltStep \/ UNCHANGED vars
  BY <1>3 DEF Shutdown, HaltStep, MarkDraining, StopReturns, StopLane, runVars, vars
<1> QED
  BY <1>1, <1>2, <1>3 DEF Next

\* A session in which nothing changes keeps its entries.
LEMMA SameKeepsOwn ==
    ASSUME AnswerInv', [Next]_vars, NEW s \in Sessions, OwnEntries(s), OrderExact(s),
           Same(s)
    PROVE  OwnEntries(s)' /\ OrderExact(s)'
<1>1. \A y \in Requests : SessionOf[y] = s =>
        /\ run'[y] = run[y]
        /\ Submitting(s, y)' => Submitting(s, y)
  BY DEF Same, Submitting
<1>2. UNCHANGED <<active[s], order[s]>>
  BY DEF Same
<1> QED
  BY <1>1, <1>2, CancelledGrows, OwnQuiet

\* Taking every entry away cancels what had one.
LEMMA DropKeepsOwn ==
    ASSUME AnswerInv, AnswerInv', NEW s \in Sessions, OwnEntries(s), OrderExact(s),
           cancelled' = cancelled \cup ActiveReqs(s),
           active' = [active EXCEPT ![s] = [i \in RunIds |-> NoReq]],
           order' = [order EXCEPT ![s] = <<>>],
           lock[s] = Free,
           \A y \in Requests : run'[y] \in Live => run[y] \in Live,
           lock'[s] # Free => lock'[s].at = "loop"
    PROVE  OwnEntries(s)' /\ OrderExact(s)'
<1>1. order'[s] = <<>> /\ \A i \in RunIds : active'[s][i] = NoReq
  BY SessionTypes
<1>2. Members(order'[s]) = ActiveIds(s)' /\ Distinct(order'[s])
  <2>1. ActiveIds(s)' = {}
    BY <1>1 DEF ActiveIds
  <2>2. Members(<<>>) = {} /\ Distinct(<<>>)
    BY DEF Members, Distinct
  <2> QED
    BY <1>1, <2>1, <2>2
<1>3. ASSUME NEW y \in Requests, SessionOf[y] = s, run'[y] \in Live, y \notin cancelled'
      PROVE  FALSE
  <2>1. Owns(s, y)
    BY <1>3, OwnFacts
  <2>2. y \in ActiveReqs(s)
    BY <2>1, RequestAssumption DEF Owns, ActiveReqs, ActiveIds
  <2> QED
    BY <1>3, <2>2
<1>4. \A y \in Requests : ~Submitting(s, y)'
  BY DEF Submitting
<1> QED
  BY <1>2, <1>3, <1>4, OwnGoal

\* With distinct run IDs, one entry is taken away: that of x.
LEMMA RemoveKeepsOwn ==
    ASSUME DistinctRunIds, AnswerInv, AnswerInv', NEW s \in Sessions,
           OwnEntries(s), OrderExact(s), NEW x \in Requests, SessionOf[x] = s,
           active' = [active EXCEPT ![s][RunIdOf[x]] = NoReq],
           order' = [order EXCEPT ![s] = RemoveFromOrder(order[s], RunIdOf[x])],
           cancelled \subseteq cancelled',
           \A y \in Requests : run'[y] \in Live => run[y] \in Live /\ y # x,
           lock'[s] # Free => lock'[s].at = "loop"
    PROVE  OwnEntries(s)' /\ OrderExact(s)'
<1> DEFINE id == RunIdOf[x]
<1>0. id \in RunIds /\ order[s] \in Seq(RunIds)
  BY RequestAssumption, SessionTypes
<1>1. /\ order'[s] = RemoveFromOrder(order[s], id)
      /\ active'[s][id] = NoReq
      /\ \A i \in RunIds : i # id => active'[s][i] = active[s][i]
  BY <1>0, SessionTypes
<1>2. Members(order[s]) = ActiveIds(s) /\ Distinct(order[s])
  BY DEF OrderExact, Distinct
<1> HIDE DEF id
<1>3. ActiveIds(s)' = ActiveIds(s) \ {id}
  BY <1>1 DEF ActiveIds
<1>4. Members(order'[s]) = ActiveIds(s)' /\ Distinct(order'[s])
  BY <1>0, <1>1, <1>2, <1>3, RemoveDistinct
<1>5. ASSUME NEW y \in Requests, SessionOf[y] = s, run'[y] \in Live, y \notin cancelled'
      PROVE  active'[s][RunIdOf[y]] = y
  <2>1. Owns(s, y)
    BY <1>5, OwnFacts
  <2>2. RunIdOf[y] # id /\ RunIdOf[y] \in RunIds
    BY <1>5, RequestAssumption DEF DistinctRunIds, id
  <2> QED
    BY <1>1, <2>1, <2>2 DEF Owns
<1>6. \A y \in Requests : ~Submitting(s, y)'
  BY DEF Submitting
<1> QED
  BY <1>4, <1>5, <1>6, OwnGoal

\* The steps of a caller keep runs and entries one to one.
LEMMA CallersKeepOwn ==
    ASSUME AnswerInv, AnswerInv', [Next]_vars, NEW r \in Requests, NEW s \in Sessions,
           SessionOf[r] = s, OwnEntries(s), OrderExact(s),
           SetMaxConcurrent(r) \/ EnqueueFifo(r) \/ EnqueueInterrupt(r)
    PROVE  OwnEntries(s)' /\ OrderExact(s)'
<1>0. TypeOK
  BY DEF AnswerInv
<1>1. CASE SetMaxConcurrent(r)
  <2>1. UNCHANGED <<run, active, order, lock>>
    BY <1>1 DEF SetMaxConcurrent, runVars
  <2> QED
    BY <2>1, CancelledGrows, OwnQuiet DEF Submitting
<1>2. CASE EnqueueFifo(r) \/ EnqueueInterrupt(r)
  <2>1. lock[s] = Free /\ TryScheduleNext(s, "enqueue", r, r)
    BY <1>2 DEF EnqueueFifo, EnqueueInterrupt
  <2>2. /\ lock'[s] = Free \/ lock'[s].at = "loop"
        /\ \A y \in Requests : run'[y] = run[y]
    BY <1>0, <2>1, TryEffect
  <2>3. CASE EnqueueFifo(r)
    <3>1. UNCHANGED <<active[s], order[s]>>
      BY <2>3 DEF EnqueueFifo
    <3>2. \A y \in Requests : ~Submitting(s, y)'
      BY <2>2 DEF Submitting
    <3> QED
      BY <2>2, <3>1, <3>2, CancelledGrows, OwnQuiet
  <2>4. CASE EnqueueInterrupt(r)
    <3>1. /\ cancelled' = cancelled \cup ActiveReqs(s)
          /\ active' = [active EXCEPT ![s] = [i \in RunIds |-> NoReq]]
          /\ order' = [order EXCEPT ![s] = <<>>]
      BY <2>4 DEF EnqueueInterrupt
    <3> QED
      BY <2>1, <2>2, <3>1, DropKeepsOwn
  <2> QED
    BY <1>2, <2>3, <2>4
<1> QED
  BY <1>1, <1>2

\* So do the timers and the commands.
LEMMA CommandsKeepOwn ==
    ASSUME AnswerInv, AnswerInv', [Next]_vars, NEW s \in Sessions,
           OwnEntries(s), OrderExact(s), TimerStep(s) \/ CommandStep(s)
    PROVE  OwnEntries(s)' /\ OrderExact(s)'
<1>1. CASE TimerStep(s)
  <2>1. UNCHANGED <<run, active, order>>
    BY <1>1 DEF TimerStep, TimerFires, TimerCallback, StartAvailable, runVars
  <2>2. UNCHANGED lock \/ lock'[s].at = "loop"
    BY <1>1, SessionTypes DEF TimerStep, TimerFires, TimerCallback, StartAvailable
  <2>3. \A y \in Requests : Submitting(s, y)' => Submitting(s, y)
    BY <2>2 DEF Submitting
  <2> QED
    BY <2>1, <2>3, CancelledGrows, OwnQuiet
<1>2. CASE CancelAll(s) \/ Reset(s)
  <2>1. /\ cancelled' = cancelled \cup ActiveReqs(s)
        /\ active' = [active EXCEPT ![s] = [i \in RunIds |-> NoReq]]
        /\ order' = [order EXCEPT ![s] = <<>>]
        /\ lock[s] = Free /\ UNCHANGED <<lock, run>>
    BY <1>2 DEF CancelAll, Reset, DropEverything
  <2> QED
    BY <2>1, DropKeepsOwn
<1>3. CASE CancelOne(s)
  <2>1. lock[s] = Free /\ UNCHANGED <<lock, run>>
    BY <1>3 DEF CancelOne
  <2>2. \A y \in Requests : ~Submitting(s, y)'
    BY <2>1 DEF Submitting
  <2>3. CASE UNCHANGED <<active, order>>
    BY <2>1, <2>2, <2>3, CancelledGrows, OwnQuiet
  <2>4. CASE /\ order[s] # <<>> /\ active[s][Head(order[s])] # NoReq
             /\ cancelled' = cancelled \cup {active[s][Head(order[s])]}
             /\ active' = [active EXCEPT ![s][Head(order[s])] = NoReq]
             /\ order' = [order EXCEPT ![s] = Tail(order[s])]
    <3>1. PICK id \in RunIds : id = Head(order[s])
      BY <2>4, SessionTypes
    <3>2. /\ order'[s] = Tail(order[s]) /\ active'[s][id] = NoReq
          /\ \A i \in RunIds : i # id => active'[s][i] = active[s][i]
          /\ cancelled' = cancelled \cup {active[s][id]}
      BY <2>4, <3>1, SessionTypes
    <3>3. Members(order[s]) = ActiveIds(s) /\ Distinct(order[s])
      BY DEF OrderExact, Distinct
    <3>4. Members(Tail(order[s])) = Members(order[s]) \ {id} /\ Distinct(Tail(order[s]))
      BY <2>4, <3>1, <3>3, SessionTypes, TailMembers
    <3>5. ActiveIds(s)' = ActiveIds(s) \ {id}
      BY <3>2 DEF ActiveIds
    <3>6. ASSUME NEW y \in Requests, SessionOf[y] = s, run'[y] \in Live, y \notin cancelled'
          PROVE  active'[s][RunIdOf[y]] = y
      <4>1. Owns(s, y)
        BY <2>1, <3>2, <3>6, OwnFacts
      <4> QED
        BY <3>2, <3>6, <4>1, RequestAssumption DEF Owns
    <3>7. Members(order'[s]) = ActiveIds(s)' /\ Distinct(order'[s])
      BY <3>2, <3>3, <3>4, <3>5
    <3> QED
      BY <2>2, <3>6, <3>7, OwnGoal
  <2> QED
    BY <1>3, <2>3, <2>4 DEF CancelOne
<1> QED
  BY <1>1, <1>2, <1>3 DEF CommandStep

\* So do the runs.
LEMMA RunsKeepOwn ==
    ASSUME DistinctRunIds, AnswerInv, AnswerInv', [Next]_vars,
           NEW r \in Requests, NEW s \in Sessions, SessionOf[r] = s,
           SessionInv(s), OwnEntries(s), OrderExact(s), RunStep(r)
    PROVE  OwnEntries(s)' /\ OrderExact(s)'
<1>0. TypeOK
  BY DEF AnswerInv
<1>1. CASE FinishRun(r) \/ CompleteOldRun(r) \/ ReturnToken(r)
  <2>1. /\ UNCHANGED <<active, order, lock>>
        /\ \A y \in Requests : run'[y] \in Live => run[y] \in Live
    BY <1>1, SessionTypes DEF FinishRun, CompleteOldRun, ReturnToken, Live
  <2> QED
    BY <2>1, CancelledGrows, OwnQuiet DEF Submitting
<1>2. CASE CompleteRun(r)
  <2>1. /\ run[r] = "answered" /\ lock[s] = Free
        /\ TryScheduleNext(s, "run", r, parent[s])
    BY <1>2 DEF CompleteRun
  <2>2. PICK p \in Requests \cup {NoReq} : p = parent[s]
    BY SessionTypes
  <2>3. /\ lock'[s] = Free \/ lock'[s].at = "loop"
        /\ run'[r] \notin Live
        /\ \A y \in Requests : y # r => run'[y] = run[y]
    BY <1>0, <2>1, <2>2, TryEffect DEF Live
  <2>4. CASE /\ active' = [active EXCEPT ![s][RunIdOf[r]] = NoReq]
             /\ order' = [order EXCEPT ![s] = RemoveFromOrder(order[s], RunIdOf[r])]
    BY <2>3, <2>4, CancelledGrows, RemoveKeepsOwn
  <2>5. CASE UNCHANGED <<active, order>>
    BY <2>3, <2>5, CancelledGrows, OwnQuiet DEF Submitting
  <2> QED
    BY <1>2, <2>4, <2>5 DEF CompleteRun
<1> QED
  BY <1>1, <1>2 DEF RunStep

\* So does the thread inside startAvailable.
LEMMA LockKeepsOwn ==
    ASSUME DistinctRunIds, AnswerInv, AnswerInv', [Next]_vars, NEW s \in Sessions,
           SessionInv(s), OwnEntries(s), OrderExact(s), LockStep(s)
    PROVE  OwnEntries(s)' /\ OrderExact(s)'
<1>0. TypeOK
  BY DEF AnswerInv
<1>1. CASE StopStarting(s)
  <2>1. /\ lock[s] # Free /\ Leave(lock[s].by, lock[s].req)
        /\ lock' = [lock EXCEPT ![s] = Free] /\ UNCHANGED <<active, order>>
    BY <1>1 DEF StopStarting
  <2>2. \A y \in Requests : run'[y] \in Live => run[y] \in Live
    BY <2>1, SessionTypes DEF Leave, Live
  <2>3. lock'[s] = Free
    BY <2>1, SessionTypes
  <2> QED
    BY <2>1, <2>2, <2>3, CancelledGrows, OwnQuiet DEF Submitting
<1>2. CASE SkipStale(s)
  <2>1. /\ lock' = LockAt(s, "pop", NoReq) /\ UNCHANGED <<run, active, order>>
    BY <1>2 DEF SkipStale, runVars
  <2>2. lock'[s].at = "pop"
    BY <1>0, <2>1, LockAtOf
  <2> QED
    BY <2>1, <2>2, CancelledGrows, OwnQuiet DEF Submitting
<1>3. CASE SubmitToken(s)
  <2>1. PICK x \in Requests : x = lock[s].sub
    BY <1>3, HolderFacts DEF SubmitToken
  <2>2. /\ lock' = LockAt(s, "loop", NoReq) /\ run' = [run EXCEPT ![x] = "running"]
        /\ Submitting(s, x) /\ UNCHANGED <<active, order>>
    BY <1>3, <2>1 DEF SubmitToken, Submitting
  <2>3. lock'[s].at = "loop"
    BY <1>0, <2>2, LockAtOf
  <2>4. \A y \in Requests : run'[y] \in Live => run[y] \in Live \/ Submitting(s, y)
    BY <2>2, SessionTypes
  <2> QED
    BY <2>2, <2>3, <2>4, CancelledGrows, OwnQuiet DEF Submitting
<1>4. CASE SubmitRefused(s)
  <2>1. PICK x \in Requests : x = lock[s].sub /\ SessionOf[x] = s /\ run[x] = "none"
    BY <1>4, HolderFacts DEF SubmitRefused, Waiting
  <2>2. /\ lock' = LockAt(s, "loop", NoReq) /\ UNCHANGED run
        /\ active' = [active EXCEPT ![s][RunIdOf[x]] = NoReq]
        /\ order' = [order EXCEPT ![s] = RemoveFromOrder(order[s], RunIdOf[x])]
    BY <1>4, <2>1 DEF SubmitRefused, runVars
  <2>3. lock'[s].at = "loop"
    BY <1>0, <2>2, LockAtOf
  <2> QED
    BY <2>1, <2>2, <2>3, CancelledGrows, RemoveKeepsOwn DEF Live
<1>5. CASE StartOne(s)
  <2>1. /\ lock[s] # Free /\ lock[s].at # "submit" /\ queue[s] # <<>>
    BY <1>5 DEF StartOne, MayPop
  <2>2. PICK x \in Requests : x = Head(queue[s]) /\ SessionOf[x] = s /\ run[x] = "none"
    BY <2>1, HeadOf DEF Waiting
  <2>3. PICK id \in RunIds : id = RunIdOf[x]
    BY RequestAssumption
  <2>4. /\ lock' = LockAt(s, "submit", x) /\ UNCHANGED run
        /\ active' = [active EXCEPT ![s][id] = x]
        /\ order' = [order EXCEPT ![s] = Append(order[s], id)]
    BY <1>5, <2>2, <2>3 DEF StartOne
  <2>5. /\ lock'[s].sub = x /\ order'[s] = Append(order[s], id)
        /\ active'[s][id] = x /\ x # NoReq
        /\ \A i \in RunIds : i # id => active'[s][i] = active[s][i]
    BY <1>0, <2>4, SessionTypes, LockAtOf, RequestAssumption
  <2>6. active[s][id] = NoReq
    <3> SUFFICES ASSUME NEW y \in Requests, active[s][id] = y
                 PROVE  FALSE
      BY SessionTypes
    <3>1. SessionOf[y] = s /\ RunIdOf[y] = id /\ run[y] \in Live
      BY <2>1, EntryFacts
    <3>2. y = x
      BY <2>2, <2>3, <3>1 DEF DistinctRunIds
    <3> QED
      BY <2>2, <3>1, <3>2 DEF Live
  <2>7. Members(order[s]) = ActiveIds(s) /\ Distinct(order[s]) /\ order[s] \in Seq(RunIds)
    BY SessionTypes DEF OrderExact, Distinct
  <2>8. id \notin Members(order[s])
    BY <2>6, <2>7 DEF ActiveIds
  <2>9. /\ Members(Append(order[s], id)) = Members(order[s]) \cup {id}
        /\ Distinct(Append(order[s], id))
    BY <2>7, <2>8, AppendMembers
  <2>10. ActiveIds(s)' = ActiveIds(s) \cup {id}
    BY <2>5 DEF ActiveIds
  <2>11. Members(order'[s]) = ActiveIds(s)' /\ Distinct(order'[s])
    BY <2>5, <2>7, <2>9, <2>10
  <2>12. ASSUME NEW y \in Requests, SessionOf[y] = s, run'[y] \in Live, y \notin cancelled'
         PROVE  active'[s][RunIdOf[y]] = y
    <3>1. run[y] \in Live /\ y \notin cancelled
      BY <2>4, <2>12, CancelledGrows
    <3>2. Owns(s, y) /\ y # x
      BY <2>2, <2>12, <3>1, OwnFacts DEF Live
    <3>3. RunIdOf[y] # id /\ RunIdOf[y] \in RunIds
      BY <2>2, <2>3, <2>12, <3>2, RequestAssumption DEF DistinctRunIds
    <3> QED
      BY <2>5, <3>2, <3>3 DEF Owns
  <2>13. \A y \in Requests : Submitting(s, y)' => active'[s][RunIdOf[y]] = y
    BY <2>3, <2>5 DEF Submitting
  <2> QED
    BY <2>11, <2>12, <2>13, OwnGoal
<1> QED
  BY <1>1, <1>2, <1>3, <1>4, <1>5 DEF LockStep

\* Runs and entries are one to one initially.
LEMMA OwnInvInit == Init => OwnInv
<1> SUFFICES ASSUME Init PROVE OwnInv
  OBVIOUS
<1>1. ASSUME NEW s \in Sessions
      PROVE  OwnEntries(s) /\ OrderExact(s)
  <2>1. /\ order[s] = <<>> /\ lock[s] = Free /\ \A i \in RunIds : active[s][i] = NoReq
        /\ \A r \in Requests : run[r] = "none"
    BY <1>1 DEF Init
  <2>2. Members(order[s]) = {} /\ ActiveIds(s) = {} /\ Len(order[s]) = 0
    BY <2>1 DEF Members, ActiveIds
  <2> QED
    BY <2>1, <2>2 DEF OwnEntries, OrderExact, Submitting
<1> QED
  BY <1>1, RegistryInvInit DEF OwnInv

\* With distinct run IDs every step keeps it.
LEMMA OwnInvStep ==
    ASSUME DistinctRunIds, OwnInv, [Next]_vars
    PROVE  OwnInv'
<1>1. RegistryInv /\ RegistryInv' /\ AnswerInv /\ AnswerInv'
  BY RegistryInvStep DEF OwnInv, RegistryInv
<1>2. ASSUME NEW z \in Sessions
      PROVE  OwnEntries(z)' /\ OrderExact(z)'
  <2>1. OwnEntries(z) /\ OrderExact(z) /\ SessionInv(z)
    BY <1>1 DEF OwnInv, RegistryInv
  <2>2. CASE Nowhere
    BY <1>1, <2>1, <2>2, NowhereSame, SameKeepsOwn
  <2>3. ASSUME NEW s \in Sessions, AtSession(s)
        PROVE  OwnEntries(z)' /\ OrderExact(z)'
    <3>1. CASE z = s
      BY <1>1, <2>1, <2>3, <3>1, CallersKeepOwn, RunsKeepOwn, CommandsKeepOwn, LockKeepsOwn
      DEF AtSession
    <3>2. CASE z # s
      BY <1>1, <2>1, <2>3, <3>2, StepElsewhere, SameKeepsOwn DEF Elsewhere
    <3> QED
      BY <3>1, <3>2
  <2> QED
    BY <2>2, <2>3, NextCases
<1> QED
  BY <1>1, <1>2 DEF OwnInv

\* What /stop, /stopall and an interrupt look at is what executes, when the run
\* IDs of a session are distinct.
THEOREM SchedulerRegistryMatchesRuns ==
    ASSUME DistinctRunIds
    PROVE  Spec => []RegistryMatchesRuns
<1>1. OwnInv => RegistryMatchesRuns
  <2> SUFFICES ASSUME OwnInv PROVE RegistryMatchesRuns
    OBVIOUS
  <2>1. OrderMatchesActive
    <3> SUFFICES ASSUME NEW s \in Sessions
                 PROVE  /\ Members(order[s]) = ActiveIds(s)
                        /\ Len(order[s]) = Cardinality(ActiveIds(s))
      BY DEF OrderMatchesActive
    <3>1. Members(order[s]) = ActiveIds(s) /\ Distinct(order[s])
      BY DEF OwnInv, OrderExact, Distinct
    <3>2. order[s] \in Seq(RunIds)
      BY SessionTypes DEF OwnInv, RegistryInv
    <3> QED
      BY <3>1, <3>2, DistinctLength
  <2>2. UncancelledIsRegistered
    BY RequestAssumption DEF OwnInv, OwnEntries, UncancelledIsRegistered
  <2> QED
    BY <2>1, <2>2 DEF RegistryMatchesRuns
<1>2. OwnInv /\ [Next]_vars => OwnInv'
  BY OwnInvStep
<1> QED
  BY <1>1, <1>2, OwnInvInit, PTL DEF Spec

\* The uncancelled runs of a session are no more than its entries.
LEMMA UncancelledCount ==
    ASSUME OwnInv, DistinctRunIds, NEW s \in Sessions
    PROVE  /\ Cardinality(Running(s) \ cancelled) \in Nat
           /\ Cardinality(ActiveIds(s)) \in Nat
           /\ Cardinality(Running(s) \ cancelled) <= Cardinality(ActiveIds(s))
<1> DEFINE X == Running(s) \ cancelled
           f == [r \in X |-> RunIdOf[r]]
<1>1. \A r \in X : r \in Requests /\ SessionOf[r] = s /\ active[s][RunIdOf[r]] = r
  BY DEF OwnInv, OwnEntries, Running
<1>2. \A r \in X : RunIdOf[r] \in ActiveIds(s)
  BY <1>1, RequestAssumption DEF ActiveIds
<1>3. \A r, q \in X : RunIdOf[r] = RunIdOf[q] => r = q
  BY <1>1
<1>4. f \in Injection(X, ActiveIds(s))
  <2>1. f \in [X -> ActiveIds(s)]
    BY <1>2
  <2>2. \A r, q \in X : f[r] = f[q] => r = q
    BY <1>3
  <2> QED
    BY <2>1, <2>2, Fun_IsInj
<1>5. IsFiniteSet(ActiveIds(s))
  <2>1. ActiveIds(s) \in SUBSET RunIds
    BY DEF ActiveIds
  <2> QED
    BY <2>1, FiniteAssumption, FS_Subset
<1>6. IsFiniteSet(X) /\ Cardinality(X) <= Cardinality(ActiveIds(s))
  BY <1>4, <1>5, FS_Injection
<1> QED
  BY <1>5, <1>6, FS_CardinalityType

\* The uncancelled runs of a session never exceed a limit it was given, when its
\* run IDs are distinct.
THEOREM SchedulerUncancelledWithinLimit ==
    ASSUME DistinctRunIds
    PROVE  Spec => []UncancelledWithinLimit
<1>1. OwnInv => UncancelledWithinLimit
  <2> SUFFICES ASSUME OwnInv, NEW s \in Sessions
               PROVE  \E n \in LimitOf(s) : Cardinality(Running(s) \ cancelled) <= n
    BY DEF UncancelledWithinLimit
  <2>1. AnswerInv /\ SessionInv(s)
    BY DEF OwnInv, RegistryInv
  <2>2. PICK n \in LimitOf(s) : Cardinality(ActiveIds(s)) <= n
    BY <2>1 DEF SessionInv, LimitKnown
  <2>3. n \in Nat
    BY <2>1, LimitTypes
  <2>4. /\ Cardinality(Running(s) \ cancelled) \in Nat
        /\ Cardinality(ActiveIds(s)) \in Nat
        /\ Cardinality(Running(s) \ cancelled) <= Cardinality(ActiveIds(s))
    BY UncancelledCount
  <2>5. Cardinality(Running(s) \ cancelled) <= n
    BY <2>2, <2>3, <2>4
  <2> QED
    BY <2>5
<1>2. OwnInv /\ [Next]_vars => OwnInv'
  BY OwnInvStep
<1> QED
  BY <1>1, <1>2, OwnInvInit, PTL DEF Spec

\* In interrupt mode at most one request waits and at most one uncancelled run
\* executes, when the run IDs of a session are distinct.
THEOREM SchedulerInterruptKeepsOne ==
    ASSUME DistinctRunIds
    PROVE  Spec => []InterruptKeepsOne
<1>1. OwnInv => InterruptKeepsOne
  <2> SUFFICES ASSUME OwnInv, Interrupt, NEW s \in Sessions
               PROVE  /\ Len(queue[s]) <= 1
                      /\ Cardinality(Running(s) \ cancelled) <= 1
    BY DEF InterruptKeepsOne
  <2>1. Len(queue[s]) + Cardinality(ActiveIds(s)) <= 1
    BY DEF OwnInv, RegistryInv, SessionInv, OneAtATime
  <2>2. Len(queue[s]) \in Nat
    <3>1. queue[s] \in Seq(Requests)
      BY SessionTypes DEF OwnInv, RegistryInv
    <3> QED
      BY <3>1
  <2>3. /\ Cardinality(Running(s) \ cancelled) \in Nat
        /\ Cardinality(ActiveIds(s)) \in Nat
        /\ Cardinality(Running(s) \ cancelled) <= Cardinality(ActiveIds(s))
    BY UncancelledCount
  <2> QED
    BY <2>1, <2>2, <2>3
<1>2. OwnInv /\ [Next]_vars => OwnInv'
  BY OwnInvStep
<1> QED
  BY <1>1, <1>2, OwnInvInit, PTL DEF Spec
=============================================================================
