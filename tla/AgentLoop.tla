----------------------------- MODULE AgentLoop -----------------------------
(***************************************************************************)
(* The runs of one agent in one session (internal/agent/loop.go) and the   *)
(* goroutines that summarise the session after them (loop_history.go),     *)
(* over the session store and the router.                                  *)
(*                                                                         *)
(* What a run does to its own messages between two looks at the session,   *)
(* the router or its context is one step; a local variable is emptied when *)
(* the code does not use it again.  The answers of the provider and of the *)
(* tools are choices.  Runs of one session overlap: the scheduler admits   *)
(* several for a group, and chat.send starts its own.                      *)
(***************************************************************************)
EXTENDS SessionStore, AgentRouter

CONSTANTS
    RunPrefix,    \* [Runs -> Seq]: the part of the run id in tool call ids
    MaxIter,      \* [Runs -> Nat]: max_iterations, or the request's own limit
    MaxToolCalls, \* max_tool_calls
    MinMessages,  \* compaction.min_messages
    HistoryLimit, \* RunRequest.HistoryLimit
    NoLoop,
    CallSizes,    \* bound: the numbers of calls in one answer
    Compacting,   \* bound: the runs whose prompt may reach the threshold
    MaxAborts,    \* bound
    MaxEvents     \* bound: resets, restarts and expiries, together

ASSUME LoopAssumption ==
    /\ MaxIter \in [Runs -> Nat \ {0}] /\ MaxToolCalls \in Nat /\ MinMessages \in Nat
    /\ HistoryLimit \in Int
    /\ Savers = Runs \X {"run", "sum"}
    /\ CallSizes \subseteq Nat \ {0}
    /\ \A r \in Runs : Listed(RunPrefix[r])

VARIABLES
    run,        \* [Runs -> Run]: the local variables of runLoop; knew, over,
                \* split and stuck are history
    sum,        \* [Runs -> Sum]: the goroutine that the run has started
    cancelled,  \* runs whose context is cancelled
    holder,     \* [Loops -> Runs or NoRun]: summarizeMu of the session
    accepted,   \* [Injections -> Runs or NoRun]: InjectMessage returned true
    late,       \* history: those accepted after the loop of the run was over
    met,        \* history: runs that shared the session with another one
    crossed,    \* history: runs whose save overlapped with another save
    used        \* bound: events and aborts spent

loopVars == <<run, sum, cancelled, holder, accepted>>
historyVars == <<late, met, crossed, used>>
vars == <<storeVars, routerVars, loopVars, historyVars>>

Idle == [pc |-> "idle", loop |-> NoLoop, iter |-> 0, calls |-> 0, snap |-> <<>>,
         knew |-> {}, msgs |-> <<>>, pending |-> <<>>, flushed |-> 0,
         compacted |-> FALSE, over |-> FALSE, split |-> FALSE, stuck |-> FALSE]
Failed == [Idle EXCEPT !.pc = "failed"]
Off == [pc |-> "off", hist |-> <<>>, summary |-> {}]

Init ==
    /\ StoreInit /\ RouterInit
    /\ run = [r \in Runs |-> Idle]
    /\ sum = [r \in Runs |-> Off]
    /\ cancelled = {}
    /\ holder = [l \in Loops |-> NoRun]
    /\ accepted = [i \in Injections |-> NoRun]
    /\ late = {} /\ met = {} /\ crossed = {}
    /\ used = [events |-> 0, aborts |-> 0]

At(r, pc) == run[r].pc = pc
Goto(r, pc) == run' = [run EXCEPT ![r].pc = pc]
Set(r, new) == run' = [run EXCEPT ![r] = new]
Spend(what, bound) == used[what] < bound /\ used' = [used EXCEPT ![what] = @ + 1]

\* History: what the session told of when the run began, and later what the run
\* has flushed, as long as no step takes it out of the session, or out of a
\* summary.  rs are the runs as the step has left them so far.
StillKnown(rs) ==
    run' = [r \in Runs |-> [rs[r] EXCEPT !.knew =
              (@ \cap Covered(cache')) \ (cache.summary \ cache'.summary)]]

Instruction == TextMsg("system", <<>>)
Reminder == TextMsg("user", <<>>)
Question(r) == TextMsg("user", <<r, 0>>)
Reply(r, n) == TextMsg("assistant", <<r, n>>)
FollowUp(i) == TextMsg("user", <<i>>)
-----------------------------------------------------------------------------
(* Before the loop. *)

Start(r) ==
    /\ At(r, "idle")
    /\ RegisterRun(r)
    /\ Set(r, [Idle EXCEPT !.pc = "history", !.loop = cached, !.knew = Covered(cache)])
    /\ met' = IF active = {} THEN met ELSE met \cup active \cup {r}
    /\ UNCHANGED <<storeVars, sum, cancelled, holder, accepted, late, crossed, used>>

\* Mutated: the history comes from the row.
ReadHistory_Row(r) ==
    /\ At(r, "history")
    /\ Set(r, [run[r] EXCEPT !.pc = "summary", !.snap = row.history])
    /\ UNCHANGED <<storeVars, routerVars, sum, cancelled, holder, accepted, historyVars>>

ReadHistory(r) ==
    /\ At(r, "history")
    /\ Set(r, [run[r] EXCEPT !.pc = "summary", !.snap = cache.history])
    /\ UNCHANGED <<storeVars, routerVars, sum, cancelled, holder, accepted, historyVars>>

\* buildMessages.
Messages(r, snap, summary) ==
    <<Instruction>>
    \o (IF summary = {} THEN <<>> ELSE <<Reminder, TextMsg("assistant", <<>>)>>)
    \o Sanitize(LimitTurns(snap, HistoryLimit)) \o <<Question(r)>>

LastCall(r, iter, msgs) == IF iter = MaxIter[r] THEN Append(msgs, Reminder) ELSE msgs

\* The summary, the messages, and the first lines of the loop.
ReadSummary(r) ==
    /\ At(r, "summary")
    /\ LET dirty == Dropped(LimitTurns(run[r].snap, HistoryLimit)) > 0
       IN Set(r, [run[r] EXCEPT !.pc = IF dirty THEN "clean" ELSE "ask",
                                !.iter = 1, !.knew = {},
                                !.snap = IF dirty THEN @ ELSE <<>>,
                                !.msgs = LastCall(r, 1, Messages(r, run[r].snap, cache.summary)),
                                !.pending = <<Question(r)>>])
    /\ UNCHANGED <<storeVars, routerVars, sum, cancelled, holder, accepted, historyVars>>

\* The repaired history replaces the session's, as it was read.
Clean(r) ==
    /\ At(r, "clean")
    /\ SetHistory(Sanitize(run[r].snap))
    /\ StillKnown([run EXCEPT ![r].pc = "cleanSave", ![r].snap = <<>>])
    /\ UNCHANGED <<routerVars, sum, cancelled, holder, accepted, historyVars>>
-----------------------------------------------------------------------------
(* The loop. *)

\* The loop is over: the answer (or "...") is the last message to flush.
Ended(r, new) ==
    [Idle EXCEPT !.pc = "flush", !.loop = new.loop, !.stuck = new.stuck,
                 !.pending = Append(new.pending, Reply(r, MaxIter[r] + 1))]

\* The next iteration, if there is one left.
Continued(r, new) ==
    IF new.iter = MaxIter[r] THEN Ended(r, new)
    ELSE [new EXCEPT !.pc = "ask", !.iter = @ + 1, !.msgs = LastCall(r, new.iter + 1, @)]

\* The run when the provider has answered: the compaction in the loop is tried
\* once, and may fail.
Answered(r) ==
    IF run[r].compacted \/ r \notin Compacting THEN {run[r]}
    ELSE {run[r]} \cup {[run[r] EXCEPT !.compacted = TRUE, !.msgs = m] :
                           m \in {run[r].msgs, Compact(run[r].msgs, Reminder)}}

Ask(r) ==
    /\ At(r, "ask")
    /\ UNCHANGED <<storeVars, sum, cancelled, holder, accepted, historyVars>>

\* The last request offers no tools, so its answer calls none.
OffersTools(r) == run[r].iter < MaxIter[r]

\* The follow-ups that have come in reach the model and the session.
Drained(r, new) ==
    LET more == [k \in DOMAIN inbox[r] |-> FollowUp(inbox[r][k])]
    IN [new EXCEPT !.msgs = @ \o more, !.pending = @ \o more]

\* Mutated: the follow-ups are left for the next iteration.
AnswerText_Leaves(r) ==
    /\ Ask(r)
    /\ \E new \in Answered(r) : Set(r, Ended(r, new))
    /\ UNCHANGED routerVars

\* A text.  If a follow-up came in, the loop goes on (Point B).
AnswerText(r) ==
    /\ Ask(r)
    /\ \E new \in Answered(r) :
         /\ Set(r, IF inbox[r] = <<>> THEN Ended(r, new)
                   ELSE Continued(r, Drained(r,
                          [new EXCEPT !.msgs = Append(@, Reply(r, new.iter)),
                                      !.pending = Append(@, Reply(r, new.iter))])))
    /\ Drain(r)

\* Mutated: the calls that were cut off stay in the request.
AnswerCutOff_Keeps(r) ==
    /\ Ask(r) /\ OffersTools(r)
    /\ \E new \in Answered(r) :
         LET msg == CallMsg(<<r, new.iter>>, <<RunPrefix[r] \o <<new.iter, 0>>>>)
         IN Set(r, Continued(r, [new EXCEPT !.msgs = @ \o <<msg, Reminder>>]))
    /\ UNCHANGED routerVars

\* Tool calls cut off at max_tokens: not executed, not kept.
AnswerCutOff(r) ==
    /\ Ask(r) /\ OffersTools(r)
    /\ \E new \in Answered(r) :
         /\ Set(r, Continued(r, [new EXCEPT !.msgs = @ \o <<Reply(r, new.iter), Reminder>>]))
    /\ UNCHANGED routerVars

\* Mutated: ids are unique within a run only.
Uniquify_OfRun(r, iter, n) == [k \in 1 .. n |-> <<iter, k - 1>>]

\* uniquifyToolCallIDs, for a provider that gives every call the same id.
Uniquify(r, iter, n) == [k \in 1 .. n |-> RunPrefix[r] \o <<iter, k - 1>>]

\* n tool calls.  Beyond the budget they are not executed: the model is asked
\* for a summary with the calls unanswered.
AnswerCalls(r, n) ==
    /\ Ask(r) /\ OffersTools(r)
    /\ \E new \in Answered(r) :
         LET msg == CallMsg(<<r, new.iter>>, Uniquify(r, new.iter, n))
             asked == [new EXCEPT !.msgs = Append(@, msg), !.pending = Append(@, msg),
                                  !.calls = @ + n]
         IN /\ Set(r, IF asked.calls > MaxToolCalls
                      THEN Continued(r, [asked EXCEPT !.over = TRUE,
                                                      !.msgs = Append(@, Reminder)])
                      ELSE [asked EXCEPT !.pc = "tools"])
    /\ UNCHANGED routerVars

\* The provider fails, or the run was aborted: nothing is flushed.
Fail(r) ==
    /\ Ask(r) /\ Set(r, Failed) /\ UnregisterRun(r)

Results(r, n) ==
    LET msg == Last(run[r].pending)
    IN [k \in 1 .. n |-> ToolMsg(<<r, run[r].iter, k>>, msg.calls[k])]

Calls(r) == Len(Last(run[r].pending).calls)

\* All results; the loop detector may add a warning behind the w-th (0: none),
\* in the messages only.  Then the follow-ups (Point A).
Tools(r, w) ==
    /\ At(r, "tools") /\ w \in 0 .. Calls(r)
    /\ LET results == Results(r, Calls(r))
           warned == IF w = 0 THEN results ELSE InsertAt(results, w + 1, Reminder)
       IN Set(r, Continued(r, Drained(r,
                   [run[r] EXCEPT !.msgs = @ \o warned, !.pending = @ \o results,
                                  !.split = @ \/ w \in 1 .. Calls(r) - 1])))
    /\ Drain(r)
    /\ UNCHANGED <<storeVars, sum, cancelled, holder, accepted, historyVars>>

\* The loop detector stops the run behind the n-th result.
Stuck(r, n) ==
    /\ At(r, "tools") /\ n \in 1 .. Calls(r)
    /\ Set(r, Ended(r, [run[r] EXCEPT !.pending = @ \o Results(r, n), !.stuck = TRUE]))
    /\ UNCHANGED <<storeVars, routerVars, sum, cancelled, holder, accepted, historyVars>>
-----------------------------------------------------------------------------
(* After the loop. *)

\* The buffered messages go to the session one by one.
Flush(r) ==
    /\ At(r, "flush")
    /\ LET n == run[r].flushed + 1
           m == run[r].pending[n]
       IN /\ AddMessage(m)
          /\ StillKnown([run EXCEPT
               ![r].flushed = n, ![r].knew = @ \cup TagsOf(<<m>>),
               ![r].pc = IF n = Len(run[r].pending) THEN "save" ELSE "flush"])
    /\ UNCHANGED <<routerVars, sum, cancelled, holder, accepted, historyVars>>

AfterSave == [cleanSave |-> "ask", save |-> "summarize", memSave |-> "return"]

\* The goroutine of maybeSummarize.
Spawn(r) == sum' = [sum EXCEPT ![r].pc = "history"]

Saves(r) ==
    /\ run[r].pc \in DOMAIN AfterSave
    /\ SaveReads(<<r, "run">>)
    /\ UNCHANGED <<routerVars, loopVars, historyVars>>

Saved(r) ==
    /\ run[r].pc \in DOMAIN AfterSave
    /\ SaveWrites(<<r, "run">>, r \notin cancelled)
    /\ Goto(r, AfterSave[run[r].pc])
    /\ crossed' = IF r \in cancelled \/ \E a \in Savers : a[1] # r /\ saving[a] # NoSnapshot
                  THEN crossed \cup {r} ELSE crossed
    /\ IF At(r, "memSave") THEN Spawn(r) ELSE UNCHANGED sum
    /\ UNCHANGED <<routerVars, cancelled, holder, accepted, late, met, used>>

\* maybeSummarize (the estimate of tokens, which may also call for it, is left
\* out): the lock is the one of the run's own instance of the loop.
Summarizes(r) ==
    /\ Len(cache.history) > MinMessages
    /\ holder[run[r].loop] = NoRun

SkipSummary(r) ==
    /\ At(r, "summarize") /\ ~Summarizes(r)
    /\ Goto(r, "return")
    /\ UNCHANGED <<storeVars, routerVars, sum, cancelled, holder, accepted, historyVars>>

\* shouldRunMemoryFlush: once per value of the compaction counter.  Both
\* counters start at 0, so the first compaction is never preceded by a flush.
TryLock(r) ==
    /\ At(r, "summarize") /\ Summarizes(r)
    /\ holder' = [holder EXCEPT ![run[r].loop] = r]
    /\ IF cache.flushedAt # cache.compactions THEN Goto(r, "memFlush") /\ UNCHANGED sum
       ELSE Goto(r, "return") /\ Spawn(r)
    /\ UNCHANGED <<storeVars, routerVars, cancelled, accepted, historyVars>>

MemoryFlush(r) ==
    /\ At(r, "memFlush")
    /\ SetMemoryFlushDone
    /\ Goto(r, "memSave")
    /\ UNCHANGED <<routerVars, sum, cancelled, holder, accepted, historyVars>>

\* Run returns: its context is cancelled and it leaves the router.
Return(r) ==
    /\ At(r, "return") /\ Goto(r, "done")
    /\ UnregisterRun(r)
    /\ cancelled' = cancelled \cup {r}
    /\ UNCHANGED <<storeVars, sum, holder, accepted, historyVars>>
-----------------------------------------------------------------------------
(* The goroutine of maybeSummarize. *)

SumAt(r, pc) == sum[r].pc = pc
SumGoto(r, pc) == sum' = [sum EXCEPT ![r].pc = pc]

\* The goroutine ends and unlocks.
SumEnds(r) ==
    /\ sum' = [sum EXCEPT ![r] = Off]
    /\ holder' = [holder EXCEPT ![run[r].loop] = NoRun]

SumReadHistory(r) ==
    /\ SumAt(r, "history")
    /\ IF Len(cache.history) <= KeepLast THEN SumEnds(r)
       ELSE /\ sum' = [sum EXCEPT ![r] = [pc |-> "summary", hist |-> cache.history, summary |-> {}]]
            /\ UNCHANGED holder
    /\ UNCHANGED <<storeVars, routerVars, run, cancelled, accepted, historyVars>>

SumReadSummary(r) ==
    /\ SumAt(r, "summary")
    /\ sum' = [sum EXCEPT ![r].pc = "call", ![r].summary = cache.summary]
    /\ UNCHANGED <<storeVars, routerVars, run, cancelled, holder, accepted, historyVars>>

SumFails(r) ==
    /\ SumAt(r, "call") /\ SumEnds(r)
    /\ UNCHANGED <<storeVars, routerVars, run, cancelled, accepted, historyVars>>

ToSummarize(r) == SubSeq(sum[r].hist, 1, Len(sum[r].hist) - KeepLast)
NewSummary(r) == sum[r].summary \cup TagsOf(ToSummarize(r))

\* Mutated: the summary tells of the messages only, not of the one before it.
SumStore_Fresh(r) ==
    /\ SumAt(r, "call") /\ SumGoto(r, "truncate")
    /\ SetSummary(TagsOf(ToSummarize(r)))
    /\ StillKnown(run)
    /\ UNCHANGED <<routerVars, cancelled, holder, accepted, historyVars>>

SumStore(r) ==
    /\ SumAt(r, "call") /\ SumGoto(r, "truncate")
    /\ SetSummary(NewSummary(r))
    /\ StillKnown(run)
    /\ UNCHANGED <<routerVars, cancelled, holder, accepted, historyVars>>

\* The last messages of the history as it is now.
SumTruncate(r) ==
    /\ SumAt(r, "truncate") /\ SumGoto(r, "count")
    /\ TruncateHistory(KeepLast)
    /\ StillKnown(run)
    /\ UNCHANGED <<routerVars, cancelled, holder, accepted, historyVars>>

SumCount(r) ==
    /\ SumAt(r, "count") /\ SumGoto(r, "save")
    /\ IncrementCompaction
    /\ UNCHANGED <<routerVars, run, cancelled, holder, accepted, historyVars>>

SumSaves(r) ==
    /\ SumAt(r, "save") /\ SumGoto(r, "write")
    /\ SaveReads(<<r, "sum">>)
    /\ UNCHANGED <<routerVars, run, cancelled, holder, accepted, historyVars>>

\* Under the context of the run, cancelled once the run has returned.
SumSaved(r) ==
    /\ SumAt(r, "write") /\ SumEnds(r)
    /\ SaveWrites(<<r, "sum">>, r \notin cancelled)
    /\ UNCHANGED <<routerVars, run, cancelled, accepted, historyVars>>
-----------------------------------------------------------------------------
(* Users, and what happens to the gateway. *)

Running(r) == run[r].pc \notin {"idle", "done", "failed"}
InLoop(r) == run[r].pc \in {"history", "summary", "clean", "cleanSave", "ask", "tools"}

Inject(i) ==
    /\ accepted[i] = NoRun /\ InjectMessage(i)
    /\ accepted' = [accepted EXCEPT ![i] = index]
    /\ late' = IF InLoop(index) THEN late ELSE late \cup {i}
    /\ UNCHANGED <<storeVars, run, sum, cancelled, holder, met, crossed, used>>

Abort(r) ==
    /\ Spend("aborts", MaxAborts)
    /\ AbortRun(r)
    /\ cancelled' = cancelled \cup {r}
    /\ UNCHANGED <<storeVars, run, sum, holder, accepted, late, met, crossed>>

\* sessions.reset; /reset also calls Save, without a tenant: it fails.
ResetSession ==
    /\ Spend("events", MaxEvents)
    /\ Reset
    /\ StillKnown(run)
    /\ UNCHANGED <<routerVars, sum, cancelled, holder, accepted, late, met, crossed>>

ExpireLoop ==
    /\ Spend("events", MaxEvents)
    /\ Expire
    /\ UNCHANGED <<storeVars, loopVars, late, met, crossed>>

Restart ==
    /\ Spend("events", MaxEvents)
    /\ StoreRestart /\ RouterRestart
    /\ StillKnown([r \in Runs |-> IF Running(r) THEN Failed ELSE run[r]])
    /\ sum' = [r \in Runs |-> Off]
    /\ holder' = [l \in Loops |-> NoRun]
    /\ UNCHANGED <<cancelled, accepted, late, met, crossed>>

RunStep(r) ==
    \/ Start(r) \/ ReadHistory(r) \/ ReadSummary(r) \/ Clean(r)
    \/ AnswerText(r) \/ AnswerCutOff(r) \/ (\E n \in CallSizes : AnswerCalls(r, n)) \/ Fail(r)
    \/ (\E w \in 0 .. Max(CallSizes) : Tools(r, w)) \/ (\E n \in 1 .. Max(CallSizes) : Stuck(r, n))
    \/ Flush(r) \/ Saves(r) \/ Saved(r)
    \/ SkipSummary(r) \/ TryLock(r) \/ MemoryFlush(r) \/ Return(r)

SumStep(r) ==
    \/ SumReadHistory(r) \/ SumReadSummary(r) \/ SumFails(r) \/ SumStore(r)
    \/ SumTruncate(r) \/ SumCount(r) \/ SumSaves(r) \/ SumSaved(r)

Next ==
    \/ \E r \in Runs : RunStep(r) \/ SumStep(r) \/ Abort(r)
    \/ \E i \in Injections : Inject(i)
    \/ ResetSession \/ ExpireLoop \/ Restart

Spec == Init /\ [][Next]_vars
-----------------------------------------------------------------------------
(* What the agent promises. *)

Pcs == {"idle", "history", "summary", "clean", "ask", "tools", "flush", "summarize",
        "memFlush", "return", "done", "failed"} \cup DOMAIN AfterSave

\* Types; a held summariser lock belongs to a run that summarises; an index
\* entry to a registered run.
TypeOK ==
    /\ RouterTypeOK
    /\ \A r \in Runs : run[r].pc \in Pcs /\ run[r].iter \in 0 .. MaxIter[r]
    /\ \A r \in Runs : run[r].flushed \in 0 .. Len(run[r].pending)
    /\ \A l \in Loops : holder[l] # NoRun =>
         run[holder[l]].loop = l /\ (SumAt(holder[l], "off") => Running(holder[l]))

\* The run is about to send a request that it has not spoilt itself: the tool
\* budget was not exceeded (loop.go:904 goes on without results), and no warning
\* came between two results (loop.go:1246).
Requests(r) == At(r, "ask") /\ ~run[r].over /\ ~run[r].split

\* The state is well typed, and the provider is never sent a tool call without
\* its result behind it, a result without its call or one id for two calls of an
\* answer (it would refuse the request), whatever the flushes of other runs left
\* in the history.
RequestPaired ==
    /\ TypeOK
    /\ \A r \in Runs : Requests(r) => Paired(run[r].msgs) /\ DistinctCalls(run[r].msgs)

\* Nor is it sent one id for calls of two answers: "Using the run UUID guarantees
\* cross-turn uniqueness without history rewriting" (loop_utils.go:98).  The run
\* of a channel message has no such id: its first eight characters, all that is
\* used of it, are "inbound-" (gateway_consumer_normal.go:181, loop_utils.go:113).
RequestIdsUnique == \A r \in Runs : Requests(r) => UniqueIds(run[r].msgs)

\* A run builds its request from all that the session knew when the run began
\* and has known ever since, although history and summary are read one after the
\* other while summarisers move messages from the one to the other.
ReadIsWhole ==
    [][\A r \in Runs : ReadSummary(r) =>
         run[r].knew \subseteq TagsOf(run[r].snap) \cup cache.summary]_vars

Ours(r) == r \in Runs /\ (run'[r].pc # run[r].pc \/ sum'[r].pc # sum[r].pc)

\* The write that the run or its summariser is about to make follows from a
\* view of the session that is no longer true.
StaleView(r) ==
    \/ At(r, "clean") /\ cache.history # run[r].snap
    \/ SumAt(r, "call") /\ ~(cache.summary \subseteq sum[r].summary)
    \/ SumAt(r, "truncate") /\ (cache.history # sum[r].hist \/ cache.summary # NewSummary(r))

\* No message leaves the session for good: what the history loses the summary
\* tells of.  The exceptions are a reset, a restart, results that the repair
\* drops, and writes from a stale view, which nothing prevents: messages
\* flushed while the model summarises are cut off untold.
NothingForgotten ==
    [][\A t \in Covered(cache) \ Covered(cache') :
         \/ ResetSession \/ Restart
         \/ \E r \in Runs : Ours(r) /\ StaleView(r)
         \/ \E k \in DOMAIN cache.history : cache.history[k].tag = t /\ IsTool(cache.history[k])
              /\ \E r \in Runs : At(r, "clean")]_vars

\* A follow-up whose sender was told that it was injected is flushed to the
\* session with the run, unless it came after the last look into the channel
\* or the loop detector stopped the run: it is never dropped by a run that
\* went on to answer.
AcceptedIsKept ==
    \A i \in Injections : \A r \in Runs :
        accepted[i] = r /\ ~InLoop(r) /\ ~At(r, "failed") /\ ~run[r].stuck /\ i \notin late =>
            <<i>> \in TagsOf(run[r].pending)

\* A run that never shared its session with another registered run is the one
\* that follow-ups, status queries and /stop find, as long as it is active.
LoneRunIsBusy == \A r \in active \ met : index = r

\* Once a run has returned, a restart loses nothing of what it flushed and the
\* session has had ever since, unless another save of the session overlapped
\* with its own.
AnsweredSurvives ==
    [][Restart => \A r \in Runs : At(r, "done") /\ r \notin crossed =>
         run[r].knew \subseteq Covered(cache')]_vars

=============================================================================
