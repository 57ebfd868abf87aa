---------------------------- MODULE Transcript ----------------------------
(***************************************************************************)
(* The messages of a conversation and the functions of internal/agent      *)
(* that repair and shorten them: sanitizeHistory, limitHistoryTurns and    *)
(* compactMessagesInPlace.                                                 *)
(*                                                                         *)
(* The content of a message is its tag.  The id of a tool call is a        *)
(* sequence: what the provider or uniquifyToolCallIDs made, followed by    *)
(* one index for each time sanitizeHistory renamed it ("_dedup_<j>").      *)
(***************************************************************************)
EXTENDS Integers, SequencesExt

CONSTANT KeepLast    \* compaction.keep_last_messages (default 4)

ASSUME KeepLastAssumption == KeepLast \in Nat \ {0}

NoCall == <<>>
TextMsg(role, tag) == [role |-> role, tag |-> tag, calls |-> <<>>, call |-> NoCall]
CallMsg(tag, ids) == [role |-> "assistant", tag |-> tag, calls |-> ids, call |-> NoCall]
ToolMsg(tag, id) == [role |-> "tool", tag |-> tag, calls |-> <<>>, call |-> id]

HasCalls(m) == m.role = "assistant" /\ m.calls # <<>>
IsTool(m) == m.role = "tool"

\* "[Tool result missing - session was compacted]"
Synthetic(id) == ToolMsg(<<>>, id)

\* q is a sequence.
Listed(q) == q \in Seq(ToSet(q))

\* Only the assistant calls tools.  An id that ends in a position ends in that of
\* its own call: this is what uniquifyToolCallIDs and sanitizeHistory append to the
\* ids of a provider.
IsMessage(m) ==
    /\ DOMAIN m = {"role", "tag", "calls", "call"}
    /\ Listed(m.calls) /\ (m.role # "assistant" => m.calls = <<>>)
    /\ \A k \in DOMAIN m.calls : Listed(m.calls[k]) /\ m.calls[k] # <<>>
    /\ \A k, l \in DOMAIN m.calls : k # l => Last(m.calls[k]) # l - 1

IsTranscript(msgs) == Listed(msgs) /\ \A i \in DOMAIN msgs : IsMessage(msgs[i])

\* Each call with its results, all of them, right behind it; no other result.
Paired(msgs) ==
    LET block(i) == {j \in i + 1 .. i + Len(msgs[i].calls) : j <= Len(msgs)}
        callers == {i \in DOMAIN msgs : HasCalls(msgs[i])}
    IN /\ \A i \in callers :
            /\ \A j \in block(i) : IsTool(msgs[j])
            /\ {msgs[j].call : j \in block(i)} = ToSet(msgs[i].calls)
            /\ i + Len(msgs[i].calls) <= Len(msgs)
       /\ \A j \in DOMAIN msgs : IsTool(msgs[j]) => \E i \in callers : j \in block(i)

\* No two calls of one message have the same id.
DistinctCalls(msgs) ==
    \A i \in DOMAIN msgs : \A k, l \in DOMAIN msgs[i].calls :
        msgs[i].calls[k] = msgs[i].calls[l] => k = l

\* No id stands for two calls.
UniqueIds(msgs) ==
    \A i, j \in DOMAIN msgs : \A k \in DOMAIN msgs[i].calls, l \in DOMAIN msgs[j].calls :
        msgs[i].calls[k] = msgs[j].calls[l] => <<i, k>> = <<j, l>>
-----------------------------------------------------------------------------
(* sanitizeHistory: one pass, whose state is the result so far, the calls  *)
(* of the last assistant message still without result (as <<old id, new    *)
(* id>>), the ids seen, and how many messages were dropped or made up.     *)
(* The new ids of one message differ, as it IsMessage, so that a call is   *)
(* in expectedIDs as long as it is in its queue.                           *)

\* An id already seen gets the position of its call as a suffix.
Renamed(seen, ids) ==
    LET new[k \in DOMAIN ids] ==
          IF ids[k] \in seen \cup {new[l] : l \in 1 .. k - 1} THEN Append(ids[k], k - 1)
          ELSE ids[k]
    IN new

\* What follows is no result: the results still missing are made up.
Close(st) ==
    [st EXCEPT !.out = @ \o [i \in DOMAIN st.open |-> Synthetic(st.open[i][2])],
               !.dropped = @ + Len(st.open), !.open = <<>>]

TakeCalls(st, m) ==
    LET new == Renamed(st.seen, m.calls)
    IN [st EXCEPT !.out = Append(@, [m EXCEPT !.calls = new]),
                  !.open = [i \in DOMAIN new |-> <<m.calls[i], new[i]>>],
                  !.seen = @ \cup ToSet(new)]

\* Mutated: a result that answers nothing ends the search for results.
TakeResult_Stops(st, m) ==
    LET i == SelectInSeq(st.open, LAMBDA p : p[1] = m.call)
    IN IF i = 0 THEN [Close(st) EXCEPT !.dropped = @ + 1]
       ELSE [st EXCEPT !.out = Append(@, [m EXCEPT !.call = st.open[i][2]]),
                       !.open = RemoveAt(@, i)]

\* The first open call with the id of the result takes it.
TakeResult(st, m) ==
    LET i == SelectInSeq(st.open, LAMBDA p : p[1] = m.call)
    IN IF i = 0 THEN [st EXCEPT !.dropped = @ + 1]
       ELSE [st EXCEPT !.out = Append(@, [m EXCEPT !.call = st.open[i][2]]),
                       !.open = RemoveAt(@, i)]

Fresh == [out |-> <<>>, open |-> <<>>, seen |-> {}, dropped |-> 0]

Take(st, m) ==
    IF IsTool(m) THEN TakeResult(st, m)
    ELSE IF HasCalls(m) THEN TakeCalls(Close(st), m)
    ELSE [Close(st) EXCEPT !.out = Append(@, m)]

Sanitized(msgs) ==
    LET pass[i \in 0 .. Len(msgs)] == IF i = 0 THEN Fresh ELSE Take(pass[i - 1], msgs[i])
    IN Close(pass[Len(msgs)])

Sanitize(msgs) == Sanitized(msgs).out
Dropped(msgs) == Sanitized(msgs).dropped
-----------------------------------------------------------------------------
Users(msgs) == {i \in DOMAIN msgs : msgs[i].role = "user"}
From(msgs, i) == SubSeq(msgs, i, Len(msgs))

\* limitHistoryTurns: from the limit-th last user message on.
LimitTurns(msgs, limit) ==
    LET late == {i \in Users(msgs) : Cardinality({j \in Users(msgs) : j > i}) < limit}
    IN IF limit <= 0 \/ Cardinality(Users(msgs)) <= limit THEN msgs
       ELSE From(msgs, Min(late))

\* TruncateHistory cuts without looking at what it cuts.
Truncate(msgs, keep) == From(msgs, IF Len(msgs) > keep THEN Len(msgs) - keep + 1 ELSE 1)

\* messages[i], counted from 0 in the code, may be the first one kept.
CleanSplit(msgs, i) == ~IsTool(msgs[i]) /\ ~HasCalls(msgs[i])

\* compactMessagesInPlace: a summary, then the last 30%, but never less than
\* KeepLast messages.  The messages stay as they are when there are fewer
\* than six or when not even two would be summarised.
Compact(msgs, summary) ==
    LET keep == Max({KeepLast, (Len(msgs) * 3) \div 10})
        first == Len(msgs) - keep + 1
        clean == {i \in 2 .. first : CleanSplit(msgs, i)}
    IN IF Len(msgs) < 6 \/ clean = {} \/ Max(clean) <= 2 THEN msgs
       ELSE <<summary>> \o From(msgs, Max(clean))
=============================================================================
