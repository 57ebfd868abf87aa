---- MODULE MCTranscript ----
(* What Transcript does with every transcript of up to MaxLen messages: properties
   of operators, that no step of the agent can change. *)
EXTENDS Transcript

CONSTANTS MaxLen, a, b

\* Two user messages in a row, an id used twice by one message or by two, and
\* results that nobody asked for all occur.
Msgs ==
    {TextMsg("user", <<"u">>), TextMsg("assistant", <<"t">>),
     CallMsg(<<"c">>, <<<<a>>>>), CallMsg(<<"c">>, <<<<a>>, <<b>>>>),
     CallMsg(<<"c">>, <<<<b>>, <<b>>>>),
     ToolMsg(<<"r">>, <<a>>), ToolMsg(<<"r">>, <<b>>)}

Transcripts == UNION {[1 .. n -> Msgs] : n \in 0 .. MaxLen}

\* What the model is sent has every call answered right behind it and no other
\* result, and a transcript is rewritten in the session exactly when it was
\* not so already: sanitizeHistory drops nothing from one that is.
SanitizePairs(msgs) ==
    LET clean == Sanitize(msgs)
    IN /\ Paired(clean)
       /\ Dropped(clean) = 0
       /\ UniqueIds(msgs) => (Dropped(msgs) = 0 <=> Paired(msgs))

\* Nothing but results nobody asked for gets lost, nothing changes places, and
\* a result is made up only for a call that has none in the results behind it.
SanitizeKeeps(msgs) ==
    LET clean == Sanitize(msgs)
        real(s) == SelectSeq(s, LAMBDA m : m.tag # <<>>)
        tags(s) == [i \in DOMAIN s |-> s[i].tag]
        behind(i) == {j \in DOMAIN msgs : j > i /\ \A k \in i + 1 .. j : IsTool(msgs[k])}
        asked(i) == {j \in behind(i) : \E k \in DOMAIN msgs[i].calls :
                       /\ msgs[i].calls[k] = msgs[j].call
                       /\ Cardinality({l \in behind(i) : l < j /\ msgs[l].call = msgs[j].call})
                          < Cardinality({l \in DOMAIN msgs[i].calls :
                                           msgs[i].calls[l] = msgs[j].call})}
        callers == {i \in DOMAIN msgs : HasCalls(msgs[i])}
        kept == {i \in DOMAIN msgs : ~IsTool(msgs[i])} \cup UNION {asked(i) : i \in callers}
        keptSeq == [i \in DOMAIN msgs |-> [tag |-> msgs[i].tag, kept |-> i \in kept]]
    IN tags(real(clean)) = tags(SelectSeq(keptSeq, LAMBDA m : m.kept))

EveryRepair == \A msgs \in Transcripts : SanitizePairs(msgs) /\ SanitizeKeeps(msgs)

EveryCut ==
    \A msgs \in Transcripts : Paired(msgs) =>
        /\ \A limit \in 1 .. 2 : Paired(LimitTurns(msgs, limit))
        /\ LET short == Compact(msgs, TextMsg("user", <<"s">>))
           IN /\ Paired(short)
              /\ \A i \in 0 .. KeepLast - 1 : i < Len(msgs) =>
                     short[Len(short) - i] = msgs[Len(msgs) - i]
=============================================================================
