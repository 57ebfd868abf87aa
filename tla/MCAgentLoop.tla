---- MODULE MCAgentLoop ----
(* Instances of AgentLoop for TLC: constants that a configuration names. *)
EXTENDS AgentLoop

CONSTANTS r1, r2, l1, l2, i1

TwoSavers == {r1, r2} \X {"run", "sum"}
Iterations == (r1 :> 2) @@ (r2 :> 1)
OneEach == [r \in Runs |-> 1]
RunPrefixes == [r \in Runs |-> <<r>>]

Symmetry == Permutations(Runs) \cup Permutations(Loops)

\* A session that is new, one that its first compaction has cut between a call and
\* its result, and the same one after a call by a run whose id has no part of its
\* own (the first eight characters are "inbound-").
Left(history) ==
    [history |-> history, summary |-> {<<1>>}, compactions |-> 1, flushedAt |-> 0]
Cut == <<ToolMsg(<<2>>, <<0>>), TextMsg("assistant", <<3>>)>>
Sessions == {NewSession, Left(Cut)}
CalledSession ==
    {Left(Cut \o <<CallMsg(<<4>>, <<<<1, 0>>>>), ToolMsg(<<5>>, <<1, 0>>)>>)}
====
