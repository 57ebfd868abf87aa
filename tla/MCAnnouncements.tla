--------------------------- MODULE MCAnnouncements ---------------------------
(* Small instances of Subagents and LeadAnnounce, the two ways by which       *)
(* results come back to the session of the agent that asked for them.  They   *)
(* share the consumer and the scheduler and no variable, and each property    *)
(* speaks of one of them: so a behaviour runs only one of them, and the run   *)
(* covers what their interleavings would.                                     *)
EXTENDS Subagents, LeadAnnounce, TLC

CONSTANTS s1, s2, s3, s4, p, g, h, o1, o2, m1, m2, m3

OneParent == [x \in Groups |-> p]
\* All but s3 are spawned from one chat, s1 from another topic than the rest.
Chats == [t \in Subs |-> IF t # s3 THEN g ELSE h]
Topics == [t \in Subs |-> IF t = s1 THEN o1 ELSE o2]

vars == <<subVars, leadVars>>

Init == SubInit /\ LeadInit

Next ==
    \/ SubNext /\ (\A r \in Results : at[r] = "working") /\ UNCHANGED leadVars
    \/ LeadNext /\ (\A t \in Subs : status[t] = "none") /\ UNCHANGED subVars

Spec == Init /\ [][Next]_vars

\* The subagents of one topic may be exchanged.
Alike == Permutations({s2, s4})
=============================================================================
