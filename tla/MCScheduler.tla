---------------------------- MODULE MCScheduler ----------------------------
(* Small instances of Scheduler for TLC. *)
EXTENDS Scheduler

CONSTANTS r1, r2, r3, r4, sA, sB, main, cron, i1, i2, i3, i4

\* Which request belongs to which session.
AllInA == [r \in Requests |-> sA]
SplitAB == [r \in Requests |-> IF r \in {r1, r2} THEN sA ELSE sB]

\* Every request names the main lane; or one of the sessions is a cron job's.
AllMain == [r \in Requests |-> main]
CronForA == [r \in Requests |-> IF r \in {r1, r2} THEN cron ELSE main]

\* Run IDs: all different.
DistinctIds == [r \in Requests |-> CASE r = r1 -> i1 [] r = r2 -> i2
                                     [] r = r3 -> i3 [] OTHER -> i4]

NoOpts == [r \in Requests |-> 0]
GroupOpts == [r \in Requests |-> 3]
PairOpts == [r \in Requests |-> 2]
\* Without an override, as a group of two, as a DM.
MixedOpts == [r \in Requests |-> CASE r = r1 -> 0 [] r = r2 -> 2 [] OTHER -> 1]

OneToken == [l \in Lanes |-> 1]
TwoTokens == [l \in Lanes |-> 2]
=============================================================================
