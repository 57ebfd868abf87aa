---- MODULE MCTeamTasks ----
(* Instances of TeamTasks for TLC: constants that a configuration names. *)
EXTENDS TeamTasks

CONSTANTS t1, t2, t3, a1, a2, j1, j2, j3

\* Every task goes to the same member, or each to another.
SameAssignee == [t \in Tasks |-> a1]
OtherAssignee == [t \in Tasks |-> IF t = t1 THEN a1 ELSE a2]

\* Any task may wait for any other, and for itself; or only t2 for t1.
AnyBlocks == [t \in Tasks |-> Tasks]
FirstBlocks == [t \in Tasks |-> IF t = t1 THEN {} ELSE {t1}]
====
