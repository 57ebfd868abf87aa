---- MODULE MCBackground ----
(* What goes on beside the conversations: the cron service in one half of    *)
(* the behaviours, the approval of commands in the other; they share nothing.*)
EXTENDS Cron, ExecApproval, TLC

CONSTANTS j1, j2, m1, m2, r1, r2, o1, o2, bin1

VARIABLE which

Every(n) == [kind |-> "every", arg |-> n]
At(t) == [kind |-> "at", arg |-> t]
TwoSchedules == {Every(1), At(3)}

\* A recurring job; two jobs due at the same time, one of them a one-time job; a
\* job that a crash has left without a next run, and one disabled in that state.
Left(s, on, t) == [schedule |-> s, enabled |-> on, once |-> s.kind = "at", next |-> t]
FirstRows ==
    {(j1 :> Left(Every(2), TRUE, 2)) @@ (j2 :> NoRow),
     (j1 :> Left(Every(1), TRUE, 2)) @@ (j2 :> Left(At(2), TRUE, 2)),
     (j1 :> Left(Every(2), TRUE, Never)) @@ (j2 :> Left(Every(1), FALSE, Never))}

OneBinary == [r \in Requests |-> bin1]

BackgroundInit == Init /\ ApprovalInit /\ which \in {"cron", "approval"}

BackgroundNext ==
    \/ which = "cron" /\ CronNext /\ UNCHANGED <<appVars, which>>
    \/ which = "approval" /\ ApprovalNext /\ UNCHANGED <<vars, which>>

\* Each half stays in its initial state, where none of its fair steps is enabled,
\* when the other half moves.
BackgroundSpec ==
    /\ BackgroundInit /\ [][BackgroundNext]_<<vars, appVars, which>>
    /\ CronFairness /\ ApprovalFairness
====
