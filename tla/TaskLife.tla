------------------------------ MODULE TaskLife ------------------------------
(***************************************************************************)
(* What a Task row promises to everyone who reads it: Goal runs, the       *)
(* timeline and the evaluations.  A task is run again and again until it   *)
(* has succeeded, by one executor at a time; a row is terminal only after  *)
(* its executor said so; an executor that dies leaves the row as it was.   *)
(*                                                                         *)
(* GoalExecution implements it for one task, GoalTree for every task of a  *)
(* plan.                                                                   *)
(***************************************************************************)

VARIABLES status, running

\* A plan saves its tasks before they are run, the executor saves the others.
Plan ==
    /\ status = "none" /\ ~running
    /\ status' = "pending" /\ running' = FALSE

Begin ==
    /\ ~running /\ status # "succeeded"
    /\ status' = "active" /\ running' = TRUE

End(outcome) ==
    /\ running
    /\ status' = outcome /\ running' = FALSE

Die ==
    /\ running
    /\ running' = FALSE /\ UNCHANGED status

Init == status = "none" /\ running = FALSE

Next ==
    \/ Plan \/ Begin \/ Die
    \/ \E outcome \in {"succeeded", "failed", "aborted"} : End(outcome)

Step == [Next]_<<status, running>>

Spec == Init /\ [][Next]_<<status, running>>

=============================================================================
