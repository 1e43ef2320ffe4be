-------------------------- MODULE MCGoalExecution --------------------------
(* GoalExecution with two calls, one of them outside the allowlist. *)
EXTENDS GoalExecution

CONSTANTS read, bad

MCCalls == {read, bad}
MCProposals == {<<>>, <<read>>, <<read, read>>, <<read, bad>>}
=============================================================================
