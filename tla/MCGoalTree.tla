------------------------------ MODULE MCGoalTree ------------------------------
(* GoalTree with the plans of up to two tasks, one listed before the task it *)
(* depends on, and one with a cycle.                                         *)
EXTENDS GoalTree

MCPlans == {<<{}>>, <<{}, {1}>>, <<{2}, {}>>, <<{2}, {1}>>}
=============================================================================
