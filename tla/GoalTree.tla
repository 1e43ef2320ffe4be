------------------------------ MODULE GoalTree ------------------------------
(***************************************************************************)
(* The run of a Goal: executeGoalTree, stopGoalTree and resumeGoalTree of  *)
(* packages/runtime/src/harness/runtime.ts around runGoalTree of           *)
(* packages/runtime/src/strategy/goal-strategy.ts, with the plan of its    *)
(* tasks (gts/plan-graph.ts), the verifier and replanning (gts/replan.ts). *)
(*                                                                         *)
(* A Goal has a plan: tasks that depend on each other.  A run executes     *)
(* them one after the other, has each verified, and stops at the first     *)
(* that fails unless a planner revises the plan.  Then the Goal row is     *)
(* settled.  A run may be stopped, it may die, and it may be resumed from  *)
(* the rows.  What executeTask does within a task is GoalExecution; here   *)
(* it begins and ends.                                                     *)
(***************************************************************************)
EXTENDS Naturals, Sequences, FiniteSets

CONSTANTS
    Plans,        \* plans a caller or a planner may propose: the dependencies of each task
    MaxReplans,   \* maxReplans; 0 when no planner is set
    MaxRuns,      \* bound: runs and resumes in a behaviour
    MaxCrashes    \* bound: crashes in a behaviour

\* Without a proposal a Goal has one task.
DefaultPlan == <<{}>>

ASSUME PlansAssumption ==
    /\ Plans \subseteq Seq(SUBSET Nat)
    /\ \A plan \in Plans : plan # <<>> /\ \A i \in DOMAIN plan : plan[i] \subseteq DOMAIN plan
ASSUME BoundsAssumption == {MaxReplans, MaxRuns, MaxCrashes} \subseteq Nat

VARIABLES
    \* rows of the goal store
    goal,       \* status of the Goal row
    tasks,      \* the tasks ever planned, "none" while only the run knows them
    listed,     \* the tasks in the order listTasks finds them: by their last save
    \* memory of the process
    proposal,   \* pendingPlanProposal, <<>> = none
    pc,
    resume,     \* options.resume
    stop,       \* controller.signal.aborted
    plan,       \* the tasks of the run, in the order of the plan
    visited,    \* those the cursor has passed
    at,         \* the task at hand
    outcomes,   \* TaskOutcomes: the task and whether it is ok
    revisions,  \* planRevisions.length
    unsaved,    \* tasks of the new revision that are still to be saved
    \* history, read by the properties only
    dropped,    \* tasks a revision has replaced
    runs,
    crashes

rows == <<goal, tasks, listed>>
run == <<resume, stop, plan, visited, at, outcomes, revisions, unsaved>>
vars == <<rows, proposal, pc, run, dropped, runs, crashes>>

GoalStatus == {"active", "aborted", "succeeded", "failed"}
TaskStatus == {"none", "pending", "active", "aborted", "succeeded", "failed"}
Task == [status : TaskStatus, deps : SUBSET Nat]
Outcome == [task : Nat \ {0}, reason : {"succeeded", "failed", "aborted"}]

Ids == DOMAIN tasks
Planned == {plan[i] : i \in DOMAIN plan}
Saved == {t \in Ids : tasks[t].status # "none"}

----------------------------------------------------------------------------
(* Plans. *)

\* validatePlanGraph: every dependency is a task of the plan, and none is its own.
Valid(ids, deps) ==
    /\ \A t \in ids : deps[t] \subseteq ids
    /\ \E rank \in [ids -> 1 .. Cardinality(ids)] :
          \A t \in ids : \A d \in deps[t] : rank[d] < rank[t]

\* compileTaskPlan: a task of its own for each that is proposed.
Compiled(proposed) ==
    [i \in DOMAIN proposed |->
        [status |-> "none", deps |-> {Len(tasks) + d : d \in proposed[i]}]]

\* Mutation: off by one.
NewIdsOffByOne(proposed) == [i \in DOMAIN proposed |-> Len(tasks) + i + 1]

NewIds(proposed) == [i \in DOMAIN proposed |-> Len(tasks) + i]

\* Mutation: the tasks are run in the order of the plan.
NextInPlan(t) ==
    \E i \in DOMAIN plan :
        /\ plan[i] = t /\ t \notin visited
        /\ \A j \in 1 .. i - 1 : plan[j] \in visited

\* topologicalTaskOrder: the first task of the plan whose dependencies are done.
Ready(i) ==
    /\ i \in DOMAIN plan /\ plan[i] \notin visited
    /\ tasks[plan[i]].deps \cap Planned \subseteq visited

NextTask(t) == \E i \in DOMAIN plan : plan[i] = t /\ Ready(i) /\ \A j \in 1 .. i - 1 : ~Ready(j)

\* INSERT OR REPLACE: a task that is saved again is listed last.
SaveTask(t, status) ==
    /\ tasks' = [tasks EXCEPT ![t].status = status]
    /\ \/ /\ \A i \in DOMAIN listed : listed[i] # t
          /\ listed' = Append(listed, t)
       \/ \E i \in DOMAIN listed :
            /\ listed[i] = t
            /\ listed' = SubSeq(listed, 1, i - 1) \o Append(SubSeq(listed, i + 1, Len(listed)), t)

\* Nothing of a run outlives it but the rows.
Forget ==
    /\ pc' = "idle" /\ proposal' = <<>>
    /\ resume' = FALSE /\ stop' = FALSE
    /\ plan' = <<>> /\ visited' = {} /\ at' = 0
    /\ outcomes' = <<>> /\ revisions' = 0 /\ unsaved' = <<>>

----------------------------------------------------------------------------
(* Starting a run. *)

\* POST /run and POST /resume; runExclusive admits one at a time.
Begin(again) ==
    /\ pc = "idle" /\ runs < MaxRuns
    /\ pc' = "prepare" /\ resume' = again /\ runs' = runs + 1
    /\ UNCHANGED <<rows, proposal, stop, plan, visited, at, outcomes, revisions, unsaved,
                   dropped, crashes>>

Executable == goal = "active" \/ (resume /\ goal = "aborted")

\* The proposal of the caller is used up by the first run.
Proposed == IF proposal = <<>> THEN DefaultPlan ELSE proposal

PlansAfresh == pc = "prepare" /\ Executable /\ (~resume \/ listed = <<>>)

PlanRun ==
    /\ PlansAfresh
    /\ Valid(DOMAIN Proposed, Proposed)
    /\ tasks' = tasks \o Compiled(Proposed)
    /\ plan' = NewIds(Proposed)
    /\ proposal' = <<>> /\ pc' = "next"
    /\ UNCHANGED <<goal, listed, resume, stop, visited, at, outcomes, revisions, unsaved,
                   dropped, runs, crashes>>

PlanRejected ==
    /\ PlansAfresh
    /\ ~Valid(DOMAIN Proposed, Proposed)
    /\ proposal' = <<>> /\ pc' = "settle"
    /\ UNCHANGED <<rows, run, dropped, runs, crashes>>

\* A resume runs the tasks that have rows.
PlanFromRows ==
    /\ pc = "prepare" /\ Executable /\ resume /\ listed # <<>>
    /\ LET ids == {listed[i] : i \in DOMAIN listed} IN
       IF Valid(ids, [t \in ids |-> tasks[t].deps])
       THEN plan' = listed /\ pc' = "next"
       ELSE pc' = "settle" /\ UNCHANGED plan
    /\ proposal' = <<>>
    /\ UNCHANGED <<rows, resume, stop, visited, at, outcomes, revisions, unsaved,
                   dropped, runs, crashes>>

\* A Goal that is settled has no task to run.
NothingToRun ==
    /\ pc = "prepare" /\ ~Executable
    /\ proposal' = <<>> /\ pc' = "next"
    /\ UNCHANGED <<rows, run, dropped, runs, crashes>>

----------------------------------------------------------------------------
(* The loop of runGoalTree. *)

\* Mutation: the cursor is advanced for tasks that are run only.
SkipTaskAgain(t) ==
    /\ pc = "next" /\ NextTask(t) /\ tasks[t].status = "succeeded"
    /\ UNCHANGED vars

SkipTask(t) ==
    /\ pc = "next" /\ NextTask(t) /\ tasks[t].status = "succeeded"
    /\ visited' = visited \cup {t}
    /\ UNCHANGED <<rows, proposal, pc, resume, stop, plan, at, outcomes, revisions, unsaved,
                   dropped, runs, crashes>>

\* Mutation: a task that has succeeded is run again.
BeginAnyTask(t) ==
    /\ pc = "next" /\ NextTask(t)
    /\ SaveTask(t, "active")
    /\ at' = t /\ visited' = visited \cup {t}
    /\ pc' = IF stop THEN "cut" ELSE "task"
    /\ UNCHANGED <<goal, proposal, resume, stop, plan, outcomes, revisions, unsaved,
                   dropped, runs, crashes>>

\* executeTask saves the task as active.
BeginTask(t) ==
    /\ pc = "next" /\ NextTask(t) /\ tasks[t].status # "succeeded"
    /\ SaveTask(t, "active")
    /\ at' = t /\ visited' = visited \cup {t}
    /\ pc' = IF stop THEN "cut" ELSE "task"
    /\ UNCHANGED <<goal, proposal, resume, stop, plan, outcomes, revisions, unsaved,
                   dropped, runs, crashes>>

\* executeTask returns: aborted only after a stop, and a task begun after it does
\* not succeed.
EndTask(reason) ==
    /\ pc \in {"task", "cut"}
    /\ reason = "aborted" => stop
    /\ pc = "cut" => reason # "succeeded"
    /\ SaveTask(at, reason)
    /\ outcomes' = Append(outcomes, [task |-> at, reason |-> reason])
    /\ pc' = "verify"
    /\ UNCHANGED <<goal, proposal, resume, stop, plan, visited, at, revisions, unsaved,
                   dropped, runs, crashes>>

Last == outcomes[Len(outcomes)]

\* Mutation: the run goes on after a failure.
VerifyAndGoOn(verdict) ==
    /\ pc = "verify"
    /\ Last.reason # "succeeded" => verdict = "failed"
    /\ pc' = IF verdict # "failed" \/ revisions >= MaxReplans THEN "next" ELSE "replan"
    /\ UNCHANGED <<rows, proposal, run, dropped, runs, crashes>>

\* The verdict is saved with the task, which is the last one listed already.
Verify(verdict) ==
    /\ pc = "verify"
    /\ Last.reason # "succeeded" => verdict = "failed"
    /\ pc' = CASE verdict # "failed" -> "next"
               [] verdict = "failed" /\ revisions >= MaxReplans -> "settle"
               [] OTHER -> "replan"
    /\ UNCHANGED <<rows, proposal, run, dropped, runs, crashes>>

\* The planner has no answer, or createPlanRevision rejects it.
ReplanDeclined ==
    /\ pc = "replan"
    /\ pc' = "settle"
    /\ UNCHANGED <<rows, proposal, run, dropped, runs, crashes>>

\* What this run completed before the failure: the places of its outcomes, in order.
Completed ==
    LET done == {i \in 1 .. Len(outcomes) - 1 : outcomes[i].reason = "succeeded"}
    IN {places \in [1 .. Cardinality(done) -> done] :
            \A i, j \in 1 .. Cardinality(done) : i < j => places[i] < places[j]}

\* A revision keeps the completed tasks and replaces the others.  The Goal must be
\* active, so a resumed run that was stopped before is never replanned.
Replan(proposed) ==
    /\ pc = "replan" /\ goal = "active" /\ Valid(DOMAIN proposed, proposed)
    /\ \E places \in Completed :
        LET kept == [i \in DOMAIN places |-> outcomes[places[i]].task]
        IN /\ plan' = kept \o NewIds(proposed)
           /\ dropped' = dropped \cup (Planned \ {kept[i] : i \in DOMAIN kept})
    /\ tasks' = tasks \o Compiled(proposed)
    /\ unsaved' = NewIds(proposed)
    /\ outcomes' = SubSeq(outcomes, 1, Len(outcomes) - 1)
    /\ visited' = {} /\ revisions' = revisions + 1
    /\ pc' = "save"
    /\ UNCHANGED <<goal, listed, proposal, resume, stop, at, runs, crashes>>

\* One save per task of the revision.
SaveRevision ==
    /\ pc = "save"
    /\ SaveTask(Head(unsaved), "pending")
    /\ unsaved' = Tail(unsaved)
    /\ pc' = IF Len(unsaved) = 1 THEN "next" ELSE "save"
    /\ UNCHANGED <<goal, proposal, resume, stop, plan, visited, at, outcomes, revisions,
                   dropped, runs, crashes>>

QueueEnds ==
    /\ pc = "next" /\ Planned \subseteq visited
    /\ pc' = "settle"
    /\ UNCHANGED <<rows, proposal, run, dropped, runs, crashes>>

\* The last outcome settles the Goal; a run without one leaves it as it is.
SettleGoal ==
    /\ pc = "settle"
    /\ goal' = IF outcomes = <<>> THEN goal ELSE Last.reason
    /\ Forget
    /\ UNCHANGED <<tasks, listed, dropped, runs, crashes>>

----------------------------------------------------------------------------
(* The environment. *)

\* stopGoalTree finds the controller only while runGoalTree runs.
Stop ==
    /\ pc \notin {"idle", "prepare", "settle"} /\ ~stop
    /\ stop' = TRUE
    /\ UNCHANGED <<rows, proposal, pc, resume, plan, visited, at, outcomes, revisions, unsaved,
                   dropped, runs, crashes>>

\* The process dies, or a store or the memory throws out of the run.
Crash ==
    /\ crashes < MaxCrashes
    /\ crashes' = crashes + 1
    /\ Forget
    /\ UNCHANGED <<rows, dropped, runs>>

Init ==
    /\ goal = "active" /\ tasks = <<>> /\ listed = <<>>
    /\ proposal \in Plans \cup {<<>>}
    /\ pc = "idle" /\ resume = FALSE /\ stop = FALSE
    /\ plan = <<>> /\ visited = {} /\ at = 0
    /\ outcomes = <<>> /\ revisions = 0 /\ unsaved = <<>>
    /\ dropped = {} /\ runs = 0 /\ crashes = 0

Runner ==
    \/ PlanRun \/ PlanRejected \/ PlanFromRows \/ NothingToRun
    \/ \E t \in Ids : SkipTask(t) \/ BeginTask(t)
    \/ \E reason \in {"succeeded", "failed", "aborted"} : EndTask(reason)
    \/ \E verdict \in {"passed", "failed", "uncertain"} : Verify(verdict)
    \/ ReplanDeclined \/ \E proposed \in Plans : Replan(proposed)
    \/ SaveRevision \/ QueueEnds \/ SettleGoal

Next == (\E again \in BOOLEAN : Begin(again)) \/ Stop \/ Crash \/ Runner

Spec == Init /\ [][Next]_vars

\* Tasks, verifiers and planners answer; nobody has to run, stop or crash.
FairSpec == Spec /\ WF_vars(Runner)

----------------------------------------------------------------------------
(* Properties. *)

\* Every variable keeps its shape.
TypeOK ==
    /\ goal \in GoalStatus
    /\ tasks \in Seq(Task)
    /\ listed \in Seq(Ids)
    /\ proposal \in Plans \cup {<<>>}
    /\ pc \in {"idle", "prepare", "next", "task", "cut", "verify", "replan", "save", "settle"}
    /\ {resume, stop} \subseteq BOOLEAN
    /\ plan \in Seq(Ids) /\ visited \subseteq Ids /\ at \in Nat
    /\ outcomes \in Seq(Outcome)
    /\ unsaved \in Seq(Ids)
    /\ dropped \subseteq Ids
    /\ {revisions, runs, crashes} \subseteq Nat

\* A task runs only after everything it depends on has succeeded, whether its plan
\* was made by this run, by a replan or by a run that was lost.
DependenciesFirst ==
    pc \in {"task", "cut"} => \A d \in tasks[at].deps : tasks[d].status = "succeeded"

\* The rows are a plan that a resume can run: no saved task depends on one that was
\* not saved, unless the process died.
RowsAreClosed ==
    pc = "idle" /\ crashes = 0 => \A t \in Saved : tasks[t].deps \subseteq Saved

\* A task as its readers see it.
Life(t) == INSTANCE TaskLife WITH
    status <- IF t \in Ids THEN tasks[t].status ELSE "none",
    running <- pc \in {"task", "cut"} /\ at = t

\* Each task of the plan lives the life of a Task, through stops, crashes, resumes
\* and revisions: no succeeded task is run again, no row turns terminal by itself.
EveryTaskLives == [][\A t \in Ids' : Life(t)!Step]_vars

\* Every run comes to its end.
RunEnds == pc # "idle" ~> pc = "idle"

\* "Resume a stopped Goal tree: its tasks are reused, and the run goes on": a resumed
\* run that has run what there is to run, with success, leaves no task of the plan.
ResumeFinishesPlan ==
    resume /\ pc = "next" /\ Planned \subseteq visited /\ outcomes # <<>> =>
        \A t \in Ids \ dropped : tasks[t].status = "succeeded"

=============================================================================
