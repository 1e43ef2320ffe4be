----------------------------- MODULE GoalContract -----------------------------
(***************************************************************************)
(* The contract of a Goal: the clauses it is to satisfy.  createGoalSession *)
(* freezes two mechanical ones; triage, which a model answers some time    *)
(* later, and the replies of a person to its questions append others; a    *)
(* run takes a copy, has each Task verified against it, and settles the    *)
(* Goal, telling how far the contract is satisfied.  Triage, replies and   *)
(* runs are in nobody's order.                                             *)
(*                                                                         *)
(* The Goal has the default plan of one Task.  A read of the row and the   *)
(* save that follows are one step: the store answers at once.              *)
(***************************************************************************)
EXTENDS Naturals, Sequences, FiniteSets, SequencesExt

CONSTANTS MaxAnswers,   \* bound: clauses of a triage, and of a reply
          MaxReplies,   \* bound: replies
          MaxPasses,    \* bound: runs and resumes
          MaxLosses     \* bound: ends of the process

ASSUME ContractAssumption == {MaxAnswers, MaxReplies, MaxPasses, MaxLosses} \subseteq Nat

\* baselineConditions: an answer is given, and no step fails.
FinalAnswer == 1
NoFailedSteps == 2
Baseline == {FinalAnswer, NoFailedSteps}

VARIABLES
    \* rows
    contract,   \* successConditions
    talks,      \* negotiation, or Unasked
    goalIs,     \* the status of the Goal
    jobs,       \* its Tasks: one for each plan
    \* memory
    triage,     \* whether the answer to parseIntent is awaited
    stage,      \* of the run
    resuming,
    copy,       \* the clauses the run has read
    todo,       \* the Tasks it has still to execute
    job,        \* the one it executes
    \* history
    made,       \* clauses made so far
    agreed,     \* clauses that triage or a person has agreed
    said,       \* the last goal.contract-evaluated, with what was agreed by then
    passes, replies, losses

conRows == <<contract, talks, goalIs, jobs>>
conRun == <<stage, resuming, copy, todo, job>>
conVars == <<conRows, triage, conRun, made, agreed, said, passes, replies, losses>>

Unasked == [route |-> "none", revision |-> 0, resolved |-> FALSE]
Unsaid == [state |-> "none", of |-> {}, shown |-> "none"]

ConInit ==
    /\ contract = Baseline /\ talks = Unasked /\ goalIs = "active" /\ jobs = <<>>
    /\ triage = TRUE
    /\ stage = "idle" /\ resuming = FALSE /\ copy = {} /\ todo = {} /\ job = 0
    /\ made = Cardinality(Baseline) /\ agreed = Baseline /\ said = Unsaid
    /\ passes = 0 /\ replies = 0 /\ losses = 0

-------------------------------------------------------------------------------
(* acceptance.ts *)

\* Of a clause, over results: one failure outweighs the rest.
Merged(id, results) ==
    LET found == {r.verdicts[id] : r \in {q \in results : id \in DOMAIN q.verdicts}}
    IN IF "failed" \in found THEN "failed" ELSE IF "passed" \in found THEN "passed" ELSE "unchecked"

\* rollupAcceptance
Rollup(ids, results) ==
    LET verdicts == {Merged(id, results) : id \in ids}
    IN IF "failed" \in verdicts \/ \E r \in results : ~r.passed THEN "violated"
       ELSE IF verdicts = {"passed"} THEN "satisfied"
       ELSE IF "passed" \in verdicts THEN "partial" ELSE "unchecked"

Results == {j.result : j \in {k \in Range(jobs) : k.result # <<>>}}

\* snapshotGoalTree: of every Task that has a result.
Shown == Rollup(contract, {r[1] : r \in Results})

\* IndependentVerifier.verify: the clauses of the Task that the copy has.  A semantic one
\* needs a judge; without it, or if it fails, it stays unchecked.
Verdicts(selected, ok) ==
    {v \in [selected -> {"passed", "failed", "unchecked"}] :
        \A id \in selected :
            /\ id = FinalAnswer => v[id] = IF ok THEN "passed" ELSE "failed"
            /\ id = NoFailedSteps => v[id] # "unchecked"}

-------------------------------------------------------------------------------
(* Negotiation. *)

Fresh(n) == made + 1 .. made + n

Agree(n) ==
    /\ contract' = contract \cup Fresh(n)
    /\ agreed' = agreed \cup Fresh(n)
    /\ made' = made + n

\* applyIntentTriage, when the model has answered: planNegotiation appends the semantic
\* clauses of its route.  Without an answer the route is fallback.
TriageAnswers(route, n) ==
    /\ triage /\ talks = Unasked
    /\ route \in {"direct", "fallback"} => n = 0
    /\ triage' = FALSE
    /\ Agree(n)
    /\ talks' = [route |-> route, revision |-> 0,
                 resolved |-> route \notin {"negotiate", "escalate"}]
    /\ UNCHANGED <<goalIs, jobs, conRun, said, passes, replies, losses>>

\* negotiateGoal: an answer that is not the default becomes a clause.  Neither the status
\* of the Goal nor whether it was answered before is looked at.
Negotiate(n) ==
    /\ talks.route \in {"negotiate", "escalate"} /\ replies < MaxReplies
    /\ Agree(n)
    /\ talks' = [talks EXCEPT !.revision = @ + 1, !.resolved = TRUE]
    /\ goalIs' = IF goalIs = "blocked" THEN "active" ELSE goalIs
    /\ replies' = replies + 1
    /\ UNCHANGED <<jobs, triage, conRun, said, passes, losses>>

-------------------------------------------------------------------------------
(* A run. *)

\* executeGoalTree reads the Goal, here and not again before it settles.
ReadGoal(again) ==
    /\ stage = "idle" /\ passes < MaxPasses
    /\ stage' = "plan" /\ resuming' = again /\ copy' = contract
    /\ passes' = passes + 1
    /\ UNCHANGED <<conRows, triage, todo, job, made, agreed, said, replies, losses>>

Unfinished == {i \in DOMAIN jobs : jobs[i].is # "succeeded"}
Runnable == goalIs = "active" \/ (resuming /\ goalIs = "aborted")

\* A Goal that has ended has nothing to run, and its row stays as it is.
NothingLeft ==
    /\ stage = "plan"
    /\ ~Runnable \/ (resuming /\ jobs # <<>> /\ Unfinished = {})
    /\ stage' = "idle"
    /\ UNCHANGED <<conRows, triage, resuming, copy, todo, job, made, agreed, said, passes, replies,
                   losses>>

\* runGoalTree: a Task is made for the clauses of the copy.  Its row is saved when it begins.
PlanJob ==
    /\ stage = "plan" /\ Runnable /\ (~resuming \/ jobs = <<>>)
    /\ jobs' = Append(jobs, [is |-> "active", accepts |-> copy, result |-> <<>>])
    /\ job' = Len(jobs) + 1 /\ todo' = {Len(jobs) + 1} /\ stage' = "task"
    /\ UNCHANGED <<contract, talks, goalIs, triage, resuming, copy, made, agreed, said, passes,
                   replies, losses>>

\* A resume takes the Tasks that have rows, with the clauses they were made for, unless
\* none of these is in the contract.
PlanResumed ==
    /\ stage = "plan" /\ Runnable /\ resuming /\ Unfinished # {}
    /\ jobs' = [i \in DOMAIN jobs |->
                    IF jobs[i].accepts \cap copy # {} THEN jobs[i]
                    ELSE [jobs[i] EXCEPT !.accepts = copy]]
    /\ todo' = Unfinished /\ stage' = "next"
    /\ UNCHANGED <<contract, talks, goalIs, triage, resuming, copy, job, made, agreed, said, passes,
                   replies, losses>>

StartJob(i) ==
    /\ stage = "next" /\ i \in todo
    /\ jobs' = [jobs EXCEPT ![i].is = "active"]
    /\ job' = i /\ stage' = "task"
    /\ UNCHANGED <<contract, talks, goalIs, triage, resuming, copy, todo, made, agreed, said, passes,
                   replies, losses>>

\* executeTask returns.
JobEnds(outcome) ==
    /\ stage = "task"
    /\ jobs' = [jobs EXCEPT ![job].is = outcome]
    /\ stage' = "verify"
    /\ UNCHANGED <<contract, talks, goalIs, triage, resuming, copy, todo, job, made, agreed, said, passes,
                   replies, losses>>

\* The verifier judges by the copy; its result is saved with the Task.  A failure ends the
\* run: there is no planner here.
VerifyJob ==
    /\ stage = "verify"
    /\ \E v \in Verdicts(jobs[job].accepts \cap copy, jobs[job].is = "succeeded") :
        LET passed == jobs[job].is = "succeeded" /\ \A id \in DOMAIN v : v[id] # "failed"
        IN /\ jobs' = [jobs EXCEPT ![job].result = <<[verdicts |-> v, passed |-> passed]>>]
           /\ stage' = IF passed /\ todo # {job} THEN "next" ELSE "settle"
    /\ todo' = todo \ {job}
    /\ UNCHANGED <<contract, talks, goalIs, triage, resuming, copy, job, made, agreed, said, passes,
                   replies, losses>>

\* Mutation: the copy is saved.
SettleCopy ==
    /\ stage = "settle"
    /\ goalIs' = jobs[job].is
    /\ contract' = copy
    /\ said' = [state |-> Rollup(copy, {jobs[job].result[1]}), of |-> agreed, shown |-> Shown]
    /\ stage' = "idle"
    /\ UNCHANGED <<talks, jobs, triage, resuming, copy, todo, job, made, agreed, passes, replies, losses>>

\* Mutation: the contract is evaluated as the run has read it.
SettleByCopy ==
    /\ stage = "settle"
    /\ goalIs' = jobs[job].is
    /\ said' = [state |-> Rollup(copy, {jobs[job].result[1]}), of |-> agreed, shown |-> Shown]
    /\ stage' = "idle"
    /\ UNCHANGED <<contract, talks, jobs, triage, resuming, copy, todo, job, made, agreed, passes,
                   replies, losses>>

\* The latest row gets its status, and the contract it has is evaluated by the last result.
SettleLatest ==
    /\ stage = "settle"
    /\ goalIs' = jobs[job].is
    /\ said' = [state |-> Rollup(contract, {jobs[job].result[1]}), of |-> agreed, shown |-> Shown]
    /\ stage' = "idle"
    /\ UNCHANGED <<contract, talks, jobs, triage, resuming, copy, todo, job, made, agreed, passes,
                   replies, losses>>

\* The process ends: triage is not asked again.
ProcessLost ==
    /\ losses < MaxLosses
    /\ losses' = losses + 1
    /\ stage' = "idle" /\ triage' = FALSE
    /\ UNCHANGED <<conRows, resuming, copy, todo, job, made, agreed, said, passes, replies>>

ConNext ==
    \/ \E route \in {"direct", "confirmed", "negotiate", "escalate", "fallback"} :
        \E n \in 0 .. MaxAnswers : TriageAnswers(route, n)
    \/ \E n \in 0 .. MaxAnswers : Negotiate(n)
    \/ \E again \in BOOLEAN : ReadGoal(again)
    \/ NothingLeft
    \/ PlanJob \/ PlanResumed
    \/ \E i \in todo : StartJob(i)
    \/ \E outcome \in {"succeeded", "failed", "aborted"} : JobEnds(outcome)
    \/ VerifyJob \/ SettleLatest
    \/ ProcessLost

ConSpec == ConInit /\ [][ConNext]_conVars

-------------------------------------------------------------------------------
(* Properties. *)

(* Type invariant. *)
ConTypeOK ==
    /\ contract \subseteq 1 .. made /\ agreed \subseteq 1 .. made
    /\ talks.revision \in Nat /\ talks.resolved \in BOOLEAN
    /\ goalIs \in {"active", "succeeded", "failed", "aborted"}
    /\ \A i \in DOMAIN jobs : jobs[i].is \in {"active", "succeeded", "failed", "aborted"}
    /\ triage \in BOOLEAN /\ resuming \in BOOLEAN /\ todo \subseteq DOMAIN jobs
    /\ stage \in {"idle", "plan", "next", "task", "verify", "settle"}
    /\ {made, job, passes, replies, losses} \subseteq Nat

(* Whatever triage, replies and runs do at the same time, no clause that was *)
(* agreed is lost from the contract, and every reply is counted.  A run that *)
(* saved the Goal as it had read it would lose both.                         *)
NothingAgreedIsLost == agreed \subseteq contract /\ talks.revision = replies

(* A run that says "satisfied" says it of the whole contract: each clause    *)
(* agreed by then, also while the run was going on, has passed.  And the log *)
(* says what the snapshot shows, unless a Task of a process that died has    *)
(* left a result of its own.                                                 *)
VerdictOfWholeContract ==
    /\ said.state = "satisfied" =>
        \E i \in DOMAIN jobs : jobs[i].result # <<>> /\
            \A id \in said.of : id \in DOMAIN jobs[i].result[1].verdicts
                                /\ jobs[i].result[1].verdicts[id] = "passed"
    /\ losses = 0 => said.state = said.shown

(* "Accepted only while the Goal is blocked and not answered yet; a repeated *)
(* call is idempotent": once the questions are answered no reply appends     *)
(* clauses to the contract.                                                  *)
AnswersTakenOnce ==
    [][talks.resolved /\ replies' # replies => UNCHANGED contract]_conVars
===============================================================================
