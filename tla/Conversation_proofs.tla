-------------------------- MODULE Conversation_proofs --------------------------
(***************************************************************************)
(* What is proved about the talk with persons and models: the contract of  *)
(* a Goal, for any number of answers, replies, runs and ends of the        *)
(* process, and the window that the model is asked with, for any number of *)
(* rounds, compactions and contributed messages.                           *)
(***************************************************************************)
EXTENDS GoalContract, ContextWindow, SequenceTheorems, FiniteSetTheorems,
        WellFoundedInduction, TLAPS

-------------------------------------------------------------------------------
(* The contract: the inductive invariant. *)

Status == {"active", "succeeded", "failed", "aborted"}
Verdict == [verdicts : UNION {[ids -> {"passed", "failed", "unchecked"}] : ids \in SUBSET Nat},
            passed : BOOLEAN]
Talks == [route : {"none", "direct", "confirmed", "negotiate", "escalate", "fallback"},
          revision : Nat, resolved : BOOLEAN]
Job == [is : Status, accepts : SUBSET Nat, result : Seq(Verdict)]

ConShape ==
    /\ jobs \in Seq(Job)
    /\ copy \subseteq Nat
    /\ talks \in Talks

\* No clause is lost, and a fresh one is none of those made before.
ClausesKept == agreed \subseteq contract /\ talks.revision = replies

\* A run that goes on has its Task, and is none of a Goal that has succeeded.  While no process
\* was lost there is one Task, once a run has got so far.
RunLocated ==
    /\ stage \in {"next", "task", "verify", "settle"} => goalIs # "succeeded"
    /\ stage \in {"task", "verify", "settle"} => job \in DOMAIN jobs
    /\ stage \in {"verify", "settle"} => jobs[job].is # "active"
    /\ stage = "settle" =>
        /\ jobs[job].result # <<>>
        /\ jobs[job].result[1].passed => jobs[job].is = "succeeded"
    /\ losses = 0 =>
        /\ Len(jobs) <= 1
        /\ stage \in {"idle", "plan"} /\ goalIs = "active" => jobs = <<>>
        /\ said.state = said.shown

\* A Task whose result has each of the clauses passed.
PassedAll(i, ids) ==
    /\ jobs[i].result # <<>>
    /\ \A id \in ids : id \in DOMAIN jobs[i].result[1].verdicts
                       /\ jobs[i].result[1].verdicts[id] = "passed"

\* A Goal that was said to be satisfied has succeeded, so that no run touches its Tasks again.
SaidIsFinal ==
    said.state = "satisfied" =>
        /\ goalIs = "succeeded"
        /\ \E i \in DOMAIN jobs : PassedAll(i, said.of)

ConInv == ConTypeOK /\ ConShape /\ ClausesKept /\ RunLocated /\ SaidIsFinal

-------------------------------------------------------------------------------
(* Rolling up. *)

Clean(ids, r) ==
    r.passed /\ \A id \in ids : id \in DOMAIN r.verdicts /\ r.verdicts[id] = "passed"

\* What is satisfied by one result has passed in it, clause by clause, and no step failed.
LEMMA SatisfiedByOne ==
    \A ids, r : Rollup(ids, {r}) = "satisfied" => Clean(ids, r)
<1> SUFFICES ASSUME NEW ids, NEW r, Rollup(ids, {r}) = "satisfied"
             PROVE  Clean(ids, r)
  OBVIOUS
<1> DEFINE verdicts == {Merged(id, {r}) : id \in ids}
<1>1. r.passed /\ verdicts = {"passed"}
  BY DEF Rollup
<1>2. ASSUME NEW id \in ids PROVE id \in DOMAIN r.verdicts /\ r.verdicts[id] = "passed"
  <2> DEFINE found == {q.verdicts[id] : q \in {p \in {r} : id \in DOMAIN p.verdicts}}
  <2>1. Merged(id, {r}) = "passed"
    BY <1>1
  <2>2. "passed" \in found
    BY <2>1 DEF Merged
  <2> QED BY <2>2
<1> QED BY <1>1, <1>2 DEF Clean

\* Of a Goal with a single Task the snapshot shows what its result says.
LEMMA ShownByOne ==
    ASSUME jobs \in Seq(Job), job \in DOMAIN jobs, Len(jobs) <= 1, jobs[job].result # <<>>
    PROVE  Shown = Rollup(contract, {jobs[job].result[1]})
<1>1. DOMAIN jobs = {job}
  OBVIOUS
<1>2. Range(jobs) = {jobs[job]}
  BY <1>1 DEF Range
<1>3. Results = {jobs[job].result}
  BY <1>2 DEF Results
<1>4. {r[1] : r \in Results} = {jobs[job].result[1]}
  BY <1>3
<1> QED BY <1>4 DEF Shown

-------------------------------------------------------------------------------
(* Initial states. *)

LEMMA ConInitInv == ConInit => ConInv
<1> SUFFICES ASSUME ConInit PROVE ConInv
  OBVIOUS
<1>1. made = 2
  <2>1. Baseline = 1 .. 2
    BY DEF Baseline, FinalAnswer, NoFailedSteps
  <2>2. Cardinality(1 .. 2) = 2
    <3>1. Cardinality(1 .. 2) = IF 1 > 2 THEN 0 ELSE 2 - 1 + 1
      BY FS_Interval, 1 \in Int, 2 \in Int, Zenon
    <3> QED BY <3>1
  <2> QED BY <2>1, <2>2 DEF ConInit
<1>2. contract = {1, 2} /\ agreed = {1, 2}
  BY DEF ConInit, Baseline, FinalAnswer, NoFailedSteps
<1>3. ConTypeOK
  <2>1. contract \subseteq 1 .. made /\ agreed \subseteq 1 .. made /\ made \in Nat
    BY <1>1, <1>2
  <2>2. talks.revision = 0 /\ talks.resolved = FALSE
    BY DEF ConInit, Unasked
  <2>3. /\ goalIs = "active" /\ stage = "idle" /\ jobs = <<>> /\ todo = {}
        /\ job = 0 /\ passes = 0 /\ replies = 0 /\ losses = 0
        /\ triage = TRUE /\ resuming = FALSE
    BY DEF ConInit
  <2>4. \A i \in DOMAIN jobs : FALSE
    BY <2>3
  <2>5. {made, job, passes, replies, losses} \subseteq Nat
    BY <2>1, <2>3
  <2>6. todo \subseteq DOMAIN jobs
    BY <2>3
  <2> QED BY <2>1, <2>2, <2>3, <2>4, <2>5, <2>6 DEF ConTypeOK
<1>4. ConShape /\ ClausesKept /\ RunLocated /\ SaidIsFinal
  BY <1>2 DEF ConInit, ConShape, Talks, ClausesKept, RunLocated, SaidIsFinal, Unasked, Unsaid
<1> QED BY <1>3, <1>4 DEF ConInv

-------------------------------------------------------------------------------
(* Rows of Tasks. *)

LEMMA RowReplaced ==
    ASSUME NEW list \in Seq(Job), NEW i \in DOMAIN list, NEW row \in Job
    PROVE  /\ [list EXCEPT ![i] = row] \in Seq(Job)
           /\ DOMAIN [list EXCEPT ![i] = row] = DOMAIN list
           /\ Len([list EXCEPT ![i] = row]) = Len(list)
  OBVIOUS

LEMMA StatusReplaced ==
    ASSUME NEW row \in Job, NEW is \in Status PROVE [row EXCEPT !.is = is] \in Job
  BY DEF Job

LEMMA ResultReplaced ==
    ASSUME NEW row \in Job, NEW r \in Verdict PROVE [row EXCEPT !.result = <<r>>] \in Job
<1>1. <<r>> \in Seq(Verdict)
  OBVIOUS
<1> QED BY <1>1 DEF Job

-------------------------------------------------------------------------------
(* Steps. *)

\* What a step that leaves the Tasks alone has to keep.
LEMMA TypesBesideJobs ==
    ASSUME ConTypeOK, UNCHANGED <<goalIs, jobs, todo>>,
           contract' \subseteq 1 .. made', agreed' \subseteq 1 .. made',
           talks'.revision \in Nat, talks'.resolved \in BOOLEAN, triage' \in BOOLEAN,
           resuming' \in BOOLEAN,
           stage' \in {"idle", "plan", "next", "task", "verify", "settle"},
           made' \in Nat, job' \in Nat, passes' \in Nat, replies' \in Nat, losses' \in Nat
    PROVE  ConTypeOK'
  BY DEF ConTypeOK

LEMMA ConTypeStep ==
    ConTypeOK /\ ConShape /\ RunLocated /\ [ConNext]_conVars => ConTypeOK'
<1> SUFFICES ASSUME ConTypeOK, ConShape, RunLocated, [ConNext]_conVars PROVE ConTypeOK'
  OBVIOUS
<1> USE ContractAssumption DEF ConTypeOK, ConShape
<1>0. /\ contract \subseteq 1 .. made /\ agreed \subseteq 1 .. made
      /\ talks.revision \in Nat /\ talks.resolved \in BOOLEAN
      /\ triage \in BOOLEAN /\ resuming \in BOOLEAN
      /\ stage \in {"idle", "plan", "next", "task", "verify", "settle"}
      /\ made \in Nat /\ job \in Nat /\ passes \in Nat /\ replies \in Nat /\ losses \in Nat
  OBVIOUS
<1>1. ASSUME NEW n \in 0 .. MaxAnswers, Agree(n)
      PROVE  contract' \subseteq 1 .. made' /\ agreed' \subseteq 1 .. made' /\ made' \in Nat
  <2>1. made \in Nat /\ n \in Nat
    OBVIOUS
  <2>2. 1 .. made \subseteq 1 .. made + n /\ made + 1 .. made + n \subseteq 1 .. made + n
    BY <2>1
  <2>3. /\ contract' = contract \cup (made + 1 .. made + n)
        /\ agreed' = agreed \cup (made + 1 .. made + n)
        /\ made' = made + n
    BY <1>1 DEF Agree, Fresh
  <2>4. contract \subseteq 1 .. made /\ agreed \subseteq 1 .. made
    OBVIOUS
  <2>5. contract' \subseteq 1 .. made + n /\ agreed' \subseteq 1 .. made + n
    BY <2>2, <2>3, <2>4, Zenon
  <2>6. made + n \in Nat
    BY <2>1
  <2> QED BY <2>3, <2>5, <2>6, Zenon
<1>2. ASSUME NEW route \in {"direct", "confirmed", "negotiate", "escalate", "fallback"},
             NEW n \in 0 .. MaxAnswers, TriageAnswers(route, n)
      PROVE  ConTypeOK'
  <2>1. /\ triage' \in BOOLEAN
        /\ talks'.revision \in Nat /\ talks'.resolved \in BOOLEAN
    BY <1>2 DEF TriageAnswers
  <2>2. /\ Agree(n)
        /\ UNCHANGED <<goalIs, jobs, stage, resuming, todo, job, passes, replies, losses>>
    BY <1>2 DEF TriageAnswers, conRun
  <2>3. /\ contract' \subseteq 1 .. made' /\ agreed' \subseteq 1 .. made' /\ made' \in Nat
    BY <1>1, <2>2
  <2> QED BY <1>0, <2>1, <2>2, <2>3
<1>3. ASSUME NEW n \in 0 .. MaxAnswers, Negotiate(n) PROVE ConTypeOK'
  <2>1. talks' = [talks EXCEPT !.revision = @ + 1, !.resolved = TRUE]
    BY <1>3 DEF Negotiate
  <2>2. talks'.revision \in Nat /\ talks'.resolved \in BOOLEAN
    BY <2>1 DEF Talks
  <2>3. replies' = replies + 1 /\ goalIs' = goalIs /\ Agree(n)
    BY <1>0, <1>3 DEF Negotiate
  <2>4. UNCHANGED <<jobs, triage, stage, resuming, todo, job, passes, losses>>
    BY <1>3 DEF Negotiate, conRun
  <2> QED BY <1>0, <1>1, <2>2, <2>3, <2>4, TypesBesideJobs
<1>4. ASSUME NEW again \in BOOLEAN, ReadGoal(again) PROVE ConTypeOK'
  <2>1. /\ stage' = "plan" /\ resuming' = again /\ passes' = passes + 1
        /\ UNCHANGED <<contract, talks, goalIs, jobs, triage, todo, job, made, agreed, replies, losses>>
    BY <1>4 DEF ReadGoal, conRows
  <2> QED BY <1>0, <2>1, TypesBesideJobs
<1>5. ASSUME NothingLeft PROVE ConTypeOK'
  BY <1>5 DEF NothingLeft, conRows
<1>6. ASSUME PlanJob PROVE ConTypeOK'
  <2>1. /\ DOMAIN jobs' = 1 .. Len(jobs) + 1 /\ Len(jobs) \in Nat
        /\ jobs'[Len(jobs) + 1].is = "active"
        /\ \A i \in DOMAIN jobs : jobs'[i] = jobs[i]
    BY <1>6 DEF PlanJob
  <2>2. \A i \in DOMAIN jobs' : jobs'[i].is \in Status
    <3>1. \A i \in DOMAIN jobs : jobs[i].is \in Status
      BY DEF Status
    <3>2. \A i \in DOMAIN jobs' : i \in DOMAIN jobs \/ i = Len(jobs) + 1
      BY <2>1
    <3> QED BY <2>1, <3>1, <3>2 DEF Status
  <2>3. todo' \subseteq DOMAIN jobs' /\ job' \in Nat /\ stage' = "task"
    BY <1>6, <2>1 DEF PlanJob
  <2>4. UNCHANGED <<contract, talks, goalIs, triage, resuming, made, agreed, passes, replies, losses>>
    BY <1>6 DEF PlanJob
  <2> QED BY <1>0, <2>2, <2>3, <2>4 DEF Status
<1>7. ASSUME PlanResumed PROVE ConTypeOK'
  BY <1>7 DEF PlanResumed, Unfinished
<1>8. ASSUME NEW i \in todo, StartJob(i) PROVE ConTypeOK'
  BY <1>8 DEF StartJob
<1>9. ASSUME NEW outcome \in {"succeeded", "failed", "aborted"}, JobEnds(outcome)
      PROVE  ConTypeOK'
  BY <1>9 DEF JobEnds
<1>10. ASSUME VerifyJob PROVE ConTypeOK'
  <2>0. PICK v \in Verdicts(jobs[job].accepts \cap copy, jobs[job].is = "succeeded") :
            \E p \in BOOLEAN :
                /\ jobs' = [jobs EXCEPT ![job].result = <<[verdicts |-> v, passed |-> p]>>]
                /\ stage' \in {"next", "settle"}
    BY <1>10 DEF VerifyJob
  <2>1. PICK p \in BOOLEAN :
            /\ jobs' = [jobs EXCEPT ![job].result = <<[verdicts |-> v, passed |-> p]>>]
            /\ stage' \in {"next", "settle"}
    BY <2>0
  <2>2. /\ DOMAIN jobs' = DOMAIN jobs
        /\ \A i \in DOMAIN jobs : jobs'[i].is = jobs[i].is
    <3>1. \A i \in DOMAIN jobs : jobs[i] \in Job
      OBVIOUS
    <3> QED BY <2>1, <3>1 DEF Job
  <2> QED BY <1>10, <2>1, <2>2 DEF VerifyJob
<1>11. ASSUME SettleLatest PROVE ConTypeOK'
  BY <1>11 DEF SettleLatest, RunLocated
<1>12. ASSUME ProcessLost PROVE ConTypeOK'
  <2>1. losses' \in Nat
    BY <1>12 DEF ProcessLost
  <2> QED BY <1>12, <2>1 DEF ProcessLost, conRows
<1>13. ASSUME UNCHANGED conVars PROVE ConTypeOK'
  BY <1>13 DEF conVars, conRows, conRun
<1> QED
  BY <1>2, <1>3, <1>4, <1>5, <1>6, <1>7, <1>8, <1>9, <1>10, <1>11, <1>12, <1>13 DEF ConNext

LEMMA ConShapeStep ==
    ConTypeOK /\ ConShape /\ RunLocated /\ [ConNext]_conVars => ConShape'
<1> SUFFICES ASSUME ConTypeOK, ConShape, RunLocated, [ConNext]_conVars PROVE ConShape'
  OBVIOUS
<1> USE DEF ConTypeOK, ConShape
<1>1. ASSUME NEW again \in BOOLEAN, ReadGoal(again) PROVE ConShape'
  BY <1>1 DEF ReadGoal, conRows
<1>2. ASSUME PlanJob PROVE ConShape'
  <2>1. [is |-> "active", accepts |-> copy, result |-> <<>>] \in Job
    BY DEF Job, Status
  <2> QED BY <1>2, <2>1 DEF PlanJob
<1>3. ASSUME PlanResumed PROVE ConShape'
  <2>1. ASSUME NEW i \in DOMAIN jobs
        PROVE  jobs[i] \in Job /\ [jobs[i] EXCEPT !.accepts = copy] \in Job
    <3>1. jobs[i] \in Job
      OBVIOUS
    <3> QED BY <3>1 DEF Job
  <2>2. DOMAIN jobs = 1 .. Len(jobs) /\ Len(jobs) \in Nat
    OBVIOUS
  <2>3. jobs' \in [1 .. Len(jobs) -> Job]
    BY <1>3, <2>1, <2>2 DEF PlanResumed
  <2> QED BY <1>3, <2>2, <2>3 DEF PlanResumed
<1>4. ASSUME NEW i \in todo, StartJob(i) PROVE ConShape'
  <2>1. jobs[i] \in Job /\ i \in DOMAIN jobs /\ "active" \in Status
    BY DEF Status
  <2>2. [jobs[i] EXCEPT !.is = "active"] \in Job
    BY <2>1, StatusReplaced
  <2> QED BY <1>4, <2>1, <2>2, RowReplaced DEF StartJob
<1>5. ASSUME NEW outcome \in {"succeeded", "failed", "aborted"}, JobEnds(outcome)
      PROVE  ConShape'
  <2>1. job \in DOMAIN jobs /\ outcome \in Status
    BY <1>5 DEF JobEnds, RunLocated, Status
  <2>2. [jobs[job] EXCEPT !.is = outcome] \in Job
    BY <2>1, StatusReplaced
  <2> QED BY <1>5, <2>1, <2>2, RowReplaced DEF JobEnds
<1>6. ASSUME VerifyJob PROVE ConShape'
  <2>1. job \in DOMAIN jobs /\ jobs[job] \in Job
    BY <1>6 DEF VerifyJob, RunLocated
  <2>2. PICK v \in Verdicts(jobs[job].accepts \cap copy, jobs[job].is = "succeeded") :
            \E p \in BOOLEAN :
                jobs' = [jobs EXCEPT ![job].result = <<[verdicts |-> v, passed |-> p]>>]
    BY <1>6 DEF VerifyJob
  <2>3. PICK p \in BOOLEAN :
            jobs' = [jobs EXCEPT ![job].result = <<[verdicts |-> v, passed |-> p]>>]
    BY <2>2
  <2>4. v \in [jobs[job].accepts \cap copy -> {"passed", "failed", "unchecked"}]
        /\ jobs[job].accepts \cap copy \in SUBSET Nat
    BY <2>1 DEF Verdicts, Job
  <2>5. [verdicts |-> v, passed |-> p] \in Verdict
    BY <2>4 DEF Verdict
  <2>6. [jobs[job] EXCEPT !.result = <<[verdicts |-> v, passed |-> p]>>] \in Job
    BY <2>1, <2>5, ResultReplaced
  <2> QED BY <1>6, <2>1, <2>3, <2>6, RowReplaced DEF VerifyJob
<1>7. ASSUME UNCHANGED <<jobs, copy, talks>> PROVE ConShape'
  BY <1>7
<1>8. ASSUME NEW route \in {"direct", "confirmed", "negotiate", "escalate", "fallback"},
             NEW n \in 0 .. MaxAnswers, TriageAnswers(route, n)
      PROVE  ConShape'
  <2>1. talks' \in Talks
    BY <1>8 DEF TriageAnswers, Talks
  <2> QED BY <1>8, <2>1 DEF TriageAnswers, conRun
<1>9. ASSUME NEW n \in 0 .. MaxAnswers, Negotiate(n) PROVE ConShape'
  <2>1. talks' = [talks EXCEPT !.revision = talks.revision + 1, !.resolved = TRUE]
    BY <1>9 DEF Negotiate
  <2>2. talks' \in Talks
    <3>1. talks \in Talks /\ talks.revision + 1 \in Nat
      BY DEF Talks
    <3>2. talks' = [route |-> talks.route, revision |-> talks.revision + 1, resolved |-> TRUE]
      BY <2>1, <3>1 DEF Talks
    <3> QED BY <3>1, <3>2 DEF Talks
  <2> QED BY <1>9, <2>2 DEF Negotiate, conRun
<1> QED
  BY <1>1, <1>2, <1>3, <1>4, <1>5, <1>6, <1>7, <1>8, <1>9
  DEF ConNext, conVars, conRows, conRun, TriageAnswers, Negotiate, NothingLeft, SettleLatest,
      ProcessLost

LEMMA ClausesStep ==
    ConTypeOK /\ ConShape /\ ClausesKept /\ [ConNext]_conVars => ClausesKept'
<1> SUFFICES ASSUME ConTypeOK, ConShape, ClausesKept, [ConNext]_conVars PROVE ClausesKept'
  OBVIOUS
<1> USE DEF ConTypeOK, ClausesKept
<1>1. ASSUME NEW n \in 0 .. MaxAnswers, Negotiate(n) PROVE ClausesKept'
  <2>1. talks'.revision = talks.revision + 1
    BY <1>1 DEF Negotiate, ConShape, Talks
  <2> QED BY <1>1, <2>1 DEF Negotiate, Agree
<1>2. ASSUME NEW route \in {"direct", "confirmed", "negotiate", "escalate", "fallback"},
             NEW n \in 0 .. MaxAnswers, TriageAnswers(route, n)
      PROVE  ClausesKept'
  BY <1>2 DEF TriageAnswers, Agree, Unasked
<1>3. ASSUME UNCHANGED <<contract, agreed, talks, replies>> PROVE ClausesKept'
  BY <1>3
<1> QED
  BY <1>1, <1>2, <1>3
  DEF ConNext, conVars, conRows, conRun, ReadGoal, NothingLeft, PlanJob, PlanResumed, StartJob,
      JobEnds, VerifyJob, SettleLatest, ProcessLost

LEMMA LocatedStep == ConInv /\ [ConNext]_conVars => RunLocated'
<1> SUFFICES ASSUME ConInv, [ConNext]_conVars PROVE RunLocated'
  OBVIOUS
<1>1. ConTypeOK /\ ConShape /\ RunLocated
  BY DEF ConInv
<1> USE <1>1 DEF ConTypeOK, ConShape, RunLocated
<1>2. ASSUME NEW route \in {"direct", "confirmed", "negotiate", "escalate", "fallback"},
             NEW n \in 0 .. MaxAnswers, TriageAnswers(route, n)
      PROVE  RunLocated'
  BY <1>2 DEF TriageAnswers, conRun
<1>3. ASSUME NEW n \in 0 .. MaxAnswers, Negotiate(n) PROVE RunLocated'
  <2>1. goalIs' = goalIs
    BY <1>3 DEF Negotiate
  <2> QED BY <1>3, <2>1 DEF Negotiate, conRun
<1>4. ASSUME NEW again \in BOOLEAN, ReadGoal(again) PROVE RunLocated'
  BY <1>4 DEF ReadGoal, conRows
<1>5. ASSUME NothingLeft PROVE RunLocated'
  BY <1>5 DEF NothingLeft, conRows
<1>6. ASSUME PlanJob PROVE RunLocated'
  <2>1. /\ DOMAIN jobs' = 1 .. Len(jobs) + 1 /\ Len(jobs') = Len(jobs) + 1
        /\ Len(jobs) \in Nat
    BY <1>6 DEF PlanJob
  <2>2. losses = 0 => jobs = <<>>
    BY <1>6 DEF PlanJob, Runnable
  <2>3. goalIs # "succeeded"
    BY <1>6 DEF PlanJob, Runnable
  <2> QED BY <1>6, <2>1, <2>2, <2>3 DEF PlanJob
<1>7. ASSUME PlanResumed PROVE RunLocated'
  <2>1. goalIs # "succeeded"
    BY <1>7 DEF PlanResumed, Runnable
  <2>2. jobs' \in Seq(Job) /\ DOMAIN jobs' = DOMAIN jobs
    BY <1>7, ConShapeStep DEF PlanResumed
  <2>3. Len(jobs') = Len(jobs)
    BY <2>2
  <2> QED BY <1>7, <2>1, <2>3 DEF PlanResumed
<1>8. ASSUME NEW i \in todo, StartJob(i) PROVE RunLocated'
  <2>1. DOMAIN jobs' = DOMAIN jobs /\ Len(jobs') = Len(jobs)
    BY <1>8 DEF StartJob
  <2> QED BY <1>8, <2>1 DEF StartJob
<1>9. ASSUME NEW outcome \in {"succeeded", "failed", "aborted"}, JobEnds(outcome)
      PROVE  RunLocated'
  <2>1. DOMAIN jobs' = DOMAIN jobs /\ Len(jobs') = Len(jobs) /\ job \in DOMAIN jobs
    BY <1>9 DEF JobEnds
  <2>2. jobs[job] \in Job /\ jobs'[job] = [jobs[job] EXCEPT !.is = outcome]
    BY <1>9, <2>1 DEF JobEnds
  <2>3. jobs'[job].is = outcome
    BY <2>2 DEF Job
  <2> QED BY <1>9, <2>1, <2>3 DEF JobEnds
<1>10. ASSUME VerifyJob PROVE RunLocated'
  <2>1. /\ DOMAIN jobs' = DOMAIN jobs /\ Len(jobs') = Len(jobs)
        /\ job \in DOMAIN jobs /\ jobs[job] \in Job
    BY <1>10 DEF VerifyJob
  <2>2. PICK v \in Verdicts(jobs[job].accepts \cap copy, jobs[job].is = "succeeded") :
            \E p \in BOOLEAN :
                /\ jobs' = [jobs EXCEPT ![job].result = <<[verdicts |-> v, passed |-> p]>>]
                /\ p => jobs[job].is = "succeeded"
    BY <1>10 DEF VerifyJob
  <2>5. PICK p \in BOOLEAN :
            /\ jobs' = [jobs EXCEPT ![job].result = <<[verdicts |-> v, passed |-> p]>>]
            /\ p => jobs[job].is = "succeeded"
    BY <2>2
  <2>3. jobs'[job] = [jobs[job] EXCEPT !.result = <<[verdicts |-> v, passed |-> p]>>]
    BY <2>1, <2>5
  <2>4. /\ jobs'[job].is = jobs[job].is
        /\ jobs'[job].result = <<[verdicts |-> v, passed |-> p]>>
    BY <2>1, <2>3 DEF Job
  <2>6. /\ jobs'[job].is = jobs[job].is /\ jobs'[job].result # <<>>
        /\ jobs'[job].result[1].passed => jobs[job].is = "succeeded"
    BY <2>4, <2>5
  <2>7. /\ stage = "verify" /\ stage' \in {"next", "settle"}
        /\ job' = job /\ goalIs' = goalIs /\ said' = said /\ losses' = losses
    BY <1>10 DEF VerifyJob
  <2> QED BY <2>1, <2>6, <2>7
<1>11. ASSUME SettleLatest PROVE RunLocated'
  <2>1. losses = 0 => said'.state = said'.shown
    BY <1>11, ShownByOne DEF SettleLatest
  <2> QED BY <1>11, <2>1 DEF SettleLatest
<1>12. ASSUME ProcessLost PROVE RunLocated'
  BY <1>12 DEF ProcessLost, conRows
<1>13. ASSUME UNCHANGED conVars PROVE RunLocated'
  BY <1>13 DEF conVars, conRows, conRun
<1> QED
  BY <1>2, <1>3, <1>4, <1>5, <1>6, <1>7, <1>8, <1>9, <1>10, <1>11, <1>12, <1>13 DEF ConNext

LEMMA SaidStep == ConInv /\ [ConNext]_conVars => SaidIsFinal'
<1> SUFFICES ASSUME ConInv, [ConNext]_conVars PROVE SaidIsFinal'
  OBVIOUS
<1>1. ConTypeOK /\ ConShape /\ RunLocated /\ ClausesKept /\ SaidIsFinal
  BY DEF ConInv
<1>2. ASSUME SettleLatest PROVE SaidIsFinal'
  <2> SUFFICES ASSUME said'.state = "satisfied"
               PROVE  goalIs' = "succeeded" /\ PassedAll(job, agreed) /\ job \in DOMAIN jobs
    BY <1>2 DEF SaidIsFinal, SettleLatest, PassedAll
  <2>1. PICK r : r = jobs[job].result[1]
    OBVIOUS
  <2>2. Rollup(contract, {r}) = "satisfied"
    BY <1>2, <2>1 DEF SettleLatest
  <2>3. Clean(contract, r)
    BY <2>2, SatisfiedByOne
  <2>4. jobs[job].result # <<>> /\ jobs[job].is = "succeeded" /\ job \in DOMAIN jobs
    BY <1>1, <1>2, <2>1, <2>3 DEF SettleLatest, RunLocated, Clean
  <2> QED BY <1>1, <1>2, <2>1, <2>3, <2>4 DEF SettleLatest, PassedAll, ClausesKept, Clean
<1>3. ASSUME UNCHANGED <<said, goalIs, jobs>> PROVE SaidIsFinal'
  BY <1>1, <1>3 DEF SaidIsFinal, PassedAll
<1>4. ASSUME UNCHANGED <<said, goalIs>>, goalIs # "succeeded" PROVE SaidIsFinal'
  BY <1>1, <1>4 DEF SaidIsFinal
<1>5. ASSUME NEW n \in 0 .. MaxAnswers, Negotiate(n) PROVE SaidIsFinal'
  <2>1. goalIs' = goalIs
    BY <1>1, <1>5 DEF Negotiate, ConTypeOK
  <2> QED BY <1>3, <1>5, <2>1 DEF Negotiate
<1>6. ASSUME NEW route \in {"direct", "confirmed", "negotiate", "escalate", "fallback"},
             NEW n \in 0 .. MaxAnswers, TriageAnswers(route, n)
      PROVE  SaidIsFinal'
  BY <1>3, <1>6 DEF TriageAnswers
<1>7. ASSUME \/ \E again \in BOOLEAN : ReadGoal(again)
             \/ NothingLeft \/ ProcessLost \/ UNCHANGED conVars
      PROVE  SaidIsFinal'
  BY <1>3, <1>7 DEF ReadGoal, NothingLeft, ProcessLost, conVars, conRows
<1>8. ASSUME PlanJob \/ PlanResumed PROVE SaidIsFinal'
  BY <1>4, <1>8 DEF PlanJob, PlanResumed, Runnable
<1>9. ASSUME \/ \E i \in todo : StartJob(i)
             \/ \E outcome \in {"succeeded", "failed", "aborted"} : JobEnds(outcome)
             \/ VerifyJob
      PROVE  SaidIsFinal'
  BY <1>1, <1>4, <1>9 DEF StartJob, JobEnds, VerifyJob, RunLocated
<1> QED BY <1>2, <1>5, <1>6, <1>7, <1>8, <1>9 DEF ConNext

LEMMA ConInvStep == ConInv /\ [ConNext]_conVars => ConInv'
  BY ConTypeStep, ConShapeStep, ClausesStep, LocatedStep, SaidStep DEF ConInv

-------------------------------------------------------------------------------
(* Theorems. *)

LEMMA ConInvariant == ConSpec => []ConInv
  BY ConInitInv, ConInvStep, PTL DEF ConSpec

(* The type invariant of the contract, for any number of answers and runs. *)
THEOREM ContractTypes == ConSpec => []ConTypeOK
<1>1. ConInv => ConTypeOK
  BY DEF ConInv
<1> QED BY <1>1, ConInvariant, PTL

(* Whatever triage, a person and runs do at the same time, applyIntentTriage, *)
(* negotiateGoal and the settlement of a run lose no clause that was agreed,  *)
(* and no reply.  For any number of them.                                     *)
THEOREM ClausesAreKept == ConSpec => []NothingAgreedIsLost
<1>1. ConInv => NothingAgreedIsLost
  BY DEF ConInv, ClausesKept, NothingAgreedIsLost
<1> QED BY <1>1, ConInvariant, PTL

(* goal.contract-evaluated says "satisfied" of the whole contract as it is at *)
(* that time, and what the snapshot says, for any number of runs, replies and *)
(* ends of the process.                                                       *)
THEOREM SatisfiedIsWhole == ConSpec => []VerdictOfWholeContract
<1>1. ConInv => VerdictOfWholeContract
  BY DEF ConInv, SaidIsFinal, PassedAll, RunLocated, VerdictOfWholeContract
<1> QED BY <1>1, ConInvariant, PTL

-------------------------------------------------------------------------------
(* The context window: the inductive invariant. *)

Message == [role : {"user", "calls", "results", "text"}, turn : Nat]

WinShape ==
    /\ step \in {"replay", "complete", "ask", "answer", "over"}
    /\ notes \in Nat /\ tooLarge \in BOOLEAN /\ cutNow \in BOOLEAN
    /\ appended \in Seq(Message)
    /\ measured \in Seq(Nat)
    /\ measured # <<>> => measured[1] \in Nat /\ measured[1] >= Contributed

\* A prefix is sent under the number that follows that of the notes in it.
EpochOfNotes ==
    /\ prefixEpoch = notes + 1
    /\ hashed \in {<<>>, <<notes>>}
    /\ \A p \in prefixes : p \in Nat \X Nat /\ p[1] = p[2] + 1

\* Without a compaction, what was appended stands behind what was counted.
Counted ==
    /\ ~cutNow =>
        /\ Len(dynamic) + Contributed = NewFrom + Len(appended)
        /\ \A i \in 1 .. Len(appended) : dynamic[NewFrom - Contributed + i] = appended[i]
    /\ ~reported.cut => reported.said = reported.was

\* The shape of a transcript, and that calls have their results; of an open one all but the last.
Ordered(d) ==
    /\ d # <<>> /\ d[1] = Statement
    /\ \A i \in 2 .. Len(d) :
        /\ d[i].role = "results" => d[i - 1] = Calls(d[i].turn)
        /\ d[i].turn >= d[i - 1].turn

Answered(d, open) ==
    \A i \in 2 .. Len(d) :
        d[i].role = "calls" =>
            \/ i < Len(d) /\ d[i + 1] = Observations(d[i].turn)
            \/ open /\ i = Len(d)

\* The rounds up to the last one, and those with calls, in order.
TurnsInOrder(d, tools, last) ==
    /\ \A m \in Range(d) : m.turn <= last
    /\ \A m \in Range(d) : m.role = "calls" => m.turn \in Range(tools)
    /\ \A k \in DOMAIN tools : tools[k] <= last
    /\ \A j, k \in DOMAIN tools : j < k => tools[j] < tools[k]

\* What is never taken out.
Retained(d, tools, last) ==
    /\ \A n \in 1 .. last : n \notin Range(tools) => Text(n) \in Range(d)
    /\ \A k \in DOMAIN tools : k > Len(tools) - KeepRounds => Calls(tools[k]) \in Range(d)

Whole(d, tools, last, open) ==
    /\ d \in Seq(Message) /\ tools \in Seq(Nat) /\ last \in Nat
    /\ Ordered(d) /\ Answered(d, open)
    /\ TurnsInOrder(d, tools, last)
    /\ Retained(d, tools, last)

WinInv ==
    /\ WinShape /\ EpochOfNotes /\ Counted
    /\ Whole(dynamic, toolTurns, turns, step \in {"complete", "over"})
    /\ step = "complete" => dynamic[Len(dynamic)] = Calls(turns)

-------------------------------------------------------------------------------
(* Taking messages out. *)

\* A set of numbers has a least one: what holds of none of the smaller ones can be assumed.
LEMMA LeastNumber ==
    ASSUME NEW S \in SUBSET Nat, S # {}
    PROVE  \E n \in S : \A m \in S : n <= m
<1>1. PICK n \in S : \A m \in S : ~(<<m, n>> \in OpToRel(<, Nat))
  BY NatLessThanWellFounded, WFMin
<1>2. ASSUME NEW m \in S, m < n PROVE FALSE
  <2>1. <<m, n>> \in Nat \X Nat
    OBVIOUS
  <2>2. <<m, n>> \in OpToRel(<, Nat)
    BY <1>2, <2>1, Zenon DEF OpToRel
  <2> QED BY <1>1, <2>2
<1>3. \A m \in S : m \in Nat /\ n \in Nat
  OBVIOUS
<1> QED BY <1>2, <1>3

\* The recursive function of Without exists, on every prefix of the window.
Filters(f, window, gone, last) ==
    f = [i \in 0 .. last |->
            IF i = 0 THEN <<>>
            ELSE IF window[i] \in gone THEN f[i - 1] ELSE Append(f[i - 1], window[i])]

LEMMA WithoutExists ==
    ASSUME NEW window, NEW gone, NEW last \in Nat
    PROVE  \E f : Filters(f, window, gone, last)
<1> DEFINE At(f, i) == IF i = 0 THEN <<>>
                       ELSE IF window[i] \in gone THEN f[i - 1] ELSE Append(f[i - 1], window[i])
           Upto(m) == \E f : f = [i \in 0 .. m |-> At(f, i)]
           Bad == {m \in Nat : ~Upto(m)}
<1>1. Bad = {}
  <2> SUFFICES ASSUME Bad # {} PROVE FALSE
    OBVIOUS
  <2>1. PICK m \in Bad : \A k \in Bad : m <= k
    <3> HIDE DEF Bad
    <3>1. Bad \in SUBSET Nat
      BY DEF Bad
    <3> QED BY <3>1, LeastNumber
  <2>2. m \in Nat /\ ~Upto(m)
    BY DEF Bad
  <2>3. CASE m = 0
    <3> DEFINE g == [i \in 0 .. 0 |-> <<>>]
    <3>1. g = [i \in 0 .. 0 |-> At(g, i)]
      OBVIOUS
    <3> QED BY <2>2, <2>3, <3>1
  <2>4. CASE m # 0
    <3>1. m - 1 \in Nat /\ ~(m <= m - 1)
      BY <2>2, <2>4
    <3>2. Upto(m - 1)
      <4> HIDE DEF Upto
      <4> QED BY <2>1, <3>1 DEF Bad
    <3>3. PICK g : g = [i \in 0 .. m - 1 |-> At(g, i)]
      BY <3>2
    <3> DEFINE h == [i \in 0 .. m |-> IF i = m THEN At(g, m) ELSE g[i]]
    <3>4. ASSUME NEW i \in 0 .. m PROVE h[i] = At(h, i)
      <4>1. CASE i = m
        <5>1. m - 1 \in 0 .. m /\ m - 1 # m
          BY <2>2, <3>1
        <5>2. h[i - 1] = g[i - 1] /\ h[i] = At(g, i)
          BY <4>1, <5>1
        <5> QED BY <5>2
      <4>2. CASE i # m
        <5>1. i \in 0 .. m - 1
          BY <2>2, <4>2
        <5>2. h[i] = g[i] /\ g[i] = At(g, i)
          BY <3>3, <4>2, <5>1
        <5>3. i # 0 => i - 1 \in 0 .. m /\ i - 1 # m
          BY <2>2, <5>1
        <5>4. i # 0 => h[i - 1] = g[i - 1]
          BY <5>3
        <5> HIDE DEF h
        <5> QED BY <5>2, <5>4
      <4> QED BY <4>1, <4>2
    <3>5. h = [i \in 0 .. m |-> At(h, i)]
      <4>1. h = [i \in 0 .. m |-> h[i]]
        OBVIOUS
      <4> HIDE DEF h, At
      <4> QED BY <3>4, <4>1
    <3> QED BY <2>2, <3>5
  <2> QED BY <2>3, <2>4
<1>2. Upto(last)
  <2> HIDE DEF Upto
  <2> QED BY <1>1
<1> QED BY <1>2 DEF Filters

LEMMA WithoutStepwise ==
    ASSUME NEW window \in Seq(Message), NEW gone
    PROVE  \E f : /\ Without(window, gone) = f[Len(window)]
                  /\ f[0] = <<>>
                  /\ \A i \in 1 .. Len(window) :
                        f[i] = IF window[i] \in gone THEN f[i - 1] ELSE Append(f[i - 1], window[i])
<1> DEFINE Is(f) == Filters(f, window, gone, Len(window))
           g == CHOOSE f : Is(f)
<1>1. Len(window) \in Nat
  OBVIOUS
<1>2. \E f : Is(f)
  BY <1>1, WithoutExists
<1>3. Is(g)
  <2> HIDE DEF Is
  <2> QED BY <1>2
<1>4. Without(window, gone) = g[Len(window)]
  BY DEF Without, Filters
<1>5. g[0] = <<>>
  <2> HIDE DEF g
  <2> QED BY <1>1, <1>3 DEF Filters
<1>6. \A i \in 1 .. Len(window) :
        g[i] = IF window[i] \in gone THEN g[i - 1] ELSE Append(g[i - 1], window[i])
  <2> SUFFICES ASSUME NEW i \in 1 .. Len(window)
               PROVE  g[i] = IF window[i] \in gone THEN g[i - 1] ELSE Append(g[i - 1], window[i])
    OBVIOUS
  <2>1. i \in 0 .. Len(window) /\ i # 0
    BY <1>1
  <2> HIDE DEF g
  <2> QED BY <1>3, <2>1 DEF Filters
<1> HIDE DEF g
<1> QED BY <1>4, <1>5, <1>6

\* What is left of the first k messages.
LeftOf(d, k, window, gone) ==
    /\ d \in Seq(Message)
    /\ Ordered(d) /\ Answered(d, TRUE)
    /\ d[Len(d)].turn <= window[k].turn
    /\ window[k] \notin gone => d[Len(d)] = window[k]
    /\ window[k] \in gone => Answered(d, FALSE)
    /\ \A i \in 1 .. Len(d) : \E j \in 1 .. k : d[i] = window[j]
    /\ \A j \in 1 .. k : window[j] \notin gone => \E i \in 1 .. Len(d) : d[i] = window[j]

\* A round is taken out as a whole, and the statement never.
InRounds(gone) ==
    /\ Statement \notin gone
    /\ \A n \in Nat : Calls(n) \in gone <=> Observations(n) \in gone

LEMMA MessageTurn == \A m \in Message : m.turn \in Nat
  BY DEF Message

LEMMA LeftOfFirst ==
    ASSUME NEW window \in Seq(Message), Ordered(window), NEW gone, InRounds(gone)
    PROVE  LeftOf(Append(<<>>, window[1]), 1, window, gone)
<1>1. window[1] = Statement /\ Statement \notin gone /\ Statement \in Message
  BY DEF Ordered, InRounds, Statement, Message
<1> DEFINE d == <<Statement>>
<1>2. Append(<<>>, window[1]) = d
  BY <1>1
<1>3. d \in Seq(Message) /\ Len(d) = 1 /\ d[1] = Statement /\ d # <<>>
  BY <1>1
<1>4. Ordered(d) /\ Answered(d, TRUE)
  BY <1>3 DEF Ordered, Answered
<1>5. Statement.turn <= Statement.turn
  BY DEF Statement
<1> HIDE DEF d
<1>6. /\ \A i \in 1 .. Len(d) : \E j \in 1 .. 1 : d[i] = window[j]
      /\ \A j \in 1 .. 1 : window[j] \notin gone => \E i \in 1 .. Len(d) : d[i] = window[j]
  <2>1. \A i \in 1 .. 1 : i = 1 /\ i \in 1 .. 1
    OBVIOUS
  <2>2. 1 \in 1 .. 1
    OBVIOUS
  <2> QED BY <1>1, <1>3, <2>1, <2>2
<1>7. /\ d[Len(d)].turn <= window[1].turn
      /\ d[Len(d)] = window[1]
  BY <1>1, <1>3, <1>5
<1>8. window[1] \notin gone
  BY <1>1
<1> QED BY <1>2, <1>3, <1>4, <1>6, <1>7, <1>8 DEF LeftOf

LEMMA LeftOfNext ==
    ASSUME NEW window \in Seq(Message), Ordered(window), Answered(window, FALSE),
           NEW gone, InRounds(gone),
           NEW k \in 1 .. Len(window) - 1, NEW d, LeftOf(d, k, window, gone)
    PROVE  LeftOf(IF window[k + 1] \in gone THEN d ELSE Append(d, window[k + 1]), k + 1, window, gone)
<1>1. /\ k \in Nat /\ k + 1 \in 2 .. Len(window) /\ k \in 1 .. Len(window) /\ (k + 1) - 1 = k
      /\ Len(window) \in Nat
  OBVIOUS
<1>2. /\ window[k] \in Message /\ window[k + 1] \in Message
      /\ window[k].turn \in Nat /\ window[k + 1].turn \in Nat
  <2>1. window[k] \in Message /\ window[k + 1] \in Message
    BY <1>1, ElementOfSeq
  <2> QED BY <2>1, MessageTurn
<1>3. /\ window[k + 1].role = "results" => window[k] = Calls(window[k + 1].turn)
      /\ window[k + 1].turn >= window[k].turn
  BY <1>1 DEF Ordered
<1>4. window[k].role = "calls" => window[k + 1] = Observations(window[k].turn)
  <2>1. CASE k = 1
    BY <2>1 DEF Ordered, Statement
  <2>2. CASE k # 1
    <3>1. k \in 2 .. Len(window)
      BY <1>1, <2>2
    <3> QED BY <3>1 DEF Answered
  <2> QED BY <2>1, <2>2
<1>5. /\ d \in Seq(Message) /\ Len(d) \in Nat \ {0} /\ d # <<>> /\ d[1] = Statement
      /\ \A i \in 1 .. Len(d) : d[i] \in Message /\ d[i].turn \in Nat
  <2>1. d \in Seq(Message) /\ d # <<>> /\ d[1] = Statement
    BY DEF LeftOf, Ordered
  <2>2. Len(d) \in Nat \ {0}
    BY <2>1, EmptySeq
  <2>3. \A i \in 1 .. Len(d) : d[i] \in Message
    BY <2>1, ElementOfSeq
  <2> QED BY <2>1, <2>2, <2>3, MessageTurn
<1>6. d[Len(d)].turn <= window[k + 1].turn /\ d[Len(d)].turn \in Nat
  BY <1>2, <1>3, <1>5 DEF LeftOf
\* The last message left has its results next, or is not one with calls.
<1>7. d[Len(d)].role = "calls" /\ Len(d) # 1 =>
        window[k + 1] = Observations(d[Len(d)].turn) /\ window[k + 1] \notin gone
  <2> SUFFICES ASSUME d[Len(d)].role = "calls", Len(d) # 1
               PROVE  window[k + 1] = Observations(d[Len(d)].turn) /\ window[k + 1] \notin gone
    OBVIOUS
  <2>1. Len(d) \in 2 .. Len(d)
    <3>1. Len(d) \in Nat \ {0} /\ Len(d) # 1
      BY <1>5
    <3>2. \A n \in Nat \ {0} : n # 1 => n \in 2 .. n
      OBVIOUS
    <3> QED BY <3>1, <3>2, Zenon
  <2>2. window[k] \notin gone
    BY <2>1, <1>5 DEF LeftOf, Answered
  <2>3. d[Len(d)] = window[k]
    BY <2>2 DEF LeftOf
  <2>4. window[k] = Calls(window[k].turn)
    BY <1>2, <2>3 DEF Calls, Message
  <2> QED BY <1>2, <1>4, <2>2, <2>3, <2>4 DEF InRounds
<1>8. CASE window[k + 1] \in gone
  <2>1. Answered(d, FALSE)
    <3> SUFFICES ASSUME NEW i \in 2 .. Len(d), d[i].role = "calls"
                 PROVE  i < Len(d) /\ d[i + 1] = Observations(d[i].turn)
      BY DEF Answered
    <3>1. i # Len(d)
      BY <1>7, <1>8
    <3> QED BY <1>5, <3>1 DEF LeftOf, Answered
  <2>2. \A i \in 1 .. Len(d) : \E j \in 1 .. k + 1 : d[i] = window[j]
    <3> SUFFICES ASSUME NEW i \in 1 .. Len(d) PROVE \E j \in 1 .. k + 1 : d[i] = window[j]
      OBVIOUS
    <3>1. PICK j \in 1 .. k : d[i] = window[j]
      BY DEF LeftOf
    <3>2. j \in 1 .. k + 1
      BY <1>1
    <3> QED BY <3>1, <3>2
  <2>3. \A j \in 1 .. k + 1 : window[j] \notin gone => \E i \in 1 .. Len(d) : d[i] = window[j]
    <3> SUFFICES ASSUME NEW j \in 1 .. k + 1, window[j] \notin gone
                 PROVE  \E i \in 1 .. Len(d) : d[i] = window[j]
      OBVIOUS
    <3>1. j \in 1 .. k
      BY <1>1, <1>8
    <3> QED BY <3>1 DEF LeftOf
  <2> QED BY <1>6, <1>8, <2>1, <2>2, <2>3 DEF LeftOf
<1>9. ASSUME window[k + 1] \notin gone, NEW e, e = Append(d, window[k + 1])
      PROVE  LeftOf(e, k + 1, window, gone)
  <2>1. /\ e \in Seq(Message) /\ e # <<>> /\ Len(e) = Len(d) + 1 /\ e[Len(d) + 1] = window[k + 1]
        /\ \A i \in 1 .. Len(d) : e[i] = d[i]
    BY <1>2, <1>5, <1>9, AppendProperties
  <2>2. e[1] = Statement /\ e[Len(e)] = window[k + 1]
    BY <1>5, <2>1
  <2>3. ASSUME NEW i \in 2 .. Len(e)
        PROVE  /\ e[i].role = "results" => e[i - 1] = Calls(e[i].turn)
               /\ e[i].turn >= e[i - 1].turn
    <3>1. CASE i = Len(e)
      <4>1. e[i] = window[k + 1] /\ e[i - 1] = d[Len(d)]
        BY <1>5, <2>1, <3>1
      <4>2. ASSUME window[k + 1].role = "results" PROVE d[Len(d)] = Calls(window[k + 1].turn)
        <5>1. window[k + 1] = Observations(window[k + 1].turn)
          BY <1>2, <4>2 DEF Observations, Message
        <5>2. window[k] \notin gone
          BY <1>2, <1>3, <1>9, <4>2, <5>1 DEF InRounds
        <5> QED BY <1>3, <4>2, <5>2 DEF LeftOf
      <4> QED BY <1>2, <1>6, <4>1, <4>2
    <3>2. CASE i # Len(e)
      <4>1. i \in 2 .. Len(d) /\ i - 1 \in 1 .. Len(d) /\ i \in 1 .. Len(d)
        BY <1>5, <2>1, <3>2
      <4>2. e[i] = d[i] /\ e[i - 1] = d[i - 1]
        BY <2>1, <4>1
      <4> QED BY <4>1, <4>2 DEF LeftOf, Ordered
    <3> QED BY <3>1, <3>2
  <2>4. Answered(e, TRUE)
    <3> SUFFICES ASSUME NEW i \in 2 .. Len(e), e[i].role = "calls", i # Len(e)
                 PROVE  i < Len(e) /\ e[i + 1] = Observations(e[i].turn)
      BY DEF Answered
    <3>1. i \in 2 .. Len(d) /\ i \in 1 .. Len(d) /\ e[i] = d[i] /\ i < Len(e)
      BY <1>5, <2>1
    <3>2. CASE i = Len(d)
      BY <1>7, <2>1, <3>1, <3>2
    <3>3. CASE i # Len(d)
      <4>1. i + 1 \in 1 .. Len(d)
        BY <1>5, <3>1, <3>3
      <4>2. d[i + 1] = Observations(d[i].turn)
        BY <3>1, <3>3 DEF LeftOf, Answered
      <4> QED BY <2>1, <3>1, <4>1, <4>2
    <3> QED BY <3>2, <3>3
  <2>5. \A i \in 1 .. Len(e) : \E j \in 1 .. k + 1 : e[i] = window[j]
    <3> SUFFICES ASSUME NEW i \in 1 .. Len(e) PROVE \E j \in 1 .. k + 1 : e[i] = window[j]
      OBVIOUS
    <3>1. CASE i = Len(e)
      BY <1>1, <2>2, <3>1
    <3>2. CASE i # Len(e)
      <4>1. i \in 1 .. Len(d) /\ e[i] = d[i]
        BY <1>5, <2>1, <3>2
      <4>2. PICK j \in 1 .. k : d[i] = window[j]
        BY <4>1 DEF LeftOf
      <4> QED BY <1>1, <4>1, <4>2
    <3> QED BY <3>1, <3>2
  <2>6. \A j \in 1 .. k + 1 : window[j] \notin gone => \E i \in 1 .. Len(e) : e[i] = window[j]
    <3> SUFFICES ASSUME NEW j \in 1 .. k + 1, window[j] \notin gone
                 PROVE  \E i \in 1 .. Len(e) : e[i] = window[j]
      OBVIOUS
    <3>1. CASE j = k + 1
      <4>1. Len(e) \in 1 .. Len(e)
        BY <1>5, <2>1
      <4> QED BY <2>2, <3>1, <4>1
    <3>2. CASE j # k + 1
      <4>1. j \in 1 .. k
        BY <1>1, <3>2
      <4>2. PICK i \in 1 .. Len(d) : d[i] = window[j]
        BY <4>1 DEF LeftOf
      <4>3. i \in 1 .. Len(e) /\ e[i] = d[i]
        BY <1>5, <2>1
      <4> QED BY <4>2, <4>3
    <3> QED BY <3>1, <3>2
  <2>7. window[k + 1].turn <= window[k + 1].turn
    BY <1>2
  <2>8. Ordered(e)
    BY <2>1, <2>2, <2>3 DEF Ordered
  <2> QED BY <1>9, <2>1, <2>2, <2>4, <2>5, <2>6, <2>7, <2>8 DEF LeftOf
<1> QED BY <1>8, <1>9

\* compactHistory leaves a transcript that is whole, and takes out nothing else.
LEMMA WithoutWhole ==
    ASSUME NEW window \in Seq(Message), Ordered(window), Answered(window, FALSE),
           NEW gone, InRounds(gone),
           NEW d, d = Without(window, gone)
    PROVE  /\ d \in Seq(Message) /\ Ordered(d) /\ Answered(d, FALSE)
           /\ \A m \in Range(d) : m \in Range(window)
           /\ \A m \in Range(window) : m \notin gone => m \in Range(d)
<1>1. Len(window) \in Nat \ {0} /\ DOMAIN window = 1 .. Len(window)
  BY EmptySeq DEF Ordered
<1>2. PICK f : /\ d = f[Len(window)]
               /\ f[0] = <<>>
               /\ \A i \in 1 .. Len(window) :
                    f[i] = IF window[i] \in gone THEN f[i - 1] ELSE Append(f[i - 1], window[i])
  BY WithoutStepwise
<1> DEFINE Bad == {k \in 1 .. Len(window) : ~LeftOf(f[k], k, window, gone)}
<1>3. Bad = {}
  <2> SUFFICES ASSUME Bad # {} PROVE FALSE
    OBVIOUS
  <2>1. PICK k \in Bad : \A j \in Bad : k <= j
    <3> HIDE DEF Bad
    <3>1. Bad \in SUBSET Nat
      BY <1>1 DEF Bad
    <3> QED BY <3>1, LeastNumber
  <2>2. k \in 1 .. Len(window) /\ ~LeftOf(f[k], k, window, gone)
    OBVIOUS
  <2>3. CASE k = 1
    <3>1. f[1] = IF window[1] \in gone THEN f[0] ELSE Append(f[0], window[1])
      <4>1. 1 \in 1 .. Len(window) /\ 1 - 1 = 0
        BY <1>1
      <4> QED BY <1>2, <4>1
    <3>2. window[1] \notin gone
      BY DEF Ordered, InRounds
    <3>3. f[1] = Append(<<>>, window[1])
      BY <1>2, <3>1, <3>2
    <3> HIDE DEF Bad
    <3> QED BY <2>2, <2>3, <3>3, LeftOfFirst
  <2>4. CASE k # 1
    <3>1. k - 1 \in 1 .. Len(window) - 1 /\ (k - 1) + 1 = k /\ k - 1 \in 1 .. Len(window) /\ ~(k <= k - 1)
      BY <1>1, <2>2, <2>4
    <3>2. LeftOf(f[k - 1], k - 1, window, gone)
      BY <2>1, <3>1
    <3>3. f[k] = IF window[k] \in gone THEN f[k - 1] ELSE Append(f[k - 1], window[k])
      BY <1>2, <2>2
    <3> HIDE DEF Bad
    <3>4. LeftOf(IF window[(k - 1) + 1] \in gone THEN f[k - 1] ELSE Append(f[k - 1], window[(k - 1) + 1]),
                 (k - 1) + 1, window, gone)
      BY <3>1, <3>2, LeftOfNext
    <3> QED BY <2>2, <3>1, <3>3, <3>4
  <2> QED BY <2>3, <2>4
<1>4. LeftOf(d, Len(window), window, gone)
  <2>1. Len(window) \in 1 .. Len(window)
    BY <1>1
  <2>2. Len(window) \notin Bad
    BY <1>3
  <2> QED BY <1>2, <2>1, <2>2
<1>5. d \in Seq(Message) /\ Ordered(d) /\ DOMAIN d = 1 .. Len(d) /\ Len(d) \in Nat
  BY <1>4 DEF LeftOf
<1>6. Answered(d, FALSE)
  <2> SUFFICES ASSUME NEW i \in 2 .. Len(d), d[i].role = "calls", i = Len(d), window[Len(window)] \notin gone
               PROVE  FALSE
    BY <1>4 DEF LeftOf, Answered
  <2>1. d[Len(d)] = window[Len(window)]
    BY <1>4 DEF LeftOf
  <2>2. Len(window) # 1
    BY <2>1 DEF Ordered, Statement
  <2>3. Len(window) \in 2 .. Len(window)
    BY <1>1, <2>2
  <2> QED BY <1>1, <2>1, <2>3 DEF Answered
<1>7. \A m \in Range(d) : m \in Range(window)
  <2> SUFFICES ASSUME NEW i \in 1 .. Len(d) PROVE d[i] \in Range(window)
    BY <1>5 DEF Range
  <2>1. PICK j \in 1 .. Len(window) : d[i] = window[j]
    BY <1>4 DEF LeftOf
  <2> QED BY <1>1, <2>1 DEF Range
<1>8. \A m \in Range(window) : m \notin gone => m \in Range(d)
  <2> SUFFICES ASSUME NEW j \in 1 .. Len(window), window[j] \notin gone PROVE window[j] \in Range(d)
    BY <1>1 DEF Range
  <2>1. PICK i \in 1 .. Len(d) : d[i] = window[j]
    BY <1>4 DEF LeftOf
  <2> QED BY <1>5, <2>1 DEF Range
<1> QED BY <1>5, <1>6, <1>7, <1>8

-------------------------------------------------------------------------------
(* What compactHistory takes out. *)

LEMMA MessageIs ==
    /\ Statement \in Message /\ Statement.role = "user" /\ Statement.turn = 0
    /\ \A n \in Nat :
        /\ Calls(n) \in Message /\ Calls(n).role = "calls" /\ Calls(n).turn = n
        /\ Observations(n) \in Message /\ Observations(n).role = "results" /\ Observations(n).turn = n
        /\ Text(n) \in Message /\ Text(n).role = "text" /\ Text(n).turn = n
    /\ \A m \in Message :
        /\ m.role = "calls" => m = Calls(m.turn)
        /\ m.role = "results" => m = Observations(m.turn)
  BY DEF Message, Statement, Calls, Observations, Text

\* Rounds with calls, as wholes.
LEMMA OldestInRounds ==
    ASSUME NEW window
    PROVE  /\ InRounds(OldestRounds(window))
           /\ \A n \in Nat : Text(n) \notin OldestRounds(window)
<1> DEFINE rounds == Complete(window)
           old == {n \in rounds : Cardinality({m \in rounds : m > n}) >= KeepRounds}
<1>1. OldestRounds(window) = {Calls(n) : n \in old} \cup {Observations(n) : n \in old}
  BY DEF OldestRounds
<1> HIDE DEF old
<1>2. \A n : Calls(n) \in OldestRounds(window) <=> n \in old
  BY <1>1 DEF Calls, Observations
<1>3. \A n : Observations(n) \in OldestRounds(window) <=> n \in old
  BY <1>1 DEF Calls, Observations
<1>4. Statement \notin OldestRounds(window)
  BY <1>1 DEF Calls, Observations, Statement
<1>5. \A n : Text(n) \notin OldestRounds(window)
  BY <1>1 DEF Calls, Observations, Text
<1> QED BY <1>2, <1>3, <1>4, <1>5 DEF InRounds

\* The last KeepRounds rounds with calls are none of the oldest.
LEMMA OldestSpareLast ==
    ASSUME NEW d, NEW tools, NEW last, NEW open, Whole(d, tools, last, open),
           NEW k \in DOMAIN tools, k > Len(tools) - KeepRounds
    PROVE  Calls(tools[k]) \notin OldestRounds(d)
<1> DEFINE rounds == Complete(d)
           later == {m \in rounds : m > tools[k]}
           old == {n \in rounds : Cardinality({m \in rounds : m > n}) >= KeepRounds}
<1>1. /\ d \in Seq(Message) /\ tools \in Seq(Nat)
      /\ \A m \in Range(d) : m.role = "calls" => m.turn \in Range(tools)
      /\ \A i, j \in DOMAIN tools : i < j => tools[i] < tools[j]
  BY DEF Whole, TurnsInOrder
<1>2. /\ Len(tools) \in Nat /\ DOMAIN tools = 1 .. Len(tools) /\ k \in 1 .. Len(tools)
      /\ \A i \in 1 .. Len(tools) : tools[i] \in Nat
  BY <1>1
<1>3. KeepRounds \in Nat
  BY WindowAssumption
<1>4. rounds \subseteq Range(tools)
  <2> SUFFICES ASSUME NEW n \in rounds PROVE n \in Range(tools)
    OBVIOUS
  <2>1. PICK i \in 1 .. Len(d) - 1 : d[i].role = "calls" /\ n = d[i].turn
    BY DEF Complete
  <2>2. d[i] \in Range(d)
    BY <1>1 DEF Range
  <2> QED BY <1>1, <2>1, <2>2
<1> DEFINE rest == k + 1 .. Len(tools)
           f == [j \in rest |-> tools[j]]
           T == {tools[j] : j \in rest}
<1>5. later \subseteq T
  <2> SUFFICES ASSUME NEW m \in later PROVE \E j \in rest : m = tools[j]
    OBVIOUS
  <2>1. PICK j \in 1 .. Len(tools) : m = tools[j]
    BY <1>2, <1>4 DEF Range
  <2>2. ~(j <= k)
    <3> SUFFICES ASSUME j <= k PROVE FALSE
      OBVIOUS
    <3>1. tools[j] <= tools[k]
      <4>1. CASE j = k
        BY <1>2, <4>1
      <4>2. CASE j # k
        BY <1>1, <1>2, <4>2
      <4> QED BY <4>1, <4>2
    <3> QED BY <1>2, <2>1, <3>1
  <2>3. j \in rest
    BY <1>2, <2>2
  <2> QED BY <2>1, <2>3
<1>6. IsFiniteSet(rest) /\ Cardinality(rest) = Len(tools) - k
  <2>1. k + 1 \in Int /\ Len(tools) \in Int
    BY <1>2
  <2>2. IsFiniteSet(rest) /\ Cardinality(rest) = IF k + 1 > Len(tools) THEN 0 ELSE Len(tools) - (k + 1) + 1
    BY <2>1, FS_Interval
  <2> HIDE DEF rest
  <2> QED BY <1>2, <2>2
<1>7. f \in Surjection(rest, T)
  <2> HIDE DEF rest
  <2> QED BY DEF Surjection
<1>8. IsFiniteSet(T) /\ Cardinality(T) <= Cardinality(rest)
  <2> HIDE DEF rest, f, T
  <2> QED BY <1>6, <1>7, FS_Surjection
<1>9. Cardinality(later) <= Cardinality(T) /\ Cardinality(later) \in Nat /\ Cardinality(T) \in Nat
  <2> HIDE DEF T, later
  <2> QED BY <1>5, <1>8, FS_Subset, FS_CardinalityType
<1>10. Cardinality(later) < KeepRounds
  <2> HIDE DEF T, later, rest
  <2> QED BY <1>2, <1>3, <1>6, <1>8, <1>9
<1>11. tools[k] \notin old
  <2> SUFFICES ASSUME tools[k] \in old PROVE FALSE
    OBVIOUS
  <2>1. Cardinality(later) >= KeepRounds
    OBVIOUS
  <2> HIDE DEF later
  <2> QED BY <1>3, <1>9, <1>10, <2>1
<1>12. OldestRounds(d) = {Calls(n) : n \in old} \cup {Observations(n) : n \in old}
  BY DEF OldestRounds
<1> HIDE DEF old
<1> QED BY <1>11, <1>12 DEF Calls, Observations

LEMMA CompactWhole ==
    ASSUME NEW w, NEW tools, NEW last, Whole(w, tools, last, FALSE),
           NEW d, d = Without(w, OldestRounds(w))
    PROVE  Whole(d, tools, last, FALSE)
<1>1. w \in Seq(Message) /\ Ordered(w) /\ Answered(w, FALSE) /\ tools \in Seq(Nat) /\ last \in Nat
  BY DEF Whole
<1>2. InRounds(OldestRounds(w)) /\ \A n \in Nat : Text(n) \notin OldestRounds(w)
  BY OldestInRounds
<1>3. /\ d \in Seq(Message) /\ Ordered(d) /\ Answered(d, FALSE)
      /\ \A m \in Range(d) : m \in Range(w)
      /\ \A m \in Range(w) : m \notin OldestRounds(w) => m \in Range(d)
  <2> DEFINE gone == OldestRounds(w)
  <2>1. d = Without(w, gone) /\ InRounds(gone)
    BY <1>2
  <2> HIDE DEF gone
  <2> QED BY <1>1, <2>1, WithoutWhole DEF gone
<1>4. TurnsInOrder(d, tools, last)
  BY <1>3 DEF Whole, TurnsInOrder
<1>5. Retained(d, tools, last)
  <2>1. \A n \in 1 .. last : n \notin Range(tools) => Text(n) \in Range(d)
    BY <1>1, <1>2, <1>3 DEF Whole, Retained
  <2>2. ASSUME NEW k \in DOMAIN tools, k > Len(tools) - KeepRounds PROVE Calls(tools[k]) \in Range(d)
    <3>1. Calls(tools[k]) \in Range(w)
      BY <2>2 DEF Whole, Retained
    <3>2. Calls(tools[k]) \notin OldestRounds(w)
      BY <2>2, OldestSpareLast
    <3> QED BY <1>3, <3>1, <3>2
  <2> QED BY <2>1, <2>2 DEF Retained
<1> QED BY <1>1, <1>3, <1>4, <1>5 DEF Whole

-------------------------------------------------------------------------------
(* What is appended. *)

LEMMA AppendRange ==
    ASSUME NEW d \in Seq(Message), NEW m \in Message, NEW e, e = Append(d, m)
    PROVE  Range(e) = Range(d) \cup {m}
<1>1. /\ e \in Seq(Message) /\ Len(e) = Len(d) + 1 /\ e[Len(d) + 1] = m
      /\ \A i \in 1 .. Len(d) : e[i] = d[i]
  BY AppendProperties
<1>2. Len(d) \in Nat /\ DOMAIN d = 1 .. Len(d) /\ DOMAIN e = 1 .. Len(e)
  BY <1>1
<1>3. e[Len(e)] = m
  BY <1>1, <1>2
<1>4. Range(e) = Range(d) \cup {m}
  <2>1. ASSUME NEW i \in 1 .. Len(e) PROVE e[i] \in Range(d) \cup {m}
    <3>1. CASE i = Len(e)
      BY <1>3, <3>1
    <3>2. CASE i # Len(e)
      <4>1. i \in 1 .. Len(d)
        BY <1>1, <1>2, <3>2
      <4> QED BY <1>1, <1>2, <4>1 DEF Range
    <3> QED BY <3>1, <3>2
  <2>2. ASSUME NEW i \in 1 .. Len(d) PROVE d[i] \in Range(e)
    <3>1. i \in 1 .. Len(e) /\ e[i] = d[i]
      BY <1>1, <1>2
    <3> QED BY <1>2, <3>1 DEF Range
  <2>3. m \in Range(e)
    <3>1. Len(e) \in 1 .. Len(e)
      BY <1>1, <1>2
    <3> QED BY <1>2, <1>3, <3>1 DEF Range
  <2> QED BY <1>2, <2>1, <2>2, <2>3 DEF Range
<1> QED BY <1>4

\* A message that may stand behind the transcript d.
LEMMA AppendOrdered ==
    ASSUME NEW d \in Seq(Message), Ordered(d), NEW m \in Message,
           m.turn >= d[Len(d)].turn,
           m.role = "results" => d[Len(d)] = Calls(m.turn),
           \/ Answered(d, FALSE)
           \/ Answered(d, TRUE) /\ m = Observations(d[Len(d)].turn),
           NEW e, e = Append(d, m)
    PROVE  /\ e \in Seq(Message) /\ Ordered(e)
           /\ Answered(e, TRUE)
           /\ m.role # "calls" => Answered(e, FALSE)
           /\ Len(e) = Len(d) + 1 /\ e[Len(e)] = m
           /\ \A i \in 1 .. Len(d) : e[i] = d[i]
           /\ Range(e) = Range(d) \cup {m}
<1>1. /\ e \in Seq(Message) /\ e # <<>> /\ Len(e) = Len(d) + 1 /\ e[Len(d) + 1] = m
      /\ \A i \in 1 .. Len(d) : e[i] = d[i]
  BY AppendProperties
<1>2. Len(d) \in Nat \ {0} /\ DOMAIN d = 1 .. Len(d) /\ DOMAIN e = 1 .. Len(e)
  BY <1>1, EmptySeq DEF Ordered
<1>3. e[1] = Statement /\ e[Len(e)] = m
  BY <1>1, <1>2 DEF Ordered
<1>4. Ordered(e)
  <2> SUFFICES ASSUME NEW i \in 2 .. Len(e)
               PROVE  /\ e[i].role = "results" => e[i - 1] = Calls(e[i].turn)
                      /\ e[i].turn >= e[i - 1].turn
    BY <1>1, <1>3 DEF Ordered
  <2>1. CASE i = Len(e)
    <3>1. i - 1 = Len(d) /\ Len(d) \in 1 .. Len(d)
      <4>1. \A n \in Nat \ {0} : (n + 1) - 1 = n /\ n \in 1 .. n
        OBVIOUS
      <4> QED BY <1>1, <1>2, <2>1, <4>1
    <3>2. e[i] = m /\ e[i - 1] = d[Len(d)]
      BY <1>1, <1>3, <2>1, <3>1
    <3> QED BY <3>2
  <2>2. CASE i # Len(e)
    <3>1. i \in 2 .. Len(d) /\ i \in 1 .. Len(d) /\ i - 1 \in 1 .. Len(d)
      BY <1>1, <1>2, <2>2
    <3>2. e[i] = d[i] /\ e[i - 1] = d[i - 1]
      BY <1>1, <3>1
    <3> QED BY <3>1, <3>2 DEF Ordered
  <2> QED BY <2>1, <2>2
<1>5. Answered(e, TRUE) /\ (m.role # "calls" => Answered(e, FALSE))
  <2> SUFFICES ASSUME NEW i \in 2 .. Len(e), e[i].role = "calls", i # Len(e)
               PROVE  i < Len(e) /\ e[i + 1] = Observations(e[i].turn)
    BY <1>3 DEF Answered
  <2>1. i \in 2 .. Len(d) /\ i \in 1 .. Len(d) /\ i < Len(e)
    BY <1>1, <1>2
  <2>2. e[i] = d[i]
    BY <1>1, <2>1
  <2>3. CASE i = Len(d)
    <3>1. m = Observations(d[Len(d)].turn)
      BY <2>1, <2>2, <2>3 DEF Answered
    <3> QED BY <1>1, <2>1, <2>2, <2>3, <3>1
  <2>4. CASE i # Len(d)
    <3>1. i + 1 \in 1 .. Len(d)
      <4>1. \A n \in Nat \ {0} : \A j \in 2 .. n : j # n => j + 1 \in 1 .. n
        OBVIOUS
      <4> QED BY <1>2, <2>1, <2>4, <4>1
    <3>2. d[i + 1] = Observations(d[i].turn)
      BY <2>1, <2>2, <2>4 DEF Answered
    <3> QED BY <1>1, <2>1, <2>2, <3>1, <3>2
  <2> QED BY <2>3, <2>4
<1>6. Range(e) = Range(d) \cup {m}
  BY AppendRange
<1> QED BY <1>1, <1>3, <1>4, <1>5, <1>6

LEMMA WholeEnds ==
    ASSUME NEW d, NEW tools, NEW last, NEW open, Whole(d, tools, last, open)
    PROVE  /\ d[Len(d)] \in Message /\ d[Len(d)].turn \in Nat /\ d[Len(d)].turn <= last
           /\ Len(d) \in Nat \ {0} /\ last \in Nat /\ last + 1 \in Nat
           /\ d \in Seq(Message) /\ tools \in Seq(Nat)
<1>1. d \in Seq(Message) /\ d # <<>> /\ last \in Nat /\ tools \in Seq(Nat)
  BY DEF Whole, Ordered
<1>2. Len(d) \in Nat \ {0} /\ Len(d) \in 1 .. Len(d) /\ DOMAIN d = 1 .. Len(d)
  BY <1>1, EmptySeq
<1>3. d[Len(d)] \in Message /\ d[Len(d)] \in Range(d)
  BY <1>1, <1>2, ElementOfSeq DEF Range
<1> QED BY <1>1, <1>2, <1>3, MessageTurn DEF Whole, TurnsInOrder

\* A round without calls.
LEMMA TextAdded ==
    ASSUME NEW d, NEW tools, NEW last, Whole(d, tools, last, FALSE),
           NEW e, e = Append(d, Text(last + 1))
    PROVE  Whole(e, tools, last + 1, FALSE)
<1>1. /\ d \in Seq(Message) /\ tools \in Seq(Nat) /\ last \in Nat /\ last + 1 \in Nat
      /\ d[Len(d)].turn \in Nat /\ d[Len(d)].turn <= last
  BY WholeEnds
<1>2. Ordered(d) /\ Answered(d, FALSE)
  BY DEF Whole
<1>3. /\ Text(last + 1) \in Message /\ Text(last + 1).role = "text" /\ Text(last + 1).turn = last + 1
  BY <1>1, MessageIs
<1>4. Text(last + 1).turn >= d[Len(d)].turn
  BY <1>1, <1>3
<1>5. /\ e \in Seq(Message) /\ Ordered(e) /\ Answered(e, FALSE)
      /\ Range(e) = Range(d) \cup {Text(last + 1)}
  BY <1>1, <1>2, <1>3, <1>4, AppendOrdered
<1>6. DOMAIN tools = 1 .. Len(tools) /\ \A k \in DOMAIN tools : tools[k] \in Nat
  BY <1>1
<1>7. \A m \in Range(d) : m.turn \in Nat
  BY <1>1, MessageTurn, RangeOfSeq DEF Range
<1>8. TurnsInOrder(e, tools, last + 1)
  <2>1. TurnsInOrder(d, tools, last)
    BY DEF Whole
  <2>2. \A k \in DOMAIN tools : tools[k] <= last + 1
    BY <1>1, <1>6, <2>1 DEF TurnsInOrder
  <2>3. \A m \in Range(e) : m \in Range(d) \/ (m.role = "text" /\ m.turn = last + 1)
    BY <1>3, <1>5
  <2>4. \A m \in Range(d) : m.turn <= last + 1
    BY <1>1, <1>7, <2>1 DEF TurnsInOrder
  <2>5. \A m \in Range(e) : m.turn <= last + 1
    BY <1>1, <2>3, <2>4
  <2> QED BY <2>1, <2>2, <2>3, <2>5 DEF TurnsInOrder
<1>9. Retained(e, tools, last + 1)
  <2>1. \A n \in 1 .. last + 1 : n \in 1 .. last \/ n = last + 1
    BY <1>1
  <2> QED BY <1>5, <2>1 DEF Whole, Retained
<1> QED BY <1>1, <1>5, <1>8, <1>9 DEF Whole

LEMMA AppendCalls ==
    ASSUME NEW d \in Seq(Message), Ordered(d), Answered(d, FALSE),
           NEW n \in Nat, Calls(n).turn >= d[Len(d)].turn,
           NEW e, e = Append(d, Calls(n))
    PROVE  /\ e \in Seq(Message) /\ Ordered(e) /\ Answered(e, TRUE)
           /\ e[Len(e)] = Calls(n)
           /\ Range(e) = Range(d) \cup {Calls(n)}
<1>1. Calls(n) \in Message /\ Calls(n).role = "calls"
  BY MessageIs
<1>2. ASSUME NEW m \in Message, m = Calls(n), m.role # "results", m.turn >= d[Len(d)].turn
      PROVE  e \in Seq(Message) /\ Ordered(e)
  BY <1>2, AppendOrdered
<1>3. ASSUME NEW m \in Message, m = Calls(n), m.role # "results", m.turn >= d[Len(d)].turn
      PROVE  Answered(e, TRUE)
  BY <1>3, AppendOrdered
<1>4. ASSUME NEW m \in Message, m = Calls(n), m.role # "results", m.turn >= d[Len(d)].turn
      PROVE  e[Len(e)] = m
  BY <1>4, AppendOrdered
<1>5. ASSUME NEW m \in Message, m = Calls(n), m.role # "results", m.turn >= d[Len(d)].turn
      PROVE  Range(e) = Range(d) \cup {m}
  BY <1>5, AppendRange
<1> QED BY <1>1, <1>2, <1>3, <1>4, <1>5

\* The calls of a round.
LEMMA CallsAdded ==
    ASSUME NEW d, NEW tools, NEW last, Whole(d, tools, last, FALSE),
           NEW e, e = Append(d, Calls(last + 1)),
           NEW more, more = Append(tools, last + 1)
    PROVE  Whole(e, more, last + 1, TRUE) /\ e[Len(e)] = Calls(last + 1)
<1>1. /\ d \in Seq(Message) /\ tools \in Seq(Nat) /\ last \in Nat /\ last + 1 \in Nat
      /\ d[Len(d)].turn \in Nat /\ d[Len(d)].turn <= last
  BY WholeEnds
<1>2. Ordered(d) /\ Answered(d, FALSE)
  BY DEF Whole
<1>3. /\ Calls(last + 1) \in Message /\ Calls(last + 1).role = "calls" /\ Calls(last + 1).turn = last + 1
  BY <1>1, MessageIs
<1>4. Calls(last + 1).turn >= d[Len(d)].turn
  BY <1>1, <1>3
<1>5. /\ e \in Seq(Message) /\ Ordered(e) /\ Answered(e, TRUE)
      /\ e[Len(e)] = Calls(last + 1)
      /\ Range(e) = Range(d) \cup {Calls(last + 1)}
  BY <1>1, <1>2, <1>4, AppendCalls
<1>6. /\ DOMAIN tools = 1 .. Len(tools) /\ \A k \in DOMAIN tools : tools[k] \in Nat
      /\ Len(tools) \in Nat
  BY <1>1
<1>7. \A m \in Range(d) : m.turn \in Nat
  BY <1>1, MessageTurn, RangeOfSeq DEF Range
<1>8. /\ more \in Seq(Nat) /\ Len(more) = Len(tools) + 1 /\ more[Len(tools) + 1] = last + 1
      /\ \A k \in 1 .. Len(tools) : more[k] = tools[k]
      /\ DOMAIN more = 1 .. Len(tools) + 1
  BY <1>1, AppendProperties
<1>9. Range(tools) \subseteq Range(more) /\ last + 1 \in Range(more)
  <2>1. ASSUME NEW k \in 1 .. Len(tools) PROVE tools[k] \in Range(more)
    <3>1. k \in DOMAIN more /\ more[k] = tools[k]
      BY <1>6, <1>8
    <3> QED BY <3>1 DEF Range
  <2>2. Len(tools) + 1 \in DOMAIN more
    BY <1>6, <1>8
  <2> QED BY <1>6, <1>8, <2>1, <2>2 DEF Range
<1>10. TurnsInOrder(e, more, last + 1)
  <2>1. \A m \in Range(e) : m.turn <= last + 1 /\ (m.role = "calls" => m.turn \in Range(more))
    BY <1>1, <1>3, <1>5, <1>7, <1>9 DEF Whole, TurnsInOrder
  <2>2. ASSUME NEW k \in DOMAIN more
        PROVE  \/ k \in DOMAIN tools /\ more[k] = tools[k]
               \/ k = Len(tools) + 1 /\ more[k] = last + 1
    <3>1. \A n \in Nat : \A i \in 1 .. n + 1 : i \in 1 .. n \/ i = n + 1
      OBVIOUS
    <3>2. k \in 1 .. Len(tools) \/ k = Len(tools) + 1
      BY <1>6, <1>8, <3>1
    <3> QED BY <1>6, <1>8, <3>2
  <2>3. \A k \in DOMAIN tools : tools[k] <= last
    BY DEF Whole, TurnsInOrder
  <2>4. \A k \in DOMAIN more : more[k] <= last + 1
    BY <1>1, <1>6, <2>2, <2>3
  <2>5. ASSUME NEW j \in DOMAIN more, NEW k \in DOMAIN more, j < k PROVE more[j] < more[k]
    <3>1. j \in DOMAIN tools /\ more[j] = tools[j]
      BY <1>6, <1>8, <2>5
    <3>2. CASE k \in DOMAIN tools
      BY <1>6, <1>8, <2>5, <3>1, <3>2 DEF Whole, TurnsInOrder
    <3>3. CASE k = Len(tools) + 1
      BY <1>1, <1>6, <1>8, <2>3, <3>1, <3>3
    <3> QED BY <2>2, <3>2, <3>3
  <2> QED BY <2>1, <2>4, <2>5 DEF TurnsInOrder
<1>11. Retained(e, more, last + 1)
  <2>1. ASSUME NEW n \in 1 .. last + 1, n \notin Range(more) PROVE Text(n) \in Range(e)
    <3>0. n # last + 1
      BY <1>9, <2>1
    <3>1. n \in 1 .. last
      BY <1>1, <3>0
    <3> QED BY <1>5, <1>9, <2>1, <3>1 DEF Whole, Retained
  <2>2. ASSUME NEW k \in DOMAIN more, k > Len(more) - KeepRounds PROVE Calls(more[k]) \in Range(e)
    <3>1. CASE k = Len(tools) + 1
      BY <1>5, <1>8, <3>1
    <3>2. CASE k # Len(tools) + 1
      <4>1. k \in DOMAIN tools /\ more[k] = tools[k]
        BY <1>6, <1>8, <3>2
      <4>2. k > Len(tools) - KeepRounds
        BY <1>6, <1>8, <2>2, <4>1, WindowAssumption
      <4> QED BY <1>5, <4>1, <4>2 DEF Whole, Retained
    <3> QED BY <3>1, <3>2
  <2> QED BY <2>1, <2>2 DEF Retained
<1> QED BY <1>1, <1>5, <1>8, <1>10, <1>11 DEF Whole

\* The results of the round that is open.
LEMMA ResultsAdded ==
    ASSUME NEW d, NEW tools, NEW last, Whole(d, tools, last, TRUE), d[Len(d)] = Calls(last),
           NEW e, e = Append(d, Observations(last))
    PROVE  Whole(e, tools, last, FALSE)
<1>1. /\ d \in Seq(Message) /\ tools \in Seq(Nat) /\ last \in Nat
  BY WholeEnds
<1>2. Ordered(d) /\ Answered(d, TRUE)
  BY DEF Whole
<1>3. /\ Observations(last) \in Message /\ Observations(last).role = "results"
      /\ Observations(last).turn = last /\ Calls(last).turn = last
  BY <1>1, MessageIs
<1>4. Observations(last).turn >= d[Len(d)].turn
  BY <1>1, <1>3
<1>5. /\ e \in Seq(Message) /\ Ordered(e) /\ Answered(e, FALSE)
      /\ Range(e) = Range(d) \cup {Observations(last)}
  BY <1>1, <1>2, <1>3, <1>4, AppendOrdered
<1>6. TurnsInOrder(e, tools, last)
  BY <1>1, <1>3, <1>5 DEF Whole, TurnsInOrder
<1>7. Retained(e, tools, last)
  BY <1>5 DEF Whole, Retained
<1> QED BY <1>1, <1>5, <1>6, <1>7 DEF Whole

LEMMA ConcatTwo ==
    ASSUME NEW d \in Seq(Message), NEW m \in Message, NEW n \in Message
    PROVE  d \o <<m, n>> = Append(Append(d, m), n) /\ d \o <<m>> = Append(d, m)
<1>1. Append(d, m) = d \o <<m>> /\ Append(d, m) \in Seq(Message)
  BY AppendIsConcat, AppendProperties
<1>2. Append(Append(d, m), n) = (d \o <<m>>) \o <<n>>
  BY <1>1, AppendIsConcat
<1>3. <<m>> \in Seq(Message) /\ <<n>> \in Seq(Message) /\ <<m>> \o <<n>> = <<m, n>>
  <2>1. <<m>> \in Seq(Message) /\ <<n>> \in Seq(Message)
    OBVIOUS
  <2>2. <<m>> \o <<n>> = Append(<<m>>, n)
    BY <2>1, AppendIsConcat
  <2>3. Append(<<m>>, n) = <<m, n>>
    <3>1. /\ <<m, n>> \in Seq(Message) /\ Len(<<m, n>>) = 2 /\ <<m, n>>[1] = m /\ <<m, n>>[2] = n
          /\ Len(<<m>>) = 1 /\ <<m>>[1] = m
      OBVIOUS
    <3>2. /\ Append(<<m>>, n) \in Seq(Message) /\ Len(Append(<<m>>, n)) = Len(<<m>>) + 1
          /\ \A i \in 1 .. Len(<<m>>) : Append(<<m>>, n)[i] = <<m>>[i]
          /\ Append(<<m>>, n)[Len(<<m>>) + 1] = n
      BY <2>1, AppendProperties
    <3> DEFINE a == Append(<<m>>, n)
               b == <<m, n>>
    <3>3. a \in Seq(Message) /\ b \in Seq(Message) /\ Len(a) = 2 /\ Len(b) = 2 /\ a[1] = b[1] /\ a[2] = b[2]
      BY <3>1, <3>2
    <3>4. a = b
      <4> HIDE DEF a, b
      <4>1. \A i \in 1 .. 2 : i = 1 \/ i = 2
        OBVIOUS
      <4> QED BY <3>3, <4>1, SeqEqual
    <3> QED BY <3>4
  <2> QED BY <2>1, <2>2, <2>3
<1>4. (d \o <<m>>) \o <<n>> = d \o (<<m>> \o <<n>>)
  BY <1>3, ConcatAssociative
<1> QED BY <1>1, <1>2, <1>3, <1>4

\* A round with calls and their results.
LEMMA RoundAdded ==
    ASSUME NEW d, NEW tools, NEW last, Whole(d, tools, last, FALSE),
           NEW e, e = d \o <<Calls(last + 1), Observations(last + 1)>>
    PROVE  Whole(e, Append(tools, last + 1), last + 1, FALSE)
<1>1. d \in Seq(Message) /\ last + 1 \in Nat
  BY WholeEnds
<1>2. Calls(last + 1) \in Message /\ Observations(last + 1) \in Message
  BY <1>1, MessageIs
<1> DEFINE opened == Append(d, Calls(last + 1))
<1>3. Whole(opened, Append(tools, last + 1), last + 1, TRUE) /\ opened[Len(opened)] = Calls(last + 1)
  BY CallsAdded
<1>4. e = Append(opened, Observations(last + 1))
  BY <1>1, <1>2, ConcatTwo
<1> HIDE DEF opened
<1> QED BY <1>3, <1>4, ResultsAdded

-------------------------------------------------------------------------------
(* The steps of the window. *)

LEMMA WinInitInv == WinInit => WinInv
<1> SUFFICES ASSUME WinInit PROVE WinInv
  OBVIOUS
<1> USE DEF WinInit
<1>1. /\ dynamic \in Seq(Message) /\ Len(dynamic) = 1 /\ dynamic[1] = Statement /\ dynamic # <<>>
      /\ DOMAIN dynamic = 1 .. 1 /\ appended = dynamic
  BY MessageIs
<1>2. WinShape
  <2>1. measured = <<>> /\ <<>> \in Seq(Nat) /\ measured \in Seq(Nat)
    OBVIOUS
  <2>2. appended \in Seq(Message)
    BY <1>1
  <2>3. step = "replay" /\ notes = 0 /\ tooLarge = FALSE /\ cutNow = FALSE
    OBVIOUS
  <2> HIDE DEF WinInit
  <2> QED BY <2>1, <2>2, <2>3 DEF WinShape
<1>3. EpochOfNotes
  BY DEF EpochOfNotes
<1>4. Counted
  <2>1. NewFrom = Contributed /\ Contributed \in Nat
    BY WindowAssumption DEF NewFrom
  <2> QED BY <1>1, <2>1 DEF Counted
<1>5. Range(dynamic) = {Statement}
  BY <1>1 DEF Range
<1>6. Whole(dynamic, toolTurns, turns, FALSE)
  <2>1. Ordered(dynamic) /\ Answered(dynamic, FALSE)
    BY <1>1 DEF Ordered, Answered
  <2>2. toolTurns \in Seq(Nat) /\ turns \in Nat /\ DOMAIN toolTurns = {} /\ 1 .. turns = {}
    OBVIOUS
  <2>3. TurnsInOrder(dynamic, toolTurns, turns)
    BY <1>5, <2>2, MessageIs DEF TurnsInOrder
  <2>4. Retained(dynamic, toolTurns, turns)
    BY <2>2 DEF Retained
  <2> QED BY <1>1, <2>1, <2>2, <2>3, <2>4 DEF Whole
<1>7. (step \in {"complete", "over"}) = FALSE /\ step # "complete"
  OBVIOUS
<1> QED BY <1>2, <1>3, <1>4, <1>6, <1>7 DEF WinInv

LEMMA NewFromIs ==
    ASSUME WinShape
    PROVE  NewFrom \in Nat /\ Contributed \in Nat /\ NewFrom >= Contributed
           /\ NewFrom - Contributed \in Nat
<1>1. NewFrom \in Nat /\ Contributed \in Nat /\ NewFrom >= Contributed
  BY WindowAssumption DEF WinShape, NewFrom
<1> QED BY <1>1

\* What is appended to the transcript counts as new.
LEMMA CountedGrows ==
    ASSUME WinShape, Counted, dynamic \in Seq(Message), NEW ms \in Seq(Message),
           dynamic' = dynamic \o ms, appended' = appended \o ms,
           UNCHANGED <<measured, cutNow, reported>>
    PROVE  Counted' /\ appended' \in Seq(Message)
<1>1. /\ appended \in Seq(Message) /\ Len(dynamic) \in Nat /\ Len(appended) \in Nat /\ Len(ms) \in Nat
      /\ NewFrom' = NewFrom
  BY DEF WinShape, NewFrom
<1>2. /\ appended' \in Seq(Message) /\ Len(appended') = Len(appended) + Len(ms)
      /\ \A i \in 1 .. Len(appended) + Len(ms) :
            appended'[i] = IF i <= Len(appended) THEN appended[i] ELSE ms[i - Len(appended)]
  BY <1>1, ConcatProperties
<1>3. /\ Len(dynamic') = Len(dynamic) + Len(ms)
      /\ \A i \in 1 .. Len(dynamic) + Len(ms) :
            dynamic'[i] = IF i <= Len(dynamic) THEN dynamic[i] ELSE ms[i - Len(dynamic)]
  BY <1>1, ConcatProperties
<1>4. ASSUME ~cutNow, NEW base, base = NewFrom - Contributed
      PROVE  /\ Len(dynamic') + Contributed = NewFrom + Len(appended')
             /\ \A i \in 1 .. Len(appended') : dynamic'[base + i] = appended'[i]
  <2>1. base \in Nat /\ Len(dynamic) = base + Len(appended) /\ NewFrom \in Nat /\ Contributed \in Nat
    BY <1>1, <1>4, NewFromIs DEF Counted
  <2>2. \A i \in 1 .. Len(appended) : dynamic[base + i] = appended[i]
    BY <1>4 DEF Counted
  <2>3. ASSUME NEW i \in 1 .. Len(appended') PROVE dynamic'[base + i] = appended'[i]
    <3>1. i \in 1 .. Len(appended) + Len(ms) /\ base + i \in 1 .. Len(dynamic) + Len(ms)
      BY <1>1, <1>2, <2>1
    <3>2. CASE i <= Len(appended)
      <4>1. base + i <= Len(dynamic) /\ i \in 1 .. Len(appended)
        BY <1>1, <2>1, <3>1, <3>2
      <4> QED BY <1>2, <1>3, <2>2, <3>1, <3>2, <4>1
    <3>3. CASE ~(i <= Len(appended))
      <4>1. ~(base + i <= Len(dynamic)) /\ (base + i) - Len(dynamic) = i - Len(appended)
        BY <1>1, <2>1, <3>1, <3>3
      <4> QED BY <1>2, <1>3, <3>1, <3>3, <4>1
    <3> QED BY <3>2, <3>3
  <2>4. Len(dynamic') + Contributed = NewFrom + Len(appended')
    BY <1>1, <1>2, <1>3, <1>4, <2>1 DEF Counted
  <2> QED BY <2>3, <2>4
<1> QED BY <1>1, <1>2, <1>4 DEF Counted

\* The messages are new as measure says, unless some were taken out.
LEMMA MeasuredNew ==
    ASSUME WinShape, Counted, dynamic \in Seq(Message), ~cutNow
    PROVE  SubSeq(dynamic, NewFrom - Contributed + 1, Len(dynamic)) = appended
<1> DEFINE base == NewFrom - Contributed
           fresh == SubSeq(dynamic, base + 1, Len(dynamic))
<1>1. /\ appended \in Seq(Message) /\ Len(dynamic) \in Nat /\ Len(appended) \in Nat
      /\ base \in Nat /\ Len(dynamic) = base + Len(appended)
  <2>1. appended \in Seq(Message) /\ Len(dynamic) \in Nat /\ Len(appended) \in Nat
    BY DEF WinShape
  <2> QED BY <2>1, NewFromIs DEF Counted
<1>2. \A i \in 1 .. Len(appended) : dynamic[base + i] = appended[i]
  BY DEF Counted
<1> HIDE DEF base
<1>3. \A i \in base + 1 .. Len(dynamic) : i \in 1 .. Len(dynamic) /\ dynamic[i] \in Message
  <2>1. \A i \in base + 1 .. Len(dynamic) : i \in 1 .. Len(dynamic)
    BY <1>1
  <2> QED BY <2>1, ElementOfSeq
<1>4. /\ fresh \in Seq(Message)
      /\ Len(fresh) = IF base + 1 <= Len(dynamic) THEN Len(dynamic) - (base + 1) + 1 ELSE 0
      /\ \A i \in 1 .. Len(dynamic) - (base + 1) + 1 : fresh[i] = dynamic[(base + 1) + i - 1]
  <2>1. base + 1 \in 1 .. Len(dynamic) + 1 /\ Len(dynamic) \in (base + 1) - 1 .. Len(dynamic)
    BY <1>1
  <2> QED BY <1>1, <1>3, <2>1, SubSeqProperties
<1>5. Len(fresh) = Len(appended)
  <2> HIDE DEF fresh
  <2> QED BY <1>1, <1>4
<1>6. ASSUME NEW i \in 1 .. Len(fresh) PROVE fresh[i] = appended[i]
  <2>1. i \in 1 .. Len(dynamic) - (base + 1) + 1 /\ (base + 1) + i - 1 = base + i /\ i \in 1 .. Len(appended)
    BY <1>1, <1>5
  <2> HIDE DEF fresh
  <2> QED BY <1>2, <1>4, <2>1
<1>7. fresh = appended
  <2> HIDE DEF fresh
  <2> QED BY <1>1, <1>4, <1>5, <1>6, SeqEqual
<1> QED BY <1>7 DEF base

\* An epoch of one prefix, when a request is sent.
LEMMA SentEpoch ==
    ASSUME WinShape, EpochOfNotes, Snapshot, notes' = notes,
           prefixes' = prefixes \cup {<<prefixEpoch', notes>>}
    PROVE  EpochOfNotes'
<1>1. prefixEpoch' = prefixEpoch /\ hashed' = <<notes>>
  <2>1. hashed = <<>> \/ hashed = <<notes>>
    BY DEF EpochOfNotes
  <2> QED BY <2>1 DEF Snapshot
<1>2. <<prefixEpoch', notes>> \in Nat \X Nat /\ <<prefixEpoch', notes>>[1] = <<prefixEpoch', notes>>[2] + 1
  BY <1>1 DEF EpochOfNotes, WinShape
<1> QED BY <1>1, <1>2 DEF EpochOfNotes

\* What the invariant says of where the transcript is whole, and where a round is open.
LEMMA WinInvIs ==
    ASSUME WinInv
    PROVE  /\ WinShape /\ EpochOfNotes /\ Counted /\ dynamic \in Seq(Message)
           /\ step \in {"replay", "ask", "answer"} => Whole(dynamic, toolTurns, turns, FALSE)
           /\ step = "complete" =>
                Whole(dynamic, toolTurns, turns, TRUE) /\ dynamic[Len(dynamic)] = Calls(turns)
           /\ Whole(dynamic, toolTurns, turns, TRUE)
<1>1. /\ WinShape /\ EpochOfNotes /\ Counted
      /\ Whole(dynamic, toolTurns, turns, step \in {"complete", "over"})
      /\ step = "complete" => dynamic[Len(dynamic)] = Calls(turns)
  BY DEF WinInv
<1>2. dynamic \in Seq(Message)
  BY <1>1 DEF Whole
<1>3. ASSUME step \in {"replay", "ask", "answer"} PROVE Whole(dynamic, toolTurns, turns, FALSE)
  <2>1. (step \in {"complete", "over"}) = FALSE
    BY <1>3
  <2> QED BY <1>1, <2>1
<1>4. Whole(dynamic, toolTurns, turns, TRUE)
  BY <1>1 DEF Whole, Answered
<1> QED BY <1>1, <1>2, <1>3, <1>4

\* A step that appends messages: what is left to show is that the transcript stays whole.
LEMMA Appends ==
    ASSUME WinInv, NEW ms \in Seq(Message),
           dynamic' = dynamic \o ms, appended' = appended \o ms,
           UNCHANGED <<notes, prefixEpoch, hashed, measured, tooLarge, reported, prefixes, cutNow>>,
           step' \in {"replay", "ask", "complete"},
           Whole(dynamic', toolTurns', turns', step' = "complete"),
           step' = "complete" => dynamic'[Len(dynamic')] = Calls(turns')
    PROVE  WinInv'
<1>1. WinShape /\ EpochOfNotes /\ Counted /\ dynamic \in Seq(Message)
  BY WinInvIs
<1>2. Counted' /\ appended' \in Seq(Message)
  BY <1>1, CountedGrows
<1>3. WinShape'
  BY <1>1, <1>2 DEF WinShape
<1>4. EpochOfNotes'
  BY <1>1 DEF EpochOfNotes
<1>5. Whole(dynamic', toolTurns', turns', step' \in {"complete", "over"})
  <2>1. (step' \in {"complete", "over"}) = (step' = "complete")
    OBVIOUS
  <2> QED BY <2>1
<1> QED BY <1>2, <1>3, <1>4, <1>5 DEF WinInv

LEMMA TwoMessages ==
    ASSUME NEW m \in Message, NEW n \in Message
    PROVE  <<m, n>> \in Seq(Message) /\ <<m>> \in Seq(Message)
  OBVIOUS

LEMMA ReplayTurnKeeps ==
    ASSUME WinInv, NEW hasCalls \in BOOLEAN, ReplayTurn(hasCalls)
    PROVE  WinInv'
<1>1. Whole(dynamic, toolTurns, turns, FALSE) /\ dynamic \in Seq(Message) /\ turns + 1 \in Nat
  <2>1. Whole(dynamic, toolTurns, turns, FALSE)
    BY WinInvIs DEF ReplayTurn
  <2> QED BY <2>1, WholeEnds
<1>2. step' = "replay" /\ turns' = turns + 1
  BY DEF ReplayTurn
<1>3. CASE hasCalls
  <2> DEFINE ms == <<Calls(turns + 1), Observations(turns + 1)>>
  <2>1. ms \in Seq(Message)
    BY <1>1, MessageIs, TwoMessages
  <2>2. dynamic' = dynamic \o ms /\ appended' = appended \o ms /\ toolTurns' = Append(toolTurns, turns + 1)
    BY <1>3 DEF ReplayTurn, Add
  <2>3. Whole(dynamic', toolTurns', turns', FALSE)
    BY <1>1, <1>2, <2>2, RoundAdded
  <2>4. (step' = "complete") = FALSE
    BY <1>2
  <2>5. UNCHANGED <<notes, prefixEpoch, hashed, measured, tooLarge, reported, prefixes, cutNow>>
    BY DEF ReplayTurn
  <2>6. Whole(dynamic', toolTurns', turns', step' = "complete")
    BY <2>3, <2>4
  <2> HIDE DEF ms
  <2> QED BY <1>2, <2>1, <2>2, <2>4, <2>5, <2>6, Appends
<1>4. CASE ~hasCalls
  <2> DEFINE ms == <<Text(turns + 1)>>
  <2>1. ms \in Seq(Message)
    BY <1>1, MessageIs, TwoMessages
  <2>2. dynamic' = dynamic \o ms /\ appended' = appended \o ms /\ toolTurns' = toolTurns
    BY <1>4 DEF ReplayTurn, Add
  <2>3. dynamic' = Append(dynamic, Text(turns + 1))
    BY <1>1, <2>2, MessageIs, ConcatTwo
  <2>4. Whole(dynamic', toolTurns', turns', FALSE)
    BY <1>1, <1>2, <2>2, <2>3, TextAdded
  <2>5. (step' = "complete") = FALSE
    BY <1>2
  <2>6. UNCHANGED <<notes, prefixEpoch, hashed, measured, tooLarge, reported, prefixes, cutNow>>
    BY DEF ReplayTurn
  <2>7. Whole(dynamic', toolTurns', turns', step' = "complete")
    BY <2>4, <2>5
  <2> HIDE DEF ms
  <2> QED BY <1>2, <2>1, <2>2, <2>5, <2>6, <2>7, Appends
<1> QED BY <1>3, <1>4

LEMMA ReplayOpenTurnKeeps ==
    ASSUME WinInv, ReplayOpenTurn
    PROVE  WinInv'
<1>1. Whole(dynamic, toolTurns, turns, FALSE) /\ dynamic \in Seq(Message) /\ turns + 1 \in Nat
  <2>1. Whole(dynamic, toolTurns, turns, FALSE)
    BY WinInvIs DEF ReplayOpenTurn
  <2> QED BY <2>1, WholeEnds
<1> DEFINE ms == <<Calls(turns + 1)>>
<1>2. ms \in Seq(Message)
  BY <1>1, MessageIs, TwoMessages
<1>3. /\ dynamic' = dynamic \o ms /\ appended' = appended \o ms /\ step' = "complete"
      /\ toolTurns' = Append(toolTurns, turns + 1) /\ turns' = turns + 1
      /\ UNCHANGED <<notes, prefixEpoch, hashed, measured, tooLarge, reported, prefixes, cutNow>>
  BY DEF ReplayOpenTurn, Add
<1>4. dynamic' = Append(dynamic, Calls(turns + 1))
  BY <1>1, <1>3, MessageIs, ConcatTwo
<1>5. Whole(dynamic', toolTurns', turns', TRUE) /\ dynamic'[Len(dynamic')] = Calls(turns')
  BY <1>1, <1>3, <1>4, CallsAdded
<1>6. (step' = "complete") = TRUE
  BY <1>3
<1>7. Whole(dynamic', toolTurns', turns', step' = "complete")
  BY <1>5, <1>6
<1> HIDE DEF ms
<1> QED BY <1>2, <1>3, <1>5, <1>6, <1>7, Appends

LEMMA CompleteOpenTurnKeeps ==
    ASSUME WinInv, CompleteOpenTurn
    PROVE  WinInv'
<1>1. /\ Whole(dynamic, toolTurns, turns, TRUE) /\ dynamic[Len(dynamic)] = Calls(turns)
      /\ dynamic \in Seq(Message) /\ turns \in Nat
  <2>1. Whole(dynamic, toolTurns, turns, TRUE) /\ dynamic[Len(dynamic)] = Calls(turns)
    BY WinInvIs DEF CompleteOpenTurn
  <2> QED BY <2>1, WholeEnds
<1> DEFINE ms == <<Observations(turns)>>
<1>2. ms \in Seq(Message)
  BY <1>1, MessageIs, TwoMessages
<1>3. /\ dynamic' = dynamic \o ms /\ appended' = appended \o ms /\ step' = "ask"
      /\ UNCHANGED <<turns, toolTurns>>
      /\ UNCHANGED <<notes, prefixEpoch, hashed, measured, tooLarge, reported, prefixes, cutNow>>
  BY DEF CompleteOpenTurn, Add
<1>4. dynamic' = Append(dynamic, Observations(turns))
  BY <1>1, <1>3, MessageIs, ConcatTwo
<1>5. Whole(dynamic', toolTurns', turns', FALSE)
  BY <1>1, <1>3, <1>4, ResultsAdded
<1>6. (step' = "complete") = FALSE
  BY <1>3
<1>7. Whole(dynamic', toolTurns', turns', step' = "complete")
  BY <1>5, <1>6
<1> HIDE DEF ms
<1> QED BY <1>2, <1>3, <1>6, <1>7, Appends

LEMMA AskModelKeeps ==
    ASSUME WinInv, NEW large \in BOOLEAN, AskModel(large)
    PROVE  WinInv'
<1>1. WinShape /\ EpochOfNotes /\ Counted /\ dynamic \in Seq(Message)
      /\ Whole(dynamic, toolTurns, turns, FALSE)
  BY WinInvIs DEF AskModel
<1>2. /\ measured' = <<Contributed + Len(dynamic)>> /\ tooLarge' = large /\ step' = "answer"
      /\ appended' = <<>> /\ cutNow' = FALSE /\ UNCHANGED <<dynamic, notes, turns, toolTurns>>
      /\ Snapshot /\ prefixes' = prefixes \cup {<<prefixEpoch', notes>>}
      /\ reported' = [said |-> SubSeq(dynamic, NewFrom - Contributed + 1, Len(dynamic)),
                      was |-> appended, cut |-> cutNow]
  BY DEF AskModel
<1>3. EpochOfNotes'
  BY <1>1, <1>2, SentEpoch
<1>4. /\ Contributed \in Nat /\ Len(dynamic) \in Nat /\ Contributed + Len(dynamic) \in Nat
      /\ Contributed + Len(dynamic) >= Contributed
  <2>1. Contributed \in Nat /\ Len(dynamic) \in Nat
    BY <1>1, WindowAssumption
  <2> QED BY <2>1
<1>5. /\ measured' \in Seq(Nat) /\ measured'[1] = Contributed + Len(dynamic) /\ measured' # <<>>
      /\ appended' \in Seq(Message) /\ Len(appended') = 0
  BY <1>2, <1>4
<1>6. WinShape'
  BY <1>1, <1>2, <1>4, <1>5 DEF WinShape
<1>7. Counted'
  <2>1. NewFrom' = Contributed + Len(dynamic)
    BY <1>5 DEF NewFrom
  <2>2. Len(dynamic') + Contributed = NewFrom' + Len(appended') /\ 1 .. Len(appended') = {}
    BY <1>2, <1>4, <1>5, <2>1
  <2>3. reported'.cut = cutNow /\ reported'.was = appended
        /\ reported'.said = SubSeq(dynamic, NewFrom - Contributed + 1, Len(dynamic))
    BY <1>2
  <2>4. ~reported'.cut => reported'.said = reported'.was
    BY <1>1, <2>3, MeasuredNew
  <2> QED BY <2>2, <2>4 DEF Counted
<1>8. Whole(dynamic', toolTurns', turns', step' \in {"complete", "over"})
  <2>1. (step' \in {"complete", "over"}) = FALSE
    BY <1>2
  <2> QED BY <1>1, <1>2, <2>1
<1>9. step' # "complete"
  BY <1>2
<1> QED BY <1>3, <1>6, <1>7, <1>8, <1>9 DEF WinInv

LEMMA TurnReturnsKeeps ==
    ASSUME WinInv, TurnReturns
    PROVE  WinInv'
<1>1. /\ WinShape /\ EpochOfNotes /\ Counted /\ dynamic \in Seq(Message)
      /\ Whole(dynamic, toolTurns, turns, FALSE)
  BY WinInvIs DEF TurnReturns
<1>2. turns + 1 \in Nat
  BY <1>1, WholeEnds
<1>3. PICK ms : ms = <<Calls(turns + 1), Observations(turns + 1)>>
  OBVIOUS
<1>4. ms \in Seq(Message)
  BY <1>2, <1>3, MessageIs, TwoMessages
<1>5. PICK window : window = dynamic \o ms
  OBVIOUS
<1>6. /\ appended' = appended \o ms /\ step' = "ask"
      /\ toolTurns' = Append(toolTurns, turns + 1) /\ turns' = turns + 1
      /\ UNCHANGED <<measured, tooLarge, reported, prefixes>>
      /\ IF tooLarge THEN Compact(window)
         ELSE dynamic' = window /\ UNCHANGED <<notes, prefixEpoch, hashed, cutNow>>
  BY <1>3, <1>5 DEF TurnReturns
<1>7. Whole(window, toolTurns', turns', FALSE)
  BY <1>1, <1>3, <1>5, <1>6, RoundAdded
<1>8. (step' = "complete") = FALSE /\ (step' \in {"complete", "over"}) = FALSE
  BY <1>6
<1>9. CASE dynamic' = window /\ UNCHANGED <<notes, prefixEpoch, hashed, cutNow>>
  <2>1. Whole(dynamic', toolTurns', turns', step' = "complete")
    BY <1>7, <1>8, <1>9
  <2> QED BY <1>4, <1>5, <1>6, <1>8, <1>9, <2>1, Appends
<1>10. CASE ~(dynamic' = window /\ UNCHANGED <<notes, prefixEpoch, hashed, cutNow>>)
  <2>1. /\ dynamic' = Without(window, OldestRounds(window))
        /\ notes' = notes + 1 /\ prefixEpoch' = prefixEpoch + 1 /\ hashed' = <<>> /\ cutNow' = TRUE
    BY <1>6, <1>10 DEF Compact
  <2>2. Whole(dynamic', toolTurns', turns', FALSE)
    BY <1>7, <2>1, CompactWhole
  <2>3. Whole(dynamic', toolTurns', turns', step' \in {"complete", "over"})
    BY <1>8, <2>2
  <2>4. appended' \in Seq(Message)
    BY <1>1, <1>4, <1>6, ConcatProperties DEF WinShape
  <2>5. WinShape'
    BY <1>1, <1>6, <2>1, <2>4 DEF WinShape
  <2>6. EpochOfNotes'
    BY <1>1, <1>6, <2>1 DEF EpochOfNotes, WinShape
  <2>7. Counted'
    BY <1>1, <1>6, <2>1 DEF Counted
  <2>8. step' # "complete"
    BY <1>6
  <2> QED BY <2>3, <2>5, <2>6, <2>7, <2>8 DEF WinInv
<1> QED BY <1>9, <1>10

\* A step that only says where executeTask is.
LEMMA MovesOn ==
    ASSUME WinInv, step' \in {"ask", "over"}, step' = "ask" => step = "replay",
           UNCHANGED <<dynamic, notes, prefixEpoch, hashed, measured, tooLarge, reported, turns, toolTurns,
                       appended, prefixes, cutNow>>
    PROVE  WinInv'
<1>1. /\ WinShape /\ EpochOfNotes /\ Counted /\ Whole(dynamic, toolTurns, turns, TRUE)
      /\ step = "replay" => Whole(dynamic, toolTurns, turns, FALSE)
  BY WinInvIs
<1>2. WinShape' /\ EpochOfNotes'
  BY <1>1 DEF WinShape, EpochOfNotes
<1>3. Counted'
  BY <1>1 DEF Counted, NewFrom
<1>4. Whole(dynamic', toolTurns', turns', step' \in {"complete", "over"})
  <2>1. CASE step' = "ask"
    <3>1. (step' \in {"complete", "over"}) = FALSE
      BY <2>1
    <3> QED BY <1>1, <2>1, <3>1
  <2>2. CASE step' = "over"
    <3>1. (step' \in {"complete", "over"}) = TRUE
      BY <2>2
    <3> QED BY <1>1, <3>1
  <2> QED BY <2>1, <2>2
<1>5. step' # "complete"
  OBVIOUS
<1> QED BY <1>2, <1>3, <1>4, <1>5 DEF WinInv

LEMMA WinStep == WinInv /\ [WinNext]_winVars => WinInv'
<1> SUFFICES ASSUME WinInv, [WinNext]_winVars PROVE WinInv'
  OBVIOUS
<1>1. ASSUME NEW hasCalls \in BOOLEAN, ReplayTurn(hasCalls) PROVE WinInv'
  BY <1>1, ReplayTurnKeeps
<1>2. CASE ReplayOpenTurn
  BY <1>2, ReplayOpenTurnKeeps
<1>3. CASE CompleteOpenTurn
  BY <1>3, CompleteOpenTurnKeeps
<1>4. CASE ReplayEnds
  BY <1>4, MovesOn DEF ReplayEnds
<1>5. ASSUME NEW large \in BOOLEAN, AskModel(large) PROVE WinInv'
  BY <1>5, AskModelKeeps
<1>6. CASE TurnReturns
  BY <1>6, TurnReturnsKeeps
<1>7. CASE WindowCloses
  BY <1>7, MovesOn DEF WindowCloses
<1>8. CASE UNCHANGED winVars
  BY <1>8 DEF winVars, WinInv, WinShape, EpochOfNotes, Counted, NewFrom
<1> QED BY <1>1, <1>2, <1>3, <1>4, <1>5, <1>6, <1>7, <1>8 DEF WinNext

(* The inductive invariant of the window: ContextManager as executeTask       *)
(* drives it keeps a whole transcript, and counts what it has sent.           *)
THEOREM WindowInvariant == WinSpec => []WinInv
  BY WinInitInv, WinStep, PTL DEF WinSpec

(* The type invariant of the window, for any number of rounds and of messages *)
(* that memory contributes.                                                   *)
THEOREM WindowTypes == WinSpec => []WinTypeOK
<1>1. WinInv => WinTypeOK
  <2> SUFFICES ASSUME WinInv PROVE WinTypeOK
    OBVIOUS
  <2>1. WinShape /\ EpochOfNotes /\ dynamic \in Seq(Message) /\ Whole(dynamic, toolTurns, turns, TRUE)
    BY WinInvIs
  <2>2. /\ notes \in Nat /\ prefixEpoch \in Nat /\ turns \in Nat
        /\ tooLarge \in BOOLEAN /\ cutNow \in BOOLEAN /\ measured \in Seq(Nat)
        /\ step \in {"replay", "complete", "ask", "answer", "over"}
    BY <2>1 DEF WinShape, EpochOfNotes, Whole
  <2>3. hashed \in Seq(Nat)
    <3>1. <<>> \in Seq(Nat) /\ <<notes>> \in Seq(Nat)
      BY <2>2
    <3>2. hashed = <<>> \/ hashed = <<notes>>
      BY <2>1 DEF EpochOfNotes
    <3> QED BY <3>1, <3>2
  <2>4. \A i \in DOMAIN dynamic : dynamic[i].role \in {"user", "calls", "results", "text"}
    <3>1. DOMAIN dynamic = 1 .. Len(dynamic) /\ \A i \in 1 .. Len(dynamic) : dynamic[i] \in Message
      BY <2>1, ElementOfSeq
    <3> QED BY <3>1 DEF Message
  <2> QED BY <2>2, <2>3, <2>4 DEF WinTypeOK
<1> QED BY <1>1, WindowInvariant, PTL

(* Whatever executeTask replays and compactHistory takes out, the model is    *)
(* asked with the statement of the Goal first, every round of calls next to   *)
(* its results, in order, the rounds without calls, and the last KeepRounds   *)
(* with calls: for any number of rounds, and any number of compactions.       *)
THEOREM TranscriptIsWhole == WinSpec => []TranscriptStaysWhole
<1>1. WinInv => TranscriptStaysWhole
  <2> SUFFICES ASSUME WinInv, step \in {"ask", "answer"}
               PROVE  /\ dynamic[1] = Statement
                      /\ \A i \in 2 .. Len(dynamic) :
                          /\ dynamic[i].role = "calls" =>
                                i < Len(dynamic) /\ dynamic[i + 1] = Observations(dynamic[i].turn)
                          /\ dynamic[i].role = "results" => dynamic[i - 1] = Calls(dynamic[i].turn)
                          /\ dynamic[i].turn >= dynamic[i - 1].turn
                      /\ \A n \in 1 .. turns :
                          n \notin Range(toolTurns) => Text(n) \in Range(dynamic)
                      /\ \A k \in DOMAIN toolTurns :
                          k > Len(toolTurns) - KeepRounds => Calls(toolTurns[k]) \in Range(dynamic)
    BY DEF TranscriptStaysWhole
  <2>1. Whole(dynamic, toolTurns, turns, FALSE)
    BY WinInvIs
  <2>2. Ordered(dynamic) /\ Answered(dynamic, FALSE) /\ Retained(dynamic, toolTurns, turns)
    BY <2>1 DEF Whole
  <2> QED BY <2>2 DEF Ordered, Answered, Retained
<1> QED BY <1>1, WindowInvariant, PTL

(* What a snapshot and a measure tell of a request is true: an epoch has one  *)
(* prefix and a prefix one epoch, and the messages measure calls new are      *)
(* those that are, unless some were taken out before.                         *)
THEOREM MeasuresAreTrue == WinSpec => []MeasuredAsSent
<1>1. WinInv => MeasuredAsSent
  <2> SUFFICES ASSUME WinInv PROVE MeasuredAsSent
    OBVIOUS
  <2>1. \A p \in prefixes : p[1] \in Nat /\ p[2] \in Nat /\ p[1] = p[2] + 1
    BY DEF WinInv, EpochOfNotes
  <2>2. \A p, q \in prefixes : p[1] = q[1] <=> p[2] = q[2]
    BY <2>1
  <2>3. ~reported.cut => reported.said = reported.was
    BY DEF WinInv, Counted
  <2> QED BY <2>2, <2>3 DEF MeasuredAsSent
<1> QED BY <1>1, WindowInvariant, PTL
===============================================================================
