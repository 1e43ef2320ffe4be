--------------------------- MODULE GoalExecution ---------------------------
(***************************************************************************)
(* executeTask of packages/runtime/src/gts/goal-executor.ts: the model     *)
(* proposes a round of tool calls, the executor persists one deliberation  *)
(* row and one invocation row per call, runs the calls one by one, feeds   *)
(* the results back and asks for the next round.  A user may stop the run, *)
(* the process may crash, and the task is then resumed from the rows.      *)
(*                                                                         *)
(* A call stands for its fingerprint (tool name and arguments), a call id  *)
(* for its position in the round.  The text of a round is "empty",         *)
(* "template" (placeholders that the results of the round can fill) or     *)
(* "plain" (anything else; a round that only reasons is one of these).     *)
(*                                                                         *)
(* Every save is an action of its own, so a crash or a stop may fall       *)
(* between any two of them.                                                *)
(***************************************************************************)
EXTENDS Naturals, Sequences, FiniteSets

CONSTANTS
    Calls,        \* call fingerprints
    Allowed,      \* fingerprints whose tool is in deps.allowedTools; {} = no allowlist
    Proposals,    \* the call sequences the model may propose in a round
    Costs,        \* what one model round may cost
    MaxCalls,     \* the longest proposal
    MaxSteps,     \* deps.maxSteps
    MaxCost,      \* deps.maxCostUsd
    RepeatLimit,  \* identical rounds tolerated (3 in the source)
    KeepRounds,   \* compactKeepRounds: rounds of calls a compaction leaves (4 in the source)
    MaxResumes,   \* bound: resumes in a behaviour
    MaxCrashes    \* bound: crashes in a behaviour

Pos == 1 .. MaxCalls

ASSUME ProposalsAssumption ==
    /\ Proposals \subseteq Seq(Calls)
    /\ \A calls \in Proposals : Len(calls) <= MaxCalls
    /\ Allowed \subseteq Calls
ASSUME BoundsAssumption ==
    /\ Costs \subseteq Nat
    /\ {MaxCalls, MaxSteps, MaxCost, RepeatLimit, KeepRounds, MaxResumes, MaxCrashes} \subseteq Nat

VARIABLES
    \* rows of the goal store
    goal,       \* status of the Goal row
    task,       \* status of the Task row, "none" before it is saved
    rounds,     \* the deliberation rows, each with the invocation rows listed after it
    \* the running executeTask
    pc,         \* where it is
    stop,       \* deps.signal.aborted
    phase,      \* "completion" while completeOpenRound runs, else "round"
    text,       \* text of the current round
    pos,        \* the call being scheduled or run
    out,        \* outputs of the current round
    executed,   \* executedCalls: the dedupe table
    prev,       \* prevCallKey
    repeats,    \* repeatCount
    spent,      \* spentUsd
    context,    \* the rounds told in the transcript so far, in the order they were appended
    removed,    \* those of them that compactHistory has taken out of it again
    \* history, read by the properties only
    ran,        \* how often each call was handed to the invoker
    shadowed,   \* succeeded invocation rows that are listed before their deliberation
    late,       \* calls handed to the invoker after the stop of this run
    lost,       \* crashes and thrown invocations
    resumes,
    crashes

store == <<goal, task, rounds>>
locals == <<stop, phase, text, pos, out, executed, prev, repeats, spent,
            context, removed>>
history == <<ran, shadowed, late, lost, resumes, crashes>>
vars == <<store, pc, locals, history>>

Text == {"empty", "plain", "template"}
RowStatus == {"none", "pending", "active", "succeeded", "error", "blocked"}
Output == {"none", "ok", "error", "replayed"}
Round == [calls : Proposals, row : [Pos -> RowStatus]]
Entry == [calls : Proposals, results : [Pos -> {"none", "ok", "error"}]]

\* Mutation: a failed call is one that still has to be run.
TerminalIfSucceeded(status) == status = "succeeded"

\* isTerminalInvocation; a call without a row has no observation either.
Terminal(status) == status \in {"succeeded", "error", "blocked"}

\* The positions of the calls of a round.
Slots(round) == DOMAIN round.calls

Open(round) == \E p \in Slots(round) : ~Terminal(round.row[p])

\* What the transcript says of a call with that row.
Observation(status) ==
    CASE status = "succeeded" -> "ok"
      [] status \in {"error", "blocked"} -> "error"
      [] OTHER -> "none"

Transcript(round) ==
    [calls |-> round.calls, results |-> [p \in Pos |-> Observation(round.row[p])]]

NoRows == [p \in Pos |-> "none"]
NoOutput == [p \in Pos |-> "none"]
NothingExecuted == [c \in Calls |-> "none"]

Current == Len(rounds)

----------------------------------------------------------------------------
(* Saving a row. *)

SaveRow(p, status) ==
    rounds' = [rounds EXCEPT ![Current] =
                  [calls |-> @.calls, row |-> [@.row EXCEPT ![p] = status]]]

\* SqliteGoalStore.saveStep is INSERT OR REPLACE and listSteps has no ORDER BY:
\* a row saved again is listed last.  After the deliberation is saved again its
\* invocation rows precede it, and replayPersistedSteps skips them.
ResaveDeliberation ==
    /\ rounds' = [rounds EXCEPT ![Current] = [calls |-> @.calls, row |-> NoRows]]
    /\ shadowed' = shadowed \cup
           {<<Current, p>> : p \in {q \in Pos : rounds[Current].row[q] = "succeeded"}}

\* The locals of executeTask vanish when it returns and when the process dies.
Forget ==
    /\ stop' = FALSE /\ phase' = "round" /\ text' = "empty"
    /\ pos' = 1 /\ out' = NoOutput
    /\ executed' = NothingExecuted
    /\ prev' = <<>> /\ repeats' = 0 /\ spent' = 0 /\ context' = <<>> /\ removed' = {}

\* saveTask with a terminal status, then return to runGoalTree.
Return(status) ==
    /\ task' = status
    /\ pc' = "returned"
    /\ Forget

----------------------------------------------------------------------------
(* Starting a run. *)

\* Mutation: a task that is there already is started again.
StartTaskAgain ==
    /\ pc = "idle" /\ goal = "active"
    /\ task' = "active"
    /\ pc' = "head"
    /\ UNCHANGED <<goal, rounds, locals, history>>

Start ==
    /\ pc = "idle" /\ goal = "active" /\ task = "none"
    /\ task' = "active"
    /\ pc' = "head"
    /\ UNCHANGED <<goal, rounds, locals, history>>

\* The rounds replayPersistedSteps reads: all of them, or up to the first open one.
Replayed ==
    IF \E i \in 1 .. Len(rounds) : Open(rounds[i])
    THEN CHOOSE i \in 1 .. Len(rounds) :
             Open(rounds[i]) /\ \A j \in 1 .. i - 1 : ~Open(rounds[j])
    ELSE Len(rounds)

OpenRound == Replayed > 0 /\ Open(rounds[Replayed])

SucceededIn(upTo) ==
    {c \in Calls : \E r \in 1 .. upTo, p \in Pos :
         rounds[r].row[p] = "succeeded" /\ rounds[r].calls[p] = c}

Resume ==
    /\ pc = "idle" /\ resumes < MaxResumes
    /\ goal \in {"active", "aborted"}
    /\ task \in {"active", "aborted", "failed"}
    /\ task' = "active"
    /\ executed' = [c \in Calls |-> IF c \in SucceededIn(Replayed) THEN "ok" ELSE "none"]
    /\ prev' = IF Replayed = 0 THEN <<>> ELSE rounds[Replayed].calls
    /\ IF OpenRound
       THEN /\ pc' = "complete" /\ phase' = "completion"
            /\ context' = [i \in 1 .. Replayed - 1 |-> Transcript(rounds[i])]
       ELSE /\ pc' = "head" /\ phase' = "round"
            /\ context' = [i \in 1 .. Replayed |-> Transcript(rounds[i])]
    /\ removed' = {}
    /\ resumes' = resumes + 1 /\ late' = 0
    /\ UNCHANGED <<goal, rounds, stop, text, pos, out, repeats, spent,
                   ran, shadowed, lost, crashes>>

----------------------------------------------------------------------------
(* completeOpenRound: the calls of the open round that have no observation. *)
(* The open round is the last one (OnlyLastRoundOpen), so it is Current.    *)

NextOpen(p) ==
    /\ p \in Slots(rounds[Current]) /\ ~Terminal(rounds[Current].row[p])
    /\ \A q \in 1 .. p - 1 : Terminal(rounds[Current].row[q])

CompletionStops ==
    /\ pc = "complete" /\ Open(rounds[Current]) /\ stop
    /\ Return("aborted")
    /\ UNCHANGED <<goal, rounds, history>>

\* A call that has no row gets one before it is run.
CreateMissingRow(p) ==
    /\ pc = "complete" /\ ~stop
    /\ NextOpen(p) /\ rounds[Current].row[p] = "none"
    /\ SaveRow(p, "pending")
    /\ pos' = p /\ pc' = "activate"
    /\ UNCHANGED <<goal, task, stop, phase, text, out, executed, prev, repeats, spent,
                   context, removed, history>>

ActivateMissingRow ==
    /\ pc = "activate"
    /\ SaveRow(pos, "active")
    /\ pc' = "invoke"
    /\ UNCHANGED <<goal, task, locals, history>>

ActivateOpenRow(p) ==
    /\ pc = "complete" /\ ~stop
    /\ NextOpen(p) /\ rounds[Current].row[p] # "none"
    /\ SaveRow(p, "active")
    /\ pos' = p /\ pc' = "invoke"
    /\ UNCHANGED <<goal, task, stop, phase, text, out, executed, prev, repeats, spent,
                   context, removed, history>>

\* Mutation: the results of the completed round are not sent.
CompletionForgetsResults ==
    /\ pc = "complete" /\ ~Open(rounds[Current])
    /\ pc' = "head" /\ phase' = "round"
    /\ UNCHANGED <<store, stop, text, pos, out, executed, prev, repeats, spent, context, removed,
                   history>>

\* Every call has its observation: one tool-results message, then the round loop.
CompletionEnds ==
    /\ pc = "complete" /\ ~Open(rounds[Current])
    /\ context' = Append(context, Transcript(rounds[Current]))
    /\ pc' = "head" /\ phase' = "round"
    /\ UNCHANGED <<store, stop, text, pos, out, executed, prev, repeats, spent, removed,
                   history>>

----------------------------------------------------------------------------
(* The round loop. *)

\* Mutation: off by one, so nothing is left to do after the last round.
MaxStepsPassed ==
    /\ pc = "head" /\ Current > MaxSteps
    /\ Return("failed")
    /\ UNCHANGED <<goal, rounds, history>>

MaxStepsReached ==
    /\ pc = "head" /\ Current >= MaxSteps
    /\ Return("failed")
    /\ UNCHANGED <<goal, rounds, history>>

StopAtHead ==
    /\ pc = "head" /\ Current < MaxSteps /\ stop
    /\ Return("aborted")
    /\ UNCHANGED <<goal, rounds, history>>

BudgetExceeded ==
    /\ pc = "head" /\ Current < MaxSteps /\ ~stop /\ spent >= MaxCost
    /\ Return("failed")
    /\ UNCHANGED <<goal, rounds, history>>

\* Mutation: off by one, a round too many.
RequestOneRoundMore ==
    /\ pc = "head" /\ Current <= MaxSteps /\ ~stop /\ spent < MaxCost
    /\ pc' = "request"
    /\ UNCHANGED <<store, locals, history>>

RequestRound ==
    /\ pc = "head" /\ Current < MaxSteps /\ ~stop /\ spent < MaxCost
    /\ pc' = "request"
    /\ UNCHANGED <<store, locals, history>>

\* The provider fails or the stop signal cuts the stream: the catch block.
RoundFails ==
    /\ pc = "request"
    /\ Return(IF stop THEN "aborted" ELSE "failed")
    /\ UNCHANGED <<goal, rounds, history>>

\* A round with any output is saved as a deliberation row.
RoundReturns(calls, said, cost) ==
    /\ pc = "request"
    /\ calls # <<>> \/ said # "empty"
    /\ spent' = spent + cost
    /\ rounds' = Append(rounds, [calls |-> calls, row |-> NoRows])
    /\ ran' = Append(ran, [p \in Pos |-> 0])
    /\ text' = said /\ out' = NoOutput /\ pos' = 1
    /\ pc' = "decide"
    /\ UNCHANGED <<goal, task, stop, phase, executed, prev, repeats, context, removed,
                   shadowed, late, lost, resumes, crashes>>

\* A round without any output is an empty final answer and leaves no row.
EmptyRoundReturns ==
    /\ pc = "request"
    /\ Return("succeeded")
    /\ UNCHANGED <<goal, rounds, history>>

FinalAnswer ==
    /\ pc = "decide" /\ rounds[Current].calls = <<>>
    /\ Return("succeeded")
    /\ UNCHANGED <<goal, rounds, history>>

RepeatsNow == IF rounds[Current].calls = prev THEN repeats + 1 ELSE 0

\* The last of RepeatLimit repetitions ends the task with what the model said.
\* The deliberation is saved again; it has no invocation rows yet.
NotConverging ==
    /\ pc = "decide" /\ rounds[Current].calls # <<>> /\ RepeatsNow >= RepeatLimit
    /\ Return("succeeded")
    /\ UNCHANGED <<goal, rounds, history>>

Blocked(round) == {p \in Slots(round) : Allowed # {} /\ round.calls[p] \notin Allowed}

\* The allowlist rejects the whole round: the first offender gets a blocked row.
RejectRound ==
    /\ pc = "decide" /\ rounds[Current].calls # <<>> /\ RepeatsNow < RepeatLimit
    /\ \E p \in Blocked(rounds[Current]) :
         /\ \A q \in Blocked(rounds[Current]) : p <= q
         /\ SaveRow(p, "blocked")
    /\ repeats' = RepeatsNow /\ prev' = rounds[Current].calls
    /\ pc' = "reject"
    /\ UNCHANGED <<goal, task, stop, phase, text, pos, out, executed, spent, context, removed,
                   history>>

RejectTask ==
    /\ pc = "reject"
    /\ Return("failed")
    /\ UNCHANGED <<goal, rounds, history>>

AcceptRound ==
    /\ pc = "decide" /\ rounds[Current].calls # <<>> /\ RepeatsNow < RepeatLimit
    /\ Blocked(rounds[Current]) = {}
    /\ repeats' = RepeatsNow /\ prev' = rounds[Current].calls
    /\ pc' = "schedule"
    /\ UNCHANGED <<store, stop, phase, text, pos, out, executed, spent, context, removed, history>>

\* All invocation rows are saved as pending before the first call runs.
Schedule ==
    /\ pc = "schedule"
    /\ SaveRow(pos, "pending")
    /\ IF pos < Len(rounds[Current].calls)
       THEN pos' = pos + 1 /\ UNCHANGED pc
       ELSE pos' = 1 /\ pc' = "run"
    /\ UNCHANGED <<goal, task, stop, phase, text, out, executed, prev, repeats, spent,
                   context, removed, history>>

StopBeforeCall ==
    /\ pc = "run" /\ pos <= Len(rounds[Current].calls) /\ stop
    /\ Return("aborted")
    /\ UNCHANGED <<goal, rounds, history>>

\* Mutation: the stop signal is read once a round.
ActivateWithoutStopCheck ==
    /\ pc = "run" /\ pos <= Len(rounds[Current].calls)
    /\ SaveRow(pos, "active")
    /\ pc' = "invoke"
    /\ UNCHANGED <<goal, task, locals, history>>

ActivateCall ==
    /\ pc = "run" /\ pos <= Len(rounds[Current].calls) /\ ~stop
    /\ SaveRow(pos, "active")
    /\ pc' = "invoke"
    /\ UNCHANGED <<goal, task, locals, history>>

----------------------------------------------------------------------------
(* Running a call, in the round loop and in completeOpenRound alike. *)

Call == rounds[Current].calls[pos]

\* Only the round loop consults the dedupe table.
Deduplicated == phase = "round" /\ executed[Call] = "ok"

ReuseResult ==
    /\ pc = "invoke" /\ Deduplicated
    /\ out' = [out EXCEPT ![pos] = "replayed"]
    /\ pc' = "record"
    /\ UNCHANGED <<store, stop, phase, text, pos, executed, prev, repeats, spent, context, removed,
                   history>>

HandToInvoker ==
    /\ ran' = [ran EXCEPT ![Current][pos] = @ + 1]
    /\ late' = IF stop THEN late + 1 ELSE late

\* Mutation: a failed call enters the dedupe table as a success.
InvokeCountsErrors(result) ==
    /\ pc = "invoke" /\ ~Deduplicated
    /\ HandToInvoker
    /\ executed' = [executed EXCEPT ![Call] = "ok"]
    /\ out' = [out EXCEPT ![pos] = result]
    /\ pc' = "record"
    /\ UNCHANGED <<store, stop, phase, text, pos, prev, repeats, spent, context, removed,
                   shadowed, lost, resumes, crashes>>

\* Mutation: the dedupe table is only filled by replayPersistedSteps.
InvokeForgets(result) ==
    /\ pc = "invoke" /\ ~Deduplicated
    /\ HandToInvoker
    /\ out' = [out EXCEPT ![pos] = result]
    /\ pc' = "record"
    /\ UNCHANGED <<store, stop, phase, text, pos, executed, prev, repeats, spent, context, removed,
                   shadowed, lost, resumes, crashes>>

Invoke(result) ==
    /\ pc = "invoke" /\ ~Deduplicated
    /\ HandToInvoker
    /\ executed' = [executed EXCEPT ![Call] = result]
    /\ out' = [out EXCEPT ![pos] = result]
    /\ pc' = "record"
    /\ UNCHANGED <<store, stop, phase, text, pos, prev, repeats, spent, context, removed,
                   shadowed, lost, resumes, crashes>>

\* The invoker throws instead of returning: the catch block, the row stays active.
InvokeThrows ==
    /\ pc = "invoke" /\ ~Deduplicated
    /\ HandToInvoker
    /\ lost' = lost + 1
    /\ Return(IF stop THEN "aborted" ELSE "failed")
    /\ UNCHANGED <<goal, rounds, shadowed, resumes, crashes>>

\* Mutation: the row of a failed call stays active.
RecordSuccessOnly ==
    /\ pc = "record"
    /\ SaveRow(pos, IF out[pos] = "error" THEN "active" ELSE "succeeded")
    /\ IF phase = "round"
       THEN pos' = pos + 1 /\ pc' = "run"
       ELSE UNCHANGED pos /\ pc' = "complete"
    /\ UNCHANGED <<goal, task, stop, phase, text, out, executed, prev, repeats, spent,
                   context, removed, history>>

\* Mutation: the row takes over what the output says.
RecordOutput ==
    /\ pc = "record"
    /\ SaveRow(pos, IF out[pos] = "ok" THEN "succeeded" ELSE out[pos])
    /\ IF phase = "round"
       THEN pos' = pos + 1 /\ pc' = "run"
       ELSE UNCHANGED pos /\ pc' = "complete"
    /\ UNCHANGED <<goal, task, stop, phase, text, out, executed, prev, repeats, spent,
                   context, removed, history>>

RecordResult ==
    /\ pc = "record"
    /\ SaveRow(pos, IF out[pos] = "error" THEN "error" ELSE "succeeded")
    /\ IF phase = "round"
       THEN pos' = pos + 1 /\ pc' = "run"
       ELSE UNCHANGED pos /\ pc' = "complete"
    /\ UNCHANGED <<goal, task, stop, phase, text, out, executed, prev, repeats, spent,
                   context, removed, history>>

----------------------------------------------------------------------------
(* The end of a round whose calls all ran. *)

RoundRan == pc = "run" /\ pos > Len(rounds[Current].calls)

\* decideFinalize: the placeholders can be filled and nothing failed.
Renders == /\ text = "template"
           /\ \A p \in Slots(rounds[Current]) : out[p] # "error"

\* Nothing new was run and the model said nothing.
OnlyRepeats == /\ text = "empty"
               /\ \A p \in Slots(rounds[Current]) : out[p] = "replayed"

\* The final answer is written into the deliberation row, which is saved again.
FinalizeRound ==
    /\ RoundRan /\ (Renders \/ OnlyRepeats)
    /\ ResaveDeliberation
    /\ pc' = "finalized"
    /\ UNCHANGED <<goal, task, locals, ran, late, lost, resumes, crashes>>

FinishTask ==
    /\ pc = "finalized"
    /\ Return("succeeded")
    /\ UNCHANGED <<goal, rounds, history>>

Result(output) == IF output = "replayed" THEN "ok" ELSE output

\* The rounds of calls that the transcript still has: those compactHistory groups.
ToolRounds(told, gone) == {r \in DOMAIN told \ gone : told[r].calls # <<>>}

\* Mutation: one round too many is taken out.
OldestAndOneMore(grouped) ==
    {r \in grouped : Cardinality({s \in grouped : s >= r}) >= KeepRounds}

\* What compactHistory takes out: all rounds of calls but the last KeepRounds.
OldestRounds(grouped) ==
    {r \in grouped : Cardinality({s \in grouped : s > r}) >= KeepRounds}

\* shouldCompact goes by the size of the request that was answered: `large` says that
\* it reached the threshold.
FeedBack(large) ==
    /\ RoundRan /\ ~Renders /\ ~OnlyRepeats
    /\ context' = Append(context, [calls |-> rounds[Current].calls,
                                   results |-> [p \in Pos |-> Result(out[p])]])
    /\ removed' = IF large THEN removed \cup OldestRounds(ToolRounds(context', removed))
                  ELSE removed
    /\ pc' = "head"
    /\ UNCHANGED <<store, stop, phase, text, pos, out, executed, prev, repeats, spent,
                   history>>

----------------------------------------------------------------------------
(* Around executeTask. *)

\* executeGoalTree settles the Goal row from the outcome of its task.
SettleGoal ==
    /\ pc = "returned"
    /\ goal' = task
    /\ pc' = "idle"
    /\ UNCHANGED <<task, rounds, locals, history>>

\* stopGoalTree finds the controller of the run.
Stop ==
    /\ pc \notin {"idle", "returned"} /\ ~stop
    /\ stop' = TRUE
    /\ UNCHANGED <<store, pc, phase, text, pos, out, executed, prev, repeats, spent,
                   context, removed, history>>

\* The process dies: what is in memory is gone.
Crash ==
    /\ pc # "idle" /\ crashes < MaxCrashes
    /\ crashes' = crashes + 1 /\ lost' = lost + 1
    /\ pc' = "idle"
    /\ Forget
    /\ UNCHANGED <<store, ran, shadowed, late, resumes>>

Init ==
    /\ goal = "active" /\ task = "none" /\ rounds = <<>>
    /\ pc = "idle" /\ stop = FALSE /\ phase = "round" /\ text = "empty"
    /\ pos = 1 /\ out = NoOutput
    /\ executed = NothingExecuted
    /\ prev = <<>> /\ repeats = 0 /\ spent = 0 /\ context = <<>> /\ removed = {}
    /\ ran = <<>> /\ shadowed = {} /\ late = 0 /\ lost = 0
    /\ resumes = 0 /\ crashes = 0

Executor ==
    \/ \E p \in Pos : CreateMissingRow(p) \/ ActivateOpenRow(p)
    \/ CompletionStops \/ ActivateMissingRow \/ CompletionEnds
    \/ MaxStepsReached \/ StopAtHead \/ BudgetExceeded \/ RequestRound \/ RoundFails
    \/ \E calls \in Proposals, said \in Text, cost \in Costs : RoundReturns(calls, said, cost)
    \/ EmptyRoundReturns
    \/ FinalAnswer \/ NotConverging \/ RejectRound \/ RejectTask \/ AcceptRound
    \/ Schedule \/ StopBeforeCall \/ ActivateCall
    \/ ReuseResult \/ (\E result \in {"ok", "error"} : Invoke(result)) \/ InvokeThrows
    \/ RecordResult \/ FinalizeRound \/ FinishTask
    \/ \E large \in BOOLEAN : FeedBack(large)
    \/ SettleGoal

Next == Start \/ Resume \/ Stop \/ Crash \/ Executor

Spec == Init /\ [][Next]_vars

\* A provider round ends by its timeout and a tool call returns or throws, so a
\* run that can take a step takes it.  Nobody has to resume, stop or crash.
FairSpec == Spec /\ WF_vars(Executor)

----------------------------------------------------------------------------
(* Properties. *)

\* Every variable keeps its shape, and `ran` follows the deliberation rows.
TypeOK ==
    /\ goal \in {"active", "aborted", "succeeded", "failed"}
    /\ task \in {"none", "active", "aborted", "succeeded", "failed"}
    /\ rounds \in Seq(Round)
    /\ pc \in {"idle", "complete", "activate", "head", "request", "decide", "reject",
               "schedule", "run", "invoke", "record", "finalized", "returned"}
    /\ stop \in BOOLEAN
    /\ phase \in {"completion", "round"}
    /\ text \in Text
    /\ pos \in Nat \ {0}
    /\ out \in [Pos -> Output]
    /\ executed \in [Calls -> {"none", "ok", "error"}]
    /\ prev \in Proposals \cup {<<>>}
    /\ context \in Seq(Entry) /\ removed \subseteq Nat
    /\ ran \in Seq([Pos -> Nat]) /\ Len(ran) = Len(rounds)
    /\ shadowed \subseteq Nat \X Pos
    /\ {repeats, spent, late, lost, resumes, crashes} \subseteq Nat

\* Replay stops at the first open round and hands back only its calls; that is
\* sound because only the last deliberation may have calls without a result,
\* whatever was stopped or lost before.
OnlyLastRoundOpen == \A r \in 1 .. Len(rounds) - 1 : ~Open(rounds[r])

\* The step limit of the task is not started afresh by a resume: a task never has
\* more deliberation rows than maxSteps.
RoundsWithinLimit == Len(rounds) <= MaxSteps

\* What the model is sent: the rounds that were told and not taken out.
Sent == [r \in DOMAIN context \ removed |-> context[r]]

\* The rounds of calls behind round r.
CallsBehind(r) == {s \in r + 1 .. Len(rounds) : rounds[s].calls # <<>>}

\* The transcript of every model request is the one the rows tell: each call of
\* each earlier round is answered, with the result its row records, also when
\* the rounds were run by earlier processes.  Compaction leaves out only rounds of
\* calls that lie at least KeepRounds such rounds back.
TranscriptMatchesStore ==
    pc = "request" =>
        /\ Sent = [r \in 1 .. Len(rounds) \ removed |-> Transcript(rounds[r])]
        /\ \A r \in removed \cap 1 .. Len(rounds) :
               rounds[r].calls # <<>> /\ Cardinality(CallsBehind(r)) >= KeepRounds

\* A result is replayed to the model only if some call of that fingerprint
\* succeeded and its row says so.
DedupeTableSound ==
    \A c \in Calls : executed[c] = "ok" =>
        \/ c \in SucceededIn(Len(rounds))
        \/ \E rp \in shadowed : rounds[rp[1]].calls[rp[2]] = c
        \/ pc = "record" /\ Call = c

\* A call is handed to the invoker again only when a crash or a throw lost its
\* result: stopping and resuming alone never runs a call twice.
RepeatedOnlyAfterLoss == \A r \in 1 .. Len(ran) : \A p \in Pos : ran[r][p] <= 1 + lost

\* "The whole round is rejected": no call of a round that proposes a tool outside
\* the allowlist reaches the invoker.
RejectedRoundRunsNothing ==
    \A r \in 1 .. Len(rounds) : Blocked(rounds[r]) # {} => \A p \in Pos : ran[r][p] = 0

\* Once the stop signal is set the run hands at most one more call to the invoker.
StopStartsAtMostOneCall == late <= 1

\* A task whose row says succeeded is never touched again, by any later resume.
SucceededIsFinal == [][task = "succeeded" => UNCHANGED <<task, rounds, ran>>]_vars

\* "Calls that succeeded fill the table again, after a resume they are not executed
\* again": no call is handed out that has succeeded in an earlier round.
NoDuplicateExecution ==
    [][pc = "invoke" /\ ran' # ran => Call \notin SucceededIn(Current - 1)]_vars

\* As far as the code keeps it, the calls of the same round included: until the task is
\* resumed.
NoDuplicateBeforeResume ==
    [][pc = "invoke" /\ ran' # ran /\ resumes = 0 =>
           Call \notin SucceededIn(Len(rounds))]_vars

\* The task as its readers see it: whatever happens between two saves, its row
\* turns terminal only by the executor that runs it, and once succeeded it stays so.
Life == INSTANCE TaskLife WITH
    status <- task,
    running <- pc \notin {"idle", "returned"}

ImplementsTaskLife == Life!Spec

\* Every run comes to its end.
RunEnds == pc # "idle" ~> pc = "idle"

=============================================================================
