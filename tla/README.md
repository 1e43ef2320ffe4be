# Formal model of mazi

mazi runs *Goals*: a user states one, a plan splits it into *Tasks*, and for
each Task a model proposes rounds of tool calls that the harness authorises, runs,
records and feeds back, until the model answers. Everything is persisted row by row
so that a run that was stopped, or whose process died, can be resumed.

This directory models the part of that program whose mistakes a unit test hardly
reaches: what happens when a stop, a crash, a timeout, an answer of the user or
another run falls between two of its steps.

Paths below are relative to the repository; `runtime/` stands for
`packages/runtime/src/`, `core/` for `packages/core/src/`, `api/` for
`apps/api/src/`.

## 1. The system

A session is served by one Node process: HTTP handlers (`api/`) around one
`HarnessRuntime` per workspace (`runtime/harness/runtime.ts`). Node runs one
callback at a time, so handlers interleave only where they `await` something that
really waits: the stream of a provider, a tool, the answer of a user, a pause. The
stores are synchronous SQLite or files behind `async` signatures: an `await` on them
lets nothing but microtasks in, but the process may die between any two of them.

| Component | State | Operations | Talks to |
|---|---|---|---|
| task executor, `runtime/gts/goal-executor.ts` | rows of Task, Step; locals: dedupe table, transcript, repeat counter, cost | `executeTask`, `replayPersistedSteps`, `completeOpenRound` | goal store (saves), provider round (`await`), gateway (`await`), abort signal |
| goal tree, `runtime/strategy/goal-strategy.ts`, `runtime/gts/plan-graph.ts`, `replan.ts` | plan, cursor, outcomes, Goal row | `runGoalTree`, compile and order a plan, verify, replan | task executor, planner and verifier (models) |
| harness runtime, `runtime/harness/runtime.ts` | abort controllers, options of Goals not yet run, gateways | `createGoalSession`, `executeGoalTree`, `stopGoalTree`, `resumeGoalTree`, tools and effects | goal tree, stores, bus |
| goal store, `runtime/memory/goal-store.ts` | SQLite rows | INSERT OR REPLACE per row, listing in the order of the last save | |
| provider round, `runtime/provider/orchestrator.ts`, `retry.ts`, `health.ts`, `limiter.ts` | breaker, health score and slots of an endpoint, where they are wired | `RoundExecutor.execute`: candidates, retries, failover | vendors' streams |
| tool gateway, `core/authz/gateway.ts`, `runtime/tool-gateway/` | per run: dataflow ledger, taint, grants of the run; per process: approvals, waiting questions | `invoke`, `settle`, `decide`, `cancelAll` | user (answers over HTTP), tools |
| effect journal, `runtime/effects/effect-store.ts` | records of file changes | append, list, `rollbackEffects` | files |
| event bus, `runtime/events/` | chain heads and a queue of writes per runtime; JSONL files, one per root Goal, shared by all runtimes | `emit`, replay, verify the chain | all |
| experiments, `runtime/experiment/`, `api/experiments/` | append-only log of an A/B experiment, one lock | create, execute, cancel, fold | a harness of its own per workspace |
| model catalogue, `runtime/provider/catalog/` | models, price plans, epochs, ledger of usage | import, sync, snapshot, bill, backfill | provider round (bills), service (boots it) |
| delegation, `runtime/agent/` | edges; ceiling, budget and depth of each child | `delegate`: children as Goals of their own | harness runtime |
| contract of a Goal, `runtime/gts/acceptance.ts`, `negotiation.ts` | clauses, questions, verdicts | triage, reply, verify, settle | harness runtime, models |
| context, `runtime/harness/context-manager.ts` | transcript, notes, prefix epoch | append, replay, measure, compact | task executor |
| wiki, `runtime/wiki/` | one scan and one list of changes per harness; pages | begin, observe, flush | harness runtime |
| authorisation policy, `core/authz/` | registry of labels | `derive`, `resolveLabel`, `assessQuestions` | tool gateway |
| blackboard, memory, prompts, capabilities, features, evaluation, analysis, metrics | documents and rows | mostly one writer each | |
| service, `api/` | cache of runtimes, the run lock, the selected workspace, conversations | endpoints | harness runtime |
| web interface, `apps/webui` | views; the open approvals of a run | `watchEvents`, `respondApproval` | service (HTTP, SSE) |

`PROJECT.json` lists every component with its files and what is done about it.

### What is hard, and what correct means there

* **Task executor.** One deliberation row, then one row per call, then two more
  saves per call: a crash may fall between any two, and the only trace of what the
  dead process did is the rows. Correct: a resume knows which calls have no result,
  runs those and no others, sends the model the transcript the rows stand for, does
  not start the step limit afresh, does not touch a Task that succeeded.
* **Goal tree.** The order of rows changes as they are saved again, plans are
  replaced while half done, a resume has to rebuild the plan from rows. Correct:
  dependencies first, the Goal row says what became of the last task, nothing that
  has succeeded runs again, a resume finishes the plan.
* **Provider round.** In the stack of `assembleProviderStack` all rounds share one breaker
  and one limiter per endpoint, and end in many ways. (`HarnessRuntime` builds its
  `RoundExecutor` without limiter, breaker and health score, `runtime.ts:365-369`: its rounds
  have the candidates, timers, retries and failover only.) Correct: never more streams than slots, at most
  one probe per cooldown, no breaker open without reason, bounded attempts, every
  round ends.
* **Gateway and journal.** A call is judged, waits for a person for minutes, and is
  started on a state that has changed since; what a person granted outlives the run
  that asked. Correct: nothing gated starts without a grant that covers it, nobody is
  asked twice for what they granted, data does not leave under a grant given without
  knowing, the journal undoes what tools did.
* **Audit log and page.** An event is chained in memory, written in a later microtask,
  sent to the page at once; writes fail, streams break, processes end. Correct: an honest
  log verifies, and a page that has caught up shows exactly what its run waits with.
* **Experiments.** Two arms run side by side for minutes under one lock, fail apart, and
  every event may be the last one before a crash. Correct: no arm runs twice at once or
  is measured twice, and what is compared is what is shown.
* **Catalogue.** Prices are edited, dated, imported again at each start, and billed from
  two sides. Correct: the price in force is the last one imported, importing the same
  again changes nothing, a saved step is billed.
* **Delegation.** Children are Goals of their own and the only account of what they were
  given is written when they have ended. Correct: shares fit the budget, ceilings only
  go down, the depth is bounded.
* **Contract.** Triage, replies and runs append to, copy and settle one row in nobody's
  order. Correct: no clause is lost, and "satisfied" is said of all clauses.
* **Context.** A transcript is replayed, measured and cut. Correct: what is sent is a
  transcript the model can take, and what is told of it is true.
* **Wiki.** One writer serves runs that overlap. Correct: no change goes untold.
* **Service.** Settings are applied by closing runtimes, chats are deleted while their
  runs execute. Correct: a run keeps its runtime, lists and rows agree.

`PROJECT.json`, "hazards", has each of these at its line, with the properties that
watch it.

## 2. Modules

| Module | Models | State | One action per |
|---|---|---|---|
| `TaskLife` | what a Task row promises its readers (abstract) | `status`, `running` | change of the row |
| `GoalExecution` | `executeTask` with replay and completion | rows `goal`, `task`, `rounds`; locals of the function; history | save, request, call, early return |
| `GoalTree` | `executeGoalTree`/`runGoalTree`, stop, resume, replan | rows `goal`, `tasks`, `listed`; the run | task begun or ended, verdict, revision, save of a revised task |
| `ProviderRound` | `RoundExecutor.execute`, breaker, health, limiter | per round: candidate, attempts, timer; per endpoint: breaker, failures, probe, score, slots | `await` of a round; timer, abort, cooldown |
| `ToolInvocation` | `invoke`, approvals, ledger, effect journal, rollback | files, journal, approvals; per run: gateway; per call: its place in `invoke` | stage that waits; tool; rollback, new run, crash |
| `EventLog` | `DefaultEventBus` and its files | chains per bus and root, queues, files | emit, write, failed write, crash, restart |
| `RunView` | the page of a run, its stream and its approvals; extends `EventLog` | questions waiting, stream, frames under way, approvals shown | question, answer, timer, connect, break, frame |
| `ExperimentRun` | `ExperimentRunner` and `ExperimentsService` | the fold of the log; executions, lock, signals | append that the code makes alone, arm prepared, run, ended; cancel |
| `Catalogue` | `CatalogService`, import, billing, backfill | configuration, plans, snapshot, ledger, calls | edit, import, boot, attach, bill, save, backfill, end of the process |
| `RuntimeService` | `RuntimeService`, `SessionsService`, `ConversationsService` | cache of runtimes, selected workspace, lock, chats, rows | request, or part of one between its waits |
| `Delegation` | `delegateAgents`, `DelegationCoordinator` | state, ceiling, share, depth of agents; edges | delegation, end or throw of a run, end of the process, resume |
| `GoalContract` | clauses, triage, replies, verification, settlement | row of the Goal, Tasks, the copy a run has | answer of triage, reply, step of a run, loss of the process |
| `ContextWindow` | `ContextManager` as `executeTask` drives it | messages, notes, epoch, what the last measure saw | replay, request, round |
| `WikiLog` | `WikiWriter` and its callers | scan, list, flushes, pages | begin, write, observed step, flush in two parts, refusal, throw |
| `AuthPolicy` | `derive` with `resolveLabel` and `assessQuestions` (pure operators) | | |
| `MC...` | instances for TLC; `MCService` puts nine parts into one model | | |
| `GoalExecution_proofs`, `GoalTree_proofs`, `ToolInvocation_proofs` | theorems about the module they are named after | | |
| `Records_proofs` | theorems about `EventLog`, `RunView` and `WikiLog` | | |
| `Service_proofs` | theorems about `RuntimeService`, `ExperimentRun` and `Catalogue` | | |
| `Conversation_proofs` | theorems about `GoalContract` and `ContextWindow` | | |
| `Limits_proofs` | theorems about `Delegation`, `AuthPolicy` and `ProviderRound` | | |
| `MCService_proofs` | that `MCService` is its parts, and what follows | | |

They fit together at these seams: `GoalTree` begins and ends a task where
`GoalExecution` runs it, and both are shown to implement `TaskLife`; `RequestRound` ..
`RoundReturns` or `RoundFails` of `GoalExecution` stand for one round of
`ProviderRound`; `Invoke` and `InvokeThrows` stand for one call of `ToolInvocation`.
`RunView` extends `EventLog`: its questions are those a call of `ToolInvocation` waits
with, and every step of it that emits is a step of the log. `Delegate` of `Delegation` is
one such call whose tool makes Goals; `ContextWindow` is the transcript that
`GoalExecution` keeps as the rounds it was made of; the tier of a call in `ToolInvocation`
is what `AuthPolicy` derives, where the capability alone decides it.

### From code to model

*Granularity.* An action is what the code does between two points where something
else can happen. In `GoalExecution`, `GoalTree` and `ToolInvocation` these are the saves (a
crash may fall there) and the real waits; in `ProviderRound`, which keeps nothing on disk,
only the waits. A stop is a signal set at any time and read where the code
reads it.

*What survives a crash.* The first group of VARIABLES of a module is on disk, the
rest is memory; `Crash` clears the memory. History variables are marked as such, and
no guard reads them (the bounds on runs, resumes and crashes excepted).

*Abstractions.*
* A tool call is its fingerprint (name and arguments, the key of the code's dedupe
  table), a round the sequence of its calls with one of three kinds of text, which is
  what finalisation tells apart.
* Compaction takes rounds out of the transcript of `GoalExecution`. Whether a request was
  large enough for it is chosen freely at each round; the note that stands for the rounds taken out,
  and the epochs of the prefix, are in `ContextWindow`.
* A provider's answer, a tool's result, a verdict, a revised plan are chosen freely.
* `ProviderRound` has no clock: a timer may fire and a breaker may cool down at any
  time. The token buckets of the limiter (rpm, tpm) are left out: they only delay.
  The failure counter stops at the threshold, with which alone it is compared.
* `GoalTree` has a task either end by itself or be cut by a stop; what happens inside
  is `GoalExecution`.
* `ToolInvocation` folds the labels of assets, scopes, permission levels and hard
  floors into the tier a call comes out with. The step budget and the secret service
  of the gateway are left out: the runtime binds neither. The taint of files is kept as
  the code keeps it: it is shown to who is asked, no decision reads it. The gateway admits
  overlapping calls, and so does the model, although the executor makes one at a time.
  Records of effects are restored newest first, as the SQLite store lists them.
* `EventLog` counts events where the code hashes them, and keeps only the lines a reader can
  parse. `Catalogue` has one provider, whose default model has a price; time is a counter.
  `ContextWindow` knows of a size only whether it reaches the threshold. `WikiLog` has a
  version per file for its content. `Delegation` ranks permission levels by numbers.
  `GoalContract` has the default plan of one Task; clauses are numbered as they are made.
* `AuthPolicy` is given which assets a declaration matches and which capabilities write,
  which the code finds out from strings; labels and tiers are their ranks.
* Two behaviours of SQLite matter and are modelled: a row that is saved again is
  listed last (`INSERT OR REPLACE`, no `ORDER BY`). In `GoalTree` this is the variable
  `listed`; in `GoalExecution` it is `ResaveDeliberation`, after which the call rows of
  the round come before it and a replay does not see them.

## 3. Runs

| Run | Instance | Distinct states | Shows |
|---|---|---|---|
| `task` | two calls, one not allowed; rounds of up to two calls, a repeated one included; 3 steps, cost 2, 1 round kept by a compaction, 2 resumes, 1 crash | 707 787 | the executor's properties, its liveness, and that it implements `TaskLife` |
| `task_duplicate` | the same, no crash | | a resumed round repeats a call of an earlier round that has succeeded (finding) |
| `task_rejected` | the same | | a rejected round is run by a resume (finding) |
| `provider_slots` | 2 rounds, 1 endpoint listed twice, 2 slots, 3 attempts, breaker after 2 failures; with fairness | | a failed attempt keeps its slot: rounds wait for ever (finding) |
| `tree` | plans of one and two tasks, listed in or against their order, and a cyclic one; 1 replan, 2 runs, 1 crash | 178 172 | the goal tree's properties, liveness, `TaskLife` for each task |
| `tree_dropped` | the same, no crash, no replan | | a resume forgets tasks that had not begun (finding) |
| `gateway` | 2 Goals of different permission in 2 conversations, 2 calls out of 6 kinds, 1 file, 1 crash, any rollbacks and new runs | 69 482 | approvals, dataflow, journal, the timer of a question |
| `gateway_resume` | the same | | a resumed Goal has lost its conversation's grants (finding) |
| `service` | the nine parts below, each by itself | 674 011 | the properties of `RunView` with `EventLog`, `ExperimentRun`, `Catalogue`, `RuntimeService`, `Delegation`, `GoalContract`, `ContextWindow`, `WikiLog`, `ProviderRound` |
| `settings_restart` | the part `chats` of `service`, no end of the process | | a save of settings closes the runtime of a run that executes (finding) |
| `contract_answers` | triage, one Task, two replies | | a reply to answered questions appends its clause (finding) |
| `catalogue_backfill` | one call, two boots | | a round is billed twice (finding) |

`service` chooses a part in its first state, and only the variables of that part move: its
state graph is the sum of theirs, not a product. The parts do not share state in the code
either, beyond the rows each module names; what is gained is one run for one set of bounds.

| Part | Module | Instance | Distinct states |
|---|---|---|---|
| `records` | `RunView` | 2 roots, 2 runtimes, 2 questions of one run, 4 events, a failed write, a restart (symmetric) | 114 000 |
| `experiment` | `ExperimentRun` | 2 arms, 2 executions, 1 crash, the disk full and cleared once, a resolver that throws | 74 500 |
| `catalogue` | `Catalogue` | 2 models, 2 prices, edits of the price, its date, the default and the list, 3 imports, 1 call, 1 end of the process | 44 500 |
| `chats` | `RuntimeService` | 2 workspaces, 1 chat with 2 runs, 3 runtimes, 1 end of the process | 27 000 |
| `delegation` | `Delegation` | a Goal and 3 children, 3 levels, a budget of 2, 1 end of the process | 75 000 |
| `contract` | `GoalContract` | 1 clause by triage and by each reply, 1 reply, a run and its resume, 1 end of the process | 47 000 |
| `window` | `ContextWindow` | 6 rounds, the last 2 kept | 1 500 |
| `wiki` | `WikiLog` | a run and 2 children, 2 files, 2 writes each, 1 mishap | 48 000 |
| `round` | `ProviderRound` | 2 rounds, 1 endpoint listed twice, 2 slots, 2 attempts, breaker after 2 failures | 240 000 |

### The properties

`GoalExecution`
* `OnlyLastRoundOpen`: replay looks for *the* open round; there is never another.
* `RoundsWithinLimit`: a resume does not start maxSteps afresh.
* `TranscriptMatchesStore`: at every request the model is sent what the rows say, also
  about rounds of processes that died; what compactions of this run took out of it are
  rounds of calls with at least `KeepRounds` others behind them.
* `DedupeTableSound`, `NoDuplicateBeforeResume`: results are replayed only for calls that
  succeeded, and within a first run always.
* `RepeatedOnlyAfterLoss`: stops and resumes alone never hand a call out twice.
* `StopStartsAtMostOneCall`: the signal is read before each call.
* `ImplementsTaskLife`: the row of a Task lives as its readers expect (and stays as it is
  once it succeeded, `SucceededIsFinal`, which is proved only); `RunEnds`.

`GoalTree`
* `DependenciesFirst`, also across replans and resumes, where the order of the plan
  is the order of saves.
* `RowsAreClosed`: the rows of an idle Goal are a plan a resume accepts.
* `EveryTaskLives` (each task, one being planned
  by a revision included, steps as `TaskLife` allows), `RunEnds`.

`ToolInvocation`
* `AskedFirst`, `EgressAsked`: what starts, starts under a grant that covers it; the
  second half of `EgressAsked` is the check the source calls INV-B.
* `GrantHolds`: nobody is asked for what they granted for longer.
* `JournalUndoes`: the journal leads back to the original content, through calls,
  failures and partial rollbacks; its exceptions (two writers at once, a tool that
  throws after it wrote) are what the code does not promise.
* `AnswerComes`: a question does not wait for ever.

The parts of `service`
* `ChainVerifies`: the chain of a root verifies unless a write of it failed or two buses of
  one process emitted for it. The two exceptions are what the code does not handle.
* `CaughtUpShowsWaiting`: after replays, doubled frames, timers and answers, the page shows
  what its run waits with, and otherwise only what a process that ended had asked.
* `LockCoversRunningArms`, `ComparisonIsOfShownMetrics`: over executions, cancellations,
  crashes and a disk that is full, until an execution is rejected (an append that failed
  twice, a resolver that threw). The second also excludes an arm that is cancelled while it is
  prepared; the model allows more there than the service does, where the harness prepares
  an arm in microtasks that no request comes between.
* `PriceIsLastObserved`, `SyncIsIdempotent`: except for misdated prices, which the code
  appends again at each import.
* `LedgerCoversSteps`: a saved step is in the ledger once the catalogue is attached, unless it
  had no price or no room at the last try of this process. A live round and a backfill may
  both fail to append; each start tries again.
* `RunKeepsItsRuntime`: except for runs during which settings were saved, which lose their
  runtime against the comment on `setPermissionCeiling` (section 4).
* `ListedRunsHaveRows`: lists and rows differ only for deletes and ends of the process in
  the middle of a creation or a run.
* `SharesWithinBudget`: except for parents with a child that left no edge.
  `CeilingNeverRaised`: also over a resume, which has lost the depth.
* `NothingAgreedIsLost`, `VerdictOfWholeContract`: whatever is agreed while a run goes on.
* `TranscriptStaysWhole`: calls next to their results, in order, nothing recent cut.
  `MeasuredAsSent`: epochs and prefixes correspond; the messages called new are those that
  are, except at the request after a compaction, where the code counts from a transcript
  that was longer.
* `EveryChangeIsTold`: outside of changes that no step named and that another scan, a throw,
  a refused write or the end of the process hid.
* `WithinConcurrency`, `BreakerSound`: rounds admitted before a breaker opened still report
  to it; it is never open without a reason and lets one probe through per cooldown.

Every property has a mutant in `PROJECT.json`: a plausible mistake in one mapped
definition under which TLC finds the property violated. The mutated forms stand before
the definitions they replace, marked "Mutation".

### Why the bounds are enough

* `task`: the properties relate at most two rounds (a call and its repetition, a
  round and the one that is open), and a round of two calls has a first, a last, a
  done and a missing one. Three steps leave room for two rounds and the limit; two
  resumes for a resume that is stopped and resumed again. One round that a compaction keeps
  (the code keeps four, `KeepRounds`) is enough for a round that is taken out and one that is
  not. Cost 1 per round and a budget
  of 2 make the budget bite before the limit in some behaviours and, as a resume
  starts the account afresh, after it in others.
* `round` of `service`, `provider_slots`: two rounds are what it takes for
  one to report to a breaker that the other opened; one endpoint listed twice makes both a
  failover and a return to the same breaker; thresholds are scaled so that two failures
  open it and a score can run out. Two attempts are a failure and what follows it; the
  theorems of section 5 hold for any number.
* `tree`: two tasks suffice for a dependency, for a plan against its order and for a
  revision that keeps one; two runs for a run and its resume.
* `gateway`: two Goals, two conversations and two calls are what it takes for a grant to
  reach a wrong one; two writes of one file for an order of restoration.

* `records`: four events are a question and its settlement, for two questions or of two
  runtimes; two runtimes are what it takes to fork a chain or to connect to a wrong one.
* `experiment`: two arms and two executions, for an end that meets a start; `catalogue`:
  two models for a default that moves away and back, three imports for a price that is
  imported, changed and imported again; `chats`: two workspaces for a runtime that is not
  the selected one, two runs for a lock that is held.
* `delegation`: three children are enough for two calls of one parent, and for a chain of
  delegations as deep as `MaxDepth`; a budget of 2 for one that is exhausted in two parts.
* `contract`: a clause by triage and one by a reply, before, during and after a run and
  its resume; `window`: six rounds are two compactions; `wiki`: a run and two children that
  overlap each other and their parent.

### Fairness

* `GoalExecution`, `GoalTree`: weak fairness of the running code as a whole. A provider
  round ends by its timeout, a tool call returns or throws, promises that can go on do. Resume,
  stop and crash are never required.
* `ProviderRound`: strong fairness for each round, because `acquire` polls: a slot
  that is free again and again is taken. It is used by the run that is violated, where a
  stronger assumption only makes the counterexample stronger.
* `ToolInvocation`: weak fairness of `Refuse`, the timer that `decide` arms for each
  question. Neither users nor tools are required to answer.

* The parts of `service` are checked for safety only: what they wait for (people, models,
  timers of the browser) the code does not require to come.

Deadlock is checked in `gateway`. In the other runs the system may really stop: a
Goal is done and nobody resumes it, every round waits for a slot, or a bound is reached.

## 4. Where code and documentation disagree

Each is a run that TLC refutes, with the sentence it refutes in `PROJECT.json`.

1. `task_duplicate`: calls that succeeded are said not to be repeated after a resume;
   `completeOpenRound` does not consult the table that was rebuilt for that. A round asks for
   a call that succeeded in an earlier one, is stopped before it starts, and the resume
   executes the call again.
2. `task_rejected`: a round with a forbidden tool is said to be rejected as a whole;
   it is persisted before it is checked, and completion does not check.
3. `provider_slots`: `settle` is not called for a failed attempt, so its slot is never
   returned and `acquire` polls for ever. This is so in the stack of `assembleProviderStack`;
   `HarnessRuntime` wires no limiter.
4. `tree_dropped`: planned tasks get a row when they begin; a resume sees only rows,
   finishes those and settles the Goal as succeeded.
5. `gateway_resume`: the conversation of a Goal is handed to its first run only; a resumed
   run asks again for what was granted for the conversation.
6. `catalogue_backfill`: the backfill of usage is said to be idempotent and passes over only
   what it has billed itself, not what was billed live.
7. `contract_answers`: a reply to the questions of a Goal is said to be accepted only while
   the Goal is blocked and unanswered; neither is looked at, and a reply after the questions
   were answered appends its clauses.
8. `settings_restart`: the comment on `setPermissionCeiling` (`api/common/runtime.service.ts:1195-1198`)
   says that sessions which are running are not affected; the method closes every runtime,
   with the store the run writes to, and does not ask whether a run is going on, as all other
   callers of `restartRuntimes` but `saveAuthCommandPolicy` do.

For 1, 5, 6 and 8 the passing runs keep the part that does hold (`NoDuplicateBeforeResume`,
`GrantHolds`, `LedgerCoversSteps`, `RunKeepsItsRuntime`); for 3 they show what the slots
guarantee nevertheless (`WithinConcurrency`).

Three smaller observations are no runs. `MeasuredAsSent` excludes the request after a
compaction, which the code reports with too few new messages. A half-open probe that is aborted,
or fails by an error that does not count, leaves `probeInFlight` set, so that no later request of
that endpoint is let through (`retry.ts:209-231`, `orchestrator.ts:449-450`; `HarnessRuntime`
wires no breaker). And a comment of the personal
memory says that explicit statements are confirmed immediately, while an identical
candidate that is already there is returned as it is.

## 5. Proofs

Every safety property that a passing run checks, every action property and both
refinements of `TaskLife` are theorems as well: the run shows them on a small instance, the
theorem for every value of the constants. All constants are arbitrary but for the
assumptions of their module, which TLC evaluates in the runs:

| Assumption | Says |
|---|---|
| `ProposalsAssumption`, `BoundsAssumption` (`GoalExecution`) | proposals are sequences of calls of bounded length; limits are naturals |
| `PlansAssumption` (`GoalTree`) | a plan is a sequence of tasks, not empty, whose dependencies are places of it |
| `CallsAssumption`, `GoalsAssumption`, `NobodyAssumption` (`ToolInvocation`) | each Goal has a set of calls and a conversation or none |
| `KeysAssumption` (`ToolInvocation`) | a call is as dangerous as its key says: key and danger are both computed from the command (`core/authz/command.ts:189-223`) |
| `CandidatesAssumption`, `PolicyAssumption`, `LimitsAssumption` (`ProviderRound`) | there is a candidate; an abort neither counts nor fails over; thresholds are positive |
| `ViewAssumption` (`RunView`), `ServiceAssumption` (`RuntimeService`) | every question has its root, every run its chat, every chat its workspace |
| `ExperimentAssumption` (`ExperimentRun`), `CatalogueAssumption` (`Catalogue`) | an experiment has some arms, finitely many; a price is not the mark of a missing one, a configuration has a default |
| `DelegationAssumption`, `WindowAssumption`, `ContractAssumption`, `WikiAssumption`, `LogAssumption`, the other bounds | levels, budgets, counts and bounds are naturals |

Each proof of a component has the same plan: an inductive invariant, one lemma for the
initial states, one per action (or per group of actions that disturb the same parts), a
lemma `...Step` that puts them together, and theorems that derive the properties. Steps
that several actions share are lemmas (`SaveRowKeeps`, `Appends`, `RowsAreKept`). An
inductive invariant was checked by TLC on the instances of the runs before it was proved, where
TLC can evaluate it.

### The executor (`GoalExecution_proofs`)

| Theorem | Property |
|---|---|
| `TypeCorrect` | `TypeOK` |
| `OnlyLastOpen` | `OnlyLastRoundOpen` |
| `WithinLimit` | `RoundsWithinLimit` |
| `StopIsPrompt` | `StopStartsAtMostOneCall` |
| `RepeatsAreLosses` | `RepeatedOnlyAfterLoss` |
| `SucceededStays` | `SucceededIsFinal` |
| `TranscriptIsTrue` | `TranscriptMatchesStore` |
| `DedupeIsSound` | `DedupeTableSound` |
| `NoDuplicateInOneRun` | `NoDuplicateBeforeResume` |
| `Implements` | `ImplementsTaskLife` |

`Invariant` proves `Spec => []IInv`, whose parts are:

* `Located`: where the program counter may be, given the rows. Without it a step could
  start from a position that is no call of the round.
* `OnlyLastRoundOpen` needs `ClosedAtHead`: a round is appended only when no round is
  open. That needs, in turn, that the calls before the position have results (`Located`).
* `RoundsWithinLimit` needs `RoomAtRequest`: the limit was checked before the request.
* `StopStartsAtMostOneCall` needs `NotLate`: before the signal no call is late, and
  the one about to be handed out is the first.
* `RepeatedOnlyAfterLoss` needs `Untried` and `LossesCoverTries`: a call that has no result
  was handed out at most as often as results were lost. The second has two ways out: a
  round that is being finalised, whose rows were saved away, and a Task that succeeded;
  they are closed because `SucceededIsFinal`.

`ToldInvariant` adds a second invariant, `ToldInv`, on top of it. The transcript of a request is
built from what calls put out and replayed from what rows record, so it must say of each
call of the open round that the two agree once the call is passed (`OutputsRecorded`), that no
row with a result is saved over (`Unanswered`), what the context was told at each place of the
function (`ContextTold`), that only old rounds of calls have been taken out of it since
(`RemovedOld`: each has at least `KeepRounds` rounds of calls behind it, and a round that is added
only makes them more), and that until a resume the dedupe table misses no success
(`TableComplete`), which is exactly what a resume breaks (section 4).

`Implements` maps the executor to `TaskLife` by its row and whether an executor is at work, and
shows each step to begin, end, die or stutter.

### The goal tree (`GoalTree_proofs`)

`TreeTypes` (`TypeOK`), `DependenciesComeFirst` (`DependenciesFirst`), `RowsStayClosed`
(`RowsAreClosed`) and `TasksLive` (`EveryTaskLives`) follow from `TreeInv`. A task runs after its
dependencies because the cursor has passed only what has succeeded (`PassedSucceeded`) and what is
still to be run depends on the plan only (`PlanIsClosed`); a revision keeps what an outcome
calls succeeded, so outcomes must be true of rows (`OutcomesAreTrue`); rows are closed because what
a revision still has to save is closed together with what it has saved (`SavedAreClosed`,
`RevisionIsNew`).

### The gateway and the journal (`ToolInvocation_proofs`)

| Theorem | Property | What the invariant adds |
|---|---|---|
| `GatewayShape` | `TypeOK` | |
| `NothingStartsUnasked` | `AskedFirst` | `StoreBacked`, `LocalBacked`: each key that is remembered is that of an answer that stands, of this conversation, this run or the workspace |
| `EgressIsAsked` | `EgressAsked` | `VerdictHolds`: while a call waits, its verdict was given on a beginning of the ledger, so that only a longer ledger can be worse |
| `GrantsHold` | `GrantHolds` | `AnswersKept`, the converse: an answer that stands is remembered where it reaches; needs `KeysAssumption` |
| `JournalLeadsBack` | `JournalUndoes` | `FilesUndoable`: what the journal leads back to, from where the one writer of a file found it; `OneWriter`, `WritersTouch` say when there is one |

### Records (`Records_proofs`)

| Theorem | Property | What the invariant adds |
|---|---|---|
| `LogVerifies` | `ChainVerifies` | file and queue of a root are one chain whose last event is the head of the bus that emits for it |
| `PageShowsWaiting` | `CaughtUpShowsWaiting` | `LogTells`: file and queues say what each question has come to; `WillShow`: so do the approvals shown and the frames under way, in this order |
| `ViewTypes`, `WikiTypes` | type invariants | |
| `ChangesAreTold` | `EveryChangeIsTold` | `Kept`: an untold change is listed, or differs from the scan while a run is open, or was taken along by a flush |

### The service (`Service_proofs`)

| Theorem | Property | What the invariant adds |
|---|---|---|
| `RuntimeIsKept` | `RunKeepsItsRuntime` | `LockIsHeld`, by a run that lost its runtime too |
| `ListsAreTrue` | `ListedRunsHaveRows` | `MadeUnlisted`: who is being made has a row and is on no list |
| `LockCovers` | `LockCoversRunningArms` | `ArmsUnderLock`: until a rejection the arms in work are those of the execution that holds the lock, and it closes when they have ended |
| `ComparisonIsTrue` | `ComparisonIsOfShownMetrics` | `ArmsUnmeasured`: an arm in work has not been measured; `ComparedIsShown` |
| `PriceIsTheLast` | `PriceIsLastObserved` | `InForce`: the last plan of an offering is open, has begun and has the price observed last, those before it have ended; `LatestIsShown` |
| `SyncChangesNothing` | `SyncIsIdempotent` | `FactsAreImported`: the facts still say what was imported last |
| `LedgerIsComplete` | `LedgerCoversSteps` | `CallsOfProcess`: a settled call of an attached process has been billed, or found no price or room |
| `ServicePartTypes`, `ExperimentTypes`, `CatalogueTypes` | type invariants | |

`SelectIsPlan` and its companions show that the plan `selectActivePlan` chooses is, in plans that
stand in order, the last one.

### Conversation (`Conversation_proofs`)

| Theorem | Property | What the invariant adds |
|---|---|---|
| `ClausesAreKept` | `NothingAgreedIsLost` | |
| `SatisfiedIsWhole` | `VerdictOfWholeContract` | `SaidIsFinal`: a Goal called satisfied has succeeded, so that no run touches its Tasks again; `RunLocated` |
| `TranscriptIsWhole` | `TranscriptStaysWhole` | `Answered` with an open round at the end, `TurnsInOrder`: the rounds of messages ascend, so that the last `KeepRounds` are those not taken out |
| `MeasuresAreTrue` | `MeasuredAsSent` | `Counted`: what was appended since the last measure stands behind what it counted; `EpochOfNotes`: an epoch is one more than its notes |
| `ContractTypes`, `WindowTypes` | type invariants | |

`compactHistory` filters a sequence, which the model does with a recursive function (`Without`).
`WithoutWhole` shows what that leaves of a transcript: each message that is not taken out, in
order, calls still next to their results, because a round is taken out as a whole. It steps
through the messages by `LeftOf`, the claim about the first so many.

### Limits (`Limits_proofs`)

| Theorem | Property | What the invariant adds |
|---|---|---|
| `CeilingIsNeverRaised` | `CeilingNeverRaised` | `Descends`: who exists was made by somebody who exists |
| `SharesAreWithin` | `SharesWithinBudget` | `ShareInv`: who lost no child has an edge of every child that ended, so that edges and proposals together are all that was given |
| `ConcurrencyIsKept` | `WithinConcurrency` | streams are finite sets that the slots cover; a waiting round has an attempt to spare |
| `BreakersAreSound` | `BreakerSound` | a half-open breaker without a probe has let none through, or will let none through for the score |
| `DelegationTypes`, `RoundTypes` | type invariants | |

`TotalWith` and `TotalOfTwo` show of the sum over a set that any element may be counted first
and that the sums of two parts add up. Three more theorems are about `AuthPolicy`, for any
registry, grant, request and tools: `DerivationTightens` (tier, paths and hosts are within those of
the grant and of the request), `UserLabelsOnlyTighten` (a label a user declares weakens no tier and
registers no tool, although negative entries of the platform cancel others) and
`SecretIsNeverWritten` (no tool writes through a capability in whose reach a secret asset is
named). Their only premise is `Asking`: grant, request and semantics are well formed. That a
higher label never gives a lower tier rests on `HighestGrows`, which compares the maxima of
two sets of labels.

### The composition (`MCService_proofs`)

A step of `MCService` is a step or a stutter of each part (`RecordsPart` to `RoundPart`), so a
behaviour of it is one of each part. `ServiceTypes` proves its type invariant `ServiceTypeOK`, and
`ServiceIsSafe` all the invariants that the run `service` checks.

### Induction over data

The induction theorems of the library take an operator, which the provers here cannot
instantiate. Where a claim is about every beginning of a sequence, every date or every part of a
set, the proof takes a smallest counterexample instead: `LeastNumber`, `LeastOf` and `SmallestSet`
follow from the well-foundedness of `<` on naturals and of inclusion on finite sets.

### Only model-checked

* `RunEnds` of `GoalExecution` and `GoalTree` and `AnswerComes`: liveness under fairness is out of
  reach of the prover, as is ENABLED.
* The violations of section 4, which are counterexamples.

## 6. Not modelled

* Strings: prompts, templates, parsing of model output, matching of commands and globs.
* Vendors' clients, tools, MCP servers, files other than as contents: pure I/O.
* Evaluation, analysis, metrics and libraries: functions over rows and events. The views of
  the web interface render what the service answers; only the list of approvals has state
  that can go wrong against the server, and that is `RunView`. Together these are about half
  of the source, the web interface alone more than a third of it. The map covers about a
  tenth of all lines.
* Token buckets and the cost budget of a Task: a nondeterministic wait and exit. That a
  budget starts afresh at each resume, and that an estimate above the capacity of a bucket
  waits for ever, are listed as hazards without a property.
* The window in which a stop finds no run (between the request and the registration of the
  run) is in `GoalTree` as a guard; the code answers "idle" then, and no property says more.
* The resetting of the wiki's scan by a delegated child is in `WikiLog`, as an excuse.
* Blackboard, memory, questions, capabilities, features, pricing analysis: stores with one
  writer, or resolution of options; their steps do not interleave with anything.

## 7. What could come next

1. Composition of `GoalExecution` with `ToolInvocation`: a resume of a run whose call was
   waiting for an answer.
2. For each violation of section 4, the weakest condition under which the sentence holds, as a
   theorem.
3. The project board: its update after a run and its reconciliation with the workspace.
4. Algorithms against reference definitions: usage cost by tiers, resolution of features.
