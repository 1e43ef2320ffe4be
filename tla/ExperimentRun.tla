----------------------------- MODULE ExperimentRun -----------------------------
(***************************************************************************)
(* One A/B experiment: the ExperimentRunner and the requests of            *)
(* ExperimentsService that reach it, with the lock that all executions of  *)
(* experiments share.                                                      *)
(*                                                                         *)
(* The log of an experiment is append-only and its view is a left fold, so *)
(* the disk is kept as the view: appending an event applies it.  Creating  *)
(* waits for the event log of each arm's Goal, and requests come in        *)
(* between; starting, cancelling and completing wait for nothing but       *)
(* microtasks, but the process may die there, or the disk be full.  The    *)
(* arms of one execution run side by side for minutes.                     *)
(***************************************************************************)
EXTENDS Naturals, FiniteSets

CONSTANTS Arms,          \* labels of the arms
          MaxExecutions, \* bound: executions that start arms
          MaxDiskChanges,\* bound: times the disk fills up or is cleared
          MaxCrashes     \* bound: ends of the process

ASSUME ExperimentAssumption ==
    /\ IsFiniteSet(Arms) /\ Arms # {}
    /\ MaxExecutions \in Nat \ {0}
    /\ MaxDiskChanges \in Nat /\ MaxCrashes \in Nat

VARIABLES
    created,    \* disk: the log begins with experiment.created
    planned,    \* disk: arms with a Goal of their own
    status,     \* disk: status of the experiment
    armStatus,  \* disk: status of each arm
    metrics,    \* disk: which arm.ended the metrics of an arm are from, 0: none yet
    comparison, \* disk: the metrics that were compared, NotCompared: none
    creating,   \* memory: create is not done
    holder,     \* memory: the execution that holds the lock, 0: none
    phase,      \* memory: what each execution does with each arm
    registered, \* memory: running of the harness: the execution an arm's signal is of
    stopped,    \* memory: <<execution, arm>> that have been told to stop
    closing,    \* memory: whose last look at the log is due
    full,       \* disk: an append would fail
    overtaken,  \* history: arms cancelled between arm.started and their registration
    rejected,   \* history: an append has failed, or an execution was rejected
    executions, diskChanges, expCrashes

expView == <<created, planned, status, armStatus, metrics, comparison>>
expMemory == <<creating, holder, phase, registered, stopped, closing>>
expBounds == <<executions, diskChanges, expCrashes>>
expVars == <<created, planned, status, armStatus, metrics, comparison, creating, holder, phase,
             registered, stopped, closing, full, overtaken, rejected, executions,
             diskChanges, expCrashes>>

Executions == 1 .. MaxExecutions
NotCompared == [a \in Arms |-> 0]
Outcomes == {"completed", "failed", "aborted"}

ExpInit ==
    /\ created = TRUE
    /\ planned = {}
    /\ status = "created"
    /\ armStatus = [a \in Arms |-> "pending"]
    /\ metrics = [a \in Arms |-> 0]
    /\ comparison = NotCompared
    /\ creating = TRUE
    /\ holder = 0
    /\ phase = [x \in Executions |-> [a \in Arms |-> "idle"]]
    /\ registered = [a \in Arms |-> 0]
    /\ stopped = {}
    /\ closing = "nobody"
    /\ full = FALSE
    /\ overtaken = {}
    /\ rejected = FALSE
    /\ executions = 0
    /\ diskChanges = 0
    /\ expCrashes = 0

\* A request is taken up: nobody is between two appends.
Free == closing = "nobody"

\* The arms an execution would run.
Pending == {a \in planned : metrics[a] = 0}

\* Mutation: the metrics of one arm are enough.
ComparableByAny == \E a \in Arms : metrics[a] # 0

\* isComparable
Comparable == \A a \in Arms : metrics[a] # 0

-------------------------------------------------------------------------------
(* Appends. *)

\* arm.ended for the arms of S; without experiment.created the log has no view.
EndArms(S, how) ==
    IF created
    THEN /\ metrics' = [a \in Arms |-> IF a \in S THEN metrics[a] + 1 ELSE metrics[a]]
         /\ armStatus' = [a \in Arms |-> IF a \in S THEN how ELSE armStatus[a]]
    ELSE UNCHANGED <<metrics, armStatus>>

\* experiment.started moves on from created only.
StartedStatus == IF status = "created" THEN "running" ELSE status

\* experiment.completed
CompletedStatus == IF \E a \in Arms : armStatus[a] = "aborted" THEN "aborted" ELSE "completed"

-------------------------------------------------------------------------------
(* create *)

\* The Goal of an arm is made and arm.planned written, or create fails.
PlanArm(a) ==
    /\ Free /\ creating
    /\ a \notin planned
    /\ planned' = IF full THEN planned ELSE planned \cup {a}
    /\ creating' = (~full /\ planned \cup {a} # Arms)
    /\ UNCHANGED <<created, status, armStatus, metrics, comparison, holder, phase, registered,
                   stopped, closing, full, overtaken, rejected, expBounds>>

-------------------------------------------------------------------------------
(* execute *)

\* The lock is taken, experiment.started and arm.started are written, the arms set off.
\* With metrics of all arms the service answers without the lock.
Execute(x) ==
    /\ Free /\ created /\ ~Comparable /\ holder = 0
    /\ x = executions + 1 /\ x \in Executions
    /\ Pending = {} \/ ~full
    /\ executions' = x
    /\ holder' = x
    /\ phase' = [phase EXCEPT ![x] = [a \in Arms |-> IF a \in Pending THEN "preparing" ELSE "idle"]]
    /\ armStatus' = [a \in Arms |-> IF a \in Pending THEN "running" ELSE armStatus[a]]
    /\ status' = IF Pending = {} THEN status ELSE StartedStatus
    /\ closing' = IF Pending = {} THEN "execute" ELSE "nobody"
    /\ UNCHANGED <<created, planned, metrics, comparison, creating, registered, stopped, full,
                   overtaken, rejected, diskChanges, expCrashes>>

\* An append before the arms set off fails: experiment.failed, when that can be written.
ExecuteRefused ==
    /\ Free /\ created /\ ~Comparable /\ holder = 0 /\ Pending # {}
    /\ full
    /\ \E S \in SUBSET Pending :
        armStatus' = [a \in Arms |-> IF a \in S THEN "running" ELSE armStatus[a]]
    /\ status' \in {status, StartedStatus, "failed"}
    /\ rejected' = TRUE
    /\ UNCHANGED <<created, planned, metrics, comparison, expMemory, full, overtaken,
                   expBounds>>

\* The resolver throws for the arms of S when they set off, before runArm could isolate it: the
\* execution is rejected at once, and the other arms run on without a caller.
ExecuteUnresolved(x) ==
    /\ Free /\ created /\ ~Comparable /\ holder = 0
    /\ x = executions + 1 /\ x \in Executions
    /\ ~full
    /\ executions' = x
    /\ \E S \in SUBSET Pending \ {{}} :
        phase' = [phase EXCEPT ![x] =
                    [a \in Arms |-> IF a \in Pending \ S THEN "preparing" ELSE "idle"]]
    /\ armStatus' = [a \in Arms |-> IF a \in Pending THEN "running" ELSE armStatus[a]]
    /\ status' = "failed"
    /\ rejected' = TRUE
    /\ UNCHANGED <<created, planned, metrics, comparison, creating, holder, registered, stopped,
                   closing, full, overtaken, diskChanges, expCrashes>>

\* executeGoalTree is prepared and registers its signal.
Register(x, a) ==
    /\ closing = "nobody"
    /\ phase[x][a] = "preparing"
    /\ phase' = [phase EXCEPT ![x][a] = "running"]
    /\ registered' = [registered EXCEPT ![a] = x]
    /\ UNCHANGED <<expView, creating, holder, stopped, closing, full, overtaken, rejected,
                   expBounds>>

\* Arms that execution x is still busy with when a has ended.
Others(x, a) == {c \in Arms \ {a} : phase[x][c] # "idle"}

LeaveArm(x, a) ==
    /\ phase' = [phase EXCEPT ![x][a] = "idle"]
    /\ registered' = [registered EXCEPT ![a] = 0]
    /\ stopped' = stopped \ {<<x, a>>}

\* runArm: the Goal tree has ended, or thrown; arm.ended is written.  The last arm of an
\* execution that still has its caller brings it to its last look at the log.
ArmEnds(x, a) ==
    /\ closing = "nobody"
    /\ phase[x][a] = "running"
    /\ ~full
    /\ \E how \in Outcomes : (how = "aborted" => <<x, a>> \in stopped) /\ EndArms({a}, how)
    /\ LeaveArm(x, a)
    /\ closing' = IF holder = x /\ Others(x, a) = {} THEN "execute" ELSE "nobody"
    /\ UNCHANGED <<created, planned, status, comparison, creating, holder, full, overtaken,
                   rejected, expBounds>>

\* arm.ended can be written neither for the result nor for the error: the execution is
\* rejected at once, and the other arms run on without a caller.
ArmLost(x, a) ==
    /\ closing = "nobody"
    /\ phase[x][a] = "running"
    /\ full
    /\ LeaveArm(x, a)
    /\ holder' = IF holder = x THEN 0 ELSE holder
    /\ status' \in IF holder = x /\ created THEN {status, "failed"} ELSE {status}
    /\ rejected' = TRUE
    /\ UNCHANGED <<created, planned, armStatus, metrics, comparison, creating, closing, full,
                   overtaken, expBounds>>

\* Mutation: whoever looks last gives the lock back.
CloseAndFree ==
    /\ closing # "nobody"
    /\ IF created /\ comparison = NotCompared /\ Comparable /\ ~full
       THEN comparison' = metrics /\ status' = CompletedStatus
       ELSE UNCHANGED <<comparison, status>>
    /\ rejected' = (rejected \/ full)
    /\ holder' = 0 /\ closing' = "nobody"
    /\ UNCHANGED <<created, planned, armStatus, metrics, creating, phase, registered, stopped, full,
                   overtaken, expBounds>>

\* The last look of an execution or a cancellation: experiment.completed, once.
Close ==
    /\ closing # "nobody"
    /\ IF created /\ comparison = NotCompared /\ Comparable /\ ~full
       THEN comparison' = metrics /\ status' = CompletedStatus
       ELSE UNCHANGED <<comparison, status>>
    /\ rejected' = (rejected \/ full)
    /\ holder' = IF closing = "execute" THEN 0 ELSE holder
    /\ closing' = "nobody"
    /\ UNCHANGED <<created, planned, armStatus, metrics, creating, phase, registered, stopped, full,
                   overtaken, expBounds>>

-------------------------------------------------------------------------------
(* cancel, remove, faults *)

\* cancel of one arm or all: who is registered is told to stop, who is not is written off.
Cancel(S) ==
    LET targets == S \cap Pending
        live == {a \in targets : registered[a] # 0}
        dead == targets \ live
    IN /\ Free /\ created
       /\ S = Arms \/ Cardinality(S) = 1
       /\ dead = {} \/ ~full
       /\ stopped' = stopped \cup {<<registered[a], a>> : a \in live}
       /\ EndArms(dead, "aborted")
       /\ overtaken' = overtaken \cup {a \in dead : \E x \in Executions : phase[x][a] = "preparing"}
       /\ closing' = IF comparison = NotCompared /\ Comparable' /\ ~full THEN "cancel" ELSE "nobody"
       /\ UNCHANGED <<created, planned, status, comparison, creating, holder, phase, registered,
                      full, rejected, expBounds>>

\* DELETE: the log goes, whoever is running.
RemoveExperiment ==
    /\ Free /\ created
    /\ created' = FALSE
    /\ UNCHANGED <<planned, status, armStatus, metrics, comparison, expMemory, full, overtaken,
                   rejected, expBounds>>

\* The disk fills up, or is cleared.
DiskChanges ==
    /\ diskChanges < MaxDiskChanges
    /\ diskChanges' = diskChanges + 1
    /\ full' = ~full
    /\ UNCHANGED <<expView, expMemory, overtaken, rejected, executions, expCrashes>>

ExpCrash ==
    /\ expCrashes < MaxCrashes
    /\ expCrashes' = expCrashes + 1
    /\ creating' = FALSE
    /\ holder' = 0
    /\ phase' = [x \in Executions |-> [a \in Arms |-> "idle"]]
    /\ registered' = [a \in Arms |-> 0]
    /\ stopped' = {}
    /\ closing' = "nobody"
    /\ UNCHANGED <<expView, full, overtaken, rejected, executions, diskChanges>>

ExpNext ==
    \/ \E a \in Arms : PlanArm(a)
    \/ \E x \in Executions :
        \/ Execute(x) \/ ExecuteUnresolved(x)
        \/ \E a \in Arms : Register(x, a) \/ ArmEnds(x, a) \/ ArmLost(x, a)
    \/ ExecuteRefused
    \/ Close
    \/ \E S \in SUBSET Arms : Cancel(S)
    \/ RemoveExperiment
    \/ DiskChanges
    \/ ExpCrash

ExpSpec == ExpInit /\ [][ExpNext]_expVars

-------------------------------------------------------------------------------
(* Properties. *)

(* Type invariant. *)
ExpTypeOK ==
    /\ created \in BOOLEAN /\ planned \subseteq Arms
    /\ status \in {"created", "running"} \cup {"completed", "failed", "aborted"}
    /\ armStatus \in [Arms -> {"pending", "running"} \cup Outcomes]
    /\ metrics \in [Arms -> Nat] /\ comparison \in [Arms -> Nat]
    /\ creating \in BOOLEAN /\ full \in BOOLEAN /\ rejected \in BOOLEAN
    /\ executions \in 0 .. MaxExecutions /\ expCrashes \in Nat /\ diskChanges \in Nat
    /\ holder \in 0 .. MaxExecutions
    /\ phase \in [Executions -> [Arms -> {"idle", "preparing", "running"}]]
    /\ registered \in [Arms -> 0 .. MaxExecutions]
    /\ stopped \subseteq Executions \X Arms
    /\ closing \in {"nobody", "execute", "cancel"}
    /\ overtaken \subseteq Arms

(* The lock of runExperimentExclusive covers what it is for: while an arm    *)
(* is prepared or run, its execution holds it, so that no arm runs twice at  *)
(* once; and it is never held for nothing, which would answer every later    *)
(* execution 409.  The first half fails once an execution was rejected, by   *)
(* an append that failed twice or a resolver that threw: it gives the lock   *)
(* back while an arm still runs.                                             *)
LockCoversRunningArms ==
    /\ rejected \/ \A x \in Executions, a \in Arms : phase[x][a] # "idle" => holder = x
    /\ holder # 0 => closing = "execute" \/ \E a \in Arms : phase[holder][a] # "idle"

(* Each arm is measured once, and the comparison that is shown is of the     *)
(* metrics that are shown: neither a second execution, nor one after a       *)
(* crash, nor a cancellation that meets an end measures an arm again, before *)
(* it was compared or after.  It fails for an arm cancelled before it had    *)
(* registered, which is written off and then runs to its end all the same;   *)
(* the harness of the service prepares an arm in microtasks, in which no     *)
(* request comes in, so that there nothing is overtaken.                     *)
ComparisonIsOfShownMetrics ==
    \/ rejected
    \/ /\ \A a \in Arms \ overtaken : metrics[a] <= 1
       /\ overtaken # {} \/ comparison \in {NotCompared, metrics}
===============================================================================
