------------------------- MODULE Service_proofs -------------------------
(***************************************************************************)
(* What is proved about the service around a run: its runtimes and chats,  *)
(* for any workspaces, conversations and runs, any number of runtimes and  *)
(* of ends of the process; experiments, for any arms and executions; and   *)
(* the catalogue of models, its imports and its ledger.                    *)
(***************************************************************************)
EXTENDS RuntimeService, ExperimentRun, Catalogue, SequenceTheorems, WellFoundedInduction, TLAPS

-------------------------------------------------------------------------------
(* Runtimes and chats: the inductive invariant. *)

\* runExclusive is held by the run that executes, also by one that has lost its runtime:
\* otherwise its return would free what another one holds.
LockIsHeld == \A r \in Runs : chatRun[r] = "running" => executing = r

\* A run that is being made has its row and is on no list.
MadeUnlisted ==
    \A r \in Runs :
        /\ chatRun[r] \in {"making", "appending"} => r \in goalTrees
        /\ chatRun[r] \in {"none", "making", "appending"} => r \notin listed

SvcInv ==
    /\ SvcTypeOK
    /\ LockIsHeld /\ RunKeepsItsRuntime
    /\ MadeUnlisted /\ ListedRunsHaveRows

LEMMA SvcInitInv == SvcInit => SvcInv
<1> SUFFICES ASSUME SvcInit PROVE SvcInv
  OBVIOUS
<1>1. SvcTypeOK
  BY ServiceAssumption DEF SvcInit, SvcTypeOK
<1>2. LockIsHeld /\ RunKeepsItsRuntime /\ MadeUnlisted /\ ListedRunsHaveRows
  BY DEF SvcInit, LockIsHeld, RunKeepsItsRuntime, MadeUnlisted, ListedRunsHaveRows
<1> QED BY <1>1, <1>2 DEF SvcInv

-------------------------------------------------------------------------------
(* Steps shared by the actions. *)

\* A runtime that is built replaces none.
LEMMA HarnessOpens ==
    ASSUME SvcTypeOK, NEW w \in Workspaces, Harness(w)
    PROVE  /\ cache' \in [Workspaces -> Nat] /\ built' \in Nat
           /\ cache'[w] # 0
           /\ \A v \in Workspaces : cache[v] # 0 => cache'[v] = cache[v]
  BY DEF Harness, SvcTypeOK

\* What is open stays open.
LEMMA HarnessKeeps ==
    ASSUME SvcTypeOK, NEW w \in Workspaces, Harness(w),
           NEW i \in Nat, i # 0, IsOpen(i)
    PROVE  IsOpen(i)'
  BY HarnessOpens DEF IsOpen, SvcTypeOK

LEMMA SvcTypeStep == SvcTypeOK /\ [SvcNext]_svcVars => SvcTypeOK'
<1> SUFFICES ASSUME SvcTypeOK, [SvcNext]_svcVars PROVE SvcTypeOK'
  OBVIOUS
<1> USE ServiceAssumption DEF SvcTypeOK, svcDisk
<1>1. ASSUME NEW w \in Workspaces, SelectWorkspace(w) PROVE SvcTypeOK'
  BY <1>1 DEF SelectWorkspace
<1>2. ASSUME NEW r \in Runs, CreateSession(r) PROVE SvcTypeOK'
  <2>1. WorkspaceOf[ChatOf[r]] \in Workspaces
    OBVIOUS
  <2>2. cache' \in [Workspaces -> Nat] /\ built' \in Nat
    BY <1>2, <2>1, HarnessOpens DEF CreateSession
  <2> QED BY <1>2, <2>1, <2>2 DEF CreateSession
<1>3. ASSUME NEW r \in Runs, ListRun(r) PROVE SvcTypeOK'
  BY <1>3 DEF ListRun
<1>4. ASSUME NEW r \in Runs, ExecuteSession(r) PROVE SvcTypeOK'
  <2>1. cache' \in [Workspaces -> Nat] /\ built' \in Nat
    BY <1>4, HarnessOpens DEF ExecuteSession
  <2> QED BY <1>4, <2>1 DEF ExecuteSession
<1>5. ASSUME NEW r \in Runs, RunSaves(r) \/ RunReturns(r) PROVE SvcTypeOK'
  BY <1>5 DEF RunSaves, RunReturns
<1>6. ASSUME SyncModels \/ SyncEnds \/ SaveSettings PROVE SvcTypeOK'
  <2>1. CASE SyncModels
    BY <2>1 DEF SyncModels
  <2>3. CASE SyncEnds
    <3>1. cache' \in [Workspaces -> Nat]
      BY <2>3 DEF SyncEnds, Restart
    <3> QED BY <2>3, <3>1 DEF SyncEnds
  <2>2. CASE SaveSettings
    <3>1. disturbed' \subseteq Runs
      BY <2>2 DEF SaveSettings
    <3> QED BY <2>2, <3>1 DEF SaveSettings, Restart
  <2> QED BY <1>6, <2>1, <2>2, <2>3
<1>7. ASSUME NEW c \in Conversations, DeleteChat(c) PROVE SvcTypeOK'
  <2>1. cache' \in [Workspaces -> Nat] /\ built' \in Nat
    BY <1>7, HarnessOpens DEF DeleteChat
  <2> QED BY <1>7, <2>1 DEF DeleteChat
<1>8. ASSUME OutageState
      PROVE  /\ cache' \in [Workspaces -> Nat] /\ executing' = NoRun /\ syncing' = FALSE
             /\ chatRun' \in [Runs -> {"none", "making", "appending", "ready", "running"}]
             /\ selected' \in Workspaces /\ outages' \in Nat
             /\ built' = built /\ runOn' = runOn /\ disturbed' = disturbed
  BY <1>8 DEF OutageState
<1>9. ASSUME Outage PROVE SvcTypeOK'
  BY <1>8, <1>9 DEF Outage
<1>10. ASSUME NEW c \in Conversations, OutageInDelete(c) PROVE SvcTypeOK'
  BY <1>8, <1>10 DEF OutageInDelete
<1>11. ASSUME UNCHANGED svcVars PROVE SvcTypeOK'
  BY <1>11 DEF svcVars
<1> QED
  BY <1>1, <1>2, <1>3, <1>4, <1>5, <1>6, <1>7, <1>9, <1>10, <1>11 DEF SvcNext

-------------------------------------------------------------------------------
(* The runtime of a run. *)

LEMMA LockStep == SvcInv /\ [SvcNext]_svcVars => LockIsHeld'
<1> SUFFICES ASSUME SvcInv, [SvcNext]_svcVars PROVE LockIsHeld'
  OBVIOUS
<1>1. SvcTypeOK /\ LockIsHeld
  BY DEF SvcInv
<1> USE <1>1, ServiceAssumption DEF LockIsHeld, SvcTypeOK
<1>2. ASSUME NEW r \in Runs, CreateSession(r) \/ ListRun(r) PROVE LockIsHeld'
  BY <1>2 DEF CreateSession, ListRun
<1>3. ASSUME NEW r \in Runs, ExecuteSession(r) \/ RunReturns(r) PROVE LockIsHeld'
  BY <1>3 DEF ExecuteSession, RunReturns
<1>4. ASSUME OutageState PROVE LockIsHeld'
  BY <1>4 DEF OutageState
<1>5. ASSUME UNCHANGED <<chatRun, executing>> PROVE LockIsHeld'
  BY <1>5
<1> QED
  BY <1>2, <1>3, <1>4, <1>5
  DEF SvcNext, svcVars, SelectWorkspace, RunSaves, SyncModels, SyncEnds, SaveSettings,
      DeleteChat, Outage, OutageInDelete

LEMMA RuntimeStep == SvcInv /\ [SvcNext]_svcVars => RunKeepsItsRuntime'
<1> SUFFICES ASSUME SvcInv, [SvcNext]_svcVars,
                    NEW s \in Runs, s \notin disturbed', chatRun'[s] = "running"
             PROVE  executing' = s /\ runOn'[s] # 0 /\ IsOpen(runOn[s])'
  BY DEF RunKeepsItsRuntime
<1>1. /\ SvcTypeOK /\ LockIsHeld
      /\ s \notin disturbed /\ chatRun[s] = "running" =>
            executing = s /\ runOn[s] # 0 /\ IsOpen(runOn[s])
  BY DEF SvcInv, RunKeepsItsRuntime
<1>2. /\ runOn[s] \in Nat
      /\ executing' = s
  BY <1>1, LockStep DEF SvcTypeOK, LockIsHeld
<1>3. ASSUME NEW r \in Runs, CreateSession(r)
      PROVE  runOn'[s] # 0 /\ IsOpen(runOn[s])'
  <2>1. WorkspaceOf[ChatOf[r]] \in Workspaces /\ Harness(WorkspaceOf[ChatOf[r]])
    BY <1>3, ServiceAssumption DEF CreateSession
  <2>2. runOn'[s] = runOn[s] /\ runOn[s] # 0 /\ IsOpen(runOn[s])
    BY <1>1, <1>3 DEF CreateSession, SvcTypeOK
  <2>3. \A i \in Nat : i # 0 /\ IsOpen(i) => IsOpen(i)'
    BY <1>1, <2>1, HarnessKeeps
  <2> QED BY <1>2, <2>2, <2>3 DEF IsOpen
<1>4. ASSUME NEW c \in Conversations, DeleteChat(c)
      PROVE  runOn'[s] # 0 /\ IsOpen(runOn[s])'
  <2>1. selected \in Workspaces /\ Harness(selected)
    BY <1>1, <1>4 DEF DeleteChat, SvcTypeOK
  <2>2. runOn'[s] = runOn[s] /\ runOn[s] # 0 /\ IsOpen(runOn[s])
    BY <1>1, <1>4 DEF DeleteChat
  <2>3. \A i \in Nat : i # 0 /\ IsOpen(i) => IsOpen(i)'
    BY <1>1, <2>1, HarnessKeeps
  <2> QED BY <1>2, <2>2, <2>3 DEF IsOpen
<1>5. ASSUME NEW r \in Runs, ExecuteSession(r)
      PROVE  runOn'[s] # 0 /\ IsOpen(runOn[s])'
  <2>1. s = r
    BY <1>2, <1>5 DEF ExecuteSession
  <2>2. selected \in Workspaces /\ cache'[selected] # 0 /\ runOn'[s] = cache'[selected]
    BY <1>1, <1>5, <2>1, HarnessOpens DEF ExecuteSession, SvcTypeOK
  <2> QED BY <2>2 DEF IsOpen
<1>6. ASSUME SyncEnds PROVE runOn'[s] # 0 /\ IsOpen(runOn[s])'
  <2>1. executing # NoRun
    BY <1>2, <1>6, ServiceAssumption DEF SyncEnds
  <2> QED BY <1>1, <1>6, <2>1 DEF SyncEnds, IsOpen, svcDisk
<1>7. ASSUME SaveSettings PROVE FALSE
  BY <1>2, <1>7, ServiceAssumption DEF SaveSettings
<1>8. ASSUME OutageState PROVE FALSE
  BY <1>1, <1>8 DEF OutageState, SvcTypeOK
<1>9. ASSUME UNCHANGED <<cache, runOn, disturbed>>, chatRun[s] = "running"
      PROVE  runOn'[s] # 0 /\ IsOpen(runOn[s])'
  BY <1>1, <1>9 DEF IsOpen
<1>10. ASSUME NEW r \in Runs, ListRun(r) \/ RunSaves(r) \/ RunReturns(r)
       PROVE  runOn'[s] # 0 /\ IsOpen(runOn[s])'
  BY <1>1, <1>9, <1>10 DEF ListRun, RunSaves, RunReturns, SvcTypeOK, svcDisk
<1>11. ASSUME \/ \E w \in Workspaces : SelectWorkspace(w)
              \/ SyncModels \/ UNCHANGED svcVars
       PROVE  runOn'[s] # 0 /\ IsOpen(runOn[s])'
  BY <1>9, <1>11 DEF SelectWorkspace, SyncModels, svcVars
<1> QED
  BY <1>2, <1>3, <1>4, <1>5, <1>6, <1>7, <1>8, <1>10, <1>11
  DEF SvcNext, Outage, OutageInDelete

-------------------------------------------------------------------------------
(* Lists and rows. *)

LEMMA ListsStep == SvcInv /\ [SvcNext]_svcVars => MadeUnlisted' /\ ListedRunsHaveRows'
<1> SUFFICES ASSUME SvcInv, [SvcNext]_svcVars PROVE MadeUnlisted' /\ ListedRunsHaveRows'
  OBVIOUS
<1>1. SvcTypeOK /\ MadeUnlisted /\ ListedRunsHaveRows
  BY DEF SvcInv
<1> USE <1>1, ServiceAssumption DEF SvcTypeOK, MadeUnlisted, ListedRunsHaveRows, svcDisk
<1>2. ASSUME NEW r \in Runs, CreateSession(r) PROVE MadeUnlisted' /\ ListedRunsHaveRows'
  BY <1>2 DEF CreateSession
<1>3. ASSUME NEW r \in Runs, ListRun(r) PROVE MadeUnlisted' /\ ListedRunsHaveRows'
  BY <1>3 DEF ListRun
<1>4. ASSUME NEW r \in Runs, ExecuteSession(r) \/ RunSaves(r) \/ RunReturns(r)
      PROVE  MadeUnlisted' /\ ListedRunsHaveRows'
  BY <1>4 DEF ExecuteSession, RunSaves, RunReturns
<1>5. ASSUME NEW c \in Conversations, DeleteChat(c)
      PROVE  MadeUnlisted' /\ ListedRunsHaveRows'
  BY <1>5 DEF DeleteChat
<1>6. ASSUME Outage PROVE MadeUnlisted' /\ ListedRunsHaveRows'
  BY <1>6 DEF Outage, OutageState
<1>7. ASSUME NEW c \in Conversations, OutageInDelete(c)
      PROVE  MadeUnlisted' /\ ListedRunsHaveRows'
  BY <1>7 DEF OutageInDelete, OutageState
<1>8. ASSUME UNCHANGED <<chatRun, svcDisk, unlisted>>
      PROVE  MadeUnlisted' /\ ListedRunsHaveRows'
  BY <1>8
<1> QED
  BY <1>2, <1>3, <1>4, <1>5, <1>6, <1>7, <1>8
  DEF SvcNext, svcVars, SelectWorkspace, SyncModels, SyncEnds, SaveSettings

-------------------------------------------------------------------------------
(* Theorems. *)

LEMMA SvcInvariant == SvcSpec => []SvcInv
<1>1. SvcInv /\ [SvcNext]_svcVars => SvcInv'
  BY SvcTypeStep, LockStep, RuntimeStep, ListsStep DEF SvcInv
<1> QED BY <1>1, SvcInitInv, PTL DEF SvcSpec

(* The type invariant of runtimes and chats, for any number of them. *)
THEOREM ServicePartTypes == SvcSpec => []SvcTypeOK
<1>1. SvcInv => SvcTypeOK
  BY DEF SvcInv
<1> QED BY <1>1, SvcInvariant, PTL

(* Whatever workspaces are selected, sessions created or deleted and models  *)
(* synchronised, RuntimeService closes no runtime under a run.  Only the     *)
(* saves of settings do, against the comment on setPermissionCeiling.        *)
THEOREM RuntimeIsKept == SvcSpec => []RunKeepsItsRuntime
<1>1. SvcInv => RunKeepsItsRuntime
  BY DEF SvcInv
<1> QED BY <1>1, SvcInvariant, PTL

(* What ConversationsService lists is in the Goal store, for any order of    *)
(* requests and ends of the process, one in the middle of a deletion too.    *)
THEOREM ListsAreTrue == SvcSpec => []ListedRunsHaveRows
<1>1. SvcInv => ListedRunsHaveRows
  BY DEF SvcInv
<1> QED BY <1>1, SvcInvariant, PTL
-------------------------------------------------------------------------------
(* An experiment: the inductive invariant. *)

\* While nothing was rejected, the arms in work are those of the execution that
\* holds the lock, and it does not look at the log for the last time before they have ended.
ArmsUnderLock ==
    ~rejected =>
        /\ \A x \in Executions, a \in Arms : phase[x][a] # "idle" => holder = x
        /\ closing = "execute" => \A x \in Executions, a \in Arms : phase[x][a] = "idle"

\* The lock is not held for nothing.
LockHasReason ==
    holder # 0 => closing = "execute" \/ \E a \in Arms : phase[holder][a] # "idle"

\* An arm that runs can be told to stop, and one that is in work has not been measured,
\* unless a cancellation has written it off.
ArmsUnmeasured ==
    ~rejected =>
        \A x \in Executions, a \in Arms :
            /\ phase[x][a] = "running" => registered[a] = x
            /\ phase[x][a] # "idle" /\ a \notin overtaken => metrics[a] = 0

MeasuredOnce == rejected \/ \A a \in Arms \ overtaken : metrics[a] <= 1

\* What was compared is complete, and is what is shown.
ComparedIsShown ==
    rejected \/ overtaken # {} \/ comparison = NotCompared \/ (comparison = metrics /\ Comparable)

ExpInv ==
    /\ ExpTypeOK
    /\ ArmsUnderLock /\ LockHasReason
    /\ ArmsUnmeasured /\ MeasuredOnce /\ ComparedIsShown

-------------------------------------------------------------------------------

LEMMA ExpInitInv == ExpInit => ExpInv
<1> SUFFICES ASSUME ExpInit PROVE ExpInv
  OBVIOUS
<1> USE ExperimentAssumption DEF ExpInit, NotCompared, Executions
<1>1. ExpTypeOK
  <2>1. 0 \in 0 .. MaxExecutions /\ 0 \in Nat
    OBVIOUS
  <2>2. /\ metrics \in [Arms -> Nat] /\ comparison \in [Arms -> Nat]
        /\ registered \in [Arms -> 0 .. MaxExecutions]
        /\ armStatus \in [Arms -> {"pending", "running"} \cup Outcomes]
        /\ phase \in [1 .. MaxExecutions -> [Arms -> {"idle", "preparing", "running"}]]
    BY <2>1
  <2> QED BY <2>1, <2>2 DEF ExpTypeOK
<1>2. ArmsUnderLock /\ LockHasReason /\ ArmsUnmeasured /\ MeasuredOnce /\ ComparedIsShown
  BY DEF ArmsUnderLock, LockHasReason, ArmsUnmeasured, MeasuredOnce, ComparedIsShown
<1> QED BY <1>1, <1>2 DEF ExpInv

\* arm.ended: the metrics of the arms of S, if the experiment is still there.
LEMMA EndArmsTypes ==
    ASSUME ExpTypeOK, NEW S \in SUBSET Arms, NEW how \in Outcomes, EndArms(S, how)
    PROVE  /\ metrics' \in [Arms -> Nat]
           /\ armStatus' \in [Arms -> {"pending", "running"} \cup Outcomes]
           /\ \A a \in Arms : metrics'[a] = metrics[a] \/ (a \in S /\ metrics'[a] = metrics[a] + 1)
           /\ S = {} => metrics' = metrics
<1>1. CASE created
  <2>1. /\ metrics' = [a \in Arms |-> IF a \in S THEN metrics[a] + 1 ELSE metrics[a]]
        /\ armStatus' = [a \in Arms |-> IF a \in S THEN how ELSE armStatus[a]]
    BY <1>1 DEF EndArms
  <2> QED BY <2>1 DEF ExpTypeOK
<1>2. CASE ~created
  BY <1>2 DEF EndArms, ExpTypeOK
<1> QED BY <1>1, <1>2

LEMMA ExpTypeStep == ExpTypeOK /\ [ExpNext]_expVars => ExpTypeOK'
<1> SUFFICES ASSUME ExpTypeOK, [ExpNext]_expVars PROVE ExpTypeOK'
  OBVIOUS
<1> USE DEF ExpTypeOK
<1>0. Executions \subseteq 0 .. MaxExecutions /\ MaxExecutions \in Nat
  BY ExperimentAssumption DEF Executions
<1>1. ASSUME NEW a \in Arms, PlanArm(a) PROVE ExpTypeOK'
  BY <1>1 DEF PlanArm, expBounds
<1>2. ASSUME NEW x \in Executions, Execute(x) PROVE ExpTypeOK'
  BY <1>0, <1>2 DEF Execute, Pending, StartedStatus
<1>14. ASSUME NEW x \in Executions, ExecuteUnresolved(x) PROVE ExpTypeOK'
  <2>1. /\ phase' \in [Executions -> [Arms -> {"idle", "preparing", "running"}]]
        /\ armStatus' \in [Arms -> {"pending", "running"} \cup Outcomes]
    BY <1>0, <1>14 DEF ExecuteUnresolved
  <2>2. executions' \in 0 .. MaxExecutions
    BY <1>0, <1>14 DEF ExecuteUnresolved, Executions
  <2> QED BY <1>14, <2>1, <2>2 DEF ExecuteUnresolved
<1>3. CASE ExecuteRefused
  BY <1>3 DEF ExecuteRefused, expMemory, expBounds, StartedStatus
<1>4. ASSUME NEW x \in Executions, NEW a \in Arms, Register(x, a) PROVE ExpTypeOK'
  BY <1>0, <1>4 DEF Register, expView, expBounds
<1>5. ASSUME NEW x \in Executions, NEW a \in Arms, LeaveArm(x, a)
      PROVE  /\ phase' \in [Executions -> [Arms -> {"idle", "preparing", "running"}]]
             /\ registered' \in [Arms -> 0 .. MaxExecutions]
             /\ stopped' \subseteq Executions \X Arms
  BY <1>0, <1>5 DEF LeaveArm
<1>6. ASSUME NEW x \in Executions, NEW a \in Arms, ArmEnds(x, a) PROVE ExpTypeOK'
  <2>1. PICK how \in Outcomes : EndArms({a}, how)
    BY <1>6 DEF ArmEnds
  <2>2. metrics' \in [Arms -> Nat] /\ armStatus' \in [Arms -> {"pending", "running"} \cup Outcomes]
    BY <2>1, EndArmsTypes
  <2> QED BY <1>5, <1>6, <2>2 DEF ArmEnds, expBounds
<1>7. ASSUME NEW x \in Executions, NEW a \in Arms, ArmLost(x, a) PROVE ExpTypeOK'
  BY <1>0, <1>5, <1>7 DEF ArmLost, expBounds
<1>8. CASE Close
  BY <1>0, <1>8 DEF Close, CompletedStatus, expBounds
<1>9. ASSUME NEW S \in SUBSET Arms, Cancel(S) PROVE ExpTypeOK'
  <2> DEFINE targets == S \cap Pending
             going == {a \in targets : registered[a] # 0}
             dead == targets \ going
  <2>1. EndArms(dead, "aborted") /\ dead \in SUBSET Arms /\ going \subseteq Arms
    BY <1>9 DEF Cancel
  <2>2. metrics' \in [Arms -> Nat] /\ armStatus' \in [Arms -> {"pending", "running"} \cup Outcomes]
    <3> HIDE DEF dead
    <3> QED BY <2>1, EndArmsTypes DEF Outcomes
  <2>3. \A a \in going : registered[a] \in Executions
    BY <1>0, <2>1 DEF Executions
  <2>4. stopped' \subseteq Executions \X Arms
    BY <1>9, <2>1, <2>3 DEF Cancel
  <2>5. overtaken' \subseteq Arms
    BY <1>9, <2>1 DEF Cancel
  <2> QED BY <1>9, <2>2, <2>4, <2>5 DEF Cancel, expBounds
<1>10. CASE RemoveExperiment
  BY <1>10 DEF RemoveExperiment, expMemory, expBounds
<1>11. CASE DiskChanges
  BY <1>11 DEF DiskChanges, expView, expMemory
<1>12. CASE ExpCrash
  <2>1. /\ registered' \in [Arms -> 0 .. MaxExecutions] /\ 0 \in 0 .. MaxExecutions
        /\ phase' \in [Executions -> [Arms -> {"idle", "preparing", "running"}]]
    BY <1>0, <1>12 DEF ExpCrash
  <2>2. /\ UNCHANGED <<created, planned, status, armStatus, metrics, comparison>>
        /\ UNCHANGED <<full, overtaken, rejected, executions, diskChanges>>
    BY <1>12 DEF ExpCrash, expView
  <2>3. holder' = 0 /\ stopped' = {} /\ creating' = FALSE /\ closing' = "nobody" /\ expCrashes' \in Nat
    BY <1>12 DEF ExpCrash
  <2> QED BY <2>1, <2>2, <2>3
<1>13. CASE UNCHANGED expVars
  BY <1>13 DEF expVars
<1> QED
  BY <1>1, <1>2, <1>3, <1>4, <1>6, <1>7, <1>8, <1>9, <1>10, <1>11, <1>12,
     <1>13, <1>14 DEF ExpNext

\* Steps that neither move an arm nor measure one.
LEMMA QuietExp ==
    ASSUME ExpInv, ExpTypeOK', UNCHANGED <<phase, metrics, comparison, registered, overtaken, holder>>,
           rejected => rejected', closing' = closing
    PROVE  ExpInv'
  BY DEF ExpInv, ArmsUnderLock, LockHasReason, ArmsUnmeasured, MeasuredOnce, ComparedIsShown, Comparable

LEMMA ExecuteInv ==
    ASSUME ExpInv, ExpTypeOK', NEW x \in Executions, Execute(x)
    PROVE  ExpInv'
<1> USE DEF ExpTypeOK
<1>0. ExpTypeOK /\ ArmsUnderLock /\ ArmsUnmeasured /\ MeasuredOnce /\ ComparedIsShown
  BY DEF ExpInv
<1>1. /\ holder = 0 /\ closing = "nobody" /\ x # 0
      /\ holder' = x
      /\ phase' = [phase EXCEPT ![x] = [a \in Arms |-> IF a \in Pending THEN "preparing" ELSE "idle"]]
      /\ closing' = IF Pending = {} THEN "execute" ELSE "nobody"
      /\ UNCHANGED <<metrics, comparison, registered, overtaken, rejected>>
  BY DEF Execute, Free, Executions
<1>2. /\ \A a \in Arms : phase'[x][a] = IF a \in Pending THEN "preparing" ELSE "idle"
      /\ \A y \in Executions \ {x} : phase'[y] = phase[y]
  BY <1>0, <1>1
<1>3. Pending \subseteq Arms /\ \A a \in Pending : metrics[a] = 0
  BY <1>0 DEF Pending
<1>4. ~rejected => \A y \in Executions, a \in Arms : phase[y][a] = "idle"
  BY <1>0, <1>1 DEF ArmsUnderLock, Executions
<1>5. ArmsUnderLock'
  BY <1>1, <1>2, <1>4 DEF ArmsUnderLock
<1>6. LockHasReason'
  BY <1>1, <1>2, <1>3 DEF LockHasReason
<1>7. ArmsUnmeasured'
  BY <1>1, <1>2, <1>3, <1>4 DEF ArmsUnmeasured
<1>8. MeasuredOnce' /\ ComparedIsShown'
  BY <1>0, <1>1 DEF MeasuredOnce, ComparedIsShown, Comparable
<1> QED BY <1>5, <1>6, <1>7, <1>8 DEF ExpInv

LEMMA UnresolvedInv ==
    ASSUME ExpInv, ExpTypeOK', NEW x \in Executions, ExecuteUnresolved(x)
    PROVE  ExpInv'
<1>1. rejected' /\ holder = 0 /\ holder' = holder
  BY DEF ExecuteUnresolved
<1>2. LockHasReason'
  BY <1>1 DEF LockHasReason
<1> QED
  BY <1>1, <1>2 DEF ExpInv, ArmsUnderLock, ArmsUnmeasured, MeasuredOnce, ComparedIsShown

LEMMA RegisterInv ==
    ASSUME ExpInv, ExpTypeOK', NEW x \in Executions, NEW a \in Arms, Register(x, a)
    PROVE  ExpInv'
<1> USE DEF ExpTypeOK
<1>0. ExpTypeOK /\ ArmsUnderLock /\ LockHasReason /\ ArmsUnmeasured /\ MeasuredOnce /\ ComparedIsShown
  BY DEF ExpInv
<1>1. /\ phase[x][a] = "preparing"
      /\ phase' = [phase EXCEPT ![x][a] = "running"] /\ registered' = [registered EXCEPT ![a] = x]
      /\ UNCHANGED <<metrics, comparison, overtaken, rejected, holder, closing>>
  BY DEF Register, expView
<1>2. \A y \in Executions, c \in Arms :
        phase'[y][c] = IF y = x /\ c = a THEN "running" ELSE phase[y][c]
  BY <1>0, <1>1
<1>3. \A c \in Arms : registered'[c] = IF c = a THEN x ELSE registered[c]
  BY <1>0, <1>1
<1>4. ArmsUnderLock'
  BY <1>0, <1>1, <1>2 DEF ArmsUnderLock
<1>5. LockHasReason'
  <2>1. holder \in Executions \/ holder = 0
    BY <1>0 DEF Executions
  <2> QED BY <1>0, <1>1, <1>2, <2>1 DEF LockHasReason
<1>6. ArmsUnmeasured'
  BY <1>0, <1>1, <1>2, <1>3 DEF ArmsUnmeasured, ArmsUnderLock
<1>7. MeasuredOnce' /\ ComparedIsShown'
  BY <1>0, <1>1 DEF MeasuredOnce, ComparedIsShown, Comparable
<1> QED BY <1>4, <1>5, <1>6, <1>7 DEF ExpInv

\* An arm ends: it was in work, so it is measured for the first time and nothing is compared yet.
LEMMA ArmEndsInv ==
    ASSUME ExpInv, ExpTypeOK', NEW x \in Executions, NEW a \in Arms, ArmEnds(x, a)
    PROVE  ExpInv'
<1> USE DEF ExpTypeOK
<1>0. ExpTypeOK /\ ArmsUnderLock /\ LockHasReason /\ ArmsUnmeasured /\ MeasuredOnce /\ ComparedIsShown
  BY DEF ExpInv
<1>1. /\ closing = "nobody" /\ phase[x][a] = "running"
      /\ phase' = [phase EXCEPT ![x][a] = "idle"] /\ registered' = [registered EXCEPT ![a] = 0]
      /\ closing' = IF holder = x /\ Others(x, a) = {} THEN "execute" ELSE "nobody"
      /\ UNCHANGED <<comparison, overtaken, rejected, holder>>
  BY DEF ArmEnds, LeaveArm
<1>2. \A c \in Arms : metrics'[c] = metrics[c] \/ (c = a /\ metrics'[c] = metrics[c] + 1)
  <2>1. PICK how \in Outcomes : EndArms({a}, how)
    BY DEF ArmEnds
  <2>2. PICK S \in SUBSET Arms : S = {a}
    OBVIOUS
  <2> QED BY <1>0, <2>1, <2>2, EndArmsTypes
<1>3. \A y \in Executions, c \in Arms :
        phase'[y][c] = IF y = x /\ c = a THEN "idle" ELSE phase[y][c]
  BY <1>0, <1>1
<1>4. \A c \in Arms : registered'[c] = IF c = a THEN 0 ELSE registered[c]
  BY <1>0, <1>1
<1>5. ~rejected =>
        /\ holder = x
        /\ \A y \in Executions, c \in Arms : phase[y][c] # "idle" => y = x
        /\ a \notin overtaken => metrics[a] = 0
  BY <1>0, <1>1 DEF ArmsUnderLock, ArmsUnmeasured
<1>6. ArmsUnderLock'
  BY <1>1, <1>3, <1>5 DEF ArmsUnderLock, Others
<1>7. LockHasReason'
  <2>1. holder \in Executions \/ holder = 0
    BY <1>0 DEF Executions
  <2> QED BY <1>0, <1>1, <1>3, <2>1 DEF LockHasReason, Others
<1>8. ArmsUnmeasured'
  BY <1>0, <1>1, <1>2, <1>3, <1>4, <1>5 DEF ArmsUnmeasured
<1>9. MeasuredOnce'
  BY <1>0, <1>1, <1>2, <1>5 DEF MeasuredOnce
<1>10. ComparedIsShown'
  BY <1>0, <1>1, <1>5 DEF ComparedIsShown, Comparable
<1> QED BY <1>6, <1>7, <1>8, <1>9, <1>10 DEF ExpInv

LEMMA ArmLostInv ==
    ASSUME ExpInv, ExpTypeOK', NEW x \in Executions, NEW a \in Arms, ArmLost(x, a)
    PROVE  ExpInv'
<1> USE DEF ExpTypeOK
<1>0. ExpTypeOK /\ LockHasReason
  BY DEF ExpInv
<1>1. /\ rejected' = TRUE /\ phase' = [phase EXCEPT ![x][a] = "idle"]
      /\ holder' = (IF holder = x THEN 0 ELSE holder) /\ closing' = closing
  BY DEF ArmLost, LeaveArm
<1>2. \A y \in Executions \ {x} : phase'[y] = phase[y]
  BY <1>0, <1>1
<1>3. LockHasReason'
  <2>1. holder \in Executions \/ holder = 0
    BY <1>0 DEF Executions
  <2> QED BY <1>0, <1>1, <1>2, <2>1 DEF LockHasReason
<1> QED
  BY <1>1, <1>3 DEF ExpInv, ArmsUnderLock, ArmsUnmeasured, MeasuredOnce, ComparedIsShown

LEMMA CloseInv ==
    ASSUME ExpInv, ExpTypeOK', Close
    PROVE  ExpInv'
<1> USE DEF ExpTypeOK
<1>0. ExpTypeOK /\ ArmsUnderLock /\ LockHasReason /\ ArmsUnmeasured /\ MeasuredOnce /\ ComparedIsShown
  BY DEF ExpInv
<1>1. /\ closing # "nobody" /\ closing' = "nobody"
      /\ comparison' = comparison \/ (comparison' = metrics /\ Comparable)
      /\ rejected' = (rejected \/ full)
      /\ holder' = IF closing = "execute" THEN 0 ELSE holder
      /\ UNCHANGED <<metrics, phase, registered, overtaken>>
  BY DEF Close
<1>2. ArmsUnderLock'
  BY <1>0, <1>1 DEF ArmsUnderLock
<1>3. LockHasReason'
  BY <1>0, <1>1 DEF LockHasReason
<1>4. ArmsUnmeasured' /\ MeasuredOnce' /\ ComparedIsShown'
  BY <1>0, <1>1 DEF ArmsUnmeasured, MeasuredOnce, ComparedIsShown, Comparable
<1> QED BY <1>2, <1>3, <1>4 DEF ExpInv

\* A cancellation writes off arms that are not registered: one of them that is in work is
\* overtaken.
LEMMA CancelInv ==
    ASSUME ExpInv, ExpTypeOK', NEW S \in SUBSET Arms, Cancel(S)
    PROVE  ExpInv'
<1> USE DEF ExpTypeOK
<1>0. ExpTypeOK /\ ArmsUnderLock /\ LockHasReason /\ ArmsUnmeasured /\ MeasuredOnce /\ ComparedIsShown
  BY DEF ExpInv
<1> DEFINE targets == S \cap Pending
           going == {a \in targets : registered[a] # 0}
           dead == targets \ going
<1>1. /\ closing = "nobody" /\ closing' \in {"cancel", "nobody"}
      /\ EndArms(dead, "aborted")
      /\ overtaken' = overtaken \cup {a \in dead : \E x \in Executions : phase[x][a] = "preparing"}
      /\ UNCHANGED <<phase, comparison, registered, rejected, holder>>
  BY DEF Cancel, Free
<1>2. dead \in SUBSET Arms /\ \A a \in dead : metrics[a] = 0 /\ registered[a] = 0
  BY <1>0 DEF Pending
<1>3. Comparable => dead = {}
  BY DEF Comparable, Pending
<1> HIDE DEF dead
<1>4. /\ \A a \in Arms : metrics'[a] = metrics[a] \/ (a \in dead /\ metrics'[a] = metrics[a] + 1)
      /\ dead = {} => metrics' = metrics
  BY <1>0, <1>1, <1>2, EndArmsTypes DEF Outcomes
<1>5. ArmsUnderLock' /\ LockHasReason'
  BY <1>0, <1>1 DEF ArmsUnderLock, LockHasReason
<1>6. ArmsUnmeasured'
  <2> SUFFICES ASSUME ~rejected, NEW x \in Executions, NEW a \in Arms
               PROVE  /\ phase[x][a] = "running" => registered[a] = x
                      /\ phase[x][a] # "idle" /\ a \notin overtaken' => metrics'[a] = 0
    BY <1>1 DEF ArmsUnmeasured
  <2>1. phase[x][a] = "running" => registered[a] = x
    BY <1>0 DEF ArmsUnmeasured
  <2>2. phase[x][a] # "idle" /\ a \notin overtaken' => a \notin dead /\ a \notin overtaken
    <3> SUFFICES ASSUME phase[x][a] # "idle", a \in dead PROVE a \in overtaken'
      BY <1>1
    <3>1. x # 0
      BY DEF Executions
    <3>2. phase[x][a] = "preparing"
      BY <1>0, <1>2, <2>1, <3>1
    <3> QED BY <1>1, <3>2
  <2> QED BY <1>0, <1>4, <2>1, <2>2 DEF ArmsUnmeasured
<1>7. MeasuredOnce'
  BY <1>0, <1>1, <1>2, <1>4 DEF MeasuredOnce
<1>8. ComparedIsShown'
  BY <1>0, <1>1, <1>3, <1>4 DEF ComparedIsShown, Comparable
<1> QED BY <1>5, <1>6, <1>7, <1>8 DEF ExpInv

LEMMA CrashInv ==
    ASSUME ExpInv, ExpTypeOK', ExpCrash
    PROVE  ExpInv'
  BY DEF ExpInv, ExpCrash, expView, ArmsUnderLock, LockHasReason, ArmsUnmeasured, MeasuredOnce,
         ComparedIsShown, Comparable, NotCompared

THEOREM ExperimentInvariant == ExpSpec => []ExpInv
<1>1. ExpInv /\ [ExpNext]_expVars => ExpInv'
  <2> SUFFICES ASSUME ExpInv, [ExpNext]_expVars PROVE ExpInv'
    OBVIOUS
  <2>1. ExpTypeOK'
    BY ExpTypeStep DEF ExpInv
  <2>2. CASE \/ \E a \in Arms : PlanArm(a)
             \/ ExecuteRefused \/ RemoveExperiment \/ DiskChanges \/ UNCHANGED expVars
    BY <2>1, <2>2, QuietExp
    DEF PlanArm, ExecuteRefused, RemoveExperiment, DiskChanges, expVars, expView, expMemory
  <2> QED
    BY <2>1, <2>2, ExecuteInv, UnresolvedInv, RegisterInv, ArmEndsInv, ArmLostInv, CloseInv,
       CancelInv, CrashInv DEF ExpNext
<1> QED BY <1>1, ExpInitInv, PTL DEF ExpSpec

\* The shape of an experiment, for any number of arms, executions, crashes and full disks.
THEOREM ExperimentTypes == ExpSpec => []ExpTypeOK
  BY ExperimentInvariant, PTL DEF ExpInv

(* No arm runs without the lock until an execution is rejected, and nobody   *)
(* holds the lock for nothing (runExperimentExclusive).                      *)
THEOREM LockCovers == ExpSpec => []LockCoversRunningArms
<1>1. ExpInv => LockCoversRunningArms
  BY DEF ExpInv, ArmsUnderLock, LockHasReason, LockCoversRunningArms
<1> QED BY <1>1, ExperimentInvariant, PTL

(* Every arm is measured once, and the comparison that is shown is of the    *)
(* metrics that are shown, whatever executions, cancellations, deletions and *)
(* crashes come in between (runArm, cancel, isComparable).                   *)
THEOREM ComparisonIsTrue == ExpSpec => []ComparisonIsOfShownMetrics
<1>1. ExpInv => ComparisonIsOfShownMetrics
  BY DEF ExpInv, MeasuredOnce, ComparedIsShown, ComparisonIsOfShownMetrics
<1> QED BY <1>1, ExperimentInvariant, PTL

-------------------------------------------------------------------------------
(* The catalogue: the inductive invariant. *)

ImportedTypes ==
    imported \in {[done |-> FALSE]} \cup [done : {TRUE}, config : Configs]

\* A call is in the process that runs, and one that is settled has been billed there.
CallsOfProcess ==
    /\ attached => booted
    /\ \A n \in ModelCalls : call[n] \in {"flying", "settled"} => booted
    /\ attached => \A n \in ModelCalls \ unbillable : call[n] = "settled" => live[n] > 0

\* The plans of an offering whose prices came in order: the last one is in force and has the
\* price observed last, those before it have ended.
InForce(ps, price) ==
    /\ ps # <<>>
    /\ ps[Len(ps)].until = Open /\ ps[Len(ps)].from <= clock
    /\ ps[Len(ps)].price = price
    /\ \A i \in 1 .. Len(ps) - 1 : ps[i].until # Open /\ ps[i].until <= clock

PlansInOrder ==
    \A o \in Offerings \ misdated :
        (plans[o] = <<>> /\ observed[o] = Unpriced) \/ InForce(plans[o], observed[o])

\* The snapshot shows the plan in force, for as long as nothing was imported after it.
LatestIsShown == \A o \in Offerings \ misdated : shown[o] \in {0, Len(plans[o])}

\* The facts still say what was imported last.
FactsAreImported ==
    imported.done =>
        /\ \A o \in Offerings : offered[o] = "active" <=> o \in imported.config.listed
        /\ \A o \in Offerings \ misdated :
              PriceIn(imported.config, o) # Unpriced => observed[o] = PriceIn(imported.config, o)

CatInv ==
    /\ CatTypeOK /\ ImportedTypes
    /\ CallsOfProcess /\ LedgerCoversSteps
    /\ PlansInOrder /\ LatestIsShown /\ FactsAreImported

-------------------------------------------------------------------------------
(* The plan that selectActivePlan chooses. *)

Plan == [price : Prices, from : Nat, until : Nat \cup {Open}, operator : BOOLEAN]

\* A set of numbers has a least one: what holds of none of the smaller ones can be assumed.
LEMMA LeastOf ==
    ASSUME NEW S \in SUBSET Nat, S # {}
    PROVE  \E n \in S : \A m \in S : n <= m
<1>1. PICK n \in S : \A m \in S : ~(<<m, n>> \in OpToRel(<, Nat))
  BY NatLessThanWellFounded, WFMin
<1>2. ASSUME NEW m \in S, m < n PROVE FALSE
  <2>1. <<m, n>> \in Nat \X Nat
    OBVIOUS
  <2>2. <<m, n>> \in OpToRel(<, Nat)
    BY <1>2, <2>1, Zenon DEF OpToRel
  <2> QED BY <1>1, <2>2
<1>3. \A m \in S : m \in Nat /\ n \in Nat
  OBVIOUS
<1> QED BY <1>2, <1>3

\* Of any plans there is one that none of the others is better than.
LEMMA BestExists ==
    ASSUME NEW ps \in Seq(Plan), NEW A \in SUBSET DOMAIN ps, A # {}
    PROVE  \E i \in A : \A j \in A : Better(ps, i, j)
<1> DEFINE Upto(n) == {i \in A : i <= n}
           Best(n) == \E i \in Upto(n) : \A j \in Upto(n) : Better(ps, i, j)
           Bad == {n \in Nat : Upto(n) # {} /\ ~Best(n)}
<1>1. /\ Len(ps) \in Nat /\ DOMAIN ps = 1 .. Len(ps)
      /\ \A i \in A : i \in Nat /\ i >= 1 /\ i <= Len(ps) /\ ps[i] \in Plan
  OBVIOUS
<1>2. \A i, j \in A : Better(ps, i, j) \/ Better(ps, j, i)
  BY <1>1 DEF Better, Plan
<1>3. \A i, j, k \in A : Better(ps, i, j) /\ Better(ps, j, k) => Better(ps, i, k)
  BY <1>1 DEF Better, Plan
<1>4. Bad = {}
  <2> SUFFICES ASSUME Bad # {} PROVE FALSE
    OBVIOUS
  <2>1. PICK n \in Bad : \A m \in Bad : n <= m
    <3> HIDE DEF Bad
    <3>1. Bad \in SUBSET Nat
      BY DEF Bad
    <3> QED BY <3>1, LeastOf
  <2>2. n \in Nat /\ Upto(n) # {} /\ ~Best(n)
    OBVIOUS
  <2>3. n # 0
    BY <1>1, <2>2
  <2>4. n - 1 \in Nat /\ ~(n <= n - 1)
    BY <2>2, <2>3
  <2>5. Upto(n - 1) = {} \/ Best(n - 1)
    BY <2>1, <2>4
  <2>6. \A i \in Upto(n) : i \in Upto(n - 1) \/ i = n
    BY <1>1, <2>2
  <2>7. CASE n \notin A
    <3>1. ASSUME NEW i \in A PROVE i <= n <=> i <= n - 1
      <4>1. i \in Nat /\ n \in Nat /\ i # n
        BY <1>1, <2>2, <2>7
      <4> HIDE DEF Bad, Upto, Best
      <4> QED BY <4>1
    <3>2. Upto(n) = Upto(n - 1)
      BY <3>1
    <3> QED BY <2>2, <2>5, <3>2
  <2>8. CASE n \in A
    <3>1. n \in Upto(n)
      BY <2>2, <2>8
    <3>2. Better(ps, n, n)
      BY <1>2, <2>8
    <3>3. CASE Upto(n - 1) = {}
      BY <2>2, <2>6, <3>1, <3>2, <3>3
    <3>4. CASE Best(n - 1)
      <4>1. PICK i \in Upto(n - 1) : \A j \in Upto(n - 1) : Better(ps, i, j)
        BY <3>4
      <4>2. i \in A /\ i \in Upto(n)
        BY <1>1, <2>2
      <4>3. CASE Better(ps, i, n)
        BY <2>2, <2>6, <4>1, <4>2, <4>3
      <4>4. CASE Better(ps, n, i)
        <5>1. \A j \in Upto(n) : Better(ps, n, j)
          BY <1>3, <2>6, <2>8, <3>2, <4>1, <4>2, <4>4
        <5> QED BY <2>2, <3>1, <5>1
      <4> QED BY <1>2, <2>8, <4>2, <4>3, <4>4
    <3> QED BY <2>5, <3>3, <3>4
  <2> QED BY <2>7, <2>8
<1>5. Upto(Len(ps)) = A
  BY <1>1
<1> QED BY <1>1, <1>4, <1>5

LEMMA SelectIsPlan ==
    ASSUME NEW ps \in Seq(Plan), NEW t \in Nat
    PROVE  SelectActive(ps, t) \in 0 .. Len(ps)
<1> DEFINE active == {i \in DOMAIN ps : ActiveAt(ps[i], t)}
<1>1. CASE active = {}
  BY <1>1 DEF SelectActive
<1>2. CASE active # {}
  <2>1. SelectActive(ps, t) = CHOOSE i \in active : \A j \in active : Better(ps, i, j)
    BY <1>2 DEF SelectActive
  <2>2. \E i \in active : \A j \in active : Better(ps, i, j)
    <3> HIDE DEF active
    <3>1. active \in SUBSET DOMAIN ps
      BY DEF active
    <3> QED BY <1>2, <3>1, BestExists
  <2>3. SelectActive(ps, t) \in active
    <3> HIDE DEF active
    <3> QED BY <2>1, <2>2
  <2> QED BY <2>3
<1> QED BY <1>1, <1>2

\* Of plans in order the last one is chosen.
LEMMA SelectInOrder ==
    ASSUME NEW ps \in Seq(Plan), NEW t \in Nat, ps # <<>>,
           ps[Len(ps)].until = Open, ps[Len(ps)].from <= t,
           \A i \in 1 .. Len(ps) - 1 : ps[i].until # Open /\ ps[i].until <= t
    PROVE  SelectActive(ps, t) = Len(ps) /\ Len(ps) \in Nat \ {0}
<1> DEFINE active == {i \in DOMAIN ps : ActiveAt(ps[i], t)}
<1>1. Len(ps) \in Nat \ {0} /\ DOMAIN ps = 1 .. Len(ps) /\ \A i \in 1 .. Len(ps) : ps[i] \in Plan
  BY EmptySeq
<1>2. Len(ps) \in active
  BY <1>1 DEF ActiveAt
<1>3. ASSUME NEW i \in active PROVE i = Len(ps)
  <2> SUFFICES ASSUME i \in 1 .. Len(ps) - 1 PROVE FALSE
    BY <1>1
  <2>1. ps[i].until \in Nat \cup {Open} /\ ps[i].until # Open /\ ps[i].until <= t
    BY <1>1 DEF Plan
  <2>2. ps[i].until = Open \/ t < ps[i].until
    BY DEF ActiveAt
  <2> QED BY <2>1, <2>2 DEF Open
<1>4. active = {Len(ps)}
  BY <1>2, <1>3
<1>5. Better(ps, Len(ps), Len(ps))
  BY <1>1 DEF Better
<1>6. SelectActive(ps, t) = CHOOSE i \in {Len(ps)} : \A j \in {Len(ps)} : Better(ps, i, j)
  BY <1>4 DEF SelectActive
<1> QED BY <1>1, <1>5, <1>6

-------------------------------------------------------------------------------
(* An import. *)

\* The names in applyObservedPricing.
PricingSteps(c, o, byOperator, ps, current, same, closed, plan, qs) ==
    /\ ps = plans[o]
    /\ current = SelectActive(ps, clock)
    /\ same = (PriceIn(c, o) = Unpriced \/ (current # 0 /\ ps[current].price = PriceIn(c, o)))
    /\ closed = IF current # 0 /\ ps[current].until = Open /\ c.from >= ps[current].from
                THEN [ps EXCEPT ![current].until = c.from] ELSE ps
    /\ plan = [price |-> PriceIn(c, o), from |-> c.from, until |-> Open, operator |-> byOperator]
    /\ qs = PricedBy(c, o, byOperator)

\* applyObservedPricing, step by step: the plan in force is closed, the new one appended.
LEMMA PricedStepwise ==
    ASSUME CatTypeOK, NEW c \in Configs, NEW o \in Offerings, NEW byOperator \in BOOLEAN,
           NEW ps, NEW current, NEW same, NEW closed, NEW plan, NEW qs,
           PricingSteps(c, o, byOperator, ps, current, same, closed, plan, qs)
    PROVE  /\ ps \in Seq(Plan) /\ current \in 0 .. Len(ps) /\ clock \in Nat /\ c.from \in Nat
           /\ closed \in Seq(Plan) /\ Len(closed) = Len(ps)
           /\ same => qs = ps
           /\ ~same => plan \in Plan /\ qs = Append(closed, plan) /\ qs # ps
           /\ PriceIn(c, o) \in Prices \cup {Unpriced}
           /\ qs \in Seq(Plan)
<1>0. /\ ps = plans[o]
      /\ current = SelectActive(ps, clock)
      /\ same = (PriceIn(c, o) = Unpriced \/ (current # 0 /\ ps[current].price = PriceIn(c, o)))
      /\ closed = IF current # 0 /\ ps[current].until = Open /\ c.from >= ps[current].from
                  THEN [ps EXCEPT ![current].until = c.from] ELSE ps
      /\ plan = [price |-> PriceIn(c, o), from |-> c.from, until |-> Open, operator |-> byOperator]
      /\ qs = PricedBy(c, o, byOperator)
  BY DEF PricingSteps
<1>1. ps \in Seq(Plan) /\ clock \in Nat
  BY <1>0 DEF CatTypeOK, Plan
<1>2. /\ c.from \in Nat
      /\ PriceIn(c, o) \in Prices \cup {Unpriced}
  BY CatalogueAssumption DEF PriceIn
<1>3. current \in 0 .. Len(ps)
  BY <1>0, <1>1, SelectIsPlan
<1>4. closed \in Seq(Plan) /\ Len(closed) = Len(ps)
  <2>1. ASSUME NEW k \in 1 .. Len(ps)
        PROVE  [ps EXCEPT ![k].until = c.from] \in Seq(Plan) /\ Len([ps EXCEPT ![k].until = c.from]) = Len(ps)
    <3>0. ps[k] \in Plan
      BY <1>1
    <3>1. [ps[k] EXCEPT !.until = c.from] \in Plan
      BY <1>2, <3>0 DEF Plan
    <3>2. /\ [ps EXCEPT ![k] = [ps[k] EXCEPT !.until = c.from]] \in Seq(Plan)
          /\ Len([ps EXCEPT ![k] = [ps[k] EXCEPT !.until = c.from]]) = Len(ps)
      BY <1>1, <3>1, ExceptSeq
    <3> QED BY <3>2
  <2> QED BY <1>0, <1>1, <1>3, <2>1
<1>5. ~same => plan \in Plan
  BY <1>0, <1>2 DEF Plan
<1>6. qs = IF same THEN ps ELSE Append(closed, plan)
  BY <1>0 DEF PricedBy
<1>7. ~same => qs # ps
  <2> SUFFICES ASSUME ~same PROVE Len(qs) = Len(ps) + 1 /\ Len(ps) \in Nat
    BY <1>1
  <2> QED BY <1>1, <1>4, <1>5, <1>6, AppendProperties
<1>8. qs \in Seq(Plan)
  <2>1. CASE same
    BY <1>1, <1>6, <2>1
  <2>2. CASE ~same
    <3>1. plan \in Plan /\ qs = Append(closed, plan)
      BY <1>5, <1>6, <2>2
    <3>2. Append(closed, plan) \in Seq(Plan)
      BY <1>4, <3>1
    <3> QED BY <3>1, <3>2
  <2> QED BY <2>1, <2>2
<1> QED BY <1>1, <1>2, <1>3, <1>4, <1>5, <1>6, <1>7, <1>8

\* A price that differs from the one in force adds a plan.
LEMMA PricedAnew ==
    ASSUME CatTypeOK, NEW c \in Configs, NEW o \in Offerings, NEW byOperator \in BOOLEAN,
           NEW ps, ps = plans[o],
           NEW current, current = SelectActive(ps, clock),
           ~(PriceIn(c, o) = Unpriced \/ (current # 0 /\ ps[current].price = PriceIn(c, o)))
    PROVE  PricedBy(c, o, byOperator) # ps
<1> DEFINE closed == IF current # 0 /\ ps[current].until = Open /\ c.from >= ps[current].from
                     THEN [ps EXCEPT ![current].until = c.from] ELSE ps
           plan == [price |-> PriceIn(c, o), from |-> c.from, until |-> Open, operator |-> byOperator]
           same == PriceIn(c, o) = Unpriced \/ (current # 0 /\ ps[current].price = PriceIn(c, o))
<1>1. ASSUME NEW x, x = closed, NEW p, p = plan, NEW y, y = same, NEW qs, qs = PricedBy(c, o, byOperator)
      PROVE  ~y => qs # ps
  <2>1. PricingSteps(c, o, byOperator, ps, current, y, x, p, qs)
    BY <1>1 DEF PricingSteps
  <2> QED BY <2>1, PricedStepwise
<1> QED BY <1>1

LEMMA PricedTypes ==
    ASSUME CatTypeOK, NEW c \in Configs, NEW o \in Offerings, NEW byOperator \in BOOLEAN
    PROVE  /\ PricedBy(c, o, byOperator) \in Seq(Plan)
           /\ PriceIn(c, o) \in Prices \cup {Unpriced}
           /\ OfferedBy(c, o) \in {"absent", "active", "deprecated"}
<1>1. ASSUME NEW ps, ps = plans[o],
             NEW current, current = SelectActive(ps, clock),
             NEW same, same = (PriceIn(c, o) = Unpriced \/ (current # 0 /\ ps[current].price = PriceIn(c, o))),
             NEW closed, closed = IF current # 0 /\ ps[current].until = Open /\ c.from >= ps[current].from
                                  THEN [ps EXCEPT ![current].until = c.from] ELSE ps,
             NEW plan, plan = [price |-> PriceIn(c, o), from |-> c.from, until |-> Open,
                               operator |-> byOperator],
             NEW qs, qs = PricedBy(c, o, byOperator)
      PROVE  qs \in Seq(Plan) /\ PriceIn(c, o) \in Prices \cup {Unpriced}
  <2>1. PricingSteps(c, o, byOperator, ps, current, same, closed, plan, qs)
    BY <1>1 DEF PricingSteps
  <2> QED BY <2>1, PricedStepwise
<1> QED BY <1>1 DEF OfferedBy, CatTypeOK

\* All plans but the last are closed by t.
ClosedBut(ps, t) == \A i \in 1 .. Len(ps) - 1 : ps[i].until # Open /\ ps[i].until <= t

\* The last plan is closed where the new one begins, and the new one appended.
Superseded(ps, plan) ==
    Append(IF ps = <<>> THEN ps ELSE [ps EXCEPT ![Len(ps)].until = plan.from], plan)

\* A plan from before t supersedes plans in order.
LEMMA AppendInOrder ==
    ASSUME NEW ps \in Seq(Plan), NEW t \in Nat, NEW plan \in Plan, plan.until = Open, plan.from <= t,
           ClosedBut(ps, t), NEW qs, qs = Superseded(ps, plan)
    PROVE  qs # <<>> /\ qs[Len(qs)] = plan /\ ClosedBut(qs, t)
<1> DEFINE closed == IF ps = <<>> THEN ps ELSE [ps EXCEPT ![Len(ps)].until = plan.from]
<1>0. /\ qs = Append(closed, plan)
      /\ \A i \in 1 .. Len(ps) - 1 : ps[i].until # Open /\ ps[i].until <= t
  BY DEF Superseded, ClosedBut
<1> SUFFICES /\ qs # <<>> /\ qs[Len(qs)] = plan
             /\ \A i \in 1 .. Len(qs) - 1 : qs[i].until # Open /\ qs[i].until <= t
  BY DEF ClosedBut
<1>1. CASE ps = <<>>
  <2>1. qs = <<plan>>
    BY <1>0, <1>1
  <2> QED BY <2>1
<1>2. CASE ps # <<>>
  <2>1. Len(ps) \in Nat \ {0} /\ Len(ps) \in 1 .. Len(ps) /\ ps[Len(ps)] \in Plan
    BY <1>2, EmptySeq
  <2>2. plan.from \in Nat /\ [ps[Len(ps)] EXCEPT !.until = plan.from] \in Plan
    BY <2>1 DEF Plan
  <2>3. [ps[Len(ps)] EXCEPT !.until = plan.from].until = plan.from
    BY <2>1 DEF Plan
  <2>4. closed = [ps EXCEPT ![Len(ps)] = [ps[Len(ps)] EXCEPT !.until = plan.from]]
    BY <1>2
  <2> HIDE DEF closed
  <2>5. /\ closed \in Seq(Plan) /\ Len(closed) = Len(ps)
        /\ \A i \in 1 .. Len(ps) : i # Len(ps) => closed[i] = ps[i]
        /\ closed[Len(ps)].until = plan.from
    BY <2>1, <2>2, <2>3, <2>4, ExceptSeq
  <2>6. /\ qs # <<>> /\ Len(qs) = Len(ps) + 1 /\ qs[Len(ps) + 1] = plan
        /\ \A i \in 1 .. Len(ps) : qs[i] = closed[i]
    <3>1. /\ qs # <<>> /\ Len(qs) = Len(closed) + 1 /\ qs[Len(closed) + 1] = plan
          /\ \A i \in 1 .. Len(closed) : qs[i] = closed[i]
      <4>1. ASSUME NEW cs \in Seq(Plan), NEW p \in Plan
            PROVE  /\ Append(cs, p) # <<>> /\ Len(Append(cs, p)) = Len(cs) + 1
                   /\ Append(cs, p)[Len(cs) + 1] = p
                   /\ \A i \in 1 .. Len(cs) : Append(cs, p)[i] = cs[i]
        BY AppendProperties
      <4>2. closed \in Seq(Plan) /\ plan \in Plan /\ qs = Append(closed, plan)
        BY <1>0, <2>5
      <4> QED BY <4>1, <4>2
    <3> QED BY <2>5, <3>1
  <2>7. plan.from # Open
    BY <2>2 DEF Open
  <2>8. ASSUME NEW i \in 1 .. Len(qs) - 1 PROVE qs[i].until # Open /\ qs[i].until <= t
    <3>0. Len(qs) - 1 = Len(ps)
      BY <2>1, <2>6
    <3>1. i \in 1 .. Len(ps) /\ qs[i] = closed[i]
      BY <2>6, <3>0
    <3>2. CASE i = Len(ps)
      BY <2>5, <2>7, <3>1, <3>2
    <3>3. CASE i # Len(ps)
      BY <1>0, <2>1, <2>5, <3>1, <3>3
    <3> QED BY <3>2, <3>3
  <2> QED BY <2>1, <2>6, <2>8
<1> QED BY <1>1, <1>2

\* applyObservedPricing leaves the plans in order, unless the price is misdated.
LEMMA PricedInOrder ==
    ASSUME CatTypeOK, PlansInOrder, NEW c \in Configs, NEW o \in Offerings \ misdated,
           NEW byOperator \in BOOLEAN, ~Misdates(c, o),
           NEW price, price = IF PriceIn(c, o) = Unpriced THEN observed[o] ELSE PriceIn(c, o),
           NEW qs, qs = PricedBy(c, o, byOperator)
    PROVE  (qs = <<>> /\ price = Unpriced) \/ InForce(qs, price)
<1>1. ASSUME NEW ps, ps = plans[o],
             NEW current, current = SelectActive(ps, clock),
             NEW same, same = (PriceIn(c, o) = Unpriced \/ (current # 0 /\ ps[current].price = PriceIn(c, o))),
             NEW closed, closed = IF current # 0 /\ ps[current].until = Open /\ c.from >= ps[current].from
                                  THEN [ps EXCEPT ![current].until = c.from] ELSE ps,
             NEW plan, plan = [price |-> PriceIn(c, o), from |-> c.from, until |-> Open,
                               operator |-> byOperator]
      PROVE  (qs = <<>> /\ price = Unpriced) \/ InForce(qs, price)
  <2>1. /\ ps \in Seq(Plan) /\ current \in 0 .. Len(ps) /\ clock \in Nat /\ c.from \in Nat
        /\ same => qs = ps
        /\ ~same => plan \in Plan /\ qs = Append(closed, plan)
    <3>1. PricingSteps(c, o, byOperator, ps, current, same, closed, plan, qs)
      BY <1>1 DEF PricingSteps
    <3> QED BY <3>1, PricedStepwise
  <2>2. ASSUME NEW no \in BOOLEAN, no = FALSE, NEW rs, rs = PricedBy(c, o, no), ~same
        PROVE  ~(c.from > clock) /\ ~(current # 0 /\ c.from < ps[current].from)
    <3>1. rs # ps
      BY <1>1, <2>2, PricedAnew
    <3> QED BY <1>1, <2>2, <3>1 DEF Misdates
  <2>3. ~same => ~(c.from > clock) /\ ~(current # 0 /\ c.from < ps[current].from)
    BY <2>2
  <2>4. (ps = <<>> /\ observed[o] = Unpriced /\ current = 0)
            \/ (InForce(ps, observed[o]) /\ current = Len(ps) /\ Len(ps) \in Nat \ {0})
    <3>1. CASE ps = <<>> /\ observed[o] = Unpriced
      <4>1. Len(ps) = 0
        BY <3>1
      <4> QED BY <2>1, <3>1, <4>1
    <3>2. CASE InForce(ps, observed[o])
      BY <1>1, <2>1, <3>2, SelectInOrder DEF InForce
    <3> QED BY <1>1, <3>1, <3>2 DEF PlansInOrder
  <2>5. CASE same
    <3>1. price = observed[o]
      <4>1. CASE PriceIn(c, o) = Unpriced
        BY <4>1
      <4>2. CASE PriceIn(c, o) # Unpriced
        BY <1>1, <2>4, <2>5, <4>2 DEF InForce
      <4> QED BY <4>1, <4>2
    <3> QED BY <2>1, <2>4, <2>5, <3>1
  <2>6. CASE ~same
    <3>1. price = PriceIn(c, o) /\ price = plan.price
      BY <1>1, <2>6
    <3>2. plan \in Plan /\ plan.until = Open /\ plan.from = c.from
      BY <1>1, <2>1, <2>6
    <3>3. c.from <= clock
      BY <2>1, <2>3, <2>6
    <3>4. closed = IF ps = <<>> THEN ps ELSE [ps EXCEPT ![Len(ps)].until = plan.from]
      <4>1. CASE ps = <<>>
        BY <1>1, <2>4, <4>1 DEF InForce
      <4>2. CASE ps # <<>>
        <5>1. InForce(ps, observed[o]) /\ current = Len(ps) /\ Len(ps) \in Nat \ {0} /\ ps[current] \in Plan
          BY <2>1, <2>4, <4>2
        <5>2. ps[current].from \in Nat
          BY <5>1 DEF Plan
        <5>3. c.from >= ps[current].from
          BY <2>1, <2>3, <2>6, <5>1, <5>2
        <5> QED BY <1>1, <3>2, <4>2, <5>1, <5>3 DEF InForce
      <4> QED BY <4>1, <4>2
    <3>5. \A i \in 1 .. Len(ps) - 1 : ps[i].until # Open /\ ps[i].until <= clock
      <4>1. ps = <<>> => Len(ps) = 0
        BY <2>1
      <4> QED BY <2>4, <4>1 DEF InForce
    <3>6. qs = Append(closed, plan)
      BY <2>1, <2>6
    <3>7. qs # <<>> /\ qs[Len(qs)] = plan /\ ClosedBut(qs, clock)
      <4>1. ps \in Seq(Plan) /\ clock \in Nat /\ plan \in Plan /\ plan.until = Open /\ plan.from <= clock
        BY <2>1, <3>2, <3>3
      <4>2. ClosedBut(ps, clock)
        BY <3>5 DEF ClosedBut
      <4>3. qs = Superseded(ps, plan)
        BY <3>4, <3>6 DEF Superseded
      <4> QED BY <4>1, <4>2, <4>3, AppendInOrder
    <3> QED BY <3>1, <3>2, <3>3, <3>7 DEF InForce, ClosedBut
  <2> QED BY <2>5, <2>6
<1> QED BY <1>1

\* The snapshot shows no plan that is not there.
LEMMA ImportTypes ==
    ASSUME CatTypeOK, ImportedTypes, NEW byOperator \in BOOLEAN, Import(byOperator), clock' = clock
    PROVE  /\ offered' \in [Offerings -> {"absent", "active", "deprecated"}]
           /\ plans' \in [Offerings -> Seq(Plan)]
           /\ epoch' \in Nat /\ imports' \in Nat
           /\ shown' \in [Offerings -> Nat]
           /\ \A o \in Offerings : shown'[o] \in {0, SelectActive(plans'[o], clock)}
           /\ observed' \in [Offerings -> Prices \cup {Unpriced}]
           /\ misdated' \in SUBSET Offerings
           /\ ImportedTypes'
<1>1. config \in Configs /\ clock \in Nat /\ epoch \in Nat /\ imports \in Nat
  BY DEF CatTypeOK
<1>2. \A o \in Offerings :
        /\ PricedBy(config, o, byOperator) \in Seq(Plan)
        /\ PriceIn(config, o) \in Prices \cup {Unpriced}
        /\ OfferedBy(config, o) \in {"absent", "active", "deprecated"}
  BY <1>1, PricedTypes
<1>3. offered' \in [Offerings -> {"absent", "active", "deprecated"}] /\ plans' \in [Offerings -> Seq(Plan)]
  BY <1>2 DEF Import
<1>4. \A o \in Offerings : SelectActive(plans'[o], clock) \in 0 .. Len(plans'[o])
  BY <1>1, <1>3, SelectIsPlan
<1>5. \A o \in Offerings : SelectActive(plans'[o], clock) \in Nat
  BY <1>4
<1>6. shown' = [o \in Offerings |-> IF offered'[o] = "active" THEN SelectActive(plans'[o], clock) ELSE 0]
  BY DEF Import
<1>7. observed' \in [Offerings -> Prices \cup {Unpriced}]
  BY <1>2 DEF Import, CatTypeOK
<1>8. epoch' \in Nat /\ imports' \in Nat /\ misdated' \in SUBSET Offerings
  BY <1>1 DEF Import, CatTypeOK
<1>9. ImportedTypes'
  BY <1>1 DEF Import, ImportedTypes
<1> QED BY <1>3, <1>5, <1>6, <1>7, <1>8, <1>9

LEMMA ImportInv ==
    ASSUME CatTypeOK, ImportedTypes, PlansInOrder, NEW byOperator \in BOOLEAN, Import(byOperator),
           clock' = clock
    PROVE  PlansInOrder' /\ LatestIsShown' /\ FactsAreImported'
<1>1. /\ config \in Configs /\ clock \in Nat
      /\ plans' \in [Offerings -> Seq(Plan)]
      /\ \A o \in Offerings : shown'[o] \in {0, SelectActive(plans'[o], clock)}
  BY ImportTypes DEF CatTypeOK
<1>2. /\ plans' = [o \in Offerings |-> PricedBy(config, o, byOperator)]
      /\ observed' = [o \in Offerings |-> IF PriceIn(config, o) = Unpriced THEN observed[o]
                                          ELSE PriceIn(config, o)]
      /\ misdated' = misdated \cup {o \in Offerings : Misdates(config, o)}
      /\ offered' = [o \in Offerings |-> OfferedBy(config, o)]
      /\ imported' = [done |-> TRUE, config |-> config]
  BY DEF Import
<1>3. ASSUME NEW o \in Offerings \ misdated'
      PROVE  (plans'[o] = <<>> /\ observed'[o] = Unpriced) \/ InForce(plans'[o], observed'[o])
  <2>1. o \in Offerings \ misdated /\ ~Misdates(config, o)
    BY <1>2
  <2>2. /\ plans'[o] = PricedBy(config, o, byOperator)
        /\ observed'[o] = IF PriceIn(config, o) = Unpriced THEN observed[o] ELSE PriceIn(config, o)
    BY <1>2
  <2> QED BY <1>1, <2>1, <2>2, PricedInOrder
<1>4. PlansInOrder'
  BY <1>3 DEF PlansInOrder, InForce
<1>5. LatestIsShown'
  <2> SUFFICES ASSUME NEW o \in Offerings \ misdated', shown'[o] # 0 PROVE shown'[o] = Len(plans'[o])
    BY DEF LatestIsShown
  <2>1. plans'[o] \in Seq(Plan) /\ shown'[o] = SelectActive(plans'[o], clock)
    BY <1>1
  <2>2. CASE plans'[o] = <<>>
    BY <1>1, <2>1, <2>2, SelectIsPlan
  <2>3. CASE InForce(plans'[o], observed'[o])
    BY <1>1, <2>1, <2>3, SelectInOrder DEF InForce
  <2> QED BY <1>3, <2>2, <2>3
<1>6. FactsAreImported'
  BY <1>2 DEF FactsAreImported, OfferedBy, PriceIn
<1> QED BY <1>4, <1>5, <1>6

-------------------------------------------------------------------------------

LEMMA CatInitInv == CatInit => CatInv
<1> SUFFICES ASSUME CatInit PROVE CatInv
  OBVIOUS
<1> USE CatalogueAssumption DEF CatInit
<1>1. Offerings # {} /\ (CHOOSE o \in Offerings : TRUE) \in Offerings
  <2>1. FirstConfig.default \in Offerings
    OBVIOUS
  <2> QED BY <2>1
<1>2. CatTypeOK
  <2>1. model \in [ModelCalls -> Offerings] /\ observed \in [Offerings -> Prices \cup {Unpriced}]
    BY <1>1
  <2>2. plans \in [Offerings -> Seq([price : Prices, from : Nat, until : Nat \cup {Open}, operator : BOOLEAN])]
    OBVIOUS
  <2>3. /\ offered \in [Offerings -> {"absent", "active", "deprecated"}] /\ shown \in [Offerings -> Nat]
        /\ call \in [ModelCalls -> {"none", "flying", "settled", "saved", "gone"}]
        /\ live \in [ModelCalls -> Nat] /\ backfilled \in [ModelCalls -> Nat]
    OBVIOUS
  <2> QED BY <2>1, <2>2, <2>3, ZenonT(40) DEF CatTypeOK
<1>3. ImportedTypes /\ CallsOfProcess /\ LedgerCoversSteps
  BY DEF ImportedTypes, CallsOfProcess, LedgerCoversSteps
<1>4. PlansInOrder /\ LatestIsShown /\ FactsAreImported
  BY DEF PlansInOrder, LatestIsShown, FactsAreImported
<1> QED BY <1>2, <1>3, <1>4 DEF CatInv

LEMMA BackfillTypes ==
    ASSUME CatTypeOK, NEW view, BackfillWith(view)
    PROVE  /\ backfilled' \in [ModelCalls -> Nat] /\ unbillable' \in SUBSET ModelCalls
           /\ \A n \in unbillable : call[n] # "saved" => n \in unbillable'
           /\ \A n \in ModelCalls : call[n] = "saved" => n \in unbillable' \/ backfilled'[n] > 0
<1> DEFINE due == {n \in ModelCalls : call[n] = "saved" /\ backfilled[n] = 0}
<1>1. PICK room \in SUBSET due :
          LET billed == {n \in room : Billable(view, model[n])}
          IN /\ backfilled' = [n \in ModelCalls |->
                                  IF n \in billed THEN backfilled[n] + 1 ELSE backfilled[n]]
             /\ unbillable' = (unbillable \cup due) \ billed
  BY DEF BackfillWith
<1>2. backfilled \in [ModelCalls -> Nat] /\ unbillable \subseteq ModelCalls
  BY DEF CatTypeOK
<1> QED BY <1>1, <1>2

LEMMA CatTypeStep == CatTypeOK /\ ImportedTypes /\ [CatNext]_catVars => CatTypeOK' /\ ImportedTypes'
<1> SUFFICES ASSUME CatTypeOK, ImportedTypes, [CatNext]_catVars PROVE CatTypeOK' /\ ImportedTypes'
  OBVIOUS
<1>1. CASE Boot
  <2>1. Import(FALSE) /\ BackfillWith(shown') /\ clock' = clock
    BY <1>1 DEF Boot
  <2>2. backfilled' \in [ModelCalls -> Nat] /\ unbillable' \in SUBSET ModelCalls
    BY <2>1, BackfillTypes
  <2> QED BY <1>1, <2>1, <2>2, ImportTypes DEF Boot, CatTypeOK, Plan
<1>2. CASE BootWithout
  BY <1>2 DEF BootWithout, facts, calls, ledger, priceHistory, catBounds, CatTypeOK, ImportedTypes
<1>3. CASE SyncCatalog
  <2>1. Import(TRUE) /\ clock' = clock
    BY <1>3 DEF SyncCatalog
  <2> QED BY <1>3, <2>1, ImportTypes DEF SyncCatalog, CatTypeOK, Plan
<1>4. CASE Backfill
  <2>1. backfilled' \in [ModelCalls -> Nat] /\ unbillable' \in SUBSET ModelCalls
    BY <1>4, BackfillTypes DEF Backfill
  <2> QED BY <1>4, <2>1 DEF Backfill, facts, calls, priceHistory, catBounds, CatTypeOK, ImportedTypes
<1>5. ASSUME NEW n \in ModelCalls, Dispatch(n) PROVE CatTypeOK' /\ ImportedTypes'
  BY <1>5, ZenonT(40) DEF Dispatch, facts, ledger, priceHistory, catBounds, CatTypeOK, ImportedTypes
<1>6. ASSUME NEW n \in ModelCalls, Settle(n) PROVE CatTypeOK' /\ ImportedTypes'
  <2>1. live' \in [ModelCalls -> Nat] /\ unbillable' \in SUBSET ModelCalls
    BY <1>6 DEF Settle, CatTypeOK
  <2> QED BY <1>6, <2>1 DEF Settle, facts, priceHistory, catBounds, CatTypeOK, ImportedTypes
<1>7. ASSUME NEW n \in ModelCalls, SaveStep(n) PROVE CatTypeOK' /\ ImportedTypes'
  BY <1>7 DEF SaveStep, facts, ledger, priceHistory, catBounds, CatTypeOK, ImportedTypes
<1>8. CASE EditConfig
  <2>1. config' \in Configs /\ edits' \in Nat
    BY <1>8 DEF EditConfig, CatTypeOK
  <2>2. UNCHANGED <<offered, plans, epoch, shown, booted, attached, call, model, live, backfilled, clock,
                    imported, observed, misdated, unbillable, imports, deaths>>
    BY <1>8 DEF EditConfig, facts, calls, ledger, priceHistory
  <2> QED BY <2>1, <2>2 DEF CatTypeOK, ImportedTypes
<1>9. CASE Tick
  <2>1. clock' \in Nat
    BY <1>9 DEF Tick, CatTypeOK
  <2>2. UNCHANGED <<config, offered, plans, epoch, shown, booted, attached, call, model, live, backfilled,
                    imported, observed, misdated, unbillable, edits, imports, deaths>>
    BY <1>9 DEF Tick, facts, calls, ledger, priceHistory, catBounds
  <2> QED BY <2>1, <2>2 DEF CatTypeOK, ImportedTypes
<1>10. CASE ServiceDies
  <2>1. /\ booted' = FALSE /\ attached' = FALSE /\ deaths' \in Nat /\ shown' \in [Offerings -> Nat]
        /\ call' \in [ModelCalls -> {"none", "flying", "settled", "saved", "gone"}]
        /\ unbillable' = {}
    BY <1>10 DEF ServiceDies, CatTypeOK
  <2>2. UNCHANGED <<config, offered, plans, epoch, model, live, backfilled, clock,
                    imported, observed, misdated, edits, imports>>
    BY <1>10 DEF ServiceDies, facts, ledger, priceHistory
  <2> QED BY <2>1, <2>2 DEF CatTypeOK, ImportedTypes
<1>11. CASE UNCHANGED catVars
  BY <1>11 DEF catVars, CatTypeOK, ImportedTypes
<1> QED
  BY <1>1, <1>2, <1>3, <1>4, <1>5, <1>6, <1>7, <1>8, <1>9, <1>10, <1>11 DEF CatNext

\* Steps that change no fact of the catalogue.
LEMMA FactsKept ==
    ASSUME CatTypeOK, PlansInOrder, LatestIsShown, FactsAreImported,
           UNCHANGED <<offered, plans, imported, observed, misdated>>,
           shown' = shown \/ shown' = [o \in Offerings |-> 0],
           clock' \in Nat, clock <= clock'
    PROVE  PlansInOrder' /\ LatestIsShown' /\ FactsAreImported'
<1>1. PlansInOrder'
  <2> SUFFICES ASSUME NEW o \in Offerings \ misdated, InForce(plans[o], observed[o])
               PROVE  InForce(plans[o], observed[o])'
    BY DEF PlansInOrder
  <2>1. clock \in Nat /\ plans[o] \in Seq(Plan)
    BY DEF CatTypeOK, Plan
  <2>2. plans[o] # <<>> /\ plans[o][Len(plans[o])] \in Plan /\ Len(plans[o]) \in Nat
    BY <2>1, EmptySeq DEF InForce
  <2>3. plans[o][Len(plans[o])].from \in Nat
    BY <2>2 DEF Plan
  <2>4. ASSUME NEW i \in 1 .. Len(plans[o]) - 1
        PROVE  plans[o][i].until # Open /\ plans[o][i].until <= clock'
    <3>1. plans[o][i] \in Plan
      BY <2>1, <2>2
    <3>2. plans[o][i].until \in Nat /\ plans[o][i].until <= clock
      BY <3>1 DEF InForce, Plan
    <3> QED BY <2>1, <3>2 DEF InForce
  <2> QED BY <2>1, <2>3, <2>4 DEF InForce
<1>2. LatestIsShown'
  BY DEF LatestIsShown
<1>3. FactsAreImported'
  BY DEF FactsAreImported
<1> QED BY <1>1, <1>2, <1>3

LEMMA CatStep == CatInv /\ [CatNext]_catVars => CatInv'
<1> SUFFICES ASSUME CatInv, [CatNext]_catVars PROVE CatInv'
  OBVIOUS
<1>0. /\ CatTypeOK /\ ImportedTypes /\ CatTypeOK' /\ ImportedTypes'
      /\ CallsOfProcess /\ LedgerCoversSteps
      /\ PlansInOrder /\ LatestIsShown /\ FactsAreImported
  BY CatTypeStep DEF CatInv
<1> SUFFICES /\ CallsOfProcess' /\ LedgerCoversSteps'
             /\ PlansInOrder' /\ LatestIsShown' /\ FactsAreImported'
  BY <1>0 DEF CatInv
<1>t. clock \in Nat /\ clock <= clock
  BY <1>0 DEF CatTypeOK
<1>1. CASE Boot
  <2>1. /\ Import(FALSE) /\ BackfillWith(shown') /\ clock' = clock /\ booted'
        /\ UNCHANGED <<call, model, live>>
    BY <1>1 DEF Boot
  <2>2. PlansInOrder' /\ LatestIsShown' /\ FactsAreImported'
    BY <1>0, <2>1, ImportInv
  <2>3. \A n \in ModelCalls : call[n] = "saved" => n \in unbillable' \/ backfilled'[n] > 0
    BY <1>0, <2>1, BackfillTypes
  <2>4. CallsOfProcess'
    BY <1>0, <1>1, <2>1 DEF CallsOfProcess, Boot
  <2>5. LedgerCoversSteps'
    <3>1. call' = call /\ live' = live
      BY <2>1
    <3>2. \A n \in ModelCalls \ unbillable' : call'[n] = "saved" => live'[n] + backfilled'[n] > 0
      <4>1. \A n \in ModelCalls : live[n] \in Nat /\ backfilled'[n] \in Nat
        BY <1>0, <3>1 DEF CatTypeOK
      <4> QED BY <2>3, <3>1, <4>1
    <3> QED BY <3>2 DEF LedgerCoversSteps
  <2> QED BY <2>2, <2>4, <2>5
<1>2. CASE BootWithout
  <2>1. PlansInOrder' /\ LatestIsShown' /\ FactsAreImported'
    BY <1>0, <1>t, <1>2, FactsKept DEF BootWithout, facts, priceHistory
  <2> QED BY <1>0, <1>2, <2>1 DEF BootWithout, calls, CallsOfProcess, LedgerCoversSteps
<1>3. CASE SyncCatalog
  <2>1. /\ Import(TRUE) /\ clock' = clock
        /\ UNCHANGED <<booted, attached, call, live, backfilled, unbillable>>
    BY <1>3 DEF SyncCatalog
  <2>2. PlansInOrder' /\ LatestIsShown' /\ FactsAreImported'
    BY <1>0, <2>1, ImportInv
  <2> QED BY <1>0, <2>1, <2>2 DEF CallsOfProcess, LedgerCoversSteps
<1>4. CASE Backfill
  <2>1. PlansInOrder' /\ LatestIsShown' /\ FactsAreImported'
    BY <1>0, <1>t, <1>4, FactsKept DEF Backfill, facts, priceHistory
  <2>2. /\ \A n \in unbillable : call[n] # "saved" => n \in unbillable'
        /\ \A n \in ModelCalls : call[n] = "saved" => n \in unbillable' \/ backfilled'[n] > 0
    BY <1>0, <1>4, BackfillTypes DEF Backfill
  <2>3. UNCHANGED <<call, live, booted, attached>>
    BY <1>4 DEF Backfill, calls
  <2>4. CallsOfProcess'
    BY <1>0, <2>2, <2>3 DEF CallsOfProcess
  <2>5. live \in [ModelCalls -> Nat] /\ backfilled' \in [ModelCalls -> Nat]
    BY <1>0 DEF CatTypeOK
  <2>6. LedgerCoversSteps'
    BY <2>2, <2>3, <2>5 DEF LedgerCoversSteps
  <2> QED BY <2>1, <2>4, <2>6
<1>5. ASSUME NEW n \in ModelCalls, Dispatch(n)
      PROVE  /\ CallsOfProcess' /\ LedgerCoversSteps'
             /\ PlansInOrder' /\ LatestIsShown' /\ FactsAreImported'
  <2>1. PlansInOrder' /\ LatestIsShown' /\ FactsAreImported'
    BY <1>0, <1>t, <1>5, FactsKept DEF Dispatch, facts, priceHistory
  <2>2. call' = [call EXCEPT ![n] = "flying"] /\ UNCHANGED <<booted, attached, live, backfilled, unbillable>>
    BY <1>5 DEF Dispatch, ledger
  <2>3. booted /\ call \in [ModelCalls -> {"none", "flying", "settled", "saved", "gone"}]
    BY <1>0, <1>5 DEF Dispatch, CatTypeOK
  <2> QED BY <1>0, <2>1, <2>2, <2>3 DEF CallsOfProcess, LedgerCoversSteps
<1>6. ASSUME NEW n \in ModelCalls, Settle(n)
      PROVE  /\ CallsOfProcess' /\ LedgerCoversSteps'
             /\ PlansInOrder' /\ LatestIsShown' /\ FactsAreImported'
  <2>1. PlansInOrder' /\ LatestIsShown' /\ FactsAreImported'
    BY <1>0, <1>t, <1>6, FactsKept DEF Settle, facts, priceHistory
  <2>2. /\ call' = [call EXCEPT ![n] = "settled"] /\ call[n] = "flying"
        /\ UNCHANGED <<booted, attached, backfilled>>
    BY <1>6 DEF Settle
  <2>3. /\ call \in [ModelCalls -> {"none", "flying", "settled", "saved", "gone"}]
        /\ live \in [ModelCalls -> Nat] /\ backfilled \in [ModelCalls -> Nat]
    BY <1>0 DEF CatTypeOK
  <2>4. /\ unbillable \subseteq unbillable'
        /\ \A m \in ModelCalls : m # n => live'[m] = live[m]
        /\ attached => n \in unbillable' \/ live'[n] > 0
    BY <1>6, <2>3 DEF Settle
  <2>5. CallsOfProcess'
    BY <1>0, <2>2, <2>3, <2>4 DEF CallsOfProcess
  <2>6. LedgerCoversSteps'
    BY <1>0, <2>2, <2>3, <2>4 DEF LedgerCoversSteps
  <2> QED BY <2>1, <2>5, <2>6
<1>7. ASSUME NEW n \in ModelCalls, SaveStep(n)
      PROVE  /\ CallsOfProcess' /\ LedgerCoversSteps'
             /\ PlansInOrder' /\ LatestIsShown' /\ FactsAreImported'
  <2>1. PlansInOrder' /\ LatestIsShown' /\ FactsAreImported'
    BY <1>0, <1>t, <1>7, FactsKept DEF SaveStep, facts, priceHistory
  <2>2. /\ call' = [call EXCEPT ![n] = "saved"] /\ call[n] = "settled"
        /\ UNCHANGED <<booted, attached, live, backfilled, unbillable>>
    BY <1>7 DEF SaveStep, ledger
  <2>3. /\ call \in [ModelCalls -> {"none", "flying", "settled", "saved", "gone"}]
        /\ live \in [ModelCalls -> Nat] /\ backfilled \in [ModelCalls -> Nat]
    BY <1>0 DEF CatTypeOK
  <2> QED BY <1>0, <2>1, <2>2, <2>3 DEF CallsOfProcess, LedgerCoversSteps
<1>8. CASE EditConfig
  <2>1. PlansInOrder' /\ LatestIsShown' /\ FactsAreImported'
    BY <1>0, <1>t, <1>8, FactsKept DEF EditConfig, facts, priceHistory
  <2> QED BY <1>0, <1>8, <2>1 DEF EditConfig, calls, ledger, CallsOfProcess, LedgerCoversSteps
<1>9. CASE Tick
  <2>1. clock' \in Nat /\ clock <= clock'
    BY <1>t, <1>9 DEF Tick
  <2>2. PlansInOrder' /\ LatestIsShown' /\ FactsAreImported'
    BY <1>0, <2>1, <1>9, FactsKept DEF Tick, facts, priceHistory
  <2> QED BY <1>0, <1>9, <2>2 DEF Tick, calls, ledger, CallsOfProcess, LedgerCoversSteps
<1>10. CASE ServiceDies
  <2>1. PlansInOrder' /\ LatestIsShown' /\ FactsAreImported'
    BY <1>0, <1>t, <1>10, FactsKept DEF ServiceDies, facts, priceHistory
  <2> QED BY <1>0, <1>10, <2>1 DEF ServiceDies, ledger, CallsOfProcess, LedgerCoversSteps
<1>11. CASE UNCHANGED catVars
  BY <1>0, <1>11 DEF catVars, CallsOfProcess, LedgerCoversSteps, PlansInOrder, LatestIsShown,
                     FactsAreImported, InForce
<1> QED
  BY <1>1, <1>2, <1>3, <1>4, <1>5, <1>6, <1>7, <1>8, <1>9, <1>10, <1>11 DEF CatNext

(* The facts of the catalogue and its ledger, through imports of any lists   *)
(* and prices, restarts and disks that are full.                             *)
THEOREM CatalogueInvariant == CatSpec => []CatInv
<1>1. CatInit => CatInv
  BY CatInitInv
<1>2. CatInv /\ [CatNext]_catVars => CatInv'
  BY CatStep
<1> QED BY <1>1, <1>2, PTL DEF CatSpec

(* The values of the catalogue: also the plan that the snapshot chooses is a *)
(* plan, for any prices and dates.                                           *)
THEOREM CatalogueTypes == CatSpec => []CatTypeOK
<1>1. CatInv => CatTypeOK
  BY DEF CatInv
<1> QED BY <1>1, CatalogueInvariant, PTL

(* What a call is billed at is the price imported last for its model, unless *)
(* that one was dated in the future or before the price it replaces:         *)
(* applyObservedPricing and selectActivePlan agree on which plan is in force.*)
THEOREM PriceIsTheLast == CatSpec => []PriceIsLastObserved
<1>1. CatInv => PriceIsLastObserved
  <2> SUFFICES ASSUME CatInv, NEW o \in Offerings \ misdated, shown[o] # 0
               PROVE  plans[o][shown[o]].price = observed[o]
    BY DEF PriceIsLastObserved
  <2>1. shown[o] = Len(plans[o])
    BY DEF CatInv, LatestIsShown
  <2>2. plans[o] # <<>>
    <3>1. Len(<<>>) = 0
      OBVIOUS
    <3> QED BY <2>1, <3>1
  <2> QED BY <2>1, <2>2 DEF CatInv, PlansInOrder, InForce
<1> QED BY <1>1, CatalogueInvariant, PTL

(* importCatalog of what was imported last finds nothing to change: neither  *)
(* a plan nor an epoch is added at a start for nothing.                      *)
THEOREM SyncChangesNothing == CatSpec => []SyncIsIdempotent
<1>1. CatInv => SyncIsIdempotent
  <2> SUFFICES ASSUME CatInv, imported.done, misdated = {}, NEW o \in Offerings,
                      NEW byOperator \in BOOLEAN
               PROVE  /\ OfferedBy(imported.config, o) = offered[o]
                      /\ PricedBy(imported.config, o, byOperator) = plans[o]
    BY DEF SyncIsIdempotent, Changed
  <2>1. CatTypeOK /\ ImportedTypes /\ PlansInOrder /\ FactsAreImported
    BY DEF CatInv
  <2>2. plans[o] \in Seq(Plan) /\ clock \in Nat
    BY <2>1 DEF CatTypeOK, Plan
  <2>3. OfferedBy(imported.config, o) = offered[o]
    BY <2>1 DEF FactsAreImported, OfferedBy
  <2>4. CASE PriceIn(imported.config, o) = Unpriced
    BY <2>3, <2>4 DEF PricedBy
  <2>5. CASE PriceIn(imported.config, o) # Unpriced
    <3>1. observed[o] = PriceIn(imported.config, o)
      BY <2>1, <2>5 DEF FactsAreImported
    <3>2. InForce(plans[o], observed[o])
      BY <2>1, <2>5, <3>1 DEF PlansInOrder
    <3>3. SelectActive(plans[o], clock) = Len(plans[o]) /\ Len(plans[o]) # 0
      BY <2>2, <3>2, SelectInOrder DEF InForce
    <3>4. plans[o][SelectActive(plans[o], clock)].price = PriceIn(imported.config, o)
      BY <3>1, <3>2, <3>3 DEF InForce
    <3> QED BY <2>3, <3>3, <3>4 DEF PricedBy
  <2> QED BY <2>4, <2>5
<1> QED BY <1>1, CatalogueInvariant, PTL

(* No step is left out of the ledger, once the catalogue is attached, but    *)
(* for those that this process found no price or room for when it last       *)
(* tried: recordCatalogUsage and backfillUsage cover them between them.      *)
THEOREM LedgerIsComplete == CatSpec => []LedgerCoversSteps
<1>1. CatInv => LedgerCoversSteps
  BY DEF CatInv
<1> QED BY <1>1, CatalogueInvariant, PTL
===============================================================================
