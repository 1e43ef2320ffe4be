---------------------------- MODULE GoalTree_proofs ----------------------------
(***************************************************************************)
(* What is proved about the run of a Goal: for any plans, revisions, stops *)
(* and crashes, a task runs after what it depends on, the rows are a plan  *)
(* that can be resumed, and every task lives the life of a Task.           *)
(***************************************************************************)
EXTENDS GoalTree, SequenceTheorems, FiniteSetTheorems, TLAPS

-------------------------------------------------------------------------------
(* The inductive invariant. *)

Within(s) == {s[i] : i \in DOMAIN s}

\* The task at hand is active while it is run, and is as its outcome says until the run goes on.
AtHand ==
    /\ pc \in {"task", "cut"} => at \in Ids /\ tasks[at].status = "active"
    /\ pc = "verify" =>
        /\ at \in Ids /\ outcomes # <<>>
        /\ Last.task = at /\ tasks[at].status = Last.reason

\* What the cursor has passed has succeeded, but for the task at hand.
PassedSucceeded ==
    /\ pc \in {"idle", "prepare"} => visited = {}
    /\ pc \in {"next", "save"} => \A t \in visited : tasks[t].status = "succeeded"
    /\ pc \in {"task", "cut", "verify"} =>
        \A t \in visited \ {at} : tasks[t].status = "succeeded"

\* An outcome that is ok is of a task whose row says so: what a revision keeps has succeeded.
OutcomesAreTrue ==
    \A i \in DOMAIN outcomes :
        outcomes[i].reason = "succeeded" =>
            outcomes[i].task \in Ids /\ tasks[outcomes[i].task].status = "succeeded"

\* Of the tasks of the plan, those still to be run depend on tasks of the plan only.
PlanIsClosed ==
    \A t \in Planned : tasks[t].status = "succeeded" \/ tasks[t].deps \subseteq Planned

\* While a revision is saved, what is left of it has no row yet, and is saved once.
RevisionIsNew ==
    /\ pc = "save" <=> unsaved # <<>>
    /\ \A i \in DOMAIN unsaved : tasks[unsaved[i]].status = "none"
    /\ \A i, j \in DOMAIN unsaved : unsaved[i] = unsaved[j] => i = j

\* Without a crash, what has a row or is about to depends on nothing else.
SavedAreClosed ==
    crashes = 0 => \A t \in Saved \cup Within(unsaved) :
                        tasks[t].deps \subseteq Saved \cup Within(unsaved)

\* The task that runs depends on tasks that have succeeded.
AtHandMayRun ==
    pc \in {"task", "cut"} => \A d \in tasks[at].deps : d \in Ids /\ tasks[d].status = "succeeded"

TreeInv ==
    /\ TypeOK /\ AtHand /\ PassedSucceeded /\ OutcomesAreTrue /\ PlanIsClosed
    /\ RevisionIsNew /\ SavedAreClosed /\ AtHandMayRun

LEMMA TreeInitInv == Init => TreeInv
<1> SUFFICES ASSUME Init PROVE TreeInv
  OBVIOUS
<1>1. TypeOK
  <2>1. tasks \in Seq(Task) /\ {listed, plan, unsaved} \subseteq Seq(Ids) /\ outcomes \in Seq(Outcome)
    BY EmptySeq DEF Init
  <2>2. listed \in Seq(Ids) /\ plan \in Seq(Ids) /\ unsaved \in Seq(Ids)
    BY <2>1
  <2>3. {revisions, runs, crashes} \subseteq Nat /\ at \in Nat
    BY DEF Init
  <2>4. {resume, stop} \subseteq BOOLEAN
    BY Zenon DEF Init
  <2> QED BY <2>1, <2>2, <2>3, <2>4 DEF Init, TypeOK, GoalStatus
<1>2. AtHand /\ PassedSucceeded /\ OutcomesAreTrue /\ PlanIsClosed /\ AtHandMayRun
  BY DEF Init, AtHand, PassedSucceeded, OutcomesAreTrue, PlanIsClosed, AtHandMayRun, Planned
<1>3. RevisionIsNew /\ SavedAreClosed
  BY DEF Init, RevisionIsNew, SavedAreClosed, Saved, Ids, Within
<1> QED BY <1>1, <1>2, <1>3 DEF TreeInv

-------------------------------------------------------------------------------
(* The rows. *)

\* A save changes the status of one task, and lists it last.
LEMMA SaveFacts ==
    ASSUME TypeOK, NEW t \in Ids, NEW status \in TaskStatus \ {"none"}, SaveTask(t, status)
    PROVE  /\ tasks' \in Seq(Task) /\ Ids' = Ids
           /\ tasks'[t].status = status
           /\ \A u \in Ids : tasks'[u].deps = tasks[u].deps
           /\ \A u \in Ids \ {t} : tasks'[u] = tasks[u]
           /\ listed' \in Seq(Ids')
           /\ Saved' = Saved \cup {t}
<1>1. tasks \in Seq(Task) /\ tasks' = [tasks EXCEPT ![t].status = status]
  BY DEF TypeOK, SaveTask
<1>2. \A u \in Ids : tasks[u] \in Task
  BY <1>1 DEF Ids
<1>3. /\ Len(tasks') = Len(tasks) /\ Ids' = Ids
      /\ \A u \in Ids \ {t} : tasks'[u] = tasks[u]
      /\ tasks'[t] = [tasks[t] EXCEPT !.status = status]
  BY <1>1 DEF Ids
<1>4. tasks'[t] \in Task /\ tasks'[t].status = status /\ tasks'[t].deps = tasks[t].deps
  BY <1>2, <1>3 DEF Task
<1>5. tasks' \in Seq(Task)
  BY <1>1, <1>2, <1>3, <1>4 DEF Ids
<1>6. listed' \in Seq(Ids)
  <2>1. listed \in Seq(Ids)
    BY DEF TypeOK
  <2>2. CASE listed' = Append(listed, t)
    BY <2>1, <2>2
  <2>3. ASSUME NEW i \in DOMAIN listed,
               listed' = SubSeq(listed, 1, i - 1) \o Append(SubSeq(listed, i + 1, Len(listed)), t)
        PROVE  listed' \in Seq(Ids)
    <3>1. i \in 1 .. Len(listed)
      BY <2>1
    <3>2. SubSeq(listed, 1, i - 1) \in Seq(Ids)
      BY <2>1, <3>1
    <3>3. SubSeq(listed, i + 1, Len(listed)) \in Seq(Ids)
      BY <2>1, <3>1
    <3>4. Append(SubSeq(listed, i + 1, Len(listed)), t) \in Seq(Ids)
      BY <3>3
    <3> QED BY <2>3, <3>2, <3>4
  <2> QED BY <2>2, <2>3 DEF SaveTask
<1>7. Saved' = Saved \cup {t}
  BY <1>3, <1>4 DEF Saved, Ids
<1> QED BY <1>3, <1>4, <1>5, <1>6, <1>7

LEMMA PlansAreSequences ==
    ASSUME NEW proposed \in Plans \cup {DefaultPlan}
    PROVE  proposed \in Seq(SUBSET Nat) /\ proposed # <<>>
<1>1. DefaultPlan \in Seq(SUBSET Nat) /\ DefaultPlan # <<>>
  <2>1. {} \in SUBSET Nat
    OBVIOUS
  <2> QED BY <2>1 DEF DefaultPlan
<1> QED BY <1>1, PlansAssumption

\* The tasks that a plan adds: behind those there were, without rows, dependent on each other only.
LEMMA NewTaskFacts ==
    ASSUME TypeOK, NEW proposed \in Plans \cup {DefaultPlan},
           Valid(DOMAIN proposed, proposed), tasks' = tasks \o Compiled(proposed)
    PROVE  /\ tasks' \in Seq(Task)
           /\ Ids \subseteq Ids' /\ \A u \in Ids : tasks'[u] = tasks[u]
           /\ NewIds(proposed) \in Seq(Ids') /\ NewIds(proposed) # <<>>
           /\ Ids' = Ids \cup Within(NewIds(proposed))
           /\ \A u \in Within(NewIds(proposed)) :
                /\ u \notin Ids /\ tasks'[u].status = "none"
                /\ tasks'[u].deps \subseteq Within(NewIds(proposed))
           /\ \A i, j \in DOMAIN NewIds(proposed) :
                NewIds(proposed)[i] = NewIds(proposed)[j] => i = j
           /\ Saved' = Saved
<1> DEFINE new == Compiled(proposed)
           ids == NewIds(proposed)
<1>1. proposed \in Seq(SUBSET Nat) /\ proposed # <<>> /\ Len(proposed) \in Nat
  BY PlansAreSequences
<1>2. tasks \in Seq(Task) /\ Len(tasks) \in Nat
  BY DEF TypeOK
<1>3. DOMAIN proposed = 1 .. Len(proposed)
  BY <1>1
<1>4. /\ new = [i \in 1 .. Len(proposed) |->
                  [status |-> "none", deps |-> {Len(tasks) + d : d \in proposed[i]}]]
      /\ ids = [i \in 1 .. Len(proposed) |-> Len(tasks) + i]
  BY <1>3 DEF Compiled, NewIds
<1>5. ASSUME NEW i \in 1 .. Len(proposed)
      PROVE  /\ new[i] \in Task /\ new[i].status = "none"
             /\ new[i].deps = {Len(tasks) + d : d \in proposed[i]}
  <2>1. proposed[i] \subseteq Nat
    BY <1>1
  <2> QED BY <1>2, <1>4, <2>1 DEF Task, TaskStatus
<1>6. new \in Seq(Task) /\ Len(new) = Len(proposed)
  <2> HIDE DEF new
  <2>1. new \in [1 .. Len(proposed) -> Task]
    BY <1>4, <1>5
  <2>2. new \in Seq(Task)
    <3>1. \E n \in Nat : new \in [1 .. n -> Task]
      BY <1>1, <2>1
    <3> QED BY <3>1, SeqDef
  <2> QED BY <1>1, <2>1, <2>2, LenProperties
<1>7. /\ tasks' \in Seq(Task) /\ Len(tasks') = Len(tasks) + Len(proposed)
      /\ \A u \in 1 .. Len(tasks) : tasks'[u] = tasks[u]
      /\ \A i \in 1 .. Len(proposed) : tasks'[Len(tasks) + i] = new[i]
  <2> HIDE DEF new
  <2>1. tasks' = tasks \o new
    BY DEF new
  <2>2. tasks' \in Seq(Task) /\ Len(tasks') = Len(tasks) + Len(proposed)
    BY <1>2, <1>6, <2>1, ConcatProperties
  <2>3. \A i \in 1 .. Len(tasks) + Len(new) :
            tasks'[i] = IF i <= Len(tasks) THEN tasks[i] ELSE new[i - Len(tasks)]
    BY <1>2, <1>6, <2>1, ConcatProperties
  <2>4. \A u \in 1 .. Len(tasks) : tasks'[u] = tasks[u]
    BY <1>1, <1>2, <1>6, <2>3
  <2>5. ASSUME NEW i \in 1 .. Len(proposed) PROVE tasks'[Len(tasks) + i] = new[i]
    <3>1. Len(tasks) + i \in 1 .. Len(tasks) + Len(new)
      BY <1>1, <1>2, <1>6
    <3>2. ~(Len(tasks) + i <= Len(tasks)) /\ (Len(tasks) + i) - Len(tasks) = i
      BY <1>1, <1>2
    <3> QED BY <2>3, <3>1, <3>2
  <2> QED BY <2>2, <2>4, <2>5
<1>8. Ids = 1 .. Len(tasks) /\ Ids' = 1 .. Len(tasks) + Len(proposed)
  BY <1>2, <1>7 DEF Ids
<1>9. ids \in Seq(Ids') /\ ids # <<>> /\ Len(ids) = Len(proposed)
  <2>1. ids \in [1 .. Len(proposed) -> Ids']
    BY <1>1, <1>2, <1>4, <1>8
  <2> HIDE DEF ids
  <2>2. ids \in Seq(Ids') /\ Len(ids) = Len(proposed)
    BY <1>1, <2>1, SeqDef, LenProperties
  <2> QED BY <1>1, <2>2, EmptySeq
<1>10. Within(ids) = Len(tasks) + 1 .. Len(tasks) + Len(proposed)
  <2>1. DOMAIN ids = 1 .. Len(proposed)
    BY <1>4
  <2>2. \A u \in Len(tasks) + 1 .. Len(tasks) + Len(proposed) :
          u - Len(tasks) \in 1 .. Len(proposed) /\ ids[u - Len(tasks)] = u
    BY <1>1, <1>2, <1>4
  <2>3. \A i \in 1 .. Len(proposed) : ids[i] \in Len(tasks) + 1 .. Len(tasks) + Len(proposed)
    BY <1>1, <1>2, <1>4
  <2> QED BY <2>1, <2>2, <2>3 DEF Within
<1>11. ASSUME NEW u \in Within(ids)
       PROVE  u \notin Ids /\ tasks'[u].status = "none" /\ tasks'[u].deps \subseteq Within(ids)
  <2> DEFINE i == u - Len(tasks)
  <2>1. u \in Len(tasks) + 1 .. Len(tasks) + Len(proposed)
    BY <1>10, <1>11
  <2>2. i \in 1 .. Len(proposed) /\ u = Len(tasks) + i /\ u \notin Ids
    BY <1>1, <1>2, <1>8, <2>1
  <2>3. tasks'[u].status = "none" /\ tasks'[u].deps = {Len(tasks) + d : d \in proposed[i]}
    BY <1>5, <1>7, <2>2
  <2>4. proposed[i] \subseteq 1 .. Len(proposed)
    BY <1>3, <2>2 DEF Valid
  <2> QED BY <1>2, <1>10, <2>2, <2>3, <2>4
<1>12. Ids \subseteq Ids' /\ Ids' = Ids \cup Within(ids)
  BY <1>1, <1>2, <1>8, <1>10
<1>13. \A i, j \in DOMAIN ids : ids[i] = ids[j] => i = j
  BY <1>2, <1>4
<1>14. Saved' = Saved
  <2> HIDE DEF ids
  <2> QED BY <1>7, <1>8, <1>11, <1>12 DEF Saved
<1> HIDE DEF new, ids
<1>15. \A u \in Ids : tasks'[u] = tasks[u]
  BY <1>7, <1>8
<1> QED BY <1>7, <1>9, <1>11, <1>12, <1>13, <1>14, <1>15 DEF ids

-------------------------------------------------------------------------------
(* Steps that leave the rows of the tasks alone. *)

RowsStay == UNCHANGED <<tasks, listed>>

\* What the steps below share: the parts of the invariant that speak of the rows and of what a
\* run leaves alone with them.
LEMMA NothingMoves ==
    ASSUME TreeInv, RowsStay, UNCHANGED <<plan, visited, at, outcomes, unsaved, dropped, crashes>>
    PROVE  /\ Ids' = Ids /\ listed' \in Seq(Ids') /\ plan' \in Seq(Ids') /\ unsaved' \in Seq(Ids')
           /\ OutcomesAreTrue' /\ PlanIsClosed' /\ SavedAreClosed'
           /\ tasks' \in Seq(Task) /\ outcomes' \in Seq(Outcome)
<1>1. Ids' = Ids /\ Planned' = Planned /\ Saved' = Saved /\ Within(unsaved)' = Within(unsaved)
  BY DEF RowsStay, Ids, Planned, Saved, Within
<1>2. listed' \in Seq(Ids') /\ plan' \in Seq(Ids') /\ unsaved' \in Seq(Ids')
  BY <1>1 DEF TreeInv, TypeOK, RowsStay
<1>3. OutcomesAreTrue' /\ PlanIsClosed' /\ SavedAreClosed'
  BY <1>1 DEF TreeInv, RowsStay, OutcomesAreTrue, PlanIsClosed, SavedAreClosed
<1> QED BY <1>1, <1>2, <1>3 DEF TreeInv, TypeOK, RowsStay

\* The run moves on, or a run is begun or told to stop.
LEMMA MoveStep ==
    ASSUME TreeInv, RowsStay, UNCHANGED <<goal, plan, visited, at, outcomes, revisions, unsaved,
                                          dropped, crashes>>,
           pc' \in {"idle", "prepare", "next", "task", "cut", "verify", "replan", "save", "settle"},
           proposal' \in {proposal, <<>>}, resume' \in BOOLEAN, stop' \in BOOLEAN,
           runs' \in Nat,
           pc' = pc \/ (pc # "save" /\ pc' \in {"prepare", "replan", "settle"})
                    \/ (pc \in {"prepare", "verify"} /\ pc' = "next"),
           pc' = "prepare" => pc \in {"idle", "prepare"},
           pc = "verify" /\ pc' = "next" => Last.reason = "succeeded"
    PROVE  TreeInv'
<1>1. TypeOK'
  <2>1. {resume, stop}' \subseteq BOOLEAN
    BY Zenon
  <2> QED BY <2>1, NothingMoves DEF TreeInv, TypeOK
<1>2. AtHand' /\ AtHandMayRun'
  BY NothingMoves DEF TreeInv, TypeOK, RowsStay, AtHand, AtHandMayRun, Last
<1>3. PassedSucceeded'
  BY DEF TreeInv, TypeOK, RowsStay, AtHand, PassedSucceeded
<1>4. RevisionIsNew'
  BY DEF TreeInv, RowsStay, RevisionIsNew
<1> QED BY <1>1, <1>2, <1>3, <1>4, NothingMoves DEF TreeInv

\* The run is over: only the rows are left.
LEMMA ForgetStep ==
    ASSUME TreeInv, RowsStay, Forget, goal' \in GoalStatus, crashes' \in Nat, UNCHANGED <<dropped, runs>>,
           crashes' = crashes \/ crashes' = crashes + 1,
           crashes' = crashes => pc # "save"
    PROVE  TreeInv'
<1>1. Ids' = Ids /\ Saved' = Saved
  BY DEF RowsStay, Ids, Saved
<1>2. plan' = <<>> /\ unsaved' = <<>> /\ outcomes' = <<>> /\ visited' = {} /\ pc' = "idle"
  BY DEF Forget
<1>3. TypeOK'
  <2>1. plan' \in Seq(Ids') /\ unsaved' \in Seq(Ids') /\ outcomes' \in Seq(Outcome)
    BY <1>2, EmptySeq
  <2>2. tasks' \in Seq(Task) /\ listed' \in Seq(Ids') /\ dropped' \subseteq Ids'
    BY <1>1 DEF TreeInv, TypeOK, RowsStay
  <2>3. {resume, stop}' \subseteq BOOLEAN
    BY Zenon DEF Forget
  <2> QED BY <2>1, <2>2, <2>3 DEF TreeInv, TypeOK, Forget
<1>4. AtHand' /\ PassedSucceeded' /\ OutcomesAreTrue' /\ PlanIsClosed' /\ AtHandMayRun'
  BY <1>2 DEF AtHand, PassedSucceeded, OutcomesAreTrue, PlanIsClosed, AtHandMayRun, Planned
<1>5. RevisionIsNew'
  BY <1>2 DEF RevisionIsNew
<1>6. SavedAreClosed'
  <2>1. Within(unsaved)' = {}
    BY <1>2 DEF Within
  <2> SUFFICES ASSUME crashes' = 0 PROVE \A t \in Saved : tasks[t].deps \subseteq Saved
    BY <1>1, <2>1 DEF SavedAreClosed, RowsStay
  <2>2. crashes = 0 /\ pc # "save"
    BY DEF TreeInv, TypeOK
  <2>3. Within(unsaved) = {}
    BY <2>2 DEF TreeInv, RevisionIsNew, Within
  <2> QED BY <2>2, <2>3 DEF TreeInv, SavedAreClosed
<1> QED BY <1>3, <1>4, <1>5, <1>6 DEF TreeInv

-------------------------------------------------------------------------------
(* Steps that plan. *)

\* A run begins with a plan of its own.
LEMMA PlanRunStep == ASSUME TreeInv, PlanRun PROVE TreeInv'
<1>1. Proposed \in Plans \cup {DefaultPlan} /\ Valid(DOMAIN Proposed, Proposed)
  BY DEF TreeInv, TypeOK, PlanRun, Proposed
<1>2. tasks' = tasks \o Compiled(Proposed)
  BY DEF PlanRun
<1> DEFINE ids == NewIds(Proposed)
<1>3. /\ tasks' \in Seq(Task)
      /\ Ids \subseteq Ids' /\ \A u \in Ids : tasks'[u] = tasks[u]
      /\ ids \in Seq(Ids')
      /\ \A u \in Within(ids) : tasks'[u].deps \subseteq Within(ids)
      /\ Saved' = Saved
  BY <1>1, <1>2, NewTaskFacts DEF TreeInv
<1>4. plan' = ids
  BY DEF PlanRun
<1> HIDE DEF ids
<1>5. pc = "prepare" /\ pc' = "next" /\ visited' = visited /\ visited = {}
  BY DEF PlanRun, PlansAfresh, TreeInv, PassedSucceeded
<1>6. unsaved = <<>> /\ unsaved' = <<>>
  BY <1>5 DEF PlanRun, TreeInv, RevisionIsNew
<1>7. TypeOK'
  <2>1. listed' \in Seq(Ids')
    BY <1>3, SeqMonotonic DEF PlanRun, TreeInv, TypeOK
  <2>2. unsaved' \in Seq(Ids')
    BY <1>6, EmptySeq
  <2> QED BY <1>3, <1>4, <1>5, <2>1, <2>2 DEF PlanRun, TreeInv, TypeOK
<1>8. AtHand' /\ PassedSucceeded' /\ AtHandMayRun'
  BY <1>5 DEF AtHand, PassedSucceeded, AtHandMayRun
<1>9. OutcomesAreTrue'
  BY <1>3 DEF PlanRun, TreeInv, OutcomesAreTrue
<1>10. PlanIsClosed'
  BY <1>3, <1>4 DEF PlanIsClosed, Planned, Within
<1>11. RevisionIsNew'
  BY <1>5, <1>6 DEF RevisionIsNew
<1>12. SavedAreClosed'
  <2>1. Saved \subseteq Ids /\ Within(unsaved) = {} /\ Within(unsaved)' = {} /\ crashes' = crashes
    BY <1>6 DEF PlanRun, Saved, Within
  <2> QED BY <1>3, <2>1 DEF TreeInv, SavedAreClosed
<1> QED BY <1>7, <1>8, <1>9, <1>10, <1>11, <1>12 DEF TreeInv

\* A resumed run takes the tasks that are listed, when they are a plan.
LEMMA PlanFromRowsStep == ASSUME TreeInv, PlanFromRows PROVE TreeInv'
<1>1. /\ RowsStay /\ pc = "prepare" /\ visited = {}
      /\ UNCHANGED <<goal, visited, at, outcomes, revisions, unsaved, dropped, runs, crashes,
                     resume, stop>>
      /\ proposal' = <<>>
  BY DEF PlanFromRows, RowsStay, rows, TreeInv, PassedSucceeded
<1>2. CASE pc' = "settle" /\ UNCHANGED plan
  <2>1. pc' \in {"idle", "prepare", "next", "task", "cut", "verify", "replan", "save", "settle"}
    BY <1>2
  <2>2. resume' \in BOOLEAN /\ stop' \in BOOLEAN /\ runs' \in Nat
    BY <1>1 DEF TreeInv, TypeOK
  <2> QED BY <1>1, <1>2, <2>1, <2>2, MoveStep
<1>3. CASE /\ pc' = "next" /\ plan' = listed
           /\ LET ids == {listed[i] : i \in DOMAIN listed}
              IN Valid(ids, [t \in ids |-> tasks[t].deps])
  <2>1. Ids' = Ids /\ Saved' = Saved /\ Within(unsaved)' = Within(unsaved)
    BY <1>1 DEF RowsStay, Ids, Saved, Within
  <2>2. TypeOK'
    <3>1. {resume, stop}' \subseteq BOOLEAN
      BY <1>1, Zenon DEF TreeInv, TypeOK
    <3> QED BY <1>1, <1>3, <2>1, <3>1 DEF RowsStay, TreeInv, TypeOK
  <2>3. AtHand' /\ PassedSucceeded' /\ AtHandMayRun'
    BY <1>1, <1>3 DEF AtHand, PassedSucceeded, AtHandMayRun
  <2>4. OutcomesAreTrue' /\ SavedAreClosed'
    BY <1>1, <2>1 DEF RowsStay, TreeInv, OutcomesAreTrue, SavedAreClosed
  <2>5. PlanIsClosed'
    <3>1. \A t \in {listed[i] : i \in DOMAIN listed} :
            tasks[t].deps \subseteq {listed[i] : i \in DOMAIN listed}
      BY <1>3 DEF Valid
    <3> QED BY <1>1, <1>3, <3>1 DEF RowsStay, PlanIsClosed, Planned
  <2>6. RevisionIsNew'
    BY <1>1, <1>3 DEF RowsStay, TreeInv, RevisionIsNew
  <2> QED BY <2>2, <2>3, <2>4, <2>5, <2>6 DEF TreeInv
<1> QED BY <1>2, <1>3 DEF PlanFromRows

\* A revision keeps tasks that have succeeded, and its new ones depend on each other only.
LEMMA ReplanStep ==
    ASSUME TreeInv, NEW proposed \in Plans, Replan(proposed) PROVE TreeInv'
<1>1. Valid(DOMAIN proposed, proposed) /\ tasks' = tasks \o Compiled(proposed)
  BY DEF Replan
<1> DEFINE ids == NewIds(proposed)
<1>2. /\ tasks' \in Seq(Task)
      /\ Ids \subseteq Ids' /\ \A u \in Ids : tasks'[u] = tasks[u]
      /\ ids \in Seq(Ids') /\ ids # <<>>
      /\ \A u \in Within(ids) :
            /\ u \notin Ids /\ tasks'[u].status = "none" /\ tasks'[u].deps \subseteq Within(ids)
      /\ \A i, j \in DOMAIN ids : ids[i] = ids[j] => i = j
      /\ Saved' = Saved
  BY <1>1, NewTaskFacts DEF TreeInv
<1>3. unsaved' = ids
  BY DEF Replan
<1> HIDE DEF ids
<1>4. pc = "replan" /\ pc' = "save" /\ visited' = {}
  BY DEF Replan
<1>5. outcomes \in Seq(Outcome) /\ Len(outcomes) \in Nat
  BY DEF TreeInv, TypeOK
<1>6. /\ outcomes' = SubSeq(outcomes, 1, Len(outcomes) - 1) /\ outcomes' \in Seq(Outcome)
      /\ \A i \in DOMAIN outcomes' : i \in DOMAIN outcomes /\ outcomes'[i] = outcomes[i]
  <2>1. outcomes' = SubSeq(outcomes, 1, Len(outcomes) - 1)
    BY DEF Replan
  <2>2. \A i \in 1 .. Len(outcomes) - 1 : outcomes[i] \in Outcome
    BY <1>5, ElementOfSeq
  <2> QED BY <1>5, <2>1, <2>2, SubSeqProperties
<1>7. PICK places \in Completed :
        /\ plan' = [i \in DOMAIN places |-> outcomes[places[i]].task] \o ids
        /\ dropped' = dropped \cup (Planned \ {[i \in DOMAIN places |-> outcomes[places[i]].task][j]
                                            : j \in DOMAIN [i \in DOMAIN places |-> outcomes[places[i]].task]})
  BY DEF Replan, ids
<1>8. ASSUME NEW i \in DOMAIN places
      PROVE  /\ outcomes[places[i]].task \in Ids
             /\ tasks[outcomes[places[i]].task].status = "succeeded"
  <2>1. places[i] \in DOMAIN outcomes /\ outcomes[places[i]].reason = "succeeded"
    BY <1>5 DEF Completed
  <2> QED BY <2>1 DEF TreeInv, OutcomesAreTrue
<1> DEFINE kept == [i \in DOMAIN places |-> outcomes[places[i]].task]
<1>9. kept \in Seq(Ids) /\ kept \in Seq(Ids')
  <2> DEFINE done == {i \in 1 .. Len(outcomes) - 1 : outcomes[i].reason = "succeeded"}
  <2>1. Cardinality(done) \in Nat
    <3>1. IsFiniteSet(1 .. Len(outcomes) - 1)
      BY <1>5, FS_Interval
    <3> QED BY <3>1, FS_Subset, FS_CardinalityType
  <2>2. DOMAIN places = 1 .. Cardinality(done)
    BY DEF Completed
  <2> HIDE DEF done
  <2>3. kept \in [1 .. Cardinality(done) -> Ids]
    BY <1>8, <2>2
  <2>4. kept \in Seq(Ids)
    BY <2>1, <2>3, SeqDef
  <2> QED BY <1>2, <2>4, SeqMonotonic
<1>10. plan' = kept \o ids /\ Within(kept) \subseteq Ids
       /\ \A t \in Within(kept) : tasks[t].status = "succeeded"
  BY <1>7, <1>8 DEF Within
<1>11. dropped' \subseteq Ids'
  BY <1>2, <1>7 DEF TreeInv, TypeOK, Planned
<1> HIDE DEF kept
<1>12. plan' \in Seq(Ids') /\ Planned' = Within(kept) \cup Within(ids)
  <2>1. plan' \in Seq(Ids') /\ Len(plan') = Len(kept) + Len(ids)
    BY <1>2, <1>9, <1>10, ConcatProperties
  <2>2. \A i \in 1 .. Len(kept) + Len(ids) :
            plan'[i] = IF i <= Len(kept) THEN kept[i] ELSE ids[i - Len(kept)]
    BY <1>2, <1>9, <1>10, ConcatProperties
  <2>3. Planned' \subseteq Within(kept) \cup Within(ids)
    <3>1. ASSUME NEW i \in 1 .. Len(kept) + Len(ids)
          PROVE  plan'[i] \in Within(kept) \cup Within(ids)
      <4>1. CASE i <= Len(kept)
        BY <1>9, <2>2, <4>1 DEF Within
      <4>2. CASE ~(i <= Len(kept))
        <5>1. i - Len(kept) \in DOMAIN ids /\ plan'[i] = ids[i - Len(kept)]
          BY <1>2, <1>9, <2>2, <4>2
        <5> QED BY <5>1 DEF Within
      <4> QED BY <4>1, <4>2
    <3> QED BY <2>1, <3>1 DEF Planned
  <2>4. Within(kept) \subseteq Planned'
    <3>1. ASSUME NEW i \in 1 .. Len(kept) PROVE i \in DOMAIN plan' /\ plan'[i] = kept[i]
      BY <1>2, <1>9, <2>1, <2>2
    <3> QED BY <1>9, <3>1 DEF Planned, Within
  <2>5. ASSUME NEW i \in DOMAIN ids PROVE ids[i] \in Planned'
    <3>1. /\ Len(kept) + i \in 1 .. Len(kept) + Len(ids) /\ ~(Len(kept) + i <= Len(kept))
          /\ (Len(kept) + i) - Len(kept) = i
      BY <1>2, <1>9
    <3>2. plan'[Len(kept) + i] = ids[i] /\ Len(kept) + i \in DOMAIN plan'
      BY <2>1, <2>2, <3>1
    <3> QED BY <3>2 DEF Planned
  <2> QED BY <2>1, <2>3, <2>4, <2>5 DEF Within
<1>13. TypeOK'
  <2>1. listed' \in Seq(Ids')
    BY <1>2, SeqMonotonic DEF Replan, TreeInv, TypeOK
  <2>2. revisions' \in Nat /\ {revisions, runs, crashes}' \subseteq Nat
    BY DEF Replan, TreeInv, TypeOK
  <2> QED BY <1>2, <1>3, <1>4, <1>6, <1>11, <1>12, <2>1, <2>2 DEF Replan, TreeInv, TypeOK
<1>14. AtHand' /\ PassedSucceeded' /\ AtHandMayRun'
  BY <1>4 DEF AtHand, PassedSucceeded, AtHandMayRun
<1>15. OutcomesAreTrue'
  BY <1>2, <1>6 DEF TreeInv, OutcomesAreTrue
<1>16. PlanIsClosed'
  BY <1>2, <1>10, <1>12 DEF PlanIsClosed
<1>17. RevisionIsNew'
  BY <1>2, <1>3, <1>4 DEF RevisionIsNew, Within
<1>18. SavedAreClosed'
  <2>1. Saved \subseteq Ids /\ Within(unsaved)' = Within(ids) /\ crashes' = crashes
    BY <1>3 DEF Replan, Saved, Within
  <2>2. Within(unsaved) = {}
    BY <1>4 DEF TreeInv, RevisionIsNew, Within
  <2> QED BY <1>2, <2>1, <2>2 DEF TreeInv, SavedAreClosed
<1> QED BY <1>13, <1>14, <1>15, <1>16, <1>17, <1>18 DEF TreeInv

-------------------------------------------------------------------------------
(* Steps that run and save tasks. *)

LEMMA SkipTaskStep == ASSUME TreeInv, NEW t \in Ids, SkipTask(t) PROVE TreeInv'
<1>1. /\ RowsStay /\ UNCHANGED <<plan, at, outcomes, unsaved, dropped, crashes, pc>>
      /\ pc = "next" /\ tasks[t].status = "succeeded" /\ visited' = visited \cup {t}
  BY DEF SkipTask, RowsStay, rows
<1>2. Ids' = Ids /\ Saved' = Saved /\ Planned' = Planned
      /\ Within(unsaved)' = Within(unsaved)
  BY <1>1 DEF RowsStay, Ids, Saved, Planned, Within
<1>3. TypeOK'
  <2>1. {resume, stop}' \subseteq BOOLEAN
    BY Zenon DEF SkipTask, TreeInv, TypeOK
  <2>2. /\ tasks' \in Seq(Task) /\ listed' \in Seq(Ids') /\ plan' \in Seq(Ids') /\ unsaved' \in Seq(Ids')
        /\ visited' \subseteq Ids' /\ dropped' \subseteq Ids'
    BY <1>1, <1>2 DEF RowsStay, TreeInv, TypeOK
  <2> QED BY <2>1, <2>2 DEF SkipTask, rows, TreeInv, TypeOK
<1>4. AtHand' /\ PassedSucceeded' /\ AtHandMayRun'
  BY <1>1 DEF RowsStay, TreeInv, AtHand, PassedSucceeded, AtHandMayRun
<1>5. OutcomesAreTrue' /\ PlanIsClosed' /\ RevisionIsNew' /\ SavedAreClosed'
  BY <1>1, <1>2 DEF RowsStay, TreeInv, OutcomesAreTrue, PlanIsClosed, RevisionIsNew, SavedAreClosed
<1> QED BY <1>3, <1>4, <1>5 DEF TreeInv

\* What holds after any save of a task that had not succeeded.
LEMMA SaveKeeps ==
    ASSUME TreeInv, NEW t \in Ids, NEW status \in TaskStatus \ {"none"}, SaveTask(t, status),
           tasks[t].status # "succeeded", UNCHANGED plan
    PROVE  /\ \A u \in Ids : tasks[u].status = "succeeded" => tasks'[u].status = "succeeded"
           /\ PlanIsClosed'
<1>1. \A u \in Ids : tasks[u].status = "succeeded" => tasks'[u].status = "succeeded"
  BY SaveFacts DEF TreeInv
<1>2. Planned' = Planned /\ Planned \subseteq Ids
  BY DEF TreeInv, TypeOK, Planned
<1>3. PlanIsClosed'
  BY <1>1, <1>2, SaveFacts DEF TreeInv, PlanIsClosed
<1> QED BY <1>1, <1>3

\* A task is begun when all that it depends on has succeeded.
LEMMA BeginTaskStep == ASSUME TreeInv, NEW t \in Ids, BeginTask(t) PROVE TreeInv'
<1>1. /\ pc = "next" /\ tasks[t].status # "succeeded" /\ SaveTask(t, "active") /\ t \in Planned
      /\ t \notin visited /\ tasks[t].deps \cap Planned \subseteq visited
  BY DEF BeginTask, NextTask, Ready, Planned
<1>2. /\ UNCHANGED <<goal, proposal, resume, stop, plan, outcomes, revisions, unsaved, dropped,
                     runs, crashes>>
      /\ at' = t /\ visited' = visited \cup {t} /\ pc' \in {"task", "cut"}
  BY DEF BeginTask
<1>3. "active" \in TaskStatus \ {"none"}
  BY DEF TaskStatus
<1>4. /\ tasks' \in Seq(Task) /\ Ids' = Ids
      /\ tasks'[t].status = "active"
      /\ \A u \in Ids : tasks'[u].deps = tasks[u].deps
      /\ \A u \in Ids \ {t} : tasks'[u] = tasks[u]
      /\ listed' \in Seq(Ids') /\ Saved' = Saved \cup {t}
  BY <1>1, <1>3, SaveFacts DEF TreeInv
<1>5. \A d \in tasks[t].deps : d \in Ids /\ d # t /\ tasks[d].status = "succeeded"
  BY <1>1 DEF TreeInv, TypeOK, PlanIsClosed, PassedSucceeded
<1>6. \A u \in Ids : tasks[u].status = "succeeded" => tasks'[u].status = "succeeded"
  BY <1>1, <1>2, <1>3, SaveKeeps
<1>7. TypeOK'
  <2>1. {resume, stop}' \subseteq BOOLEAN
    BY <1>2, Zenon DEF TreeInv, TypeOK
  <2>2. t \in Nat
    BY DEF TreeInv, TypeOK, Ids
  <2> QED BY <1>2, <1>4, <2>1, <2>2 DEF TreeInv, TypeOK
<1>8. AtHand' /\ AtHandMayRun'
  BY <1>2, <1>4, <1>5 DEF AtHand, AtHandMayRun
<1>9. PassedSucceeded'
  BY <1>1, <1>2, <1>4 DEF TreeInv, TypeOK, PassedSucceeded
<1>10. OutcomesAreTrue'
  BY <1>2, <1>4, <1>6 DEF TreeInv, OutcomesAreTrue
<1>11. PlanIsClosed'
  BY <1>1, <1>2, <1>3, SaveKeeps
<1>12. unsaved = <<>> /\ RevisionIsNew'
  BY <1>1, <1>2 DEF TreeInv, RevisionIsNew
<1>13. SavedAreClosed'
  <2>1. Within(unsaved) = {} /\ Within(unsaved)' = {}
    BY <1>2, <1>12 DEF Within
  <2>2. tasks[t].deps \subseteq Saved
    BY <1>5 DEF Saved
  <2>3. Saved \subseteq Ids
    BY DEF Saved
  <2> QED BY <1>2, <1>4, <2>1, <2>2, <2>3 DEF TreeInv, SavedAreClosed
<1> QED BY <1>7, <1>8, <1>9, <1>10, <1>11, <1>12, <1>13 DEF TreeInv

\* A task ends as its outcome says.
LEMMA EndTaskStep ==
    ASSUME TreeInv, NEW reason \in {"succeeded", "failed", "aborted"}, EndTask(reason)
    PROVE  TreeInv'
<1>1. /\ pc \in {"task", "cut"} /\ at \in Ids /\ tasks[at].status = "active"
      /\ SaveTask(at, reason) /\ pc' = "verify"
      /\ outcomes' = Append(outcomes, [task |-> at, reason |-> reason])
      /\ UNCHANGED <<goal, proposal, resume, stop, plan, visited, at, revisions, unsaved, dropped,
                     runs, crashes>>
  BY DEF EndTask, TreeInv, AtHand
<1>2. reason \in TaskStatus \ {"none"}
  BY DEF TaskStatus
<1>3. /\ tasks' \in Seq(Task) /\ Ids' = Ids
      /\ tasks'[at].status = reason
      /\ \A u \in Ids : tasks'[u].deps = tasks[u].deps
      /\ \A u \in Ids \ {at} : tasks'[u] = tasks[u]
      /\ listed' \in Seq(Ids') /\ Saved' = Saved \cup {at}
  BY <1>1, <1>2, SaveFacts DEF TreeInv
<1>4. \A u \in Ids : tasks[u].status = "succeeded" => tasks'[u].status = "succeeded"
  BY <1>1, <1>2, SaveKeeps
<1> DEFINE said == [task |-> at, reason |-> reason]
<1>5. said \in Outcome /\ said.task = at /\ said.reason = reason
  <2>1. at \in Nat \ {0}
    BY <1>1 DEF TreeInv, TypeOK, Ids
  <2> QED BY <2>1 DEF Outcome
<1> HIDE DEF said
<1>6. /\ outcomes' \in Seq(Outcome) /\ Len(outcomes') = Len(outcomes) + 1 /\ Len(outcomes) \in Nat
      /\ \A i \in 1 .. Len(outcomes) : outcomes'[i] = outcomes[i]
      /\ outcomes'[Len(outcomes) + 1] = said
  BY <1>1, <1>5, AppendProperties DEF TreeInv, TypeOK, said
<1>7. TypeOK'
  <2>1. {resume, stop}' \subseteq BOOLEAN
    BY <1>1, Zenon DEF TreeInv, TypeOK
  <2> QED BY <1>1, <1>3, <1>6, <2>1 DEF TreeInv, TypeOK
<1>8. AtHand' /\ AtHandMayRun'
  <2>1. Last' = said /\ outcomes' # <<>>
    BY <1>6, EmptySeq DEF Last
  <2> QED BY <1>1, <1>3, <1>5, <2>1 DEF AtHand, AtHandMayRun
<1>9. PassedSucceeded'
  BY <1>1, <1>3 DEF TreeInv, TypeOK, PassedSucceeded
<1>10. OutcomesAreTrue'
  <2> SUFFICES ASSUME NEW i \in DOMAIN outcomes', outcomes'[i].reason = "succeeded"
               PROVE  outcomes'[i].task \in Ids /\ tasks'[outcomes'[i].task].status = "succeeded"
    BY <1>3 DEF OutcomesAreTrue
  <2>1. i \in 1 .. Len(outcomes) + 1
    BY <1>6
  <2>2. CASE i = Len(outcomes) + 1
    BY <1>1, <1>3, <1>5, <1>6, <2>2
  <2>3. CASE i # Len(outcomes) + 1
    <3>1. i \in DOMAIN outcomes /\ outcomes'[i] = outcomes[i]
      BY <1>6, <2>1, <2>3 DEF TreeInv, TypeOK
    <3> QED BY <1>4, <3>1 DEF TreeInv, OutcomesAreTrue
  <2> QED BY <2>2, <2>3
<1>11. PlanIsClosed'
  BY <1>1, <1>2, SaveKeeps
<1>12. unsaved = <<>> /\ RevisionIsNew'
  BY <1>1 DEF TreeInv, RevisionIsNew
<1>13. SavedAreClosed'
  <2>1. Saved \subseteq Ids /\ at \in Saved
    BY <1>1 DEF Saved
  <2>2. Within(unsaved) = {} /\ Within(unsaved)' = {}
    BY <1>1, <1>12 DEF Within
  <2> QED BY <1>1, <1>3, <2>1, <2>2 DEF TreeInv, SavedAreClosed
<1> QED BY <1>7, <1>8, <1>9, <1>10, <1>11, <1>12, <1>13 DEF TreeInv

\* The tasks of a revision are saved one by one.
LEMMA SaveRevisionStep == ASSUME TreeInv, SaveRevision PROVE TreeInv'
<1> DEFINE t == Head(unsaved)
<1>1. /\ pc = "save" /\ SaveTask(t, "pending") /\ unsaved' = Tail(unsaved)
      /\ pc' = IF Len(unsaved) = 1 THEN "next" ELSE "save"
      /\ UNCHANGED <<goal, proposal, resume, stop, plan, visited, at, outcomes, revisions, dropped,
                     runs, crashes>>
  BY DEF SaveRevision
<1>2. unsaved \in Seq(Ids) /\ unsaved # <<>> /\ Len(unsaved) \in Nat \ {0}
  <2>1. unsaved \in Seq(Ids) /\ unsaved # <<>>
    BY <1>1 DEF TreeInv, TypeOK, RevisionIsNew
  <2> QED BY <2>1, EmptySeq
<1>3. /\ t \in Ids /\ t = unsaved[1] /\ tasks[t].status = "none"
      /\ unsaved' \in Seq(Ids) /\ Len(unsaved') = Len(unsaved) - 1
      /\ \A i \in 1 .. Len(unsaved) - 1 : unsaved'[i] = unsaved[i + 1]
  <2>1. t \in Ids /\ t = unsaved[1] /\ 1 \in DOMAIN unsaved
    BY <1>2
  <2>2. tasks[t].status = "none"
    BY <2>1 DEF TreeInv, RevisionIsNew
  <2> QED BY <1>1, <1>2, <2>1, <2>2, HeadTailProperties
<1> HIDE DEF t
<1>4. "pending" \in TaskStatus \ {"none"}
  BY DEF TaskStatus
<1>5. /\ tasks' \in Seq(Task) /\ Ids' = Ids
      /\ \A u \in Ids : tasks'[u].deps = tasks[u].deps
      /\ \A u \in Ids \ {t} : tasks'[u] = tasks[u]
      /\ listed' \in Seq(Ids') /\ Saved' = Saved \cup {t}
  BY <1>1, <1>3, <1>4, SaveFacts DEF TreeInv
<1>6. /\ \A u \in Ids : tasks[u].status = "succeeded" => tasks'[u].status = "succeeded"
      /\ PlanIsClosed'
  BY <1>1, <1>3, <1>4, SaveKeeps
<1>7. \A i \in DOMAIN unsaved' :
        i + 1 \in DOMAIN unsaved /\ unsaved'[i] = unsaved[i + 1] /\ unsaved'[i] # t
  <2> SUFFICES ASSUME NEW i \in DOMAIN unsaved'
               PROVE  i + 1 \in DOMAIN unsaved /\ unsaved'[i] = unsaved[i + 1] /\ unsaved'[i] # t
    OBVIOUS
  <2>1. i \in 1 .. Len(unsaved) - 1 /\ i + 1 \in DOMAIN unsaved /\ 1 \in DOMAIN unsaved /\ i + 1 # 1
    BY <1>2, <1>3
  <2>2. unsaved[i + 1] # unsaved[1]
    BY <2>1 DEF TreeInv, RevisionIsNew
  <2> QED BY <1>3, <2>1, <2>2
<1>8. TypeOK'
  <2>1. {resume, stop}' \subseteq BOOLEAN
    BY <1>1, Zenon DEF TreeInv, TypeOK
  <2> QED BY <1>1, <1>3, <1>5, <2>1 DEF TreeInv, TypeOK
<1>9. AtHand' /\ AtHandMayRun' /\ OutcomesAreTrue'
  BY <1>1, <1>5, <1>6 DEF TreeInv, AtHand, AtHandMayRun, OutcomesAreTrue
<1>10. PassedSucceeded'
  BY <1>1, <1>5, <1>6 DEF TreeInv, TypeOK, PassedSucceeded
<1>11. RevisionIsNew'
  <2>1. pc' = "save" <=> unsaved' # <<>>
    <3>1. unsaved' # <<>> <=> Len(unsaved') # 0
      BY <1>3, EmptySeq
    <3> QED BY <1>1, <1>2, <1>3, <3>1
  <2>2. \A i \in DOMAIN unsaved' : tasks'[unsaved'[i]].status = "none"
    BY <1>2, <1>5, <1>7 DEF TreeInv, RevisionIsNew
  <2>3. ASSUME NEW i \in DOMAIN unsaved', NEW j \in DOMAIN unsaved', unsaved'[i] = unsaved'[j]
        PROVE  i = j
    <3>1. i + 1 = j + 1
      BY <1>7, <2>3 DEF TreeInv, RevisionIsNew
    <3> QED BY <1>3, <3>1
  <2> QED BY <2>1, <2>2, <2>3 DEF RevisionIsNew
<1>12. SavedAreClosed'
  <2>1. Saved \subseteq Ids /\ Within(unsaved) \subseteq Ids
    BY <1>2 DEF Saved, Within
  <2>2. Within(unsaved) = {t} \cup Within(unsaved)'
    <3>1. Within(unsaved)' \subseteq Within(unsaved)
      BY <1>7 DEF Within
    <3>2. t \in Within(unsaved)
      BY <1>2, <1>3 DEF Within
    <3>3. ASSUME NEW i \in DOMAIN unsaved PROVE unsaved[i] \in {t} \cup Within(unsaved)'
      <4>1. CASE i = 1
        BY <1>3, <4>1
      <4>2. CASE i # 1
        <5>1. i - 1 \in 1 .. Len(unsaved) - 1 /\ (i - 1) + 1 = i
          BY <1>2, <4>2
        <5>2. i - 1 \in DOMAIN unsaved' /\ unsaved'[i - 1] = unsaved[i]
          BY <1>3, <5>1
        <5> QED BY <5>2 DEF Within
      <4> QED BY <4>1, <4>2
    <3> QED BY <3>1, <3>2, <3>3 DEF Within
  <2>3. Saved' \cup Within(unsaved)' = Saved \cup Within(unsaved)
    BY <1>5, <2>2
  <2> QED BY <1>1, <1>5, <2>1, <2>3 DEF TreeInv, SavedAreClosed
<1> QED BY <1>6, <1>8, <1>9, <1>10, <1>11, <1>12 DEF TreeInv

-------------------------------------------------------------------------------
(* Every step. *)

LEMMA TreeStep == TreeInv /\ [Next]_vars => TreeInv'
<1> SUFFICES ASSUME TreeInv, [Next]_vars PROVE TreeInv'
  OBVIOUS
<1>t. TypeOK
  BY DEF TreeInv
<1>1. ASSUME NEW again \in BOOLEAN, Begin(again) PROVE TreeInv'
  <2>1. runs' \in Nat /\ resume' \in BOOLEAN /\ stop' \in BOOLEAN
    BY <1>1, <1>t DEF Begin, TypeOK
  <2> QED BY <1>1, <2>1, MoveStep DEF Begin, RowsStay, rows
<1>2. ASSUME PlanRejected \/ NothingToRun \/ ReplanDeclined \/ QueueEnds
             \/ \E verdict \in {"passed", "failed", "uncertain"} : Verify(verdict)
      PROVE  TreeInv'
  <2>1. runs' \in Nat /\ resume' \in BOOLEAN /\ stop' \in BOOLEAN
    BY <1>2, <1>t DEF PlanRejected, NothingToRun, ReplanDeclined, QueueEnds, Verify, run, TypeOK
  <2>2. /\ RowsStay
        /\ UNCHANGED <<goal, plan, visited, at, outcomes, revisions, unsaved, dropped, crashes>>
        /\ proposal' \in {proposal, <<>>}
    BY <1>2 DEF PlanRejected, NothingToRun, ReplanDeclined, QueueEnds, Verify, run, rows, RowsStay
  <2>3. \/ pc \in {"prepare", "next", "replan"} /\ pc' = "settle"
        \/ pc = "prepare" /\ pc' = "next"
        \/ pc = "verify" /\ pc' \in {"settle", "replan"}
        \/ pc = "verify" /\ pc' = "next" /\ Last.reason = "succeeded"
    BY <1>2 DEF PlanRejected, PlansAfresh, NothingToRun, ReplanDeclined, QueueEnds, Verify
  <2>4. pc = "prepare" => visited = {}
    BY DEF TreeInv, PassedSucceeded
  <2> QED BY <2>1, <2>2, <2>3, <2>4, MoveStep
<1>3. ASSUME Stop PROVE TreeInv'
  <2>1. runs' \in Nat /\ resume' \in BOOLEAN /\ stop' \in BOOLEAN
    BY <1>3, <1>t DEF Stop, TypeOK
  <2>2. pc' \in {"idle", "prepare", "next", "task", "cut", "verify", "replan", "save", "settle"}
    BY <1>3, <1>t DEF Stop, TypeOK
  <2>3. pc' = pc /\ proposal' = proposal /\ pc \notin {"idle", "prepare"}
    BY <1>3 DEF Stop
  <2>4. RowsStay /\ UNCHANGED <<goal, plan, visited, at, outcomes, revisions, unsaved, dropped, crashes>>
    BY <1>3 DEF Stop, RowsStay, rows
  <2> QED BY <2>1, <2>2, <2>3, <2>4, MoveStep
<1>4. ASSUME SettleGoal PROVE TreeInv'
  <2>1. goal' \in GoalStatus
    <3>1. CASE outcomes = <<>>
      BY <1>4, <3>1, <1>t DEF SettleGoal, TypeOK
    <3>2. CASE outcomes # <<>>
      <4>1. Last \in Outcome
        BY <3>2, <1>t, EmptySeq, ElementOfSeq DEF TypeOK, Last
      <4> QED BY <1>4, <3>2, <4>1 DEF SettleGoal, Outcome, GoalStatus
    <3> QED BY <3>1, <3>2
  <2> QED BY <1>4, <1>t, <2>1, ForgetStep DEF SettleGoal, RowsStay, TypeOK
<1>5. ASSUME Crash PROVE TreeInv'
  <2>1. crashes' = crashes + 1 /\ crashes' # crashes /\ crashes' \in Nat /\ goal' \in GoalStatus
    BY <1>5, <1>t DEF Crash, rows, TypeOK
  <2> QED BY <1>5, <2>1, ForgetStep DEF Crash, RowsStay, rows
<1>6. CASE UNCHANGED vars
  <2>1. runs' \in Nat /\ resume' \in BOOLEAN /\ stop' \in BOOLEAN /\ proposal' = proposal
        /\ pc' = pc
    BY <1>6, <1>t DEF vars, run, TypeOK
  <2>2. pc' \in {"idle", "prepare", "next", "task", "cut", "verify", "replan", "save", "settle"}
    BY <1>t, <2>1 DEF TypeOK
  <2>3. RowsStay /\ UNCHANGED <<goal, plan, visited, at, outcomes, revisions, unsaved, dropped, crashes>>
    BY <1>6 DEF vars, run, RowsStay, rows
  <2> QED BY <2>1, <2>2, <2>3, MoveStep
<1> QED
  BY <1>1, <1>2, <1>3, <1>4, <1>5, <1>6, PlanRunStep, PlanFromRowsStep, SkipTaskStep, BeginTaskStep,
     EndTaskStep, ReplanStep, SaveRevisionStep DEF Next, Runner

LEMMA TreeInvariant == Spec => []TreeInv
  BY TreeInitInv, TreeStep, PTL DEF Spec

-------------------------------------------------------------------------------
(* Theorems. *)

\* Every variable keeps its shape, for any plans and bounds.
THEOREM TreeTypes == Spec => []TypeOK
<1>1. TreeInv => TypeOK
  BY DEF TreeInv
<1> QED BY <1>1, TreeInvariant, PTL

\* A task runs only after everything it depends on has succeeded: topologicalTaskOrder, the
\* revisions of createPlanRevision and the plans that a resume makes of the rows all keep it so.
THEOREM DependenciesComeFirst == Spec => []DependenciesFirst
<1>1. TreeInv => DependenciesFirst
  BY DEF TreeInv, AtHandMayRun, DependenciesFirst
<1> QED BY <1>1, TreeInvariant, PTL

\* When no run is under way and none has died, no saved task depends on one without a row.
THEOREM RowsStayClosed == Spec => []RowsAreClosed
<1>1. TreeInv => RowsAreClosed
  <2> SUFFICES ASSUME TreeInv, pc = "idle", crashes = 0
               PROVE  \A t \in Saved : tasks[t].deps \subseteq Saved
    BY DEF RowsAreClosed
  <2>1. Within(unsaved) = {}
    BY DEF TreeInv, RevisionIsNew, Within
  <2> QED BY <2>1 DEF TreeInv, SavedAreClosed
<1> QED BY <1>1, TreeInvariant, PTL

-------------------------------------------------------------------------------
(* Every task implements TaskLife: each step of the run is one of its steps. *)

StatusOf(t) == IF t \in Ids THEN tasks[t].status ELSE "none"
RunningAt(t) == pc \in {"task", "cut"} /\ at = t

\* A step that saves at most one task is a step of that task only.
LEMMA OthersStutter ==
    ASSUME NEW t, StatusOf(t)' = StatusOf(t), RunningAt(t)' = RunningAt(t)
    PROVE  Life(t)!Step
  BY DEF Life!Step, StatusOf, RunningAt

\* No save: the executor goes on, or is not there, or dies.
LEMMA UnsavedLives ==
    ASSUME NEW t, StatusOf(t)' = StatusOf(t), ~RunningAt(t)'
    PROVE  Life(t)!Step
<1>1. CASE RunningAt(t)
  BY <1>1 DEF Life!Step, Life!Next, Life!Die, StatusOf, RunningAt
<1>2. CASE ~RunningAt(t)
  BY <1>2 DEF Life!Step, StatusOf, RunningAt
<1> QED BY <1>1, <1>2

LEMMA PlannedLives ==
    ASSUME NEW t \in Ids, t \in Ids', ~RunningAt(t), ~RunningAt(t)',
           tasks[t].status = "none", tasks'[t].status = "pending"
    PROVE  Life(t)!Step
  BY DEF Life!Step, Life!Next, Life!Plan, StatusOf, RunningAt

LEMMA BegunLives ==
    ASSUME NEW t \in Ids, t \in Ids', ~RunningAt(t), RunningAt(t)',
           tasks[t].status # "succeeded", tasks'[t].status = "active"
    PROVE  Life(t)!Step
  BY DEF Life!Step, Life!Next, Life!Begin, StatusOf, RunningAt

LEMMA EndedLives ==
    ASSUME NEW t \in Ids, t \in Ids', RunningAt(t), ~RunningAt(t)',
           tasks'[t].status \in {"succeeded", "failed", "aborted"}
    PROVE  Life(t)!Step
  BY DEF Life!Step, Life!Next, Life!End, StatusOf, RunningAt

LEMMA StepLives ==
    ASSUME TreeInv, [Next]_vars, NEW t \in Ids'
    PROVE  Life(t)!Step
<1>t. TypeOK
  BY DEF TreeInv
<1>1. ASSUME RowsStay, pc' \notin {"task", "cut"} PROVE Life(t)!Step
  BY <1>1, UnsavedLives DEF RowsStay, StatusOf, RunningAt, Ids
<1>2. ASSUME RowsStay, pc' = pc, at' = at PROVE Life(t)!Step
  BY <1>2, OthersStutter DEF RowsStay, StatusOf, RunningAt, Ids
<1>3. ASSUME NEW again \in BOOLEAN, Begin(again) PROVE Life(t)!Step
  BY <1>1, <1>3 DEF Begin, rows, RowsStay
<1>4. CASE Stop \/ UNCHANGED vars
  BY <1>2, <1>4 DEF Stop, vars, run, rows, RowsStay
<1>5. CASE Crash
  BY <1>1, <1>5 DEF Crash, Forget, rows, RowsStay
<1>6. CASE PlanRejected \/ PlanFromRows \/ NothingToRun \/ ReplanDeclined \/ QueueEnds \/ SettleGoal
  <2>1. RowsStay
    BY <1>6 DEF PlanRejected, PlanFromRows, NothingToRun, ReplanDeclined, QueueEnds, SettleGoal,
       rows, RowsStay
  <2>2. pc' \notin {"task", "cut"}
    BY <1>6 DEF PlanRejected, PlanFromRows, NothingToRun, ReplanDeclined, QueueEnds, SettleGoal, Forget
  <2> QED BY <1>1, <2>1, <2>2
<1>7. ASSUME NEW verdict \in {"passed", "failed", "uncertain"}, Verify(verdict) PROVE Life(t)!Step
  BY <1>1, <1>7 DEF Verify, rows, RowsStay
<1>8. CASE PlanRun
  <2>1. Proposed \in Plans \cup {DefaultPlan} /\ Valid(DOMAIN Proposed, Proposed)
    BY <1>8, <1>t DEF TypeOK, PlanRun, Proposed
  <2>2. tasks' = tasks \o Compiled(Proposed) /\ pc' = "next"
    BY <1>8 DEF PlanRun
  <2>3. StatusOf(t)' = StatusOf(t)
    BY <1>t, <2>1, <2>2, NewTaskFacts DEF StatusOf
  <2> QED BY <2>2, <2>3, UnsavedLives DEF RunningAt
<1>9. ASSUME NEW proposed \in Plans, Replan(proposed) PROVE Life(t)!Step
  <2>1. Valid(DOMAIN proposed, proposed) /\ tasks' = tasks \o Compiled(proposed) /\ pc' = "save"
    BY <1>9 DEF Replan
  <2>2. StatusOf(t)' = StatusOf(t)
    BY <1>t, <2>1, NewTaskFacts DEF StatusOf
  <2> QED BY <2>1, <2>2, UnsavedLives DEF RunningAt
<1>10. ASSUME NEW u \in Ids, SkipTask(u) PROVE Life(t)!Step
  BY <1>2, <1>10 DEF SkipTask, rows, RowsStay
<1>11. ASSUME NEW u \in Ids, BeginTask(u) PROVE Life(t)!Step
  <2>1. /\ pc = "next" /\ tasks[u].status # "succeeded" /\ SaveTask(u, "active")
        /\ at' = u /\ pc' \in {"task", "cut"}
    BY <1>11 DEF BeginTask
  <2>2. "active" \in TaskStatus \ {"none"}
    BY DEF TaskStatus
  <2>3. /\ Ids' = Ids /\ tasks'[u].status = "active"
        /\ \A v \in Ids \ {u} : tasks'[v] = tasks[v]
    BY <1>t, <2>1, <2>2, SaveFacts
  <2>4. CASE t = u
    BY <2>1, <2>3, <2>4, BegunLives DEF RunningAt
  <2>5. CASE t # u
    BY <2>1, <2>3, <2>5, OthersStutter DEF StatusOf, RunningAt
  <2> QED BY <2>4, <2>5
<1>12. ASSUME NEW reason \in {"succeeded", "failed", "aborted"}, EndTask(reason) PROVE Life(t)!Step
  <2>1. /\ pc \in {"task", "cut"} /\ at \in Ids /\ SaveTask(at, reason)
        /\ at' = at /\ pc' = "verify"
    BY <1>12 DEF EndTask, TreeInv, AtHand
  <2>2. reason \in TaskStatus \ {"none"}
    BY DEF TaskStatus
  <2>3. /\ Ids' = Ids /\ tasks'[at].status = reason
        /\ \A v \in Ids \ {at} : tasks'[v] = tasks[v]
    BY <1>t, <2>1, <2>2, SaveFacts
  <2>4. CASE t = at
    BY <2>1, <2>3, <2>4, EndedLives DEF RunningAt
  <2>5. CASE t # at
    BY <2>1, <2>3, <2>5, OthersStutter DEF StatusOf, RunningAt
  <2> QED BY <2>4, <2>5
<1>13. CASE SaveRevision
  <2> DEFINE u == Head(unsaved)
  <2>1. pc = "save" /\ SaveTask(u, "pending") /\ pc' \in {"next", "save"} /\ at' = at
    BY <1>13 DEF SaveRevision
  <2>2. u \in Ids /\ tasks[u].status = "none"
    <3>1. unsaved \in Seq(Ids) /\ unsaved # <<>>
      BY <2>1 DEF TreeInv, TypeOK, RevisionIsNew
    <3>2. u \in Ids /\ u = unsaved[1] /\ 1 \in DOMAIN unsaved
      BY <3>1
    <3> QED BY <3>2 DEF TreeInv, RevisionIsNew
  <2>3. "pending" \in TaskStatus \ {"none"}
    BY DEF TaskStatus
  <2> HIDE DEF u
  <2>4. /\ Ids' = Ids /\ tasks'[u].status = "pending"
        /\ \A v \in Ids \ {u} : tasks'[v] = tasks[v]
    BY <1>t, <2>1, <2>2, <2>3, SaveFacts
  <2>5. CASE t = u
    BY <2>1, <2>2, <2>4, <2>5, PlannedLives DEF RunningAt
  <2>6. CASE t # u
    BY <2>1, <2>4, <2>6, OthersStutter DEF StatusOf, RunningAt
  <2> QED BY <2>5, <2>6
<1> QED
  BY <1>3, <1>4, <1>5, <1>6, <1>7, <1>8, <1>9, <1>10, <1>11, <1>12, <1>13 DEF Next, Runner

\* Each task of a plan lives the life of a Task, through stops, crashes, resumes and revisions: one
\* executor at a time, no succeeded task run again, no row terminal before its executor said so.
THEOREM TasksLive == Spec => EveryTaskLives
<1>1. TreeInv /\ [Next]_vars => [\A t \in Ids' : Life(t)!Step]_vars
  BY StepLives
<1> QED BY <1>1, TreeInvariant, PTL DEF Spec, EveryTaskLives
===============================================================================
