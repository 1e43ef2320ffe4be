------------------------- MODULE ToolInvocation_proofs -------------------------
(***************************************************************************)
(* What is proved about a tool call, for any Goals, conversations, calls,  *)
(* files and crashes: nothing is started that somebody should have been    *)
(* asked about and was not, nobody is asked for what they have granted,    *)
(* and the journal leads every file back to what it was.                   *)
(***************************************************************************)
EXTENDS ToolInvocation, SequenceTheorems, WellFoundedInduction, TLAPS

-------------------------------------------------------------------------------
(* The inductive invariant. *)

GatewayTypes ==
    /\ session \in [Goals -> Sessions \cup {NoSession}]
    /\ local \in [Goals -> SUBSET STRING]
    /\ ledger \in [Goals -> Seq({"internal", "sensitive"})]
    /\ goalOf \in [Invocations -> Goals]
    /\ pc \in [Invocations -> {"new", "waiting", "running", "changed", "done"}]
    /\ call \in [Invocations -> Call \cup {None}]
    /\ verdict \in [Invocations -> Verdict]

\* What is remembered was granted by an answer that still stands: a key in the store, and a key
\* that the run of a Goal keeps to itself.
StoreBacked ==
    \A a \in store : \E n \in answers :
        /\ n.key = a.key /\ n.scope = a.scope /\ n.session = a.owner
        /\ a.scope = "workspace" \/ (a.scope = "session" /\ a.owner # NoSession)

LocalBacked ==
    \A g \in Goals : \A key \in local[g] : \E n \in answers :
        n.key = key /\ n.scope = "session" /\ n.session = NoSession /\ n.goal = g

\* While a call waits, the ledger its verdict was given on is still the beginning of the ledger.
Held(i) ==
    pc[i] = "waiting" =>
        /\ call[i] \in Call
        /\ call[i].egress =>
            /\ verdict[i].version <= Len(ledger[goalOf[i]])
            /\ ~verdict[i].broken =>
                \A n \in 1 .. verdict[i].version : ledger[goalOf[i]][n] # "sensitive"

\* A call that runs is known.
Known(i) == InFlight(i) => call[i] \in Call

VerdictHolds == \A i \in Invocations : Held(i)
RunningIsCall == \A i \in Invocations : Known(i)

GateInv == GatewayTypes /\ StoreBacked /\ LocalBacked /\ VerdictHolds /\ RunningIsCall

-------------------------------------------------------------------------------
(* The second invariant: nothing granted is forgotten, and the journal follows the files. *)

EffectTypes ==
    /\ files \in [Files -> Content]
    /\ journal \in Seq(Record)
    /\ store \subseteq Approval
    /\ taint \in [Goals -> SUBSET Files]
    /\ before \in [Invocations -> Content \cup {None}]
    /\ touched \in [Files -> SUBSET Goals]

\* Who waits asked for something its Goal may ask for.
WaitingIsAllowed == \A i \in Invocations : pc[i] = "waiting" => call[i] \in CallsOf[goalOf[i]]

Dangerous(key) == \E g \in Goals : \E c \in CallsOf[g] : c.key = key /\ c.always

\* An answer that stands and is not for one call only is remembered where it reaches.
Kept(a) ==
    /\ a.goal \in Goals
    /\ ~Dangerous(a.key) /\ a.scope = "workspace" =>
           \E s \in store : s.key = a.key /\ s.scope = "workspace"
    /\ ~Dangerous(a.key) /\ a.scope = "session" =>
           IF a.session = NoSession THEN a.key \in local[a.goal]
           ELSE \E s \in store : s.key = a.key /\ s.owner = a.session

AnswersKept == \A a \in answers : Kept(a)

Writing(f) == {i \in Invocations : InFlight(i) /\ call[i].file = f}

Stands(f) == {n \in DOMAIN journal : journal[n].file = f /\ journal[n].status = "applied"}

Failed(f) == \E n \in DOMAIN journal : journal[n].file = f /\ journal[n].status = "rollback-failed"

Earliest(places) == CHOOSE n \in places : \A m \in places : n <= m

\* What the journal makes of a file that is `now` without the records that still stand.
LeadsTo(f, now) ==
    IF Stands(f) = {} THEN now ELSE journal[Earliest(Stands(f))].before

\* A Goal that writes a file, or has a record of it, has touched it.
WritersTouch ==
    \A f \in Files :
        /\ \A i \in Writing(f) : goalOf[i] \in touched[f]
        /\ \A n \in DOMAIN journal : journal[n].file = f => journal[n].goal \in touched[f]

\* A file that is not mixed has one Goal and one call at a time.
OneWriter ==
    \A f \in Files \ mixed :
        /\ \A g, h \in touched[f] : g = h
        /\ \A i, j \in Writing(f) : i = j

\* Nobody writes a file without a snapshot of it.
SnapshotsTaken == \A f \in Files : \A i \in Writing(f) : before[i] \in Content

\* The journal leads back to the original from where the writer of a file found it, or from
\* where it is; a tool that has not changed the file yet finds it as the snapshot has it.
FilesUndoable ==
    \A f \in Files \ (mixed \cup lost) : ~Failed(f) =>
        /\ \A i \in Writing(f) :
              /\ LeadsTo(f, before[i]) = Original
              /\ pc[i] = "running" => files[f] = before[i]
        /\ Writing(f) = {} => LeadsTo(f, files[f]) = Original

EffectInv ==
    /\ EffectTypes
    /\ WaitingIsAllowed /\ AnswersKept
    /\ WritersTouch /\ OneWriter /\ SnapshotsTaken /\ FilesUndoable

-------------------------------------------------------------------------------
(* The first invariant, step by step. *)

LEMMA GateInitInv == Init => GateInv
<1> SUFFICES ASSUME Init PROVE GateInv
  OBVIOUS
<1>1. GatewayTypes
  BY GoalsAssumption DEF Init, GatewayTypes, NoVerdict, Verdict
<1>2. StoreBacked /\ LocalBacked /\ VerdictHolds /\ RunningIsCall
  BY DEF Init, StoreBacked, LocalBacked, VerdictHolds, RunningIsCall, InFlight, Held, Known
<1> QED BY <1>1, <1>2 DEF GateInv

-------------------------------------------------------------------------------
(* Types. *)

LEMMA FinishTypes ==
    ASSUME GatewayTypes, NEW i \in Invocations, Finish(i)
    PROVE  /\ pc' \in [Invocations -> {"new", "waiting", "running", "changed", "done"}]
           /\ call' \in [Invocations -> Call \cup {None}]
           /\ verdict' \in [Invocations -> Verdict]
           /\ pc'[i] = "done"
           /\ \A j \in Invocations \ {i} :
                pc'[j] = pc[j] /\ call'[j] = call[j] /\ verdict'[j] = verdict[j]
  BY DEF GatewayTypes, Finish, NoVerdict, Verdict

LEMMA AdjudicatedTypes ==
    ASSUME GatewayTypes, NEW i \in Invocations, NEW c \in Call, Adjudicated(i, c)
    PROVE  /\ call' \in [Invocations -> Call \cup {None}]
           /\ verdict' \in [Invocations -> Verdict]
           /\ call'[i] = c
           /\ c.egress => /\ verdict'[i].version = Len(ledger[goalOf[i]])
                          /\ verdict'[i].broken = Broken(goalOf[i])
           /\ \A j \in Invocations \ {i} : call'[j] = call[j] /\ verdict'[j] = verdict[j]
<1>1. ledger[goalOf[i]] \in Seq({"internal", "sensitive"})
  BY DEF GatewayTypes
<1>2. Len(ledger[goalOf[i]]) \in Nat /\ Broken(goalOf[i]) \in BOOLEAN
  BY <1>1 DEF Broken, Sensitive
<1> DEFINE said == [version |-> Len(ledger[goalOf[i]]), broken |-> Broken(goalOf[i])]
<1>3. said \in Verdict
  BY <1>2 DEF Verdict
<1>4. said.version = Len(ledger[goalOf[i]]) /\ said.broken = Broken(goalOf[i])
  BY Zenon
<1>5. call' = [call EXCEPT ![i] = c] /\ verdict' = [verdict EXCEPT ![i] = IF c.egress THEN said ELSE @]
  BY DEF Adjudicated
<1>6. c.egress => verdict'[i] = said
  BY <1>5 DEF GatewayTypes
<1>7. /\ call' \in [Invocations -> Call \cup {None}]
      /\ verdict' \in [Invocations -> Verdict]
      /\ call'[i] = c
      /\ \A j \in Invocations \ {i} : call'[j] = call[j] /\ verdict'[j] = verdict[j]
  <2> HIDE DEF said
  <2> QED BY <1>3, <1>5 DEF GatewayTypes
<1>8. ASSUME c.egress
      PROVE  verdict'[i].version = said.version /\ verdict'[i].broken = said.broken
  BY <1>6, <1>8, Zenon
<1> QED BY <1>4, <1>7, <1>8, Zenon

LEMMA StartTypes ==
    ASSUME GatewayTypes, NEW i \in Invocations, NEW c, StartTool(i, c)
    PROVE  /\ pc' \in [Invocations -> {"new", "waiting", "running", "changed", "done"}]
           /\ pc'[i] = "running"
           /\ \A j \in Invocations \ {i} : pc'[j] = pc[j]
  BY DEF GatewayTypes, StartTool

LEMMA RememberTypes ==
    ASSUME GatewayTypes, NEW g \in Goals, NEW c \in Call, NEW scope, Remember(g, c, scope)
    PROVE  local' \in [Goals -> SUBSET STRING]
<1>1. c.key \in STRING
  BY DEF Call
<1> QED BY <1>1 DEF GatewayTypes, Remember

LEMMA CallKnown ==
    ASSUME NEW g \in Goals, NEW c \in CallsOf[g] PROVE c \in Call
  BY CallsAssumption

LEMMA GateTypeStep == GateInv /\ [Next]_vars => GatewayTypes'
<1> SUFFICES ASSUME GateInv, [Next]_vars PROVE GatewayTypes'
  OBVIOUS
<1>0. GatewayTypes
  BY DEF GateInv
<1> USE <1>0
<1>1. ASSUME NEW i \in Invocations, NEW c \in CallsOf[goalOf[i]], Forbid(i, c)
      PROVE  GatewayTypes'
  BY <1>1, FinishTypes DEF Forbid, GatewayTypes, gateway
<1>2. ASSUME NEW i \in Invocations, NEW c \in CallsOf[goalOf[i]], Ask(i, c)
      PROVE  GatewayTypes'
  <2>1. c \in Call
    BY CallKnown DEF GatewayTypes
  <2> QED BY <1>2, <2>1, AdjudicatedTypes DEF Ask, GatewayTypes, gateway
<1>3. ASSUME NEW i \in Invocations, NEW c \in CallsOf[goalOf[i]], Run(i, c)
      PROVE  GatewayTypes'
  <2>1. c \in Call
    BY CallKnown DEF GatewayTypes
  <2> QED BY <1>3, <2>1, AdjudicatedTypes, StartTypes DEF Run, GatewayTypes, gateway
<1>4. ASSUME NEW i \in Invocations, NEW scope \in {"once", "session", "workspace"},
             Grant(i, scope)
      PROVE  GatewayTypes'
  <2>1. local' \in [Goals -> SUBSET STRING]
    <3>1. call[i] \in Call /\ goalOf[i] \in Goals
      BY <1>4 DEF Grant, GateInv, VerdictHolds, Held, GatewayTypes
    <3> QED BY <1>4, <3>1, RememberTypes DEF Grant
  <2>2. CASE Finish(i)
    BY <1>4, <2>1, <2>2, FinishTypes DEF Grant, GatewayTypes
  <2>3. CASE StartTool(i, call[i]) /\ UNCHANGED <<call, verdict>>
    BY <1>4, <2>1, <2>3, StartTypes DEF Grant, GatewayTypes
  <2> QED BY <1>4, <2>2, <2>3 DEF Grant
<1>5. ASSUME NEW i \in Invocations, Refuse(i) PROVE GatewayTypes'
  BY <1>5, FinishTypes DEF Refuse, GatewayTypes, gateway
<1>6. ASSUME NEW i \in Invocations, ToolChangesFile(i) PROVE GatewayTypes'
  BY <1>6 DEF ToolChangesFile, GatewayTypes, gateway
<1>7. ASSUME NEW i \in Invocations, ToolThrows(i) PROVE GatewayTypes'
  BY <1>7, FinishTypes DEF ToolThrows, GatewayTypes, gateway
<1>8. ASSUME NEW i \in Invocations, NEW ok \in BOOLEAN, ToolReturns(i, ok)
      PROVE  GatewayTypes'
  <2>1. call[i] \in Call /\ goalOf[i] \in Goals
    BY <1>8 DEF ToolReturns, GateInv, RunningIsCall, Known, GatewayTypes
  <2>2. call[i].reads # "none" => call[i].reads \in {"internal", "sensitive"}
    BY <2>1 DEF Call
  <2>3. ledger' \in [Goals -> Seq({"internal", "sensitive"})]
    BY <1>8, <2>1, <2>2 DEF ToolReturns, GatewayTypes
  <2> QED BY <1>8, <2>3, FinishTypes DEF ToolReturns, GatewayTypes
<1>9. ASSUME NEW g \in Goals, NEW bad \in SUBSET Applied(g), Rollback(g, bad)
      PROVE  GatewayTypes'
  BY <1>9 DEF Rollback, GatewayTypes, gateway, calls
<1>10. ASSUME NEW g \in Goals, NewRun(g) PROVE GatewayTypes'
  BY <1>10 DEF NewRun, GatewayTypes, calls
<1>11. ASSUME Crash PROVE GatewayTypes'
  BY <1>11 DEF Crash, GatewayTypes, NoVerdict, Verdict
<1>12. ASSUME UNCHANGED vars PROVE GatewayTypes'
  BY <1>12 DEF vars, GatewayTypes, gateway, calls
<1> QED
  BY <1>1, <1>2, <1>3, <1>4, <1>5, <1>6, <1>7, <1>8, <1>9, <1>10, <1>11, <1>12 DEF Next

-------------------------------------------------------------------------------
(* What is remembered has been granted. *)

LEMMA BackedStep == GateInv /\ [Next]_vars => StoreBacked' /\ LocalBacked'
<1> SUFFICES ASSUME GateInv, [Next]_vars PROVE StoreBacked' /\ LocalBacked'
  OBVIOUS
<1>0. GatewayTypes /\ StoreBacked /\ LocalBacked
  BY DEF GateInv
<1>1. CASE UNCHANGED <<store, local, answers>>
  BY <1>0, <1>1 DEF StoreBacked, LocalBacked
<1>2. ASSUME NEW i \in Invocations, NEW scope \in {"once", "session", "workspace"},
             Grant(i, scope)
      PROVE  StoreBacked' /\ LocalBacked'
  <2> DEFINE g == goalOf[i]
             answer == [to |-> i, goal |-> g, session |-> session[g],
                        key |-> call[i].key, scope |-> scope]
  <2>1. answers' = answers \cup {answer}
    BY <1>2 DEF Grant
  <2>2. g \in Goals /\ local \in [Goals -> SUBSET STRING]
    BY <1>0 DEF GatewayTypes
  <2>3. /\ answer.key = call[i].key /\ answer.scope = scope
        /\ answer.session = session[g] /\ answer.goal = g
    OBVIOUS
  <2>4. ASSUME NEW a \in store'
        PROVE  \E n \in answers' :
                 /\ n.key = a.key /\ n.scope = a.scope /\ n.session = a.owner
                 /\ a.scope = "workspace" \/ (a.scope = "session" /\ a.owner # NoSession)
    <3>1. CASE a \in store
      BY <1>0, <2>1, <3>1 DEF StoreBacked
    <3>2. CASE a \notin store
      <4>1. /\ a = [key |-> call[i].key, scope |-> scope, owner |-> session[g]]
            /\ scope # "once" /\ ~(scope = "session" /\ session[g] = NoSession)
        BY <1>2, <3>2 DEF Grant, Remember
      <4>2. a.key = call[i].key /\ a.scope = scope /\ a.owner = session[g]
        BY <4>1
      <4>3. answer \in answers'
        BY <2>1
      <4> QED BY <2>3, <4>1, <4>2, <4>3
    <3> QED BY <3>1, <3>2
  <2>5. ASSUME NEW h \in Goals, NEW key \in local'[h]
        PROVE  \E n \in answers' :
                 n.key = key /\ n.scope = "session" /\ n.session = NoSession /\ n.goal = h
    <3>1. CASE key \in local[h]
      BY <1>0, <2>1, <3>1 DEF LocalBacked
    <3>2. CASE key \notin local[h]
      <4>1. h = g /\ key = call[i].key /\ scope = "session" /\ session[g] = NoSession
        BY <1>2, <2>2, <3>2 DEF Grant, Remember
      <4>2. answer \in answers'
        BY <2>1
      <4> QED BY <2>3, <4>1, <4>2
    <3> QED BY <3>1, <3>2
  <2> QED BY <2>4, <2>5 DEF StoreBacked, LocalBacked
<1>3. ASSUME NEW g \in Goals, NewRun(g) PROVE StoreBacked' /\ LocalBacked'
  <2>1. store' = store /\ local' = [local EXCEPT ![g] = {}]
    BY <1>3 DEF NewRun
  <2>2. \A n \in answers :
          n.scope = "workspace" \/ n.session # NoSession \/ n.goal # g => n \in answers'
    BY <1>3 DEF NewRun
  <2>3. StoreBacked'
    BY <1>0, <2>1, <2>2 DEF StoreBacked
  <2>4. \A h \in Goals : local'[h] = IF h = g THEN {} ELSE local[h]
    BY <1>0, <2>1 DEF GatewayTypes
  <2>5. LocalBacked'
    BY <1>0, <2>2, <2>4 DEF LocalBacked
  <2> QED BY <2>3, <2>5
<1>4. CASE Crash
  BY <1>4 DEF Crash, StoreBacked, LocalBacked
<1> QED
  BY <1>1, <1>2, <1>3, <1>4
  DEF Next, vars, Forbid, Ask, Run, Refuse, ToolChangesFile, ToolThrows, ToolReturns, Rollback,
      gateway, history

-------------------------------------------------------------------------------
(* A call keeps its verdict while it waits. *)

LEMMA DoneIsHeld ==
    ASSUME NEW i \in Invocations, pc'[i] \in {"new", "done"} PROVE Held(i)' /\ Known(i)'
  BY DEF Held, Known, InFlight

\* The calls a step does not touch.
LEMMA SameIsHeld ==
    ASSUME NEW i \in Invocations, Held(i), Known(i), pc'[i] = pc[i], call'[i] = call[i],
           verdict'[i] = verdict[i], goalOf' = goalOf, ledger'[goalOf[i]] = ledger[goalOf[i]]
    PROVE  Held(i)' /\ Known(i)'
  BY DEF Held, Known, InFlight

LEMMA HeldStep == GateInv /\ [Next]_vars => VerdictHolds' /\ RunningIsCall'
<1> SUFFICES ASSUME GateInv, [Next]_vars, NEW j \in Invocations PROVE Held(j)' /\ Known(j)'
  BY DEF VerdictHolds, RunningIsCall
<1>0. GatewayTypes /\ Held(j) /\ Known(j)
  BY DEF GateInv, VerdictHolds, RunningIsCall
<1>1. ASSUME NEW i \in Invocations, Finish(i), goalOf' = goalOf, ledger' = ledger
      PROVE  Held(j)' /\ Known(j)'
  <2>1. CASE i = j
    BY <1>0, <1>1, <2>1, FinishTypes, DoneIsHeld
  <2>2. CASE i # j
    BY <1>0, <1>1, <2>2, FinishTypes, SameIsHeld
  <2> QED BY <2>1, <2>2
<1>2. ASSUME NEW i \in Invocations, NEW c \in CallsOf[goalOf[i]], Ask(i, c)
      PROVE  Held(j)' /\ Known(j)'
  <2>1. c \in Call
    BY <1>0, CallKnown DEF GatewayTypes
  <2>2. Adjudicated(i, c) /\ pc' = [pc EXCEPT ![i] = "waiting"]
    BY <1>2 DEF Ask
  <2>3. goalOf' = goalOf /\ ledger' = ledger
    BY <1>2 DEF Ask, gateway
  <2>4. CASE i # j
    BY <1>0, <2>1, <2>2, <2>3, <2>4, AdjudicatedTypes, SameIsHeld DEF GatewayTypes
  <2>5. CASE i = j
    <3>1. call'[i] = c /\ pc'[i] = "waiting"
      BY <1>0, <2>1, <2>2, AdjudicatedTypes DEF GatewayTypes
    <3>2. c.egress =>
            /\ verdict'[i].version = Len(ledger[goalOf[i]])
            /\ verdict'[i].broken = Broken(goalOf[i])
      BY <1>0, <2>1, <2>2, AdjudicatedTypes
    <3>3. ledger[goalOf[i]] \in Seq({"internal", "sensitive"})
      BY <1>0 DEF GatewayTypes
    <3>4. ~Broken(goalOf[i]) =>
            \A n \in 1 .. Len(ledger[goalOf[i]]) : ledger[goalOf[i]][n] # "sensitive"
      BY <3>3 DEF Broken, Sensitive
    <3> QED BY <2>1, <2>3, <2>5, <3>1, <3>2, <3>3, <3>4 DEF Held, Known, InFlight
  <2> QED BY <2>4, <2>5
<1>3. ASSUME NEW i \in Invocations, NEW c \in CallsOf[goalOf[i]], Run(i, c)
      PROVE  Held(j)' /\ Known(j)'
  <2>1. c \in Call
    BY <1>0, CallKnown DEF GatewayTypes
  <2>2. Adjudicated(i, c) /\ StartTool(i, c) /\ goalOf' = goalOf /\ ledger' = ledger
    BY <1>3 DEF Run, gateway
  <2>3. CASE i # j
    BY <1>0, <2>1, <2>2, <2>3, AdjudicatedTypes, StartTypes, SameIsHeld
  <2>4. CASE i = j
    <3>1. call'[i] = c
      BY <1>0, <2>1, <2>2, AdjudicatedTypes
    <3>2. pc'[i] = "running"
      BY <1>0, <2>2, StartTypes
    <3> QED BY <2>1, <2>4, <3>1, <3>2 DEF Held, Known
  <2> QED BY <2>3, <2>4
<1>4. ASSUME NEW i \in Invocations, NEW scope \in {"once", "session", "workspace"},
             Grant(i, scope)
      PROVE  Held(j)' /\ Known(j)'
  <2>1. goalOf' = goalOf /\ ledger' = ledger /\ pc[i] = "waiting"
    BY <1>4 DEF Grant
  <2>2. CASE Finish(i)
    BY <1>1, <2>1, <2>2
  <2>3. CASE StartTool(i, call[i]) /\ UNCHANGED <<call, verdict>>
    <3>1. CASE i # j
      BY <1>0, <2>1, <2>3, <3>1, StartTypes, SameIsHeld
    <3>2. CASE i = j
      BY <1>0, <2>1, <2>3, <3>2, StartTypes DEF Held, Known
    <3> QED BY <3>1, <3>2
  <2> QED BY <1>4, <2>2, <2>3 DEF Grant
<1>5. ASSUME NEW i \in Invocations, ToolChangesFile(i) PROVE Held(j)' /\ Known(j)'
  <2>1. /\ pc[i] = "running" /\ pc' = [pc EXCEPT ![i] = "changed"]
        /\ UNCHANGED <<goalOf, call, verdict, ledger>>
    BY <1>5 DEF ToolChangesFile, gateway
  <2>2. CASE i # j
    BY <1>0, <2>1, <2>2, SameIsHeld DEF GatewayTypes
  <2>3. CASE i = j
    BY <1>0, <2>1, <2>3 DEF GatewayTypes, Held, Known, InFlight
  <2> QED BY <2>2, <2>3
<1>6. ASSUME NEW i \in Invocations, NEW ok \in BOOLEAN, ToolReturns(i, ok)
      PROVE  Held(j)' /\ Known(j)'
  <2>1. Finish(i) /\ goalOf' = goalOf
    BY <1>6 DEF ToolReturns
  <2>2. CASE i = j
    BY <1>0, <2>1, <2>2, FinishTypes, DoneIsHeld
  <2>3. CASE i # j
    <3>1. pc'[j] = pc[j] /\ call'[j] = call[j] /\ verdict'[j] = verdict[j]
      BY <1>0, <2>1, <2>3, FinishTypes
    <3> DEFINE old == ledger[goalOf[j]]
               new == ledger'[goalOf[j]]
    <3>2. old \in Seq({"internal", "sensitive"}) /\ goalOf[j] \in Goals /\ verdict[j] \in Verdict
      BY <1>0 DEF GatewayTypes
    <3>3. new = old \/ new = Append(old, call[i].reads)
      BY <1>0, <1>6 DEF ToolReturns, GatewayTypes
    <3>4. Len(old) <= Len(new) /\ \A n \in 1 .. Len(old) : new[n] = old[n]
      BY <3>2, <3>3
    <3>5. Len(old) \in Nat /\ Len(new) \in Nat /\ verdict[j].version \in Nat
      BY <3>2, <3>3 DEF Verdict
    <3>6. Known(j)'
      BY <1>0, <3>1 DEF Known, InFlight
    <3>7. ASSUME pc[j] = "waiting", call[j].egress
          PROVE  /\ verdict[j].version <= Len(new)
                 /\ ~verdict[j].broken =>
                      \A n \in 1 .. verdict[j].version : new[n] # "sensitive"
      <4>1. verdict[j].version <= Len(old)
        BY <1>0, <3>7 DEF Held
      <4>2. ~verdict[j].broken => \A n \in 1 .. verdict[j].version : old[n] # "sensitive"
        BY <1>0, <3>7 DEF Held
      <4>3. \A n \in 1 .. verdict[j].version : n \in 1 .. Len(old) /\ new[n] = old[n]
        <5> HIDE DEF old, new
        <5> QED BY <3>2, <3>4, <3>5, <4>1
      <4>4. verdict[j].version <= Len(new)
        <5> HIDE DEF old, new
        <5> QED BY <3>2, <3>4, <3>5, <4>1
      <4> HIDE DEF old, new
      <4> QED BY <4>2, <4>3, <4>4
    <3>8. pc[j] = "waiting" => call[j] \in Call
      BY <1>0 DEF Held
    <3> QED BY <2>1, <3>1, <3>6, <3>7, <3>8 DEF Held
  <2> QED BY <2>2, <2>3
<1>7. ASSUME NEW g \in Goals, NEW bad \in SUBSET Applied(g), Rollback(g, bad)
      PROVE  Held(j)' /\ Known(j)'
  BY <1>0, <1>7, SameIsHeld DEF Rollback, gateway, calls
<1>8. ASSUME NEW g \in Goals, NewRun(g) PROVE Held(j)' /\ Known(j)'
  <2>1. UNCHANGED <<goalOf, pc, call, verdict>>
    BY <1>8 DEF NewRun, calls
  <2>2. CASE goalOf[j] = g
    <3>1. pc[j] \in {"new", "done"}
      BY <1>0, <1>8, <2>2 DEF NewRun, InFlight, GatewayTypes
    <3> QED BY <2>1, <3>1, DoneIsHeld
  <2>3. CASE goalOf[j] # g
    <3>1. ledger'[goalOf[j]] = ledger[goalOf[j]]
      BY <1>0, <1>8, <2>3 DEF NewRun, GatewayTypes
    <3> QED BY <1>0, <2>1, <3>1, SameIsHeld
  <2> QED BY <2>2, <2>3
<1>9. CASE Crash
  BY <1>9, DoneIsHeld DEF Crash
<1>10. CASE UNCHANGED vars
  BY <1>0, <1>10, SameIsHeld DEF vars, gateway, calls
<1>11. ASSUME NEW i \in Invocations, ToolThrows(i) PROVE Held(j)' /\ Known(j)'
  BY <1>1, <1>11 DEF ToolThrows, gateway
<1>12. ASSUME NEW i \in Invocations, Refuse(i) PROVE Held(j)' /\ Known(j)'
  BY <1>1, <1>12 DEF Refuse, gateway
<1>13. ASSUME NEW i \in Invocations, NEW c \in CallsOf[goalOf[i]], Forbid(i, c)
       PROVE  Held(j)' /\ Known(j)'
  BY <1>1, <1>13 DEF Forbid, gateway
<1> QED
  BY <1>2, <1>3, <1>4, <1>5, <1>6, <1>7, <1>8, <1>9, <1>10, <1>11, <1>12, <1>13 DEF Next

LEMMA GateStepInv == GateInv /\ [Next]_vars => GateInv'
  BY GateTypeStep, BackedStep, HeldStep DEF GateInv

-------------------------------------------------------------------------------
(* The second invariant, step by step: types and answers. *)

\* Any set of places has a first one.
LEMMA FirstPlace ==
    ASSUME NEW places \in SUBSET Nat, places # {}
    PROVE  Earliest(places) \in places /\ \A m \in places : Earliest(places) <= m
<1> DEFINE R == OpToRel(<, Nat)
<1>1. IsWellFoundedOn(R, Nat)
  BY NatLessThanWellFounded
<1>2. \A x, y \in Nat : y < x => <<y, x>> \in R
  BY DEF OpToRel
<1> HIDE DEF R
<1>3. PICK x \in places : \A y \in places : ~(<<y, x>> \in R)
  BY <1>1, WFMin
<1>4. \A y \in places : ~(y < x)
  BY <1>2, <1>3
<1>5. \A y \in places : x <= y
  BY <1>4
<1> QED BY <1>5 DEF Earliest

\* A later place does not change which one is first.
LEMMA FirstStays ==
    ASSUME NEW places \in SUBSET Nat, places # {}, NEW n \in Nat, \A m \in places : m < n
    PROVE  Earliest(places \cup {n}) = Earliest(places)
<1> DEFINE more == places \cup {n}
<1>1. more \in SUBSET Nat /\ more # {}
  OBVIOUS
<1>2. Earliest(places) \in places /\ \A m \in places : Earliest(places) <= m
  BY FirstPlace
<1>3. Earliest(more) \in more /\ \A m \in more : Earliest(more) <= m
  <2> HIDE DEF more
  <2> QED BY <1>1, FirstPlace
<1>4. Earliest(more) <= Earliest(places) /\ Earliest(places) < n
  BY <1>2, <1>3
<1> DEFINE old == Earliest(places)
           new == Earliest(more)
<1>5. old \in Nat /\ new \in Nat /\ new <= old /\ old < n
  BY <1>1, <1>2, <1>3, <1>4
<1>6. new # n
  <2> HIDE DEF old, new
  <2> QED BY <1>5
<1>7. new \in places
  BY <1>3, <1>6
<1>8. old <= new
  BY <1>2, <1>7
<1>9. old = new
  <2> HIDE DEF old, new
  <2> QED BY <1>5, <1>8
<1> QED BY <1>9

LEMMA StandsArePlaces ==
    ASSUME journal \in Seq(Record), NEW f
    PROVE  /\ DOMAIN journal = 1 .. Len(journal) /\ Len(journal) \in Nat
           /\ Stands(f) \in SUBSET Nat /\ Stands(f) \subseteq DOMAIN journal
<1>1. DOMAIN journal = 1 .. Len(journal) /\ Len(journal) \in Nat
  BY LenProperties
<1> QED BY <1>1 DEF Stands

LEMMA EffectInit == Init => EffectInv
<1> SUFFICES ASSUME Init PROVE EffectInv
  OBVIOUS
<1>1. EffectTypes
  <2>1. journal \in Seq(Record)
    BY EmptySeq DEF Init
  <2> QED BY <2>1 DEF Init, EffectTypes, Content
<1>2. WaitingIsAllowed /\ AnswersKept
  BY DEF Init, WaitingIsAllowed, AnswersKept
<1>3. \A f \in Files : Writing(f) = {} /\ Stands(f) = {} /\ ~Failed(f)
  BY DEF Init, Writing, InFlight, Stands, Failed
<1>4. WritersTouch /\ OneWriter /\ SnapshotsTaken
  BY <1>3 DEF Init, WritersTouch, OneWriter, SnapshotsTaken
<1>5. FilesUndoable
  BY <1>3 DEF Init, FilesUndoable, LeadsTo
<1> QED BY <1>1, <1>2, <1>4, <1>5 DEF EffectInv

LEMMA FinishSnapshot ==
    ASSUME EffectTypes, NEW i \in Invocations, Finish(i)
    PROVE  /\ before' \in [Invocations -> Content \cup {None}]
           /\ \A j \in Invocations \ {i} : before'[j] = before[j]
  BY DEF EffectTypes, Finish

LEMMA StartSnapshot ==
    ASSUME EffectTypes, goalOf \in [Invocations -> Goals], NEW i \in Invocations,
           NEW c \in Call, StartTool(i, c)
    PROVE  /\ before' \in [Invocations -> Content \cup {None}]
           /\ touched' \in [Files -> SUBSET Goals]
           /\ \A j \in Invocations \ {i} : before'[j] = before[j]
<1>1. c.file \in Files \/ c.file = NoFile
  BY DEF Call
<1>2. CASE c.file = NoFile
  BY <1>2 DEF EffectTypes, StartTool
<1>3. CASE c.file \in Files /\ c.file # NoFile
  <2>1. files[c.file] \in Content /\ goalOf[i] \in Goals
    BY <1>3 DEF EffectTypes
  <2>2. /\ before' = [before EXCEPT ![i] = files[c.file]]
        /\ touched' = [touched EXCEPT ![c.file] = @ \cup {goalOf[i]}]
    BY <1>3 DEF StartTool
  <2> QED BY <1>3, <2>1, <2>2 DEF EffectTypes
<1> QED BY <1>1, <1>2, <1>3

\* The record of a call that returns.
LEMMA RecordMade ==
    ASSUME GateInv, EffectInv, NEW i \in Invocations, InFlight(i), call[i].file # NoFile
    PROVE  /\ call[i].file \in Files /\ i \in Writing(call[i].file)
           /\ [goal |-> goalOf[i], file |-> call[i].file,
               before |-> before[i], status |-> "applied"] \in Record
<1>1. call[i] \in Call /\ goalOf[i] \in Goals
  BY DEF GateInv, RunningIsCall, Known, GatewayTypes
<1>2. call[i].file \in Files
  BY <1>1 DEF Call
<1>3. i \in Writing(call[i].file)
  BY DEF Writing
<1>4. before[i] \in Content
  BY <1>2, <1>3 DEF EffectInv, SnapshotsTaken
<1> QED BY <1>1, <1>2, <1>3, <1>4 DEF Record

LEMMA EffectTypesStep == GateInv /\ EffectInv /\ [Next]_vars => EffectTypes'
<1> SUFFICES ASSUME GateInv, EffectInv, [Next]_vars PROVE EffectTypes'
  OBVIOUS
<1>0. EffectTypes /\ GatewayTypes
  BY DEF EffectInv, GateInv
<1>1. ASSUME NEW i \in Invocations, Finish(i),
             UNCHANGED <<files, journal, store, taint, touched>>
      PROVE  EffectTypes'
  BY <1>0, <1>1, FinishSnapshot DEF EffectTypes
<1>2. CASE UNCHANGED <<files, journal, store, taint, touched, before>>
  BY <1>0, <1>2 DEF EffectTypes
<1>3. ASSUME NEW i \in Invocations, NEW c \in CallsOf[goalOf[i]], Run(i, c)
      PROVE  EffectTypes'
  <2>1. c \in Call
    BY <1>0, CallKnown DEF GatewayTypes
  <2> QED BY <1>0, <1>3, <2>1, StartSnapshot DEF Run, gateway, EffectTypes, GatewayTypes
<1>4. ASSUME NEW i \in Invocations, NEW scope \in {"once", "session", "workspace"},
             Grant(i, scope)
      PROVE  EffectTypes'
  <2>1. call[i] \in Call /\ goalOf[i] \in Goals
    BY <1>0, <1>4 DEF Grant, GateInv, VerdictHolds, Held, GatewayTypes
  <2>2. store' \subseteq Approval
    <3> DEFINE new == [key |-> call[i].key, scope |-> scope, owner |-> session[goalOf[i]]]
    <3>1. call[i].key \in STRING /\ session[goalOf[i]] \in Sessions \cup {NoSession}
      BY <1>0, <2>1 DEF Call, GatewayTypes
    <3>2. scope # "once" => new \in Approval
      BY <3>1 DEF Approval
    <3>3. store' = store \/ (scope # "once" /\ store' = store \cup {new})
      BY <1>4 DEF Grant, Remember
    <3> QED BY <1>0, <3>2, <3>3 DEF EffectTypes
  <2>3. CASE Finish(i) /\ UNCHANGED <<touched, mixed>>
    BY <1>0, <1>4, <2>2, <2>3, FinishSnapshot DEF Grant, EffectTypes
  <2>4. CASE StartTool(i, call[i])
    BY <1>0, <1>4, <2>1, <2>2, <2>4, StartSnapshot DEF Grant, EffectTypes, GatewayTypes
  <2> QED BY <1>4, <2>3, <2>4 DEF Grant
<1>5. ASSUME NEW i \in Invocations, ToolChangesFile(i) PROVE EffectTypes'
  BY <1>0, <1>5 DEF ToolChangesFile, gateway, history, EffectTypes, Content
<1>6. ASSUME NEW i \in Invocations, NEW ok \in BOOLEAN, ToolReturns(i, ok) PROVE EffectTypes'
  <2>1. Finish(i) /\ InFlight(i) /\ UNCHANGED <<files, store, touched>> /\ goalOf[i] \in Goals
    BY <1>0, <1>6 DEF ToolReturns, history, GatewayTypes
  <2>2. journal' \in Seq(Record)
    <3> DEFINE new == [goal |-> goalOf[i], file |-> call[i].file,
                       before |-> before[i], status |-> "applied"]
    <3>1. CASE call[i].file = NoFile
      BY <1>0, <1>6, <3>1 DEF ToolReturns, Journal, EffectTypes
    <3>2. CASE call[i].file # NoFile
      <4>1. new \in Record /\ journal' = Append(journal, new)
        BY <1>6, <2>1, <3>2, RecordMade DEF ToolReturns, Journal
      <4> HIDE DEF new
      <4> QED BY <1>0, <4>1, AppendProperties DEF EffectTypes
    <3> QED BY <3>1, <3>2
  <2>3. taint' \in [Goals -> SUBSET Files]
    <3>1. call[i].file # NoFile => call[i].file \in Files
      BY <2>1, RecordMade
    <3> QED BY <1>0, <1>6, <2>1, <3>1 DEF ToolReturns, EffectTypes
  <2> QED BY <1>0, <2>1, <2>2, <2>3, FinishSnapshot DEF EffectTypes
<1>7. ASSUME NEW g \in Goals, NEW bad \in SUBSET Applied(g), Rollback(g, bad) PROVE EffectTypes'
  <2>1. UNCHANGED <<store, taint, before, touched>>
    BY <1>7 DEF Rollback, gateway, calls
  <2>2. \A n \in DOMAIN journal : journal[n] \in Record
    BY <1>0, ElementOfSeq, LenProperties DEF EffectTypes
  <2>3. journal' \in Seq(Record)
    <3> DEFINE new(n) == IF n \in Applied(g)
                         THEN [journal[n] EXCEPT !.status =
                                  IF n \in bad THEN "rollback-failed" ELSE "rolled-back"]
                         ELSE journal[n]
    <3>1. \A n \in DOMAIN journal : new(n) \in Record
      BY <2>2 DEF Record
    <3>2. DOMAIN journal = 1 .. Len(journal) /\ Len(journal) \in Nat
      BY <1>0, LenProperties DEF EffectTypes
    <3>3. journal' = [n \in 1 .. Len(journal) |-> new(n)]
      BY <1>7, <3>2 DEF Rollback
    <3>4. \A n \in 1 .. Len(journal) : new(n) \in Record
      BY <3>1, <3>2
    <3> HIDE DEF new
    <3> QED BY <3>2, <3>3, <3>4
  <2>4. files' \in [Files -> Content]
    <3> SUFFICES ASSUME NEW f \in Files PROVE Restored(f, Applied(g) \ bad) \in Content
      BY <1>7 DEF Rollback
    <3> DEFINE of == {n \in Applied(g) \ bad : journal[n].file = f}
    <3>1. CASE of = {}
      BY <1>0, <3>1 DEF Restored, EffectTypes
    <3>2. CASE of # {}
      <4>1. of \in SUBSET Nat /\ of \subseteq DOMAIN journal
        BY <1>0, LenProperties DEF EffectTypes, Applied
      <4>2. Earliest(of) \in DOMAIN journal
        <5> HIDE DEF of
        <5> QED BY <3>2, <4>1, FirstPlace
      <4>3. Restored(f, Applied(g) \ bad) = journal[Earliest(of)].before
        BY <3>2 DEF Restored, Earliest
      <4> QED BY <2>2, <4>2, <4>3 DEF Record
    <3> QED BY <3>1, <3>2
  <2> QED BY <1>0, <2>1, <2>3, <2>4 DEF EffectTypes
<1>8. ASSUME NEW g \in Goals, NewRun(g) PROVE EffectTypes'
  BY <1>0, <1>8 DEF NewRun, calls, EffectTypes
<1>9. CASE Crash
  BY <1>0, <1>9 DEF Crash, EffectTypes
<1> QED
  BY <1>1, <1>2, <1>3, <1>4, <1>5, <1>6, <1>7, <1>8, <1>9
  DEF Next, vars, Forbid, Ask, Refuse, ToolThrows, gateway, calls, history

LEMMA WaitingStep == GateInv /\ EffectInv /\ [Next]_vars => WaitingIsAllowed'
<1> SUFFICES ASSUME GateInv, EffectInv, [Next]_vars, NEW j \in Invocations, pc'[j] = "waiting"
             PROVE  call'[j] \in CallsOf[goalOf'[j]]
  BY DEF WaitingIsAllowed
<1>0. GatewayTypes /\ (pc[j] = "waiting" => call[j] \in CallsOf[goalOf[j]])
  BY DEF EffectInv, GateInv, WaitingIsAllowed
<1>1. ASSUME NEW i \in Invocations, Finish(i), goalOf' = goalOf
      PROVE  call'[j] \in CallsOf[goalOf'[j]]
  BY <1>0, <1>1, FinishTypes
<1>2. CASE UNCHANGED <<goalOf, pc, call>>
  BY <1>0, <1>2
<1>3. ASSUME NEW i \in Invocations, NEW c \in CallsOf[goalOf[i]], Ask(i, c)
      PROVE  call'[j] \in CallsOf[goalOf'[j]]
  <2>1. c \in Call
    BY <1>0, CallKnown DEF GatewayTypes
  <2>2. goalOf' = goalOf /\ pc' = [pc EXCEPT ![i] = "waiting"] /\ Adjudicated(i, c)
    BY <1>3 DEF Ask
  <2> QED BY <1>0, <2>1, <2>2, AdjudicatedTypes DEF GatewayTypes
<1>4. ASSUME NEW i \in Invocations, NEW c \in CallsOf[goalOf[i]], Run(i, c)
      PROVE  call'[j] \in CallsOf[goalOf'[j]]
  <2>1. c \in Call
    BY <1>0, CallKnown DEF GatewayTypes
  <2>2. goalOf' = goalOf /\ StartTool(i, c) /\ Adjudicated(i, c)
    BY <1>4 DEF Run
  <2>3. j # i /\ pc'[j] = pc[j] /\ call'[j] = call[j]
    BY <1>0, <2>1, <2>2, AdjudicatedTypes, StartTypes
  <2> QED BY <1>0, <2>2, <2>3
<1>5. ASSUME NEW i \in Invocations, NEW scope \in {"once", "session", "workspace"},
             Grant(i, scope)
      PROVE  call'[j] \in CallsOf[goalOf'[j]]
  <2>1. CASE Finish(i)
    BY <1>1, <1>5, <2>1 DEF Grant
  <2>2. CASE StartTool(i, call[i]) /\ UNCHANGED <<call, verdict>>
    <3>1. j # i /\ pc'[j] = pc[j]
      BY <1>0, <2>2, StartTypes
    <3> QED BY <1>0, <1>5, <2>2, <3>1 DEF Grant
  <2> QED BY <1>5, <2>1, <2>2 DEF Grant
<1>6. ASSUME NEW i \in Invocations, ToolChangesFile(i) PROVE call'[j] \in CallsOf[goalOf'[j]]
  BY <1>0, <1>6 DEF ToolChangesFile, GatewayTypes
<1>7. ~Crash
  BY DEF Crash
<1> QED
  BY <1>1, <1>2, <1>3, <1>4, <1>5, <1>6, <1>7
  DEF Next, vars, Forbid, Refuse, ToolReturns, ToolThrows, Rollback, NewRun, calls

\* A grant that is not for one call only enters what the gateway or the process remembers.
LEMMA GrantKept ==
    ASSUME GateInv, EffectInv, NEW i \in Invocations,
           NEW scope \in {"once", "session", "workspace"}, Grant(i, scope)
    PROVE  AnswersKept'
<1> DEFINE g == goalOf[i]
           answer == [to |-> i, goal |-> g, session |-> session[g],
                      key |-> call[i].key, scope |-> scope]
           made == [key |-> call[i].key, scope |-> scope, owner |-> session[g]]
<1>1. /\ answers' = answers \cup {answer} /\ Remember(g, call[i], scope)
      /\ call[i] \in CallsOf[g] /\ g \in Goals /\ local \in [Goals -> SUBSET STRING]
      /\ AnswersKept
  BY DEF Grant, EffectInv, WaitingIsAllowed, GateInv, GatewayTypes
<1>2. /\ answer.goal = g /\ answer.key = call[i].key /\ answer.scope = scope
      /\ answer.session = session[g]
  OBVIOUS
<1>3. store \subseteq store' /\ \A h \in Goals : local[h] \subseteq local'[h]
  BY <1>1 DEF Remember
<1>4. ASSUME NEW a \in answers PROVE Kept(a)'
  <2>1. Kept(a)
    BY <1>1 DEF AnswersKept
  <2> QED BY <1>3, <2>1 DEF Kept
<1>5. ASSUME NEW a, a = answer PROVE Kept(a)'
  <2>1. a.goal \in Goals /\ a.key = call[i].key /\ a.scope = scope /\ a.session = session[g]
    BY <1>1, <1>2, <1>5
  <2>2. ASSUME ~Dangerous(a.key), scope # "once"
        PROVE  IF scope = "session" /\ session[g] = NoSession THEN call[i].key \in local'[g]
               ELSE made \in store'
    <3>1. ~call[i].always
      BY <1>1, <2>1, <2>2 DEF Dangerous
    <3> QED BY <1>1, <2>2, <3>1 DEF Remember
  <2>3. made.key = call[i].key /\ made.scope = scope /\ made.owner = session[g]
    OBVIOUS
  <2>4. ~Dangerous(a.key) /\ scope = "workspace" =>
           \E s \in store' : s.key = a.key /\ s.scope = "workspace"
    BY <2>1, <2>2, <2>3
  <2>5. ~Dangerous(a.key) /\ scope = "session" =>
           IF a.session = NoSession THEN a.key \in local'[a.goal]
           ELSE \E s \in store' : s.key = a.key /\ s.owner = a.session
    <3>1. a.goal = g
      BY <1>2, <1>5
    <3> HIDE DEF answer, made
    <3> QED BY <2>1, <2>2, <2>3, <3>1
  <2> HIDE DEF answer, made
  <2> QED BY <2>1, <2>4, <2>5 DEF Kept
<1> HIDE DEF answer
<1> QED BY <1>1, <1>4, <1>5 DEF AnswersKept

LEMMA AnswersKeptStep == GateInv /\ EffectInv /\ [Next]_vars => AnswersKept'
<1> SUFFICES ASSUME GateInv, EffectInv, [Next]_vars PROVE AnswersKept'
  OBVIOUS
<1>0. AnswersKept
  BY DEF EffectInv
<1>1. CASE UNCHANGED <<store, local, answers>>
  BY <1>0, <1>1 DEF AnswersKept, Kept
<1>2. ASSUME NEW i \in Invocations, NEW scope \in {"once", "session", "workspace"},
             Grant(i, scope)
      PROVE  AnswersKept'
  BY <1>2, GrantKept
<1>3. ASSUME NEW g \in Goals, NewRun(g) PROVE AnswersKept'
  <2> SUFFICES ASSUME NEW a \in answers' PROVE Kept(a)'
    BY DEF AnswersKept
  <2>1. /\ a \in answers /\ store' = store /\ local' = [local EXCEPT ![g] = {}]
        /\ ~(a.goal = g /\ a.session = NoSession /\ a.scope = "session")
    BY <1>3 DEF NewRun
  <2>2. Kept(a) /\ local \in [Goals -> SUBSET STRING]
    BY <1>0, <2>1 DEF AnswersKept, GateInv, GatewayTypes
  <2> QED BY <2>1, <2>2 DEF Kept
<1>4. CASE Crash
  BY <1>4 DEF Crash, AnswersKept
<1> QED
  BY <1>1, <1>2, <1>3, <1>4
  DEF Next, vars, Forbid, Ask, Run, Refuse, ToolChangesFile, ToolThrows, ToolReturns, Rollback,
      gateway, history

-------------------------------------------------------------------------------
(* The second invariant, step by step: the files. *)

FilesInv == WritersTouch /\ OneWriter /\ SnapshotsTaken /\ FilesUndoable

\* Steps of calls that write nothing, and whose files, journal and history stay.
LEMMA QuietFiles ==
    ASSUME EffectInv, UNCHANGED <<files, journal, touched, mixed, lost, goalOf>>,
           \A j \in Invocations : InFlight(j) <=> InFlight(j)',
           \A j \in Invocations : InFlight(j) =>
               pc'[j] = pc[j] /\ call'[j] = call[j] /\ before'[j] = before[j]
    PROVE  FilesInv'
<1>1. /\ WritersTouch /\ OneWriter /\ SnapshotsTaken /\ FilesUndoable
  BY DEF EffectInv
<1>2. \A f : Writing(f)' = Writing(f) /\ \A j \in Writing(f) : InFlight(j) /\ j \in Invocations
  BY DEF Writing
<1>3. \A f : Stands(f)' = Stands(f) /\ (Failed(f)' <=> Failed(f))
  BY DEF Stands, Failed
<1>4. WritersTouch' /\ OneWriter' /\ SnapshotsTaken'
  BY <1>1, <1>2 DEF WritersTouch, OneWriter, SnapshotsTaken
<1>5. FilesUndoable'
  BY <1>1, <1>2, <1>3 DEF FilesUndoable, LeadsTo
<1> QED BY <1>4, <1>5 DEF FilesInv

\* A tool starts: it is alone with its file, or the file is mixed.
LEMMA StartFiles ==
    ASSUME GateInv, EffectInv, NEW i \in Invocations, NEW c \in Call, ~InFlight(i),
           StartTool(i, c), call'[i] = c, \A j \in Invocations \ {i} : call'[j] = call[j],
           UNCHANGED <<files, journal, lost, goalOf>>
    PROVE  FilesInv'
<1>0. GatewayTypes /\ EffectTypes /\ WritersTouch /\ OneWriter /\ SnapshotsTaken /\ FilesUndoable
  BY DEF EffectInv, GateInv
<1>1. /\ pc'[i] = "running" /\ \A j \in Invocations \ {i} : pc'[j] = pc[j] /\ before'[j] = before[j]
      /\ touched' \in [Files -> SUBSET Goals] /\ goalOf[i] \in Goals
  BY <1>0, StartTypes, StartSnapshot DEF GatewayTypes
<1>2. \A f \in Files : Writing(f)' = IF f = c.file THEN Writing(f) \cup {i} ELSE Writing(f)
  BY <1>1 DEF Writing, InFlight
<1>3. \A f : i \notin Writing(f) /\ Writing(f) \subseteq Invocations
  BY DEF Writing
<1>4. \A f : Stands(f)' = Stands(f) /\ (Failed(f)' <=> Failed(f))
  BY DEF Stands, Failed
<1>5. CASE c.file = NoFile
  <2>1. UNCHANGED <<before, touched, mixed>> /\ \A f \in Files : Writing(f)' = Writing(f)
    BY <1>2, <1>5, NobodyAssumption DEF StartTool
  <2>2. WritersTouch' /\ OneWriter' /\ SnapshotsTaken'
    BY <1>0, <2>1 DEF WritersTouch, OneWriter, SnapshotsTaken
  <2>3. FilesUndoable'
    BY <1>0, <1>1, <1>3, <1>4, <2>1 DEF FilesUndoable, LeadsTo
  <2> QED BY <2>2, <2>3 DEF FilesInv
<1>6. CASE c.file # NoFile
  <2> DEFINE f0 == c.file
             shared == \/ touched[f0] \ {goalOf[i]} # {}
                       \/ \E j \in Invocations \ {i} : InFlight(j) /\ call[j].file = f0
  <2>1. /\ f0 \in Files
        /\ before'[i] = files[f0]
        /\ touched' = [touched EXCEPT ![f0] = @ \cup {goalOf[i]}]
        /\ mixed' = IF shared THEN mixed \cup {f0} ELSE mixed
        /\ files[f0] \in Content
    <3>1. f0 \in Files
      BY <1>6 DEF Call
    <3>2. before' = [before EXCEPT ![i] = files[f0]]
      BY <1>6 DEF StartTool
    <3> QED BY <1>0, <1>6, <3>1, <3>2 DEF StartTool, EffectTypes
  <2>2. \A f \in Files : touched'[f] = IF f = f0 THEN touched[f] \cup {goalOf[i]} ELSE touched[f]
    BY <1>0, <2>1 DEF EffectTypes
  <2>3. mixed \subseteq mixed'
    BY <2>1
  <2>4. f0 \notin mixed' => touched[f0] \subseteq {goalOf[i]} /\ Writing(f0) = {} /\ f0 \notin mixed
    BY <1>3, <2>1 DEF Writing
  <2>5. WritersTouch'
    <3> SUFFICES ASSUME NEW f \in Files
                 PROVE  /\ \A j \in Writing(f)' : goalOf[j] \in touched'[f]
                        /\ \A n \in DOMAIN journal :
                             journal[n].file = f => journal[n].goal \in touched'[f]
      BY DEF WritersTouch
    <3>1. /\ \A j \in Writing(f) : goalOf[j] \in touched[f]
          /\ \A n \in DOMAIN journal :
               journal[n].file = f => journal[n].goal \in touched[f]
          /\ touched[f] \subseteq touched'[f]
      BY <1>0, <2>2 DEF WritersTouch
    <3>2. \A j \in Writing(f)' : j \in Writing(f) \/ (j = i /\ f = f0)
      BY <1>2
    <3>3. f = f0 => goalOf[i] \in touched'[f]
      BY <2>2
    <3> HIDE DEF f0, shared
    <3> QED BY <3>1, <3>2, <3>3
  <2>6. OneWriter'
    <3> SUFFICES ASSUME NEW f \in Files \ mixed'
                 PROVE  /\ \A g, h \in touched'[f] : g = h
                        /\ \A j, k \in Writing(f)' : j = k
      BY DEF OneWriter
    <3>1. CASE f = f0
      <4>1. touched'[f] = touched[f] \cup {goalOf[i]} /\ Writing(f)' = Writing(f) \cup {i}
        BY <1>2, <2>2, <3>1
      <4>2. touched[f] \subseteq {goalOf[i]} /\ Writing(f) = {}
        BY <2>4, <3>1
      <4> HIDE DEF f0, shared
      <4> QED BY <4>1, <4>2
    <3>2. CASE f # f0
      <4>1. touched'[f] = touched[f] /\ Writing(f)' = Writing(f) /\ f \notin mixed
        BY <1>2, <2>2, <2>3, <3>2
      <4> HIDE DEF f0, shared
      <4> QED BY <1>0, <4>1 DEF OneWriter
    <3> QED BY <3>1, <3>2
  <2>7. SnapshotsTaken'
    BY <1>0, <1>1, <1>2, <1>3, <2>1 DEF SnapshotsTaken
  <2>8. FilesUndoable'
    <3> SUFFICES ASSUME NEW f \in Files \ (mixed' \cup lost), ~Failed(f)
                 PROVE  /\ \A j \in Writing(f)' :
                              /\ LeadsTo(f, before[j])' = Original
                              /\ pc'[j] = "running" => files[f] = before'[j]
                        /\ Writing(f)' = {} => LeadsTo(f, files[f])' = Original
      BY <1>4 DEF FilesUndoable
    <3>1. CASE f = f0
      <4>1. Writing(f)' = {i} /\ Writing(f) = {} /\ f \notin mixed
        BY <1>2, <2>4, <3>1
      <4>2. LeadsTo(f, files[f]) = Original
        BY <1>0, <4>1 DEF FilesUndoable
      <4>3. LeadsTo(f, before[i])' = LeadsTo(f, files[f])
        BY <1>4, <2>1, <3>1 DEF LeadsTo
      <4> QED BY <2>1, <3>1, <4>1, <4>2, <4>3
    <3>2. CASE f # f0
      <4>1. Writing(f)' = Writing(f) /\ f \notin mixed
        BY <1>2, <2>3, <3>2
      <4>2. \A j \in Writing(f) : j \in Invocations \ {i}
        BY <1>3
      <4> QED BY <1>0, <1>1, <1>4, <4>1, <4>2 DEF FilesUndoable, LeadsTo
    <3> QED BY <3>1, <3>2
  <2> QED BY <2>5, <2>6, <2>7, <2>8 DEF FilesInv
<1> QED BY <1>5, <1>6

\* The tool changes its file: what the snapshot leads back to is not touched.
LEMMA ChangeFiles ==
    ASSUME GateInv, EffectInv, NEW i \in Invocations, ToolChangesFile(i)
    PROVE  FilesInv'
<1>0. GatewayTypes /\ EffectTypes /\ WritersTouch /\ OneWriter /\ SnapshotsTaken /\ FilesUndoable
  BY DEF EffectInv, GateInv
<1>1. /\ pc[i] = "running" /\ pc' = [pc EXCEPT ![i] = "changed"]
      /\ files' = [files EXCEPT ![call[i].file] = i]
      /\ UNCHANGED <<goalOf, journal, call, before, touched, mixed, lost>>
  BY DEF ToolChangesFile, history
<1>2. \A f : Writing(f)' = Writing(f) /\ Writing(f) \subseteq Invocations
  BY <1>0, <1>1 DEF Writing, InFlight, GatewayTypes
<1>3. \A f : Stands(f)' = Stands(f) /\ (Failed(f)' <=> Failed(f))
  BY <1>1 DEF Stands, Failed
<1>4. WritersTouch' /\ OneWriter' /\ SnapshotsTaken'
  BY <1>0, <1>1, <1>2 DEF WritersTouch, OneWriter, SnapshotsTaken
<1>5. FilesUndoable'
  <2> SUFFICES ASSUME NEW f \in Files \ (mixed \cup lost), ~Failed(f)
               PROVE  /\ \A j \in Writing(f) :
                            /\ LeadsTo(f, before[j])' = Original
                            /\ pc'[j] = "running" => files'[f] = before[j]
                      /\ Writing(f) = {} => LeadsTo(f, files[f])' = Original
    BY <1>1, <1>2, <1>3 DEF FilesUndoable
  <2>1. \A j \in Writing(f) : LeadsTo(f, before[j])' = Original
    BY <1>0, <1>1, <1>3 DEF FilesUndoable, LeadsTo
  <2>2. CASE f = call[i].file
    <3>1. i \in Writing(f) /\ pc'[i] = "changed"
      BY <1>0, <1>1, <2>2 DEF Writing, InFlight, GatewayTypes
    <3>2. \A j \in Writing(f) : j = i
      BY <1>0, <3>1 DEF OneWriter
    <3> QED BY <2>1, <3>1, <3>2
  <2>3. CASE f # call[i].file
    <3>1. files'[f] = files[f] /\ i \notin Writing(f)
      BY <1>0, <1>1, <2>3 DEF EffectTypes, Writing
    <3>2. \A j \in Writing(f) : pc'[j] = pc[j]
      BY <1>0, <1>1, <1>2, <3>1 DEF GatewayTypes
    <3>3. Writing(f) = {} => LeadsTo(f, files[f])' = Original
      BY <1>0, <1>1, <1>3, <3>1 DEF FilesUndoable, LeadsTo
    <3> QED BY <1>0, <2>1, <3>1, <3>2, <3>3 DEF FilesUndoable
  <2> QED BY <2>2, <2>3
<1> QED BY <1>4, <1>5 DEF FilesInv

\* A call that ends writes no more, and the other calls go on.
LEMMA FinishFiles ==
    ASSUME GatewayTypes, EffectTypes, NEW i \in Invocations, Finish(i)
    PROVE  /\ \A f : Writing(f)' = Writing(f) \ {i}
           /\ \A f : \A j \in Writing(f)' : pc'[j] = pc[j] /\ before'[j] = before[j]
<1>1. /\ pc'[i] = "done"
      /\ \A j \in Invocations \ {i} :
            pc'[j] = pc[j] /\ call'[j] = call[j] /\ before'[j] = before[j]
  BY FinishTypes, FinishSnapshot
<1>2. \A f : Writing(f)' = Writing(f) \ {i}
  BY <1>1 DEF Writing, InFlight
<1>3. \A f : \A j \in Writing(f) \ {i} : pc'[j] = pc[j] /\ before'[j] = before[j]
  BY <1>1 DEF Writing
<1> QED BY <1>2, <1>3

\* The tool throws: its file is lost, or is as the snapshot has it.
LEMMA ThrowFiles ==
    ASSUME GateInv, EffectInv, NEW i \in Invocations, ToolThrows(i)
    PROVE  FilesInv'
<1>0. GatewayTypes /\ EffectTypes /\ WritersTouch /\ OneWriter /\ SnapshotsTaken /\ FilesUndoable
  BY DEF EffectInv, GateInv
<1>1. /\ InFlight(i) /\ Finish(i) /\ UNCHANGED <<goalOf, files, journal, touched, mixed>>
      /\ lost' = IF pc[i] = "changed" THEN lost \cup {call[i].file} ELSE lost
  BY DEF ToolThrows
<1>2. /\ \A f : Writing(f)' = Writing(f) \ {i}
      /\ \A f : \A j \in Writing(f)' : pc'[j] = pc[j] /\ before'[j] = before[j]
  BY <1>0, <1>1, FinishFiles
<1>3. \A f : Stands(f)' = Stands(f) /\ (Failed(f)' <=> Failed(f))
  BY <1>1 DEF Stands, Failed
<1>4. WritersTouch' /\ OneWriter' /\ SnapshotsTaken'
  BY <1>0, <1>1, <1>2 DEF WritersTouch, OneWriter, SnapshotsTaken
<1>5. FilesUndoable'
  <2> SUFFICES ASSUME NEW f \in Files \ (mixed \cup lost'), ~Failed(f)
               PROVE  /\ \A j \in Writing(f)' :
                            /\ LeadsTo(f, before[j])' = Original
                            /\ pc'[j] = "running" => files[f] = before'[j]
                      /\ Writing(f)' = {} => LeadsTo(f, files[f])' = Original
    BY <1>1, <1>3 DEF FilesUndoable
  <2>1. f \notin mixed \cup lost
    BY <1>1
  <2>2. CASE i \in Writing(f)
    <3>1. Writing(f) = {i}
      BY <1>0, <2>1, <2>2 DEF OneWriter
    <3>2. pc[i] = "running"
      BY <1>1, <2>2 DEF InFlight, Writing
    <3>3. LeadsTo(f, files[f]) = Original
      BY <1>0, <2>1, <2>2, <3>2 DEF FilesUndoable
    <3>4. LeadsTo(f, files[f])' = LeadsTo(f, files[f])
      BY <1>1, <1>3 DEF LeadsTo
    <3> QED BY <1>2, <3>1, <3>3, <3>4
  <2>3. CASE i \notin Writing(f)
    <3>1. Writing(f)' = Writing(f)
      BY <1>2, <2>3
    <3>2. \A j \in Writing(f) : LeadsTo(f, before[j])' = LeadsTo(f, before[j])
      BY <1>1, <1>2, <1>3, <3>1 DEF LeadsTo
    <3>3. LeadsTo(f, files[f])' = LeadsTo(f, files[f])
      BY <1>1, <1>3 DEF LeadsTo
    <3> QED BY <1>0, <1>2, <2>1, <3>1, <3>2, <3>3 DEF FilesUndoable
  <2> QED BY <2>2, <2>3
<1> QED BY <1>4, <1>5 DEF FilesInv

\* The process dies: every call that had changed its file leaves it lost.
LEMMA CrashFiles ==
    ASSUME GateInv, EffectInv, Crash
    PROVE  FilesInv'
<1>0. GatewayTypes /\ EffectTypes /\ WritersTouch /\ OneWriter /\ SnapshotsTaken /\ FilesUndoable
  BY DEF EffectInv, GateInv
<1>1. /\ pc' = [i \in Invocations |-> IF pc[i] = "new" THEN "new" ELSE "done"]
      /\ lost' = lost \cup {call[i].file : i \in {j \in Invocations : pc[j] = "changed"}}
      /\ UNCHANGED <<goalOf, files, journal, touched, mixed>>
  BY DEF Crash
<1>2. \A f : Writing(f)' = {}
  BY <1>1 DEF Writing, InFlight
<1>3. \A f : Stands(f)' = Stands(f) /\ (Failed(f)' <=> Failed(f))
  BY <1>1 DEF Stands, Failed
<1>4. WritersTouch' /\ OneWriter' /\ SnapshotsTaken'
  BY <1>0, <1>1, <1>2 DEF WritersTouch, OneWriter, SnapshotsTaken
<1>5. FilesUndoable'
  <2> SUFFICES ASSUME NEW f \in Files \ (mixed \cup lost'), ~Failed(f)
               PROVE  LeadsTo(f, files[f])' = Original
    BY <1>1, <1>2, <1>3 DEF FilesUndoable
  <2>1. f \notin mixed \cup lost /\ \A j \in Writing(f) : pc[j] = "running"
    BY <1>1 DEF Writing, InFlight
  <2>2. LeadsTo(f, files[f]) = Original
    BY <1>0, <2>1 DEF FilesUndoable
  <2> QED BY <1>1, <1>3, <2>2 DEF LeadsTo
<1> QED BY <1>4, <1>5 DEF FilesInv

\* The tool returns: the record is appended, with the snapshot, and it stands.
LEMMA RecordAppended ==
    ASSUME journal \in Seq(Record), NEW r \in Record, journal' = Append(journal, r),
           r.status = "applied"
    PROVE  /\ DOMAIN journal' = DOMAIN journal \cup {Len(journal) + 1}
           /\ \A n \in DOMAIN journal : journal'[n] = journal[n] /\ n < Len(journal) + 1
           /\ journal'[Len(journal) + 1] = r
           /\ \A f : Failed(f)' <=> Failed(f)
           /\ \A f : f # r.file => Stands(f)' = Stands(f)
           /\ Stands(r.file)' = Stands(r.file) \cup {Len(journal) + 1}
<1> DEFINE last == Len(journal) + 1
<1>1. DOMAIN journal = 1 .. Len(journal) /\ Len(journal) \in Nat
  BY LenProperties
<1>2. /\ Len(journal') = last /\ journal' \in Seq(Record)
      /\ \A n \in 1 .. Len(journal) : journal'[n] = journal[n]
      /\ journal'[last] = r
  BY AppendProperties
<1>3. DOMAIN journal' = 1 .. last
  BY <1>2, LenProperties
<1>4. DOMAIN journal' = DOMAIN journal \cup {last}
  BY <1>1, <1>3
<1>5. \A n \in DOMAIN journal : journal'[n] = journal[n] /\ n < last
  BY <1>1, <1>2
<1> HIDE DEF last
<1>6. \A f : Failed(f)' <=> Failed(f)
  BY <1>2, <1>4, <1>5 DEF Failed
<1>7. \A f : f # r.file => Stands(f)' = Stands(f)
  BY <1>2, <1>4, <1>5 DEF Stands
<1>8. Stands(r.file)' = Stands(r.file) \cup {last}
  BY <1>2, <1>4, <1>5 DEF Stands
<1> QED BY <1>2, <1>4, <1>5, <1>6, <1>7, <1>8 DEF last

LEMMA ReturnFiles ==
    ASSUME GateInv, EffectInv, NEW i \in Invocations, NEW ok \in BOOLEAN, ToolReturns(i, ok)
    PROVE  FilesInv'
<1>0. GatewayTypes /\ EffectTypes /\ WritersTouch /\ OneWriter /\ SnapshotsTaken /\ FilesUndoable
  BY DEF EffectInv, GateInv
<1>1. /\ InFlight(i) /\ Finish(i) /\ journal' = Journal(i)
      /\ UNCHANGED <<goalOf, files, touched, mixed, lost>>
  BY DEF ToolReturns, history
<1>2. /\ \A f : Writing(f)' = Writing(f) \ {i}
      /\ \A f : \A j \in Writing(f)' : pc'[j] = pc[j] /\ before'[j] = before[j]
  BY <1>0, <1>1, FinishFiles
<1>3. OneWriter' /\ SnapshotsTaken'
  BY <1>0, <1>1, <1>2 DEF OneWriter, SnapshotsTaken
<1>4. CASE call[i].file = NoFile
  <2>1. journal' = journal
    BY <1>1, <1>4 DEF Journal
  <2>2. \A f \in Files : Writing(f)' = Writing(f)
    BY <1>2, <1>4, NobodyAssumption DEF Writing
  <2>3. \A f : Stands(f)' = Stands(f) /\ (Failed(f)' <=> Failed(f))
    BY <2>1 DEF Stands, Failed
  <2>4. WritersTouch'
    BY <1>0, <1>1, <2>1, <2>2 DEF WritersTouch
  <2>5. FilesUndoable'
    BY <1>0, <1>1, <1>2, <2>1, <2>2, <2>3 DEF FilesUndoable, LeadsTo
  <2> QED BY <1>3, <2>4, <2>5 DEF FilesInv
<1>5. CASE call[i].file # NoFile
  <2> DEFINE r == [goal |-> goalOf[i], file |-> call[i].file,
                   before |-> before[i], status |-> "applied"]
             last == Len(journal) + 1
  <2>1. PICK f0 \in Files : f0 = call[i].file /\ i \in Writing(f0)
    BY <1>1, <1>5, RecordMade
  <2>2. /\ r \in Record /\ journal' = Append(journal, r)
        /\ r.status = "applied" /\ r.file = f0 /\ r.before = before[i] /\ r.goal = goalOf[i]
    BY <1>1, <1>5, <2>1, RecordMade DEF Journal
  <2> HIDE DEF r
  <2>3. /\ DOMAIN journal' = DOMAIN journal \cup {last}
        /\ \A n \in DOMAIN journal : journal'[n] = journal[n] /\ n < last
        /\ journal'[last] = r
        /\ \A f : Failed(f)' <=> Failed(f)
        /\ \A f : f # f0 => Stands(f)' = Stands(f)
        /\ Stands(f0)' = Stands(f0) \cup {last}
    BY <1>0, <2>2, RecordAppended DEF EffectTypes
  <2>4. /\ \A f : Stands(f) \subseteq DOMAIN journal /\ Stands(f) \in SUBSET Nat
        /\ last \in Nat
    BY <1>0, StandsArePlaces DEF EffectTypes
  <2> HIDE DEF last
  <2>5. WritersTouch'
    <3> SUFFICES ASSUME NEW f \in Files
                 PROVE  /\ \A j \in Writing(f)' : goalOf[j] \in touched[f]
                        /\ \A n \in DOMAIN journal' :
                             journal'[n].file = f => journal'[n].goal \in touched[f]
      BY <1>1 DEF WritersTouch
    <3>1. /\ \A j \in Writing(f) : goalOf[j] \in touched[f]
          /\ \A n \in DOMAIN journal :
               journal[n].file = f => journal[n].goal \in touched[f]
      BY <1>0 DEF WritersTouch
    <3>2. f = f0 => goalOf[i] \in touched[f]
      BY <2>1, <3>1
    <3> QED BY <1>2, <2>2, <2>3, <3>1, <3>2
  <2>6. FilesUndoable'
    <3> SUFFICES ASSUME NEW f \in Files \ (mixed \cup lost), ~Failed(f)
                 PROVE  /\ \A j \in Writing(f)' :
                              /\ LeadsTo(f, before[j])' = Original
                              /\ pc'[j] = "running" => files[f] = before'[j]
                        /\ Writing(f)' = {} => LeadsTo(f, files[f])' = Original
      BY <1>1, <2>3 DEF FilesUndoable
    <3>1. CASE f = f0
      <4>1. Writing(f)' = {}
        BY <1>0, <1>2, <2>1, <3>1 DEF OneWriter
      <4>2. LeadsTo(f, before[i]) = Original
        BY <1>0, <2>1, <3>1 DEF FilesUndoable
      <4>3. Stands(f)' = Stands(f) \cup {last} /\ Stands(f)' # {}
        BY <2>3, <3>1
      <4>4. CASE Stands(f) = {}
        <5>1. Earliest(Stands(f)') = last
          BY <2>4, <4>3, <4>4, FirstPlace
        <5> QED BY <2>2, <2>3, <4>1, <4>2, <4>3, <4>4, <5>1 DEF LeadsTo
      <4>5. CASE Stands(f) # {}
        <5>1. Earliest(Stands(f)') = Earliest(Stands(f))
          BY <2>3, <2>4, <4>3, <4>5, FirstStays
        <5>2. Earliest(Stands(f)) \in DOMAIN journal
          BY <2>4, <4>5, FirstPlace
        <5> QED BY <2>3, <4>1, <4>2, <4>3, <4>5, <5>1, <5>2 DEF LeadsTo
      <4> QED BY <4>4, <4>5
    <3>2. CASE f # f0
      <4>1. Writing(f)' = Writing(f) /\ Stands(f)' = Stands(f)
        BY <1>2, <2>1, <2>3, <3>2 DEF Writing
      <4>2. Stands(f) # {} => journal'[Earliest(Stands(f))] = journal[Earliest(Stands(f))]
        <5>1. Stands(f) # {} => Earliest(Stands(f)) \in DOMAIN journal
          BY <2>4, FirstPlace
        <5> QED BY <2>3, <5>1
      <4>3. \A j \in Writing(f) : LeadsTo(f, before[j])' = LeadsTo(f, before[j])
        BY <1>2, <4>1, <4>2 DEF LeadsTo
      <4>4. LeadsTo(f, files[f])' = LeadsTo(f, files[f])
        BY <1>1, <4>1, <4>2 DEF LeadsTo
      <4> QED BY <1>0, <1>2, <4>1, <4>3, <4>4 DEF FilesUndoable
    <3> QED BY <3>1, <3>2
  <2> QED BY <1>3, <2>5, <2>6 DEF FilesInv
<1> QED BY <1>4, <1>5

\* A rollback: on a file of one Goal that nobody writes, every record that stands is undone,
\* and the first of them has the last word.
LEMMA RollbackFiles ==
    ASSUME GateInv, EffectInv, NEW g \in Goals, NEW bad \in SUBSET Applied(g), Rollback(g, bad)
    PROVE  FilesInv'
<1>0. GatewayTypes /\ EffectTypes /\ WritersTouch /\ OneWriter /\ SnapshotsTaken /\ FilesUndoable
  BY DEF EffectInv, GateInv
<1> DEFINE status(n) == IF n \in Applied(g)
                        THEN IF n \in bad THEN "rollback-failed" ELSE "rolled-back"
                        ELSE journal[n].status
<1>1. /\ UNCHANGED <<goalOf, pc, call, before, touched, lost>>
      /\ \A f \in Files : files'[f] = Restored(f, Applied(g) \ bad)
      /\ mixed' = mixed \cup {f \in Files :
            /\ \E n \in Applied(g) : journal[n].file = f
            /\ \E i \in Invocations : InFlight(i) /\ call[i].file = f}
  BY DEF Rollback, calls
<1>2. /\ DOMAIN journal' = DOMAIN journal
      /\ \A n \in DOMAIN journal :
            /\ journal'[n].goal = journal[n].goal /\ journal'[n].file = journal[n].file
            /\ journal'[n].before = journal[n].before
            /\ journal'[n].status = status(n)
  <2>1. \A n \in DOMAIN journal : journal[n] \in Record
    BY <1>0, ElementOfSeq, LenProperties DEF EffectTypes
  <2>2. journal' = [n \in DOMAIN journal |->
            IF n \in Applied(g)
               THEN [journal[n] EXCEPT !.status =
                        IF n \in bad THEN "rollback-failed" ELSE "rolled-back"]
               ELSE journal[n]]
    BY DEF Rollback
  <2>3. DOMAIN journal' = DOMAIN journal
    BY <2>2
  <2>4. ASSUME NEW n \in DOMAIN journal
        PROVE  /\ journal'[n].goal = journal[n].goal /\ journal'[n].file = journal[n].file
               /\ journal'[n].before = journal[n].before
               /\ journal'[n].status = status(n)
    BY <2>1, <2>2, <2>4 DEF Record
  <2> QED BY <2>3, <2>4
<1>3. \A f : Writing(f)' = Writing(f)
  BY <1>1 DEF Writing, InFlight
<1>4. mixed \subseteq mixed'
  BY <1>1
<1>5. WritersTouch' /\ OneWriter' /\ SnapshotsTaken'
  BY <1>0, <1>1, <1>2, <1>3, <1>4 DEF WritersTouch, OneWriter, SnapshotsTaken
<1>6. FilesUndoable'
  <2> SUFFICES ASSUME NEW f \in Files \ (mixed' \cup lost), ~Failed(f)'
               PROVE  /\ \A j \in Writing(f) :
                            /\ LeadsTo(f, before[j])' = Original
                            /\ pc[j] = "running" => files'[f] = before[j]
                      /\ Writing(f) = {} => LeadsTo(f, files[f])' = Original
    BY <1>1, <1>3 DEF FilesUndoable
  <2> DEFINE of == {n \in Applied(g) \ bad : journal[n].file = f}
  <2>1. f \notin mixed \cup lost
    BY <1>4
  <2>2. \A n \in Applied(g) : n \in DOMAIN journal /\ journal[n].status = "applied"
                              /\ journal[n].goal = g
    BY DEF Applied
  <2>3. ~Failed(f)
    BY <1>2, <2>2 DEF Failed
  <2>4. \A n \in bad : journal[n].file # f
    BY <1>2, <2>2 DEF Failed
  <2>5. files'[f] = IF of = {} THEN files[f] ELSE journal[Earliest(of)].before
    BY <1>1 DEF Restored, Earliest
  <2>6. CASE \E n \in Applied(g) : journal[n].file = f
    <3>1. Writing(f) = {}
      BY <1>1, <2>6 DEF Writing
    <3>2. \A n \in Stands(f) : journal[n].goal = g
      BY <1>0, <2>1, <2>2, <2>6 DEF WritersTouch, OneWriter, Stands
    <3>3. of = Stands(f)
      BY <2>2, <2>4, <3>2 DEF Applied, Stands
    <3>4. Stands(f) # {}
      BY <2>2, <2>6 DEF Stands
    <3>5. files'[f] = Original
      <4>1. LeadsTo(f, files[f]) = Original
        BY <1>0, <2>1, <2>3, <3>1 DEF FilesUndoable
      <4> QED BY <2>5, <3>3, <3>4, <4>1 DEF LeadsTo
    <3>6. Stands(f)' = {}
      <4> SUFFICES ASSUME NEW n \in DOMAIN journal, journal[n].file = f, status(n) = "applied"
                   PROVE  FALSE
        BY <1>2 DEF Stands
      <4>1. n \notin Applied(g) /\ journal[n].status = "applied"
        OBVIOUS
      <4> QED BY <3>2, <4>1 DEF Stands, Applied
    <3> QED BY <3>1, <3>5, <3>6 DEF LeadsTo
  <2>7. CASE ~\E n \in Applied(g) : journal[n].file = f
    <3>1. files'[f] = files[f]
      BY <2>5, <2>7
    <3>2. Stands(f)' = Stands(f)
      BY <1>2, <2>2, <2>7 DEF Stands
    <3>3. Stands(f) # {} =>
            journal'[Earliest(Stands(f))].before = journal[Earliest(Stands(f))].before
      <4>1. Stands(f) # {} => Earliest(Stands(f)) \in DOMAIN journal
        BY <1>0, StandsArePlaces, FirstPlace DEF EffectTypes
      <4> QED BY <1>2, <4>1
    <3>4. /\ \A j \in Writing(f) : LeadsTo(f, before[j])' = LeadsTo(f, before[j])
          /\ LeadsTo(f, files[f])' = LeadsTo(f, files[f])
      BY <1>1, <3>1, <3>2, <3>3 DEF LeadsTo
    <3> QED BY <1>0, <2>1, <2>3, <3>1, <3>4 DEF FilesUndoable
  <2> QED BY <2>6, <2>7
<1> QED BY <1>5, <1>6 DEF FilesInv

LEMMA FilesStep == GateInv /\ EffectInv /\ [Next]_vars => FilesInv'
<1> SUFFICES ASSUME GateInv, EffectInv, [Next]_vars PROVE FilesInv'
  OBVIOUS
<1>0. GatewayTypes /\ EffectTypes
  BY DEF EffectInv, GateInv
<1>1. ASSUME NEW i \in Invocations, ~InFlight(i), Finish(i),
             UNCHANGED <<files, journal, touched, mixed, lost, goalOf>>
      PROVE  FilesInv'
  <2>1. ASSUME NEW j \in Invocations
        PROVE  /\ InFlight(j) <=> InFlight(j)'
               /\ InFlight(j) => pc'[j] = pc[j] /\ call'[j] = call[j] /\ before'[j] = before[j]
    BY <1>0, <1>1, FinishTypes, FinishSnapshot DEF InFlight
  <2> QED BY <1>1, <2>1, QuietFiles
<1>2. ASSUME NEW i \in Invocations, NEW c \in CallsOf[goalOf[i]], Forbid(i, c) PROVE FilesInv'
  BY <1>1, <1>2 DEF Forbid, Fresh, InFlight, history
<1>3. ASSUME NEW i \in Invocations, Refuse(i) PROVE FilesInv'
  BY <1>1, <1>3 DEF Refuse, InFlight, history
<1>4. ASSUME NEW i \in Invocations, NEW c \in CallsOf[goalOf[i]], Ask(i, c) PROVE FilesInv'
  <2>1. c \in Call
    BY <1>0, CallKnown DEF GatewayTypes
  <2>2. /\ pc[i] = "new" /\ pc' = [pc EXCEPT ![i] = "waiting"] /\ Adjudicated(i, c)
        /\ UNCHANGED <<files, journal, touched, mixed, lost, goalOf, before>>
    BY <1>4 DEF Ask, Fresh, history
  <2>3. ASSUME NEW j \in Invocations
        PROVE  /\ InFlight(j) <=> InFlight(j)'
               /\ InFlight(j) => pc'[j] = pc[j] /\ call'[j] = call[j] /\ before'[j] = before[j]
    BY <1>0, <2>1, <2>2, AdjudicatedTypes DEF InFlight, GatewayTypes
  <2> QED BY <2>2, <2>3, QuietFiles
<1>5. ASSUME NEW i \in Invocations, NEW c \in CallsOf[goalOf[i]], Run(i, c) PROVE FilesInv'
  <2>1. c \in Call
    BY <1>0, CallKnown DEF GatewayTypes
  <2>2. /\ ~InFlight(i) /\ Adjudicated(i, c) /\ StartTool(i, c)
        /\ UNCHANGED <<files, journal, lost, goalOf>>
    BY <1>5 DEF Run, Fresh, InFlight
  <2>3. call'[i] = c /\ \A j \in Invocations \ {i} : call'[j] = call[j]
    BY <1>0, <2>1, <2>2, AdjudicatedTypes
  <2> QED BY <2>1, <2>2, <2>3, StartFiles
<1>6. ASSUME NEW i \in Invocations, NEW scope \in {"once", "session", "workspace"},
             Grant(i, scope)
      PROVE  FilesInv'
  <2>1. /\ ~InFlight(i) /\ call[i] \in Call
        /\ UNCHANGED <<files, journal, lost, goalOf>>
    BY <1>6 DEF Grant, InFlight, GateInv, VerdictHolds, Held
  <2>2. CASE Finish(i) /\ UNCHANGED <<touched, mixed>>
    BY <1>1, <2>1, <2>2
  <2>3. CASE StartTool(i, call[i]) /\ UNCHANGED <<call, verdict>>
    <3>1. call'[i] = call[i] /\ \A j \in Invocations \ {i} : call'[j] = call[j]
      BY <2>3
    <3>2. PICK c \in Call : c = call[i]
      BY <2>1
    <3>3. StartTool(i, c)
      BY <2>3, <3>2
    <3> QED BY <2>1, <3>1, <3>2, <3>3, StartFiles
  <2> QED BY <1>6, <2>2, <2>3 DEF Grant
<1>7. CASE UNCHANGED <<files, journal, touched, mixed, lost, goalOf, pc, call, before>>
  BY <1>7, QuietFiles DEF InFlight
<1> QED
  BY <1>2, <1>3, <1>4, <1>5, <1>6, <1>7, ChangeFiles, ReturnFiles, ThrowFiles, RollbackFiles,
     CrashFiles
  DEF Next, vars, NewRun, calls, history

LEMMA EffectStep == GateInv /\ EffectInv /\ [Next]_vars => EffectInv'
  BY EffectTypesStep, WaitingStep, AnswersKeptStep, FilesStep DEF EffectInv, FilesInv

THEOREM EffectInvariant == Spec => [](GateInv /\ EffectInv)
<1>1. Init => GateInv /\ EffectInv
  BY GateInitInv, EffectInit
<1>2. GateInv /\ EffectInv /\ [Next]_vars => (GateInv /\ EffectInv)'
  BY GateStepInv, EffectStep
<1> QED BY <1>1, <1>2, PTL DEF Spec

-------------------------------------------------------------------------------
(* What starts a call, and what makes one wait. *)

LEMMA OnlyTheseStart ==
    ASSUME GateInv, [Next]_vars, NEW i \in Invocations, Starts(i)
    PROVE  \/ \E c \in CallsOf[goalOf[i]] : Run(i, c)
           \/ \E scope \in {"once", "session", "workspace"} :
                Grant(i, scope) /\ ~Blocked(i) /\ UNCHANGED <<call, verdict>>
<1>0. GatewayTypes
  BY DEF GateInv
<1>1. ~InFlight(i) /\ pc'[i] \in {"running", "changed"} /\ pc[i] \notin {"running", "changed"}
  BY DEF Starts, InFlight
<1>2. ASSUME NEW k \in Invocations, NEW c \in CallsOf[goalOf[k]], Forbid(k, c) PROVE FALSE
  BY <1>0, <1>1, <1>2, FinishTypes DEF Forbid
<1>3. ASSUME NEW k \in Invocations, NEW c \in CallsOf[goalOf[k]], Ask(k, c) PROVE FALSE
  BY <1>0, <1>1, <1>3 DEF Ask, GatewayTypes
<1>4. ASSUME NEW k \in Invocations, NEW c \in CallsOf[goalOf[k]], Run(k, c) PROVE k = i
  BY <1>0, <1>1, <1>4, StartTypes DEF Run
<1>5. ASSUME NEW k \in Invocations, NEW scope \in {"once", "session", "workspace"},
             Grant(k, scope)
      PROVE  k = i /\ ~Blocked(k) /\ UNCHANGED <<call, verdict>>
  <2>1. ~Finish(k)
    BY <1>0, <1>1, FinishTypes
  <2>2. StartTool(k, call[k]) /\ UNCHANGED <<call, verdict>> /\ ~Blocked(k)
    BY <1>5, <2>1 DEF Grant
  <2> QED BY <1>0, <1>1, <2>2, StartTypes
<1>6. ASSUME NEW k \in Invocations, Refuse(k) PROVE FALSE
  BY <1>0, <1>1, <1>6, FinishTypes DEF Refuse
<1>7. ASSUME NEW k \in Invocations, ToolChangesFile(k) PROVE FALSE
  BY <1>0, <1>1, <1>7 DEF ToolChangesFile, GatewayTypes
<1>8. ASSUME NEW k \in Invocations, ToolThrows(k) PROVE FALSE
  BY <1>0, <1>1, <1>8, FinishTypes DEF ToolThrows
<1>9. ASSUME NEW k \in Invocations, NEW ok \in BOOLEAN, ToolReturns(k, ok) PROVE FALSE
  BY <1>0, <1>1, <1>9, FinishTypes DEF ToolReturns
<1>10. ASSUME NEW g \in Goals, NEW bad \in SUBSET Applied(g), Rollback(g, bad) PROVE FALSE
  BY <1>1, <1>10 DEF Rollback, calls
<1>11. ASSUME NEW g \in Goals, NewRun(g) PROVE FALSE
  BY <1>1, <1>11 DEF NewRun, calls
<1>12. ASSUME Crash PROVE FALSE
  BY <1>1, <1>12 DEF Crash
<1>13. ASSUME UNCHANGED vars PROVE FALSE
  BY <1>1, <1>13 DEF vars, calls
<1> QED
  BY <1>2, <1>3, <1>4, <1>5, <1>6, <1>7, <1>8, <1>9, <1>10, <1>11, <1>12, <1>13 DEF Next

LEMMA OnlyAskWaits ==
    ASSUME GateInv, [Next]_vars, NEW i \in Invocations, pc[i] = "new", pc'[i] = "waiting"
    PROVE  \E c \in CallsOf[goalOf[i]] : Ask(i, c)
<1>0. GatewayTypes
  BY DEF GateInv
<1>1. ASSUME NEW k \in Invocations, Finish(k) PROVE FALSE
  BY <1>0, <1>1, FinishTypes
<1>2. ASSUME NEW k \in Invocations, NEW c, StartTool(k, c) PROVE FALSE
  BY <1>0, <1>2, StartTypes
<1>3. ASSUME NEW k \in Invocations, NEW c \in CallsOf[goalOf[k]], Ask(k, c) PROVE k = i
  BY <1>0, <1>3 DEF Ask, GatewayTypes
<1>4. ASSUME NEW k \in Invocations, ToolChangesFile(k) PROVE FALSE
  BY <1>0, <1>4 DEF ToolChangesFile, GatewayTypes
<1>5. pc' # pc /\ ~Crash
  BY DEF Crash
<1> QED
  BY <1>1, <1>2, <1>3, <1>4, <1>5
  DEF Next, vars, Forbid, Run, Grant, Refuse, ToolReturns, ToolThrows, Rollback, NewRun, calls

\* The grant a call is started with covers it.
LEMMA GrantLicenses ==
    ASSUME NEW i \in Invocations, NEW scope, Grant(i, scope), call' = call
    PROVE  Licensed(i)'
<1> DEFINE answer == [to |-> i, goal |-> goalOf[i], session |-> session[goalOf[i]],
                      key |-> call[i].key, scope |-> scope]
<1>1. answer \in answers' /\ answer.key = call[i].key /\ answer.to = i
  BY DEF Grant
<1> QED BY <1>1 DEF Licensed, Covers

\* What is remembered covers it.
LEMMA MemoryLicenses ==
    ASSUME GateInv, NEW i \in Invocations, NEW c \in Call, Run(i, c),
           Remembered(goalOf[i], c.key), ~c.always
    PROVE  Licensed(i)'
<1>0. GatewayTypes /\ StoreBacked /\ LocalBacked
  BY DEF GateInv
<1>1. UNCHANGED <<goalOf, session, answers>> /\ Adjudicated(i, c)
  BY DEF Run, gateway
<1>2. call'[i] = c
  BY <1>0, <1>1, AdjudicatedTypes
<1>3. CASE c.key \in local[goalOf[i]]
  <2>1. PICK n \in answers :
          n.key = c.key /\ n.scope = "session" /\ n.session = NoSession /\ n.goal = goalOf[i]
    BY <1>0, <1>3 DEF LocalBacked, GatewayTypes
  <2> QED BY <1>1, <1>2, <2>1 DEF Licensed, Covers
<1>4. ASSUME NEW a \in store, a.key = c.key, a.scope = "workspace" \/ a.owner = session[goalOf[i]]
      PROVE  Licensed(i)'
  <2>1. PICK n \in answers :
          /\ n.key = a.key /\ n.scope = a.scope /\ n.session = a.owner
          /\ a.scope = "workspace" \/ (a.scope = "session" /\ a.owner # NoSession)
    BY <1>0 DEF StoreBacked
  <2> QED BY <1>1, <1>2, <1>4, <2>1 DEF Licensed, Covers
<1> QED BY <1>3, <1>4 DEF Remembered

-------------------------------------------------------------------------------
(* The theorems. *)

\* Nothing that is gated or dangerous is started unasked: the keys the gateway and the process
\* remember are those of answers that stand and reach this run (hasApproval, settle).
THEOREM NothingStartsUnasked == Spec => AskedFirst
<1>1. GateInv /\ [Next]_vars =>
        [\A i \in Invocations :
           Starts(i) /\ (call'[i].tier = "gated" \/ call'[i].always) => Licensed(i)']_vars
  <2> SUFFICES ASSUME GateInv, [Next]_vars, NEW i \in Invocations, Starts(i),
                      call'[i].tier = "gated" \/ call'[i].always
               PROVE  Licensed(i)'
    OBVIOUS
  <2>0. GatewayTypes
    BY DEF GateInv
  <2>1. ASSUME NEW c \in CallsOf[goalOf[i]], Run(i, c) PROVE Licensed(i)'
    <3>1. c \in Call
      BY <2>0, CallKnown DEF GatewayTypes
    <3>2. call'[i] = c
      BY <2>0, <2>1, <3>1, AdjudicatedTypes DEF Run
    <3>3. ~c.always /\ Remembered(goalOf[i], c.key)
      BY <2>1, <3>2 DEF Run, Asked, NeedsApproval
    <3> QED BY <2>1, <3>1, <3>3, MemoryLicenses
  <2> QED BY <2>1, OnlyTheseStart, GrantLicenses
<1> QED BY <1>1, GateInitInv, GateStepInv, PTL DEF Spec, AskedFirst

\* Nothing is sent out of a run that has read something sensitive unless somebody who knew of
\* the read said yes (the second look at the ledger, INV-B).
THEOREM EgressIsAsked == Spec => EgressAsked
<1>1. GateInv /\ [Next]_vars =>
        [\A i \in Invocations :
           Starts(i) /\ call'[i].egress /\ Broken(goalOf[i]) =>
              Licensed(i)' /\ (pc[i] = "waiting" => verdict[i].broken)]_vars
  <2> SUFFICES ASSUME GateInv, [Next]_vars, NEW i \in Invocations, Starts(i),
                      call'[i].egress, Broken(goalOf[i])
               PROVE  Licensed(i)' /\ (pc[i] = "waiting" => verdict[i].broken)
    OBVIOUS
  <2>0. GatewayTypes /\ Held(i)
    BY DEF GateInv, VerdictHolds
  <2>1. ASSUME NEW c \in CallsOf[goalOf[i]], Run(i, c)
        PROVE  Licensed(i)' /\ pc[i] # "waiting"
    <3>1. c \in Call
      BY <2>0, CallKnown DEF GatewayTypes
    <3>2. call'[i] = c
      BY <2>0, <2>1, <3>1, AdjudicatedTypes DEF Run
    <3>3. ~c.always /\ Remembered(goalOf[i], c.key)
      BY <2>1, <3>2 DEF Run, Asked, NeedsApproval
    <3>4. pc[i] = "new"
      BY <2>1 DEF Run, Fresh
    <3> QED BY <2>1, <3>1, <3>3, <3>4, MemoryLicenses
  <2>2. ASSUME NEW scope \in {"once", "session", "workspace"}, Grant(i, scope), ~Blocked(i),
               UNCHANGED <<call, verdict>>
        PROVE  Licensed(i)' /\ verdict[i].broken
    <3>1. Licensed(i)'
      BY <2>2, GrantLicenses
    <3>2. pc[i] = "waiting" /\ call[i].egress
      BY <2>2 DEF Grant
    <3>3. ledger[goalOf[i]] \in Seq({"internal", "sensitive"}) /\ verdict[i] \in Verdict
      BY <2>0 DEF GatewayTypes
    <3>4. ASSUME ~verdict[i].broken PROVE FALSE
      <4>1. ~(verdict[i].version < Len(ledger[goalOf[i]]))
        BY <2>2, <3>2, <3>4 DEF Blocked
      <4>2. verdict[i].version <= Len(ledger[goalOf[i]])
        BY <2>0, <3>2 DEF Held
      <4>3. verdict[i].version = Len(ledger[goalOf[i]])
        BY <3>3, <4>1, <4>2 DEF Verdict
      <4>4. \A n \in 1 .. verdict[i].version : ledger[goalOf[i]][n] # "sensitive"
        BY <2>0, <3>2, <3>4 DEF Held
      <4> QED BY <3>3, <4>3, <4>4 DEF Broken, Sensitive
    <3> QED BY <3>1, <3>4
  <2> QED BY <2>1, <2>2, OnlyTheseStart
<1> QED BY <1>1, GateInitInv, GateStepInv, PTL DEF Spec, EgressAsked

\* The shape of the state, for any calls and any crashes.
THEOREM GatewayShape == Spec => []TypeOK
<1>1. GateInv /\ EffectInv => TypeOK
  BY DEF GateInv, EffectInv, GatewayTypes, EffectTypes, TypeOK
<1> QED BY <1>1, EffectInvariant, PTL

\* What the journal still holds of a file that nobody writes leads back to the original, for any
\* calls, failures and rollbacks; left out are files that two calls or two Goals changed at once,
\* that were changed and not journalled, and that could not be restored (executeEffectful,
\* rollbackEffects).
THEOREM JournalLeadsBack == Spec => []JournalUndoes
<1>1. ASSUME GateInv, EffectInv PROVE JournalUndoes
  <2> SUFFICES ASSUME NEW f \in Files \ (mixed \cup lost),
                      ~\E i \in Invocations : InFlight(i) /\ call[i].file = f, ~Failed(f)
               PROVE  Undone(f) = Original
    BY DEF JournalUndoes, Failed
  <2>1. Writing(f) = {}
    BY DEF Writing
  <2>2. LeadsTo(f, files[f]) = Original
    BY <1>1, <2>1 DEF EffectInv, FilesUndoable
  <2>3. Undone(f) = LeadsTo(f, files[f])
    BY DEF Undone, LeadsTo, Stands, Earliest
  <2> QED BY <2>2, <2>3
<1> QED BY <1>1, EffectInvariant, PTL

\* Nobody is asked again for what an answer of theirs covers: a grant for the workspace, for a
\* conversation or for a run is remembered as long as it stands (settle, hasApproval).
THEOREM GrantsHold == Spec => GrantHolds
<1>1. GateInv /\ EffectInv /\ [Next]_vars =>
        [\A i \in Invocations : pc[i] = "new" /\ pc'[i] = "waiting" =>
           ~\E a \in answers : a.to # i /\ Covers(a, i)']_vars
  <2> SUFFICES ASSUME GateInv, EffectInv, [Next]_vars, NEW i \in Invocations,
                      pc[i] = "new", pc'[i] = "waiting",
                      NEW a \in answers, a.to # i, Covers(a, i)'
               PROVE  FALSE
    OBVIOUS
  <2>1. PICK c \in CallsOf[goalOf[i]] : Ask(i, c)
    BY OnlyAskWaits
  <2>2. GatewayTypes /\ goalOf[i] \in Goals /\ c \in Call
    BY <2>1, CallKnown DEF GateInv, GatewayTypes
  <2>3. call'[i] = c /\ UNCHANGED <<goalOf, session>>
    BY <2>1, <2>2, AdjudicatedTypes DEF Ask, gateway
  <2>4. /\ a.key = c.key /\ ~c.always
        /\ \/ a.scope = "workspace"
           \/ /\ a.scope = "session"
              /\ IF a.session = NoSession THEN a.goal = goalOf[i]
                                         ELSE a.session = session[goalOf[i]]
    BY <2>3 DEF Covers
  <2>5. ~Dangerous(a.key)
    BY <2>2, <2>4, KeysAssumption DEF Dangerous
  <2>6. ~Remembered(goalOf[i], c.key)
    BY <2>1, <2>4 DEF Ask, Asked
  <2>7. Kept(a)
    BY DEF EffectInv, AnswersKept
  <2> QED BY <2>4, <2>5, <2>6, <2>7 DEF Kept, Remembered
<1> QED BY <1>1, EffectInvariant, PTL DEF Spec, GrantHolds
===============================================================================
