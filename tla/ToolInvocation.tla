--------------------------- MODULE ToolInvocation ---------------------------
(***************************************************************************)
(* A tool call, from the gateway to the journal of effects: invoke of      *)
(* DefaultToolGateway (packages/core/src/authz/gateway.ts) with its        *)
(* dataflow ledger, the approvals that people give (tool-gateway/          *)
(* approval.ts) and that the process remembers, and the tool behind it,    *)
(* whose changes of files are journalled and can be rolled back            *)
(* (effects/effect-store.ts, executeEffectful of harness/runtime.ts).      *)
(*                                                                         *)
(* A run of a Goal has a gateway of its own; the approvals it remembers,   *)
(* the files and the journal are shared with every other run.  The         *)
(* executor makes one call at a time, but the gateway itself admits calls  *)
(* that overlap (its second look at the ledger is for them), and so does   *)
(* this module.                                                            *)
(***************************************************************************)
EXTENDS Naturals, Sequences, FiniteSets

CONSTANTS
    Goals,
    Sessions,       \* conversations
    SessionOf,      \* the conversation of the first run of each Goal
    CallsOf,        \* what the model of each Goal may ask for, see Call
    Files,
    Invocations,    \* bound: the calls of a behaviour, in the order they are made
    MaxCrashes      \* bound: crashes in a behaviour

CONSTANTS NoSession, NoFile, Original, None

\* A call as the policy sees it.  tier: what the stages before the approval make of
\* it; key and always: its approval target; reads: the label of what it takes in;
\* file: the file it declares to write.
Call == [key : STRING, tier : {"auto", "gated", "forbidden"}, always : BOOLEAN,
         reads : {"none", "internal", "sensitive"}, egress : BOOLEAN,
         file : Files \cup {NoFile}]

Content == {Original} \cup Invocations

ASSUME CallsAssumption == CallsOf \in [Goals -> SUBSET Call] /\ Invocations \subseteq Nat
ASSUME GoalsAssumption == SessionOf \in [Goals -> Sessions \cup {NoSession}]
ASSUME NobodyAssumption ==
    NoSession \notin Sessions /\ NoFile \notin Files /\ {Original, None} \cap Invocations = {}
\* approvalTargetOf: the key of a command that is not readonly holds all of it, and that is what
\* classifyCommand goes by; so calls of one key are dangerous together.
ASSUME KeysAssumption ==
    \A g, h \in Goals : \A c \in CallsOf[g], d \in CallsOf[h] : c.key = d.key => c.always = d.always
ASSUME BoundsAssumption == MaxCrashes \in Nat

VARIABLES
    \* kept on disk
    files,      \* content: the call that wrote it
    journal,    \* EffectRecords in the order they were appended
    \* memory of the process
    store,      \* InMemoryApprovalStore
    \* of the run of a Goal: one gateway
    session,    \* its conversation
    local,      \* sessionApprovals: keys granted in a run without a conversation
    ledger,     \* labels committed, newest last; the version is its length
    taint,      \* files written after a sensitive read: told to who is asked, not decided on
    \* of each call
    goalOf,     \* the Goal whose run makes it
    pc,
    call,       \* None before it is made and when it is done
    verdict,    \* what the ledger said when the call was adjudicated
    before,     \* the snapshot of its file
    \* history, read by the properties only
    answers,    \* the grants people gave and that still stand
    touched,    \* the Goals that have written each file
    mixed,      \* files that two calls, or two Goals, changed at once
    lost,       \* files that a tool changed and the journal does not know
    crashes

gateway == <<session, local, ledger, taint>>
calls == <<goalOf, pc, call, verdict, before>>
history == <<answers, touched, mixed, lost, crashes>>
vars == <<files, journal, store, gateway, calls, history>>

Record == [goal : Goals, file : Files, before : Content,
           status : {"applied", "rolled-back", "rollback-failed"}]
Approval == [key : STRING, scope : {"session", "workspace"}, owner : Sessions \cup {NoSession}]
Verdict == [version : Nat, broken : BOOLEAN]

NoVerdict == [version |-> 0, broken |-> FALSE]

InFlight(i) == pc[i] \in {"running", "changed"}

Init ==
    /\ files = [f \in Files |-> Original]
    /\ journal = <<>>
    /\ store = {}
    /\ session = SessionOf
    /\ local = [g \in Goals |-> {}]
    /\ ledger = [g \in Goals |-> <<>>]
    /\ taint = [g \in Goals |-> {}]
    /\ goalOf \in [Invocations -> Goals]
    /\ pc = [i \in Invocations |-> "new"]
    /\ call = [i \in Invocations |-> None]
    /\ verdict = [i \in Invocations |-> NoVerdict]
    /\ before = [i \in Invocations |-> None]
    /\ answers = {} /\ lost = {} /\ crashes = 0
    /\ touched = [f \in Files |-> {}] /\ mixed = {}

----------------------------------------------------------------------------
(* The ledger and the approvals. *)

\* hasSensitiveUnsevered
Sensitive(labels) == \E n \in DOMAIN labels : labels[n] = "sensitive"

Broken(g) == Sensitive(ledger[g])

\* Mutation: a grant for a conversation holds in every conversation.
RememberedAnywhere(g, key) == key \in local[g] \/ \E a \in store : a.key = key

\* Mutation: only the gateway of the run remembers.
RememberedInRun(g, key) == key \in local[g]

\* hasApproval
Remembered(g, key) ==
    \/ key \in local[g]
    \/ \E a \in store : a.key = key /\ (a.scope = "workspace" \/ a.owner = session[g])

NeedsApproval(g, c) == c.tier = "gated" \/ c.always \/ (c.egress /\ Broken(g))

\* approvalHit: a dangerous command is asked for each time.
Asked(g, c) == NeedsApproval(g, c) /\ (c.always \/ ~Remembered(g, c.key))

\* Mutation: a grant for one call is remembered.
RememberOnce(g, c, scope) ==
    LET alone == scope = "session" /\ session[g] = NoSession
    IN /\ local' = [local EXCEPT ![g] = IF alone THEN @ \cup {c.key} ELSE @]
       /\ store' = IF ~alone
                      THEN store \cup {[key |-> c.key, scope |-> scope, owner |-> session[g]]}
                      ELSE store

\* settle: the scope of a grant for a dangerous command is "once", whatever the
\* answer says; a run without a conversation keeps a grant for it to itself.
Remember(g, c, scope) ==
    LET kept == scope # "once" /\ ~c.always
        alone == scope = "session" /\ session[g] = NoSession
    IN /\ local' = [local EXCEPT ![g] = IF kept /\ alone THEN @ \cup {c.key} ELSE @]
       /\ store' = IF kept /\ ~alone
                      THEN store \cup {[key |-> c.key, scope |-> scope, owner |-> session[g]]}
                      ELSE store

\* Mutation: the ledger is not looked at again after the answer.
NeverBlocked(i) == FALSE

\* INV-B: a read committed after the adjudication has made the ledger sensitive.
Blocked(i) ==
    LET g == goalOf[i]
    IN /\ call[i].egress
       /\ verdict[i].version < Len(ledger[g])
       /\ Broken(g) /\ ~verdict[i].broken

----------------------------------------------------------------------------
(* invoke, up to the handler of the tool. *)

\* adjudicate, for a call that sends data out.
Adjudicated(i, c) ==
    LET g == goalOf[i]
    IN /\ call' = [call EXCEPT ![i] = c]
       /\ verdict' = [verdict EXCEPT ![i] =
            IF c.egress THEN [version |-> Len(ledger[g]), broken |-> Broken(g)] ELSE @]

\* The handler begins: executeEffectful takes the snapshot of the declared file.
StartTool(i, c) ==
    LET f == c.file
        shared == \/ touched[f] \ {goalOf[i]} # {}
                  \/ \E j \in Invocations \ {i} : InFlight(j) /\ call[j].file = f
    IN /\ pc' = [pc EXCEPT ![i] = "running"]
       /\ IF f = NoFile THEN UNCHANGED <<before, touched, mixed>>
          ELSE /\ before' = [before EXCEPT ![i] = files[f]]
               /\ touched' = [touched EXCEPT ![f] = @ \cup {goalOf[i]}]
               /\ mixed' = IF shared THEN mixed \cup {f} ELSE mixed

\* invoke returns, and what it knew of the call is gone.
Finish(i) ==
    /\ pc' = [pc EXCEPT ![i] = "done"]
    /\ call' = [call EXCEPT ![i] = None]
    /\ verdict' = [verdict EXCEPT ![i] = NoVerdict]
    /\ before' = [before EXCEPT ![i] = None]

\* The next call.
Fresh(i) == pc[i] = "new" /\ \A j \in Invocations : j < i => pc[j] # "new"

\* Stages 1 to 4 refuse the call: unknown tool, missing argument, capability not
\* granted or forbidden, out of scope, hard floor, a handle in the arguments.
Forbid(i, c) ==
    /\ Fresh(i) /\ c.tier = "forbidden"
    /\ Finish(i)
    /\ UNCHANGED <<goalOf, files, journal, store, gateway, history>>

\* The call waits for an answer: decide of the broker.
Ask(i, c) ==
    /\ Fresh(i) /\ c.tier # "forbidden"
    /\ Asked(goalOf[i], c)
    /\ Adjudicated(i, c)
    /\ pc' = [pc EXCEPT ![i] = "waiting"]
    /\ UNCHANGED <<goalOf, files, journal, store, gateway, before, history>>

\* The call needs no answer; nothing happens between the stages.
Run(i, c) ==
    /\ Fresh(i) /\ c.tier # "forbidden"
    /\ ~Asked(goalOf[i], c)
    /\ Adjudicated(i, c)
    /\ StartTool(i, c)
    /\ UNCHANGED <<goalOf, files, journal, store, gateway, answers, lost, crashes>>

\* The user grants the call: the grant is remembered, then the ledger is looked at
\* again, then the tool is started.
Grant(i, scope) ==
    LET g == goalOf[i]
    IN /\ pc[i] = "waiting"
       /\ Remember(g, call[i], scope)
       /\ answers' = answers \cup {[to |-> i, goal |-> g, session |-> session[g],
                                    key |-> call[i].key, scope |-> scope]}
       /\ IF Blocked(i)
             THEN Finish(i) /\ UNCHANGED <<touched, mixed>>
             ELSE StartTool(i, call[i]) /\ UNCHANGED <<call, verdict>>
       /\ UNCHANGED <<goalOf, files, journal, session, ledger, taint, lost, crashes>>

\* Mutation: no timer for a dangerous command.
RefuseUnlessDangerous(i) ==
    /\ pc[i] = "waiting" /\ ~call[i].always
    /\ Finish(i)
    /\ UNCHANGED <<goalOf, files, journal, store, gateway, history>>

\* The user rejects it, nobody answers in time, or the service shuts down.
Refuse(i) ==
    /\ pc[i] = "waiting"
    /\ Finish(i)
    /\ UNCHANGED <<goalOf, files, journal, store, gateway, history>>

----------------------------------------------------------------------------
(* The tool, its effect and the writeback. *)

ToolChangesFile(i) ==
    /\ pc[i] = "running" /\ call[i].file # NoFile
    /\ files' = [files EXCEPT ![call[i].file] = i]
    /\ pc' = [pc EXCEPT ![i] = "changed"]
    /\ UNCHANGED <<goalOf, journal, store, gateway, call, verdict, before, history>>

\* executeEffectful: the record is appended whatever the tool returned.
Journal(i) ==
    IF call[i].file # NoFile
       THEN Append(journal, [goal |-> goalOf[i], file |-> call[i].file,
                             before |-> before[i], status |-> "applied"])
       ELSE journal

\* The tool returns.  A result that is not ok is thrown by the handler of the
\* registration, so its read is never committed.
ToolReturns(i, ok) ==
    LET g == goalOf[i]
    IN /\ InFlight(i)
       /\ Finish(i)
       /\ journal' = Journal(i)
       /\ ledger' = IF ok /\ call[i].reads # "none"
                       THEN [ledger EXCEPT ![g] = Append(@, call[i].reads)] ELSE ledger
       /\ taint' = IF ok /\ call[i].file # NoFile /\ Sensitive(ledger'[g])
                      THEN [taint EXCEPT ![g] = @ \cup {call[i].file}] ELSE taint
       /\ UNCHANGED <<goalOf, files, store, session, local, history>>

\* The tool throws: no record, although a file may have changed.
ToolThrows(i) ==
    /\ InFlight(i)
    /\ Finish(i)
    /\ lost' = IF pc[i] = "changed" THEN lost \cup {call[i].file} ELSE lost
    /\ UNCHANGED <<goalOf, files, journal, store, gateway, answers, touched, mixed, crashes>>

----------------------------------------------------------------------------
(* Rollback, a new run, and the death of the process. *)

Applied(g) == {n \in DOMAIN journal : journal[n].goal = g /\ journal[n].status = "applied"}

\* Mutation: oldest first, as MemoryEffectStore lists records of one millisecond.
RestoredOldestFirst(f, done) ==
    LET of == {n \in done : journal[n].file = f}
    IN IF of = {} THEN files[f]
       ELSE journal[CHOOSE n \in of : \A m \in of : m <= n].before

\* Newest first: the oldest record has the last word.
Restored(f, done) ==
    LET of == {n \in done : journal[n].file = f}
    IN IF of = {} THEN files[f]
       ELSE journal[CHOOSE n \in of : \A m \in of : n <= m].before

\* rollbackEffects; a record that cannot be restored is marked and never tried again.
\* Nothing keeps it from a run of the same Goal.
Rollback(g, bad) ==
    /\ Applied(g) # {}
    /\ bad \subseteq Applied(g)
    /\ files' = [f \in Files |-> Restored(f, Applied(g) \ bad)]
    /\ journal' = [n \in DOMAIN journal |->
            IF n \in Applied(g)
               THEN [journal[n] EXCEPT !.status =
                        IF n \in bad THEN "rollback-failed" ELSE "rolled-back"]
               ELSE journal[n]]
    /\ mixed' = mixed \cup {f \in Files :
            /\ \E n \in Applied(g) : journal[n].file = f
            /\ \E i \in Invocations : InFlight(i) /\ call[i].file = f}
    /\ UNCHANGED <<store, gateway, calls, answers, touched, lost, crashes>>

\* executeGoalTree: a new gateway.  The conversation was handed to the first run,
\* which took it (pendingSessionId); a resumed run has none.
NewRun(g) ==
    /\ \A i \in Invocations : goalOf[i] = g => pc[i] # "waiting" /\ ~InFlight(i)
    /\ session' = [session EXCEPT ![g] = NoSession]
    /\ local' = [local EXCEPT ![g] = {}]
    /\ ledger' = [ledger EXCEPT ![g] = <<>>]
    /\ taint' = [taint EXCEPT ![g] = {}]
    /\ answers' = {a \in answers : ~(a.goal = g /\ a.session = NoSession /\ a.scope = "session")}
    /\ UNCHANGED <<files, journal, store, calls, touched, mixed, lost, crashes>>

Crash ==
    /\ crashes < MaxCrashes
    /\ crashes' = crashes + 1
    /\ store' = {} /\ answers' = {}
    /\ session' = [g \in Goals |-> NoSession]
    /\ local' = [g \in Goals |-> {}]
    /\ ledger' = [g \in Goals |-> <<>>]
    /\ taint' = [g \in Goals |-> {}]
    /\ pc' = [i \in Invocations |-> IF pc[i] = "new" THEN "new" ELSE "done"]
    /\ call' = [i \in Invocations |-> None]
    /\ verdict' = [i \in Invocations |-> NoVerdict]
    /\ before' = [i \in Invocations |-> None]
    /\ lost' = lost \cup {call[i].file : i \in {j \in Invocations : pc[j] = "changed"}}
    /\ UNCHANGED <<goalOf, files, journal, touched, mixed>>

Next ==
    \/ \E i \in Invocations : \E c \in CallsOf[goalOf[i]] : Forbid(i, c) \/ Ask(i, c) \/ Run(i, c)
    \/ \E i \in Invocations, scope \in {"once", "session", "workspace"} : Grant(i, scope)
    \/ \E i \in Invocations : Refuse(i) \/ ToolChangesFile(i) \/ ToolThrows(i)
    \/ \E i \in Invocations, ok \in BOOLEAN : ToolReturns(i, ok)
    \/ \E g \in Goals : \E bad \in SUBSET Applied(g) : Rollback(g, bad)
    \/ \E g \in Goals : NewRun(g)
    \/ Crash

Spec == Init /\ [][Next]_vars

\* The timer of decide refuses a call nobody answers.
FairSpec == Spec /\ \A i \in Invocations : WF_vars(Refuse(i))

----------------------------------------------------------------------------
(* Properties. *)

TypeOK ==
    /\ files \in [Files -> Content]
    /\ journal \in Seq(Record)
    /\ store \subseteq Approval
    /\ session \in [Goals -> Sessions \cup {NoSession}]
    /\ local \in [Goals -> SUBSET STRING]
    /\ ledger \in [Goals -> Seq({"internal", "sensitive"})]
    /\ taint \in [Goals -> SUBSET Files]
    /\ goalOf \in [Invocations -> Goals]
    /\ pc \in [Invocations -> {"new", "waiting", "running", "changed", "done"}]
    /\ call \in [Invocations -> Call \cup {None}]
    /\ verdict \in [Invocations -> Verdict]
    /\ before \in [Invocations -> Content \cup {None}]

\* What somebody said yes to covers the call: to this call itself, or to calls of its
\* key for the workspace, for its conversation, or for its run.
Covers(a, i) ==
    /\ a.key = call[i].key
    /\ \/ a.to = i
       \/ /\ ~call[i].always
          /\ \/ a.scope = "workspace"
             \/ /\ a.scope = "session"
                /\ IF a.session = NoSession THEN a.goal = goalOf[i]
                                           ELSE a.session = session[goalOf[i]]

Licensed(i) == \E a \in answers : Covers(a, i)

Starts(i) == ~InFlight(i) /\ InFlight(i)'

\* A call that its tier gates, or that is dangerous, is started only under a grant
\* that covers it and that this process was given: not under one for another
\* conversation, another command or another run, and a dangerous command only under
\* its own (gateway.ts, stage 5, settle, hasApproval).
AskedFirst ==
    [][\A i \in Invocations :
         Starts(i) /\ (call'[i].tier = "gated" \/ call'[i].always) => Licensed(i)']_vars

\* A call that sends data out is started on a ledger with a sensitive read only under
\* a grant that covers it, and if somebody was asked about this very call, they were
\* told of the read: one committed while they thought does not slip under their grant
\* (INV-B of gateway.ts).
EgressAsked ==
    [][\A i \in Invocations :
         Starts(i) /\ call'[i].egress /\ Broken(goalOf[i]) =>
            Licensed(i)' /\ (pc[i] = "waiting" => verdict[i].broken)]_vars

\* Nobody is asked for what they have granted for the workspace, or for the
\* conversation of the run (InMemoryApprovalStore outlives the gateways).
GrantHolds ==
    [][\A i \in Invocations : pc[i] = "new" /\ pc'[i] = "waiting" =>
         ~\E a \in answers : a.to # i /\ Covers(a, i)']_vars

\* gateway-types.ts and AHF_CORE_AUTHORIZATION_V3_IMPL.md: a grant for a conversation
\* holds for every later run of a Goal that was created in it.
SessionGrantHolds ==
    [][\A i \in Invocations : pc[i] = "new" /\ pc'[i] = "waiting" =>
         ~\E a \in answers : /\ a.scope = "session" /\ a.session = SessionOf[goalOf[i]]
                             /\ a.key = call'[i].key /\ ~call'[i].always
                             /\ a.session # NoSession]_vars

\* The content a full rollback of what is still applied would give a file.
Undone(f) ==
    LET of == {n \in DOMAIN journal : journal[n].file = f /\ journal[n].status = "applied"}
    IN IF of = {} THEN files[f]
       ELSE journal[CHOOSE n \in of : \A m \in of : n <= m].before

\* The journal can always undo what the tools did to a file: when nothing writes it,
\* it is as it was or the journal leads back to that, through any number of calls,
\* failed calls and rollbacks of one Goal.  Out of its reach, in this code, are files
\* that two calls or two Goals changed at once, that a tool changed before it threw or
\* the process died, and those whose restoration failed.
JournalUndoes ==
    \A f \in Files \ (mixed \cup lost) :
        \/ \E i \in Invocations : InFlight(i) /\ call[i].file = f
        \/ \E n \in DOMAIN journal : journal[n].file = f /\ journal[n].status = "rollback-failed"
        \/ Undone(f) = Original

\* A call that waits for an answer does not wait for ever (the timer of decide).
AnswerComes == \A i \in Invocations : pc[i] = "waiting" ~> pc[i] # "waiting"
=============================================================================
