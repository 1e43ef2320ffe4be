---------------------------- MODULE RuntimeService ----------------------------
(***************************************************************************)
(* The service around the runtimes: RuntimeService, which builds one       *)
(* HarnessRuntime per workspace on demand and closes them all to apply new *)
(* settings, SessionsService, which creates Goals and runs them one at a   *)
(* time, and ConversationsService, which lists them.                       *)
(*                                                                         *)
(* Requests interleave where a handler really waits: for the event log     *)
(* when a Goal is made, for the network when models are synchronised, for  *)
(* the run itself.  All runtimes of the service share one Goal store; a    *)
(* runtime that has been closed can no longer write to it.                 *)
(***************************************************************************)
EXTENDS Naturals, FiniteSets

CONSTANTS Workspaces,   \* folders
          FreeChat,     \* the one used while none is selected
          Conversations,
          WorkspaceOf,  \* the workspace of each conversation
          Runs,         \* Goals that chats make
          ChatOf,       \* the conversation each belongs to
          MaxRuntimes,  \* bound: runtimes ever built
          MaxOutages    \* bound: ends of the process

NoRun == "no run"

ASSUME ServiceAssumption ==
    /\ FreeChat \in Workspaces
    /\ WorkspaceOf \in [Conversations -> Workspaces]
    /\ ChatOf \in [Runs -> Conversations]
    /\ NoRun \notin Runs
    /\ MaxRuntimes \in Nat /\ MaxOutages \in Nat

VARIABLES
    selected,   \* workspaceRoot
    cache,      \* the runtime of each workspace, 0: none; only these are open
    built,      \* runtimes built so far
    executing,  \* the run that holds runExclusive
    runOn,      \* the runtime each run was last executed by
    chatRun,    \* what each run has come to
    syncing,    \* a synchronisation of models waits for the network
    chats,      \* disk: conversations
    listed,     \* disk: runs that a conversation lists
    goalTrees,  \* disk: runs with rows in the Goal store
    disturbed,  \* history: runs whose runtime was closed by a save of settings
    unlisted,   \* history: runs that were deleted while executing, not listed
                \* because their chat was gone, or cut off by the end of the process
    outages

svcDisk == <<chats, listed, goalTrees>>
svcVars == <<selected, cache, built, executing, runOn, chatRun, syncing, chats, listed, goalTrees,
             disturbed, unlisted, outages>>

SvcInit ==
    /\ selected = FreeChat
    /\ cache = [w \in Workspaces |-> 0]
    /\ built = 0
    /\ executing = NoRun
    /\ runOn = [r \in Runs |-> 0]
    /\ chatRun = [r \in Runs |-> "none"]
    /\ syncing = FALSE
    /\ chats = {} /\ listed = {} /\ goalTrees = {}
    /\ disturbed = {} /\ unlisted = {}
    /\ outages = 0

-------------------------------------------------------------------------------
(* Runtimes. *)

IsOpen(i) == \E w \in Workspaces : cache[w] = i

\* harness() with w selected: what is cached, or a new one.
Harness(w) ==
    IF cache[w] # 0 THEN UNCHANGED <<cache, built>>
    ELSE /\ built < MaxRuntimes
         /\ built' = built + 1
         /\ cache' = [cache EXCEPT ![w] = built + 1]

\* restartRuntimes
Restart == cache' = [w \in Workspaces |-> 0]

-------------------------------------------------------------------------------
(* Handlers. *)

\* setWorkspaceRoot
SelectWorkspace(w) ==
    /\ selected # w
    /\ selected' = w
    /\ UNCHANGED <<cache, built, executing, runOn, chatRun, syncing, svcDisk, disturbed, unlisted,
                   outages>>

\* createSession, up to the wait for the event log: the Goal is stored.  A chat that was
\* deleted answers 404.
CreateSession(r) ==
    LET c == ChatOf[r]
    IN /\ chatRun[r] = "none"
       /\ c \in chats \/ \A s \in Runs : ChatOf[s] = c => chatRun[s] = "none"
       /\ selected' = WorkspaceOf[c]
       /\ Harness(WorkspaceOf[c])
       /\ chatRun' = [chatRun EXCEPT ![r] = IF c \in chats THEN "appending" ELSE "making"]
       /\ goalTrees' = goalTrees \cup {r}
       /\ UNCHANGED <<executing, runOn, syncing, chats, listed, disturbed, unlisted, outages>>

\* Mutation: a run is listed for a chat that may have been deleted.
ListRunAnyway(r) ==
    /\ chatRun[r] \in {"making", "appending"}
    /\ chats' = IF chatRun[r] = "making" THEN chats \cup {ChatOf[r]} ELSE chats
    /\ listed' = listed \cup {r}
    /\ chatRun' = [chatRun EXCEPT ![r] = "ready"]
    /\ UNCHANGED <<selected, cache, built, executing, runOn, syncing, goalTrees, disturbed,
                   unlisted, outages>>

\* recordNewRun, or appendRun, which finds the chat or not.
ListRun(r) ==
    /\ chatRun[r] \in {"making", "appending"}
    /\ IF chatRun[r] = "making" \/ ChatOf[r] \in chats
       THEN /\ chats' = chats \cup {ChatOf[r]}
            /\ listed' = listed \cup {r}
            /\ UNCHANGED unlisted
       ELSE /\ unlisted' = unlisted \cup {r}
            /\ UNCHANGED <<chats, listed>>
    /\ chatRun' = [chatRun EXCEPT ![r] = "ready"]
    /\ UNCHANGED <<selected, cache, built, executing, runOn, syncing, goalTrees, disturbed, outages>>

\* executeSession and resumeSession, by the runtime of the workspace selected now.
ExecuteSession(r) ==
    /\ chatRun[r] = "ready" /\ executing = NoRun
    /\ r \in goalTrees
    /\ Harness(selected)
    /\ executing' = r
    /\ runOn' = [runOn EXCEPT ![r] = cache'[selected]]
    /\ chatRun' = [chatRun EXCEPT ![r] = "running"]
    /\ UNCHANGED <<selected, syncing, svcDisk, disturbed, unlisted, outages>>

\* A step or a status of the run is written, through a runtime that is open.
RunSaves(r) ==
    /\ chatRun[r] = "running" /\ IsOpen(runOn[r])
    /\ goalTrees' = goalTrees \cup {r}
    /\ unlisted' = IF r \in listed THEN unlisted ELSE unlisted \cup {r}
    /\ UNCHANGED <<selected, cache, built, executing, runOn, chatRun, syncing, chats, listed,
                   disturbed, outages>>

\* The run ends or throws; runExclusive is free again.
RunReturns(r) ==
    /\ chatRun[r] = "running"
    /\ chatRun' = [chatRun EXCEPT ![r] = "ready"]
    /\ executing' = NoRun
    /\ UNCHANGED <<selected, cache, built, runOn, syncing, svcDisk, disturbed, unlisted, outages>>

\* syncConfig, restart, setApiKey and the price sync: they wait for the network first.
SyncModels ==
    /\ ~syncing
    /\ syncing' = TRUE
    /\ UNCHANGED <<selected, cache, built, executing, runOn, chatRun, svcDisk, disturbed, unlisted,
                   outages>>

\* Mutation: whether a run is going on was asked before the wait.
SyncEndsAnyway ==
    /\ syncing
    /\ syncing' = FALSE
    /\ Restart
    /\ UNCHANGED <<selected, built, executing, runOn, chatRun, svcDisk, disturbed, unlisted, outages>>

\* Then the runtimes are built anew, unless a run is going on.
SyncEnds ==
    /\ syncing
    /\ syncing' = FALSE
    /\ IF executing = NoRun THEN Restart ELSE UNCHANGED cache
    /\ UNCHANGED <<selected, built, executing, runOn, chatRun, svcDisk, disturbed, unlisted, outages>>

\* setPermissionCeiling and saveAuthCommandPolicy do not ask, and close the runtime of a run.
SaveSettings ==
    /\ Restart
    /\ disturbed' = disturbed \cup ({executing} \ {NoRun})
    /\ UNCHANGED <<selected, built, executing, runOn, chatRun, syncing, svcDisk, unlisted, outages>>

\* remove: the chat is taken off the list, then the trees of its runs are deleted.
DeleteChat(c) ==
    LET gone == {r \in listed : ChatOf[r] = c}
    IN /\ c \in chats
       /\ Harness(selected)
       /\ chats' = chats \ {c}
       /\ listed' = listed \ gone
       /\ goalTrees' = goalTrees \ gone
       /\ UNCHANGED <<selected, executing, runOn, chatRun, syncing, disturbed, unlisted, outages>>

OutageState ==
    /\ outages < MaxOutages
    /\ outages' = outages + 1
    /\ cache' = [w \in Workspaces |-> 0]
    /\ executing' = NoRun
    /\ chatRun' = [r \in Runs |-> IF chatRun[r] \in {"running", "making", "appending"}
                                  THEN "ready" ELSE chatRun[r]]
    /\ syncing' = FALSE
    /\ selected' = FreeChat
    /\ UNCHANGED <<built, runOn, disturbed>>

\* The process ends.
Outage ==
    /\ OutageState
    /\ unlisted' = unlisted \cup {r \in Runs : chatRun[r] \in {"making", "appending"}}
    /\ UNCHANGED svcDisk

\* The process ends between the steps of remove.
OutageInDelete(c) ==
    LET gone == {r \in listed : ChatOf[r] = c}
    IN /\ c \in chats
       /\ OutageState
       /\ \E S \in SUBSET gone :
            /\ chats' = chats \ {c}
            /\ listed' = listed \ gone
            /\ goalTrees' = goalTrees \ S
            /\ unlisted' = unlisted \cup (gone \ S)
                            \cup {r \in Runs : chatRun[r] \in {"making", "appending"}}

SvcNext ==
    \/ \E w \in Workspaces : SelectWorkspace(w)
    \/ \E r \in Runs :
        \/ CreateSession(r) \/ ListRun(r)
        \/ ExecuteSession(r) \/ RunSaves(r) \/ RunReturns(r)
    \/ SyncModels \/ SyncEnds
    \/ SaveSettings
    \/ \E c \in Conversations : DeleteChat(c) \/ OutageInDelete(c)
    \/ Outage

SvcSpec == SvcInit /\ [][SvcNext]_svcVars

-------------------------------------------------------------------------------
(* Properties. *)

(* Type invariant. *)
SvcTypeOK ==
    /\ selected \in Workspaces
    /\ cache \in [Workspaces -> Nat] /\ built \in Nat
    /\ executing \in Runs \cup {NoRun}
    /\ runOn \in [Runs -> Nat]
    /\ chatRun \in [Runs -> {"none", "making", "appending", "ready", "running"}]
    /\ syncing \in BOOLEAN
    /\ chats \subseteq Conversations /\ listed \subseteq Runs /\ goalTrees \subseteq Runs
    /\ disturbed \subseteq Runs /\ unlisted \subseteq Runs
    /\ outages \in Nat

(* A run that is executing keeps its runtime: the store it writes to stays   *)
(* open and its approvals can be answered, whatever is selected, created,    *)
(* deleted or synchronised meanwhile (syncConfig: "so as not to interrupt a  *)
(* run that is going on"); and no other run is executed while it is.  The    *)
(* runs left out are those under which settings were saved, contrary to the  *)
(* comment that RunningRunsUnaffected states.                                *)
RunKeepsItsRuntime ==
    \A r \in Runs \ disturbed :
        chatRun[r] = "running" => executing = r /\ runOn[r] # 0 /\ IsOpen(runOn[r])

(* The comment on setPermissionCeiling: the ceiling is saved and the         *)
(* runtimes are built anew, "sessions that are running are not affected".    *)
(* It is refuted: nobody asks for a run before its runtime is closed, with   *)
(* the store that its next save goes to.                                     *)
RunningRunsUnaffected == \A r \in Runs : chatRun[r] = "running" => IsOpen(runOn[r])

(* A run that a conversation lists can be opened: its Goal is in the store.  *)
(* The reverse fails for known reasons only: a run is stored and not listed  *)
(* when its chat was deleted while it was made or executed, or the process   *)
(* ended in between.                                                         *)
ListedRunsHaveRows ==
    /\ \A r \in listed : r \in goalTrees /\ ChatOf[r] \in chats
    /\ \A r \in goalTrees \ unlisted : r \in listed \/ chatRun[r] \in {"making", "appending"}
===============================================================================
