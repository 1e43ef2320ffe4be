------------------------------- MODULE WikiLog -------------------------------
(***************************************************************************)
(* The wiki of a project, which tells what runs have changed: WikiWriter   *)
(* and the calls of it in executeGoalTree.  A run scans the workspace when *)
(* it begins; a write that a tool names is kept in a list when its step    *)
(* has succeeded; when the run ends, what is listed and what differs from  *)
(* the scan becomes an entry, for which a model writes the summary.        *)
(*                                                                         *)
(* There is one writer per harness, with one scan and one list.  A run     *)
(* that delegates has its children write through it too, side by side.     *)
(* The snapshot part of the page and the folding of old entries are left   *)
(* out.                                                                    *)
(***************************************************************************)
EXTENDS Naturals, FiniteSets

CONSTANTS WikiRuns,      \* runs of one harness
          TopRun,        \* the one that may delegate to the others
          Paths,         \* files
          MaxWrites,     \* bound: changes of each file
          MaxMishaps     \* bound: refused writes, thrown runs and ends of the process

ASSUME WikiAssumption == TopRun \in WikiRuns /\ {MaxWrites, MaxMishaps} \subseteq Nat

VARIABLES
    version,    \* of each file: changes so far
    flush,      \* of each run
    begun,      \* history: runs begun since the process started
    unseen,     \* files a run has changed by a call whose step is not saved yet
    listedPaths, \* paths of write steps
    baseline,   \* the version of each file at the last scan
    taken,      \* what a run waits with for its summary
    logged,     \* disk: the last version an entry tells of
    excused,    \* history: files with a change that no entry will tell, for a known reason
    mishaps

wikiVars == <<version, flush, begun, unseen, listedPaths, baseline, taken, logged, excused, mishaps>>

Nothing == [f \in Paths |-> 0]
Differs == {f \in Paths : version[f] # baseline[f]}

WikiInit ==
    /\ version = Nothing /\ baseline = Nothing /\ logged = Nothing
    /\ flush = [r \in WikiRuns |-> "closed"]
    /\ begun = {}
    /\ unseen = [r \in WikiRuns |-> {}]
    /\ listedPaths = {}
    /\ taken = [r \in WikiRuns |-> Nothing]
    /\ excused = {} /\ mishaps = 0

\* A child runs while the call of its parent waits for it.
Delegates == flush[TopRun] = "open" /\ \E c \in WikiRuns \ {TopRun} : flush[c] # "closed"

-------------------------------------------------------------------------------
(* Actions. *)

\* Mutation: a run begins with an empty list.
BeginsEmpty(r) ==
    /\ r \notin begun /\ flush[r] = "closed"
    /\ IF r = TopRun THEN \A c \in WikiRuns : flush[c] = "closed" ELSE flush[TopRun] = "open"
    /\ flush' = [flush EXCEPT ![r] = "open"]
    /\ begun' = begun \cup {r}
    /\ baseline' = version /\ listedPaths' = {}
    /\ excused' = excused \cup (Differs \ listedPaths)
    /\ UNCHANGED <<version, unseen, taken, logged, mishaps>>

\* beginRun scans anew: what another run has changed so far, and no step named, is in no
\* later difference.
WikiBegins(r) ==
    /\ r \notin begun /\ flush[r] = "closed"
    /\ IF r = TopRun THEN \A c \in WikiRuns : flush[c] = "closed" ELSE flush[TopRun] = "open"
    /\ flush' = [flush EXCEPT ![r] = "open"]
    /\ begun' = begun \cup {r}
    /\ baseline' = version
    /\ excused' = excused \cup (Differs \ listedPaths)
    /\ UNCHANGED <<version, unseen, listedPaths, taken, logged, mishaps>>

\* A call of the run changes a file.
ToolWrites(r, f) ==
    /\ flush[r] = "open" /\ (r = TopRun => ~Delegates)
    /\ version[f] < MaxWrites
    /\ version' = [version EXCEPT ![f] = @ + 1]
    /\ unseen' = [unseen EXCEPT ![r] = @ \cup {f}]
    /\ UNCHANGED <<flush, begun, listedPaths, baseline, taken, logged, excused, mishaps>>

\* observeStep: the paths of a write that succeeded, or none: a shell command, or a call that
\* failed after it had changed something.
ObserveStep(r, named) ==
    /\ unseen[r] # {} /\ flush[r] = "open"
    /\ listedPaths' = IF named THEN listedPaths \cup unseen[r] ELSE listedPaths
    /\ unseen' = [unseen EXCEPT ![r] = {}]
    /\ UNCHANGED <<version, flush, begun, baseline, taken, logged, excused, mishaps>>

\* flushRun up to the summary: list and scan are renewed before the wait.
TakeAll(r) ==
    /\ flush[r] = "open" /\ unseen[r] = {} /\ (r = TopRun => ~Delegates)
    /\ LET paths == listedPaths \cup Differs
       IN /\ taken' = [taken EXCEPT ![r] =
                        [f \in Paths |-> IF f \in paths THEN version[f] ELSE 0]]
          /\ flush' = [flush EXCEPT ![r] = IF paths = {} THEN "closed" ELSE "summarising"]
    /\ listedPaths' = {} /\ baseline' = version
    /\ UNCHANGED <<version, begun, unseen, logged, excused, mishaps>>

Told(r) == {f \in Paths : taken[r][f] # 0}

\* The summary is there; one that fails is made from a template.
AppendEntry(r) ==
    /\ flush[r] = "summarising"
    /\ logged' = [f \in Paths |-> IF taken[r][f] > logged[f] THEN taken[r][f] ELSE logged[f]]
    /\ taken' = [taken EXCEPT ![r] = Nothing]
    /\ flush' = [flush EXCEPT ![r] = "closed"]
    /\ UNCHANGED <<version, begun, unseen, listedPaths, baseline, excused, mishaps>>

\* The page cannot be written: a warning, and the entry is gone.
EntryRefused(r) ==
    /\ flush[r] = "summarising" /\ mishaps < MaxMishaps
    /\ mishaps' = mishaps + 1
    /\ excused' = excused \cup Told(r)
    /\ taken' = [taken EXCEPT ![r] = Nothing]
    /\ flush' = [flush EXCEPT ![r] = "closed"]
    /\ UNCHANGED <<version, begun, unseen, listedPaths, baseline, logged>>

\* The run throws, and does not come to its flush.  The list stays for the next one.
ThrownRun(r) ==
    /\ flush[r] = "open" /\ (r = TopRun => ~Delegates) /\ mishaps < MaxMishaps
    /\ mishaps' = mishaps + 1
    /\ flush' = [flush EXCEPT ![r] = "closed"]
    /\ unseen' = [unseen EXCEPT ![r] = {}]
    /\ excused' = excused \cup (Differs \ listedPaths)
    /\ UNCHANGED <<version, begun, listedPaths, baseline, taken, logged>>

\* The process ends; the next one scans at its first run.
WriterLost ==
    /\ mishaps < MaxMishaps
    /\ mishaps' = mishaps + 1
    /\ excused' = excused \cup {f \in Paths : version[f] > logged[f]}
    /\ flush' = [r \in WikiRuns |-> "closed"] /\ begun' = {}
    /\ unseen' = [r \in WikiRuns |-> {}] /\ listedPaths' = {}
    /\ taken' = [r \in WikiRuns |-> Nothing]
    /\ baseline' = version
    /\ UNCHANGED <<version, logged>>

WikiNext ==
    \/ \E r \in WikiRuns :
        \/ WikiBegins(r) \/ TakeAll(r) \/ AppendEntry(r) \/ EntryRefused(r) \/ ThrownRun(r)
        \/ \E f \in Paths : ToolWrites(r, f)
        \/ \E named \in BOOLEAN : ObserveStep(r, named)
    \/ WriterLost

WikiSpec == WikiInit /\ [][WikiNext]_wikiVars

-------------------------------------------------------------------------------
(* Properties. *)

(* Type invariant. *)
WikiTypeOK ==
    /\ {version, baseline, logged} \subseteq [Paths -> Nat]
    /\ flush \in [WikiRuns -> {"closed", "open", "summarising"}]
    /\ unseen \in [WikiRuns -> SUBSET Paths]
    /\ taken \in [WikiRuns -> [Paths -> Nat]]
    /\ listedPaths \subseteq Paths /\ begun \subseteq WikiRuns /\ excused \subseteq Paths

(* "Captured by the harness, nothing left out": when all runs have ended,    *)
(* each change is told by an entry or waits in the list for the next, also   *)
(* of runs that overlap and of writes while a summary is made.  Left out are *)
(* changes no step named, when another run began or its own threw before a   *)
(* scan, and what a refused write or the end of the process took away.       *)
EveryChangeIsTold ==
    (\A r \in WikiRuns : flush[r] = "closed") =>
        \A f \in Paths \ excused : version[f] > logged[f] => f \in listedPaths
===============================================================================
