------------------------------- MODULE EventLog -------------------------------
(***************************************************************************)
(* The audit log of events: DefaultEventBus, one per HarnessRuntime, over  *)
(* JSONL files, one per root Goal, that all buses of the service share.    *)
(*                                                                         *)
(* An event is chained in memory when it is emitted and written later, in  *)
(* the microtask that its bus has queued.  Between the two the process may *)
(* die, and the write may fail: no chain head is ever taken back.          *)
(*                                                                         *)
(* A line that cannot be parsed is skipped by every reader of a file, so   *)
(* "file" holds only the lines that can.  The hash of an event is its      *)
(* number among all events ever made for the root: two events never share  *)
(* one, and an event names the one it follows.                             *)
(***************************************************************************)
EXTENDS Integers, Sequences

CONSTANTS Roots,        \* root Goals, each with a file of its own
          Buses,        \* buses: one per runtime that the service builds
          Kinds,        \* what an event says, as far as a reader cares
          MaxEmitted,   \* bound: events made for a root
          MaxFailures,  \* bound: writes that fail
          MaxRestarts   \* bound: ends of the process

ASSUME LogAssumption == {MaxEmitted, MaxFailures, MaxRestarts} \subseteq Nat

VARIABLES
    file,       \* on disk: the readable lines of each root
    torn,       \* on disk: the file ends in the middle of a line
    heads,      \* chainHeads of each bus: the last event it knows of a root
    pending,    \* writeChain of each bus: what it has still to write of a root
    emitted,    \* events made for a root: the next hash
    lost,       \* history: a write for the root has failed
    shared,     \* history: two buses of one process have emitted for the root
    failures, restarts

disk == <<file, torn>>
logMemory == <<heads, pending>>
logHistory == <<lost, shared, failures, restarts>>
logVars == <<file, torn, heads, pending, emitted, lost, shared, failures, restarts>>

Genesis == [seq |-> 0, hash |-> 0]
NoHead == [seq |-> 0, hash |-> -1]
Event == [seq : Nat, prev : Nat, hash : Nat, kind : Kinds]
ChainHeads == [seq : Nat, hash : Nat]

\* The head a log ends in: what chainHead reads from a file.
HeadOf(log) == IF log = <<>> THEN Genesis
               ELSE [seq |-> log[Len(log)].seq, hash |-> log[Len(log)].hash]

\* verifyChain: numbers without a gap, each event naming the one before it.
Chained(log) ==
    \A i \in 1 .. Len(log) :
        /\ log[i].seq = i
        /\ log[i].prev = IF i = 1 THEN Genesis.hash ELSE log[i - 1].hash

Verifies(r) == Chained(file[r])

\* Mutation: a bus starts every chain anew.
ChainHeadForgets(b, r) == IF heads[b][r] = NoHead THEN Genesis ELSE heads[b][r]

\* The head of a bus: what it remembers, or what the file says on first use.
ChainHead(b, r) == IF heads[b][r] = NoHead THEN HeadOf(file[r]) ELSE heads[b][r]

\* The event that bus b makes of kind k.
Made(b, r, k) == [seq |-> ChainHead(b, r).seq + 1, prev |-> ChainHead(b, r).hash,
                  hash |-> emitted[r] + 1, kind |-> k]

LogInit ==
    /\ file = [r \in Roots |-> <<>>]
    /\ torn = [r \in Roots |-> FALSE]
    /\ heads = [b \in Buses |-> [r \in Roots |-> NoHead]]
    /\ pending = [b \in Buses |-> [r \in Roots |-> <<>>]]
    /\ emitted = [r \in Roots |-> 0]
    /\ lost = [r \in Roots |-> FALSE]
    /\ shared = [r \in Roots |-> FALSE]
    /\ failures = 0
    /\ restarts = 0

-------------------------------------------------------------------------------
(* Operations. *)

\* emit: the chain moves on and the write is queued in one go.
Emit(b, r, k) ==
    /\ emitted[r] < MaxEmitted
    /\ heads' = [heads EXCEPT ![b][r] = [seq |-> Made(b, r, k).seq, hash |-> Made(b, r, k).hash]]
    /\ pending' = [pending EXCEPT ![b][r] = Append(@, Made(b, r, k))]
    /\ emitted' = [emitted EXCEPT ![r] = @ + 1]
    /\ shared' = [shared EXCEPT ![r] = @ \/ \E other \in Buses \ {b} : heads[other][r] # NoHead]
    /\ UNCHANGED <<disk, lost, failures, restarts>>

\* A queued write succeeds.  After a fragment the line is glued to it: unreadable.
Written(b, r) ==
    /\ pending[b][r] # <<>>
    /\ file' = IF torn[r] THEN file ELSE [file EXCEPT ![r] = Append(@, Head(pending[b][r]))]
    /\ torn' = [torn EXCEPT ![r] = FALSE]
    /\ pending' = [pending EXCEPT ![b][r] = Tail(@)]
    /\ UNCHANGED <<heads, emitted, logHistory>>

\* A queued write fails, before or after part of the line: only onWriteError hears of it.
WriteFails(b, r) ==
    /\ pending[b][r] # <<>>
    /\ failures < MaxFailures
    /\ failures' = failures + 1
    /\ \E partly \in BOOLEAN : torn' = [torn EXCEPT ![r] = @ \/ partly]
    /\ pending' = [pending EXCEPT ![b][r] = Tail(@)]
    /\ lost' = [lost EXCEPT ![r] = TRUE]
    /\ UNCHANGED <<file, heads, emitted, shared, restarts>>

\* The process ends, at any time, and another starts: queues and heads are gone.
RestartLog ==
    /\ restarts < MaxRestarts
    /\ restarts' = restarts + 1
    /\ heads' = [b \in Buses |-> [r \in Roots |-> NoHead]]
    /\ pending' = [b \in Buses |-> [r \in Roots |-> <<>>]]
    /\ UNCHANGED <<disk, emitted, lost, shared, failures>>

LogNext ==
    \/ \E b \in Buses, r \in Roots :
        \/ \E k \in Kinds : Emit(b, r, k)
        \/ Written(b, r)
        \/ WriteFails(b, r)
    \/ RestartLog

LogSpec == LogInit /\ [][LogNext]_logVars

-------------------------------------------------------------------------------
(* Properties. *)

(* Type invariant. *)
LogTypeOK ==
    /\ file \in [Roots -> Seq(Event)]
    /\ torn \in [Roots -> BOOLEAN]
    /\ heads \in [Buses -> [Roots -> ChainHeads \cup {NoHead}]]
    /\ pending \in [Buses -> [Roots -> Seq(Event)]]
    /\ emitted \in [Roots -> Nat]
    /\ lost \in [Roots -> BOOLEAN]
    /\ shared \in [Roots -> BOOLEAN]
    /\ failures \in Nat
    /\ restarts \in Nat

(* An honest log verifies, through restarts that lose queued events and      *)
(* through heads read back from the file, as long as no write for the root   *)
(* failed and no two runtimes of one process emitted for it: then, and only  *)
(* then, can verifyChain report a gap that nobody made by hand.              *)
ChainVerifies == \A r \in Roots : lost[r] \/ shared[r] \/ Verifies(r)
===============================================================================
