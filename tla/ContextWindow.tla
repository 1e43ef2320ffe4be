---------------------------- MODULE ContextWindow ----------------------------
(***************************************************************************)
(* The transcript of a Task that the model is asked with: ContextManager   *)
(* as executeTask drives it.  A resumed Task replays its rounds first.     *)
(* Each request is measured, against what the one before had; each round   *)
(* of tool calls is appended, and when the request before it was too large *)
(* the oldest rounds are taken out and a note goes into the system prompt. *)
(*                                                                         *)
(* A size is abstracted to whether it reaches the threshold.  What memory  *)
(* contributes is fixed for a Task and stands before the messages here.    *)
(***************************************************************************)
EXTENDS Naturals, Sequences, SequencesExt, FiniteSets

CONSTANTS KeepRounds,   \* compactKeepRounds
          Contributed,  \* messages contributed by memory
          MaxTurns      \* bound: rounds of the Task

ASSUME WindowAssumption == {KeepRounds, Contributed, MaxTurns} \subseteq Nat

VARIABLES
    step,       \* where executeTask is
    dynamic,    \* messages: a role, and the round it is of
    notes,      \* compactionNotes.length
    prefixEpoch, \* prefixVersion
    hashed,     \* lastPrefixHash: <<the notes it was taken of>>, or <<>>
    measured,   \* <<lastMessageCount>>, or <<>>
    tooLarge,   \* lastTotalTokens reaches the threshold
    reported,   \* the last measure: the messages it called new, those that were,
                \* and whether there was a compaction before it
    turns,      \* history: rounds so far
    toolTurns,  \* history: those with calls
    appended,   \* history: messages since the last measure
    prefixes,   \* history: the prefix each epoch was sent with
    cutNow      \* history: compacted since the last measure

winVars == <<step, dynamic, notes, prefixEpoch, hashed, measured, tooLarge, reported, turns, toolTurns,
             appended, prefixes, cutNow>>

Statement == [role |-> "user", turn |-> 0]
Calls(n) == [role |-> "calls", turn |-> n]
Observations(n) == [role |-> "results", turn |-> n]
Text(n) == [role |-> "text", turn |-> n]

\* executeTask: the statement of the Goal, then what a resume replays.
WinInit ==
    /\ step = "replay" /\ dynamic = <<Statement>>
    /\ notes = 0 /\ prefixEpoch = 1 /\ hashed = <<>>
    /\ measured = <<>> /\ tooLarge = FALSE /\ reported = [said |-> <<>>, was |-> <<>>, cut |-> FALSE]
    /\ turns = 0 /\ toolTurns = <<>> /\ appended = <<Statement>>
    /\ prefixes = {} /\ cutNow = FALSE

-------------------------------------------------------------------------------
(* ContextManager. *)

Add(messages) ==
    /\ dynamic' = dynamic \o messages
    /\ appended' = appended \o messages

\* The complete rounds: a message with calls, and its results next to it.
Complete(window) ==
    {window[i].turn : i \in {j \in 1 .. Len(window) - 1 :
                                window[j].role = "calls" /\ window[j + 1].role = "results"}}

\* Mutation: the messages are counted, not the rounds.
OldestMessages(window) == {window[i] : i \in 2 .. Len(window) - KeepRounds}

\* What compactHistory takes out: all complete rounds but the last KeepRounds.
OldestRounds(window) ==
    LET rounds == Complete(window)
        old == {n \in rounds : Cardinality({m \in rounds : m > n}) >= KeepRounds}
    IN {Calls(n) : n \in old} \cup {Observations(n) : n \in old}

\* The messages that are retained.
Without(window, gone) ==
    LET retained[i \in 0 .. Len(window)] ==
            IF i = 0 THEN <<>>
            ELSE IF window[i] \in gone THEN retained[i - 1] ELSE Append(retained[i - 1], window[i])
    IN retained[Len(window)]

\* compactHistory
Compact(window) ==
    LET gone == OldestRounds(window)
    IN IF gone = {} THEN dynamic' = window /\ UNCHANGED <<notes, prefixEpoch, hashed, cutNow>>
       ELSE /\ dynamic' = Without(window, gone)
            /\ notes' = notes + 1
            /\ prefixEpoch' = prefixEpoch + 1 /\ hashed' = <<>>
            /\ cutNow' = TRUE

\* snapshot: a prefix that is not what it was starts an epoch.
Snapshot ==
    /\ hashed' = <<notes>>
    /\ prefixEpoch' = IF hashed # <<>> /\ hashed # <<notes>> THEN prefixEpoch + 1 ELSE prefixEpoch

\* Mutation: everything behind what memory contributed.
NewFromBase == Contributed

\* measure: new is what stands behind the number of messages there were.
NewFrom == IF measured = <<>> THEN Contributed ELSE measured[1]

-------------------------------------------------------------------------------
(* executeTask. *)

\* replayPersistedSteps, a round whose calls all have results, or one without calls.
ReplayTurn(hasCalls) ==
    /\ step = "replay" /\ turns < MaxTurns
    /\ Add(IF hasCalls THEN <<Calls(turns + 1), Observations(turns + 1)>> ELSE <<Text(turns + 1)>>)
    /\ turns' = turns + 1
    /\ toolTurns' = IF hasCalls THEN Append(toolTurns, turns + 1) ELSE toolTurns
    /\ UNCHANGED <<step, notes, prefixEpoch, hashed, measured, tooLarge, reported, prefixes, cutNow>>

\* The open round: its calls, and their results when they have been completed.
ReplayOpenTurn ==
    /\ step = "replay" /\ turns < MaxTurns
    /\ Add(<<Calls(turns + 1)>>)
    /\ turns' = turns + 1 /\ toolTurns' = Append(toolTurns, turns + 1)
    /\ step' = "complete"
    /\ UNCHANGED <<notes, prefixEpoch, hashed, measured, tooLarge, reported, prefixes, cutNow>>

CompleteOpenTurn ==
    /\ step = "complete"
    /\ Add(<<Observations(turns)>>)
    /\ step' = "ask"
    /\ UNCHANGED <<notes, prefixEpoch, hashed, measured, tooLarge, reported, turns, toolTurns, prefixes,
                   cutNow>>

ReplayEnds ==
    /\ step = "replay"
    /\ step' = "ask"
    /\ UNCHANGED <<dynamic, notes, prefixEpoch, hashed, measured, tooLarge, reported, turns, toolTurns,
                   appended, prefixes, cutNow>>

\* roundRequest, and measure when it is sent.
AskModel(large) ==
    /\ step = "ask" /\ turns < MaxTurns
    /\ reported' = [said |-> SubSeq(dynamic, NewFrom - Contributed + 1, Len(dynamic)),
                    was |-> appended, cut |-> cutNow]
    /\ measured' = <<Contributed + Len(dynamic)>> /\ tooLarge' = large
    /\ Snapshot
    /\ prefixes' = prefixes \cup {<<prefixEpoch', notes>>}
    /\ appended' = <<>> /\ cutNow' = FALSE
    /\ step' = "answer"
    /\ UNCHANGED <<dynamic, notes, turns, toolTurns>>

\* The round has calls, which have been run.  Compaction goes by the size of the request,
\* before this round was appended.
TurnReturns ==
    /\ step = "answer"
    /\ LET messages == <<Calls(turns + 1), Observations(turns + 1)>>
       IN /\ appended' = appended \o messages
          /\ IF tooLarge THEN Compact(dynamic \o messages)
             ELSE dynamic' = dynamic \o messages /\ UNCHANGED <<notes, prefixEpoch, hashed, cutNow>>
    /\ turns' = turns + 1 /\ toolTurns' = Append(toolTurns, turns + 1)
    /\ step' = "ask"
    /\ UNCHANGED <<measured, tooLarge, reported, prefixes>>

\* A stop, a failure or the final answer.
WindowCloses ==
    /\ step # "over"
    /\ step' = "over"
    /\ UNCHANGED <<dynamic, notes, prefixEpoch, hashed, measured, tooLarge, reported, turns, toolTurns,
                   appended, prefixes, cutNow>>

WinNext ==
    \/ \E hasCalls \in BOOLEAN : ReplayTurn(hasCalls)
    \/ ReplayOpenTurn \/ CompleteOpenTurn \/ ReplayEnds
    \/ \E large \in BOOLEAN : AskModel(large)
    \/ TurnReturns \/ WindowCloses

WinSpec == WinInit /\ [][WinNext]_winVars

-------------------------------------------------------------------------------
(* Properties. *)

(* Type invariant. *)
WinTypeOK ==
    /\ step \in {"replay", "complete", "ask", "answer", "over"}
    /\ \A i \in DOMAIN dynamic : dynamic[i].role \in {"user", "calls", "results", "text"}
    /\ {notes, prefixEpoch, turns} \subseteq Nat
    /\ hashed \in Seq(Nat) /\ measured \in Seq(Nat)
    /\ tooLarge \in BOOLEAN /\ cutNow \in BOOLEAN

(* Whatever was replayed and taken out, the model is asked with a transcript *)
(* it can take and go on from: the statement of the Goal first, calls next   *)
(* to their results, in order, every round without calls, and the last       *)
(* KeepRounds with calls.                                                    *)
TranscriptStaysWhole ==
    step \in {"ask", "answer"} =>
        /\ dynamic[1] = Statement
        /\ \A i \in 2 .. Len(dynamic) :
            /\ dynamic[i].role = "calls" =>
                    i < Len(dynamic) /\ dynamic[i + 1] = Observations(dynamic[i].turn)
            /\ dynamic[i].role = "results" => dynamic[i - 1] = Calls(dynamic[i].turn)
            /\ dynamic[i].turn >= dynamic[i - 1].turn
        /\ \A n \in 1 .. turns :
            n \notin Range(toolTurns) => Text(n) \in Range(dynamic)
        /\ \A k \in DOMAIN toolTurns :
            k > Len(toolTurns) - KeepRounds => Calls(toolTurns[k]) \in Range(dynamic)

(* What is told of a request is true of it: an epoch has one prefix and a    *)
(* prefix one epoch, so that the cache of the provider is known to hold, and *)
(* the messages called new are those that are.  The second fails for the     *)
(* request after a compaction, which leaves fewer messages than were         *)
(* counted.                                                                  *)
MeasuredAsSent ==
    /\ \A p, q \in prefixes : p[1] = q[1] <=> p[2] = q[2]
    /\ ~reported.cut => reported.said = reported.was
===============================================================================
