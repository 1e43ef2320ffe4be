------------------------ MODULE GoalExecution_proofs ------------------------
(***************************************************************************)
(* Safety of GoalExecution, for any calls, proposals, limits, and any      *)
(* number of resumes and crashes.                                          *)
(*                                                                         *)
(* The rows of the store and the locals of executeTask are related by one  *)
(* inductive invariant, IInv.  Its first parts say where the executor is   *)
(* with respect to the rows, the later ones what each property needs to    *)
(* survive a step.                                                         *)
(***************************************************************************)
EXTENDS GoalExecution, SequenceTheorems, FiniteSetTheorems, TLAPS

\* Where the executor may be, given the rows: there is a current round, the
\* position points at one of its calls, and the calls before it have a result.
Located ==
    /\ pc \notin {"idle", "returned"} => task = "active"
    /\ task = "none" => pc = "idle" /\ rounds = <<>>
    /\ pc \in {"decide", "reject", "schedule", "run", "invoke", "record", "finalized",
               "complete", "activate"} => rounds # <<>>
    /\ pc \in {"activate", "schedule", "invoke", "record"} => pos \in Slots(rounds[Current])
    /\ pc \in {"complete", "activate"} => phase = "completion"
    /\ pc \in {"idle", "head", "request", "decide", "reject", "schedule", "run", "finalized",
               "returned"} => phase = "round"
    /\ pc = "decide" => pos = 1
    /\ pc = "activate" => rounds[Current].row[pos] = "pending"
    /\ pc = "invoke" => rounds[Current].row[pos] = "active"
    /\ phase = "round" /\ pc \in {"run", "invoke", "record"} =>
           \A q \in Slots(rounds[Current]) : q < pos => Terminal(rounds[Current].row[q])

\* No round is open while the next one is asked for.
ClosedAtHead == pc \in {"head", "request"} => \A r \in 1 .. Len(rounds) : ~Open(rounds[r])

RoomAtRequest == pc = "request" => Len(rounds) < MaxSteps

\* Once the stop signal is set, one call at most was about to be invoked.
NotLate ==
    /\ pc \notin {"idle", "returned"} /\ ~stop => late = 0
    /\ pc \in {"invoke", "activate"} => late = 0
    /\ task = "none" => late = 0

\* The calls of a round of this run that were not reached were not invoked.
Untried ==
    phase = "round" =>
        /\ pc \in {"decide", "schedule"} => \A q \in Pos : ran[Current][q] = 0
        /\ pc \in {"run", "invoke"} => \A q \in Pos : q >= pos => ran[Current][q] = 0
        /\ pc = "record" => \A q \in Pos : q > pos => ran[Current][q] = 0

\* A call without a result was invoked as often as a result was lost, unless its
\* result is at hand or its task is done.
LossesCoverTries ==
    \A r \in 1 .. Len(rounds) : \A p \in Pos :
        \/ Terminal(rounds[r].row[p])
        \/ ran[r][p] <= lost
        \/ pc = "record" /\ r = Current /\ p = pos
        \/ pc = "finalized" /\ r = Current
        \/ task = "succeeded"

IInv ==
    /\ TypeOK
    /\ Located
    /\ OnlyLastRoundOpen /\ ClosedAtHead
    /\ RoundsWithinLimit /\ RoomAtRequest
    /\ StopStartsAtMostOneCall /\ NotLate
    /\ RepeatedOnlyAfterLoss /\ Untried /\ LossesCoverTries

----------------------------------------------------------------------------
(* What the model is told of the rounds, and which results it may be given again. *)

Told(n) == [r \in 1 .. n |-> Transcript(rounds[r])]

\* Between two rounds the context tells all of them, during a round those before it.
ContextTold ==
    /\ pc \in {"idle", "returned"} => context = <<>>
    /\ pc \in {"head", "request"} => context = Told(Len(rounds))
    /\ pc \in {"complete", "activate", "decide", "schedule", "run", "invoke", "record"} =>
           context = Told(Len(rounds) - 1)

\* What compaction took out lies behind enough rounds of calls.
RemovedOld ==
    \A r \in removed :
        /\ r \in 1 .. Len(rounds) /\ rounds[r].calls # <<>>
        /\ Cardinality(CallsBehind(r)) >= KeepRounds

\* What a call of this round put out is what its row records, once it is passed; where
\* there is no call there is neither.
OutputsRecorded ==
    phase = "round" /\ pc \in {"decide", "schedule", "run", "invoke", "record"} =>
        \A p \in Pos :
            /\ p \notin Slots(rounds[Current]) =>
                   rounds[Current].row[p] = "none" /\ out[p] = "none"
            /\ p \in Slots(rounds[Current]) /\ p < pos /\ pc \notin {"decide", "schedule"} =>
                   Result(out[p]) = Observation(rounds[Current].row[p])

\* No row that has a result is saved over.
Unanswered ==
    /\ phase = "round" /\ pc \in {"decide", "run", "invoke", "record"} =>
           \A p \in Pos : p >= pos => ~Terminal(rounds[Current].row[p])
    /\ pc = "schedule" => \A p \in Pos : ~Terminal(rounds[Current].row[p])
    /\ pc \in {"activate", "invoke", "record"} => ~Terminal(rounds[Current].row[pos])

\* The output about to be recorded is the one the dedupe table has.
AtRecord ==
    pc = "record" =>
        /\ out[pos] \in {"ok", "error", "replayed"}
        /\ executed[Call] = Result(out[pos])

ShadowedExist == \A rp \in shadowed : rp[1] \in 1 .. Len(rounds)

\* Until a resume the dedupe table misses no success, and every call asks it.
TableComplete ==
    /\ phase = "completion" => resumes > 0
    /\ resumes = 0 /\ pc \notin {"idle", "returned"} =>
           \A c \in SucceededIn(Len(rounds)) : executed[c] = "ok"

ToldInv ==
    /\ ContextTold /\ RemovedOld /\ OutputsRecorded
    /\ Unanswered /\ AtRecord
    /\ ShadowedExist /\ DedupeTableSound /\ TableComplete

----------------------------------------------------------------------------
(* Rounds and their rows. *)

\* The slots of a round are the first positions, as many as it has calls.
LEMMA SlotsArePositions ==
    ASSUME NEW r \in Round
    PROVE  /\ Len(r.calls) \in Nat
           /\ Slots(r) = 1 .. Len(r.calls)
           /\ Slots(r) \subseteq Pos
           /\ r.calls \in Seq(Calls)
<1>1. r.calls \in Proposals
    BY DEF Round
<1>2. r.calls \in Seq(Calls) /\ Len(r.calls) <= MaxCalls
    BY <1>1, ProposalsAssumption
<1>3. MaxCalls \in Nat /\ Len(r.calls) \in Nat
    BY <1>2, LenProperties, BoundsAssumption
<1> QED
    BY <1>2, <1>3, LenProperties DEF Slots, Pos

\* The initial rows, outputs and dedupe table have their types.
LEMMA RowsTyped == NoRows \in [Pos -> RowStatus] /\ NoOutput \in [Pos -> Output]
                   /\ NothingExecuted \in [Calls -> {"none", "ok", "error"}]
BY DEF NoRows, NoOutput, NothingExecuted, RowStatus, Output

\* The locals of a run that is over have their types.
LEMMA ForgetTyped ==
    ASSUME Forget
    PROVE  /\ stop' \in BOOLEAN /\ phase' \in {"completion", "round"} /\ text' \in Text
           /\ pos' \in Nat \ {0} /\ out' \in [Pos -> Output]
           /\ executed' \in [Calls -> {"none", "ok", "error"}]
           /\ prev' \in Proposals \cup {<<>>} /\ context' \in Seq(Entry)
           /\ removed' \subseteq Nat /\ repeats' \in Nat /\ spent' \in Nat
<1>1. <<>> \in Seq(Entry)
    BY EmptySeq
<1>2. prev' \in Proposals \cup {<<>>} /\ context' \in Seq(Entry) /\ removed' \subseteq Nat
    BY <1>1 DEF Forget
<1>3. out' \in [Pos -> Output] /\ executed' \in [Calls -> {"none", "ok", "error"}]
    BY RowsTyped DEF Forget
<1>4. stop' \in BOOLEAN
    BY DEF Forget
<1>5. pos' \in Nat \ {0} /\ repeats' \in Nat /\ spent' \in Nat
    BY DEF Forget
<1> QED
    BY <1>2, <1>3, <1>4, <1>5 DEF Forget, Text

\* Saving an invocation row changes that row of the last round and no other.
LEMMA SaveRowFacts ==
    ASSUME rounds \in Seq(Round), rounds # <<>>,
           NEW p \in Nat, NEW status \in RowStatus, SaveRow(p, status)
    PROVE  /\ rounds' \in Seq(Round)
           /\ Len(rounds') = Len(rounds) /\ Len(rounds) \in Nat \ {0}
           /\ \A r \in 1 .. Len(rounds) : rounds'[r].calls = rounds[r].calls
           /\ \A r \in 1 .. Len(rounds) - 1 : rounds'[r] = rounds[r]
           /\ \A q \in Pos : rounds'[Len(rounds)].row[q] =
                  IF q = p THEN status ELSE rounds[Len(rounds)].row[q]
<1> DEFINE n == Len(rounds)
           new == [calls |-> rounds[n].calls, row |-> [rounds[n].row EXCEPT ![p] = status]]
<1>1. n \in Nat \ {0}
    BY EmptySeq
<1>2. rounds[n] \in Round
    BY <1>1, ElementOfSeq
<1>3. new \in Round
    BY <1>2 DEF Round
<1>4. rounds' = [rounds EXCEPT ![n] = new]
    BY DEF SaveRow, Current
<1>5. /\ rounds' \in Seq(Round) /\ Len(rounds') = n
      /\ \A r \in 1 .. n : rounds'[r] = IF r = n THEN new ELSE rounds[r]
    <2> HIDE DEF new
    <2> QED
        BY <1>1, <1>3, <1>4, ExceptSeq
<1>6. /\ new.calls = rounds[n].calls
      /\ \A q \in Pos : new.row[q] = IF q = p THEN status ELSE rounds[n].row[q]
    BY <1>2 DEF Round
<1> QED
    <2> HIDE DEF new
    <2>1. rounds'[n] = new
        BY <1>1, <1>5
    <2> QED
        BY <1>1, <1>5, <1>6, <2>1

\* The transcript of a round is an entry of the context.
LEMMA TranscriptTyped == ASSUME NEW r \in Round PROVE Transcript(r) \in Entry
BY DEF Transcript, Entry, Round, Observation

\* So is the transcript of a prefix of the rounds a sequence of entries.
LEMMA TranscriptsTyped ==
    ASSUME rounds \in Seq(Round), NEW n \in 0 .. Len(rounds)
    PROVE  [i \in 1 .. n |-> Transcript(rounds[i])] \in Seq(Entry)
<1>1. \A i \in 1 .. n : rounds[i] \in Round
    BY ElementOfSeq, LenProperties
<1>2. \A i \in 1 .. n : Transcript(rounds[i]) \in Entry
    BY <1>1, TranscriptTyped
<1>3. n \in Nat
    BY LenProperties
<1> QED
    BY <1>2, <1>3

\* Replay reads every round: only the last one can be open.
LEMMA ReplayReadsAll ==
    ASSUME rounds \in Seq(Round), OnlyLastRoundOpen
    PROVE  /\ Replayed = Len(rounds)
           /\ OpenRound <=> Len(rounds) > 0 /\ Open(rounds[Len(rounds)])
<1>1. Len(rounds) \in Nat
    BY LenProperties
<1>2. CASE \E i \in 1 .. Len(rounds) : Open(rounds[i])
    <2>1. \A i \in 1 .. Len(rounds) : Open(rounds[i]) => i = Len(rounds)
        BY <1>1 DEF OnlyLastRoundOpen
    <2>2. Len(rounds) > 0 /\ Open(rounds[Len(rounds)])
        BY <1>1, <1>2, <2>1
    <2>3. \E i \in 1 .. Len(rounds) : Open(rounds[i]) /\ \A j \in 1 .. i - 1 : ~Open(rounds[j])
        BY <1>1, <2>2 DEF OnlyLastRoundOpen
    <2>4. Replayed \in 1 .. Len(rounds) /\ Open(rounds[Replayed])
        BY <1>2, <2>3 DEF Replayed
    <2> QED
        BY <2>1, <2>2, <2>4 DEF OpenRound
<1>3. CASE ~\E i \in 1 .. Len(rounds) : Open(rounds[i])
    BY <1>1, <1>3 DEF Replayed, OpenRound
<1> QED
    BY <1>2, <1>3

\* The last round, when there is one.
LEMMA CurrentRound ==
    ASSUME TypeOK, rounds # <<>>
    PROVE  /\ Current \in Nat \ {0} /\ Current = Len(rounds)
           /\ rounds[Current] \in Round
           /\ Len(rounds[Current].calls) \in Nat
           /\ rounds[Current].calls \in Proposals
           /\ rounds[Current].row \in [Pos -> RowStatus]
           /\ Slots(rounds[Current]) = 1 .. Len(rounds[Current].calls)
           /\ Slots(rounds[Current]) \subseteq Pos
           /\ ran[Current] \in [Pos -> Nat]
<1>1. /\ Len(rounds) \in Nat \ {0} /\ rounds \in Seq(Round)
      /\ ran \in Seq([Pos -> Nat]) /\ Len(ran) = Len(rounds)
    BY EmptySeq DEF TypeOK
<1>2. rounds[Current] \in Round /\ ran[Current] \in [Pos -> Nat]
    BY <1>1, ElementOfSeq DEF Current
<1> QED
    BY <1>1, <1>2, SlotsArePositions DEF Current, Round

\* What saving an invocation row keeps, whatever the row.
LEMMA SaveRowKeeps ==
    ASSUME TypeOK, OnlyLastRoundOpen, RoundsWithinLimit, rounds # <<>>,
           NEW p \in Nat, NEW status \in RowStatus, SaveRow(p, status)
    PROVE  /\ rounds' \in Seq(Round) /\ rounds' # <<>>
           /\ Current' = Current /\ Len(rounds') = Len(rounds)
           /\ rounds'[Current].calls = rounds[Current].calls
           /\ Slots(rounds'[Current]) = Slots(rounds[Current])
           /\ \A r \in 1 .. Len(rounds) : r # Current => rounds'[r] = rounds[r]
           /\ \A q \in Pos : rounds'[Current].row[q] =
                  IF q = p THEN status ELSE rounds[Current].row[q]
           /\ OnlyLastRoundOpen' /\ RoundsWithinLimit'
<1>1. rounds \in Seq(Round)
    BY DEF TypeOK
<1>2. /\ rounds' \in Seq(Round) /\ Len(rounds') = Len(rounds) /\ Len(rounds) \in Nat \ {0}
      /\ \A r \in 1 .. Len(rounds) : rounds'[r].calls = rounds[r].calls
      /\ \A r \in 1 .. Len(rounds) - 1 : rounds'[r] = rounds[r]
      /\ \A q \in Pos : rounds'[Len(rounds)].row[q] =
                  IF q = p THEN status ELSE rounds[Len(rounds)].row[q]
    BY <1>1, SaveRowFacts
<1>3. OnlyLastRoundOpen' /\ RoundsWithinLimit'
    BY <1>2 DEF OnlyLastRoundOpen, RoundsWithinLimit
<1>4. rounds' # <<>>
    BY <1>2, EmptySeq
<1> QED
    BY <1>2, <1>3, <1>4 DEF Current, Slots

\* A saved row needs a result if its call was invoked more often than results were lost.
LEMMA SaveRowCovered ==
    ASSUME IInv, rounds # <<>>, task = "active", pc # "finalized",
           NEW p \in Pos, NEW status \in RowStatus, SaveRow(p, status),
           Terminal(status) \/ ran[Current][p] <= lost,
           pc = "record" => p = pos /\ Terminal(status),
           UNCHANGED <<ran, lost>>
    PROVE  LossesCoverTries'
<1>1. TypeOK /\ OnlyLastRoundOpen /\ RoundsWithinLimit /\ LossesCoverTries /\ p \in Nat
    BY DEF IInv, Pos
<1>2. /\ Current' = Current /\ Len(rounds') = Len(rounds)
      /\ \A r \in 1 .. Len(rounds) : r # Current => rounds'[r] = rounds[r]
      /\ \A q \in Pos : rounds'[Current].row[q] =
                  IF q = p THEN status ELSE rounds[Current].row[q]
    BY <1>1, SaveRowKeeps
<1> SUFFICES ASSUME NEW r \in 1 .. Len(rounds), NEW q \in Pos
             PROVE  Terminal(rounds'[r].row[q]) \/ ran[r][q] <= lost
    BY <1>2 DEF LossesCoverTries
<1>3. \/ Terminal(rounds[r].row[q])
      \/ ran[r][q] <= lost
      \/ pc = "record" /\ r = Current /\ q = pos
    BY <1>1 DEF LossesCoverTries
<1>4. CASE r # Current
    BY <1>2, <1>3, <1>4
<1>5. CASE r = Current /\ q # p
    BY <1>2, <1>3, <1>5
<1>6. CASE r = Current /\ q = p
    BY <1>2, <1>6
<1> QED
    BY <1>4, <1>5, <1>6

----------------------------------------------------------------------------
(* One lemma per step of the executor. *)

\* completeOpenRound creates a missing row, pending: the round stays open.
LEMMA CreateMissingRowStep ==
    ASSUME IInv, NEW p \in Pos, CreateMissingRow(p)
    PROVE  IInv'
<1>1. TypeOK /\ OnlyLastRoundOpen /\ RoundsWithinLimit
    BY DEF IInv
<1>2. /\ rounds # <<>> /\ task = "active" /\ pc # "finalized"
      /\ phase = "completion" /\ pc = "complete" /\ ~stop
      /\ p \in Slots(rounds[Current]) /\ p \in Nat \ {0}
    BY <1>1, CurrentRound DEF IInv, Located, CreateMissingRow, TypeOK, Pos, NextOpen
<1>3. SaveRow(p, "pending") /\ "pending" \in RowStatus
    BY DEF CreateMissingRow, RowStatus
<1>4. pos' = p /\ pc' = "activate"
    BY <1>2 DEF CreateMissingRow, locals
<1>5. TypeOK'
    <2>1. rounds' \in Seq(Round) /\ Len(rounds') = Len(rounds)
        BY <1>1, <1>2, <1>3, SaveRowKeeps
    <2> QED
        BY <1>1, <1>2, <1>4, <2>1 DEF CreateMissingRow, TypeOK, history, locals
<1>6. Located'
    BY <1>1, <1>2, <1>3, <1>4, SaveRowKeeps, CurrentRound
       DEF CreateMissingRow, IInv, Located, history, locals
<1>7. ClosedAtHead' /\ RoomAtRequest' /\ NotLate' /\ StopStartsAtMostOneCall'
    BY <1>2, <1>4
       DEF CreateMissingRow, IInv, ClosedAtHead, RoomAtRequest, NotLate, StopStartsAtMostOneCall,
           history, locals
<1>8. OnlyLastRoundOpen' /\ RoundsWithinLimit'
    BY <1>1, <1>2, <1>3, SaveRowKeeps
<1>9. Untried'
    BY <1>1, <1>2, <1>3, <1>4, SaveRowKeeps DEF CreateMissingRow, IInv, Untried, TypeOK, history, locals
<1>10. RepeatedOnlyAfterLoss' /\ UNCHANGED <<ran, lost>>
    BY DEF CreateMissingRow, IInv, RepeatedOnlyAfterLoss, history
<1>11. ran[Current][p] <= lost
    <2>1. ~Terminal(rounds[Current].row[p])
        BY <1>2 DEF CreateMissingRow, IInv, Located, NextOpen
    <2>2. Current \in 1 .. Len(rounds) /\ p \in Pos
        BY <1>1, <1>2, CurrentRound
    <2> QED
        BY <1>2, <2>1, <2>2 DEF CreateMissingRow, IInv, LossesCoverTries
<1>12. LossesCoverTries'
    BY <1>2, <1>3, <1>10, <1>11, SaveRowCovered DEF CreateMissingRow
<1> QED
    BY <1>5, <1>6, <1>7, <1>8, <1>9, <1>10, <1>12 DEF IInv

\* The row it created becomes active.
LEMMA ActivateMissingRowStep ==
    ASSUME IInv, ActivateMissingRow
    PROVE  IInv'
<1>1. TypeOK /\ OnlyLastRoundOpen /\ RoundsWithinLimit
    BY DEF IInv
<1>2. /\ rounds # <<>> /\ task = "active" /\ pc # "finalized"
      /\ phase = "completion" /\ pc = "activate"
      /\ pos \in Slots(rounds[Current]) /\ pos \in Pos /\ pos \in Nat \ {0}
    BY <1>1, CurrentRound DEF IInv, Located, ActivateMissingRow, TypeOK, Pos
<1>3. SaveRow(pos, "active") /\ "active" \in RowStatus
    BY DEF ActivateMissingRow, RowStatus
<1>4. pos' = pos /\ pc' = "invoke"
    BY <1>2 DEF ActivateMissingRow, locals
<1>5. TypeOK'
    <2>1. rounds' \in Seq(Round) /\ Len(rounds') = Len(rounds)
        BY <1>1, <1>2, <1>3, SaveRowKeeps
    <2> QED
        BY <1>1, <1>2, <1>4, <2>1 DEF ActivateMissingRow, TypeOK, history, locals
<1>6. Located'
    BY <1>1, <1>2, <1>3, <1>4, SaveRowKeeps, CurrentRound
       DEF ActivateMissingRow, IInv, Located, history, locals
<1>7. ClosedAtHead' /\ RoomAtRequest' /\ NotLate' /\ StopStartsAtMostOneCall'
    BY <1>2, <1>4
       DEF ActivateMissingRow, IInv, ClosedAtHead, RoomAtRequest, NotLate, StopStartsAtMostOneCall,
           history, locals
<1>8. OnlyLastRoundOpen' /\ RoundsWithinLimit'
    BY <1>1, <1>2, <1>3, SaveRowKeeps
<1>9. Untried'
    BY <1>1, <1>2, <1>3, <1>4, SaveRowKeeps DEF ActivateMissingRow, IInv, Untried, TypeOK, history, locals
<1>10. RepeatedOnlyAfterLoss' /\ UNCHANGED <<ran, lost>>
    BY DEF ActivateMissingRow, IInv, RepeatedOnlyAfterLoss, history
<1>11. ran[Current][pos] <= lost
    <2>1. ~Terminal(rounds[Current].row[pos])
        BY <1>2 DEF ActivateMissingRow, IInv, Located, Terminal
    <2>2. Current \in 1 .. Len(rounds) /\ pos \in Pos
        BY <1>1, <1>2, CurrentRound
    <2> QED
        BY <1>2, <2>1, <2>2 DEF ActivateMissingRow, IInv, LossesCoverTries
<1>12. LossesCoverTries'
    BY <1>2, <1>3, <1>10, <1>11, SaveRowCovered DEF ActivateMissingRow
<1> QED
    BY <1>5, <1>6, <1>7, <1>8, <1>9, <1>10, <1>12 DEF IInv

\* A row that was pending or active when the process died becomes active again.
LEMMA ActivateOpenRowStep ==
    ASSUME IInv, NEW p \in Pos, ActivateOpenRow(p)
    PROVE  IInv'
<1>1. TypeOK /\ OnlyLastRoundOpen /\ RoundsWithinLimit
    BY DEF IInv
<1>2. /\ rounds # <<>> /\ task = "active" /\ pc # "finalized"
      /\ phase = "completion" /\ pc = "complete" /\ ~stop
      /\ p \in Slots(rounds[Current]) /\ p \in Nat \ {0}
    BY <1>1, CurrentRound DEF IInv, Located, ActivateOpenRow, TypeOK, Pos, NextOpen
<1>3. SaveRow(p, "active") /\ "active" \in RowStatus
    BY DEF ActivateOpenRow, RowStatus
<1>4. pos' = p /\ pc' = "invoke"
    BY <1>2 DEF ActivateOpenRow, locals
<1>5. TypeOK'
    <2>1. rounds' \in Seq(Round) /\ Len(rounds') = Len(rounds)
        BY <1>1, <1>2, <1>3, SaveRowKeeps
    <2> QED
        BY <1>1, <1>2, <1>4, <2>1 DEF ActivateOpenRow, TypeOK, history, locals
<1>6. Located'
    BY <1>1, <1>2, <1>3, <1>4, SaveRowKeeps, CurrentRound
       DEF ActivateOpenRow, IInv, Located, history, locals
<1>7. ClosedAtHead' /\ RoomAtRequest' /\ NotLate' /\ StopStartsAtMostOneCall'
    BY <1>2, <1>4
       DEF ActivateOpenRow, IInv, ClosedAtHead, RoomAtRequest, NotLate, StopStartsAtMostOneCall,
           history, locals
<1>8. OnlyLastRoundOpen' /\ RoundsWithinLimit'
    BY <1>1, <1>2, <1>3, SaveRowKeeps
<1>9. Untried'
    BY <1>1, <1>2, <1>3, <1>4, SaveRowKeeps DEF ActivateOpenRow, IInv, Untried, TypeOK, history, locals
<1>10. RepeatedOnlyAfterLoss' /\ UNCHANGED <<ran, lost>>
    BY DEF ActivateOpenRow, IInv, RepeatedOnlyAfterLoss, history
<1>11. ran[Current][p] <= lost
    <2>1. ~Terminal(rounds[Current].row[p])
        BY <1>2 DEF ActivateOpenRow, IInv, Located, NextOpen
    <2>2. Current \in 1 .. Len(rounds) /\ p \in Pos
        BY <1>1, <1>2, CurrentRound
    <2> QED
        BY <1>2, <2>1, <2>2 DEF ActivateOpenRow, IInv, LossesCoverTries
<1>12. LossesCoverTries'
    BY <1>2, <1>3, <1>10, <1>11, SaveRowCovered DEF ActivateOpenRow
<1> QED
    BY <1>5, <1>6, <1>7, <1>8, <1>9, <1>10, <1>12 DEF IInv

\* The round loop activates the row of the next call.
LEMMA ActivateCallStep ==
    ASSUME IInv, ActivateCall
    PROVE  IInv'
<1>1. TypeOK /\ OnlyLastRoundOpen /\ RoundsWithinLimit
    BY DEF IInv
<1>2. /\ rounds # <<>> /\ task = "active" /\ pc # "finalized"
      /\ phase = "round" /\ pc = "run" /\ ~stop
      /\ pos \in Slots(rounds[Current]) /\ pos \in Pos /\ pos \in Nat \ {0}
    <2>1. /\ pc = "run" /\ ~stop /\ pos <= Len(rounds[Current].calls)
          /\ pos \in Nat \ {0} /\ rounds # <<>> /\ task = "active" /\ phase = "round"
        BY DEF IInv, Located, ActivateCall, TypeOK
    <2>2. /\ Len(rounds[Current].calls) \in Nat
          /\ Slots(rounds[Current]) = 1 .. Len(rounds[Current].calls)
          /\ Slots(rounds[Current]) \subseteq Pos
        BY <1>1, <2>1, CurrentRound
    <2> QED
        BY <2>1, <2>2
<1>3. SaveRow(pos, "active") /\ "active" \in RowStatus
    BY DEF ActivateCall, RowStatus
<1>4. pos' = pos /\ pc' = "invoke"
    BY <1>2 DEF ActivateCall, locals
<1>5. TypeOK'
    <2>1. rounds' \in Seq(Round) /\ Len(rounds') = Len(rounds)
        BY <1>1, <1>2, <1>3, SaveRowKeeps
    <2> QED
        BY <1>1, <1>2, <1>4, <2>1 DEF ActivateCall, TypeOK, history, locals
<1>6. Located'
    BY <1>1, <1>2, <1>3, <1>4, SaveRowKeeps, CurrentRound
       DEF ActivateCall, IInv, Located, history, locals
<1>7. ClosedAtHead' /\ RoomAtRequest' /\ NotLate' /\ StopStartsAtMostOneCall'
    BY <1>2, <1>4
       DEF ActivateCall, IInv, ClosedAtHead, RoomAtRequest, NotLate, StopStartsAtMostOneCall,
           history, locals
<1>8. OnlyLastRoundOpen' /\ RoundsWithinLimit'
    BY <1>1, <1>2, <1>3, SaveRowKeeps
<1>9. Untried'
    BY <1>1, <1>2, <1>3, <1>4, SaveRowKeeps, SMTT(30) DEF ActivateCall, IInv, Untried, TypeOK, history, locals
<1>10. RepeatedOnlyAfterLoss' /\ UNCHANGED <<ran, lost>>
    BY DEF ActivateCall, IInv, RepeatedOnlyAfterLoss, history
<1>11. ran[Current][pos] <= lost
    <2>1. ran[Current][pos] = 0 /\ lost \in Nat
        BY <1>1, <1>2 DEF ActivateCall, IInv, Untried, TypeOK
    <2> QED
        BY <2>1
<1>12. LossesCoverTries'
    BY <1>2, <1>3, <1>10, <1>11, SaveRowCovered DEF ActivateCall
<1> QED
    BY <1>5, <1>6, <1>7, <1>8, <1>9, <1>10, <1>12 DEF IInv

\* A pending row is saved for the next call of the round.
LEMMA ScheduleStep ==
    ASSUME IInv, Schedule
    PROVE  IInv'
<1>1. TypeOK /\ OnlyLastRoundOpen /\ RoundsWithinLimit
    BY DEF IInv
<1>2. /\ rounds # <<>> /\ task = "active" /\ pc # "finalized"
      /\ phase = "round" /\ pc = "schedule"
      /\ pos \in Slots(rounds[Current]) /\ pos \in Pos /\ pos \in Nat \ {0}
    BY <1>1, CurrentRound DEF IInv, Located, Schedule, TypeOK, Pos
<1>3. SaveRow(pos, "pending") /\ "pending" \in RowStatus
    BY DEF Schedule, RowStatus
<1>4. \/ pos' = pos + 1 /\ pos < Len(rounds[Current].calls) /\ pc' = "schedule"
      \/ pos' = 1 /\ pc' = "run"
    BY <1>2 DEF Schedule, locals
<1>5. TypeOK'
    <2>1. rounds' \in Seq(Round) /\ Len(rounds') = Len(rounds)
        BY <1>1, <1>2, <1>3, SaveRowKeeps
    <2>2. pos' \in Nat \ {0} /\ pc' \in {"schedule", "run"}
        BY <1>2, <1>4
    <2> QED
        BY <1>1, <2>1, <2>2 DEF Schedule, TypeOK, history, locals
<1>6. Located'
    BY <1>1, <1>2, <1>3, <1>4, SaveRowKeeps, CurrentRound
       DEF Schedule, IInv, Located, history, locals
<1>7. ClosedAtHead' /\ RoomAtRequest' /\ NotLate' /\ StopStartsAtMostOneCall'
    BY <1>2, <1>4
       DEF Schedule, IInv, ClosedAtHead, RoomAtRequest, NotLate, StopStartsAtMostOneCall,
           history, locals
<1>8. OnlyLastRoundOpen' /\ RoundsWithinLimit'
    BY <1>1, <1>2, <1>3, SaveRowKeeps
<1>9. Untried'
    BY <1>1, <1>2, <1>3, <1>4, SaveRowKeeps DEF Schedule, IInv, Untried, TypeOK, history, locals
<1>10. RepeatedOnlyAfterLoss' /\ UNCHANGED <<ran, lost>>
    BY DEF Schedule, IInv, RepeatedOnlyAfterLoss, history
<1>11. ran[Current][pos] <= lost
    <2>1. ran[Current][pos] = 0 /\ lost \in Nat
        BY <1>1, <1>2 DEF Schedule, IInv, Untried, TypeOK
    <2> QED
        BY <2>1
<1>12. LossesCoverTries'
    BY <1>2, <1>3, <1>10, <1>11, SaveRowCovered DEF Schedule
<1> QED
    BY <1>5, <1>6, <1>7, <1>8, <1>9, <1>10, <1>12 DEF IInv

\* The row of the call that ran becomes terminal, so every loss is paid for.
LEMMA RecordResultStep ==
    ASSUME IInv, RecordResult
    PROVE  IInv'
<1> DEFINE status == IF out[pos] = "error" THEN "error" ELSE "succeeded"
<1>1. TypeOK /\ OnlyLastRoundOpen /\ RoundsWithinLimit
    BY DEF IInv
<1>2. /\ rounds # <<>> /\ task = "active" /\ pc # "finalized"
      /\ pc = "record"
      /\ pos \in Slots(rounds[Current]) /\ pos \in Pos /\ pos \in Nat \ {0}
    BY <1>1, CurrentRound DEF IInv, Located, RecordResult, TypeOK, Pos
<1>3. SaveRow(pos, status) /\ status \in RowStatus
    BY DEF RecordResult, RowStatus
<1>4. \/ phase = "round" /\ pos' = pos + 1 /\ pc' = "run"
      \/ phase = "completion" /\ pos' = pos /\ pc' = "complete"
    BY <1>2 DEF RecordResult, IInv, TypeOK
<1>5. TypeOK'
    <2>1. rounds' \in Seq(Round) /\ Len(rounds') = Len(rounds)
        BY <1>1, <1>2, <1>3, SaveRowKeeps
    <2> QED
        <3>1. UNCHANGED <<goal, task, stop, phase, text, out, executed, prev, repeats, spent,
                          context, removed, ran, shadowed, late, lost, resumes, crashes>>
            BY DEF RecordResult, history
        <3>2. pos' \in Nat \ {0} /\ pc' \in {"run", "complete"}
            BY <1>2, <1>4
        <3> QED
            BY <1>1, <2>1, <3>1, <3>2 DEF TypeOK
<1>6. Located'
    <2>1. /\ rounds' # <<>> /\ Slots(rounds'[Current']) = Slots(rounds[Current])
          /\ \A q \in Pos : rounds'[Current'].row[q] =
                 IF q = pos THEN status ELSE rounds[Current].row[q]
        BY <1>1, <1>2, <1>3, SaveRowKeeps
    <2>2. /\ task' = "active" /\ phase' = phase /\ pc' \in {"run", "complete"}
          /\ pc' = "complete" => phase = "completion"
          /\ pc' = "run" => phase = "round" /\ pos' = pos + 1
        BY <1>2, <1>4 DEF RecordResult
    <2>3. ASSUME phase = "round", NEW q \in Slots(rounds[Current]), q < pos + 1
          PROVE  Terminal(rounds'[Current'].row[q])
        <3>1. q \in Pos /\ (q = pos \/ q < pos)
            BY <1>1, <1>2, <2>3, CurrentRound DEF Pos
        <3>2. CASE q = pos
            BY <2>1, <3>1, <3>2 DEF Terminal
        <3>3. CASE q # pos
            BY <1>2, <2>1, <2>3, <3>1, <3>3 DEF IInv, Located
        <3> QED
            BY <3>2, <3>3
    <2> QED
        BY <2>1, <2>2, <2>3 DEF Located
<1>7. ClosedAtHead' /\ RoomAtRequest' /\ NotLate' /\ StopStartsAtMostOneCall'
    BY <1>2, <1>4
       DEF RecordResult, IInv, ClosedAtHead, RoomAtRequest, NotLate, StopStartsAtMostOneCall,
           history, locals
<1>8. OnlyLastRoundOpen' /\ RoundsWithinLimit'
    BY <1>1, <1>2, <1>3, SaveRowKeeps
<1>9. Untried'
    <2>1. Current' = Current /\ phase' = phase /\ ran' = ran
        BY <1>1, <1>2, <1>3, SaveRowKeeps DEF RecordResult, history
    <2>2. phase = "round" => \A q \in Pos : q > pos => ran[Current][q] = 0
        BY <1>2 DEF IInv, Untried
    <2>3. \A q \in Pos : q >= pos + 1 => q > pos
        BY <1>2 DEF Pos
    <2> QED
        BY <1>4, <2>1, <2>2, <2>3 DEF Untried
<1>10. RepeatedOnlyAfterLoss' /\ UNCHANGED <<ran, lost>>
    BY DEF RecordResult, IInv, RepeatedOnlyAfterLoss, history
<1>11. Terminal(status)
    BY <1>1, <1>2, CurrentRound DEF RecordResult, IInv, LossesCoverTries, Untried, Terminal, TypeOK, Located
<1>12. LossesCoverTries'
    BY <1>2, <1>3, <1>10, <1>11, SaveRowCovered DEF RecordResult
<1> QED
    BY <1>5, <1>6, <1>7, <1>8, <1>9, <1>10, <1>12 DEF IInv

\* The allowlist blocks the first offending call of the last round.
LEMMA RejectRoundStep ==
    ASSUME IInv, RejectRound
    PROVE  IInv'
<1>1. TypeOK /\ OnlyLastRoundOpen /\ RoundsWithinLimit
    BY DEF IInv
<1>2. rounds # <<>> /\ task = "active" /\ phase = "round" /\ pc = "decide" /\ pc' = "reject"
    BY DEF IInv, Located, RejectRound
<1>3. PICK p \in Blocked(rounds[Current]) : SaveRow(p, "blocked")
    BY DEF RejectRound
<1>4. p \in Pos /\ p \in Nat /\ "blocked" \in RowStatus
    BY <1>1, <1>2, <1>3, CurrentRound DEF Blocked, Pos, RowStatus
<1>5. UNCHANGED <<goal, task, stop, phase, text, pos, out, executed, spent, context, removed, history>>
    BY DEF RejectRound
<1>6. TypeOK'
    <2>1. rounds' \in Seq(Round) /\ Len(rounds') = Len(rounds)
        BY <1>1, <1>2, <1>3, <1>4, SaveRowKeeps
    <2>2. repeats' \in Nat /\ prev' \in Proposals
        BY <1>1, <1>2, CurrentRound DEF RejectRound, RepeatsNow, TypeOK
    <2> QED
        BY <1>1, <1>2, <1>5, <2>1, <2>2 DEF TypeOK, history
<1>7. Located' /\ Untried'
    BY <1>1, <1>2, <1>3, <1>4, <1>5, SaveRowKeeps DEF IInv, Located, Untried
<1>8. ClosedAtHead' /\ RoomAtRequest' /\ NotLate' /\ StopStartsAtMostOneCall'
    BY <1>2, <1>5
       DEF IInv, ClosedAtHead, RoomAtRequest, NotLate, StopStartsAtMostOneCall, history
<1>9. OnlyLastRoundOpen' /\ RoundsWithinLimit'
    BY <1>1, <1>2, <1>3, <1>4, SaveRowKeeps
<1>10. RepeatedOnlyAfterLoss' /\ UNCHANGED <<ran, lost>>
    BY <1>5 DEF IInv, RepeatedOnlyAfterLoss, history
<1>11. Terminal("blocked") /\ pc # "record" /\ pc # "finalized"
    BY <1>2 DEF Terminal
<1>12. LossesCoverTries'
    BY <1>2, <1>3, <1>4, <1>10, <1>11, SaveRowCovered
<1> QED
    BY <1>6, <1>7, <1>8, <1>9, <1>10, <1>12 DEF IInv

\* Every way to return from executeTask, but for a throw of the invoker.
LEMMA ReturnStep ==
    ASSUME IInv, pc \notin {"idle", "returned", "record"},
           NEW status \in {"aborted", "failed", "succeeded"}, Return(status),
           pc = "finalized" => status = "succeeded",
           UNCHANGED <<goal, rounds, history>>
    PROVE  IInv'
<1>1. task' = status /\ task = "active" /\ pc' = "returned"
    BY DEF Return, IInv, Located
<1>2. TypeOK'
    BY <1>1, ForgetTyped DEF IInv, TypeOK, Return, history
<1>3. Located' /\ OnlyLastRoundOpen' /\ ClosedAtHead' /\ RoundsWithinLimit' /\ RoomAtRequest'
    BY <1>1 DEF IInv, Located, OnlyLastRoundOpen, ClosedAtHead, RoundsWithinLimit,
                RoomAtRequest, Return, Forget
<1>4. StopStartsAtMostOneCall' /\ NotLate' /\ RepeatedOnlyAfterLoss' /\ Untried'
    BY <1>1 DEF IInv, StopStartsAtMostOneCall, NotLate, RepeatedOnlyAfterLoss, Untried, history
<1>5. LossesCoverTries'
    BY <1>1 DEF IInv, LossesCoverTries, history
<1> QED
    BY <1>2, <1>3, <1>4, <1>5 DEF IInv

\* A new task starts with no rounds.
LEMMA StartStep == ASSUME IInv, Start PROVE IInv'
<1>1. /\ rounds = <<>> /\ task' = "active" /\ pc' = "head" /\ UNCHANGED <<rounds, locals, history>>
      /\ late = 0 /\ phase = phase'
    BY DEF IInv, Located, NotLate, Start, locals
<1>2. TypeOK'
    BY <1>1 DEF IInv, TypeOK, Start, locals, history
<1>3. \A r \in 1 .. Len(rounds') : FALSE
    BY <1>1
<1>4. OnlyLastRoundOpen' /\ ClosedAtHead' /\ RoundsWithinLimit' /\ RoomAtRequest'
    BY <1>1, <1>3 DEF IInv, OnlyLastRoundOpen, ClosedAtHead, RoundsWithinLimit, RoomAtRequest
<1>5. StopStartsAtMostOneCall' /\ NotLate' /\ RepeatedOnlyAfterLoss' /\ Untried'
    BY <1>1 DEF IInv, StopStartsAtMostOneCall, NotLate, RepeatedOnlyAfterLoss, Untried, history
<1>6. LossesCoverTries'
    BY <1>3 DEF LossesCoverTries
<1>7. Located'
    BY <1>1 DEF Start, IInv, Located
<1> QED
    BY <1>2, <1>4, <1>5, <1>6, <1>7 DEF IInv

\* A resume finds the rows closed but for the last round.
LEMMA ResumeStep == ASSUME IInv, Resume PROVE IInv'
<1>1. /\ TypeOK /\ OnlyLastRoundOpen /\ rounds \in Seq(Round) /\ Len(rounds) \in Nat
      /\ phase = "round"
    BY LenProperties DEF IInv, TypeOK, Located, Resume
<1>2. Replayed = Len(rounds) /\ (OpenRound <=> Len(rounds) > 0 /\ Open(rounds[Len(rounds)]))
    BY <1>1, ReplayReadsAll
<1>3. /\ task' = "active" /\ late' = 0 /\ pc' \in {"complete", "head"}
      /\ UNCHANGED <<goal, rounds, stop, text, pos, out, repeats, spent,
                     ran, shadowed, lost, crashes>>
      /\ pc' = "complete" => Len(rounds) > 0 /\ phase' = "completion"
      /\ pc' = "head" => phase' = "round" /\ ~(Len(rounds) > 0 /\ Open(rounds[Len(rounds)]))
    BY <1>2 DEF Resume
<1>4. TypeOK'
    <2>1. context' \in Seq(Entry)
        <3>1. Len(rounds) - 1 \in 0 .. Len(rounds) \/ ~OpenRound
            BY <1>1, <1>2
        <3>2. Len(rounds) \in 0 .. Len(rounds)
            BY <1>1
        <3> QED
            BY <1>1, <1>2, <3>1, <3>2, TranscriptsTyped DEF Resume
    <2>2. prev' \in Proposals \cup {<<>>}
        <3>1. Len(rounds) # 0 => rounds[Len(rounds)] \in Round
            BY <1>1, ElementOfSeq
        <3> QED
            BY <1>2, <3>1 DEF Resume, Round
    <2>3. executed' \in [Calls -> {"none", "ok", "error"}]
        BY DEF Resume
    <2>4. resumes' \in Nat /\ phase' \in {"completion", "round"} /\ removed' \subseteq Nat
        BY <1>1, <1>3 DEF Resume, TypeOK
    <2> QED
        BY <1>1, <1>3, <2>1, <2>2, <2>3, <2>4 DEF TypeOK
<1>5. Located'
    BY <1>1, <1>3 DEF Located
<1>6. ClosedAtHead' /\ OnlyLastRoundOpen'
    BY <1>1, <1>3 DEF ClosedAtHead, OnlyLastRoundOpen
<1>7. RoundsWithinLimit' /\ RoomAtRequest' /\ StopStartsAtMostOneCall' /\ NotLate'
    BY <1>3 DEF IInv, RoundsWithinLimit, RoomAtRequest, StopStartsAtMostOneCall, NotLate
<1>8. RepeatedOnlyAfterLoss' /\ Untried'
    BY <1>3 DEF IInv, RepeatedOnlyAfterLoss, Untried
<1>9. LossesCoverTries'
    BY <1>3 DEF Resume, IInv, LossesCoverTries
<1> QED
    BY <1>4, <1>5, <1>6, <1>7, <1>8, <1>9 DEF IInv

\* The stop signal changes no row and hands out no call.
LEMMA StopStep == ASSUME IInv, Stop PROVE IInv'
<1>1. TypeOK'
    BY DEF IInv, TypeOK, Stop, store, history
<1>2. Located' /\ OnlyLastRoundOpen' /\ ClosedAtHead' /\ RoundsWithinLimit' /\ RoomAtRequest'
    BY DEF Stop, store, IInv, Located, OnlyLastRoundOpen, ClosedAtHead, RoundsWithinLimit,
           RoomAtRequest, Current
<1>3. /\ StopStartsAtMostOneCall' /\ NotLate' /\ RepeatedOnlyAfterLoss' /\ Untried'
      /\ LossesCoverTries'
    BY DEF Stop, store, history, IInv, StopStartsAtMostOneCall, NotLate, RepeatedOnlyAfterLoss,
           Untried, LossesCoverTries, Current
<1> QED
    BY <1>1, <1>2, <1>3 DEF IInv

\* A crash is one more loss and forgets the locals.
LEMMA CrashStep == ASSUME IInv, Crash PROVE IInv'
<1>1. /\ pc' = "idle" /\ phase' = "round" /\ lost' = lost + 1 /\ lost \in Nat
      /\ UNCHANGED <<goal, task, rounds, ran, late>>
      /\ task # "none"
    BY DEF Crash, Forget, store, IInv, TypeOK, Located
<1>2. TypeOK'
    <2>1. /\ stop' \in BOOLEAN /\ phase' \in {"completion", "round"} /\ text' \in Text
          /\ pos' \in Nat \ {0} /\ out' \in [Pos -> Output]
          /\ executed' \in [Calls -> {"none", "ok", "error"}]
          /\ prev' \in Proposals \cup {<<>>} /\ context' \in Seq(Entry)
          /\ removed' \subseteq Nat /\ repeats' \in Nat /\ spent' \in Nat
        BY ForgetTyped DEF Crash
    <2>2. /\ TypeOK /\ UNCHANGED <<shadowed, resumes>> /\ crashes' = crashes + 1
        BY DEF IInv, Crash
    <2> QED
        BY <1>1, <2>1, <2>2, SMTT(30) DEF TypeOK
<1>3. Located' /\ OnlyLastRoundOpen' /\ ClosedAtHead' /\ RoundsWithinLimit' /\ RoomAtRequest'
    BY <1>1 DEF IInv, Located, OnlyLastRoundOpen, ClosedAtHead, RoundsWithinLimit, RoomAtRequest
<1>4. StopStartsAtMostOneCall' /\ NotLate' /\ Untried'
    BY <1>1 DEF IInv, StopStartsAtMostOneCall, NotLate, Untried
<1>5. /\ \A r \in 1 .. Len(ran) : \A p \in Pos : ran[r][p] \in Nat /\ ran[r][p] <= 1 + lost
      /\ Len(ran) = Len(rounds)
    <2>1. ran \in Seq([Pos -> Nat]) /\ Len(ran) = Len(rounds)
        BY DEF IInv, TypeOK
    <2>2. \A r \in 1 .. Len(ran) : ran[r] \in [Pos -> Nat]
        BY <2>1, ElementOfSeq
    <2> QED
        BY <2>1, <2>2 DEF IInv, RepeatedOnlyAfterLoss
<1>6. RepeatedOnlyAfterLoss'
    BY <1>1, <1>5 DEF RepeatedOnlyAfterLoss
<1>7. LossesCoverTries'
    BY <1>1, <1>5 DEF LossesCoverTries
<1> QED
    BY <1>2, <1>3, <1>4, <1>6, <1>7 DEF IInv

\* The completed round is closed, so the round loop may go on.
LEMMA CompletionEndsStep == ASSUME IInv, CompletionEnds PROVE IInv'
<1>1. /\ TypeOK /\ pc = "complete" /\ pc' = "head" /\ phase' = "round" /\ rounds # <<>>
      /\ task = "active"
      /\ UNCHANGED <<goal, task, rounds, stop, text, pos, out, executed, prev, repeats, spent,
                     removed, ran, shadowed, late, lost, resumes, crashes>>
    BY DEF CompletionEnds, store, history, IInv, Located
<1>2. context' \in Seq(Entry)
    <2>1. Transcript(rounds[Current]) \in Entry
        BY <1>1, CurrentRound, TranscriptTyped
    <2> QED
        BY <1>1, <2>1, AppendProperties DEF CompletionEnds, TypeOK
<1>3. TypeOK'
    BY <1>1, <1>2 DEF TypeOK
<1>4. \A r \in 1 .. Len(rounds) : ~Open(rounds[r])
    BY <1>1, CurrentRound DEF CompletionEnds, IInv, OnlyLastRoundOpen
<1>5. Located' /\ OnlyLastRoundOpen' /\ ClosedAtHead' /\ RoundsWithinLimit' /\ RoomAtRequest'
    BY <1>1, <1>4 DEF IInv, Located, OnlyLastRoundOpen, ClosedAtHead, RoundsWithinLimit,
                RoomAtRequest
<1>6. /\ StopStartsAtMostOneCall' /\ NotLate' /\ RepeatedOnlyAfterLoss' /\ Untried'
      /\ LossesCoverTries'
    BY <1>1 DEF IInv, StopStartsAtMostOneCall, NotLate, RepeatedOnlyAfterLoss, Untried,
                LossesCoverTries
<1> QED
    BY <1>3, <1>5, <1>6 DEF IInv

\* A round is requested only while there is room for its deliberation.
LEMMA RequestRoundStep == ASSUME IInv, RequestRound PROVE IInv'
<1>1. /\ pc = "head" /\ pc' = "request" /\ Len(rounds) < MaxSteps
      /\ UNCHANGED <<goal, task, rounds, locals, history>> /\ UNCHANGED <<phase, stop, pos>>
    BY DEF RequestRound, store, locals, Current, IInv, TypeOK, RoundsWithinLimit
<1>2. TypeOK'
    BY <1>1 DEF IInv, TypeOK, locals, history
<1>3. Located' /\ OnlyLastRoundOpen' /\ ClosedAtHead' /\ RoundsWithinLimit' /\ RoomAtRequest'
    BY <1>1 DEF IInv, Located, OnlyLastRoundOpen, ClosedAtHead, RoundsWithinLimit, RoomAtRequest
<1>4. /\ StopStartsAtMostOneCall' /\ NotLate' /\ RepeatedOnlyAfterLoss' /\ Untried'
      /\ LossesCoverTries'
    BY <1>1 DEF IInv, StopStartsAtMostOneCall, NotLate, RepeatedOnlyAfterLoss, Untried,
                LossesCoverTries, history
<1> QED
    BY <1>2, <1>3, <1>4 DEF IInv

\* A new deliberation row is appended after rounds that are closed.
LEMMA RoundReturnsStep ==
    ASSUME IInv, NEW calls \in Proposals, NEW said \in Text, NEW cost \in Costs,
           RoundReturns(calls, said, cost)
    PROVE  IInv'
<1> DEFINE new == [calls |-> calls, row |-> NoRows]
           n == Len(rounds)
<1>1. /\ TypeOK /\ pc = "request" /\ pc' = "decide" /\ pos' = 1 /\ phase = "round"
      /\ task = "active" /\ n \in Nat /\ n < MaxSteps /\ MaxSteps \in Nat
      /\ UNCHANGED <<goal, task, stop, phase, executed, prev, repeats, context, removed,
                     shadowed, late, lost, resumes, crashes>>
    BY LenProperties, BoundsAssumption
       DEF IInv, RoundReturns, Located, RoomAtRequest, TypeOK
<1>2. /\ rounds' \in Seq(Round) /\ Len(rounds') = n + 1 /\ rounds'[n + 1] = new
      /\ \A r \in 1 .. n : rounds'[r] = rounds[r]
    <2>1. new \in Round
        BY RowsTyped DEF Round
    <2> HIDE DEF new
    <2> QED
        BY <1>1, <2>1, AppendProperties DEF RoundReturns, TypeOK, new
<1>3. /\ ran' \in Seq([Pos -> Nat]) /\ Len(ran') = n + 1
      /\ \A p \in Pos : ran'[n + 1][p] = 0
      /\ \A r \in 1 .. n : ran'[r] = ran[r]
    <2> DEFINE zero == [p \in Pos |-> 0]
    <2>1. zero \in [Pos -> Nat] /\ \A p \in Pos : zero[p] = 0
        OBVIOUS
    <2>2. ran' = Append(ran, zero)
        BY DEF RoundReturns
    <2> HIDE DEF zero
    <2> QED
        BY <1>1, <2>1, <2>2, AppendProperties DEF TypeOK
<1>4. TypeOK'
    <2>1. cost \in Nat
        BY BoundsAssumption
    <2>2. spent' \in Nat /\ text' \in Text /\ out' \in [Pos -> Output]
        BY <1>1, <2>1, RowsTyped DEF RoundReturns, TypeOK
    <2> QED
        BY <1>1, <1>2, <1>3, <2>2 DEF TypeOK
<1>5. Current' = n + 1 /\ rounds' # <<>>
    BY <1>1, <1>2, EmptySeq DEF Current
<1>6. Located' /\ ClosedAtHead' /\ RoomAtRequest'
    BY <1>1, <1>5 DEF Located, ClosedAtHead, RoomAtRequest
<1>7. OnlyLastRoundOpen'
    BY <1>1, <1>2 DEF IInv, ClosedAtHead, OnlyLastRoundOpen
<1>8. RoundsWithinLimit'
    BY <1>1, <1>2 DEF RoundsWithinLimit
<1>9. StopStartsAtMostOneCall' /\ NotLate'
    BY <1>1 DEF IInv, StopStartsAtMostOneCall, NotLate
<1>10. Untried'
    BY <1>1, <1>3, <1>5 DEF Untried
<1>11. lost \in Nat /\ Len(ran) = n /\ \A r \in 1 .. n + 1 : r = n + 1 \/ r \in 1 .. n
    BY <1>1 DEF TypeOK
<1>12. RepeatedOnlyAfterLoss'
    BY <1>1, <1>3, <1>11 DEF IInv, RepeatedOnlyAfterLoss
<1>13. LossesCoverTries'
    <2>1. \A r \in 1 .. n, p \in Pos : Terminal(rounds'[r].row[p]) \/ ran'[r][p] <= lost
        BY <1>1, <1>2, <1>3 DEF IInv, LossesCoverTries
    <2>2. \A p \in Pos : ran'[n + 1][p] <= lost
        BY <1>3, <1>11
    <2> QED
        BY <1>1, <1>2, <1>11, <2>1, <2>2 DEF LossesCoverTries
<1> QED
    BY <1>4, <1>6, <1>7, <1>8, <1>9, <1>10, <1>12, <1>13 DEF IInv

\* An accepted round has no rows that are terminal yet.
LEMMA AcceptRoundStep == ASSUME IInv, AcceptRound PROVE IInv'
<1>1. /\ TypeOK /\ pc = "decide" /\ pc' = "schedule" /\ pos = 1 /\ phase = "round"
      /\ rounds # <<>> /\ task = "active"
      /\ UNCHANGED <<goal, task, rounds, stop, phase, text, pos, out, executed, spent, context, removed,
                     history>> /\ UNCHANGED <<ran, shadowed, late, lost, resumes, crashes>>
    BY DEF AcceptRound, store, history, IInv, Located
<1>2. prev' \in Proposals /\ repeats' \in Nat
    BY <1>1, CurrentRound DEF AcceptRound, RepeatsNow, TypeOK
<1>3. TypeOK'
    BY <1>1, <1>2 DEF TypeOK
<1>4. pos \in Slots(rounds[Current])
    <2>1. Len(rounds[Current].calls) # 0
        BY <1>1, CurrentRound, ProposalsAssumption, EmptySeq DEF AcceptRound
    <2> QED
        BY <1>1, <2>1, CurrentRound
<1>5. Located' /\ OnlyLastRoundOpen' /\ ClosedAtHead' /\ RoundsWithinLimit' /\ RoomAtRequest'
    BY <1>1, <1>4 DEF IInv, Located, OnlyLastRoundOpen, ClosedAtHead, RoundsWithinLimit,
                RoomAtRequest, Current
<1>6. /\ StopStartsAtMostOneCall' /\ NotLate' /\ RepeatedOnlyAfterLoss' /\ Untried'
      /\ LossesCoverTries'
    BY <1>1 DEF IInv, StopStartsAtMostOneCall, NotLate, RepeatedOnlyAfterLoss, Untried,
                LossesCoverTries, Current
<1> QED
    BY <1>3, <1>5, <1>6 DEF IInv

\* A result is at hand, from the dedupe table or from the invoker.
LEMMA ReuseResultStep == ASSUME IInv, ReuseResult PROVE IInv'
<1>1. /\ TypeOK /\ pc = "invoke" /\ pc' = "record" /\ rounds # <<>> /\ task = "active"
      /\ phase = "round" /\ pos \in Slots(rounds[Current]) /\ late = 0
      /\ UNCHANGED <<goal, task, rounds, stop, phase, text, pos, executed, prev, repeats, spent,
                     context, removed, history>> /\ UNCHANGED <<ran, shadowed, late, lost, resumes, crashes>>
    BY DEF ReuseResult, Deduplicated, store, history, IInv, Located, NotLate
<1>2. out' \in [Pos -> Output]
    BY <1>1 DEF ReuseResult, TypeOK, Output
<1>3. TypeOK'
    BY <1>1, <1>2 DEF TypeOK
<1>4. Located' /\ OnlyLastRoundOpen' /\ ClosedAtHead' /\ RoundsWithinLimit' /\ RoomAtRequest'
    BY <1>1 DEF IInv, Located, OnlyLastRoundOpen, ClosedAtHead, RoundsWithinLimit,
                RoomAtRequest, Current
<1>5. /\ StopStartsAtMostOneCall' /\ NotLate' /\ RepeatedOnlyAfterLoss' /\ LossesCoverTries'
    BY <1>1 DEF IInv, StopStartsAtMostOneCall, NotLate, RepeatedOnlyAfterLoss,
                LossesCoverTries, Current
<1>6. Untried'
    <2>1. \A q \in Pos : q > pos => q >= pos
        BY <1>1 DEF TypeOK, Pos
    <2> QED
        BY <1>1, <2>1 DEF IInv, Untried, Current
<1> QED
    BY <1>3, <1>4, <1>5, <1>6 DEF IInv

\* Handing a call to the invoker: it was tried at most as often as a result was lost.
LEMMA HandToInvokerFacts ==
    ASSUME IInv, pc = "invoke", HandToInvoker
    PROVE  /\ TypeOK /\ rounds # <<>> /\ task = "active"
           /\ pos \in Slots(rounds[Current]) /\ pos \in Pos
           /\ ran' \in Seq([Pos -> Nat]) /\ Len(ran') = Len(rounds) /\ Len(ran) = Len(rounds)
           /\ \A r \in 1 .. Len(rounds), q \in Pos :
                  ran'[r][q] = IF r = Current /\ q = pos THEN ran[r][q] + 1 ELSE ran[r][q]
           /\ \A r \in 1 .. Len(rounds), q \in Pos : ran[r][q] \in Nat
           /\ ran[Current][pos] <= lost /\ lost \in Nat
           /\ late' \in {0, 1} /\ (~stop => late' = 0)
<1>1. /\ TypeOK /\ rounds # <<>> /\ task = "active" /\ pos \in Slots(rounds[Current]) /\ late = 0
      /\ rounds[Current].row[pos] = "active"
    BY DEF IInv, Located, NotLate
<1>2. pos \in Pos /\ Current \in 1 .. Len(rounds) /\ ran[Current] \in [Pos -> Nat]
    BY <1>1, CurrentRound
<1>3. /\ ran \in Seq([Pos -> Nat]) /\ Len(ran) = Len(rounds) /\ lost \in Nat
    BY <1>1 DEF TypeOK
<1> DEFINE new == [ran[Current] EXCEPT ![pos] = ran[Current][pos] + 1]
<1>4. /\ new \in [Pos -> Nat]
      /\ \A q \in Pos : new[q] = IF q = pos THEN ran[Current][q] + 1 ELSE ran[Current][q]
    BY <1>2
<1>5. ran' = [ran EXCEPT ![Current] = new]
    BY DEF HandToInvoker
<1>6. /\ ran' \in Seq([Pos -> Nat]) /\ Len(ran') = Len(ran)
      /\ \A r \in 1 .. Len(ran) : ran'[r] = IF r = Current THEN new ELSE ran[r]
    <2> HIDE DEF new
    <2> QED
        BY <1>2, <1>3, <1>4, <1>5, ExceptSeq
<1>7. ran[Current][pos] <= lost
    BY <1>1, <1>2 DEF IInv, LossesCoverTries, Terminal
<1>8. \A r \in 1 .. Len(rounds), q \in Pos : ran[r][q] \in Nat
    BY <1>3, ElementOfSeq
<1>9. late' \in {0, 1} /\ (~stop => late' = 0)
    BY <1>1 DEF HandToInvoker
<1>10. \A r \in 1 .. Len(rounds), q \in Pos :
           ran'[r][q] = IF r = Current /\ q = pos THEN ran[r][q] + 1 ELSE ran[r][q]
    <2> HIDE DEF new
    <2> QED
        BY <1>3, <1>4, <1>6
<1> QED
    BY <1>1, <1>2, <1>3, <1>6, <1>7, <1>8, <1>9, <1>10

\* A call is handed to the invoker and returns.
LEMMA InvokeStep ==
    ASSUME IInv, NEW result \in {"ok", "error"}, Invoke(result)
    PROVE  IInv'
<1>1. pc = "invoke" /\ HandToInvoker /\ pc' = "record"
    BY DEF Invoke
<1>2. /\ UNCHANGED <<goal, task, rounds, stop, phase, text, pos, prev, repeats, spent, context, removed,
                     shadowed, lost, resumes, crashes>>
      /\ Current' = Current
    BY DEF Invoke, store, Current
<1>3. TypeOK'
    <2>1. out' \in [Pos -> Output] /\ executed' \in [Calls -> {"none", "ok", "error"}]
        BY <1>1, HandToInvokerFacts DEF Invoke, TypeOK, Output
    <2>2. /\ TypeOK /\ late' \in Nat
          /\ ran' \in Seq([Pos -> Nat]) /\ Len(ran') = Len(rounds)
        BY <1>1, HandToInvokerFacts
    <2> QED
        BY <1>1, <1>2, <2>1, <2>2 DEF TypeOK
<1>4. Located' /\ OnlyLastRoundOpen' /\ ClosedAtHead' /\ RoundsWithinLimit' /\ RoomAtRequest'
    BY <1>1, <1>2 DEF IInv, Located, OnlyLastRoundOpen, ClosedAtHead, RoundsWithinLimit,
                RoomAtRequest
<1>5. StopStartsAtMostOneCall' /\ NotLate'
    BY <1>1, <1>2, HandToInvokerFacts DEF StopStartsAtMostOneCall, NotLate
<1>6. RepeatedOnlyAfterLoss'
    BY <1>1, <1>2, HandToInvokerFacts DEF IInv, RepeatedOnlyAfterLoss
<1>7. Untried'
    <2>1. Current \in 1 .. Len(rounds) /\ \A q \in Pos : q > pos => q >= pos /\ q # pos
        BY <1>1, HandToInvokerFacts, CurrentRound DEF Pos
    <2> QED
        BY <1>1, <1>2, <2>1, HandToInvokerFacts DEF IInv, Untried
<1>8. LossesCoverTries'
    BY <1>1, <1>2, HandToInvokerFacts, ZenonT(40) DEF IInv, LossesCoverTries
<1> QED
    BY <1>3, <1>4, <1>5, <1>6, <1>7, <1>8 DEF IInv

\* A call is handed to the invoker and throws: one more loss.
LEMMA InvokeThrowsStep == ASSUME IInv, InvokeThrows PROVE IInv'
<1>1. /\ pc = "invoke" /\ HandToInvoker /\ lost' = lost + 1 /\ pc' = "returned"
      /\ task' \in {"aborted", "failed"} /\ Forget /\ phase' = "round"
      /\ UNCHANGED <<goal, rounds, shadowed, resumes, crashes>>
    BY DEF InvokeThrows, Return, Forget
<1>2. TypeOK'
    <2>1. late' \in Nat
        BY <1>1, HandToInvokerFacts
    <2>2. lost' \in Nat
        BY <1>1, HandToInvokerFacts
    <2>3. /\ stop' \in BOOLEAN /\ phase' \in {"completion", "round"} /\ text' \in Text
          /\ pos' \in Nat \ {0} /\ out' \in [Pos -> Output]
          /\ executed' \in [Calls -> {"none", "ok", "error"}]
          /\ prev' \in Proposals \cup {<<>>} /\ context' \in Seq(Entry)
          /\ removed' \subseteq Nat /\ repeats' \in Nat /\ spent' \in Nat
        BY <1>1, ForgetTyped
    <2>4. TypeOK /\ ran' \in Seq([Pos -> Nat]) /\ Len(ran') = Len(rounds)
        BY <1>1, HandToInvokerFacts DEF IInv
    <2> QED
        BY <1>1, <2>1, <2>2, <2>3, <2>4 DEF TypeOK
<1>3. Located' /\ OnlyLastRoundOpen' /\ ClosedAtHead' /\ RoundsWithinLimit' /\ RoomAtRequest'
    BY <1>1 DEF IInv, Located, OnlyLastRoundOpen, ClosedAtHead, RoundsWithinLimit, RoomAtRequest
<1>4. StopStartsAtMostOneCall' /\ NotLate' /\ Untried'
    BY <1>1, HandToInvokerFacts DEF StopStartsAtMostOneCall, NotLate, Untried
<1>5. /\ \A r \in 1 .. Len(rounds), q \in Pos : ran'[r][q] <= lost'
      /\ lost' \in Nat /\ Len(ran') = Len(rounds)
    <2>1. \A r \in 1 .. Len(rounds), q \in Pos : ran[r][q] <= 1 + lost
        BY <1>1, HandToInvokerFacts DEF IInv, RepeatedOnlyAfterLoss
    <2>2. /\ \A r \in 1 .. Len(rounds), q \in Pos :
                 /\ ran'[r][q] = IF r = Current /\ q = pos THEN ran[r][q] + 1 ELSE ran[r][q]
                 /\ ran[r][q] \in Nat
          /\ ran[Current][pos] <= lost /\ lost \in Nat /\ lost' = lost + 1
          /\ Len(ran') = Len(rounds)
        BY <1>1, HandToInvokerFacts
    <2> QED
        BY <2>1, <2>2
<1>6. RepeatedOnlyAfterLoss'
    <2>1. \A r \in 1 .. Len(rounds), q \in Pos : ran'[r][q] <= 1 + lost'
        <3>1. \A r \in 1 .. Len(rounds), q \in Pos : ran'[r][q] \in Nat
            BY <1>1, HandToInvokerFacts
        <3> QED
            BY <1>5, <3>1
    <2> QED
        BY <1>5, <2>1 DEF RepeatedOnlyAfterLoss
<1>7. LossesCoverTries'
    BY <1>1, <1>5 DEF LossesCoverTries
<1> QED
    BY <1>2, <1>3, <1>4, <1>6, <1>7 DEF IInv

\* Saving the deliberation again hides rows of the last round only.
LEMMA FinalizeRoundStep == ASSUME IInv, FinalizeRound PROVE IInv'
<1> DEFINE new == [calls |-> rounds[Current].calls, row |-> NoRows]
<1>1. /\ TypeOK /\ pc = "run" /\ pc' = "finalized" /\ phase = "round" /\ rounds # <<>>
      /\ task = "active" /\ UNCHANGED <<goal, task, locals, ran, late, lost, resumes, crashes>>
      /\ UNCHANGED <<phase, stop, pos>>
    BY DEF FinalizeRound, RoundRan, IInv, Located, locals
<1>2. new \in Round
    BY <1>1, CurrentRound, RowsTyped DEF Round
<1>3. /\ rounds' \in Seq(Round) /\ Len(rounds') = Len(rounds) /\ Current' = Current
      /\ \A r \in 1 .. Len(rounds) : r # Current => rounds'[r] = rounds[r]
      /\ Current \in 1 .. Len(rounds) /\ Current = Len(rounds) /\ rounds' # <<>>
    <2>1. Current \in 1 .. Len(rounds) /\ Current = Len(rounds) /\ rounds \in Seq(Round)
        BY <1>1, CurrentRound DEF TypeOK
    <2>2. rounds' = [rounds EXCEPT ![Current] = new]
        BY DEF FinalizeRound, ResaveDeliberation
    <2>3. /\ rounds' \in Seq(Round) /\ Len(rounds') = Len(rounds)
          /\ \A r \in 1 .. Len(rounds) : r # Current => rounds'[r] = rounds[r]
        <3> HIDE DEF new
        <3> QED
            BY <1>2, <2>1, <2>2, ExceptSeq
    <2> QED
        BY <2>1, <2>3, EmptySeq DEF Current
<1>4. TypeOK'
    <2>1. shadowed' \subseteq Nat \X Pos
        BY <1>1, <1>3, CurrentRound DEF FinalizeRound, ResaveDeliberation, TypeOK
    <2> QED
        BY <1>1, <1>3, <2>1 DEF TypeOK, locals
<1>5. Located' /\ ClosedAtHead' /\ RoomAtRequest' /\ Untried'
    BY <1>1, <1>3 DEF Located, ClosedAtHead, RoomAtRequest, Untried
<1>6. OnlyLastRoundOpen' /\ RoundsWithinLimit'
    BY <1>3 DEF IInv, OnlyLastRoundOpen, RoundsWithinLimit
<1>7. StopStartsAtMostOneCall' /\ NotLate' /\ RepeatedOnlyAfterLoss'
    BY <1>1 DEF IInv, StopStartsAtMostOneCall, NotLate, RepeatedOnlyAfterLoss
<1>8. LossesCoverTries'
    BY <1>1, <1>3 DEF IInv, LossesCoverTries
<1> QED
    BY <1>4, <1>5, <1>6, <1>7, <1>8 DEF IInv

\* The results of a closed round go into the context.
LEMMA FeedBackStep == ASSUME IInv, NEW large \in BOOLEAN, FeedBack(large) PROVE IInv'
<1>1. /\ TypeOK /\ pc = "run" /\ pc' = "head" /\ phase = "round" /\ rounds # <<>>
      /\ task = "active" /\ pos > Len(rounds[Current].calls)
      /\ UNCHANGED <<goal, task, rounds, stop, phase, text, pos, out, executed, prev, repeats,
                     spent, ran, shadowed, late, lost, resumes, crashes>>
    BY DEF FeedBack, RoundRan, IInv, Located, store, history
<1>2. context' \in Seq(Entry)
    <2> DEFINE new == [calls |-> rounds[Current].calls, results |-> [p \in Pos |-> Result(out[p])]]
    <2>1. new \in Entry
        <3>1. \A p \in Pos : Result(out[p]) \in {"none", "ok", "error"}
            BY <1>1 DEF TypeOK, Output, Result
        <3> QED
            BY <1>1, <3>1, CurrentRound DEF Entry
    <2>2. context' = Append(context, new)
        BY DEF FeedBack
    <2> HIDE DEF new
    <2> QED
        BY <1>1, <2>1, <2>2, AppendProperties DEF TypeOK
<1>7. removed' \subseteq Nat
    <2>1. \A r \in OldestRounds(ToolRounds(context', removed)) : r \in Nat
        <3>1. DOMAIN context' \subseteq Nat
            BY <1>2
        <3> QED
            BY <3>1 DEF OldestRounds, ToolRounds
    <2> QED
        BY <1>1, <2>1 DEF FeedBack, TypeOK
<1>3. TypeOK'
    BY <1>1, <1>2, <1>7 DEF TypeOK
<1>4. \A r \in 1 .. Len(rounds) : ~Open(rounds[r])
    <2>1. ~Open(rounds[Current])
        <3>1. /\ Slots(rounds[Current]) = 1 .. Len(rounds[Current].calls)
              /\ Len(rounds[Current].calls) \in Nat /\ pos \in Nat
            BY <1>1, CurrentRound DEF TypeOK
        <3>2. \A q \in Slots(rounds[Current]) : q < pos
            BY <1>1, <3>1
        <3> QED
            BY <1>1, <3>2 DEF IInv, Located, Open
    <2> QED
        BY <1>1, <2>1, CurrentRound DEF IInv, OnlyLastRoundOpen
<1>5. Located' /\ OnlyLastRoundOpen' /\ ClosedAtHead' /\ RoundsWithinLimit' /\ RoomAtRequest'
    BY <1>1, <1>4 DEF IInv, Located, OnlyLastRoundOpen, ClosedAtHead, RoundsWithinLimit,
                RoomAtRequest
<1>6. /\ StopStartsAtMostOneCall' /\ NotLate' /\ RepeatedOnlyAfterLoss' /\ Untried'
      /\ LossesCoverTries'
    BY <1>1 DEF IInv, StopStartsAtMostOneCall, NotLate, RepeatedOnlyAfterLoss, Untried,
                LossesCoverTries
<1> QED
    BY <1>3, <1>5, <1>6 DEF IInv

\* Settling the Goal row touches no row of the task.
LEMMA SettleGoalStep == ASSUME IInv, SettleGoal PROVE IInv'
<1>1. /\ pc = "returned" /\ pc' = "idle" /\ goal' = task /\ phase = "round"
      /\ UNCHANGED <<task, rounds, stop, phase, text, pos, out, executed, prev, repeats,
                     spent, context, removed, ran, shadowed, late, lost, resumes, crashes>>
    BY DEF SettleGoal, locals, history, IInv, Located
<1>2. task \in {"active", "aborted", "succeeded", "failed"}
    BY <1>1 DEF IInv, TypeOK, Located
<1>3. TypeOK'
    BY <1>1, <1>2 DEF IInv, TypeOK
<1>4. Located' /\ OnlyLastRoundOpen' /\ ClosedAtHead' /\ RoundsWithinLimit' /\ RoomAtRequest'
    BY <1>1 DEF IInv, Located, OnlyLastRoundOpen, ClosedAtHead, RoundsWithinLimit, RoomAtRequest
<1>5. /\ StopStartsAtMostOneCall' /\ NotLate' /\ RepeatedOnlyAfterLoss' /\ Untried'
      /\ LossesCoverTries'
    BY <1>1 DEF IInv, StopStartsAtMostOneCall, NotLate, RepeatedOnlyAfterLoss, Untried,
                LossesCoverTries
<1> QED
    BY <1>3, <1>4, <1>5 DEF IInv

\* A stuttering step keeps the invariant.
LEMMA StutterStep == ASSUME IInv, UNCHANGED vars PROVE IInv'
<1>1. UNCHANGED <<goal, task, rounds, pc, stop, phase, text, pos, out, executed, prev, repeats,
                  spent, context, removed, ran, shadowed, late, lost, resumes, crashes>>
    BY DEF vars, store, locals, history
<1>2. TypeOK'
    BY <1>1 DEF IInv, TypeOK
<1>3. Located' /\ OnlyLastRoundOpen' /\ ClosedAtHead' /\ RoundsWithinLimit' /\ RoomAtRequest'
    BY <1>1 DEF IInv, Located, OnlyLastRoundOpen, ClosedAtHead, RoundsWithinLimit, RoomAtRequest,
                Current
<1>4. /\ StopStartsAtMostOneCall' /\ NotLate' /\ RepeatedOnlyAfterLoss' /\ Untried'
      /\ LossesCoverTries'
    BY <1>1 DEF IInv, StopStartsAtMostOneCall, NotLate, RepeatedOnlyAfterLoss, Untried,
                LossesCoverTries, Current
<1> QED
    BY <1>2, <1>3, <1>4 DEF IInv

----------------------------------------------------------------------------
(* The invariant. *)

\* The initial state satisfies the inductive invariant.
LEMMA InitEstablishes == Init => IInv
<1> SUFFICES ASSUME Init PROVE IInv
    OBVIOUS
<1>1. /\ rounds \in Seq(Round) /\ context \in Seq(Entry) /\ ran \in Seq([Pos -> Nat])
      /\ Len(rounds) = 0 /\ Len(ran) = 0
    BY EmptySeq DEF Init
<1>2. TypeOK
    <2>1. stop \in BOOLEAN
        BY DEF Init
    <2>2. prev \in Proposals \cup {<<>>}
        BY DEF Init
    <2> QED
        BY <1>1, <2>1, <2>2, RowsTyped DEF Init, TypeOK, Text
<1>3. Located /\ OnlyLastRoundOpen /\ ClosedAtHead /\ RoomAtRequest
    BY <1>1 DEF Init, Located, OnlyLastRoundOpen, ClosedAtHead, RoomAtRequest
<1>4. RoundsWithinLimit
    BY <1>1, BoundsAssumption DEF RoundsWithinLimit
<1>5. StopStartsAtMostOneCall /\ NotLate /\ RepeatedOnlyAfterLoss /\ Untried /\ LossesCoverTries
    BY <1>1 DEF Init, StopStartsAtMostOneCall, NotLate, RepeatedOnlyAfterLoss, Untried,
                LossesCoverTries
<1> QED
    BY <1>2, <1>3, <1>4, <1>5 DEF IInv

\* Every step keeps the inductive invariant: one step per action.
LEMMA StepPreserves == IInv /\ [Next]_vars => IInv'
<1> SUFFICES ASSUME IInv, [Next]_vars PROVE IInv'
    OBVIOUS
<1>1. CASE UNCHANGED vars
    BY <1>1, StutterStep
<1>2. CASE Start \/ Resume \/ Stop \/ Crash
    BY <1>2, StartStep, ResumeStep, StopStep, CrashStep
<1>3. ASSUME NEW p \in Pos, CreateMissingRow(p) \/ ActivateOpenRow(p) PROVE IInv'
    BY <1>3, CreateMissingRowStep, ActivateOpenRowStep
<1>4. CASE ActivateMissingRow \/ CompletionEnds
    BY <1>4, ActivateMissingRowStep, CompletionEndsStep
<1>5. CASE \/ CompletionStops \/ MaxStepsReached \/ StopAtHead \/ BudgetExceeded \/ RoundFails
           \/ EmptyRoundReturns \/ FinalAnswer \/ NotConverging \/ RejectTask
           \/ StopBeforeCall \/ FinishTask
    <2>1. \E status \in {"aborted", "failed", "succeeded"} :
              /\ Return(status) /\ UNCHANGED <<goal, rounds, history>>
              /\ pc \notin {"idle", "returned", "record"}
              /\ pc = "finalized" => status = "succeeded"
        BY <1>5 DEF CompletionStops, MaxStepsReached, StopAtHead, BudgetExceeded, RoundFails,
                    EmptyRoundReturns, FinalAnswer, NotConverging, RejectTask, StopBeforeCall,
                    FinishTask
    <2> QED
        BY <2>1, ReturnStep
<1>6. CASE RequestRound
    BY <1>6, RequestRoundStep
<1>7. ASSUME NEW calls \in Proposals, NEW said \in Text, NEW cost \in Costs,
             RoundReturns(calls, said, cost)
      PROVE  IInv'
    BY <1>7, RoundReturnsStep
<1>8. CASE RejectRound \/ AcceptRound \/ Schedule \/ ActivateCall
    BY <1>8, RejectRoundStep, AcceptRoundStep, ScheduleStep, ActivateCallStep
<1>9. CASE ReuseResult \/ InvokeThrows \/ RecordResult
    BY <1>9, ReuseResultStep, InvokeThrowsStep, RecordResultStep
<1>10. ASSUME NEW result \in {"ok", "error"}, Invoke(result) PROVE IInv'
    BY <1>10, InvokeStep
<1>11. CASE FinalizeRound \/ (\E large \in BOOLEAN : FeedBack(large)) \/ SettleGoal
    BY <1>11, FinalizeRoundStep, FeedBackStep, SettleGoalStep
<1> QED
    BY <1>1, <1>2, <1>3, <1>4, <1>5, <1>6, <1>7, <1>8, <1>9, <1>10, <1>11 DEF Next, Executor

\* The inductive invariant holds throughout: where executeTask is tells which rounds may be
\* open, and a call was invoked no more often than results were lost, plus the run at hand.
THEOREM Invariant == Spec => []IInv
BY InitEstablishes, StepPreserves, PTL DEF Spec

----------------------------------------------------------------------------
(* The properties. *)

\* Every variable keeps its shape, whatever the model proposes and the tools answer.
THEOREM TypeCorrect == Spec => []TypeOK
<1>1. IInv => TypeOK
    BY DEF IInv
<1> QED
    BY <1>1, Invariant, PTL

\* Only the last deliberation of a task may have calls without a result, so replay
\* by replayPersistedSteps loses no call.
THEOREM OnlyLastOpen == Spec => []OnlyLastRoundOpen
<1>1. IInv => OnlyLastRoundOpen
    BY DEF IInv
<1> QED
    BY <1>1, Invariant, PTL

\* No number of resumes takes a task beyond maxSteps model rounds.
THEOREM WithinLimit == Spec => []RoundsWithinLimit
<1>1. IInv => RoundsWithinLimit
    BY DEF IInv
<1> QED
    BY <1>1, Invariant, PTL

\* A stop takes effect after the call that is being started, at the latest.
THEOREM StopIsPrompt == Spec => []StopStartsAtMostOneCall
<1>1. IInv => StopStartsAtMostOneCall
    BY DEF IInv
<1> QED
    BY <1>1, Invariant, PTL

\* Each further invocation of one call is paid for by a crash or a throw.
THEOREM RepeatsAreLosses == Spec => []RepeatedOnlyAfterLoss
<1>1. IInv => RepeatedOnlyAfterLoss
    BY DEF IInv
<1> QED
    BY <1>1, Invariant, PTL

\* The rows of a task that succeeded are not written again.
THEOREM SucceededStays == Spec => SucceededIsFinal
<1>1. IInv /\ [Next]_vars => [task = "succeeded" => UNCHANGED <<task, rounds, ran>>]_vars
    <2> SUFFICES ASSUME IInv, Next, task = "succeeded" PROVE UNCHANGED <<task, rounds, ran>>
        OBVIOUS
    <2>1. pc \in {"idle", "returned"}
        BY DEF IInv, TypeOK, Located
    <2>2. ~Start /\ ~Resume
        BY DEF Start, Resume
    <2>3. Stop \/ Crash \/ SettleGoal
        BY <2>1, <2>2
           DEF Next, Executor, CreateMissingRow, ActivateOpenRow, CompletionStops,
               ActivateMissingRow, CompletionEnds, MaxStepsReached, StopAtHead, BudgetExceeded,
               RequestRound, RoundFails, RoundReturns, EmptyRoundReturns, FinalAnswer,
               NotConverging, RejectRound, RejectTask, AcceptRound, Schedule, StopBeforeCall,
               ActivateCall, ReuseResult, Invoke, InvokeThrows, RecordResult, FinalizeRound,
               FinishTask, FeedBack, RoundRan
    <2> QED
        BY <2>3 DEF Stop, Crash, SettleGoal, store, history
<1> QED
    BY <1>1, Invariant, PTL DEF Spec, SucceededIsFinal

----------------------------------------------------------------------------
(* The second invariant, step by step. *)

\* Before the first round there is nothing to tell.
LEMMA NothingTold == rounds = <<>> => Told(Len(rounds)) = <<>>
BY DEF Told

\* A round that was far enough back for compaction stays so while rounds are added.
LEMMA RemovedStaysOld ==
    ASSUME RemovedOld, removed' = removed,
           Len(rounds) \in Nat, Len(rounds') \in Nat, Len(rounds) <= Len(rounds'),
           \A r \in 1 .. Len(rounds) : rounds'[r].calls = rounds[r].calls
    PROVE  RemovedOld'
<1> SUFFICES ASSUME NEW r \in removed
             PROVE  /\ r \in 1 .. Len(rounds') /\ rounds'[r].calls # <<>>
                    /\ Cardinality(CallsBehind(r)') >= KeepRounds
    BY DEF RemovedOld, CallsBehind
<1>1. /\ r \in 1 .. Len(rounds) /\ rounds[r].calls # <<>>
      /\ Cardinality(CallsBehind(r)) >= KeepRounds
    BY DEF RemovedOld
<1>2. CallsBehind(r) \subseteq CallsBehind(r)'
    BY <1>1 DEF CallsBehind
<1>3. IsFiniteSet(CallsBehind(r)')
    <2>1. IsFiniteSet(r + 1 .. Len(rounds'))
        BY <1>1, FS_Interval
    <2>2. CallsBehind(r)' \subseteq r + 1 .. Len(rounds')
        BY DEF CallsBehind
    <2> QED
        BY <2>1, <2>2, FS_Subset
<1>4. /\ Cardinality(CallsBehind(r)) <= Cardinality(CallsBehind(r)')
      /\ Cardinality(CallsBehind(r)) \in Nat /\ Cardinality(CallsBehind(r)') \in Nat
    BY <1>2, <1>3, FS_Subset, FS_CardinalityType
<1> QED
    BY <1>1, <1>4, BoundsAssumption

\* Steps that leave alone what the invariant reads, but for the place of the executor.
LEMMA QuietTold ==
    ASSUME IInv, ToldInv,
           UNCHANGED <<rounds, phase, pos, out, executed, context, removed, shadowed, resumes>>,
           \/ pc' = pc
           \/ pc = "head" /\ pc' = "request"
           \/ pc = "decide" /\ pc' = "schedule"
    PROVE  ToldInv'
<1>1. Current' = Current /\ Call' = Call
    BY DEF Current, Call
<1>2. ContextTold' /\ ShadowedExist' /\ RemovedOld'
    BY DEF ToldInv, ContextTold, ShadowedExist, Told, RemovedOld, CallsBehind
<1>3. OutputsRecorded'
    BY <1>1 DEF ToldInv, OutputsRecorded
<1>4. Unanswered'
    <2>1. pc = "decide" => phase = "round" /\ \A p \in Pos : p >= pos
        BY DEF IInv, Located, Pos
    <2> QED
        BY <1>1, <2>1 DEF ToldInv, Unanswered
<1>5. AtRecord'
    BY <1>1 DEF ToldInv, AtRecord
<1>6. DedupeTableSound'
    BY <1>1 DEF ToldInv, DedupeTableSound, SucceededIn
<1>7. TableComplete'
    BY DEF ToldInv, TableComplete, SucceededIn
<1> QED
    BY <1>2, <1>3, <1>4, <1>5, <1>6, <1>7 DEF ToldInv

\* A run that is over leaves the rows and an empty memory.
LEMMA GoneTold ==
    ASSUME IInv, ToldInv, Forget, pc' \in {"idle", "returned"},
           UNCHANGED <<rounds, shadowed, resumes>>
    PROVE  ToldInv'
<1>1. phase' = "round" /\ context' = <<>> /\ removed' = {}
    BY DEF Forget
<1>2. ContextTold' /\ RemovedOld' /\ OutputsRecorded' /\ Unanswered' /\ AtRecord' /\ TableComplete'
    BY <1>1 DEF ContextTold, RemovedOld, OutputsRecorded, Unanswered, AtRecord, TableComplete
<1>3. ShadowedExist'
    BY DEF ToldInv, ShadowedExist
<1>4. DedupeTableSound'
    BY DEF Forget, NothingExecuted, DedupeTableSound
<1> QED
    BY <1>2, <1>3, <1>4 DEF ToldInv

\* The Goal row is settled by a run that has forgotten all.
LEMMA SettleGoalTold == ASSUME IInv, ToldInv, SettleGoal PROVE ToldInv'
<1>1. /\ pc = "returned" /\ pc' = "idle"
      /\ UNCHANGED <<rounds, phase, pos, out, executed, context, removed, shadowed, resumes>>
    BY DEF SettleGoal, locals, history
<1>2. ContextTold' /\ OutputsRecorded' /\ Unanswered' /\ AtRecord' /\ TableComplete'
    BY <1>1 DEF ToldInv, ContextTold, OutputsRecorded, Unanswered, AtRecord, TableComplete
<1>5. RemovedOld'
    BY <1>1 DEF ToldInv, RemovedOld, CallsBehind
<1>3. ShadowedExist'
    BY <1>1 DEF ToldInv, ShadowedExist
<1>4. DedupeTableSound'
    BY <1>1 DEF ToldInv, DedupeTableSound, SucceededIn
<1> QED
    BY <1>2, <1>3, <1>4, <1>5 DEF ToldInv

\* A new task has nothing to tell.
LEMMA StartTold == ASSUME IInv, ToldInv, Start PROVE ToldInv'
<1>1. /\ rounds = <<>> /\ pc = "idle" /\ pc' = "head" /\ phase = "round"
      /\ UNCHANGED <<rounds, phase, pos, out, executed, context, removed, shadowed, resumes>>
    BY DEF Start, locals, history, IInv, Located
<1>2. ContextTold'
    <2>1. Told(Len(rounds)) = <<>>
        BY <1>1, NothingTold
    <2> QED
        BY <1>1, <2>1 DEF ToldInv, ContextTold, Told
<1>3. OutputsRecorded' /\ Unanswered' /\ AtRecord' /\ RemovedOld'
    BY <1>1 DEF OutputsRecorded, Unanswered, AtRecord, ToldInv, RemovedOld, CallsBehind
<1>4. ShadowedExist'
    BY <1>1 DEF ToldInv, ShadowedExist
<1>5. DedupeTableSound'
    BY <1>1 DEF ToldInv, DedupeTableSound, SucceededIn
<1>6. TableComplete'
    <2>1. SucceededIn(Len(rounds))' = {}
        BY <1>1 DEF SucceededIn
    <2> QED
        BY <1>1, <2>1 DEF TableComplete
<1> QED
    BY <1>2, <1>3, <1>4, <1>5, <1>6 DEF ToldInv

\* A resume reads the transcript and the dedupe table from the rows.
LEMMA ResumeTold == ASSUME IInv, ToldInv, Resume PROVE ToldInv'
<1>1. rounds \in Seq(Round) /\ OnlyLastRoundOpen /\ Len(rounds) \in Nat
    BY LenProperties DEF IInv, TypeOK
<1>2. Replayed = Len(rounds)
    BY <1>1, ReplayReadsAll
<1>3. /\ UNCHANGED <<rounds, shadowed>> /\ resumes' = resumes + 1 /\ resumes \in Nat
      /\ executed' = [c \in Calls |-> IF c \in SucceededIn(Len(rounds)) THEN "ok" ELSE "none"]
    BY <1>2 DEF Resume, IInv, TypeOK
<1>4. \/ pc' = "complete" /\ phase' = "completion" /\ context' = Told(Len(rounds) - 1)
      \/ pc' = "head" /\ phase' = "round" /\ context' = Told(Len(rounds))
    BY <1>2 DEF Resume, Told
<1>5. ContextTold'
    BY <1>3, <1>4 DEF ContextTold, Told
<1>6. OutputsRecorded' /\ Unanswered' /\ AtRecord' /\ RemovedOld'
    BY <1>4 DEF Resume, OutputsRecorded, Unanswered, AtRecord, RemovedOld
<1>7. ShadowedExist'
    BY <1>3 DEF ToldInv, ShadowedExist
<1>8. DedupeTableSound'
    BY <1>3 DEF DedupeTableSound, SucceededIn
<1>9. TableComplete'
    BY <1>3 DEF TableComplete
<1> QED
    BY <1>5, <1>6, <1>7, <1>8, <1>9 DEF ToldInv

\* Saving a row without a result: nothing that was told or had succeeded is taken back.
LEMMA SaveRowTold ==
    ASSUME IInv, ToldInv, rounds # <<>>, NEW p \in Pos, NEW status \in RowStatus,
           SaveRow(p, status), ~Terminal(rounds[Current].row[p]),
           UNCHANGED <<removed, shadowed>>
    PROVE  /\ Told(Len(rounds) - 1)' = Told(Len(rounds) - 1)
           /\ Len(rounds') = Len(rounds) /\ Current' = Current
           /\ rounds'[Current].calls = rounds[Current].calls
           /\ Slots(rounds'[Current]) = Slots(rounds[Current])
           /\ \A q \in Pos : rounds'[Current].row[q] =
                  IF q = p THEN status ELSE rounds[Current].row[q]
           /\ ShadowedExist' /\ RemovedOld'
           /\ \A c \in Calls :
                  (\E rp \in shadowed : rounds[rp[1]].calls[rp[2]] = c) =>
                      \E rp \in shadowed' : rounds'[rp[1]].calls[rp[2]] = c
           /\ \A c \in Calls :
                  c \in SucceededIn(Len(rounds))' <=>
                      \/ c \in SucceededIn(Len(rounds))
                      \/ status = "succeeded" /\ rounds[Current].calls[p] = c
<1>1. TypeOK /\ OnlyLastRoundOpen /\ RoundsWithinLimit /\ p \in Nat
    BY DEF IInv, Pos
<1>2. /\ Current' = Current /\ Len(rounds') = Len(rounds)
      /\ rounds'[Current].calls = rounds[Current].calls
      /\ Slots(rounds'[Current]) = Slots(rounds[Current])
      /\ \A r \in 1 .. Len(rounds) : r # Current => rounds'[r] = rounds[r]
      /\ \A q \in Pos : rounds'[Current].row[q] =
                  IF q = p THEN status ELSE rounds[Current].row[q]
    BY <1>1, SaveRowKeeps
<1>3. Current = Len(rounds) /\ Current \in 1 .. Len(rounds)
    BY <1>1, CurrentRound
<1>4. Told(Len(rounds) - 1)' = Told(Len(rounds) - 1)
    BY <1>2, <1>3 DEF Told
<1>5. \A r \in 1 .. Len(rounds) : rounds'[r].calls = rounds[r].calls
    BY <1>2
<1>6. ShadowedExist'
    BY <1>2 DEF ToldInv, ShadowedExist
<1>9. RemovedOld'
    BY <1>2, <1>3, <1>5, RemovedStaysOld DEF ToldInv
<1>7. \A c \in Calls : (\E rp \in shadowed : rounds[rp[1]].calls[rp[2]] = c) =>
                      \E rp \in shadowed' : rounds'[rp[1]].calls[rp[2]] = c
    BY <1>5 DEF ToldInv, ShadowedExist
<1>8. ASSUME NEW c \in Calls
      PROVE  c \in SucceededIn(Len(rounds))' <=>
                      \/ c \in SucceededIn(Len(rounds))
                      \/ status = "succeeded" /\ rounds[Current].calls[p] = c
    <2>1. ASSUME c \in SucceededIn(Len(rounds))'
          PROVE  \/ c \in SucceededIn(Len(rounds))
                 \/ status = "succeeded" /\ rounds[Current].calls[p] = c
        <3>1. PICK r \in 1 .. Len(rounds), q \in Pos :
                  rounds'[r].row[q] = "succeeded" /\ rounds'[r].calls[q] = c
            BY <1>2, <2>1 DEF SucceededIn
        <3>2. rounds[r].calls[q] = c
            BY <1>5, <3>1
        <3>3. CASE r = Current /\ q = p
            BY <1>2, <3>1, <3>2, <3>3
        <3>4. CASE ~(r = Current /\ q = p)
            <4>1. rounds[r].row[q] = "succeeded"
                BY <1>2, <3>1, <3>4
            <4> QED
                BY <3>2, <4>1 DEF SucceededIn
        <3> QED
            BY <3>3, <3>4
    <2>2. ASSUME c \in SucceededIn(Len(rounds)) PROVE c \in SucceededIn(Len(rounds))'
        <3>1. PICK r \in 1 .. Len(rounds), q \in Pos :
                  rounds[r].row[q] = "succeeded" /\ rounds[r].calls[q] = c
            BY <2>2 DEF SucceededIn
        <3>2. ~(r = Current /\ q = p)
            BY <3>1 DEF Terminal
        <3>3. rounds'[r].row[q] = "succeeded" /\ rounds'[r].calls[q] = c
            BY <1>2, <1>5, <3>1, <3>2
        <3> QED
            BY <1>2, <3>3 DEF SucceededIn
    <2>3. ASSUME status = "succeeded", rounds[Current].calls[p] = c
          PROVE  c \in SucceededIn(Len(rounds))'
        <3>1. rounds'[Current].row[p] = "succeeded" /\ rounds'[Current].calls[p] = c
            BY <1>2, <2>3
        <3> QED
            BY <1>2, <1>3, <3>1 DEF SucceededIn
    <2> QED
        BY <2>1, <2>2, <2>3
<1> QED
    BY <1>2, <1>4, <1>6, <1>7, <1>8, <1>9

\* A row that is saved while its call has no result adds nothing to what succeeded.
LEMMA UnfinishedTold ==
    ASSUME IInv, ToldInv, rounds # <<>>, NEW p \in Pos,
           NEW status \in {"pending", "active", "blocked"},
           SaveRow(p, status), ~Terminal(rounds[Current].row[p]),
           pc # "record", pc' # "record",
           UNCHANGED <<phase, out, executed, context, removed, shadowed, resumes>>,
           pc \notin {"idle", "returned"}
    PROVE  /\ Told(Len(rounds) - 1)' = Told(Len(rounds) - 1)
           /\ Current' = Current
           /\ Slots(rounds'[Current]) = Slots(rounds[Current])
           /\ \A q \in Pos : rounds'[Current].row[q] =
                  IF q = p THEN status ELSE rounds[Current].row[q]
           /\ AtRecord' /\ ShadowedExist' /\ RemovedOld' /\ DedupeTableSound' /\ TableComplete'
<1>1. status \in RowStatus /\ status # "succeeded"
    BY DEF RowStatus
<1>2. AtRecord'
    BY DEF AtRecord
<1>3. /\ ShadowedExist' /\ RemovedOld'
      /\ \A c \in Calls :
             (\E rp \in shadowed : rounds[rp[1]].calls[rp[2]] = c) =>
                 \E rp \in shadowed' : rounds'[rp[1]].calls[rp[2]] = c
      /\ \A c \in Calls :
             c \in SucceededIn(Len(rounds))' <=> c \in SucceededIn(Len(rounds))
    BY <1>1, SaveRowTold
<1>4. DedupeTableSound'
    <2> SUFFICES ASSUME NEW c \in Calls, executed[c] = "ok"
                 PROVE  \/ c \in SucceededIn(Len(rounds))'
                        \/ \E rp \in shadowed' : rounds'[rp[1]].calls[rp[2]] = c
        BY DEF DedupeTableSound
    <2>1. \/ c \in SucceededIn(Len(rounds))
          \/ \E rp \in shadowed : rounds[rp[1]].calls[rp[2]] = c
        BY DEF ToldInv, DedupeTableSound
    <2> QED
        BY <1>3, <2>1
<1>5. TableComplete'
    <2>1. \A c \in SucceededIn(Len(rounds))' : c \in SucceededIn(Len(rounds))
        BY <1>3 DEF SucceededIn
    <2> QED
        BY <2>1 DEF ToldInv, TableComplete
<1> QED
    BY <1>1, <1>2, <1>3, <1>4, <1>5, SaveRowTold

\* completeOpenRound saves the rows it needs; the transcript waits for the results.
LEMMA CompletionRowsTold ==
    ASSUME IInv, ToldInv, NEW p \in Pos,
           CreateMissingRow(p) \/ ActivateOpenRow(p) \/ (p = pos /\ ActivateMissingRow)
    PROVE  ToldInv'
<1>1. /\ TypeOK /\ rounds # <<>> /\ phase = "completion" /\ phase' = "completion"
      /\ pc \in {"complete", "activate"} /\ pc' \in {"activate", "invoke"} /\ pos' = p
      /\ UNCHANGED <<phase, out, executed, context, removed, shadowed, resumes>>
    BY DEF IInv, Located, CreateMissingRow, ActivateOpenRow, ActivateMissingRow, locals, history
<1>2. PICK status \in {"pending", "active"} : SaveRow(p, status)
    BY DEF CreateMissingRow, ActivateOpenRow, ActivateMissingRow
<1>3. ~Terminal(rounds[Current].row[p])
    BY DEF CreateMissingRow, ActivateOpenRow, ActivateMissingRow, NextOpen, ToldInv, Unanswered
<1>4. /\ Told(Len(rounds) - 1)' = Told(Len(rounds) - 1)
      /\ Current' = Current
      /\ \A q \in Pos : rounds'[Current].row[q] =
                  IF q = p THEN status ELSE rounds[Current].row[q]
      /\ AtRecord' /\ ShadowedExist' /\ RemovedOld' /\ DedupeTableSound' /\ TableComplete'
    BY <1>1, <1>2, <1>3, UnfinishedTold
<1>5. ContextTold'
    BY <1>1, <1>4 DEF ToldInv, ContextTold
<1>6. OutputsRecorded'
    BY <1>1 DEF OutputsRecorded
<1>7. Unanswered'
    <2>1. ~Terminal(rounds'[Current].row[p])
        BY <1>4 DEF Terminal
    <2> QED
        BY <1>1, <1>4, <2>1 DEF Unanswered
<1> QED
    BY <1>4, <1>5, <1>6, <1>7 DEF ToldInv

\* The round loop saves a row for each call, then activates them one by one.
LEMMA RoundRowsTold ==
    ASSUME IInv, ToldInv, Schedule \/ ActivateCall
    PROVE  ToldInv'
<1>1. /\ TypeOK /\ rounds # <<>> /\ phase = "round" /\ phase' = "round"
      /\ pos \in Slots(rounds[Current]) /\ pos \in Pos
      /\ UNCHANGED <<phase, out, executed, context, removed, shadowed, resumes>>
      /\ \/ pc = "schedule" /\ pc' = "schedule"
         \/ pc = "schedule" /\ pc' = "run" /\ pos' = 1
         \/ pc = "run" /\ pc' = "invoke" /\ pos' = pos
    <2>1. /\ TypeOK /\ rounds # <<>> /\ phase = "round" /\ phase' = "round" /\ pos \in Nat \ {0}
          /\ pc = "schedule" => pos \in Slots(rounds[Current])
          /\ pc = "run" => pos <= Len(rounds[Current].calls)
          /\ UNCHANGED <<phase, out, executed, context, removed, shadowed, resumes>>
          /\ \/ pc = "schedule" /\ pc' = "schedule"
             \/ pc = "schedule" /\ pc' = "run" /\ pos' = 1
             \/ pc = "run" /\ pc' = "invoke" /\ pos' = pos
        BY DEF IInv, Located, Schedule, ActivateCall, locals, history, TypeOK
    <2>2. /\ Len(rounds[Current].calls) \in Nat
          /\ Slots(rounds[Current]) = 1 .. Len(rounds[Current].calls)
          /\ Slots(rounds[Current]) \subseteq Pos
        BY <2>1, CurrentRound
    <2> QED
        BY <2>1, <2>2
<1>2. PICK status \in {"pending", "active"} : SaveRow(pos, status)
    BY DEF Schedule, ActivateCall
<1>3. ~Terminal(rounds[Current].row[pos])
    <2>1. Unanswered /\ pos >= pos
        BY <1>1 DEF ToldInv, Pos
    <2> QED
        BY <1>1, <2>1 DEF Unanswered
<1>4. /\ Told(Len(rounds) - 1)' = Told(Len(rounds) - 1)
      /\ Current' = Current
      /\ Slots(rounds'[Current]) = Slots(rounds[Current])
      /\ \A q \in Pos : rounds'[Current].row[q] =
                  IF q = pos THEN status ELSE rounds[Current].row[q]
      /\ AtRecord' /\ ShadowedExist' /\ RemovedOld' /\ DedupeTableSound' /\ TableComplete'
    BY <1>1, <1>2, <1>3, UnfinishedTold
<1>5. ContextTold'
    BY <1>1, <1>4 DEF ToldInv, ContextTold
<1>6. \A q \in Pos : Terminal(rounds'[Current].row[q]) => Terminal(rounds[Current].row[q])
    BY <1>4 DEF Terminal
<1>7. Unanswered'
    BY <1>1, <1>3, <1>4, <1>6 DEF ToldInv, Unanswered
<1>8. OutputsRecorded'
    <2> SUFFICES ASSUME NEW q \in Pos
                 PROVE  /\ q \notin Slots(rounds[Current]) =>
                              rounds'[Current].row[q] = "none" /\ out[q] = "none"
                        /\ q \in Slots(rounds[Current]) /\ q < pos' /\ pc' # "schedule" =>
                              Result(out[q]) = Observation(rounds'[Current].row[q])
        BY <1>1, <1>4 DEF OutputsRecorded
    <2>1. q \notin Slots(rounds[Current]) =>
              rounds'[Current].row[q] = "none" /\ out[q] = "none"
        BY <1>1, <1>4 DEF ToldInv, OutputsRecorded
    <2>2. CASE pc = "schedule"
        <3>1. ~(q < 1)
            BY DEF Pos
        <3> QED
            BY <1>1, <2>1, <2>2, <3>1
    <2>3. CASE pc = "run"
        <3>1. q < pos => q # pos
            BY <1>1 DEF Pos
        <3> QED
            BY <1>1, <1>4, <2>1, <2>3, <3>1 DEF ToldInv, OutputsRecorded
    <2> QED
        BY <1>1, <2>2, <2>3
<1> QED
    BY <1>4, <1>5, <1>7, <1>8 DEF ToldInv

\* A rejected round is not told any more: its task is over.
LEMMA RejectRoundTold == ASSUME IInv, ToldInv, RejectRound PROVE ToldInv'
<1>1. /\ TypeOK /\ rounds # <<>> /\ phase = "round" /\ pc = "decide" /\ pc' = "reject"
      /\ pos = 1
      /\ UNCHANGED <<phase, out, executed, context, removed, shadowed, resumes>>
    BY DEF IInv, Located, RejectRound, history
<1>2. PICK p \in Blocked(rounds[Current]) : SaveRow(p, "blocked")
    BY DEF RejectRound
<1>3. p \in Pos /\ p >= pos
    BY <1>1, <1>2, CurrentRound DEF Blocked, Pos
<1>4. ~Terminal(rounds[Current].row[p])
    BY <1>1, <1>3 DEF ToldInv, Unanswered
<1>5. AtRecord' /\ ShadowedExist' /\ RemovedOld' /\ DedupeTableSound' /\ TableComplete'
    BY <1>1, <1>2, <1>3, <1>4, UnfinishedTold
<1>6. ContextTold' /\ OutputsRecorded' /\ Unanswered'
    BY <1>1 DEF ContextTold, OutputsRecorded, Unanswered
<1> QED
    BY <1>5, <1>6 DEF ToldInv

\* A new round has no rows and no outputs, and what was told stays told.
LEMMA RoundReturnsTold ==
    ASSUME IInv, ToldInv, NEW calls \in Proposals, NEW said \in Text, NEW cost \in Costs,
           RoundReturns(calls, said, cost)
    PROVE  ToldInv'
<1> DEFINE new == [calls |-> calls, row |-> NoRows]
           n == Len(rounds)
<1>1. /\ TypeOK /\ pc = "request" /\ pc' = "decide" /\ pos' = 1 /\ out' = NoOutput
      /\ rounds \in Seq(Round) /\ n \in Nat /\ phase = "round"
      /\ UNCHANGED <<phase, executed, context, removed, shadowed, resumes>>
    BY LenProperties DEF IInv, RoundReturns, TypeOK, Located
<1>2. /\ Len(rounds') = n + 1 /\ rounds'[n + 1] = new
      /\ \A r \in 1 .. n : rounds'[r] = rounds[r]
    <2>1. new \in Round
        BY RowsTyped DEF Round
    <2> HIDE DEF new
    <2> QED
        BY <1>1, <2>1, AppendProperties DEF RoundReturns, new
<1>3. Current' = n + 1 /\ \A p \in Pos : rounds'[n + 1].row[p] = "none"
    BY <1>2 DEF Current, NoRows
<1>4. ContextTold'
    <2>1. context = Told(n)
        BY <1>1 DEF ToldInv, ContextTold
    <2>2. Told(Len(rounds) - 1)' = Told(n)
        BY <1>1, <1>2 DEF Told
    <2> QED
        BY <1>1, <2>1, <2>2 DEF ContextTold
<1>5. OutputsRecorded'
    BY <1>1, <1>3 DEF OutputsRecorded, NoOutput
<1>6. Unanswered' /\ AtRecord'
    BY <1>1, <1>3 DEF Unanswered, AtRecord, Terminal
<1>7. ShadowedExist' /\ RemovedOld'
    BY <1>1, <1>2, RemovedStaysOld DEF ToldInv, ShadowedExist
<1>8. SucceededIn(Len(rounds))' = SucceededIn(n)
    <2>1. \A c \in Calls, r \in 1 .. n + 1, p \in Pos :
              rounds'[r].row[p] = "succeeded" =>
                  r \in 1 .. n /\ rounds'[r] = rounds[r]
        <3>1. \A r \in 1 .. n + 1 : r = n + 1 \/ r \in 1 .. n
            BY <1>1
        <3> QED
            BY <1>2, <1>3, <3>1
    <2>2. \A c \in Calls : c \in SucceededIn(Len(rounds))' => c \in SucceededIn(n)
        BY <1>2, <2>1 DEF SucceededIn
    <2>3. \A c \in Calls : c \in SucceededIn(n) => c \in SucceededIn(Len(rounds))'
        <3>1. 1 .. n \subseteq 1 .. n + 1
            BY <1>1
        <3> QED
            BY <1>2, <3>1 DEF SucceededIn
    <2> QED
        BY <2>2, <2>3 DEF SucceededIn
<1>9. DedupeTableSound'
    <2> SUFFICES ASSUME NEW c \in Calls, executed[c] = "ok"
                 PROVE  \/ c \in SucceededIn(n)
                        \/ \E rp \in shadowed' : rounds'[rp[1]].calls[rp[2]] = c
        BY <1>1, <1>8 DEF DedupeTableSound
    <2>1. \/ c \in SucceededIn(n)
          \/ \E rp \in shadowed : rounds[rp[1]].calls[rp[2]] = c
        BY <1>1 DEF ToldInv, DedupeTableSound
    <2> QED
        BY <1>1, <1>2, <2>1 DEF ToldInv, ShadowedExist
<1>10. TableComplete'
    BY <1>1, <1>8 DEF ToldInv, TableComplete
<1> QED
    BY <1>4, <1>5, <1>6, <1>7, <1>9, <1>10 DEF ToldInv

\* A result comes in, from the dedupe table or from the invoker.
LEMMA ResultTold ==
    ASSUME IInv, ToldInv, pc = "invoke", pc' = "record",
           NEW output \in {"ok", "error", "replayed"},
           out' = [out EXCEPT ![pos] = output],
           \/ output = "replayed" /\ Deduplicated /\ executed' = executed
           \/ ~Deduplicated /\ output # "replayed" /\ executed' = [executed EXCEPT ![Call] = output],
           UNCHANGED <<rounds, phase, pos, context, removed, shadowed, resumes>>
    PROVE  ToldInv'
<1>1. /\ TypeOK /\ rounds # <<>> /\ pos \in Slots(rounds[Current]) /\ pos \in Pos
      /\ out \in [Pos -> Output] /\ executed \in [Calls -> {"none", "ok", "error"}]
    BY CurrentRound DEF IInv, Located, TypeOK
<1>2. Current' = Current /\ Call' = Call /\ Call \in Calls
    <2>1. Call \in Calls
        BY <1>1, CurrentRound, ProposalsAssumption, ElementOfSeq DEF Call
    <2> QED
        BY <2>1 DEF Current, Call
<1>3. ContextTold' /\ ShadowedExist'
    BY DEF ToldInv, ContextTold, ShadowedExist, Told
<1>11. RemovedOld'
    BY DEF ToldInv, RemovedOld, CallsBehind
<1>4. out'[pos] = output /\ \A q \in Pos : q # pos => out'[q] = out[q]
    BY <1>1
<1>5. OutputsRecorded'
    <2> SUFFICES ASSUME phase = "round", NEW q \in Pos
                 PROVE  /\ q \notin Slots(rounds[Current]) =>
                              rounds[Current].row[q] = "none" /\ out'[q] = "none"
                        /\ q \in Slots(rounds[Current]) /\ q < pos =>
                              Result(out'[q]) = Observation(rounds[Current].row[q])
        BY <1>2 DEF OutputsRecorded
    <2>1. q < pos => q # pos
        BY <1>1 DEF Pos
    <2> QED
        BY <1>1, <1>4, <2>1 DEF ToldInv, OutputsRecorded
<1>6. Unanswered'
    BY <1>2 DEF ToldInv, Unanswered
<1>7. executed'[Call] = Result(output) /\ \A c \in Calls : c # Call => executed'[c] = executed[c]
    BY <1>1, <1>2 DEF Deduplicated, Result
<1>8. AtRecord'
    BY <1>2, <1>4, <1>7 DEF AtRecord
<1>9. DedupeTableSound'
    BY <1>2, <1>7 DEF ToldInv, DedupeTableSound, SucceededIn
<1>10. TableComplete'
    <2>1. phase = "completion" => resumes' > 0
        BY DEF ToldInv, TableComplete
    <2> SUFFICES ASSUME resumes = 0, NEW c \in SucceededIn(Len(rounds))
                 PROVE  executed'[c] = "ok"
        BY <2>1 DEF TableComplete, SucceededIn
    <2>2. executed[c] = "ok" /\ phase = "round" /\ c \in Calls
        BY <1>1 DEF ToldInv, TableComplete, SucceededIn, TypeOK, IInv
    <2>3. CASE c # Call
        BY <1>7, <2>2, <2>3
    <2>4. CASE c = Call
        BY <2>2, <2>4 DEF Deduplicated
    <2> QED
        BY <2>3, <2>4
<1> QED
    BY <1>3, <1>5, <1>6, <1>8, <1>9, <1>10, <1>11 DEF ToldInv

\* The row of the call takes the result the dedupe table has.
LEMMA RecordResultTold == ASSUME IInv, ToldInv, RecordResult PROVE ToldInv'
<1> DEFINE status == IF out[pos] = "error" THEN "error" ELSE "succeeded"
<1>1. /\ TypeOK /\ rounds # <<>> /\ pc = "record" /\ status \in RowStatus
      /\ pos \in Slots(rounds[Current]) /\ pos \in Pos /\ SaveRow(pos, status)
      /\ UNCHANGED <<phase, out, executed, context, removed, shadowed, resumes>>
      /\ \/ phase = "round" /\ pos' = pos + 1 /\ pc' = "run"
         \/ phase = "completion" /\ pos' = pos /\ pc' = "complete"
    BY CurrentRound DEF IInv, Located, RecordResult, history, TypeOK, RowStatus
<1>2. ~Terminal(rounds[Current].row[pos])
    BY <1>1 DEF ToldInv, Unanswered
<1>3. /\ Told(Len(rounds) - 1)' = Told(Len(rounds) - 1)
      /\ Current' = Current
      /\ Slots(rounds'[Current]) = Slots(rounds[Current])
      /\ \A q \in Pos : rounds'[Current].row[q] =
                  IF q = pos THEN status ELSE rounds[Current].row[q]
      /\ ShadowedExist' /\ RemovedOld'
      /\ \A c \in Calls :
             (\E rp \in shadowed : rounds[rp[1]].calls[rp[2]] = c) =>
                 \E rp \in shadowed' : rounds'[rp[1]].calls[rp[2]] = c
      /\ \A c \in Calls :
             c \in SucceededIn(Len(rounds))' <=>
                 \/ c \in SucceededIn(Len(rounds))
                 \/ status = "succeeded" /\ rounds[Current].calls[pos] = c
    BY <1>1, <1>2, SaveRowTold
<1>4. /\ out[pos] \in {"ok", "error", "replayed"} /\ executed[Call] = Result(out[pos])
      /\ Result(out[pos]) = Observation(status)
    BY <1>1 DEF ToldInv, AtRecord, Result, Observation
<1>5. ContextTold'
    BY <1>1, <1>3 DEF ToldInv, ContextTold
<1>6. AtRecord'
    BY <1>1 DEF AtRecord
<1>7. Unanswered'
    <2>1. phase = "round" => \A q \in Pos : q >= pos + 1 => ~Terminal(rounds[Current].row[q])
                                                            /\ q # pos
        BY <1>1 DEF ToldInv, Unanswered, Pos
    <2> QED
        BY <1>1, <1>3, <2>1 DEF Unanswered
<1>8. OutputsRecorded'
    <2> SUFFICES ASSUME phase = "round", NEW q \in Pos
                 PROVE  /\ q \notin Slots(rounds[Current]) =>
                              rounds'[Current].row[q] = "none" /\ out[q] = "none"
                        /\ q \in Slots(rounds[Current]) /\ q < pos + 1 =>
                              Result(out[q]) = Observation(rounds'[Current].row[q])
        BY <1>1, <1>3 DEF OutputsRecorded
    <2>1. CASE q = pos
        BY <1>1, <1>3, <1>4, <2>1
    <2>2. CASE q # pos
        <3>1. q < pos + 1 => q < pos
            BY <1>1, <2>2 DEF Pos
        <3> QED
            BY <1>1, <1>3, <2>2, <3>1 DEF ToldInv, OutputsRecorded
    <2> QED
        BY <2>1, <2>2
<1>9. DedupeTableSound'
    <2> SUFFICES ASSUME NEW c \in Calls, executed[c] = "ok"
                 PROVE  \/ c \in SucceededIn(Len(rounds))'
                        \/ \E rp \in shadowed' : rounds'[rp[1]].calls[rp[2]] = c
        BY <1>1 DEF DedupeTableSound
    <2>1. CASE Call = c
        <3>1. status = "succeeded"
            BY <1>4, <2>1 DEF Result
        <3> QED
            BY <1>3, <2>1, <3>1 DEF Call
    <2>2. CASE Call # c
        BY <1>3, <2>2 DEF ToldInv, DedupeTableSound
    <2> QED
        BY <2>1, <2>2
<1>10. TableComplete'
    <2>1. phase' = "completion" => resumes' > 0
        BY <1>1 DEF ToldInv, TableComplete
    <2> SUFFICES ASSUME resumes = 0, NEW c \in SucceededIn(Len(rounds))'
                 PROVE  executed[c] = "ok"
        BY <1>1, <2>1 DEF TableComplete
    <2>2. c \in Calls
        BY DEF SucceededIn
    <2>3. CASE c \in SucceededIn(Len(rounds))
        BY <1>1, <2>3 DEF ToldInv, TableComplete
    <2>4. CASE status = "succeeded" /\ Call = c
        BY <1>4, <2>4 DEF Result
    <2> QED
        BY <1>3, <2>2, <2>3, <2>4 DEF Call
<1> QED
    BY <1>3, <1>5, <1>6, <1>7, <1>8, <1>9, <1>10 DEF ToldInv

\* The transcript of the last round is appended to what was told of those before it.
LEMMA ToldAppend ==
    ASSUME TypeOK, rounds # <<>>, context = Told(Len(rounds) - 1)
    PROVE  Append(context, Transcript(rounds[Current])) = Told(Len(rounds))
<1> DEFINE n == Len(rounds)
           new == Append(context, Transcript(rounds[Current]))
<1>1. /\ n \in Nat \ {0} /\ Current = n /\ rounds \in Seq(Round)
      /\ context \in Seq(Entry) /\ Transcript(rounds[n]) \in Entry
    BY CurrentRound, TranscriptTyped DEF TypeOK
<1>2. Len(context) = n - 1 /\ \A r \in 1 .. n - 1 : context[r] = Transcript(rounds[r])
    <2>1. context = [r \in 1 .. n - 1 |-> Transcript(rounds[r])] /\ n - 1 \in Nat
        BY <1>1 DEF Told
    <2>2. DOMAIN context = 1 .. n - 1
        BY <2>1
    <2>3. Len(context) = n - 1
        BY <1>1, <2>1, <2>2, LenProperties
    <2> QED
        BY <2>1, <2>3
<1>3. /\ new \in Seq(Entry) /\ Len(new) = n /\ new[n] = Transcript(rounds[n])
      /\ \A r \in 1 .. n - 1 : new[r] = context[r]
    BY <1>1, <1>2, AppendProperties
<1>4. DOMAIN new = 1 .. n
    BY <1>3, LenProperties
<1>5. \A r \in 1 .. n : new[r] = Transcript(rounds[r])
    <2>1. \A r \in 1 .. n : r = n \/ r \in 1 .. n - 1
        BY <1>1
    <2> QED
        BY <1>2, <1>3, <2>1
<1>6. new = [r \in DOMAIN new |-> new[r]]
    BY <1>3
<1> DEFINE want == [r \in 1 .. n |-> Transcript(rounds[r])]
<1>7. new = want
    <2> HIDE DEF new, n
    <2> QED
        BY <1>4, <1>5, <1>6
<1> QED
    BY <1>7 DEF Told

\* Between rounds nothing but the transcript is read.
LEMMA AtHeadTold ==
    ASSUME IInv, ToldInv, pc' = "head", phase' = "round", context' = Told(Len(rounds)),
           pc \notin {"idle", "returned", "record"},
           UNCHANGED <<rounds, pos, executed, shadowed, resumes>>, RemovedOld'
    PROVE  ToldInv'
<1>1. ContextTold' /\ OutputsRecorded' /\ Unanswered' /\ AtRecord'
    BY DEF ContextTold, Told, OutputsRecorded, Unanswered, AtRecord
<1>2. ShadowedExist'
    BY DEF ToldInv, ShadowedExist
<1>3. DedupeTableSound'
    BY DEF ToldInv, DedupeTableSound, SucceededIn
<1>4. TableComplete'
    BY DEF ToldInv, TableComplete, SucceededIn
<1> QED
    BY <1>1, <1>2, <1>3, <1>4 DEF ToldInv

\* A completed round is told as its rows are.
LEMMA CompletionEndsTold == ASSUME IInv, ToldInv, CompletionEnds PROVE ToldInv'
<1>1. /\ TypeOK /\ rounds # <<>> /\ pc = "complete" /\ pc' = "head" /\ phase' = "round"
      /\ context = Told(Len(rounds) - 1)
      /\ context' = Append(context, Transcript(rounds[Current]))
      /\ UNCHANGED <<rounds, pos, executed, removed, shadowed, resumes>>
    BY DEF IInv, Located, CompletionEnds, ToldInv, ContextTold, store, history
<1>2. context' = Told(Len(rounds))
    BY <1>1, ToldAppend
<1>3. RemovedOld'
    BY <1>1 DEF ToldInv, RemovedOld, CallsBehind
<1> QED
    BY <1>1, <1>2, <1>3, AtHeadTold

\* What compaction takes out of a transcript that tells all rounds lies behind KeepRounds
\* rounds of calls.
LEMMA RemovedAreOld ==
    ASSUME TypeOK, RemovedOld, UNCHANGED rounds, context' = Told(Len(rounds)),
           \/ removed' = removed
           \/ removed' = removed \cup OldestRounds(ToolRounds(context', removed))
    PROVE  RemovedOld'
<1> DEFINE grouped == ToolRounds(context', removed)
           n == Len(rounds)
<1>1. n \in Nat
    BY LenProperties DEF TypeOK
<1>2. \A r \in grouped : r \in 1 .. n /\ rounds[r].calls # <<>>
    BY DEF ToolRounds, Told, Transcript
<1>3. ASSUME NEW r \in OldestRounds(grouped)
      PROVE  /\ r \in 1 .. n /\ rounds[r].calls # <<>>
             /\ Cardinality(CallsBehind(r)) >= KeepRounds
    <2> DEFINE later == {s \in grouped : s > r}
    <2>1. r \in grouped /\ Cardinality(later) >= KeepRounds
        BY <1>3 DEF OldestRounds
    <2>2. r \in 1 .. n /\ later \subseteq CallsBehind(r)
        BY <1>1, <1>2, <2>1 DEF CallsBehind
    <2>3. IsFiniteSet(CallsBehind(r))
        <3>1. IsFiniteSet(r + 1 .. n)
            BY <1>1, <2>2, FS_Interval
        <3>2. CallsBehind(r) \subseteq r + 1 .. n
            BY DEF CallsBehind
        <3> QED
            BY <3>1, <3>2, FS_Subset
    <2> HIDE DEF later
    <2>4. /\ Cardinality(later) <= Cardinality(CallsBehind(r))
          /\ Cardinality(later) \in Nat /\ Cardinality(CallsBehind(r)) \in Nat
        BY <2>2, <2>3, FS_Subset, FS_CardinalityType
    <2> QED
        BY <1>2, <2>1, <2>4, BoundsAssumption
<1>4. \A r \in removed' : r \in removed \/ r \in OldestRounds(grouped)
    OBVIOUS
<1> HIDE DEF grouped, n
<1> QED
    BY <1>3, <1>4 DEF RemovedOld, CallsBehind, n

\* What is fed back from the outputs of a round is what its rows tell.
LEMMA FeedBackTold ==
    ASSUME IInv, ToldInv, NEW large \in BOOLEAN, FeedBack(large) PROVE ToldInv'
<1>1. /\ TypeOK /\ rounds # <<>> /\ pc = "run" /\ pc' = "head" /\ phase = "round"
      /\ phase' = "round" /\ pos > Len(rounds[Current].calls) /\ pos \in Nat
      /\ context = Told(Len(rounds) - 1)
      /\ UNCHANGED <<rounds, pos, executed, shadowed, resumes>>
    BY DEF IInv, Located, FeedBack, RoundRan, ToldInv, ContextTold, store, history, TypeOK
<1>2. \A p \in Pos : Result(out[p]) = Observation(rounds[Current].row[p])
    <2>1. \A p \in Slots(rounds[Current]) : p < pos
        BY <1>1, CurrentRound
    <2>2. \A p \in Pos : \/ rounds[Current].row[p] = "none" /\ out[p] = "none"
                         \/ Result(out[p]) = Observation(rounds[Current].row[p])
        BY <1>1, <2>1 DEF ToldInv, OutputsRecorded
    <2>3. Result("none") = Observation("none")
        BY DEF Result, Observation
    <2> QED
        BY <2>2, <2>3
<1>3. context' = Append(context, Transcript(rounds[Current]))
    <2>1. [p \in Pos |-> Result(out[p])] = [p \in Pos |-> Observation(rounds[Current].row[p])]
        BY <1>2
    <2> QED
        BY <2>1 DEF FeedBack, Transcript
<1>4. context' = Told(Len(rounds))
    BY <1>1, <1>3, ToldAppend
<1>5. RemovedOld'
    BY <1>1, <1>4, RemovedAreOld DEF ToldInv, FeedBack
<1> QED
    BY <1>1, <1>4, <1>5, AtHeadTold

\* Saving the deliberation again hides what succeeded, but the rows are there.
LEMMA FinalizeRoundTold == ASSUME IInv, ToldInv, FinalizeRound PROVE ToldInv'
<1> DEFINE new == [calls |-> rounds[Current].calls, row |-> NoRows]
<1>1. /\ TypeOK /\ pc = "run" /\ pc' = "finalized" /\ phase' = "round" /\ rounds # <<>>
      /\ UNCHANGED <<phase, executed, removed, resumes>> /\ Len(rounds) \in Nat
    BY LenProperties DEF IInv, TypeOK, FinalizeRound, RoundRan, Located, locals, history
<1>2. /\ Len(rounds') = Len(rounds) /\ Current \in 1 .. Len(rounds)
      /\ \A r \in 1 .. Len(rounds) : r # Current => rounds'[r] = rounds[r]
      /\ rounds'[Current] = new
    <2>1. Current \in 1 .. Len(rounds) /\ rounds \in Seq(Round)
        BY <1>1, CurrentRound DEF TypeOK
    <2>2. new \in Round
        BY <1>1, CurrentRound, RowsTyped DEF Round
    <2>3. rounds' = [rounds EXCEPT ![Current] = new]
        BY DEF FinalizeRound, ResaveDeliberation
    <2> HIDE DEF new
    <2> QED
        BY <2>1, <2>2, <2>3, ExceptSeq
<1>3. /\ \A r \in 1 .. Len(rounds) : rounds'[r].calls = rounds[r].calls
      /\ \A p \in Pos : rounds'[Current].row[p] = "none"
    BY <1>2 DEF NoRows
<1>4. shadowed' = shadowed \cup
          {<<Current, p>> : p \in {q \in Pos : rounds[Current].row[q] = "succeeded"}}
    BY DEF FinalizeRound, ResaveDeliberation
<1>5. ContextTold' /\ OutputsRecorded' /\ Unanswered' /\ AtRecord'
    BY <1>1 DEF ContextTold, OutputsRecorded, Unanswered, AtRecord
<1>6. ShadowedExist' /\ RemovedOld'
    <2>1. RemovedOld'
        BY <1>1, <1>2, <1>3, RemovedStaysOld DEF ToldInv
    <2> QED
        BY <1>2, <1>4, <2>1 DEF ToldInv, ShadowedExist
<1>7. DedupeTableSound'
    <2> SUFFICES ASSUME NEW c \in Calls, executed[c] = "ok"
                 PROVE  \/ c \in SucceededIn(Len(rounds))'
                        \/ \E rp \in shadowed' : rounds'[rp[1]].calls[rp[2]] = c
        BY <1>1 DEF DedupeTableSound
    <2>1. CASE c \in SucceededIn(Len(rounds))
        <3>1. PICK r \in 1 .. Len(rounds), p \in Pos :
                  rounds[r].row[p] = "succeeded" /\ rounds[r].calls[p] = c
            BY <2>1 DEF SucceededIn
        <3>2. CASE r = Current
            <4>1. <<Current, p>> \in shadowed'
                BY <1>4, <3>1, <3>2
            <4>2. rounds'[Current].calls[p] = c
                BY <1>2, <1>3, <3>1, <3>2
            <4> QED
                BY <4>1, <4>2
        <3>3. CASE r # Current
            BY <1>2, <3>1, <3>3 DEF SucceededIn
        <3> QED
            BY <3>2, <3>3
    <2>2. CASE \E rp \in shadowed : rounds[rp[1]].calls[rp[2]] = c
        BY <1>3, <1>4, <2>2 DEF ToldInv, ShadowedExist
    <2> QED
        BY <1>1, <2>1, <2>2 DEF ToldInv, DedupeTableSound
<1>8. TableComplete'
    <2>1. \A c \in SucceededIn(Len(rounds))' : c \in SucceededIn(Len(rounds))
        <3> SUFFICES ASSUME NEW c \in SucceededIn(Len(rounds))'
                     PROVE  c \in SucceededIn(Len(rounds))
            OBVIOUS
        <3>1. PICK r \in 1 .. Len(rounds), p \in Pos :
                  rounds'[r].row[p] = "succeeded" /\ rounds'[r].calls[p] = c
            BY <1>2 DEF SucceededIn
        <3>2. r # Current
            BY <1>3, <3>1
        <3> QED
            BY <1>2, <3>1, <3>2 DEF SucceededIn
    <2> QED
        BY <1>1, <2>1 DEF ToldInv, TableComplete
<1> QED
    BY <1>5, <1>6, <1>7, <1>8 DEF ToldInv

\* At the start nothing is told and nothing has succeeded.
LEMMA InitTold == Init => ToldInv
<1> SUFFICES ASSUME Init PROVE ToldInv
    OBVIOUS
<1>1. ContextTold /\ RemovedOld /\ OutputsRecorded /\ Unanswered /\ AtRecord /\ ShadowedExist
    BY DEF Init, ContextTold, RemovedOld, OutputsRecorded, Unanswered, AtRecord, ShadowedExist
<1>2. DedupeTableSound /\ TableComplete
    BY DEF Init, DedupeTableSound, TableComplete, NothingExecuted
<1> QED
    BY <1>1, <1>2 DEF ToldInv

\* Every step keeps the second invariant.
LEMMA StepTold == IInv /\ ToldInv /\ [Next]_vars => ToldInv'
<1> SUFFICES ASSUME IInv, ToldInv, [Next]_vars PROVE ToldInv'
    OBVIOUS
<1>1. CASE UNCHANGED vars
    BY <1>1, QuietTold DEF vars, store, locals, history
<1>2. CASE Start \/ Resume \/ SettleGoal
    BY <1>2, StartTold, ResumeTold, SettleGoalTold
<1>3. CASE Stop \/ RequestRound \/ AcceptRound
    BY <1>3, QuietTold DEF Stop, RequestRound, AcceptRound, store, locals, history
<1>4. CASE \/ CompletionStops \/ MaxStepsReached \/ StopAtHead \/ BudgetExceeded \/ RoundFails
           \/ EmptyRoundReturns \/ FinalAnswer \/ NotConverging \/ RejectTask
           \/ StopBeforeCall \/ FinishTask \/ InvokeThrows \/ Crash
    <2>1. Forget /\ pc' \in {"idle", "returned"} /\ UNCHANGED <<rounds, shadowed, resumes>>
        BY <1>4 DEF CompletionStops, MaxStepsReached, StopAtHead, BudgetExceeded, RoundFails,
                    EmptyRoundReturns, FinalAnswer, NotConverging, RejectTask, StopBeforeCall,
                    FinishTask, InvokeThrows, Crash, Return, store, history
    <2> QED
        BY <2>1, GoneTold
<1>5. ASSUME NEW p \in Pos, CreateMissingRow(p) \/ ActivateOpenRow(p) PROVE ToldInv'
    BY <1>5, CompletionRowsTold
<1>6. CASE ActivateMissingRow
    <2>1. pos \in Pos
        BY <1>6, CurrentRound DEF ActivateMissingRow, IInv, Located
    <2> QED
        BY <1>6, <2>1, CompletionRowsTold
<1>7. CASE CompletionEnds \/ (\E large \in BOOLEAN : FeedBack(large)) \/ FinalizeRound
    BY <1>7, CompletionEndsTold, FeedBackTold, FinalizeRoundTold
<1>8. ASSUME NEW calls \in Proposals, NEW said \in Text, NEW cost \in Costs,
             RoundReturns(calls, said, cost)
      PROVE  ToldInv'
    BY <1>8, RoundReturnsTold
<1>9. CASE RejectRound \/ Schedule \/ ActivateCall
    BY <1>9, RejectRoundTold, RoundRowsTold
<1>10. CASE ReuseResult
    BY <1>10, ResultTold DEF ReuseResult, store, history
<1>11. ASSUME NEW result \in {"ok", "error"}, Invoke(result) PROVE ToldInv'
    BY <1>11, ResultTold DEF Invoke, store
<1>12. CASE RecordResult
    BY <1>12, RecordResultTold
<1> QED
    BY <1>1, <1>2, <1>3, <1>4, <1>5, <1>6, <1>7, <1>8, <1>9, <1>10, <1>11, <1>12
       DEF Next, Executor

\* Whatever is resumed, lost or stopped, the locals of executeTask agree with the rows.
THEOREM ToldInvariant == Spec => []ToldInv
BY InitTold, StepTold, Invariant, PTL DEF Spec

\* Every model request carries the transcript the rows tell: each call of each earlier round
\* is answered, with the result its row records, but for rounds of calls that compaction took
\* out, and those lie at least KeepRounds such rounds back.
THEOREM TranscriptIsTrue == Spec => []TranscriptMatchesStore
<1>1. ToldInv => TranscriptMatchesStore
    BY DEF ToldInv, ContextTold, RemovedOld, TranscriptMatchesStore, Sent, Told
<1> QED
    BY <1>1, ToldInvariant, PTL

\* The executor replays a result only of a call that succeeded according to its row.
THEOREM DedupeIsSound == Spec => []DedupeTableSound
<1>1. ToldInv => DedupeTableSound
    BY DEF ToldInv
<1> QED
    BY <1>1, ToldInvariant, PTL

\* In one run, however long, no call that succeeded is handed to the invoker again.
THEOREM NoDuplicateInOneRun == Spec => NoDuplicateBeforeResume
<1>1. IInv /\ ToldInv /\ [Next]_vars =>
          [pc = "invoke" /\ ran' # ran /\ resumes = 0 =>
               Call \notin SucceededIn(Len(rounds))]_vars
    <2> SUFFICES ASSUME IInv, ToldInv, Next, pc = "invoke", ran' # ran, resumes = 0
                 PROVE  Call \notin SucceededIn(Len(rounds))
        OBVIOUS
    <2>1. phase = "round" /\ \A c \in SucceededIn(Len(rounds)) : executed[c] = "ok"
        BY DEF IInv, TypeOK, ToldInv, TableComplete
    <2>2. ~Deduplicated
        BY DEF Next, Executor, Start, Resume, Stop, Crash, CreateMissingRow, ActivateOpenRow,
               CompletionStops, ActivateMissingRow, CompletionEnds, MaxStepsReached, StopAtHead,
               BudgetExceeded, RequestRound, RoundFails, RoundReturns, EmptyRoundReturns,
               FinalAnswer, NotConverging, RejectRound, RejectTask, AcceptRound, Schedule,
               StopBeforeCall, ActivateCall, ReuseResult, Invoke, InvokeThrows, RecordResult,
               FinalizeRound, FinishTask, FeedBack, RoundRan, SettleGoal, history, store
    <2> QED
        BY <2>1, <2>2 DEF Deduplicated
<1> QED
    BY <1>1, Invariant, ToldInvariant, PTL DEF Spec, NoDuplicateBeforeResume

----------------------------------------------------------------------------
(* The executor implements the life of a Task. *)

\* A run begins with a task that has not succeeded.
LEMMA BeginSimulates ==
    ASSUME Start \/ Resume
    PROVE  Life!Begin
<1>1. CASE Start
    BY <1>1 DEF Start, Life!Begin
<1>2. CASE Resume
    <2>1. pc' \in {"complete", "head"}
        BY <1>2 DEF Resume
    <2> QED
        BY <1>2, <2>1 DEF Resume, Life!Begin
<1> QED
    BY <1>1, <1>2

\* A run ends with the outcome that is saved.
LEMMA ReturnSimulates ==
    ASSUME NEW outcome \in {"succeeded", "failed", "aborted"},
           pc \notin {"idle", "returned"}, Return(outcome)
    PROVE  Life!End(outcome)
BY DEF Return, Life!End

\* What a run does between its first and its last save is not seen.
LEMMA InsideStutters ==
    ASSUME pc \notin {"idle", "returned"}, pc' \notin {"idle", "returned"}, task' = task
    PROVE  UNCHANGED <<task, pc \notin {"idle", "returned"}>>
OBVIOUS
\* Every step of the executor is a step in the life of its task, or is not seen there.
LEMMA StepSimulates ==
    ASSUME [Next]_vars
    PROVE  [Life!Next]_<<task, pc \notin {"idle", "returned"}>>
<1> DEFINE Seen == <<task, pc \notin {"idle", "returned"}>>
<1>1. CASE Start \/ Resume
    BY <1>1, BeginSimulates DEF Life!Next
<1>2. ASSUME NEW outcome \in {"succeeded", "failed", "aborted"},
             pc \notin {"idle", "returned"}, Return(outcome)
      PROVE  [Life!Next]_Seen
    BY <1>2, ReturnSimulates DEF Life!Next
<1>3. ASSUME pc \notin {"idle", "returned"}, pc' \notin {"idle", "returned"}, task' = task
      PROVE  [Life!Next]_Seen
    BY <1>3, InsideStutters
<1>4. CASE Stop
    BY <1>4 DEF Stop, store
<1>5. CASE Crash
    <2>1. CASE pc = "returned"
        BY <1>5, <2>1 DEF Crash, store
    <2>2. CASE pc # "returned"
        BY <1>5, <2>2 DEF Crash, store, Life!Next, Life!Die
    <2> QED
        BY <2>1, <2>2
<1>6. CASE SettleGoal
    BY <1>6 DEF SettleGoal
<1>7. CASE UNCHANGED vars
    BY <1>7 DEF vars, store
<1>8. CASE CompletionStops \/ StopAtHead \/ StopBeforeCall
    BY <1>8, <1>2 DEF CompletionStops, StopAtHead, StopBeforeCall
<1>9. CASE MaxStepsReached \/ BudgetExceeded \/ RejectTask
    BY <1>9, <1>2 DEF MaxStepsReached, BudgetExceeded, RejectTask
<1>10. CASE EmptyRoundReturns \/ FinalAnswer \/ NotConverging \/ FinishTask
    BY <1>10, <1>2 DEF EmptyRoundReturns, FinalAnswer, NotConverging, FinishTask
<1>11. CASE RoundFails \/ InvokeThrows
    BY <1>11, <1>2 DEF RoundFails, InvokeThrows
<1>12. CASE \E p \in Pos : CreateMissingRow(p) \/ ActivateOpenRow(p)
    BY <1>12, <1>3 DEF CreateMissingRow, ActivateOpenRow
<1>13. CASE ActivateMissingRow \/ CompletionEnds \/ RequestRound \/ ActivateCall
    BY <1>13, <1>3 DEF ActivateMissingRow, CompletionEnds, RequestRound, ActivateCall, store
<1>14. CASE \E calls \in Proposals, said \in Text, cost \in Costs : RoundReturns(calls, said, cost)
    BY <1>14, <1>3 DEF RoundReturns
<1>15. CASE RejectRound \/ AcceptRound \/ ReuseResult \/ \E large \in BOOLEAN : FeedBack(large)
    BY <1>15, <1>3 DEF RejectRound, AcceptRound, ReuseResult, FeedBack, RoundRan, store
<1>16. CASE Schedule
    <2>1. pc' \in {"schedule", "run"}
        BY <1>16 DEF Schedule
    <2> QED
        BY <1>16, <2>1, <1>3 DEF Schedule
<1>17. CASE \E result \in {"ok", "error"} : Invoke(result)
    BY <1>17, <1>3 DEF Invoke, store
<1>18. CASE RecordResult
    <2>1. pc' \in {"run", "complete"}
        BY <1>18 DEF RecordResult
    <2> QED
        BY <1>18, <2>1, <1>3 DEF RecordResult
<1>19. CASE FinalizeRound
    BY <1>19, <1>3 DEF FinalizeRound, RoundRan
<1> QED
    BY <1>1, <1>4, <1>5, <1>6, <1>7, <1>8, <1>9, <1>10, <1>11, <1>12, <1>13, <1>14, <1>15,
       <1>16, <1>17, <1>18, <1>19 DEF Next, Executor

\* executeTask implements TaskLife: what the Goal run, the timeline and the evaluations
\* may assume of a Task row holds for every task, stopped, lost or resumed.
THEOREM Implements == Spec => ImplementsTaskLife
<1>1. Init => Life!Init
    BY DEF Init, Life!Init
<1>2. [Next]_vars => [Life!Next]_<<task, pc \notin {"idle", "returned"}>>
    BY StepSimulates
<1> QED
    BY <1>1, <1>2, PTL DEF Spec, ImplementsTaskLife, Life!Spec

=============================================================================
