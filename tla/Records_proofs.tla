----------------------------- MODULE Records_proofs -----------------------------
(***************************************************************************)
(* What is proved about what the service writes down: the event log of a   *)
(* workspace and the view of a run that follows it, and the log of the     *)
(* wiki, which tells every change of its files.                            *)
(***************************************************************************)
EXTENDS RunView, WikiLog, SequenceTheorems, TLAPS

-------------------------------------------------------------------------------
(* Sequences of events. *)

\* A queued event added at the end of the queue is at the end of file and queue.
LEMMA AppendConcat ==
    ASSUME NEW f \in Seq(Event), NEW p \in Seq(Event), NEW e \in Event
    PROVE  f \o Append(p, e) = Append(f \o p, e)
<1> DEFINE lhs == f \o Append(p, e)
           rhs == Append(f \o p, e)
<1>1. /\ lhs \in Seq(Event) /\ rhs \in Seq(Event)
      /\ Len(lhs) = Len(f) + Len(p) + 1 /\ Len(rhs) = Len(f) + Len(p) + 1
  OBVIOUS
<1>2. ASSUME NEW i \in 1 .. Len(lhs) PROVE lhs[i] = rhs[i]
  <2>1. CASE i <= Len(f)
    BY <1>1, <2>1
  <2>2. CASE i > Len(f) /\ i <= Len(f) + Len(p)
    BY <1>1, <2>2
  <2>3. CASE i = Len(f) + Len(p) + 1
    BY <1>1, <2>3
  <2> QED BY <1>1, <2>1, <2>2, <2>3
<1> QED BY <1>1, <1>2, SeqEqual

\* Writing the first queued event moves it over without changing file and queue.
LEMMA MoveOver ==
    ASSUME NEW S, NEW f \in Seq(S), NEW p \in Seq(S), p # <<>>
    PROVE  Append(f, Head(p)) \o Tail(p) = f \o p
<1> DEFINE lhs == Append(f, Head(p)) \o Tail(p)
           rhs == f \o p
<1>1. /\ Head(p) \in S /\ Tail(p) \in Seq(S)
      /\ Len(Tail(p)) = Len(p) - 1 /\ Len(p) \in Nat /\ Len(p) >= 1
  OBVIOUS
<1>2. /\ lhs \in Seq(S) /\ rhs \in Seq(S)
      /\ Len(lhs) = Len(f) + Len(p) /\ Len(rhs) = Len(f) + Len(p)
  BY <1>1
<1>3. ASSUME NEW i \in 1 .. Len(lhs) PROVE lhs[i] = rhs[i]
  <2>1. CASE i <= Len(f)
    BY <1>1, <1>2, <2>1
  <2>2. CASE i = Len(f) + 1
    BY <1>1, <1>2, <2>2
  <2>3. CASE i > Len(f) + 1
    BY <1>1, <1>2, <2>3
  <2> QED BY <1>2, <2>1, <2>2, <2>3
<1> QED BY <1>2, <1>3, SeqEqual

\* What verifies to the end verifies up to the end of the file.
LEMMA ChainedPrefix ==
    ASSUME NEW f \in Seq(Event), NEW p \in Seq(Event), Chained(f \o p)
    PROVE  Chained(f)
<1>1. \A i \in 1 .. Len(f) : i \in 1 .. Len(f \o p) /\ (f \o p)[i] = f[i]
  OBVIOUS
<1>2. \A i \in 1 .. Len(f) : i # 1 => i - 1 \in 1 .. Len(f)
  OBVIOUS
<1> QED BY <1>1, <1>2 DEF Chained

\* An event made from the head of a chained log keeps it chained, and is its new head.
LEMMA ChainedAppend ==
    ASSUME NEW log \in Seq(Event), NEW e \in Event, Chained(log),
           e.seq = HeadOf(log).seq + 1, e.prev = HeadOf(log).hash
    PROVE  /\ Chained(Append(log, e))
           /\ HeadOf(Append(log, e)) = [seq |-> e.seq, hash |-> e.hash]
<1> DEFINE new == Append(log, e)
<1>1. /\ new \in Seq(Event) /\ Len(new) = Len(log) + 1 /\ Len(log) \in Nat
      /\ new[Len(log) + 1] = e
      /\ \A i \in 1 .. Len(log) : new[i] = log[i]
  OBVIOUS
<1>2. HeadOf(log).seq = Len(log)
  BY <1>1 DEF HeadOf, Chained, Genesis
<1>3. ASSUME NEW i \in 1 .. Len(new)
      PROVE  new[i].seq = i /\ new[i].prev = IF i = 1 THEN Genesis.hash ELSE new[i - 1].hash
  <2>1. CASE i <= Len(log)
    BY <1>1, <2>1 DEF Chained
  <2>2. CASE i = Len(log) + 1
    BY <1>1, <1>2, <2>2 DEF HeadOf
  <2> QED BY <1>1, <2>1, <2>2
<1>4. Chained(new)
  BY <1>3 DEF Chained
<1>5. HeadOf(new) = [seq |-> e.seq, hash |-> e.hash]
  BY <1>1 DEF HeadOf
<1> QED BY <1>4, <1>5

-------------------------------------------------------------------------------
(* The log: type correctness. *)

LEMMA HeadOfType ==
    ASSUME NEW log \in Seq(Event)
    PROVE  HeadOf(log) \in ChainHeads
<1>1. CASE log = <<>>
  BY <1>1 DEF HeadOf, ChainHeads, Genesis
<1>2. CASE log # <<>>
  <2>1. log[Len(log)] \in Event
    BY <1>2
  <2> QED BY <1>2, <2>1 DEF HeadOf, ChainHeads, Event
<1> QED BY <1>1, <1>2

LEMMA MadeType ==
    ASSUME LogTypeOK, NEW b \in Buses, NEW r \in Roots, NEW k \in Kinds
    PROVE  /\ ChainHead(b, r) \in ChainHeads
           /\ Made(b, r, k) \in Event
<1>1. ChainHead(b, r) \in ChainHeads
  BY HeadOfType DEF LogTypeOK, ChainHead
<1>2. emitted[r] + 1 \in Nat
  BY DEF LogTypeOK
<1> QED BY <1>1, <1>2 DEF Made, Event, ChainHeads

LEMMA LogTypeInit == LogInit => LogTypeOK
BY LogAssumption DEF LogInit, LogTypeOK

LEMMA LogTypeStep == LogTypeOK /\ [LogNext]_logVars => LogTypeOK'
<1> SUFFICES ASSUME LogTypeOK, [LogNext]_logVars PROVE LogTypeOK'
  OBVIOUS
<1>1. ASSUME NEW b \in Buses, NEW r \in Roots, NEW k \in Kinds, Emit(b, r, k)
      PROVE  LogTypeOK'
  <2> DEFINE e == Made(b, r, k)
  <2>1. e \in Event /\ [seq |-> e.seq, hash |-> e.hash] \in ChainHeads
    BY MadeType DEF Event, ChainHeads
  <2>2. heads' \in [Buses -> [Roots -> ChainHeads \cup {NoHead}]]
    BY <1>1, <2>1 DEF Emit, LogTypeOK
  <2>3. pending' \in [Buses -> [Roots -> Seq(Event)]]
    BY <1>1, <2>1 DEF Emit, LogTypeOK
  <2>4. emitted' \in [Roots -> Nat] /\ shared' \in [Roots -> BOOLEAN]
    BY <1>1 DEF Emit, LogTypeOK
  <2> QED BY <1>1, <2>2, <2>3, <2>4 DEF Emit, LogTypeOK, disk
<1>2. ASSUME NEW b \in Buses, NEW r \in Roots, Written(b, r)
      PROVE  LogTypeOK'
  <2>1. Head(pending[b][r]) \in Event /\ Tail(pending[b][r]) \in Seq(Event)
    BY <1>2 DEF Written, LogTypeOK
  <2>2. file' \in [Roots -> Seq(Event)]
    BY <1>2, <2>1 DEF Written, LogTypeOK
  <2>3. pending' \in [Buses -> [Roots -> Seq(Event)]]
    BY <1>2, <2>1 DEF Written, LogTypeOK
  <2> QED BY <1>2, <2>2, <2>3 DEF Written, LogTypeOK, logHistory
<1>3. ASSUME NEW b \in Buses, NEW r \in Roots, WriteFails(b, r)
      PROVE  LogTypeOK'
  <2>1. Tail(pending[b][r]) \in Seq(Event)
    BY <1>3 DEF WriteFails, LogTypeOK
  <2>2. pending' \in [Buses -> [Roots -> Seq(Event)]]
    BY <1>3, <2>1 DEF WriteFails, LogTypeOK
  <2> QED BY <1>3, <2>2 DEF WriteFails, LogTypeOK
<1>4. ASSUME RestartLog PROVE LogTypeOK'
  BY <1>4 DEF RestartLog, LogTypeOK, disk
<1>5. ASSUME UNCHANGED logVars PROVE LogTypeOK'
  BY <1>5 DEF logVars, LogTypeOK
<1> QED BY <1>1, <1>2, <1>3, <1>4, <1>5 DEF LogNext

-------------------------------------------------------------------------------
(* The log: why it verifies. *)

\* File and queue of a bus as one log: what the file will be.
FullLog(b, r) == file[r] \o pending[b][r]

\* A bus without a head has nothing to write; the only bus of a root knows the end of
\* the whole log, which is chained.
RootSound(r) ==
    /\ torn[r] => lost[r]
    /\ \A b \in Buses : heads[b][r] = NoHead => pending[b][r] = <<>>
    /\ ~shared[r] => \A b, c \in Buses : heads[b][r] # NoHead /\ heads[c][r] # NoHead => b = c
    /\ ~lost[r] /\ ~shared[r] =>
        /\ Chained(file[r])
        /\ \A b \in Buses : heads[b][r] # NoHead =>
                Chained(FullLog(b, r)) /\ heads[b][r] = HeadOf(FullLog(b, r))

LogSound == LogTypeOK /\ \A r \in Roots : RootSound(r)

LEMMA LogSoundInit == LogInit => LogSound
BY LogTypeInit DEF LogInit, LogSound, RootSound, Chained, Genesis

\* Before it emits, the only bus of a root makes its event from the end of the whole log.
LEMMA ChainHeadIsEnd ==
    ASSUME LogSound, NEW b \in Buses, NEW r \in Roots, ~lost[r], ~shared[r]
    PROVE  Chained(FullLog(b, r)) /\ ChainHead(b, r) = HeadOf(FullLog(b, r))
<1>1. CASE heads[b][r] = NoHead
  <2>1. pending[b][r] = <<>> /\ file[r] \in Seq(Event)
    BY <1>1 DEF LogSound, RootSound, LogTypeOK
  <2>2. FullLog(b, r) = file[r]
    BY <2>1 DEF FullLog
  <2> QED BY <1>1, <2>2 DEF LogSound, RootSound, ChainHead
<1>2. CASE heads[b][r] # NoHead
  BY <1>2 DEF LogSound, RootSound, ChainHead
<1> QED BY <1>1, <1>2

LEMMA EmitSound ==
    ASSUME LogSound, LogTypeOK', NEW b \in Buses, NEW r \in Roots, NEW k \in Kinds, Emit(b, r, k)
    PROVE  \A root \in Roots : RootSound(root)'
<1> DEFINE e == Made(b, r, k)
<1>1. LogTypeOK
  BY DEF LogSound
<1>2. e \in Event /\ e.seq = ChainHead(b, r).seq + 1 /\ e.prev = ChainHead(b, r).hash
  BY <1>1, MadeType DEF Made
<1>3. ASSUME NEW root \in Roots, root # r PROVE RootSound(root)'
  <2>1. /\ file'[root] = file[root] /\ torn'[root] = torn[root] /\ lost'[root] = lost[root]
        /\ shared'[root] = shared[root]
        /\ \A c \in Buses : heads'[c][root] = heads[c][root] /\ pending'[c][root] = pending[c][root]
    BY <1>1, <1>3 DEF Emit, LogTypeOK, disk
  <2> QED BY <2>1 DEF LogSound, RootSound, FullLog
<1>4. RootSound(r)'
  <2>1. /\ file'[r] = file[r] /\ torn'[r] = torn[r] /\ lost'[r] = lost[r]
        /\ heads'[b][r] = [seq |-> e.seq, hash |-> e.hash]
        /\ pending'[b][r] = Append(pending[b][r], e)
        /\ \A c \in Buses \ {b} : heads'[c][r] = heads[c][r] /\ pending'[c][r] = pending[c][r]
        /\ shared'[r] = (shared[r] \/ \E c \in Buses \ {b} : heads[c][r] # NoHead)
    BY <1>1 DEF Emit, LogTypeOK, disk
  <2>2. heads'[b][r] # NoHead
    BY <1>2, <2>1 DEF Event, NoHead
  <2>3. torn'[r] => lost'[r]
    BY <2>1 DEF LogSound, RootSound
  <2>4. \A c \in Buses : heads'[c][r] = NoHead => pending'[c][r] = <<>>
    BY <2>1, <2>2 DEF LogSound, RootSound
  <2>5. ~shared'[r] => \A c \in Buses : heads'[c][r] # NoHead => c = b
    BY <2>1
  <2>6. ASSUME ~lost'[r], ~shared'[r]
        PROVE  /\ Chained(file'[r])
               /\ Chained(FullLog(b, r)') /\ heads'[b][r] = HeadOf(FullLog(b, r)')
    <3>1. ~lost[r] /\ ~shared[r]
      BY <2>1, <2>6
    <3>2. Chained(FullLog(b, r)) /\ ChainHead(b, r) = HeadOf(FullLog(b, r))
      BY <3>1, ChainHeadIsEnd
    <3>3. file[r] \in Seq(Event) /\ pending[b][r] \in Seq(Event) /\ FullLog(b, r) \in Seq(Event)
      BY <1>1 DEF LogTypeOK, FullLog
    <3>4. FullLog(b, r)' = Append(FullLog(b, r), e)
      <4>1. file[r] \o Append(pending[b][r], e) = Append(file[r] \o pending[b][r], e)
        BY <1>2, <3>3, AppendConcat
      <4> QED BY <2>1, <4>1 DEF FullLog
    <3>5. Chained(Append(FullLog(b, r), e))
          /\ HeadOf(Append(FullLog(b, r), e)) = [seq |-> e.seq, hash |-> e.hash]
      BY <1>2, <3>2, <3>3, ChainedAppend
    <3>6. Chained(file[r])
      BY <3>1 DEF LogSound, RootSound
    <3> QED BY <2>1, <3>4, <3>5, <3>6
  <2> QED BY <2>3, <2>4, <2>5, <2>6 DEF RootSound
<1> QED BY <1>3, <1>4

LEMMA WrittenSound ==
    ASSUME LogSound, NEW b \in Buses, NEW r \in Roots, Written(b, r)
    PROVE  \A root \in Roots : RootSound(root)'
<1>1. LogTypeOK
  BY DEF LogSound
<1>2. /\ heads' = heads /\ shared' = shared /\ lost' = lost
      /\ torn'[r] = FALSE
      /\ pending'[b][r] = Tail(pending[b][r])
      /\ \A c \in Buses \ {b} : pending'[c][r] = pending[c][r]
      /\ file'[r] = IF torn[r] THEN file[r] ELSE Append(file[r], Head(pending[b][r]))
  BY <1>1 DEF Written, LogTypeOK, logHistory
<1>3. ASSUME NEW root \in Roots, root # r PROVE RootSound(root)'
  <2>1. /\ file'[root] = file[root] /\ torn'[root] = torn[root]
        /\ \A c \in Buses : pending'[c][root] = pending[c][root]
    BY <1>1, <1>3 DEF Written, LogTypeOK
  <2> QED BY <1>2, <2>1 DEF LogSound, RootSound, FullLog
<1>4. heads[b][r] # NoHead
  BY DEF LogSound, RootSound, Written
<1>5. ASSUME ~lost[r], ~shared[r]
      PROVE  /\ FullLog(b, r)' = FullLog(b, r)
             /\ Chained(file'[r])
  <2>1. ~torn[r]
    BY <1>5 DEF LogSound, RootSound
  <2>2. /\ file[r] \in Seq(Event) /\ pending[b][r] \in Seq(Event) /\ pending[b][r] # <<>>
    BY <1>1 DEF LogTypeOK, Written
  <2>3. FullLog(b, r)' = FullLog(b, r)
    BY <1>2, <2>1, <2>2, MoveOver DEF FullLog
  <2>4. Chained(FullLog(b, r)')
    BY <1>4, <1>5, <2>3 DEF LogSound, RootSound
  <2>5. file'[r] \in Seq(Event) /\ pending'[b][r] \in Seq(Event)
    BY <1>2, <2>1, <2>2
  <2> QED BY <2>3, <2>4, <2>5, ChainedPrefix DEF FullLog
<1>6. RootSound(r)'
  <2>1. \A c \in Buses : heads'[c][r] = NoHead => pending'[c][r] = <<>>
    BY <1>2, <1>4 DEF LogSound, RootSound
  <2>2. ~shared[r] => \A c \in Buses : heads[c][r] # NoHead => c = b
    BY <1>4 DEF LogSound, RootSound
  <2>3. ~lost[r] /\ ~shared[r] => Chained(FullLog(b, r)) /\ heads[b][r] = HeadOf(FullLog(b, r))
    BY <1>4 DEF LogSound, RootSound
  <2> QED BY <1>2, <1>5, <2>1, <2>2, <2>3 DEF RootSound
<1> QED BY <1>3, <1>6

LEMMA LogSoundStep == LogSound /\ [LogNext]_logVars => LogSound'
<1> SUFFICES ASSUME LogSound, [LogNext]_logVars PROVE LogSound'
  OBVIOUS
<1>1. LogTypeOK'
  BY LogTypeStep DEF LogSound
<1>2. ASSUME NEW b \in Buses, NEW r \in Roots, NEW k \in Kinds, Emit(b, r, k) PROVE LogSound'
  BY <1>1, <1>2, EmitSound DEF LogSound
<1>3. ASSUME NEW b \in Buses, NEW r \in Roots, Written(b, r) PROVE LogSound'
  BY <1>1, <1>3, WrittenSound DEF LogSound
<1>4. ASSUME NEW b \in Buses, NEW r \in Roots, WriteFails(b, r) PROVE LogSound'
  <2>1. ASSUME NEW root \in Roots, root # r PROVE RootSound(root)'
    <3>1. /\ file' = file /\ heads' = heads /\ shared' = shared
          /\ torn'[root] = torn[root] /\ lost'[root] = lost[root]
          /\ \A c \in Buses : pending'[c][root] = pending[c][root]
      BY <1>4, <2>1 DEF WriteFails, LogSound, LogTypeOK
    <3> QED BY <3>1 DEF LogSound, RootSound, FullLog
  <2>2. RootSound(r)'
    <3>1. lost'[r] /\ heads' = heads /\ shared' = shared
      BY <1>4 DEF WriteFails, LogSound, LogTypeOK
    <3>2. \A c \in Buses : heads[c][r] = NoHead => pending'[c][r] = <<>>
      BY <1>4 DEF WriteFails, LogSound, RootSound, LogTypeOK
    <3> QED BY <3>1, <3>2 DEF LogSound, RootSound
  <2> QED BY <1>1, <2>1, <2>2 DEF LogSound
<1>5. ASSUME RestartLog PROVE LogSound'
  <2>1. /\ file' = file /\ torn' = torn /\ lost' = lost /\ shared' = shared
        /\ \A b \in Buses, r \in Roots : heads'[b][r] = NoHead /\ pending'[b][r] = <<>>
    BY <1>5 DEF RestartLog, disk
  <2> QED BY <1>1, <2>1 DEF LogSound, RootSound
<1>6. ASSUME UNCHANGED logVars PROVE LogSound'
  BY <1>6 DEF logVars, LogSound, RootSound, FullLog, LogTypeOK
<1> QED BY <1>2, <1>3, <1>4, <1>5, <1>6 DEF LogNext

-------------------------------------------------------------------------------
(* Every step of the service and the page is a step of the log, or none. *)

LEMMA ViewStepsLog == [RunViewNext]_runViewVars => [LogNext]_logVars
<1> SUFFICES ASSUME [RunViewNext]_runViewVars PROVE [LogNext]_logVars
  OBVIOUS
<1> USE ViewAssumption
<1>1. ASSUME NEW b \in Buses, NEW q \in Questions, Ask(b, q) PROVE LogNext
  <2>1. RootOf[q] \in Roots /\ <<"requested", q>> \in Kinds
    OBVIOUS
  <2> QED BY <1>1, <2>1 DEF Ask, LogNext
<1>2. ASSUME NEW b \in Buses, NEW q \in Questions, SettleOne(b, q) PROVE LogNext
  <2>1. RootOf[q] \in Roots /\ <<"settled", q>> \in Kinds
    OBVIOUS
  <2> QED BY <1>2, <2>1 DEF SettleOne, LogNext
<1>3. ASSUME \/ \E b \in Buses : Connect(b)
             \/ \E r \in Roots : OpenRun(r)
             \/ CloseRun \/ Disconnect \/ Consume
             \/ \E q \in Questions : Confirmed(q)
      PROVE  UNCHANGED logVars
  BY <1>3 DEF Connect, OpenRun, CloseRun, Disconnect, Consume, Confirmed
<1>4. CASE WriteStep
  BY <1>4 DEF WriteStep, LogNext
<1>5. CASE RestartService
  BY <1>5 DEF RestartService, LogNext
<1>6. CASE UNCHANGED runViewVars
  BY <1>6 DEF runViewVars
<1> QED BY <1>1, <1>2, <1>3, <1>4, <1>5, <1>6 DEF RunViewNext, Expire, Respond

(* The audit chain of a root whose writes all succeeded, on one runtime,     *)
(* verifies in every state of the service: verifyChain of event-bus.ts       *)
(* reports nothing.                                                          *)
THEOREM LogVerifies == RunViewSpec => []ChainVerifies
<1>1. RunViewInit => LogSound
  BY LogSoundInit DEF RunViewInit
<1>2. LogSound /\ [RunViewNext]_runViewVars => LogSound'
  BY ViewStepsLog, LogSoundStep
<1>3. LogSound => ChainVerifies
  BY DEF LogSound, RootSound, ChainVerifies, Verifies
<1> QED BY <1>1, <1>2, <1>3, PTL DEF RunViewSpec

-------------------------------------------------------------------------------
(* The view of a run: what its invariant says. *)

Requested(q) == <<"requested", q>>
Settled(q) == <<"settled", q>>

\* What a log says, without its chain.
KindsOf(log) == [i \in 1 .. Len(log) |-> log[i].kind]
InFile(r) == KindsOf(file[r])
Queued(b, r) == KindsOf(pending[b][r])

Says(s, k) == \E i \in DOMAIN s : s[i] = k

\* A question is not asked again after it is settled.
InOrder(s, q) == \A i, j \in DOMAIN s : i < j => ~(s[i] = Settled(q) /\ s[j] = Requested(q))

\* Every event is of a question that has been asked, in the log of its root.
EventsAreAsked ==
    \A r \in Roots, q \in Questions, b \in Buses :
        \/ Says(InFile(r), Requested(q)) \/ Says(InFile(r), Settled(q))
        \/ Says(Queued(b, r), Requested(q)) \/ Says(Queued(b, r), Settled(q))
        => q \in asked /\ RootOf[q] = r

\* Bus b still has to do with q: it waits for the answer, or has events of it to write.
Has(b, q) ==
    \/ <<b, q>> \in waiting
    \/ Says(Queued(b, RootOf[q]), Requested(q))
    \/ Says(Queued(b, RootOf[q]), Settled(q))

OneBusEach == \A q \in Questions, b, c \in Buses : Has(b, q) /\ Has(c, q) => b = c

\* Who waits has asked, and knows the end of the log; nobody waits for what was answered.
WaitersAsked ==
    \A q \in Questions, b \in Buses :
        <<b, q>> \in waiting => q \in asked /\ heads[b][RootOf[q]] # NoHead /\ q \notin answered

\* The log of a root, file and queues, says what its questions have come to, unless a write
\* of it has failed.
LogTells(q) ==
    LET r == RootOf[q]
    IN /\ \A b \in Buses : <<b, q>> \in waiting =>
            /\ Says(InFile(r), Requested(q)) \/ Says(Queued(b, r), Requested(q))
            /\ ~Says(InFile(r), Settled(q)) /\ \A c \in Buses : ~Says(Queued(c, r), Settled(q))
       /\ q \in asked \ orphaned /\ (\A b \in Buses : <<b, q>> \notin waiting) =>
            Says(InFile(r), Settled(q)) \/ \E c \in Buses : Says(Queued(c, r), Settled(q))
       /\ InOrder(InFile(r), q)
       /\ \A b \in Buses : InOrder(Queued(b, r), q)
       /\ Says(InFile(r), Settled(q)) => \A b \in Buses : ~Says(Queued(b, r), Requested(q))

LogsTell == \A q \in Questions : lost[RootOf[q]] \/ LogTells(q)

\* What the page shows, or is on its way to it, is of the run it watches.
PageIsOfRun ==
    /\ answered \subseteq asked
    /\ \A q \in Questions :
        q \in approvals \/ Says(frames, Requested(q)) \/ Says(frames, Settled(q)) =>
            q \in asked /\ RootOf[q] = watching

\* What is on its way will make the page show q, or no longer show it.
WillShow(b, q) ==
    /\ InOrder(frames, q)
    /\ <<b, q>> \in waiting =>
        /\ q \in approvals \/ Says(frames, Requested(q))
        /\ ~Says(frames, Settled(q))
    /\ q \notin orphaned /\ <<b, q>> \notin waiting =>
        \/ Says(frames, Settled(q))
        \/ q \notin approvals /\ ~Says(frames, Requested(q))

\* The stream of the only runtime that works on a run.
Follows(b, r) ==
    stream = b /\ watching = r /\ \A other \in Buses \ {b} : heads[other][r] = NoHead

StreamTells ==
    \A q \in Questions, b \in Buses :
        Follows(b, RootOf[q]) /\ ~lost[RootOf[q]] => WillShow(b, q)

ViewInv ==
    /\ ViewTypeOK /\ LogSound
    /\ EventsAreAsked /\ OneBusEach /\ WaitersAsked /\ LogsTell
    /\ PageIsOfRun /\ StreamTells

-------------------------------------------------------------------------------
(* The view of a run: sequences. *)

LEMMA SaysAppend ==
    ASSUME NEW S, NEW s \in Seq(S), NEW x \in S, NEW k
    PROVE  Says(Append(s, x), k) <=> Says(s, k) \/ x = k
<1>1. /\ DOMAIN s = 1 .. Len(s) /\ DOMAIN Append(s, x) = 1 .. (Len(s) + 1) /\ Len(s) \in Nat
      /\ \A i \in 1 .. Len(s) : Append(s, x)[i] = s[i]
      /\ Append(s, x)[Len(s) + 1] = x
  OBVIOUS
<1> QED BY <1>1 DEF Says

LEMMA SaysTail ==
    ASSUME NEW S, NEW s \in Seq(S), s # <<>>, NEW k
    PROVE  Says(s, k) <=> Head(s) = k \/ Says(Tail(s), k)
<1>1. /\ DOMAIN s = 1 .. Len(s) /\ DOMAIN Tail(s) = 1 .. (Len(s) - 1) /\ Len(s) \in Nat \ {0}
      /\ \A i \in 1 .. (Len(s) - 1) : Tail(s)[i] = s[i + 1]
      /\ Head(s) = s[1]
  OBVIOUS
<1>2. \A i \in 1 .. Len(s) : i = 1 \/ i - 1 \in 1 .. (Len(s) - 1)
  BY <1>1
<1>3. ASSUME NEW i \in 1 .. Len(s), s[i] = k PROVE Head(s) = k \/ Says(Tail(s), k)
  <2>1. CASE i = 1
    BY <1>1, <1>3, <2>1
  <2>2. CASE i # 1
    <3>1. i - 1 \in 1 .. (Len(s) - 1) /\ Tail(s)[i - 1] = s[(i - 1) + 1] /\ (i - 1) + 1 = i
      BY <1>1, <1>2, <2>2
    <3> QED BY <1>1, <1>3, <3>1 DEF Says
  <2> QED BY <2>1, <2>2
<1>4. ASSUME NEW i \in 1 .. (Len(s) - 1), Tail(s)[i] = k PROVE Says(s, k)
  <2>1. i + 1 \in DOMAIN s /\ s[i + 1] = k
    BY <1>1, <1>4
  <2> QED BY <2>1 DEF Says
<1> QED BY <1>1, <1>3, <1>4 DEF Says

LEMMA OrderAppend ==
    ASSUME NEW S, NEW s \in Seq(S), NEW x \in S, NEW q, InOrder(s, q),
           x = Requested(q) => ~Says(s, Settled(q))
    PROVE  InOrder(Append(s, x), q)
<1>1. /\ DOMAIN s = 1 .. Len(s) /\ DOMAIN Append(s, x) = 1 .. (Len(s) + 1) /\ Len(s) \in Nat
      /\ \A i \in 1 .. Len(s) : Append(s, x)[i] = s[i]
      /\ Append(s, x)[Len(s) + 1] = x
  OBVIOUS
<1> QED BY <1>1 DEF InOrder, Says

LEMMA OrderTail ==
    ASSUME NEW S, NEW s \in Seq(S), s # <<>>, NEW q, InOrder(s, q)
    PROVE  /\ InOrder(Tail(s), q)
           /\ Head(s) = Settled(q) => ~Says(Tail(s), Requested(q))
<1>1. /\ DOMAIN s = 1 .. Len(s) /\ DOMAIN Tail(s) = 1 .. (Len(s) - 1) /\ Len(s) \in Nat \ {0}
      /\ \A i \in 1 .. (Len(s) - 1) : Tail(s)[i] = s[i + 1]
      /\ Head(s) = s[1]
  OBVIOUS
<1>2. \A i \in 1 .. (Len(s) - 1) : i + 1 \in 1 .. Len(s) /\ 1 \in 1 .. Len(s) /\ 1 < i + 1
  BY <1>1
<1>3. \A i, j \in 1 .. (Len(s) - 1) : i < j => i + 1 < j + 1
  BY <1>1
<1> QED BY <1>1, <1>2, <1>3 DEF InOrder, Says

LEMMA NothingSaid ==
    ASSUME NEW k, NEW q PROVE ~Says(<<>>, k) /\ InOrder(<<>>, q)
  BY DEF Says, InOrder

LEMMA KindsType ==
    ASSUME NEW s \in Seq(Event)
    PROVE  /\ KindsOf(s) \in Seq(Kinds)
           /\ s = <<>> => KindsOf(s) = <<>>
<1>1. ASSUME NEW i \in 1 .. Len(s) PROVE s[i].kind \in Kinds
  <2>1. s[i] \in Event
    BY ElementOfSeq
  <2> QED BY <2>1 DEF Event
<1>2. Len(s) \in Nat
  OBVIOUS
<1>3. KindsOf(s) \in Seq(Kinds)
  BY <1>1, <1>2 DEF KindsOf
<1>4. s = <<>> => Len(KindsOf(s)) = 0
  BY <1>2 DEF KindsOf
<1> QED BY <1>3, <1>4, EmptySeq

LEMMA KindsAppend ==
    ASSUME NEW s \in Seq(Event), NEW e \in Event
    PROVE  KindsOf(Append(s, e)) = Append(KindsOf(s), e.kind)
<1> DEFINE lhs == KindsOf(Append(s, e))
           rhs == Append(KindsOf(s), e.kind)
<1>0. e.kind \in Kinds
  BY DEF Event
<1>1. /\ Append(s, e) \in Seq(Event) /\ Len(Append(s, e)) = Len(s) + 1 /\ Len(s) \in Nat
      /\ \A i \in 1 .. Len(s) : Append(s, e)[i] = s[i]
      /\ Append(s, e)[Len(s) + 1] = e
  OBVIOUS
<1>2. KindsOf(s) \in Seq(Kinds) /\ lhs \in Seq(Kinds) /\ rhs \in Seq(Kinds)
  <2>1. KindsOf(s) \in Seq(Kinds) /\ lhs \in Seq(Kinds)
    BY <1>1, KindsType
  <2> QED BY <1>0, <2>1, AppendProperties
<1>3. Len(KindsOf(s)) = Len(s) /\ Len(lhs) = Len(s) + 1 /\ Len(rhs) = Len(s) + 1
  <2>1. Len(KindsOf(s)) = Len(s) /\ Len(lhs) = Len(s) + 1
    BY <1>1, <1>2 DEF KindsOf
  <2> QED BY <1>0, <1>2, <2>1
<1>4. ASSUME NEW i \in 1 .. Len(lhs) PROVE lhs[i] = rhs[i]
  <2>1. CASE i \in 1 .. Len(s)
    <3>1. lhs[i] = s[i].kind
      BY <1>1, <1>3, <2>1 DEF KindsOf
    <3>2. rhs[i] = KindsOf(s)[i]
      BY <1>0, <1>2, <1>3, <2>1
    <3> QED BY <2>1, <3>1, <3>2 DEF KindsOf
  <2>2. CASE i = Len(s) + 1
    <3>1. lhs[i] = e.kind
      BY <1>1, <1>3, <2>2 DEF KindsOf
    <3>2. rhs[i] = e.kind
      BY <1>0, <1>2, <1>3, <2>2
    <3> QED BY <3>1, <3>2
  <2> QED BY <1>1, <1>3, <2>1, <2>2
<1> QED BY <1>2, <1>3, <1>4, SeqEqual

LEMMA KindsTail ==
    ASSUME NEW s \in Seq(Event), s # <<>>
    PROVE  /\ KindsOf(s) # <<>> /\ Head(KindsOf(s)) = Head(s).kind
           /\ KindsOf(Tail(s)) = Tail(KindsOf(s))
<1> DEFINE lhs == KindsOf(Tail(s))
           rhs == Tail(KindsOf(s))
<1>1. /\ Tail(s) \in Seq(Event) /\ Len(Tail(s)) = Len(s) - 1 /\ Len(s) \in Nat \ {0}
      /\ \A i \in 1 .. (Len(s) - 1) : Tail(s)[i] = s[i + 1]
      /\ Head(s) = s[1] /\ Head(s) \in Event
  OBVIOUS
<1>2. KindsOf(s) \in Seq(Kinds) /\ lhs \in Seq(Kinds)
  BY <1>1, KindsType
<1>3. Len(KindsOf(s)) = Len(s) /\ Len(lhs) = Len(s) - 1
  BY <1>1, <1>2 DEF KindsOf
<1>4. KindsOf(s) # <<>> /\ Head(KindsOf(s)) = KindsOf(s)[1]
  BY <1>1, <1>2, <1>3
<1>5. KindsOf(s)[1] = Head(s).kind
  BY <1>1 DEF KindsOf
<1>6. /\ rhs \in Seq(Kinds) /\ Len(rhs) = Len(s) - 1
      /\ \A i \in 1 .. (Len(s) - 1) : rhs[i] = KindsOf(s)[i + 1]
  BY <1>1, <1>2, <1>3, <1>4
<1>7. ASSUME NEW i \in 1 .. Len(lhs) PROVE lhs[i] = rhs[i]
  <2>1. i \in 1 .. (Len(s) - 1) /\ i + 1 \in 1 .. Len(s)
    BY <1>1, <1>3
  <2>2. lhs[i] = s[i + 1].kind
    BY <1>1, <2>1 DEF KindsOf
  <2>3. KindsOf(s)[i + 1] = s[i + 1].kind
    BY <2>1 DEF KindsOf
  <2> QED BY <1>6, <2>1, <2>2, <2>3
<1> QED BY <1>2, <1>3, <1>4, <1>5, <1>6, <1>7, SeqEqual

\* What an emitted event does to the logs.
LEMMA EmitSays ==
    ASSUME LogSound, NEW b \in Buses, NEW r \in Roots, NEW k \in Kinds, Emit(b, r, k)
    PROVE  /\ Queued(b, r)' = Append(Queued(b, r), k)
           /\ \A c \in Buses, s \in Roots : c # b \/ s # r => Queued(c, s)' = Queued(c, s)
           /\ \A s \in Roots : InFile(s)' = InFile(s)
           /\ heads'[b][r] # NoHead
           /\ \A c \in Buses, s \in Roots : heads'[c][s] = NoHead => heads[c][s] = NoHead
           /\ lost' = lost
<1> DEFINE e == Made(b, r, k)
<1>1. LogTypeOK
  BY DEF LogSound
<1>2. e \in Event /\ e.kind = k
  BY <1>1, MadeType DEF Made
<1>3. /\ heads'[b][r] = [seq |-> e.seq, hash |-> e.hash]
      /\ pending'[b][r] = Append(pending[b][r], e) /\ pending[b][r] \in Seq(Event)
      /\ \A c \in Buses, s \in Roots : c # b \/ s # r =>
            heads'[c][s] = heads[c][s] /\ pending'[c][s] = pending[c][s]
      /\ file' = file /\ lost' = lost
  BY <1>1 DEF Emit, LogTypeOK, disk
<1>4. heads'[b][r] # NoHead
  BY <1>2, <1>3 DEF Event, NoHead
<1>5. Queued(b, r)' = Append(Queued(b, r), k)
  <2> HIDE DEF e
  <2> QED BY <1>2, <1>3, KindsAppend DEF Queued
<1> HIDE DEF e
<1> QED BY <1>3, <1>4, <1>5 DEF Queued, InFile

LEMMA WrittenSays ==
    ASSUME LogSound, NEW b \in Buses, NEW r \in Roots, Written(b, r)
    PROVE  /\ Queued(b, r) # <<>> /\ Queued(b, r)' = Tail(Queued(b, r))
           /\ \A c \in Buses, s \in Roots : c # b \/ s # r => Queued(c, s)' = Queued(c, s)
           /\ \A s \in Roots : s # r => InFile(s)' = InFile(s)
           /\ \/ InFile(r)' = Append(InFile(r), Head(Queued(b, r)))
              \/ InFile(r)' = InFile(r) /\ lost[r]
           /\ heads' = heads /\ lost' = lost
<1>1. LogTypeOK /\ (torn[r] => lost[r])
  BY DEF LogSound, RootSound
<1>2. /\ heads' = heads /\ lost' = lost
      /\ pending[b][r] \in Seq(Event) /\ pending[b][r] # <<>> /\ file[r] \in Seq(Event)
      /\ pending'[b][r] = Tail(pending[b][r])
      /\ \A c \in Buses, s \in Roots : c # b \/ s # r => pending'[c][s] = pending[c][s]
      /\ \A s \in Roots : s # r => file'[s] = file[s]
      /\ file'[r] = IF torn[r] THEN file[r] ELSE Append(file[r], Head(pending[b][r]))
  BY <1>1 DEF Written, LogTypeOK, logHistory
<1>3. /\ Queued(b, r) # <<>> /\ Queued(b, r)' = Tail(Queued(b, r))
      /\ Head(Queued(b, r)) = Head(pending[b][r]).kind
  BY <1>2, KindsTail DEF Queued
<1>4. ~torn[r] => InFile(r)' = Append(InFile(r), Head(pending[b][r]).kind)
  <2>1. Head(pending[b][r]) \in Event
    BY <1>2
  <2> QED BY <1>2, <2>1, KindsAppend DEF InFile
<1> QED BY <1>1, <1>2, <1>3, <1>4 DEF Queued, InFile

LEMMA LogSaysType ==
    ASSUME LogTypeOK, NEW b \in Buses, NEW r \in Roots
    PROVE  InFile(r) \in Seq(Kinds) /\ Queued(b, r) \in Seq(Kinds)
  BY KindsType DEF LogTypeOK, InFile, Queued

\* An emitted event is said at the end of its queue, and nothing else changes.
LEMMA EmitTells ==
    ASSUME LogSound, NEW b \in Buses, NEW r \in Roots, NEW k \in Kinds, Emit(b, r, k)
    PROVE  /\ \A c \in Buses, s \in Roots : \A x :
                Says(Queued(c, s)', x) <=> Says(Queued(c, s), x) \/ (c = b /\ s = r /\ x = k)
           /\ \A q : /\ InOrder(Queued(b, r), q)
                     /\ k = Requested(q) => ~Says(Queued(b, r), Settled(q))
                     => InOrder(Queued(b, r)', q)
           /\ \A c \in Buses, s \in Roots : \A q :
                (c # b \/ s # r) /\ InOrder(Queued(c, s), q) => InOrder(Queued(c, s)', q)
<1>1. Queued(b, r) \in Seq(Kinds)
  BY LogSaysType DEF LogSound
<1>2. /\ Queued(b, r)' = Append(Queued(b, r), k)
      /\ \A c \in Buses, s \in Roots : c # b \/ s # r => Queued(c, s)' = Queued(c, s)
  BY EmitSays
<1>3. \A x : Says(Queued(b, r)', x) <=> Says(Queued(b, r), x) \/ x = k
  BY <1>1, <1>2, SaysAppend
<1>4. \A q : /\ InOrder(Queued(b, r), q)
             /\ k = Requested(q) => ~Says(Queued(b, r), Settled(q))
             => InOrder(Queued(b, r)', q)
  BY <1>1, <1>2, OrderAppend
<1> QED BY <1>2, <1>3, <1>4

\* A written event goes from the head of its queue to the end of the file.
LEMMA WrittenTells ==
    ASSUME LogSound, NEW b \in Buses, NEW r \in Roots, Written(b, r)
    PROVE  \E h \in Kinds :
           /\ Says(Queued(b, r), h) /\ (lost[r] \/ Says(InFile(r)', h))
           /\ \A c \in Buses, s \in Roots : \A x :
                /\ Says(Queued(c, s)', x) => Says(Queued(c, s), x)
                /\ Says(Queued(c, s), x) => Says(Queued(c, s)', x) \/ (c = b /\ s = r /\ x = h)
           /\ \A s \in Roots : \A x :
                /\ Says(InFile(s), x) => Says(InFile(s)', x)
                /\ Says(InFile(s)', x) => Says(InFile(s), x) \/ (s = r /\ x = h)
           /\ \A c \in Buses, s \in Roots : \A q : InOrder(Queued(c, s), q) => InOrder(Queued(c, s)', q)
           /\ \A q : InOrder(Queued(b, r), q) /\ h = Settled(q) => ~Says(Queued(b, r)', Requested(q))
           /\ \A s \in Roots : \A q :
                /\ InOrder(InFile(s), q)
                /\ s = r /\ h = Requested(q) => ~Says(InFile(s), Settled(q))
                => InOrder(InFile(s)', q)
<1> DEFINE queue == Queued(b, r)
           h == Head(queue)
<1>1. queue \in Seq(Kinds) /\ InFile(r) \in Seq(Kinds)
  BY LogSaysType DEF LogSound
<1>2. /\ queue # <<>> /\ Queued(b, r)' = Tail(queue)
      /\ \A c \in Buses, s \in Roots : c # b \/ s # r => Queued(c, s)' = Queued(c, s)
      /\ \A s \in Roots : s # r => InFile(s)' = InFile(s)
      /\ InFile(r)' = Append(InFile(r), h) \/ (InFile(r)' = InFile(r) /\ lost[r])
  BY WrittenSays
<1>3. h \in Kinds
  BY <1>1, <1>2
<1> HIDE DEF queue, h
<1>4. \A x : Says(queue, x) <=> Head(queue) = x \/ Says(Tail(queue), x)
  BY <1>1, <1>2, SaysTail
<1>5. \A x : Says(Append(InFile(r), h), x) <=> Says(InFile(r), x) \/ h = x
  BY <1>1, <1>3, SaysAppend
<1>6. \A q : InOrder(queue, q) =>
                InOrder(Tail(queue), q) /\ (Head(queue) = Settled(q) => ~Says(Tail(queue), Requested(q)))
  BY <1>1, <1>2, OrderTail
<1>7. \A q : InOrder(InFile(r), q) /\ (h = Requested(q) => ~Says(InFile(r), Settled(q))) =>
                InOrder(Append(InFile(r), h), q)
  BY <1>1, <1>3, OrderAppend
<1>8. /\ Says(queue, h) /\ (lost[r] \/ Says(InFile(r)', h))
  BY <1>2, <1>4, <1>5 DEF h
<1>9. \A c \in Buses, s \in Roots : \A x :
        /\ Says(Queued(c, s)', x) => Says(Queued(c, s), x)
        /\ Says(Queued(c, s), x) => Says(Queued(c, s)', x) \/ (c = b /\ s = r /\ x = h)
  BY <1>2, <1>4 DEF queue, h
<1>10. \A s \in Roots : \A x :
        /\ Says(InFile(s), x) => Says(InFile(s)', x)
        /\ Says(InFile(s)', x) => Says(InFile(s), x) \/ (s = r /\ x = h)
  BY <1>2, <1>5
<1>11. \A c \in Buses, s \in Roots : \A q : InOrder(Queued(c, s), q) => InOrder(Queued(c, s)', q)
  BY <1>2, <1>6 DEF queue
<1>12. \A q : InOrder(queue, q) /\ h = Settled(q) => ~Says(Queued(b, r)', Requested(q))
  BY <1>2, <1>6 DEF h
<1>13. \A s \in Roots : \A q :
        /\ InOrder(InFile(s), q)
        /\ s = r /\ h = Requested(q) => ~Says(InFile(s), Settled(q))
        => InOrder(InFile(s)', q)
  BY <1>2, <1>7
<1> QED BY <1>3, <1>8, <1>9, <1>10, <1>11, <1>12, <1>13 DEF queue

\* A write that fails leaves the file, and the other roots, as they are.
LEMMA WriteFailsTells ==
    ASSUME LogSound, NEW b \in Buses, NEW r \in Roots, WriteFails(b, r)
    PROVE  /\ lost'[r] /\ \A s \in Roots : lost[s] => lost'[s]
           /\ \A s \in Roots : InFile(s)' = InFile(s)
           /\ \A c \in Buses, s \in Roots : s # r => Queued(c, s)' = Queued(c, s)
           /\ \A c \in Buses, s \in Roots : \A x : Says(Queued(c, s)', x) => Says(Queued(c, s), x)
           /\ heads' = heads
<1>1. LogTypeOK
  BY DEF LogSound
<1>2. /\ heads' = heads /\ file' = file /\ lost' = [lost EXCEPT ![r] = TRUE]
      /\ pending[b][r] \in Seq(Event) /\ pending[b][r] # <<>>
      /\ pending'[b][r] = Tail(pending[b][r])
      /\ \A c \in Buses, s \in Roots : c # b \/ s # r => pending'[c][s] = pending[c][s]
  BY <1>1 DEF WriteFails, LogTypeOK
<1>3. Queued(b, r)' = Tail(Queued(b, r)) /\ Queued(b, r) # <<>> /\ Queued(b, r) \in Seq(Kinds)
  BY <1>1, <1>2, KindsTail, LogSaysType DEF Queued
<1>4. \A x : Says(Tail(Queued(b, r)), x) => Says(Queued(b, r), x)
  BY <1>3, SaysTail
<1>5. \A c \in Buses, s \in Roots : c # b \/ s # r => Queued(c, s)' = Queued(c, s)
  BY <1>2 DEF Queued
<1>6. \A c \in Buses, s \in Roots : \A x : Says(Queued(c, s)', x) => Says(Queued(c, s), x)
  BY <1>3, <1>4, <1>5
<1> QED BY <1>1, <1>2, <1>5, <1>6 DEF InFile, LogTypeOK

LEMMA KindsDiffer ==
    /\ \A p, q : (Requested(p) = Requested(q) => p = q) /\ (Settled(p) = Settled(q) => p = q)
    /\ \A p, q : Requested(p) # Settled(q)
    /\ \A q \in Questions : Requested(q) \in Kinds /\ Settled(q) \in Kinds /\ RootOf[q] \in Roots
<1>1. \A p, q : Requested(p) # Settled(q)
  BY DEF Requested, Settled
<1> QED BY <1>1, ViewAssumption DEF Requested, Settled

-------------------------------------------------------------------------------
(* The view of a run: the logs. *)

LogPart == EventsAreAsked /\ OneBusEach /\ WaitersAsked /\ LogsTell

LEMMA AskLogs ==
    ASSUME ViewInv, NEW b \in Buses, NEW q \in Questions, Ask(b, q)
    PROVE  LogPart'
<1> DEFINE r == RootOf[q]
<1>0. LogSound /\ EventsAreAsked /\ OneBusEach /\ WaitersAsked /\ LogsTell /\ PageIsOfRun
  BY DEF ViewInv
<1>1. /\ q \notin asked /\ Emit(b, r, Requested(q)) /\ r \in Roots /\ Requested(q) \in Kinds
      /\ waiting' = waiting \cup {<<b, q>>} /\ asked' = asked \cup {q}
      /\ UNCHANGED <<answered, orphaned>>
  BY KindsDiffer DEF Ask, Requested
<1> HIDE DEF r
<1>2. /\ \A c \in Buses, s \in Roots : \A x :
            Says(Queued(c, s)', x) <=> Says(Queued(c, s), x) \/ (c = b /\ s = r /\ x = Requested(q))
      /\ \A p : InOrder(Queued(b, r), p) /\ (Requested(q) = Requested(p) => ~Says(Queued(b, r), Settled(p)))
            => InOrder(Queued(b, r)', p)
      /\ \A c \in Buses, s \in Roots : \A p :
            (c # b \/ s # r) /\ InOrder(Queued(c, s), p) => InOrder(Queued(c, s)', p)
  BY <1>0, <1>1, EmitTells
<1>3. /\ \A s \in Roots : InFile(s)' = InFile(s)
      /\ heads'[b][r] # NoHead
      /\ \A c \in Buses, s \in Roots : heads'[c][s] = NoHead => heads[c][s] = NoHead
      /\ lost' = lost
  BY <1>0, <1>1, EmitSays
<1>4. \A s \in Roots, c \in Buses :
        /\ ~Says(InFile(s), Requested(q)) /\ ~Says(InFile(s), Settled(q))
        /\ ~Says(Queued(c, s), Requested(q)) /\ ~Says(Queued(c, s), Settled(q))
        /\ <<c, q>> \notin waiting
  BY <1>0, <1>1 DEF EventsAreAsked, WaitersAsked
<1>5. \A c \in Buses, p \in Questions :
        <<c, p>> \in waiting' <=> <<c, p>> \in waiting \/ (c = b /\ p = q)
  BY <1>1
<1>6. EventsAreAsked'
  BY <1>0, <1>1, <1>2, <1>3, KindsDiffer DEF EventsAreAsked, r
<1>7. OneBusEach'
  <2> SUFFICES ASSUME NEW p \in Questions, NEW c \in Buses, Has(c, p)'
               PROVE  (p # q /\ Has(c, p)) \/ (p = q /\ c = b)
    BY <1>0 DEF OneBusEach
  <2>1. RootOf[p] \in Roots
    BY KindsDiffer
  <2> QED BY <1>2, <1>4, <1>5, <2>1, KindsDiffer DEF Has
<1>8. WaitersAsked'
  BY <1>0, <1>1, <1>3, <1>5, KindsDiffer DEF WaitersAsked, PageIsOfRun, r
<1>9. LogsTell'
  <2> SUFFICES ASSUME NEW p \in Questions, ~lost[RootOf[p]] PROVE LogTells(p)'
    BY <1>3 DEF LogsTell
  <2>1. LogTells(p) /\ RootOf[p] \in Roots
    BY <1>0, KindsDiffer DEF LogsTell
  <2>2. /\ InOrder(InFile(RootOf[p]), p)
        /\ \A c \in Buses : InOrder(Queued(c, RootOf[p]), p)
    BY <2>1 DEF LogTells
  <2>3. \A c \in Buses : InOrder(Queued(c, RootOf[p])', p)
    BY <1>2, <1>4, <2>1, <2>2, KindsDiffer
  <2>4. \A c \in Buses : Says(Queued(c, RootOf[p])', Settled(p)) <=> Says(Queued(c, RootOf[p]), Settled(p))
    BY <1>2, <2>1, KindsDiffer
  <2>5. CASE p = q
    <3>1. \A c \in Buses : <<c, p>> \in waiting' <=> c = b
      BY <1>4, <1>5, <2>5, <2>1
    <3>2. Says(Queued(b, RootOf[p])', Requested(p))
      BY <1>2, <2>1, <2>5 DEF r
    <3>3. ~Says(InFile(RootOf[p])', Settled(p)) /\ \A c \in Buses : ~Says(Queued(c, RootOf[p])', Settled(p))
      BY <1>3, <1>4, <2>1, <2>4, <2>5
    <3>4. \E c \in Buses : <<c, p>> \in waiting'
      BY <3>1
    <3> QED BY <1>3, <2>1, <2>2, <2>3, <3>1, <3>2, <3>3, <3>4 DEF LogTells
  <2>6. CASE p # q
    <3>1. \A c \in Buses :
            Says(Queued(c, RootOf[p])', Requested(p)) <=> Says(Queued(c, RootOf[p]), Requested(p))
      BY <1>2, <2>1, <2>6, KindsDiffer
    <3> QED BY <1>1, <1>3, <1>5, <2>1, <2>2, <2>3, <2>4, <2>6, <3>1 DEF LogTells
  <2> QED BY <2>5, <2>6
<1> QED BY <1>6, <1>7, <1>8, <1>9 DEF LogPart

LEMMA SettleLogs ==
    ASSUME ViewInv, NEW b \in Buses, NEW q \in Questions, SettleOne(b, q),
           answered' \subseteq answered \cup {q}
    PROVE  LogPart'
<1> DEFINE r == RootOf[q]
<1>0. LogSound /\ EventsAreAsked /\ OneBusEach /\ WaitersAsked /\ LogsTell
  BY DEF ViewInv
<1>1. /\ <<b, q>> \in waiting /\ Emit(b, r, Settled(q)) /\ r \in Roots /\ Settled(q) \in Kinds
      /\ waiting' = waiting \ {<<b, q>>}
      /\ UNCHANGED <<asked, orphaned>>
  BY KindsDiffer DEF SettleOne, Settled
<1> HIDE DEF r
<1>2. /\ \A c \in Buses, s \in Roots : \A x :
            Says(Queued(c, s)', x) <=> Says(Queued(c, s), x) \/ (c = b /\ s = r /\ x = Settled(q))
      /\ \A p : InOrder(Queued(b, r), p) /\ (Settled(q) = Requested(p) => ~Says(Queued(b, r), Settled(p)))
            => InOrder(Queued(b, r)', p)
      /\ \A c \in Buses, s \in Roots : \A p :
            (c # b \/ s # r) /\ InOrder(Queued(c, s), p) => InOrder(Queued(c, s)', p)
  BY <1>0, <1>1, EmitTells
<1>3. /\ \A s \in Roots : InFile(s)' = InFile(s)
      /\ \A c \in Buses, s \in Roots : heads'[c][s] = NoHead => heads[c][s] = NoHead
      /\ lost' = lost
  BY <1>0, <1>1, EmitSays
<1>4. q \in asked /\ \A c \in Buses : Has(c, q) => c = b
  BY <1>0, <1>1 DEF WaitersAsked, OneBusEach, Has
<1>5. \A c \in Buses, p \in Questions :
        <<c, p>> \in waiting' <=> <<c, p>> \in waiting /\ ~(c = b /\ p = q)
  BY <1>1
<1>6. EventsAreAsked'
  BY <1>0, <1>1, <1>2, <1>3, <1>4, KindsDiffer DEF EventsAreAsked, r
<1>7. OneBusEach'
  <2> SUFFICES ASSUME NEW p \in Questions, NEW c \in Buses, Has(c, p)'
               PROVE  Has(c, p)
    BY <1>0 DEF OneBusEach
  <2>1. RootOf[p] \in Roots
    BY KindsDiffer
  <2> QED BY <1>1, <1>2, <1>5, <2>1, KindsDiffer DEF Has
<1>8. WaitersAsked'
  <2> SUFFICES ASSUME NEW p \in Questions, NEW c \in Buses, <<c, p>> \in waiting'
               PROVE  p \in asked /\ heads'[c][RootOf[p]] # NoHead /\ p \notin answered'
    BY <1>1 DEF WaitersAsked
  <2>1. <<c, p>> \in waiting /\ p # q
    BY <1>4, <1>5 DEF Has
  <2> QED BY <1>0, <1>3, <2>1, KindsDiffer DEF WaitersAsked
<1>9. LogsTell'
  <2> SUFFICES ASSUME NEW p \in Questions, ~lost[RootOf[p]] PROVE LogTells(p)'
    BY <1>3 DEF LogsTell
  <2>1. LogTells(p) /\ RootOf[p] \in Roots
    BY <1>0, KindsDiffer DEF LogsTell
  <2>2. /\ InOrder(InFile(RootOf[p]), p)
        /\ \A c \in Buses : InOrder(Queued(c, RootOf[p]), p)
    BY <2>1 DEF LogTells
  <2>3. \A c \in Buses : InOrder(Queued(c, RootOf[p])', p)
    BY <1>2, <2>1, <2>2, KindsDiffer
  <2>4. \A c \in Buses :
          Says(Queued(c, RootOf[p])', Requested(p)) <=> Says(Queued(c, RootOf[p]), Requested(p))
    BY <1>2, <2>1, KindsDiffer
  <2>5. CASE p = q
    <3>1. \A c \in Buses : <<c, p>> \notin waiting'
      BY <1>4, <1>5, <2>5 DEF Has
    <3>2. Says(Queued(b, RootOf[p])', Settled(p))
      BY <1>2, <2>1, <2>5 DEF r
    <3> QED BY <1>1, <1>3, <2>1, <2>2, <2>3, <2>4, <3>1, <3>2 DEF LogTells
  <2>6. CASE p # q
    <3>1. \A c \in Buses :
            Says(Queued(c, RootOf[p])', Settled(p)) <=> Says(Queued(c, RootOf[p]), Settled(p))
      BY <1>2, <2>1, <2>6, KindsDiffer
    <3> QED BY <1>1, <1>3, <1>5, <2>1, <2>2, <2>3, <2>4, <2>6, <3>1 DEF LogTells
  <2> QED BY <2>5, <2>6
<1> QED BY <1>6, <1>7, <1>8, <1>9 DEF LogPart

LEMMA WrittenLogs ==
    ASSUME ViewInv, NEW b \in Buses, NEW r \in Roots, Written(b, r), UNCHANGED viewVars
    PROVE  LogPart'
<1>0. LogSound /\ EventsAreAsked /\ OneBusEach /\ WaitersAsked /\ LogsTell
  BY DEF ViewInv
<1>1. UNCHANGED <<waiting, answered, asked, orphaned>>
  BY DEF viewVars
<1>2. heads' = heads /\ lost' = lost
  BY <1>0, WrittenSays
<1>3. PICK h \in Kinds :
        /\ Says(Queued(b, r), h) /\ (lost[r] \/ Says(InFile(r)', h))
        /\ \A c \in Buses, s \in Roots : \A x :
             /\ Says(Queued(c, s)', x) => Says(Queued(c, s), x)
             /\ Says(Queued(c, s), x) => Says(Queued(c, s)', x) \/ (c = b /\ s = r /\ x = h)
        /\ \A s \in Roots : \A x :
             /\ Says(InFile(s), x) => Says(InFile(s)', x)
             /\ Says(InFile(s)', x) => Says(InFile(s), x) \/ (s = r /\ x = h)
        /\ \A c \in Buses, s \in Roots : \A q : InOrder(Queued(c, s), q) => InOrder(Queued(c, s)', q)
        /\ \A q : InOrder(Queued(b, r), q) /\ h = Settled(q) => ~Says(Queued(b, r)', Requested(q))
        /\ \A s \in Roots : \A q :
             /\ InOrder(InFile(s), q)
             /\ s = r /\ h = Requested(q) => ~Says(InFile(s), Settled(q))
             => InOrder(InFile(s)', q)
  BY <1>0, WrittenTells
<1>4. EventsAreAsked'
  BY <1>0, <1>1, <1>3 DEF EventsAreAsked
<1>5. \A q \in Questions, c \in Buses : Has(c, q)' => Has(c, q)
  BY <1>1, <1>3, KindsDiffer DEF Has
<1>6. OneBusEach' /\ WaitersAsked'
  BY <1>0, <1>1, <1>2, <1>5 DEF OneBusEach, WaitersAsked
<1>7. LogsTell'
  <2> SUFFICES ASSUME NEW p \in Questions, ~lost[RootOf[p]] PROVE LogTells(p)'
    BY <1>2 DEF LogsTell
  <2> DEFINE s == RootOf[p]
  <2>1. LogTells(p) /\ s \in Roots
    BY <1>0, KindsDiffer DEF LogsTell
  <2>2. /\ s = r /\ h = Requested(p) => ~Says(InFile(s), Settled(p))
        /\ InOrder(InFile(s), p)
        /\ \A c \in Buses : InOrder(Queued(c, s), p)
    BY <1>3, <2>1 DEF LogTells
  <2> HIDE DEF s
  <2>3. InOrder(InFile(s)', p) /\ \A c \in Buses : InOrder(Queued(c, s)', p)
    BY <1>3, <2>1, <2>2
  <2>4. \A c \in Buses : <<c, p>> \in waiting =>
          /\ Says(InFile(s)', Requested(p)) \/ Says(Queued(c, s)', Requested(p))
          /\ ~Says(InFile(s)', Settled(p)) /\ \A d \in Buses : ~Says(Queued(d, s)', Settled(p))
    <3> SUFFICES ASSUME NEW c \in Buses, <<c, p>> \in waiting
                 PROVE  /\ Says(InFile(s)', Requested(p)) \/ Says(Queued(c, s)', Requested(p))
                        /\ ~Says(InFile(s)', Settled(p))
                        /\ \A d \in Buses : ~Says(Queued(d, s)', Settled(p))
      OBVIOUS
    <3>1. /\ Says(InFile(s), Requested(p)) \/ Says(Queued(c, s), Requested(p))
          /\ ~Says(InFile(s), Settled(p)) /\ \A d \in Buses : ~Says(Queued(d, s), Settled(p))
      BY <2>1 DEF LogTells, s
    <3>2. ~lost[s]
      BY DEF s
    <3>3. Says(InFile(s)', Requested(p)) \/ Says(Queued(c, s)', Requested(p))
      BY <1>3, <2>1, <3>1, <3>2
    <3> QED BY <1>3, <2>1, <3>1, <3>3
  <2>5. p \in asked \ orphaned /\ (\A c \in Buses : <<c, p>> \notin waiting) =>
          Says(InFile(s)', Settled(p)) \/ \E c \in Buses : Says(Queued(c, s)', Settled(p))
    <3>1. p \in asked \ orphaned /\ (\A c \in Buses : <<c, p>> \notin waiting) =>
            Says(InFile(s), Settled(p)) \/ \E c \in Buses : Says(Queued(c, s), Settled(p))
      BY <2>1 DEF LogTells, s
    <3>2. ~lost[s]
      BY DEF s
    <3> QED BY <1>3, <2>1, <3>1, <3>2
  <2>6. Says(InFile(s)', Settled(p)) => \A c \in Buses : ~Says(Queued(c, s)', Requested(p))
    <3> SUFFICES ASSUME Says(InFile(s)', Settled(p)), NEW c \in Buses
                 PROVE  ~Says(Queued(c, s)', Requested(p))
      OBVIOUS
    <3>1. CASE Says(InFile(s), Settled(p))
      BY <1>3, <2>1, <3>1 DEF LogTells, s
    <3>2. CASE s = r /\ Settled(p) = h
      <4>1. CASE c = b
        BY <1>3, <2>2, <3>2, <4>1
      <4>2. CASE c # b
        <5>1. Has(b, p)
          BY <1>3, <3>2 DEF Has, s
        <5>2. ~Has(c, p)
          BY <1>0, <4>2, <5>1 DEF OneBusEach
        <5> QED BY <1>3, <2>1, <5>2 DEF Has, s
      <4> QED BY <4>1, <4>2
    <3> QED BY <1>3, <2>1, <3>1, <3>2
  <2> QED BY <1>1, <2>3, <2>4, <2>5, <2>6 DEF LogTells, s
<1> QED BY <1>4, <1>6, <1>7 DEF LogPart

LEMMA WriteFailsLogs ==
    ASSUME ViewInv, NEW b \in Buses, NEW r \in Roots, WriteFails(b, r), UNCHANGED viewVars
    PROVE  LogPart'
<1>0. LogSound /\ EventsAreAsked /\ OneBusEach /\ WaitersAsked /\ LogsTell
  BY DEF ViewInv
<1>1. UNCHANGED <<waiting, answered, asked, orphaned>>
  BY DEF viewVars
<1>2. /\ lost'[r] /\ \A s \in Roots : lost[s] => lost'[s]
      /\ \A s \in Roots : InFile(s)' = InFile(s)
      /\ \A c \in Buses, s \in Roots : s # r => Queued(c, s)' = Queued(c, s)
      /\ \A c \in Buses, s \in Roots : \A x : Says(Queued(c, s)', x) => Says(Queued(c, s), x)
      /\ heads' = heads
  BY <1>0, WriteFailsTells
<1>3. EventsAreAsked'
  BY <1>0, <1>1, <1>2 DEF EventsAreAsked
<1>4. \A q \in Questions, c \in Buses : Has(c, q)' => Has(c, q)
  BY <1>1, <1>2, KindsDiffer DEF Has
<1>5. OneBusEach' /\ WaitersAsked'
  BY <1>0, <1>1, <1>2, <1>4 DEF OneBusEach, WaitersAsked
<1>6. LogsTell'
  <2> SUFFICES ASSUME NEW p \in Questions, ~lost'[RootOf[p]] PROVE LogTells(p)'
    BY DEF LogsTell
  <2>1. RootOf[p] \in Roots /\ RootOf[p] # r
    BY <1>2, KindsDiffer
  <2>2. LogTells(p)
    BY <1>0, <1>2, <2>1 DEF LogsTell
  <2> QED BY <1>1, <1>2, <2>1, <2>2 DEF LogTells
<1> QED BY <1>3, <1>5, <1>6 DEF LogPart

LEMMA RestartLogs ==
    ASSUME ViewInv, RestartService
    PROVE  LogPart'
<1>0. LogSound /\ EventsAreAsked /\ LogsTell
  BY DEF ViewInv
<1>1. /\ waiting' = {} /\ answered' = {} /\ asked' = asked /\ orphaned' = asked
      /\ file' = file /\ lost' = lost
      /\ \A b \in Buses, r \in Roots : pending'[b][r] = <<>>
  BY DEF RestartService, RestartLog, disk
<1>2. \A s \in Roots : InFile(s)' = InFile(s)
  BY <1>1 DEF InFile
<1>3. \A b \in Buses, s \in Roots : Queued(b, s)' = <<>>
  BY <1>1, KindsType, EmptySeq DEF Queued
<1>4. EventsAreAsked'
  BY <1>0, <1>1, <1>2, <1>3, NothingSaid DEF EventsAreAsked
<1>5. OneBusEach' /\ WaitersAsked'
  BY <1>1, <1>3, NothingSaid, KindsDiffer DEF OneBusEach, WaitersAsked, Has
<1>6. LogsTell'
  <2> SUFFICES ASSUME NEW p \in Questions, ~lost[RootOf[p]] PROVE LogTells(p)'
    BY <1>1 DEF LogsTell
  <2>1. LogTells(p) /\ RootOf[p] \in Roots
    BY <1>0, KindsDiffer DEF LogsTell
  <2> QED BY <1>1, <1>2, <1>3, <2>1, NothingSaid DEF LogTells
<1> QED BY <1>4, <1>5, <1>6 DEF LogPart

\* Steps of the page and of its connection.
LEMMA QuietLogs ==
    ASSUME ViewInv, UNCHANGED <<logVars, waiting, asked, orphaned>>, answered' \subseteq answered
    PROVE  LogPart'
<1>0. EventsAreAsked /\ OneBusEach /\ WaitersAsked /\ LogsTell
  BY DEF ViewInv
<1>1. UNCHANGED <<file, heads, pending, lost>>
  BY DEF logVars
<1>2. /\ \A s : InFile(s)' = InFile(s)
      /\ \A b, s : Queued(b, s)' = Queued(b, s)
  BY <1>1 DEF InFile, Queued
<1>3. EventsAreAsked' /\ OneBusEach'
  BY <1>0, <1>2 DEF EventsAreAsked, OneBusEach, Has
<1>4. WaitersAsked'
  BY <1>0, <1>1 DEF WaitersAsked
<1>5. LogsTell'
  BY <1>0, <1>1, <1>2 DEF LogsTell, LogTells
<1> QED BY <1>3, <1>4, <1>5 DEF LogPart

LEMMA LogPartStep == ViewInv /\ [RunViewNext]_runViewVars => LogPart'
<1> SUFFICES ASSUME ViewInv, [RunViewNext]_runViewVars PROVE LogPart'
  OBVIOUS
<1>1. ASSUME NEW b \in Buses, NEW q \in Questions, Ask(b, q) \/ Expire(b, q) \/ Respond(b, q)
      PROVE  LogPart'
  BY <1>1, AskLogs, SettleLogs DEF Expire, Respond
<1>2. CASE WriteStep
  BY <1>2, WrittenLogs, WriteFailsLogs DEF WriteStep
<1>3. CASE RestartService
  BY <1>3, RestartLogs
<1>4. CASE UNCHANGED <<logVars, waiting, asked, orphaned>> /\ answered' \subseteq answered
  BY <1>4, QuietLogs
<1> QED
  BY <1>1, <1>2, <1>3, <1>4
  DEF RunViewNext, Connect, OpenRun, CloseRun, Disconnect, Consume, Confirmed, runViewVars, viewVars

-------------------------------------------------------------------------------
(* The view of a run: types. *)

LEMMA ViewTypeStep == ViewTypeOK /\ [RunViewNext]_runViewVars => ViewTypeOK'
<1> SUFFICES ASSUME ViewTypeOK, [RunViewNext]_runViewVars PROVE ViewTypeOK'
  OBVIOUS
<1>0. LogTypeOK'
  BY ViewStepsLog, LogTypeStep DEF ViewTypeOK
<1> USE DEF ViewTypeOK
<1>1. ASSUME NEW b, NEW r, NEW k \in Kinds, Push(b, r, k) PROVE frames' \in Seq(Kinds)
  BY <1>1 DEF Push
<1>2. ASSUME NEW b \in Buses, NEW q \in Questions, Ask(b, q) PROVE ViewTypeOK'
  <2>1. frames' \in Seq(Kinds)
    BY <1>1, <1>2, KindsDiffer DEF Ask, Requested
  <2> QED BY <1>0, <1>2, <2>1 DEF Ask
<1>3. ASSUME NEW b \in Buses, NEW q \in Questions, Expire(b, q) \/ Respond(b, q) PROVE ViewTypeOK'
  <2>1. SettleOne(b, q) /\ answered' \subseteq answered \cup {q}
    BY <1>3 DEF Expire, Respond
  <2>2. frames' \in Seq(Kinds)
    BY <1>1, <2>1, KindsDiffer DEF SettleOne, Settled
  <2> QED BY <1>0, <2>1, <2>2 DEF SettleOne
<1>4. ASSUME NEW b \in Buses, Connect(b) PROVE ViewTypeOK'
  <2>1. watching \in Roots
    BY <1>4 DEF Connect
  <2>2. frames' = InFile(watching) /\ file[watching] \in Seq(Event)
    BY <1>4, <2>1 DEF Connect, InFile, KindsOf, LogTypeOK
  <2>3. frames' \in Seq(Kinds)
    BY <2>2, KindsType DEF InFile
  <2> QED BY <1>0, <1>4, <2>3 DEF Connect
<1>5. CASE WriteStep
  BY <1>0, <1>5 DEF WriteStep, viewVars
<1>6. CASE RestartService
  BY <1>0, <1>6, EmptySeq DEF RestartService
<1>7. ASSUME NEW r \in Roots \cup {None}, OpenRun(r) PROVE ViewTypeOK'
  BY <1>0, <1>7, EmptySeq DEF OpenRun
<1>8. CASE Disconnect
  BY <1>0, <1>8, EmptySeq DEF Disconnect
<1>9. CASE Consume
  <2>1. Head(frames) \in Kinds /\ Tail(frames) \in Seq(Kinds)
    BY <1>9 DEF Consume
  <2>2. Head(frames)[2] \in Questions
    BY <2>1, ViewAssumption
  <2> QED BY <1>0, <1>9, <2>1, <2>2 DEF Consume
<1>10. ASSUME NEW q \in Questions, Confirmed(q) PROVE ViewTypeOK'
  BY <1>0, <1>10 DEF Confirmed
<1>11. CASE UNCHANGED runViewVars
  BY <1>0, <1>11 DEF runViewVars, viewVars
<1> QED
  BY <1>2, <1>3, <1>4, <1>5, <1>6, <1>7, <1>8, <1>9, <1>10, <1>11 DEF RunViewNext, CloseRun

-------------------------------------------------------------------------------
(* The view of a run: the page. *)

PagePart == PageIsOfRun /\ StreamTells

\* An event reaches the stream of its bus, and the page whose run it is of.
LEMMA EmitPage ==
    ASSUME ViewInv, NEW b \in Buses, NEW q \in Questions, NEW k \in {Requested(q), Settled(q)},
           Emit(b, RootOf[q], k), Push(b, RootOf[q], k),
           UNCHANGED <<watching, stream, approvals>>
    PROVE  /\ \A c \in Buses, p \in Questions : Follows(c, RootOf[p])' =>
                /\ Follows(c, RootOf[p])
                /\ RootOf[q] # RootOf[p] => frames' = frames
                /\ RootOf[q] = RootOf[p] => c = b /\ frames' = Append(frames, k)
           /\ frames' = frames \/ (frames' = Append(frames, k) /\ watching = RootOf[q])
           /\ lost' = lost
<1>0. LogSound
  BY DEF ViewInv
<1>1. k \in Kinds /\ RootOf[q] \in Roots
  BY KindsDiffer
<1>2. /\ heads'[b][RootOf[q]] # NoHead
      /\ \A c \in Buses, s \in Roots : heads'[c][s] = NoHead => heads[c][s] = NoHead
      /\ lost' = lost
  BY <1>0, <1>1, EmitSays
<1>3. frames' = frames \/ (frames' = Append(frames, k) /\ watching = RootOf[q])
  BY DEF Push
<1>4. ASSUME NEW c \in Buses, NEW p \in Questions, Follows(c, RootOf[p])'
      PROVE  /\ Follows(c, RootOf[p])
             /\ RootOf[q] # RootOf[p] => frames' = frames
             /\ RootOf[q] = RootOf[p] => c = b /\ frames' = Append(frames, k)
  <2>1. RootOf[p] \in Roots
    BY KindsDiffer
  <2>2. /\ stream = c /\ watching = RootOf[p]
        /\ \A other \in Buses \ {c} : heads'[other][RootOf[p]] = NoHead
    BY <1>4 DEF Follows
  <2>3. Follows(c, RootOf[p])
    BY <1>2, <2>1, <2>2 DEF Follows
  <2>4. RootOf[q] = RootOf[p] => c = b
    BY <1>2, <2>2
  <2> QED BY <2>2, <2>3, <2>4 DEF Push
<1> QED BY <1>2, <1>3, <1>4

LEMMA AskPage ==
    ASSUME ViewInv, NEW b \in Buses, NEW q \in Questions, Ask(b, q)
    PROVE  PagePart'
<1>0. PageIsOfRun /\ StreamTells /\ frames \in Seq(Kinds)
  BY DEF ViewInv, ViewTypeOK
<1>1. /\ q \notin asked /\ waiting' = waiting \cup {<<b, q>>} /\ asked' = asked \cup {q}
      /\ UNCHANGED <<answered, watching, stream, approvals, orphaned>>
      /\ Emit(b, RootOf[q], Requested(q)) /\ Push(b, RootOf[q], Requested(q))
  BY DEF Ask, Requested
<1>2. /\ \A c \in Buses, p \in Questions : Follows(c, RootOf[p])' =>
            /\ Follows(c, RootOf[p])
            /\ RootOf[q] # RootOf[p] => frames' = frames
            /\ RootOf[q] = RootOf[p] => c = b /\ frames' = Append(frames, Requested(q))
      /\ frames' = frames \/ (frames' = Append(frames, Requested(q)) /\ watching = RootOf[q])
      /\ lost' = lost
  BY <1>1, EmitPage
<1>3. \A x : Says(Append(frames, Requested(q)), x) <=> Says(frames, x) \/ x = Requested(q)
  BY <1>0, SaysAppend, KindsDiffer
<1>4. q \notin approvals /\ ~Says(frames, Requested(q)) /\ ~Says(frames, Settled(q))
  BY <1>0, <1>1 DEF PageIsOfRun
<1>5. \A p : InOrder(frames, p) => InOrder(Append(frames, Requested(q)), p)
  <2> SUFFICES ASSUME NEW p, InOrder(frames, p) PROVE InOrder(Append(frames, Requested(q)), p)
    OBVIOUS
  <2>1. Requested(q) = Requested(p) => ~Says(frames, Settled(p))
    BY <1>4, KindsDiffer
  <2> QED BY <1>0, <2>1, OrderAppend, KindsDiffer
<1>6. PageIsOfRun'
  <2> SUFFICES ASSUME NEW p \in Questions,
                      p \in approvals \/ Says(frames', Requested(p)) \/ Says(frames', Settled(p))
               PROVE  p \in asked' /\ RootOf[p] = watching
    BY <1>0, <1>1 DEF PageIsOfRun
  <2>1. CASE p \in approvals \/ Says(frames, Requested(p)) \/ Says(frames, Settled(p))
    BY <1>0, <1>1, <2>1 DEF PageIsOfRun
  <2>2. CASE ~(p \in approvals \/ Says(frames, Requested(p)) \/ Says(frames, Settled(p)))
    <3>1. frames' = Append(frames, Requested(q)) /\ watching = RootOf[q]
      BY <1>2, <2>2
    <3>2. p = q
      BY <1>3, <2>2, <3>1, KindsDiffer
    <3> QED BY <1>1, <3>1, <3>2
  <2> QED BY <2>1, <2>2
<1>7. StreamTells'
  <2> SUFFICES ASSUME NEW p \in Questions, NEW c \in Buses, Follows(c, RootOf[p])', ~lost[RootOf[p]]
               PROVE  WillShow(c, p)'
    BY <1>2 DEF StreamTells
  <2>1. WillShow(c, p) /\ (RootOf[q] # RootOf[p] => frames' = frames)
        /\ (RootOf[q] = RootOf[p] => c = b /\ frames' = Append(frames, Requested(q)))
    BY <1>0, <1>2 DEF StreamTells
  <2>2. CASE p = q
    <3>1. <<c, p>> \in waiting' /\ frames' = Append(frames, Requested(q))
      BY <1>1, <2>1, <2>2
    <3> QED BY <1>3, <1>4, <1>5, <2>1, <2>2, <3>1, KindsDiffer DEF WillShow
  <2>3. CASE p # q
    <3>1. <<c, p>> \in waiting' <=> <<c, p>> \in waiting
      BY <1>1, <2>3
    <3>2. /\ Says(frames', Requested(p)) <=> Says(frames, Requested(p))
          /\ Says(frames', Settled(p)) <=> Says(frames, Settled(p))
      BY <1>2, <1>3, <2>3, KindsDiffer, ZenonT(40)
    <3>3. InOrder(frames, p) => InOrder(frames', p)
      BY <1>2, <1>5
    <3> QED BY <1>1, <2>1, <3>1, <3>2, <3>3 DEF WillShow
  <2> QED BY <2>2, <2>3
<1> QED BY <1>6, <1>7 DEF PagePart

LEMMA SettlePage ==
    ASSUME ViewInv, NEW b \in Buses, NEW q \in Questions, SettleOne(b, q),
           answered' \subseteq answered \cup {q}
    PROVE  PagePart'
<1>0. PageIsOfRun /\ StreamTells /\ WaitersAsked /\ frames \in Seq(Kinds)
  BY DEF ViewInv, ViewTypeOK
<1>1. /\ <<b, q>> \in waiting /\ waiting' = waiting \ {<<b, q>>} /\ q \in asked
      /\ UNCHANGED <<asked, watching, stream, approvals, orphaned>>
      /\ Emit(b, RootOf[q], Settled(q)) /\ Push(b, RootOf[q], Settled(q))
  BY <1>0 DEF SettleOne, Settled, WaitersAsked
<1>2. /\ \A c \in Buses, p \in Questions : Follows(c, RootOf[p])' =>
            /\ Follows(c, RootOf[p])
            /\ RootOf[q] # RootOf[p] => frames' = frames
            /\ RootOf[q] = RootOf[p] => c = b /\ frames' = Append(frames, Settled(q))
      /\ frames' = frames \/ (frames' = Append(frames, Settled(q)) /\ watching = RootOf[q])
      /\ lost' = lost
  BY <1>1, EmitPage
<1>3. \A x : Says(Append(frames, Settled(q)), x) <=> Says(frames, x) \/ x = Settled(q)
  BY <1>0, SaysAppend, KindsDiffer
<1>4. \A p : InOrder(frames, p) => InOrder(Append(frames, Settled(q)), p)
  BY <1>0, OrderAppend, KindsDiffer
<1>5. PageIsOfRun'
  <2> SUFFICES ASSUME NEW p \in Questions,
                      p \in approvals \/ Says(frames', Requested(p)) \/ Says(frames', Settled(p))
               PROVE  p \in asked' /\ RootOf[p] = watching
    BY <1>0, <1>1 DEF PageIsOfRun
  <2>1. CASE p \in approvals \/ Says(frames, Requested(p)) \/ Says(frames, Settled(p))
    BY <1>0, <1>1, <2>1 DEF PageIsOfRun
  <2>2. CASE ~(p \in approvals \/ Says(frames, Requested(p)) \/ Says(frames, Settled(p)))
    <3>1. frames' = Append(frames, Settled(q)) /\ watching = RootOf[q]
      BY <1>2, <2>2
    <3>2. p = q
      BY <1>3, <2>2, <3>1, KindsDiffer
    <3> QED BY <1>1, <3>1, <3>2
  <2> QED BY <2>1, <2>2
<1>6. StreamTells'
  <2> SUFFICES ASSUME NEW p \in Questions, NEW c \in Buses, Follows(c, RootOf[p])', ~lost[RootOf[p]]
               PROVE  WillShow(c, p)'
    BY <1>2 DEF StreamTells
  <2>1. WillShow(c, p) /\ (RootOf[q] # RootOf[p] => frames' = frames)
        /\ (RootOf[q] = RootOf[p] => c = b /\ frames' = Append(frames, Settled(q)))
    BY <1>0, <1>2 DEF StreamTells
  <2>2. InOrder(frames, p) => InOrder(frames', p)
    BY <1>2, <1>4
  <2>3. CASE p = q
    <3>1. <<c, p>> \notin waiting' /\ frames' = Append(frames, Settled(q))
      BY <1>1, <2>1, <2>3
    <3> QED BY <1>3, <2>1, <2>2, <2>3, <3>1 DEF WillShow
  <2>4. CASE p # q
    <3>1. <<c, p>> \in waiting' <=> <<c, p>> \in waiting
      BY <1>1, <2>4
    <3>2. Requested(p) # Settled(q) /\ Settled(p) # Settled(q)
      BY <2>4, KindsDiffer
    <3>3. /\ Says(frames', Requested(p)) <=> Says(frames, Requested(p))
          /\ Says(frames', Settled(p)) <=> Says(frames, Settled(p))
      <4>1. CASE frames' = frames
        BY <4>1 DEF Says
      <4>2. CASE frames' = Append(frames, Settled(q))
        BY <1>3, <3>2, <4>2
      <4> QED BY <2>1, <4>1, <4>2
    <3> QED BY <1>1, <2>1, <2>2, <3>1, <3>3 DEF WillShow
  <2> QED BY <2>3, <2>4
<1> QED BY <1>5, <1>6 DEF PagePart

\* A connection is sent the file: it says what the questions of the run have come to.
LEMMA ConnectPage ==
    ASSUME ViewInv, NEW b \in Buses, Connect(b)
    PROVE  PagePart'
<1>0. /\ PageIsOfRun /\ EventsAreAsked /\ WaitersAsked /\ LogsTell /\ LogTypeOK
      /\ watching \in Roots \cup {None}
  BY DEF ViewInv, ViewTypeOK
<1>1. /\ watching \in Roots /\ stream' = b /\ frames' = InFile(watching)
      /\ \A c \in Buses, r \in Roots : pending[c][r] = <<>>
      /\ UNCHANGED <<file, heads, pending, lost, waiting, answered, watching, approvals, asked, orphaned>>
  BY <1>0 DEF Connect, InFile, KindsOf, logVars
<1>2. \A c \in Buses, r \in Roots : \A k : ~Says(Queued(c, r), k)
  BY <1>0, <1>1, KindsType, NothingSaid DEF Queued, LogTypeOK
<1>3. PageIsOfRun'
  BY <1>0, <1>1 DEF PageIsOfRun, EventsAreAsked
<1>4. StreamTells'
  <2> SUFFICES ASSUME NEW p \in Questions, NEW c \in Buses, Follows(c, RootOf[p])', ~lost[RootOf[p]]
               PROVE  WillShow(c, p)'
    BY <1>1 DEF StreamTells
  <2>1. /\ c = b /\ watching = RootOf[p] /\ RootOf[p] \in Roots
        /\ \A other \in Buses \ {b} : heads[other][RootOf[p]] = NoHead
    BY <1>1, KindsDiffer DEF Follows
  <2>2. LogTells(p)
    BY <1>0 DEF LogsTell
  <2>3. InOrder(frames', p)
    BY <1>1, <2>1, <2>2 DEF LogTells
  <2>4. <<b, p>> \in waiting => Says(frames', Requested(p)) /\ ~Says(frames', Settled(p))
    BY <1>1, <1>2, <2>1, <2>2 DEF LogTells
  <2>5. \A other \in Buses : <<other, p>> \in waiting => other = b
    BY <1>0, <2>1 DEF WaitersAsked
  <2>6. p \in asked \ orphaned /\ <<b, p>> \notin waiting => Says(frames', Settled(p))
    BY <1>1, <1>2, <2>1, <2>2, <2>5 DEF LogTells
  <2>7. p \notin asked => p \notin approvals /\ ~Says(frames', Requested(p))
    BY <1>0, <1>1, <2>1 DEF PageIsOfRun, EventsAreAsked
  <2> QED BY <1>1, <2>1, <2>3, <2>4, <2>6, <2>7 DEF WillShow
<1> QED BY <1>3, <1>4 DEF PagePart

LEMMA ConsumePage ==
    ASSUME ViewInv, Consume
    PROVE  PagePart'
<1>0. PageIsOfRun /\ StreamTells /\ frames \in Seq(Kinds)
  BY DEF ViewInv, ViewTypeOK
<1>1. /\ frames # <<>> /\ frames' = Tail(frames)
      /\ approvals' = IF Head(frames)[1] = "requested" THEN approvals \cup {Head(frames)[2]}
                      ELSE approvals \ {Head(frames)[2]}
      /\ UNCHANGED <<heads, lost, waiting, answered, watching, stream, asked, orphaned>>
  BY DEF Consume, logVars
<1>2. PICK n \in Questions : Head(frames) = Requested(n) \/ Head(frames) = Settled(n)
  <2>1. Head(frames) \in Kinds
    BY <1>0, <1>1
  <2> QED BY <2>1, ViewAssumption DEF Requested, Settled
<1>3. /\ Head(frames) = Requested(n) => approvals' = approvals \cup {n}
      /\ Head(frames) = Settled(n) => approvals' = approvals \ {n}
  BY <1>1 DEF Requested, Settled
<1>4. \A x : Says(frames, x) <=> Head(frames) = x \/ Says(frames', x)
  BY <1>0, <1>1, SaysTail
<1>5. \A p : InOrder(frames, p) => /\ InOrder(frames', p)
                                   /\ Head(frames) = Settled(p) => ~Says(frames', Requested(p))
  BY <1>0, <1>1, OrderTail
<1>6. PageIsOfRun'
  BY <1>0, <1>1, <1>2, <1>3, <1>4 DEF PageIsOfRun
<1>7. StreamTells'
  <2> SUFFICES ASSUME NEW p \in Questions, NEW c \in Buses, Follows(c, RootOf[p]), ~lost[RootOf[p]]
               PROVE  WillShow(c, p)'
    BY <1>1 DEF StreamTells, Follows
  <2>1. WillShow(c, p)
    BY <1>0 DEF StreamTells
  <2>2. CASE Head(frames) = Requested(p)
    <3>1. n = p /\ approvals' = approvals \cup {p}
      BY <1>2, <1>3, <2>2, KindsDiffer
    <3> QED BY <1>1, <1>4, <1>5, <2>1, <2>2, <3>1, KindsDiffer DEF WillShow
  <2>3. CASE Head(frames) = Settled(p)
    <3>1. n = p /\ approvals' = approvals \ {p}
      BY <1>2, <1>3, <2>3, KindsDiffer
    <3> QED BY <1>1, <1>4, <1>5, <2>1, <2>3, <3>1, KindsDiffer DEF WillShow
  <2>4. CASE Head(frames) # Requested(p) /\ Head(frames) # Settled(p)
    <3>1. p \in approvals' <=> p \in approvals
      BY <1>2, <1>3, <2>4
    <3> QED BY <1>1, <1>4, <1>5, <2>1, <2>4, <3>1 DEF WillShow
  <2> QED BY <2>2, <2>3, <2>4
<1> QED BY <1>6, <1>7 DEF PagePart

\* The page removes what it has answered: nobody waits for that any more.
LEMMA ConfirmedPage ==
    ASSUME ViewInv, NEW q \in Questions, Confirmed(q)
    PROVE  PagePart'
<1>0. PageIsOfRun /\ StreamTells /\ WaitersAsked
  BY DEF ViewInv
<1>1. /\ q \in answered /\ answered' = answered \ {q} /\ approvals' = approvals \ {q}
      /\ UNCHANGED <<heads, lost, waiting, watching, stream, frames, asked, orphaned>>
  BY DEF Confirmed, logVars
<1>2. PageIsOfRun'
  BY <1>0, <1>1 DEF PageIsOfRun
<1>3. \A c \in Buses : <<c, q>> \notin waiting
  BY <1>0, <1>1 DEF WaitersAsked
<1>4. StreamTells'
  BY <1>0, <1>1, <1>3 DEF StreamTells, Follows, WillShow
<1> QED BY <1>2, <1>4 DEF PagePart

LEMMA WritePage ==
    ASSUME ViewInv, WriteStep
    PROVE  PagePart'
<1>0. PageIsOfRun /\ StreamTells /\ LogSound
  BY DEF ViewInv
<1>1. UNCHANGED <<waiting, answered, watching, stream, frames, approvals, asked, orphaned>>
  BY DEF WriteStep, viewVars
<1>2. heads' = heads /\ \A r \in Roots : lost[r] => lost'[r]
  BY <1>0, WrittenSays, WriteFailsTells DEF WriteStep
<1>3. PageIsOfRun'
  BY <1>0, <1>1 DEF PageIsOfRun
<1>4. StreamTells'
  BY <1>0, <1>1, <1>2, KindsDiffer DEF StreamTells, Follows, WillShow
<1> QED BY <1>3, <1>4 DEF PagePart

\* Without a stream nothing is on its way.
LEMMA NoStreamPage ==
    ASSUME ViewInv, stream' = None, frames' = <<>>, asked' = asked, answered' \subseteq answered,
           approvals' = {} \/ (approvals' = approvals /\ watching' = watching)
    PROVE  PagePart'
<1>0. PageIsOfRun
  BY DEF ViewInv
<1>1. PageIsOfRun'
  BY <1>0, NothingSaid DEF PageIsOfRun
<1>2. StreamTells'
  BY ViewAssumption DEF StreamTells, Follows
<1> QED BY <1>1, <1>2 DEF PagePart

LEMMA PagePartStep == ViewInv /\ [RunViewNext]_runViewVars => PagePart'
<1> SUFFICES ASSUME ViewInv, [RunViewNext]_runViewVars PROVE PagePart'
  OBVIOUS
<1>1. ASSUME NEW b \in Buses, NEW q \in Questions, Ask(b, q) \/ Expire(b, q) \/ Respond(b, q)
      PROVE  PagePart'
  BY <1>1, AskPage, SettlePage DEF Expire, Respond
<1>2. CASE Disconnect \/ RestartService \/ CloseRun \/ \E r \in Roots : OpenRun(r)
  BY <1>2, NoStreamPage DEF Disconnect, RestartService, CloseRun, OpenRun
<1>3. CASE UNCHANGED runViewVars
  BY <1>3 DEF runViewVars, viewVars, logVars, ViewInv, PagePart, PageIsOfRun, StreamTells,
              Follows, WillShow
<1> QED
  BY <1>1, <1>2, <1>3, ConnectPage, ConsumePage, ConfirmedPage, WritePage DEF RunViewNext

LEMMA ViewInitInv == RunViewInit => ViewInv
<1> SUFFICES ASSUME RunViewInit PROVE ViewInv
  OBVIOUS
<1>1. LogSound /\ LogTypeOK
  BY LogSoundInit DEF RunViewInit, LogSound
<1>2. ViewTypeOK
  BY <1>1, EmptySeq DEF RunViewInit, ViewTypeOK
<1>3. /\ \A r \in Roots : InFile(r) = <<>>
      /\ \A b \in Buses, r \in Roots : Queued(b, r) = <<>>
  BY <1>1, KindsType DEF RunViewInit, LogInit, InFile, Queued, LogTypeOK
<1>4. EventsAreAsked /\ OneBusEach /\ WaitersAsked /\ LogsTell
  BY <1>3, NothingSaid, KindsDiffer
  DEF RunViewInit, EventsAreAsked, OneBusEach, WaitersAsked, LogsTell, LogTells, Has
<1>5. PageIsOfRun /\ StreamTells
  BY NothingSaid, ViewAssumption DEF RunViewInit, PageIsOfRun, StreamTells, Follows
<1> QED BY <1>1, <1>2, <1>4, <1>5 DEF ViewInv

THEOREM ViewInvariant == RunViewSpec => []ViewInv
<1>1. ViewInv /\ [RunViewNext]_runViewVars => ViewInv'
  <2> SUFFICES ASSUME ViewInv, [RunViewNext]_runViewVars PROVE ViewInv'
    OBVIOUS
  <2>1. ViewTypeOK'
    BY ViewTypeStep DEF ViewInv
  <2>2. LogSound'
    BY ViewStepsLog, LogSoundStep DEF ViewInv
  <2>3. LogPart' /\ PagePart'
    BY LogPartStep, PagePartStep
  <2> QED BY <2>1, <2>2, <2>3 DEF ViewInv, LogPart, PagePart
<1> QED BY <1>1, ViewInitInv, PTL DEF RunViewSpec

(* A page that has read all that was sent shows the questions its run waits *)
(* with, and no other that this process asked: for any number of runs,      *)
(* runtimes, questions, reconnections, lost frames, timers and answers      *)
(* (streamEvents, watchEvents, the broker's decide and settle).             *)
THEOREM PageShowsWaiting == RunViewSpec => []CaughtUpShowsWaiting
<1>1. ASSUME ViewInv PROVE CaughtUpShowsWaiting
  <2> SUFFICES ASSUME NEW b \in Buses, NEW r \in Roots, CaughtUp(b, r), ~lost[r]
               PROVE  /\ WaitingFor(b, r) \subseteq approvals
                      /\ approvals \subseteq WaitingFor(b, r) \cup orphaned
    BY DEF CaughtUpShowsWaiting
  <2>1. PageIsOfRun /\ StreamTells /\ approvals \subseteq Questions
    BY <1>1 DEF ViewInv, ViewTypeOK
  <2>2. \A q \in Questions : RootOf[q] = r => WillShow(b, q)
    BY <2>1 DEF StreamTells, CaughtUp, Follows
  <2>3. frames = <<>> /\ watching = r
    BY DEF CaughtUp
  <2>4. \A q \in approvals : q \in Questions /\ RootOf[q] = r
    BY <2>1, <2>3 DEF PageIsOfRun
  <2>5. \A q \in Questions : ~Says(frames, Requested(q)) /\ ~Says(frames, Settled(q))
    BY <2>3, NothingSaid
  <2> QED BY <2>2, <2>4, <2>5 DEF WillShow, WaitingFor
<1> QED BY <1>1, ViewInvariant, PTL

\* The shape of the log, the stream and the page.
THEOREM ViewTypes == RunViewSpec => []ViewTypeOK
  BY ViewInvariant, PTL DEF ViewInv

-------------------------------------------------------------------------------
(* The log of the wiki: the inductive invariant. *)

\* A change of f that no entry tells yet cannot get lost: it is listed, or a run that has not
\* come to its flush will find the difference, or a run has taken it along.
Kept(f) ==
    \/ f \in listedPaths
    \/ f \in Differs /\ \E r \in WikiRuns : flush[r] = "open"
    \/ \E r \in WikiRuns : flush[r] = "summarising" /\ taken[r][f] = version[f]

\* A scan is never ahead of the files.
ScansArePast == \A f \in Paths : baseline[f] <= version[f]

WikiInv ==
    /\ WikiTypeOK
    /\ ScansArePast
    /\ \A f \in Paths \ excused : version[f] > logged[f] => Kept(f)

-------------------------------------------------------------------------------

LEMMA WikiInitInv == WikiInit => WikiInv
  BY WikiAssumption DEF WikiInit, WikiInv, WikiTypeOK, ScansArePast, Nothing

LEMMA WikiTypeStep == WikiTypeOK /\ [WikiNext]_wikiVars => WikiTypeOK'
<1> SUFFICES ASSUME WikiTypeOK, [WikiNext]_wikiVars PROVE WikiTypeOK'
  OBVIOUS
<1> USE WikiAssumption DEF WikiTypeOK
<1>1. ASSUME NEW r \in WikiRuns, WikiBegins(r) PROVE WikiTypeOK'
  BY <1>1 DEF WikiBegins, Differs
<1>2. ASSUME NEW r \in WikiRuns, NEW f \in Paths, ToolWrites(r, f) PROVE WikiTypeOK'
  BY <1>2 DEF ToolWrites
<1>3. ASSUME NEW r \in WikiRuns, NEW named \in BOOLEAN, ObserveStep(r, named)
      PROVE  WikiTypeOK'
  BY <1>3 DEF ObserveStep
<1>4. ASSUME NEW r \in WikiRuns, TakeAll(r) PROVE WikiTypeOK'
  BY <1>4 DEF TakeAll
<1>5. ASSUME NEW r \in WikiRuns, AppendEntry(r) PROVE WikiTypeOK'
  BY <1>5 DEF AppendEntry, Nothing
<1>6. ASSUME NEW r \in WikiRuns, EntryRefused(r) PROVE WikiTypeOK'
  BY <1>6 DEF EntryRefused, Nothing, Told
<1>7. ASSUME NEW r \in WikiRuns, ThrownRun(r) PROVE WikiTypeOK'
  BY <1>7 DEF ThrownRun, Differs
<1>8. ASSUME WriterLost PROVE WikiTypeOK'
  BY <1>8 DEF WriterLost, Nothing
<1>9. ASSUME UNCHANGED wikiVars PROVE WikiTypeOK'
  BY <1>9 DEF wikiVars
<1> QED BY <1>1, <1>2, <1>3, <1>4, <1>5, <1>6, <1>7, <1>8, <1>9 DEF WikiNext

LEMMA ScansStep ==
    WikiTypeOK /\ ScansArePast /\ [WikiNext]_wikiVars => ScansArePast'
<1> SUFFICES ASSUME WikiTypeOK, ScansArePast, [WikiNext]_wikiVars PROVE ScansArePast'
  OBVIOUS
<1> USE DEF ScansArePast, WikiTypeOK
<1>1. ASSUME NEW r \in WikiRuns, NEW f \in Paths, ToolWrites(r, f) PROVE ScansArePast'
  BY <1>1 DEF ToolWrites
<1>2. ASSUME NEW r \in WikiRuns, WikiBegins(r) \/ TakeAll(r) PROVE ScansArePast'
  BY <1>2 DEF WikiBegins, TakeAll
<1>3. ASSUME WriterLost PROVE ScansArePast'
  BY <1>3 DEF WriterLost
<1>4. ASSUME UNCHANGED <<version, baseline>> PROVE ScansArePast'
  BY <1>4
<1> QED
  BY <1>1, <1>2, <1>3, <1>4
  DEF WikiNext, wikiVars, ObserveStep, AppendEntry, EntryRefused, ThrownRun

\* No step loses a change: of a file that is not excused afterwards.
LEMMA KeptStep ==
    ASSUME WikiInv, [WikiNext]_wikiVars, NEW f \in Paths,
           f \notin excused', version'[f] > logged'[f]
    PROVE  Kept(f)'
<1> USE DEF Kept, Differs, WikiTypeOK, ScansArePast
<1>1. /\ WikiTypeOK /\ baseline[f] <= version[f]
      /\ f \notin excused /\ version[f] > logged[f] => Kept(f)
  BY DEF WikiInv
<1>2. ASSUME NEW r \in WikiRuns, WikiBegins(r) PROVE Kept(f)'
  BY <1>1, <1>2 DEF WikiBegins
<1>3. ASSUME NEW r \in WikiRuns, NEW g \in Paths, ToolWrites(r, g) PROVE Kept(f)'
  <2>1. CASE f = g
    BY <1>1, <1>3, <2>1 DEF ToolWrites
  <2>2. CASE f # g
    BY <1>1, <1>3, <2>2 DEF ToolWrites
  <2> QED BY <2>1, <2>2
<1>4. ASSUME NEW r \in WikiRuns, NEW named \in BOOLEAN, ObserveStep(r, named)
      PROVE  Kept(f)'
  BY <1>1, <1>4 DEF ObserveStep
<1>5. ASSUME NEW r \in WikiRuns, TakeAll(r) PROVE Kept(f)'
  <2>1. CASE f \in listedPaths \cup Differs
    BY <1>1, <1>5, <2>1 DEF TakeAll
  <2>2. CASE f \notin listedPaths \cup Differs
    BY <1>1, <1>5, <2>2 DEF TakeAll
  <2> QED BY <2>1, <2>2
<1>6. ASSUME NEW r \in WikiRuns, AppendEntry(r) PROVE Kept(f)'
  <2>1. version[f] > logged[f] /\ taken[r][f] # version[f]
    BY <1>1, <1>6 DEF AppendEntry
  <2> QED BY <1>1, <1>6, <2>1 DEF AppendEntry
<1>7. ASSUME NEW r \in WikiRuns, EntryRefused(r) PROVE Kept(f)'
  <2>1. version[f] > logged[f] /\ f \notin excused /\ taken[r][f] = 0
    BY <1>1, <1>7 DEF EntryRefused, Told
  <2> QED BY <1>1, <1>7, <2>1 DEF EntryRefused
<1>8. ASSUME NEW r \in WikiRuns, ThrownRun(r) PROVE Kept(f)'
  BY <1>1, <1>8 DEF ThrownRun
<1>9. ASSUME WriterLost PROVE Kept(f)'
  BY <1>1, <1>9 DEF WriterLost
<1>10. ASSUME UNCHANGED wikiVars PROVE Kept(f)'
  BY <1>1, <1>10 DEF wikiVars
<1> QED
  BY <1>2, <1>3, <1>4, <1>5, <1>6, <1>7, <1>8, <1>9, <1>10 DEF WikiNext

LEMMA WikiInvStep == WikiInv /\ [WikiNext]_wikiVars => WikiInv'
<1> SUFFICES ASSUME WikiInv, [WikiNext]_wikiVars PROVE WikiInv'
  OBVIOUS
<1>1. WikiTypeOK' /\ ScansArePast'
  BY WikiTypeStep, ScansStep DEF WikiInv
<1>2. ASSUME NEW f \in Paths, f \notin excused', version'[f] > logged'[f] PROVE Kept(f)'
  BY <1>2, KeptStep
<1> QED BY <1>1, <1>2 DEF WikiInv

(* Whatever runs overlap, whatever they write while others summarise: once   *)
(* all have ended, a change is told by an entry, or listed for the next, or  *)
(* excused.  For any number of runs, files, writes and mishaps of WikiWriter *)
(* and its calls in executeGoalTree.                                         *)
THEOREM ChangesAreTold == WikiSpec => []EveryChangeIsTold
<1>1. WikiInv => EveryChangeIsTold
  BY DEF WikiInv, EveryChangeIsTold, Kept
<1> QED BY <1>1, WikiInitInv, WikiInvStep, PTL DEF WikiSpec

(* The type invariant of the wiki's log, for any number of runs and files. *)
THEOREM WikiTypes == WikiSpec => []WikiTypeOK
<1>1. WikiInv => WikiTypeOK
  BY DEF WikiInv
<1> QED BY <1>1, WikiInitInv, WikiInvStep, PTL DEF WikiSpec
===============================================================================
