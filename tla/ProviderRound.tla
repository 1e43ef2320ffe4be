--------------------------- MODULE ProviderRound ---------------------------
(***************************************************************************)
(* RoundExecutor.execute of packages/runtime/src/provider/orchestrator.ts  *)
(* with the objects its concurrent calls share: CircuitBreaker (retry.ts), *)
(* HealthTracker (health.ts) and the concurrency slots of EndpointLimiter  *)
(* (limiter.ts).                                                           *)
(*                                                                         *)
(* A round is one call of execute.  It walks through its candidates; at    *)
(* each it asks the breaker, waits for a slot, streams the answer, and on  *)
(* a failure retries, goes to the next candidate or gives up.  Rounds      *)
(* interleave wherever execute awaits: in acquire, while streaming and in  *)
(* the pause before a retry.                                               *)
(*                                                                         *)
(* The clock is abstracted: the timer of a round may fire and a breaker    *)
(* may cool down at any time.  The rpm and tpm buckets of the limiter are  *)
(* left out.                                                               *)
(***************************************************************************)
EXTENDS Naturals, Sequences, FiniteSets

CONSTANTS
    Rounds,            \* calls of execute that may run at the same time
    Providers,         \* endpoints
    Candidates,        \* the candidates of every round, by their endpoint
    Codes,             \* error codes
    Thrown,            \* codes a provider may throw
    Policy,            \* RetryPolicyTable: [retries, failover, impact, counts] of a code
    MaxAttempts,       \* maxAttempts
    Concurrency,       \* limits.concurrency of an endpoint, 0 = no limit
    FailureThreshold,  \* consecutiveFailureThreshold
    HealthThreshold,   \* healthThreshold
    MaxScore           \* MAX_SCORE

Decision == [retries : Nat, failover : BOOLEAN, impact : Nat, counts : BOOLEAN]

ASSUME CandidatesAssumption == Candidates \in Seq(Providers) /\ Candidates # <<>>
ASSUME PolicyAssumption ==
    /\ {"aborted", "timeout", "invalid_request", "auth", "provider_unavailable"} \subseteq Codes
    /\ "none" \notin Codes
    /\ Thrown \subseteq Codes
    /\ Policy \in [Codes -> Decision]
    /\ ~Policy["aborted"].counts /\ ~Policy["aborted"].failover
ASSUME LimitsAssumption ==
    /\ Concurrency \in [Providers -> Nat]
    /\ MaxAttempts \in Nat \ {0}
    /\ FailureThreshold \in Nat \ {0}
    /\ {HealthThreshold, MaxScore} \subseteq Nat

VARIABLES
    round,     \* the locals of each call of execute
    breaker,   \* "closed", "open" or "half-open" once the cooldown is over
    consecutive,  \* consecutiveFailures, counted up to the threshold
    probe,     \* probeInFlight
    score,     \* health score
    inFlight,  \* slots in use, of endpoints with a concurrency limit
    admitted   \* history: probes let through since the last cooldown

endpoints == <<breaker, consecutive, probe, score, inFlight>>
roundVars == <<round, endpoints, admitted>>

Local ==
    [pc : {"idle", "ask", "acquire", "stream", "backoff"},
     at : 1 .. Len(Candidates),    \* the candidate
     tries : Nat,                  \* localAttempt
     used : 0 .. MaxAttempts,      \* attemptsUsed
     error : Codes \cup {"none"},  \* lastError
     timer : {"off", "armed", "fired"},
     aborted : BOOLEAN,            \* request.signal.aborted
     probing : BOOLEAN]            \* history: let through as a probe

Idle == [pc |-> "idle", at |-> 1, tries |-> 0, used |-> 0, error |-> "none",
         timer |-> "off", aborted |-> FALSE, probing |-> FALSE]

\* The endpoint a round is at.
Endpoint(r) == Candidates[round[r].at]

Streaming(p) == {r \in Rounds : round[r].pc = "stream" /\ Endpoint(r) = p}

----------------------------------------------------------------------------
(* HealthTracker. *)

Lowered(s, n) == IF n < s THEN s - n ELSE 0

\* track of a success.
Raise(s) == IF s < MaxScore THEN s + 1 ELSE MaxScore

\* track of a failure: what the caller or the harness did is not held against
\* the endpoint, a rejected key takes it out at once.
Blamed(s, code) ==
    IF code \in {"aborted", "invalid_request"} THEN s
    ELSE IF code = "auth" THEN 0
    ELSE Lowered(s, Policy[code].impact)

----------------------------------------------------------------------------
(* CircuitBreaker. *)

Healthy(p) == score[p] >= HealthThreshold

Allows(p) ==
    /\ Healthy(p)
    /\ breaker[p] = "closed" \/ (breaker[p] = "half-open" /\ ~probe[p])

\* allow answers true; half open, the request becomes the probe.
Allow(p) ==
    /\ probe' = [probe EXCEPT ![p] = @ \/ breaker[p] = "half-open"]
    /\ admitted' = IF breaker[p] = "half-open"
                   THEN [admitted EXCEPT ![p] = @ + 1] ELSE admitted
    /\ UNCHANGED <<breaker, consecutive, score, inFlight>>

\* allow answers false; for a bad score it opens the breaker, or keeps it open
\* for another cooldown.
Refuse(p) ==
    /\ IF breaker[p] = "open" \/ (breaker[p] = "half-open" /\ probe[p])
       THEN UNCHANGED <<breaker, probe>>
       ELSE /\ breaker' = [breaker EXCEPT ![p] = "open"]
            /\ probe' = [probe EXCEPT ![p] = FALSE]
    /\ UNCHANGED <<consecutive, score, inFlight, admitted>>

\* Mutation: a success resets the counter and leaves the breaker as it is.
SuccessKeepsOpen(p) ==
    /\ consecutive' = [consecutive EXCEPT ![p] = 0]
    /\ probe' = [probe EXCEPT ![p] = FALSE]
    /\ UNCHANGED breaker

\* recordSuccess, also of a round that was admitted long before.
RecordSuccess(p) ==
    /\ consecutive' = [consecutive EXCEPT ![p] = 0]
    /\ breaker' = [breaker EXCEPT ![p] = "closed"]
    /\ probe' = [probe EXCEPT ![p] = FALSE]

\* recordFailure, for the codes that count as errors.  The counter is compared
\* with the threshold only, so it need not grow beyond.
RecordFailure(p, code) ==
    IF Policy[code].counts
    THEN /\ consecutive' = [consecutive EXCEPT ![p] = IF @ < FailureThreshold THEN @ + 1 ELSE @]
         /\ probe' = [probe EXCEPT ![p] = FALSE]
         /\ breaker' = IF consecutive[p] + 1 >= FailureThreshold
                       THEN [breaker EXCEPT ![p] = "open"] ELSE breaker
    ELSE UNCHANGED <<consecutive, probe, breaker>>

----------------------------------------------------------------------------
(* EndpointLimiter. *)

\* Mutation: off by one.
SlotFreeOffByOne(p) == Concurrency[p] = 0 \/ inFlight[p] <= Concurrency[p]

SlotFree(p) == Concurrency[p] = 0 \/ inFlight[p] < Concurrency[p]

TakeSlot(p) ==
    inFlight' = IF Concurrency[p] = 0 THEN inFlight ELSE [inFlight EXCEPT ![p] = @ + 1]

\* settle.
ReturnSlot(p) ==
    inFlight' = IF inFlight[p] = 0 THEN inFlight ELSE [inFlight EXCEPT ![p] = @ - 1]

----------------------------------------------------------------------------
(* The candidate sequence. *)

\* A round that is composing its signal: a caller who has already aborted
\* disarms the timer at once.
Armed(local) == [local EXCEPT !.timer = IF local.aborted THEN "off" ELSE "armed"]

\* The round goes to the next candidate, or ends when there is none.
Onward(local) ==
    IF local.at < Len(Candidates)
    THEN [local EXCEPT !.pc = "ask", !.at = local.at + 1, !.tries = 0, !.timer = "off",
                       !.probing = FALSE]
    ELSE Idle

Begin(r) ==
    /\ round[r].pc = "idle"
    /\ round' = [round EXCEPT ![r] = [Idle EXCEPT !.pc = "ask"]]
    /\ UNCHANGED <<endpoints, admitted>>

Admit(r) ==
    /\ round[r].pc = "ask" /\ Allows(Endpoint(r))
    /\ round' = [round EXCEPT ![r] =
           [Armed(@) EXCEPT !.pc = "acquire", !.probing = breaker[Endpoint(r)] = "half-open"]]
    /\ Allow(Endpoint(r))

\* The breaker refuses: the candidate is skipped without an attempt.
Skip(r) ==
    /\ round[r].pc = "ask" /\ ~Allows(Endpoint(r))
    /\ round' = [round EXCEPT ![r] = Onward(@)]
    /\ Refuse(Endpoint(r))

Acquire(r) ==
    /\ round[r].pc = "acquire" /\ SlotFree(Endpoint(r))
    /\ round' = [round EXCEPT ![r].pc = "stream"]
    /\ TakeSlot(Endpoint(r))
    /\ UNCHANGED <<breaker, consecutive, probe, score, admitted>>

Succeed(r) ==
    /\ round[r].pc = "stream"
    /\ round' = [round EXCEPT ![r] = Idle]
    /\ score' = [score EXCEPT ![Endpoint(r)] = Raise(@)]
    /\ RecordSuccess(Endpoint(r))
    /\ ReturnSlot(Endpoint(r))
    /\ UNCHANGED admitted

\* A failed attempt: a retry here, the next candidate, or the end of the round.
AfterFailure(local, code) ==
    LET failed == [local EXCEPT !.used = local.used + 1, !.error = code] IN
    IF /\ local.tries < Policy[code].retries /\ failed.used < MaxAttempts
       /\ code \notin {"aborted", "invalid_request"}
    THEN [failed EXCEPT !.pc = "backoff", !.timer = "off"]
    ELSE IF Policy[code].failover /\ failed.used < MaxAttempts THEN Onward(failed)
    ELSE Idle

Fail(r, code) ==
    /\ round' = [round EXCEPT ![r] = AfterFailure(@, code)]
    /\ score' = [score EXCEPT ![Endpoint(r)] = Blamed(@, code)]
    /\ RecordFailure(Endpoint(r), code)
    /\ UNCHANGED admitted

\* finishReason "insufficient_system_resource": the stream ends well and counts
\* as provider_unavailable.
Exhausted(r) ==
    /\ round[r].pc = "stream"
    /\ Fail(r, "provider_unavailable")
    /\ ReturnSlot(Endpoint(r))

\* The code the catch block works with.
Effective(local, code) ==
    IF local.timer = "fired" /\ code = "aborted" THEN "timeout"
    ELSE IF local.aborted THEN "aborted"
    ELSE code

\* The stream throws: the catch block, which settles nothing.  A provider throws
\* "aborted" only when its signal was aborted.
Throw(r, code) ==
    /\ round[r].pc = "stream"
    /\ code = "aborted" => round[r].aborted \/ round[r].timer = "fired"
    /\ Fail(r, Effective(round[r], code))
    /\ UNCHANGED inFlight

\* The pause before a local retry is over; the breaker is not asked again.
Retry(r) ==
    /\ round[r].pc = "backoff"
    /\ round' = [round EXCEPT ![r] =
                     [Armed(@) EXCEPT !.pc = "acquire", !.tries = round[r].tries + 1]]
    /\ UNCHANGED <<endpoints, admitted>>

----------------------------------------------------------------------------
(* The environment. *)

\* The timer also runs while the round waits for a slot.
TimerFires(r) ==
    /\ round[r].timer = "armed"
    /\ round' = [round EXCEPT ![r].timer = "fired"]
    /\ UNCHANGED <<endpoints, admitted>>

CallerAborts(r) ==
    /\ round[r].pc # "idle" /\ ~round[r].aborted
    /\ round' = [round EXCEPT ![r].aborted = TRUE]
    /\ UNCHANGED <<endpoints, admitted>>

Cooldown(p) ==
    /\ breaker[p] = "open"
    /\ breaker' = [breaker EXCEPT ![p] = "half-open"]
    /\ admitted' = [admitted EXCEPT ![p] = 0]
    /\ UNCHANGED <<round, consecutive, probe, score, inFlight>>

RoundInit ==
    /\ round = [r \in Rounds |-> Idle]
    /\ breaker = [p \in Providers |-> "closed"]
    /\ consecutive = [p \in Providers |-> 0]
    /\ probe = [p \in Providers |-> FALSE]
    /\ score = [p \in Providers |-> MaxScore]
    /\ inFlight = [p \in Providers |-> 0]
    /\ admitted = [p \in Providers |-> 0]

Advance(r) ==
    \/ Admit(r) \/ Skip(r) \/ Acquire(r) \/ Succeed(r) \/ Exhausted(r)
    \/ \E code \in Thrown : Throw(r, code)
    \/ Retry(r)

RoundNext ==
    \/ \E r \in Rounds : Begin(r) \/ Advance(r) \/ TimerFires(r) \/ CallerAborts(r)
    \/ \E p \in Providers : Cooldown(p)

RoundSpec == RoundInit /\ [][RoundNext]_roundVars

\* A stream ends, if only by its timeout, a pause is over some day, and a poller of
\* the limiter gets the slot that is free again and again.
RoundFairSpec == RoundSpec /\ \A r \in Rounds : SF_roundVars(Advance(r))

----------------------------------------------------------------------------
(* Properties. *)

(* Type invariant; a round that has not ended has an attempt to spare. *)
RoundTypeOK ==
    /\ round \in [Rounds -> Local]
    /\ \A r \in Rounds : round[r].pc # "idle" => round[r].used < MaxAttempts
    /\ breaker \in [Providers -> {"closed", "open", "half-open"}]
    /\ consecutive \in [Providers -> 0 .. FailureThreshold]
    /\ probe \in [Providers -> BOOLEAN]
    /\ score \in [Providers -> 0 .. MaxScore]
    /\ inFlight \in [Providers -> Nat]
    /\ admitted \in [Providers -> Nat]

\* An endpoint never answers more rounds at a time than its limit allows, whatever
\* failed before.
WithinConcurrency ==
    \A p \in Providers : Concurrency[p] > 0 =>
        /\ Cardinality(Streaming(p)) <= inFlight[p]
        /\ inFlight[p] <= Concurrency[p]

\* No order of successes and failures of overlapping rounds leaves a breaker behind
\* without a reason to be open: enough failures in a row, or a score that is too low
\* by now.  And one cooldown lets one probe through, also when rounds that were
\* admitted before fail or succeed in the meantime.
BreakerSound ==
    \A p \in Providers :
        /\ breaker[p] # "closed" => consecutive[p] >= FailureThreshold \/ ~Healthy(p)
        /\ admitted[p] <= 1

\* "acquire blocks until there is a free slot": a round that is waiting or running
\* ends.
RoundEnds == \A r \in Rounds : round[r].pc # "idle" ~> round[r].pc = "idle"
=============================================================================
