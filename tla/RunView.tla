-------------------------------- MODULE RunView --------------------------------
(***************************************************************************)
(* What a person sees of a run: the questions of the gateway, from the     *)
(* broker that waits for the answer, over the event bus and the stream of  *)
(* server-sent events (streamEvents), to the list of open approvals that   *)
(* the page keeps (watchEvents), and the answer back.  Composed with       *)
(* EventLog, whose emit feeds both the file and the stream.                *)
(*                                                                         *)
(* The browser reconnects by itself when a stream breaks, and then gets    *)
(* the whole history again; the page keeps its list meanwhile.  The        *)
(* stream is of the bus of the runtime whose workspace is selected when it *)
(* connects, any of them here.                                             *)
(***************************************************************************)
EXTENDS EventLog

CONSTANTS Questions,    \* calls that need an approval
          RootOf,       \* the root Goal that each is asked for
          None

ASSUME ViewAssumption ==
    /\ RootOf \in [Questions -> Roots]
    /\ None \notin Roots \cup Buses
    /\ Kinds = {"requested", "settled"} \X Questions

VARIABLES
    waiting,    \* brokers: <<bus, question>> that wait for an answer (memory)
    answered,   \* answers the service has taken, not yet confirmed to the page
    watching,   \* page: the run it shows
    stream,     \* page: the bus its EventSource is connected to
    frames,     \* events on their way to the page
    approvals,  \* page: the approvals shown
    asked,      \* history: questions ever asked
    orphaned    \* history: questions that a process that has ended had asked

viewVars == <<waiting, answered, watching, stream, frames, approvals, asked, orphaned>>
runViewVars == <<logVars, viewVars>>

RunViewInit ==
    /\ LogInit
    /\ waiting = {}
    /\ answered = {}
    /\ watching = None
    /\ stream = None
    /\ frames = <<>>
    /\ approvals = {}
    /\ asked = {}
    /\ orphaned = {}

\* push: an emitted event goes to the stream of its bus, if it is of the run watched.
Push(b, r, k) == frames' = IF stream = b /\ watching = r THEN Append(frames, k) ELSE frames

-------------------------------------------------------------------------------
(* The service. *)

\* decide of the broker: it waits, then says so.
Ask(b, q) ==
    /\ q \notin asked
    /\ Emit(b, RootOf[q], <<"requested", q>>)
    /\ Push(b, RootOf[q], <<"requested", q>>)
    /\ waiting' = waiting \cup {<<b, q>>}
    /\ asked' = asked \cup {q}
    /\ UNCHANGED <<answered, watching, stream, approvals, orphaned>>

\* settle: the waiter goes and the event follows; who is not found settles nothing.
SettleOne(b, q) ==
    /\ <<b, q>> \in waiting
    /\ waiting' = waiting \ {<<b, q>>}
    /\ Emit(b, RootOf[q], <<"settled", q>>)
    /\ Push(b, RootOf[q], <<"settled", q>>)
    /\ UNCHANGED <<watching, stream, approvals, asked, orphaned>>

\* The timer of the question, a stop, or the end of its run settles it.
Expire(b, q) == SettleOne(b, q) /\ UNCHANGED answered

\* The answer of the page, for a question it shows and some broker waits for.
Respond(b, q) ==
    /\ q \in approvals
    /\ SettleOne(b, q)
    /\ answered' = answered \cup {q}

\* Mutation: a connection is sent new events only.
ConnectLive(b) ==
    /\ watching # None /\ stream = None
    /\ \A other \in Buses, r \in Roots : pending[other][r] = <<>>
    /\ stream' = b /\ frames' = <<>>
    /\ UNCHANGED <<logVars, waiting, answered, watching, approvals, asked, orphaned>>

\* streamEvents: history from the file, then every event of the bus.  A request is
\* handled when the microtasks of the one before are done, writes included.
Connect(b) ==
    /\ watching # None
    /\ stream = None
    /\ \A other \in Buses, r \in Roots : pending[other][r] = <<>>
    /\ stream' = b
    /\ frames' = [i \in 1 .. Len(file[watching]) |-> file[watching][i].kind]
    /\ UNCHANGED <<logVars, waiting, answered, watching, approvals, asked, orphaned>>

WriteStep == /\ \E b \in Buses, r \in Roots : Written(b, r) \/ WriteFails(b, r)
             /\ UNCHANGED viewVars

\* The process ends: nobody waits any more, the stream breaks, the page stays.
RestartService ==
    /\ RestartLog
    /\ waiting' = {}
    /\ answered' = {}
    /\ stream' = None
    /\ frames' = <<>>
    /\ orphaned' = asked
    /\ UNCHANGED <<watching, approvals, asked>>

-------------------------------------------------------------------------------
(* The page. *)

\* watchEvents(r): stopEvents forgets what was shown and closes the old stream.
OpenRun(r) ==
    /\ watching # r
    /\ watching' = r
    /\ stream' = None
    /\ frames' = <<>>
    /\ approvals' = {}
    /\ UNCHANGED <<logVars, waiting, answered, asked, orphaned>>

\* stopEvents, when a conversation without runs is opened or the shown one deleted.
CloseRun == watching # None /\ OpenRun(None)

\* The stream breaks: what was on its way is lost, the list stays.
Disconnect ==
    /\ stream # None
    /\ stream' = None
    /\ frames' = <<>>
    /\ UNCHANGED <<logVars, waiting, answered, watching, approvals, asked, orphaned>>

\* consume: a request is added once, a settlement removes it.
Consume ==
    /\ frames # <<>>
    /\ frames' = Tail(frames)
    /\ LET q == Head(frames)[2]
       IN approvals' = IF Head(frames)[1] = "requested" THEN approvals \cup {q}
                                                         ELSE approvals \ {q}
    /\ UNCHANGED <<logVars, waiting, answered, watching, stream, asked, orphaned>>

\* respondApproval, the answer of the service: the page removes what it answered.
Confirmed(q) ==
    /\ q \in answered
    /\ answered' = answered \ {q}
    /\ approvals' = approvals \ {q}
    /\ UNCHANGED <<logVars, waiting, watching, stream, frames, asked, orphaned>>

RunViewNext ==
    \/ \E b \in Buses, q \in Questions : Ask(b, q) \/ Expire(b, q) \/ Respond(b, q)
    \/ \E b \in Buses : Connect(b)
    \/ WriteStep
    \/ RestartService
    \/ \E r \in Roots : OpenRun(r)
    \/ CloseRun
    \/ Disconnect
    \/ Consume
    \/ \E q \in Questions : Confirmed(q)

RunViewSpec == RunViewInit /\ [][RunViewNext]_runViewVars

-------------------------------------------------------------------------------
(* Properties. *)

(* Type invariant. *)
ViewTypeOK ==
    /\ LogTypeOK
    /\ waiting \subseteq Buses \X Questions
    /\ answered \subseteq Questions
    /\ watching \in Roots \cup {None}
    /\ stream \in Buses \cup {None}
    /\ frames \in Seq(Kinds)
    /\ approvals \subseteq Questions
    /\ orphaned \subseteq asked /\ asked \subseteq Questions

\* The page has read all that was sent, from the only runtime that works on the run.
CaughtUp(b, r) ==
    /\ watching = r /\ stream = b /\ frames = <<>>
    /\ \A other \in Buses \ {b} : heads[other][r] = NoHead

WaitingFor(b, r) == {q \in Questions : RootOf[q] = r /\ <<b, q>> \in waiting}

(* A page that has caught up shows every question its run waits with, and no *)
(* other that this process asked, whatever was replayed, sent twice, settled *)
(* by a timer or answered meanwhile.  What it may show besides was asked by a *)
(* process that has ended: nobody will take that answer.  A request whose    *)
(* write failed is not in the history a later connection is sent.            *)
CaughtUpShowsWaiting ==
    \A b \in Buses, r \in Roots :
        CaughtUp(b, r) /\ ~lost[r] =>
            /\ WaitingFor(b, r) \subseteq approvals
            /\ approvals \subseteq WaitingFor(b, r) \cup orphaned
===============================================================================
