------------------------------- MODULE Catalogue -------------------------------
(***************************************************************************)
(* The model catalogue and the ledger of what was spent: CatalogService    *)
(* over FileCatalogStore, fed from providers.json by importCatalog, billed *)
(* by the rounds of a runtime (recordCatalogUsage) and, afterwards, from   *)
(* the steps they saved (backfillUsage).                                   *)
(*                                                                         *)
(* One provider: a list of models, one of them its default, and the price  *)
(* of the default.  Every operation of the catalogue is done before the    *)
(* next request is taken up, and the facts are replaced as a whole: memory *)
(* and disk never differ.  The snapshot chooses a price when it is built.  *)
(***************************************************************************)
EXTENDS Integers, Sequences

CONSTANTS Offerings,    \* models of the provider
          Prices,       \* rates, as far as billing tells them apart
          Configs,      \* what providers.json may say
          FirstConfig,  \* what it says at first
          ModelCalls,       \* calls of a model
          MaxTime,      \* bound: the last moment
          MaxEdits,     \* bound: changes of providers.json
          MaxImports,   \* bound: imports, those at the start included
          MaxDeaths     \* bound: ends of the process

Unpriced == 0
Open == -1              \* a plan that has no end yet

ASSUME CatalogueAssumption ==
    /\ Prices \subseteq Nat \ {Unpriced}
    /\ Configs \subseteq [listed : SUBSET Offerings, default : Offerings,
                          price : Prices \cup {Unpriced}, from : Nat]
    /\ FirstConfig \in Configs
    /\ {MaxTime, MaxEdits, MaxImports, MaxDeaths} \subseteq Nat

VARIABLES
    config,     \* providers.json
    offered,    \* facts: status of each offering
    plans,      \* facts: the pricing plans of each offering, oldest first
    epoch,      \* facts: number of the catalogue
    shown,      \* snapshot: the plan chosen for each offering, 0: none
    booted,     \* the process runs
    attached,   \* its runtime has the catalogue
    call,      \* what each call has come to
    model,      \* the offering it was made to
    live,       \* ledger: records appended when the call was answered
    backfilled, \* ledger: records with the id bf:<stepId>
    clock,
    imported,   \* history: the configuration imported last
    observed,   \* history: the price last imported for each offering
    misdated,   \* history: offerings given a price from the future, or from
                \* before the price it replaces
    unbillable, \* history: calls that had no price, or no room on the disk, when this
                \* process last tried to bill them
    edits, imports, deaths

facts == <<offered, plans, epoch>>
ledger == <<live, backfilled>>
calls == <<call, model>>
priceHistory == <<imported, observed, misdated>>
catBounds == <<edits, imports, deaths>>
catVars == <<config, offered, plans, epoch, shown, booted, attached, call, model, live, backfilled,
             clock, imported, observed, misdated, unbillable, edits, imports, deaths>>

CatInit ==
    /\ config = FirstConfig
    /\ offered = [o \in Offerings |-> "absent"]
    /\ plans = [o \in Offerings |-> <<>>]
    /\ epoch = 0
    /\ shown = [o \in Offerings |-> 0]
    /\ booted = FALSE /\ attached = FALSE
    /\ call = [n \in ModelCalls |-> "none"]
    /\ model = [n \in ModelCalls |-> CHOOSE o \in Offerings : TRUE]
    /\ live = [n \in ModelCalls |-> 0]
    /\ backfilled = [n \in ModelCalls |-> 0]
    /\ clock = 0
    /\ imported = [done |-> FALSE]
    /\ observed = [o \in Offerings |-> Unpriced]
    /\ misdated = {}
    /\ unbillable = {}
    /\ edits = 0 /\ imports = 0 /\ deaths = 0

-------------------------------------------------------------------------------
(* Prices. *)

\* isPlanActive
ActiveAt(plan, t) == plan.from <= t /\ (plan.until = Open \/ t < plan.until)

\* isBetterPlan: later, or of an operator, or newer (ids grow).
Better(ps, i, j) ==
    \/ ps[i].from > ps[j].from
    \/ ps[i].from = ps[j].from /\ ps[i].operator /\ ~ps[j].operator
    \/ ps[i].from = ps[j].from /\ ps[i].operator = ps[j].operator /\ i >= j

\* selectActivePlan, as a position; 0 when there is none.
SelectActive(ps, t) ==
    LET active == {i \in DOMAIN ps : ActiveAt(ps[i], t)}
    IN IF active = {} THEN 0
       ELSE CHOOSE i \in active : \A j \in active : Better(ps, i, j)

\* The price that an import of c brings for o.
PriceIn(c, o) == IF o \in c.listed /\ o = c.default THEN c.price ELSE Unpriced

\* Mutation: a model without a price is given the price 0.
PricedAtZero(c, o, byOperator) ==
    IF \E i \in DOMAIN plans[o] : plans[o][i].price = PriceIn(c, o) THEN plans[o]
    ELSE Append(plans[o], [price |-> PriceIn(c, o), from |-> c.from, until |-> Open,
                           operator |-> byOperator])

\* Mutation: a price is recorded whether it differs or not.
PricedAgain(c, o, byOperator) ==
    IF PriceIn(c, o) = Unpriced THEN plans[o]
    ELSE Append(plans[o], [price |-> PriceIn(c, o), from |-> c.from, until |-> Open,
                           operator |-> byOperator])

\* applyObservedPricing
PricedBy(c, o, byOperator) ==
    LET ps == plans[o]
        current == SelectActive(ps, clock)
        closed == IF current # 0 /\ ps[current].until = Open /\ c.from >= ps[current].from
                  THEN [ps EXCEPT ![current].until = c.from] ELSE ps
    IN IF PriceIn(c, o) = Unpriced \/ (current # 0 /\ ps[current].price = PriceIn(c, o))
       THEN ps
       ELSE Append(closed, [price |-> PriceIn(c, o), from |-> c.from, until |-> Open,
                            operator |-> byOperator])

\* ensureOffering and deprecateMissingOfferings
OfferedBy(c, o) == IF o \in c.listed THEN "active"
                   ELSE IF offered[o] = "active" THEN "deprecated" ELSE offered[o]

\* What applyCatalogSync would change.
Changed(c, byOperator) ==
    \E o \in Offerings : OfferedBy(c, o) # offered[o] \/ PricedBy(c, o, byOperator) # plans[o]

Misdates(c, o) ==
    LET current == SelectActive(plans[o], clock)
    IN /\ PricedBy(c, o, FALSE) # plans[o]
       /\ \/ c.from > clock
          \/ current # 0 /\ c.from < plans[o][current].from

\* Mutation: the snapshot is built before the facts are replaced.
ImportThenShow(byOperator) ==
    /\ imports < MaxImports
    /\ imports' = imports + 1
    /\ offered' = [o \in Offerings |-> OfferedBy(config, o)]
    /\ plans' = [o \in Offerings |-> PricedBy(config, o, byOperator)]
    /\ epoch' = IF Changed(config, byOperator) THEN epoch + 1 ELSE epoch
    /\ shown' = [o \in Offerings |->
                    IF offered[o] = "active" THEN SelectActive(plans[o], clock) ELSE 0]
    /\ imported' = [done |-> TRUE, config |-> config]
    /\ observed' = [o \in Offerings |-> IF PriceIn(config, o) = Unpriced THEN observed[o]
                                        ELSE PriceIn(config, o)]
    /\ misdated' = misdated \cup {o \in Offerings : Misdates(config, o)}

\* importCatalog: sync, then the driver's binding, which builds the snapshot anew.
Import(byOperator) ==
    /\ imports < MaxImports
    /\ imports' = imports + 1
    /\ offered' = [o \in Offerings |-> OfferedBy(config, o)]
    /\ plans' = [o \in Offerings |-> PricedBy(config, o, byOperator)]
    /\ epoch' = IF Changed(config, byOperator) THEN epoch + 1 ELSE epoch
    /\ shown' = [o \in Offerings |->
                    IF offered'[o] = "active" THEN SelectActive(plans'[o], clock) ELSE 0]
    /\ imported' = [done |-> TRUE, config |-> config]
    /\ observed' = [o \in Offerings |-> IF PriceIn(config, o) = Unpriced THEN observed[o]
                                        ELSE PriceIn(config, o)]
    /\ misdated' = misdated \cup {o \in Offerings : Misdates(config, o)}

-------------------------------------------------------------------------------
(* The ledger. *)

\* pin: what the snapshot routes, at a price.
Billable(view, o) == view[o] # 0

\* backfillUsage: a record bf:<stepId> for each saved step that has none.  A step without
\* a price, or whose record finds no room, is skipped and stays due.
BackfillWith(view) ==
    LET due == {n \in ModelCalls : call[n] = "saved" /\ backfilled[n] = 0}
    IN \E room \in SUBSET due :
        LET billed == {n \in room : Billable(view, model[n])}
        IN /\ backfilled' = [n \in ModelCalls |->
                                IF n \in billed THEN backfilled[n] + 1 ELSE backfilled[n]]
           /\ unbillable' = (unbillable \cup due) \ billed

-------------------------------------------------------------------------------
(* Actions. *)

\* Mutation: nothing is billed afterwards when the catalogue is attached.
BootUnbilled ==
    /\ ~booted
    /\ booted' = TRUE /\ attached' = TRUE
    /\ Import(FALSE)
    /\ UNCHANGED <<config, calls, ledger, clock, unbillable, edits, deaths>>

\* The first runtime is built: the catalogue is opened, imported and attached.
Boot ==
    /\ ~booted
    /\ booted' = TRUE
    /\ attached' = TRUE
    /\ Import(FALSE)
    /\ BackfillWith(shown')
    /\ UNCHANGED <<config, call, model, live, clock, edits, deaths>>

\* The catalogue cannot be opened: catalogOpening keeps the failure until the process ends.
BootWithout ==
    /\ ~booted
    /\ booted' = TRUE
    /\ attached' = FALSE
    /\ UNCHANGED <<config, facts, shown, calls, ledger, clock, priceHistory, unbillable, catBounds>>

\* POST /catalog/sync
SyncCatalog ==
    /\ attached
    /\ Import(TRUE)
    /\ UNCHANGED <<config, booted, attached, call, model, live, backfilled, clock, unbillable,
                   edits, deaths>>

\* POST /catalog/usage/backfill, or another runtime is attached.
Backfill ==
    /\ attached
    /\ BackfillWith(shown)
    /\ UNCHANGED <<config, facts, shown, booted, attached, calls, live, clock, priceHistory,
                   catBounds>>

Dispatch(n) ==
    /\ booted /\ call[n] = "none"
    /\ call' = [call EXCEPT ![n] = "flying"]
    /\ \E o \in Offerings : model' = [model EXCEPT ![n] = o]
    /\ UNCHANGED <<config, facts, shown, booted, attached, ledger, clock, priceHistory,
                   unbillable, catBounds>>

\* recordCatalogUsage, when the answer is there; the record may find no room.
Settle(n) ==
    /\ call[n] = "flying"
    /\ call' = [call EXCEPT ![n] = "settled"]
    /\ \E room \in BOOLEAN :
        LET bills == attached /\ Billable(shown, model[n]) /\ room
        IN /\ live' = IF bills THEN [live EXCEPT ![n] = @ + 1] ELSE live
           /\ unbillable' = IF attached /\ ~bills THEN unbillable \cup {n} ELSE unbillable
    /\ UNCHANGED <<config, facts, shown, booted, attached, model, backfilled, clock, priceHistory,
                   catBounds>>

\* The deliberation step of the round, with the usage its provider reported.
SaveStep(n) ==
    /\ call[n] = "settled"
    /\ call' = [call EXCEPT ![n] = "saved"]
    /\ UNCHANGED <<config, facts, shown, booted, attached, model, ledger, clock, priceHistory,
                   unbillable, catBounds>>

\* Somebody, or the price sync, writes providers.json.
EditConfig ==
    /\ edits < MaxEdits
    /\ edits' = edits + 1
    /\ \E c \in Configs : c # config /\ config' = c
    /\ UNCHANGED <<facts, shown, booted, attached, calls, ledger, clock, priceHistory, unbillable,
                   imports, deaths>>

Tick ==
    /\ clock < MaxTime
    /\ clock' = clock + 1
    /\ UNCHANGED <<config, facts, shown, booted, attached, calls, ledger, priceHistory, unbillable,
                   catBounds>>

\* The process ends: calls in flight are lost, and steps that were not saved.
ServiceDies ==
    /\ booted /\ deaths < MaxDeaths
    /\ deaths' = deaths + 1
    /\ booted' = FALSE /\ attached' = FALSE
    /\ shown' = [o \in Offerings |-> 0]
    /\ call' = [n \in ModelCalls |-> IF call[n] \in {"flying", "settled"} THEN "gone" ELSE call[n]]
    /\ unbillable' = {}
    /\ UNCHANGED <<config, facts, model, ledger, clock, priceHistory, edits, imports>>

CatNext ==
    \/ Boot \/ BootWithout
    \/ SyncCatalog
    \/ Backfill
    \/ \E n \in ModelCalls : Dispatch(n) \/ Settle(n) \/ SaveStep(n)
    \/ EditConfig
    \/ Tick
    \/ ServiceDies

CatSpec == CatInit /\ [][CatNext]_catVars

-------------------------------------------------------------------------------
(* Properties. *)

(* Type invariant. *)
CatTypeOK ==
    /\ config \in Configs
    /\ offered \in [Offerings -> {"absent", "active", "deprecated"}]
    /\ plans \in [Offerings -> Seq([price : Prices, from : Nat, until : Nat \cup {Open}, operator : BOOLEAN])]
    /\ epoch \in Nat
    /\ shown \in [Offerings -> Nat]
    /\ booted \in BOOLEAN /\ attached \in BOOLEAN
    /\ call \in [ModelCalls -> {"none", "flying", "settled", "saved", "gone"}]
    /\ model \in [ModelCalls -> Offerings]
    /\ live \in [ModelCalls -> Nat] /\ backfilled \in [ModelCalls -> Nat]
    /\ observed \in [Offerings -> Prices \cup {Unpriced}]
    /\ misdated \subseteq Offerings /\ unbillable \subseteq ModelCalls
    /\ {clock, edits, imports, deaths} \subseteq Nat

(* The price a call is billed at is the one that was imported last for its   *)
(* model, through edits, restarts, other defaults and models that left the   *)
(* list and came back.  A price dated in the future or before the one it     *)
(* replaces breaks this: what it replaces is not closed, or too early.       *)
PriceIsLastObserved ==
    \A o \in Offerings \ misdated :
        attached /\ shown[o] # 0 => plans[o][shown[o]].price = observed[o]

(* An import of what was imported last changes nothing, however much later   *)
(* it comes: no epoch and no plan for nothing at every start.  It holds for  *)
(* as long as no price was misdated; after that every import appends a plan  *)
(* of the same price.                                                        *)
SyncIsIdempotent ==
    imported.done /\ misdated = {} /\ imports < MaxImports =>
        \A byOperator \in BOOLEAN : ~Changed(imported.config, byOperator)

(* Once the catalogue is attached, every saved step is in the ledger, also   *)
(* one of a process that never had the catalogue, or whose record found no   *)
(* room in an earlier process: each start tries again.  Only a step that had *)
(* no price or no room at the last try of this process may be missing.       *)
LedgerCoversSteps ==
    attached => \A n \in ModelCalls \ unbillable : call[n] = "saved" => live[n] + backfilled[n] > 0

(* A call is billed once: the backfill passes over what is in the ledger     *)
(* already ("idempotent").                                                   *)
RoundBilledOnce == \A n \in ModelCalls : live[n] + backfilled[n] <= 1
===============================================================================
