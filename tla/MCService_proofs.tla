---------------------------- MODULE MCService_proofs ----------------------------
(***************************************************************************)
(* The parts of the service in one model: every behaviour of MCService is  *)
(* one of each part, so that what is proved of a part holds there, for     *)
(* every value of the constants and not only for those of the run.         *)
(***************************************************************************)
EXTENDS MCService, Records_proofs, Service_proofs, Conversation_proofs, Limits_proofs, TLAPS

-------------------------------------------------------------------------------
(* The parts. *)

LEMMA RecordsPart == MCSpec => RunViewSpec
<1>1. MCInit => RunViewInit
  BY DEF MCInit
<1>2. [MCNext]_MCVars => [RunViewNext]_runViewVars
  BY DEF MCNext, MCVars
<1> QED BY <1>1, <1>2, PTL DEF MCSpec, RunViewSpec

LEMMA ExperimentPart == MCSpec => ExpSpec
<1>1. MCInit => ExpInit
  BY DEF MCInit
<1>2. [MCNext]_MCVars => [ExpNext]_expVars
  BY DEF MCNext, MCVars
<1> QED BY <1>1, <1>2, PTL DEF MCSpec, ExpSpec

LEMMA CataloguePart == MCSpec => CatSpec
<1>1. MCInit => CatInit
  BY DEF MCInit
<1>2. [MCNext]_MCVars => [CatNext]_catVars
  BY DEF MCNext, MCVars
<1> QED BY <1>1, <1>2, PTL DEF MCSpec, CatSpec

LEMMA ChatsPart == MCSpec => SvcSpec
<1>1. MCInit => SvcInit
  BY DEF MCInit
<1>2. [MCNext]_MCVars => [SvcNext]_svcVars
  BY DEF MCNext, MCVars
<1> QED BY <1>1, <1>2, PTL DEF MCSpec, SvcSpec

LEMMA DelegationPart == MCSpec => DelSpec
<1>1. MCInit => DelInit
  BY DEF MCInit
<1>2. [MCNext]_MCVars => [DelNext]_delVars
  BY DEF MCNext, MCVars
<1> QED BY <1>1, <1>2, PTL DEF MCSpec, DelSpec

LEMMA ContractPart == MCSpec => ConSpec
<1>1. MCInit => ConInit
  BY DEF MCInit
<1>2. [MCNext]_MCVars => [ConNext]_conVars
  BY DEF MCNext, MCVars
<1> QED BY <1>1, <1>2, PTL DEF MCSpec, ConSpec

LEMMA WindowPart == MCSpec => WinSpec
<1>1. MCInit => WinInit
  BY DEF MCInit
<1>2. [MCNext]_MCVars => [WinNext]_winVars
  BY DEF MCNext, MCVars
<1> QED BY <1>1, <1>2, PTL DEF MCSpec, WinSpec

LEMMA WikiPart == MCSpec => WikiSpec
<1>1. MCInit => WikiInit
  BY DEF MCInit
<1>2. [MCNext]_MCVars => [WikiNext]_wikiVars
  BY DEF MCNext, MCVars
<1> QED BY <1>1, <1>2, PTL DEF MCSpec, WikiSpec

LEMMA RoundPart == MCSpec => RoundSpec
<1>1. MCInit => RoundInit
  BY DEF MCInit
<1>2. [MCNext]_MCVars => [RoundNext]_roundVars
  BY DEF MCNext, MCVars
<1> QED BY <1>1, <1>2, PTL DEF MCSpec, RoundSpec

-------------------------------------------------------------------------------
(* Theorems. *)

(* The type invariant of the composition: every part of the service keeps     *)
(* its state in range, whichever of them moves.                               *)
THEOREM ServiceTypes == MCSpec => []ServiceTypeOK
<1>1. /\ ViewTypeOK /\ ExpTypeOK /\ CatTypeOK /\ SvcTypeOK /\ DelTypeOK /\ ConTypeOK
      /\ WinTypeOK /\ WikiTypeOK /\ RoundTypeOK
      => ServiceTypeOK
  BY DEF ServiceTypeOK
<1> QED
  BY <1>1, RecordsPart, ExperimentPart, CataloguePart, ChatsPart, DelegationPart, ContractPart,
     WindowPart, WikiPart, RoundPart, ViewTypes, ExperimentTypes, CatalogueTypes,
     ServicePartTypes, DelegationTypes, ContractTypes, WindowTypes, WikiTypes, RoundTypes, PTL

(* What the run of MCService checks of its parts holds of it for any number   *)
(* of each: the log of a run verifies and its page shows what waits, the lock *)
(* covers the arms of an experiment and the comparison is of what is shown,   *)
(* prices and ledger are those of the imports, a run keeps its runtime and    *)
(* lists have rows, shares and ceilings are kept, nothing that was agreed is  *)
(* lost, the transcript stays whole and is measured as sent, every change of  *)
(* the wiki is told, and no endpoint is overrun.                              *)
THEOREM ServiceIsSafe ==
    MCSpec =>
        /\ []ChainVerifies /\ []CaughtUpShowsWaiting
        /\ []LockCoversRunningArms /\ []ComparisonIsOfShownMetrics
        /\ []PriceIsLastObserved /\ []SyncIsIdempotent /\ []LedgerCoversSteps
        /\ []RunKeepsItsRuntime /\ []ListedRunsHaveRows
        /\ []SharesWithinBudget /\ []CeilingNeverRaised
        /\ []NothingAgreedIsLost /\ []VerdictOfWholeContract
        /\ []TranscriptStaysWhole /\ []MeasuredAsSent
        /\ []EveryChangeIsTold
        /\ []WithinConcurrency /\ []BreakerSound
<1>1. MCSpec => []ChainVerifies /\ []CaughtUpShowsWaiting
  BY RecordsPart, LogVerifies, PageShowsWaiting, PTL
<1>2. MCSpec => []LockCoversRunningArms /\ []ComparisonIsOfShownMetrics
  BY ExperimentPart, LockCovers, ComparisonIsTrue, PTL
<1>3. MCSpec => []PriceIsLastObserved /\ []SyncIsIdempotent /\ []LedgerCoversSteps
  BY CataloguePart, PriceIsTheLast, SyncChangesNothing, LedgerIsComplete, PTL
<1>4. MCSpec => []RunKeepsItsRuntime /\ []ListedRunsHaveRows
  BY ChatsPart, RuntimeIsKept, ListsAreTrue, PTL
<1>5. MCSpec => []SharesWithinBudget /\ []CeilingNeverRaised
  BY DelegationPart, SharesAreWithin, CeilingIsNeverRaised, PTL
<1>6. MCSpec => []NothingAgreedIsLost /\ []VerdictOfWholeContract
  BY ContractPart, ClausesAreKept, SatisfiedIsWhole, PTL
<1>7. MCSpec => []TranscriptStaysWhole /\ []MeasuredAsSent
  BY WindowPart, TranscriptIsWhole, MeasuresAreTrue, PTL
<1>8. MCSpec => []EveryChangeIsTold
  BY WikiPart, ChangesAreTold, PTL
<1>9. MCSpec => []WithinConcurrency /\ []BreakerSound
  BY RoundPart, ConcurrencyIsKept, BreakersAreSound, PTL
<1> QED BY <1>1, <1>2, <1>3, <1>4, <1>5, <1>6, <1>7, <1>8, <1>9
===============================================================================
