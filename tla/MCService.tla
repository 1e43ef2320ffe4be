------------------------------- MODULE MCService -------------------------------
(***************************************************************************)
(* The parts of the service around a Task, checked in one model: the state *)
(* graph is the sum of theirs.  The first state chooses a part, and only   *)
(* its variables move.                                                     *)
(***************************************************************************)
EXTENDS RunView, ExperimentRun, MCCatalogue, MCRuntimeService, Delegation,
        GoalContract, ContextWindow, WikiLog, MCProviderRound

CONSTANTS r1, r2, q1, q2, b1, b2,       \* records
          aA, aB,                       \* experiment
          d0, d1, d2, d3,               \* delegation
          w0, w1, w2, f1, f2            \* wiki

MCRootOf == (q1 :> r1) @@ (q2 :> r1)
MCKinds == {"requested", "settled"} \X Questions
MCSymmetry == Permutations({b1, b2}) \cup Permutations({q1, q2})

VARIABLE part

MCVars == <<part, runViewVars, expVars, catVars, svcVars, delVars, conVars, winVars, wikiVars,
            roundVars>>

MCInit ==
    /\ part \in {"records", "experiment", "catalogue", "chats", "delegation", "contract",
                 "window", "wiki", "round"}
    /\ RunViewInit /\ ExpInit /\ CatInit /\ SvcInit /\ DelInit
    /\ ConInit /\ WinInit /\ WikiInit /\ RoundInit

MCNext ==
    /\ UNCHANGED part
    /\ IF part = "records" THEN RunViewNext ELSE UNCHANGED runViewVars
    /\ IF part = "experiment" THEN ExpNext ELSE UNCHANGED expVars
    /\ IF part = "catalogue" THEN CatNext ELSE UNCHANGED catVars
    /\ IF part = "chats" THEN SvcNext ELSE UNCHANGED svcVars
    /\ IF part = "delegation" THEN DelNext ELSE UNCHANGED delVars
    /\ IF part = "contract" THEN ConNext ELSE UNCHANGED conVars
    /\ IF part = "window" THEN WinNext ELSE UNCHANGED winVars
    /\ IF part = "wiki" THEN WikiNext ELSE UNCHANGED wikiVars
    /\ IF part = "round" THEN RoundNext ELSE UNCHANGED roundVars

MCSpec == MCInit /\ [][MCNext]_MCVars

(* Type invariant: of the part that moves. *)
ServiceTypeOK ==
    /\ part = "records" => ViewTypeOK
    /\ part = "experiment" => ExpTypeOK
    /\ part = "catalogue" => CatTypeOK
    /\ part = "chats" => SvcTypeOK
    /\ part = "delegation" => DelTypeOK
    /\ part = "contract" => ConTypeOK
    /\ part = "window" => WinTypeOK
    /\ part = "wiki" => WikiTypeOK
    /\ part = "round" => RoundTypeOK
===============================================================================
