-------------------------- MODULE MCProviderRound --------------------------
(* ProviderRound with the default policy table, its health impacts scaled to *)
(* scores up to three: an endpoint survives two failures and not three.      *)
EXTENDS ProviderRound, TLC

CONSTANTS e1, x1, x2

MCCodes == {"aborted", "timeout", "invalid_request", "auth", "provider_unavailable",
            "context_length_exceeded"}

MCPolicy == [code \in MCCodes |->
    [retries  |-> IF code \in {"timeout", "provider_unavailable"} THEN 1 ELSE 0,
     failover |-> code \notin {"aborted", "invalid_request"},
     impact   |-> IF code \in {"timeout", "provider_unavailable"} THEN 1 ELSE 0,
     counts   |-> code \in {"timeout", "provider_unavailable", "auth"}]]

MCCandidates == <<e1, e1>>
MCRoundSymmetry == Permutations({x1, x2})
MCConcurrency == e1 :> 2
=============================================================================
