------------------------------ MODULE AuthPolicy ------------------------------
(***************************************************************************)
(* What a run may do: derive (core/src/authz/derive.ts) makes a policy of  *)
(* what the run was granted and what its Task asks for, with the labels    *)
(* of the assets in reach (labels.ts) and the questions about the risk of  *)
(* a capability (risk.ts).  The gateway of a run registers the tools this  *)
(* policy leaves it (tool-gateway/permission.ts).                          *)
(*                                                                         *)
(* Pure functions.  Which assets a declaration matches, and whether a      *)
(* capability writes, are tests of strings: here they are given.           *)
(***************************************************************************)
EXTENDS Naturals

CONSTANTS Capabilities,
          Assets,       \* paths written out
          Patterns,     \* paths with a wildcard
          Hosts

\* LABEL_RANK and TIER_RANK: higher is stricter.
Public == 0
Internal == 1
Sensitive == 2
Secret == 3
Labels == Public .. Secret

Automatic == 0
Gated == 1
Forbidden == 2
Tiers == Automatic .. Forbidden

\* An optional whitelist: without one everything is in reach, with an empty one nothing.
Extent(S) == [any : BOOLEAN, only : SUBSET S]

CapabilitySpec == [tier : Tiers, maxLabel : Labels, paths : Extent(Assets \cup Patterns),
                   hosts : Extent(Hosts)]

\* A declaration of the registry; covers: the assets its pattern matches.
AssetLabel == [covers : SUBSET Assets, label : Labels, boundary : BOOLEAN,
               origin : {"platform", "platform-curated-negative", "user"}, specificity : Nat]

\* What a tool declares about its capability.
ToolSemantics == [irreversible : BOOLEAN, envelope : BOOLEAN, writes : BOOLEAN]

-------------------------------------------------------------------------------
(* Labels. *)

Stricter(a, b) == IF b > a THEN b ELSE a

Highest(S) == CHOOSE n \in S : \A m \in S : m <= n

\* resolveLabel: a negative entry of the platform cancels what the platform says as
\* specifically or less; what a user says is never cancelled.
Survivors(registry, asset) ==
    {l \in registry :
        /\ asset \in l.covers
        /\ \/ l.origin = "user"
           \/ /\ l.origin = "platform"
              /\ \A n \in registry :
                    n.origin = "platform-curated-negative" /\ asset \in n.covers =>
                        l.specificity > n.specificity}

LabelOf(registry, asset) == Highest({Internal} \cup {l.label : l \in Survivors(registry, asset)})

IsBoundary(registry, asset) == \E l \in Survivors(registry, asset) : l.boundary

\* withUserLabels
WithUserLabels(registry, declared) == registry \cup {[l EXCEPT !.origin = "user"] : l \in declared}

-------------------------------------------------------------------------------
(* Derivation. *)

IntersectOptional(parent, child) ==
    IF parent.any THEN child
    ELSE IF child.any THEN parent
    ELSE [any |-> FALSE, only |-> parent.only \cap child.only]

MeetSpec(parent, child) ==
    [tier |-> Stricter(parent.tier, child.tier),
     maxLabel |-> Stricter(parent.maxLabel, child.maxLabel),
     paths |-> IntersectOptional(parent.paths, child.paths),
     hosts |-> IntersectOptional(parent.hosts, child.hosts)]

\* The assets a specification names; it is judged by these and by its maxLabel.
Named(spec) == IF spec.paths.any THEN {} ELSE spec.paths.only \cap Assets

\* inferTarget
TargetLabel(spec, registry) ==
    Highest({spec.maxLabel} \cup {LabelOf(registry, a) : a \in Named(spec)})

TargetBoundary(spec, registry) == \E a \in Named(spec) : IsBoundary(registry, a)

\* assessQuestions, with no value known yet: Q1 and Q3 ask for an approval at least.
Floor(spec, semantics, registry) ==
    IF \/ semantics.irreversible
       \/ semantics.envelope
       \/ TargetBoundary(spec, registry) /\ semantics.writes
    THEN Gated ELSE Automatic

\* Nothing secret is written.
HardFloor(spec, semantics, registry) ==
    IF TargetLabel(spec, registry) = Secret /\ semantics.writes THEN Forbidden ELSE Automatic

\* buildCapability
EffectiveTier(spec, semantics, registry) ==
    Stricter(Stricter(spec.tier, Floor(spec, semantics, registry)),
             HardFloor(spec, semantics, registry))

\* What is derived for a capability that is granted and asked for.
SpecOf(root, request, key) ==
    IF key \in DOMAIN request.wants THEN MeetSpec(root[key], request.wants[key]) ELSE root[key]

\* derive: refused for a required capability that was not granted and for a revoked
\* snapshot; what is only wanted and was not granted is left out.
Accepted(root, request, revoked) == ~revoked /\ request.requires \subseteq DOMAIN root

Derive(root, request, semantics, registry) ==
    [key \in (request.requires \cup DOMAIN request.wants) \cap DOMAIN root |->
        LET spec == SpecOf(root, request, key)
        IN [spec |-> spec, tier |-> EffectiveTier(spec, semantics[key], registry)]]

\* The constructor of RuntimeToolGateway: the tools of a run.
Registered(policy, tools, capabilityOf) ==
    {t \in tools : /\ capabilityOf[t] \in DOMAIN policy
                   /\ policy[capabilityOf[t]].tier # Forbidden}
===============================================================================
