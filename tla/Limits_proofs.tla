----------------------------- MODULE Limits_proofs -----------------------------
(***************************************************************************)
(* What is proved about limits.  For any grants, requests, labels and      *)
(* tools a derivation only tightens; for any delegations, stops and        *)
(* resumes no agent may do more than those above it, or give away more     *)
(* than it has; and for any number of rounds, endpoints and candidates,    *)
(* any policy table and any limits, no endpoint is asked for more than it  *)
(* is to be.                                                               *)
(***************************************************************************)
EXTENDS Delegation, AuthPolicy, ProviderRound, FiniteSetTheorems, WellFoundedInduction, TLAPS

-------------------------------------------------------------------------------
(* The strictest of several. *)

LEMMA HighestIsHighest ==
    ASSUME NEW S, S \subseteq Labels, S # {}
    PROVE  Highest(S) \in S /\ \A m \in S : m <= Highest(S)
<1>1. S \subseteq {0, 1, 2, 3}
  BY DEF Labels, Public, Secret
<1>2. \E n \in S : \A m \in S : m <= n
  <2>1. CASE 3 \in S
    BY <1>1, <2>1
  <2>2. CASE 3 \notin S /\ 2 \in S
    BY <1>1, <2>2
  <2>3. CASE 3 \notin S /\ 2 \notin S /\ 1 \in S
    BY <1>1, <2>3
  <2>4. CASE 3 \notin S /\ 2 \notin S /\ 1 \notin S
    <3>1. PICK n \in S : TRUE
      OBVIOUS
    <3>2. n = 0 /\ \A m \in S : m = 0
      BY <1>1, <2>4
    <3> QED BY <3>2
  <2> QED BY <2>1, <2>2, <2>3, <2>4
<1> QED BY <1>2 DEF Highest

\* More to choose from gives no lower label.
LEMMA HighestGrows ==
    ASSUME NEW S, NEW T, T \subseteq Labels, S # {},
           \A m \in S : \E n \in T : m <= n, S \subseteq Labels
    PROVE  Highest(S) <= Highest(T)
<1>1. Highest(S) \in S /\ T # {}
  BY HighestIsHighest
<1>2. Highest(T) \in T /\ \A m \in T : m <= Highest(T)
  BY <1>1, HighestIsHighest
<1>3. PICK n \in T : Highest(S) <= n
  BY <1>1
<1>4. n <= Highest(T)
  BY <1>2
<1>5. n \in Labels /\ Highest(S) \in Labels /\ Highest(T) \in Labels
  BY <1>1, <1>2
<1>6. \A a, b, c \in Labels : a <= b /\ b <= c => a <= c
  BY DEF Labels, Public, Secret
<1> QED BY <1>3, <1>4, <1>5, <1>6, Zenon

-------------------------------------------------------------------------------
(* Labels that a user adds. *)

LEMMA UserLabelsSurvive ==
    ASSUME NEW registry \in SUBSET AssetLabel, NEW declared \in SUBSET AssetLabel,
           NEW asset \in Assets
    PROVE  /\ WithUserLabels(registry, declared) \in SUBSET AssetLabel
           /\ Survivors(registry, asset)
                \subseteq Survivors(WithUserLabels(registry, declared), asset)
<1>1. \A l \in declared : [l EXCEPT !.origin = "user"] \in AssetLabel
                          /\ [l EXCEPT !.origin = "user"].origin = "user"
  BY DEF AssetLabel
<1>2. WithUserLabels(registry, declared) \in SUBSET AssetLabel
  BY <1>1 DEF WithUserLabels
<1>3. \A n \in WithUserLabels(registry, declared) :
        n.origin = "platform-curated-negative" => n \in registry
  BY <1>1 DEF WithUserLabels
<1>4. registry \subseteq WithUserLabels(registry, declared)
  BY DEF WithUserLabels
<1> QED BY <1>2, <1>3, <1>4 DEF Survivors

LEMMA LabelsAreLabels ==
    ASSUME NEW registry \in SUBSET AssetLabel, NEW asset
    PROVE  /\ {Internal} \cup {l.label : l \in Survivors(registry, asset)} \subseteq Labels
           /\ LabelOf(registry, asset) \in Labels
<1>1. {Internal} \cup {l.label : l \in Survivors(registry, asset)} \subseteq Labels
  BY DEF Survivors, AssetLabel, Labels, Internal, Public, Secret
<1> QED BY <1>1, HighestIsHighest DEF LabelOf

LEMMA UserLabelsRaise ==
    ASSUME NEW registry \in SUBSET AssetLabel, NEW declared \in SUBSET AssetLabel,
           NEW asset \in Assets
    PROVE  /\ LabelOf(registry, asset) <= LabelOf(WithUserLabels(registry, declared), asset)
           /\ IsBoundary(registry, asset) =>
                IsBoundary(WithUserLabels(registry, declared), asset)
<1> DEFINE wider == WithUserLabels(registry, declared)
           S == {Internal} \cup {l.label : l \in Survivors(registry, asset)}
           T == {Internal} \cup {l.label : l \in Survivors(wider, asset)}
<1>1. wider \in SUBSET AssetLabel /\ Survivors(registry, asset) \subseteq Survivors(wider, asset)
  BY UserLabelsSurvive
<1>2. S \subseteq Labels /\ T \subseteq Labels /\ S \subseteq T /\ S # {}
  BY <1>1, LabelsAreLabels
<1>3. \A m \in S : \E n \in T : m <= n
  BY <1>2 DEF Labels, Public, Secret
<1>4. Highest(S) <= Highest(T)
  <2> HIDE DEF S, T
  <2> QED BY <1>2, <1>3, HighestGrows
<1> QED BY <1>1, <1>4 DEF LabelOf, IsBoundary

-------------------------------------------------------------------------------
(* The tier of a capability. *)

LEMMA StricterIsStricter ==
    ASSUME NEW a \in Nat, NEW b \in Nat
    PROVE  Stricter(a, b) \in {a, b} /\ a <= Stricter(a, b) /\ b <= Stricter(a, b)
  BY DEF Stricter

LEMMA TargetIsLabel ==
    ASSUME NEW registry \in SUBSET AssetLabel, NEW spec \in CapabilitySpec
    PROVE  /\ {spec.maxLabel} \cup {LabelOf(registry, a) : a \in Named(spec)} \subseteq Labels
           /\ TargetLabel(spec, registry) \in Labels
           /\ \A a \in Named(spec) : LabelOf(registry, a) <= TargetLabel(spec, registry)
<1>1. spec.maxLabel \in Labels
  BY DEF CapabilitySpec
<1>2. {spec.maxLabel} \cup {LabelOf(registry, a) : a \in Named(spec)} \subseteq Labels
  BY <1>1, LabelsAreLabels
<1> QED BY <1>2, HighestIsHighest DEF TargetLabel

LEMMA TierIsTier ==
    ASSUME NEW registry, NEW spec \in CapabilitySpec, NEW semantics
    PROVE  /\ EffectiveTier(spec, semantics, registry) \in Tiers
           /\ spec.tier <= EffectiveTier(spec, semantics, registry)
           /\ Floor(spec, semantics, registry) <= EffectiveTier(spec, semantics, registry)
           /\ HardFloor(spec, semantics, registry) <= EffectiveTier(spec, semantics, registry)
<1>1. spec.tier \in 0 .. 2
  BY DEF CapabilitySpec, Tiers, Automatic, Forbidden
<1>2. Floor(spec, semantics, registry) \in 0 .. 1
  BY DEF Floor, Automatic, Gated
<1>3. HardFloor(spec, semantics, registry) \in {0, 2}
  BY DEF HardFloor, Automatic, Forbidden
<1> HIDE DEF Floor, HardFloor
<1> QED BY <1>1, <1>2, <1>3 DEF EffectiveTier, Stricter, Tiers, Automatic, Forbidden

LEMMA UserLabelsTightenTier ==
    ASSUME NEW registry \in SUBSET AssetLabel, NEW declared \in SUBSET AssetLabel,
           NEW spec \in CapabilitySpec, NEW semantics \in ToolSemantics
    PROVE  EffectiveTier(spec, semantics, registry)
             <= EffectiveTier(spec, semantics, WithUserLabels(registry, declared))
<1> DEFINE wider == WithUserLabels(registry, declared)
<1>0. wider \in SUBSET AssetLabel /\ Named(spec) \subseteq Assets
  BY DEF WithUserLabels, AssetLabel, Named
<1>1. TargetLabel(spec, registry) <= TargetLabel(spec, wider)
  <2> DEFINE S == {spec.maxLabel} \cup {LabelOf(registry, a) : a \in Named(spec)}
             T == {spec.maxLabel} \cup {LabelOf(wider, a) : a \in Named(spec)}
  <2>1. S \subseteq Labels /\ T \subseteq Labels
    BY <1>0, TargetIsLabel
  <2>2. spec.maxLabel <= spec.maxLabel
    BY DEF CapabilitySpec, Labels, Public, Secret
  <2>3. \A m \in S : \E n \in T : m <= n
    BY <1>0, <2>2, UserLabelsRaise
  <2>4. S # {}
    OBVIOUS
  <2>5. Highest(S) <= Highest(T)
    <3> HIDE DEF S, T
    <3> QED BY <2>1, <2>3, <2>4, HighestGrows
  <2> QED BY <2>5 DEF TargetLabel
<1>2. TargetBoundary(spec, registry) => TargetBoundary(spec, wider)
  BY <1>0, UserLabelsRaise DEF TargetBoundary
<1>3. TargetLabel(spec, registry) \in Labels /\ TargetLabel(spec, wider) \in Labels
  BY <1>0, TargetIsLabel
<1>4. TargetLabel(spec, registry) = Secret => TargetLabel(spec, wider) = Secret
  <2> HIDE DEF wider
  <2> QED BY <1>1, <1>3 DEF Labels, Public, Secret
<1>5. Floor(spec, semantics, registry) <= Floor(spec, semantics, wider)
  BY <1>2 DEF Floor, Automatic, Gated
<1>6. HardFloor(spec, semantics, registry) <= HardFloor(spec, semantics, wider)
  BY <1>4 DEF HardFloor, Automatic, Forbidden
<1>7. /\ spec.tier \in 0 .. 2
      /\ Floor(spec, semantics, registry) \in 0 .. 1 /\ Floor(spec, semantics, wider) \in 0 .. 1
      /\ HardFloor(spec, semantics, registry) \in 0 .. 2
      /\ HardFloor(spec, semantics, wider) \in 0 .. 2
  BY DEF CapabilitySpec, Tiers, Automatic, Gated, Forbidden, Floor, HardFloor
<1>8. \A t \in 0 .. 2, f, g, h, k \in 0 .. 2 :
        f <= g /\ h <= k => Stricter(Stricter(t, f), h) <= Stricter(Stricter(t, g), k)
  BY DEF Stricter
<1>9. /\ Floor(spec, semantics, registry) \in 0 .. 2 /\ Floor(spec, semantics, wider) \in 0 .. 2
      /\ EffectiveTier(spec, semantics, wider)
            = Stricter(Stricter(spec.tier, Floor(spec, semantics, wider)),
                       HardFloor(spec, semantics, wider))
  BY DEF EffectiveTier, Floor, Automatic, Gated
<1> HIDE DEF wider
<1>10. EffectiveTier(spec, semantics, registry) <= EffectiveTier(spec, semantics, wider)
  BY <1>5, <1>6, <1>7, <1>8, <1>9 DEF EffectiveTier
<1> QED BY <1>10 DEF wider

-------------------------------------------------------------------------------
(* A derivation. *)

\* A grant, what is asked of it, and what the tools declare.
Asking(root, request, semantics) ==
    /\ DOMAIN root \subseteq Capabilities
    /\ \A key \in DOMAIN root : root[key] \in CapabilitySpec
    /\ request.requires \subseteq Capabilities /\ DOMAIN request.wants \subseteq Capabilities
    /\ \A key \in DOMAIN request.wants : request.wants[key] \in CapabilitySpec
    /\ semantics \in [Capabilities -> ToolSemantics]

\* No further than.
Within(inner, outer) == outer.any \/ (~inner.any /\ inner.only \subseteq outer.only)

LEMMA IntersectionIsWithin ==
    ASSUME NEW S, NEW given \in Extent(S), NEW asked \in Extent(S)
    PROVE  /\ IntersectOptional(given, asked) \in Extent(S)
           /\ Within(IntersectOptional(given, asked), given)
           /\ Within(IntersectOptional(given, asked), asked)
<1>1. CASE given.any
  BY <1>1 DEF IntersectOptional, Within, Extent
<1>2. CASE ~given.any /\ asked.any
  BY <1>2 DEF IntersectOptional, Within, Extent
<1>3. CASE ~given.any /\ ~asked.any
  <2> DEFINE both == [any |-> FALSE, only |-> given.only \cap asked.only]
  <2>1. IntersectOptional(given, asked) = both
    BY <1>3 DEF IntersectOptional
  <2>2. both \in Extent(S) /\ ~both.any /\ both.only = given.only \cap asked.only
    BY DEF Extent
  <2> QED BY <1>3, <2>1, <2>2 DEF Within
<1> QED BY <1>1, <1>2, <1>3

LEMMA MeetTightens ==
    ASSUME NEW given \in CapabilitySpec, NEW asked \in CapabilitySpec
    PROVE  /\ MeetSpec(given, asked) \in CapabilitySpec
           /\ given.tier <= MeetSpec(given, asked).tier
           /\ asked.tier <= MeetSpec(given, asked).tier
           /\ Within(MeetSpec(given, asked).paths, given.paths)
           /\ Within(MeetSpec(given, asked).paths, asked.paths)
           /\ Within(MeetSpec(given, asked).hosts, given.hosts)
           /\ Within(MeetSpec(given, asked).hosts, asked.hosts)
<1>1. /\ given.paths \in Extent(Assets \cup Patterns) /\ asked.paths \in Extent(Assets \cup Patterns)
      /\ given.hosts \in Extent(Hosts) /\ asked.hosts \in Extent(Hosts)
      /\ given.tier \in Tiers /\ asked.tier \in Tiers
      /\ given.maxLabel \in Labels /\ asked.maxLabel \in Labels
  BY DEF CapabilitySpec
<1>2. /\ Stricter(given.tier, asked.tier) \in Tiers
      /\ given.tier <= Stricter(given.tier, asked.tier)
      /\ asked.tier <= Stricter(given.tier, asked.tier)
      /\ Stricter(given.maxLabel, asked.maxLabel) \in Labels
  BY <1>1 DEF Stricter, Tiers, Automatic, Forbidden, Labels, Public, Secret
<1>3. /\ IntersectOptional(given.paths, asked.paths) \in Extent(Assets \cup Patterns)
      /\ IntersectOptional(given.hosts, asked.hosts) \in Extent(Hosts)
  BY <1>1, IntersectionIsWithin
<1>4. /\ MeetSpec(given, asked) \in CapabilitySpec
      /\ MeetSpec(given, asked).tier = Stricter(given.tier, asked.tier)
      /\ MeetSpec(given, asked).paths = IntersectOptional(given.paths, asked.paths)
      /\ MeetSpec(given, asked).hosts = IntersectOptional(given.hosts, asked.hosts)
  <2> HIDE DEF Stricter
  <2> QED BY <1>2, <1>3 DEF MeetSpec, CapabilitySpec
<1> QED BY <1>1, <1>2, <1>4, IntersectionIsWithin

LEMMA SpecIsTighter ==
    ASSUME NEW root, NEW request, NEW semantics, Asking(root, request, semantics),
           NEW key \in DOMAIN root
    PROVE  /\ SpecOf(root, request, key) \in CapabilitySpec
           /\ root[key].tier <= SpecOf(root, request, key).tier
           /\ Within(SpecOf(root, request, key).paths, root[key].paths)
           /\ Within(SpecOf(root, request, key).hosts, root[key].hosts)
           /\ key \in DOMAIN request.wants =>
                /\ request.wants[key].tier <= SpecOf(root, request, key).tier
                /\ Within(SpecOf(root, request, key).paths, request.wants[key].paths)
                /\ Within(SpecOf(root, request, key).hosts, request.wants[key].hosts)
<1>0. root[key] \in CapabilitySpec
  BY DEF Asking
<1>1. CASE key \in DOMAIN request.wants
  <2>1. request.wants[key] \in CapabilitySpec
    BY <1>1 DEF Asking
  <2>2. SpecOf(root, request, key) = MeetSpec(root[key], request.wants[key])
    BY <1>1 DEF SpecOf
  <2> QED BY <1>0, <2>1, <2>2, MeetTightens
<1>2. CASE key \notin DOMAIN request.wants
  <2>1. SpecOf(root, request, key) = root[key]
    BY <1>2 DEF SpecOf
  <2>2. root[key].tier <= root[key].tier
    BY <1>0 DEF CapabilitySpec, Tiers, Automatic, Forbidden
  <2>3. Within(root[key].paths, root[key].paths) /\ Within(root[key].hosts, root[key].hosts)
    BY <1>0 DEF CapabilitySpec, Extent, Within
  <2> QED BY <1>0, <1>2, <2>1, <2>2, <2>3
<1> QED BY <1>1, <1>2

LEMMA DerivedEntry ==
    ASSUME NEW root, NEW request, NEW semantics, NEW registry,
           NEW key \in DOMAIN Derive(root, request, semantics, registry)
    PROVE  /\ key \in DOMAIN root
           /\ Derive(root, request, semantics, registry)[key].spec = SpecOf(root, request, key)
           /\ Derive(root, request, semantics, registry)[key].tier
                = EffectiveTier(SpecOf(root, request, key), semantics[key], registry)
<1>1. key \in (request.requires \cup DOMAIN request.wants) \cap DOMAIN root
  BY DEF Derive
<1> DEFINE entry == [spec |-> SpecOf(root, request, key),
                     tier |-> EffectiveTier(SpecOf(root, request, key), semantics[key], registry)]
<1>2. Derive(root, request, semantics, registry)[key] = entry
  BY <1>1 DEF Derive
<1> QED BY <1>1, <1>2

\* A derivation only tightens: of every capability it keeps, the tier is as strict as that of the
\* grant and that of the request, and the paths and hosts in reach are within those of both
\* (meetSpec, buildCapability).
THEOREM DerivationTightens ==
    ASSUME NEW root, NEW request, NEW semantics, NEW registry,
           Asking(root, request, semantics),
           NEW key \in DOMAIN Derive(root, request, semantics, registry)
    PROVE  LET kept == Derive(root, request, semantics, registry)[key]
           IN /\ key \in DOMAIN root
              /\ root[key].tier <= kept.tier
              /\ Within(kept.spec.paths, root[key].paths)
              /\ Within(kept.spec.hosts, root[key].hosts)
              /\ key \in DOMAIN request.wants =>
                    /\ request.wants[key].tier <= kept.tier
                    /\ Within(kept.spec.paths, request.wants[key].paths)
                    /\ Within(kept.spec.hosts, request.wants[key].hosts)
<1> DEFINE spec == SpecOf(root, request, key)
           tier == EffectiveTier(spec, semantics[key], registry)
<1>1. /\ key \in DOMAIN root
      /\ Derive(root, request, semantics, registry)[key].spec = spec
      /\ Derive(root, request, semantics, registry)[key].tier = tier
  BY DerivedEntry
<1>2. spec \in CapabilitySpec
  BY <1>1, SpecIsTighter
<1>3. spec.tier \in Nat /\ tier \in Nat /\ spec.tier <= tier
  <2>1. tier \in Tiers /\ spec.tier <= tier
    BY <1>2, TierIsTier
  <2>2. spec.tier \in Tiers
    BY <1>2 DEF CapabilitySpec
  <2> QED BY <2>1, <2>2 DEF Tiers, Automatic, Forbidden
<1>4. root[key].tier \in Nat /\ (key \in DOMAIN request.wants => request.wants[key].tier \in Nat)
  BY <1>1 DEF Asking, CapabilitySpec, Tiers, Automatic, Forbidden
<1>5. /\ root[key].tier <= spec.tier
      /\ Within(spec.paths, root[key].paths) /\ Within(spec.hosts, root[key].hosts)
      /\ key \in DOMAIN request.wants =>
            /\ request.wants[key].tier <= spec.tier
            /\ Within(spec.paths, request.wants[key].paths)
            /\ Within(spec.hosts, request.wants[key].hosts)
  BY <1>1, SpecIsTighter
<1>6. \A a, b, c \in Nat : a <= b /\ b <= c => a <= c
  OBVIOUS
<1> HIDE DEF spec, tier
<1>7. root[key].tier <= tier
  BY <1>3, <1>4, <1>5, <1>6
<1>8. key \in DOMAIN request.wants => request.wants[key].tier <= tier
  BY <1>3, <1>4, <1>5, <1>6
<1> QED BY <1>1, <1>5, <1>7, <1>8, Zenon

\* Labels that a user adds leave a run no more than it had: the same capabilities, none with a
\* weaker tier, and no tool that was not registered before (resolveLabel, assessQuestions).
THEOREM UserLabelsOnlyTighten ==
    ASSUME NEW root, NEW request, NEW semantics, Asking(root, request, semantics),
           NEW registry \in SUBSET AssetLabel, NEW declared \in SUBSET AssetLabel,
           NEW tools, NEW capabilityOf
    PROVE  LET before == Derive(root, request, semantics, registry)
               after == Derive(root, request, semantics, WithUserLabels(registry, declared))
           IN /\ DOMAIN after = DOMAIN before
              /\ \A key \in DOMAIN before : before[key].tier <= after[key].tier
              /\ Registered(after, tools, capabilityOf)
                    \subseteq Registered(before, tools, capabilityOf)
<1> DEFINE wider == WithUserLabels(registry, declared)
           before == Derive(root, request, semantics, registry)
           after == Derive(root, request, semantics, wider)
<1>1. DOMAIN after = DOMAIN before
  BY DEF Derive
<1>2. ASSUME NEW key \in DOMAIN before
      PROVE  /\ before[key].tier <= after[key].tier
             /\ before[key].tier \in Tiers /\ after[key].tier \in Tiers
  <2> DEFINE spec == SpecOf(root, request, key)
  <2>1. /\ key \in DOMAIN root
        /\ before[key].tier = EffectiveTier(spec, semantics[key], registry)
        /\ after[key].tier = EffectiveTier(spec, semantics[key], wider)
    BY <1>1, DerivedEntry
  <2>2. spec \in CapabilitySpec /\ semantics[key] \in ToolSemantics
    BY <2>1, SpecIsTighter DEF Asking
  <2> QED BY <2>1, <2>2, UserLabelsTightenTier, TierIsTier
<1>3. ASSUME NEW key \in DOMAIN before, before[key].tier = Forbidden
      PROVE  after[key].tier = Forbidden
  <2> HIDE DEF before, after
  <2> QED BY <1>2, <1>3 DEF Tiers, Automatic, Forbidden
<1>4. Registered(after, tools, capabilityOf) \subseteq Registered(before, tools, capabilityOf)
  <2> HIDE DEF before, after
  <2> QED BY <1>1, <1>3 DEF Registered
<1> QED BY <1>1, <1>2, <1>4

\* Whatever was granted and asked for, a run has no tool to write an asset that is in the reach
\* of its derived capability by name and is labelled secret (the hard floor of assessQuestions).
THEOREM SecretIsNeverWritten ==
    ASSUME NEW root, NEW request, NEW semantics, Asking(root, request, semantics),
           NEW registry \in SUBSET AssetLabel, NEW tools, NEW capabilityOf,
           NEW tool \in Registered(Derive(root, request, semantics, registry), tools, capabilityOf),
           NEW asset \in Named(Derive(root, request, semantics, registry)
                                  [capabilityOf[tool]].spec),
           LabelOf(registry, asset) = Secret
    PROVE  ~semantics[capabilityOf[tool]].writes
<1> DEFINE policy == Derive(root, request, semantics, registry)
           key == capabilityOf[tool]
           spec == SpecOf(root, request, key)
<1>1. key \in DOMAIN policy /\ policy[key].tier # Forbidden
  BY DEF Registered
<1>2. /\ key \in DOMAIN root /\ policy[key].spec = spec
      /\ policy[key].tier = EffectiveTier(spec, semantics[key], registry)
  BY <1>1, DerivedEntry
<1>3. spec \in CapabilitySpec
  BY <1>2, SpecIsTighter
<1>4. asset \in Named(spec)
  BY <1>2
<1>5. TargetLabel(spec, registry) = Secret
  <2>1. /\ TargetLabel(spec, registry) \in Labels
        /\ LabelOf(registry, asset) <= TargetLabel(spec, registry)
    BY <1>3, <1>4, TargetIsLabel
  <2> QED BY <2>1 DEF Labels, Public, Secret
<1>6. ASSUME semantics[key].writes PROVE FALSE
  <2>1. HardFloor(spec, semantics[key], registry) = Forbidden
    BY <1>5, <1>6 DEF HardFloor
  <2>2. /\ EffectiveTier(spec, semantics[key], registry) \in Tiers
        /\ Forbidden <= EffectiveTier(spec, semantics[key], registry)
    BY <1>3, <2>1, TierIsTier
  <2>3. EffectiveTier(spec, semantics[key], registry) = Forbidden
    BY <2>2 DEF Tiers, Automatic, Forbidden
  <2> QED BY <1>1, <1>2, <2>3
<1> QED BY <1>6

-------------------------------------------------------------------------------
(* Delegation. *)

\* Who exists was made by somebody who exists, one step further from the person.
Descends(a) ==
    state[a] # "none" =>
        /\ state[parent[a]] # "none"
        /\ ceiling[a] <= ceiling[parent[a]] /\ ceiling[a] <= ceiling[Root]
        /\ depth[a] = depth[parent[a]] + 1

DelInv ==
    /\ DelTypeOK
    /\ state[Root] # "none" /\ depth[Root] = 0
    /\ \A a \in Agents \ {Root} : Descends(a)

LEMMA DelInitInv == DelInit => DelInv
<1> SUFFICES ASSUME DelInit PROVE DelInv
  OBVIOUS
<1>1. DelTypeOK
  BY DelegationAssumption DEF DelInit, DelTypeOK, MaxDepth, NoShare
<1>2. state[Root] # "none" /\ depth[Root] = 0 /\ \A a \in Agents \ {Root} : Descends(a)
  BY DelegationAssumption DEF DelInit, Descends
<1> QED BY <1>1, <1>2 DEF DelInv

LEMMA StrictestOfThree ==
    ASSUME NEW a \in Levels, NEW b \in Levels, NEW c \in Levels
    PROVE  Strictest({a, b, c}) \in Levels /\ Strictest({a, b, c}) <= a
<1>1. a \in Nat /\ b \in Nat /\ c \in Nat
  BY DelegationAssumption
<1>2. \E l \in {a, b, c} : \A m \in {a, b, c} : l <= m
  <2>1. CASE a <= b /\ a <= c
    BY <1>1, <2>1
  <2>2. CASE b <= a /\ b <= c
    BY <1>1, <2>2
  <2>3. CASE c <= a /\ c <= b
    BY <1>1, <2>3
  <2> QED BY <1>1, <2>1, <2>2, <2>3
<1>3. Strictest({a, b, c}) \in {a, b, c} /\ \A m \in {a, b, c} : Strictest({a, b, c}) <= m
  BY <1>2 DEF Strictest
<1> QED BY <1>3

LEMMA DelegateStep ==
    ASSUME DelInv, NEW p \in Agents, NEW S \in SUBSET Agents, Delegate(p, S)
    PROVE  DelInv'
<1>0. DelTypeOK /\ state[Root] # "none" /\ depth[Root] = 0
  BY DEF DelInv
<1>1. PICK given \in [S -> Shares], role \in [S -> Levels], proposed \in [S -> Levels] :
        /\ Affordable(p, given, S)
        /\ \A a \in S : proposed[a] <= ceiling[p]
        /\ ceiling' = [a \in Agents |->
                        IF a \in S THEN Strictest({ceiling[p], role[a], proposed[a]})
                        ELSE ceiling[a]]
        /\ share' = [a \in Agents |-> IF a \in S THEN given[a] ELSE share[a]]
  BY DEF Delegate
<1>2. /\ state' = [a \in Agents |-> IF a \in S THEN "running" ELSE state[a]]
      /\ parent' = [a \in Agents |-> IF a \in S THEN p ELSE parent[a]]
      /\ depth' = [a \in Agents |-> IF a \in S THEN depth[p] + 1 ELSE depth[a]]
      /\ UNCHANGED <<edges, forgotten, stops>>
      /\ state[p] = "running" /\ depth[p] < MaxDepth
      /\ \A a \in S : state[a] = "none"
  BY DEF Delegate
<1>3. \A a \in S : /\ Strictest({ceiling[p], role[a], proposed[a]}) \in Levels
                   /\ Strictest({ceiling[p], role[a], proposed[a]}) <= ceiling[p]
  BY <1>0, StrictestOfThree DEF DelTypeOK
<1>4. p \notin S /\ Root \notin S /\ Root \in Agents
  BY <1>0, <1>2, DelegationAssumption
<1>5. ceiling' \in [Agents -> Levels]
  <2> HIDE DEF Strictest
  <2> QED BY <1>0, <1>1, <1>3 DEF DelTypeOK
<1>6. share' \in [Agents -> Nat]
  BY <1>0, <1>1, DelegationAssumption DEF DelTypeOK
<1>7. /\ state' \in [Agents -> {"none", "running", "ended"}] /\ parent' \in [Agents -> Agents]
  BY <1>0, <1>2 DEF DelTypeOK
<1>8. depth' \in [Agents -> 0 .. MaxDepth]
  BY <1>0, <1>2 DEF DelTypeOK, MaxDepth
<1>9. DelTypeOK'
  BY <1>0, <1>2, <1>5, <1>6, <1>7, <1>8 DEF DelTypeOK
<1>10. state'[Root] # "none" /\ depth'[Root] = 0
  BY <1>0, <1>2, <1>4
<1>11. ceiling'[p] = ceiling[p] /\ ceiling'[Root] = ceiling[Root] /\ ceiling[p] <= ceiling[Root]
  <2>1. ceiling'[p] = ceiling[p] /\ ceiling'[Root] = ceiling[Root]
    BY <1>1, <1>4
  <2>2. CASE p = Root
    <3>1. ceiling[Root] \in Nat
      BY <1>0, DelegationAssumption DEF DelTypeOK
    <3> QED BY <2>1, <2>2, <3>1
  <2>3. CASE p # Root
    BY <1>2, <2>1, <2>3 DEF DelInv, Descends
  <2> QED BY <2>2, <2>3, <2>1
<1>12. ASSUME NEW a \in Agents \ {Root} PROVE Descends(a)'
  <2>1. CASE a \in S
    <3>1. parent'[a] = p /\ depth'[a] = depth[p] + 1 /\ depth'[p] = depth[p] /\ state'[p] = "running"
      BY <1>2, <1>4, <2>1
    <3>2. ceiling'[a] <= ceiling[p]
      BY <1>1, <1>3, <2>1
    <3>3. ceiling'[a] \in Nat /\ ceiling[p] \in Nat /\ ceiling[Root] \in Nat
      BY <1>0, <1>4, <1>5, DelegationAssumption DEF DelTypeOK
    <3>4. ceiling'[a] <= ceiling[Root]
      BY <1>11, <3>2, <3>3
    <3> QED BY <1>11, <3>1, <3>2, <3>4 DEF Descends
  <2>2. CASE a \notin S /\ state[a] # "none"
    <3>1. Descends(a) /\ parent[a] \in Agents
      BY <1>0 DEF DelInv, DelTypeOK
    <3>2. parent[a] \notin S
      BY <1>2, <2>2, <3>1 DEF Descends
    <3>3. /\ parent'[a] = parent[a] /\ state'[a] = state[a] /\ depth'[a] = depth[a]
          /\ state'[parent[a]] = state[parent[a]] /\ depth'[parent[a]] = depth[parent[a]]
      BY <1>2, <2>2, <3>1, <3>2
    <3>4. ceiling'[a] = ceiling[a] /\ ceiling'[parent[a]] = ceiling[parent[a]]
      BY <1>1, <2>2, <3>1, <3>2
    <3> QED BY <1>11, <3>1, <3>3, <3>4 DEF Descends
  <2>3. CASE a \notin S /\ state[a] = "none"
    BY <1>2, <2>3 DEF Descends
  <2> QED BY <2>1, <2>2, <2>3
<1> QED BY <1>9, <1>10, <1>12 DEF DelInv

\* Nothing else makes an agent, or changes what it was given.
LEMMA RowsAreKept ==
    ASSUME DelInv, DelTypeOK', UNCHANGED <<parent, depth, ceiling>>,
           \A a \in Agents : state'[a] = "none" <=> state[a] = "none"
    PROVE  DelInv'
<1>1. Root \in Agents
  BY DelegationAssumption
<1>2. \A a \in Agents : parent[a] \in Agents
  BY DEF DelInv, DelTypeOK
<1> QED BY <1>1, <1>2 DEF DelInv, Descends

LEMMA DelStep == DelInv /\ [DelNext]_delVars => DelInv'
<1> SUFFICES ASSUME DelInv, [DelNext]_delVars PROVE DelInv'
  OBVIOUS
<1>0. DelTypeOK /\ depth[Root] = 0 /\ Root \in Agents
  BY DelegationAssumption DEF DelInv
<1>1. ASSUME NEW a \in Agents, RunOver(a) PROVE DelInv'
  <2>1. DelTypeOK'
    BY <1>0, <1>1 DEF RunOver, DelTypeOK, goalRows
  <2>2. \A b \in Agents : state'[b] = "none" <=> state[b] = "none"
    BY <1>0, <1>1 DEF RunOver, DelTypeOK
  <2> QED BY <1>1, <2>1, <2>2, RowsAreKept DEF RunOver, goalRows
<1>2. ASSUME NEW a \in Agents, RunThrows(a) PROVE DelInv'
  <2>1. DelTypeOK'
    BY <1>0, <1>2 DEF RunThrows, DelTypeOK, goalRows
  <2>2. \A b \in Agents : state'[b] = "none" <=> state[b] = "none"
    BY <1>0, <1>2 DEF RunThrows, DelTypeOK
  <2> QED BY <1>2, <2>1, <2>2, RowsAreKept DEF RunThrows, goalRows
<1>3. CASE ProcessStops
  <2>1. DelTypeOK'
    BY <1>0, <1>3 DEF ProcessStops, DelTypeOK, goalRows
  <2>2. \A b \in Agents : state'[b] = "none" <=> state[b] = "none"
    BY <1>0, <1>3 DEF ProcessStops, DelTypeOK
  <2> QED BY <1>3, <2>1, <2>2, RowsAreKept DEF ProcessStops, goalRows
<1>4. CASE ResumeRoot
  <2>1. depth' = depth
    BY <1>0, <1>4 DEF ResumeRoot, DelTypeOK
  <2>2. DelTypeOK'
    BY <1>0, <1>4, <2>1 DEF ResumeRoot, DelTypeOK
  <2>3. \A b \in Agents : state'[b] = "none" <=> state[b] = "none"
    BY <1>0, <1>4 DEF ResumeRoot, DelTypeOK
  <2> QED BY <1>4, <2>1, <2>2, <2>3, RowsAreKept DEF ResumeRoot
<1>5. CASE UNCHANGED delVars
  <2>1. DelTypeOK'
    BY <1>0, <1>5 DEF delVars, DelTypeOK
  <2> QED BY <1>5, <2>1, RowsAreKept DEF delVars
<1> QED BY <1>1, <1>2, <1>3, <1>4, <1>5, DelegateStep DEF DelNext

\* No child may do more than any above it, and nobody is further than two delegations from the
\* person, through any nesting of calls, throws, ends of the process and resumes
\* (delegateAgents, strictest).
THEOREM CeilingIsNeverRaised == DelSpec => []CeilingNeverRaised
<1>1. DelInv => CeilingNeverRaised
  <2> SUFFICES ASSUME DelInv, NEW a \in Agents \ {Root}, state[a] # "none"
               PROVE  /\ ceiling[a] <= ceiling[parent[a]] /\ ceiling[a] <= ceiling[Root]
                      /\ depth[a] = depth[parent[a]] + 1 /\ depth[a] <= MaxDepth
    BY DEF CeilingNeverRaised
  <2>1. Descends(a) /\ depth[a] \in 0 .. MaxDepth
    BY DEF DelInv, DelTypeOK
  <2> QED BY <2>1 DEF Descends, MaxDepth
<1> QED BY <1>1, DelInitInv, DelStep, PTL DEF DelSpec

-------------------------------------------------------------------------------
(* The sum of the shares of several.  A set of finite sets has one that       *)
(* includes no other, so that what is claimed can be assumed of its subsets.  *)

LEMMA SmallestSet ==
    ASSUME NEW S, IsFiniteSet(S), NEW C \in SUBSET SUBSET S, C # {}
    PROVE  \E s \in C : \A t \in C : t \subseteq s => t = s
<1>1. C \subseteq FiniteSubsetsOf(S)
  BY FS_Subset DEF FiniteSubsetsOf
<1>2. PICK s \in C : \A t \in C : ~(<<t, s>> \in StrictSubsetOrdering(S))
  BY <1>1, FS_StrictSubsetOrderingWellFounded, WFMin
<1>3. ASSUME NEW t \in C, t \subseteq s, t # s PROVE FALSE
  <2>1. <<t, s>> \in StrictSubsetOrdering(S)
    BY <1>3 DEF StrictSubsetOrdering
  <2> QED BY <1>2, <2>1
<1> QED BY <1>2, <1>3

OneOf(s) == CHOOSE x \in s : TRUE

Sums(g, f, S) ==
    g = [s \in SUBSET S |-> IF s = {} THEN 0 ELSE f[OneOf(s)] + g[s \ {OneOf(s)}]]

\* MapThenSumSet of the values of f.
Total(f, S) == (CHOOSE g : Sums(g, f, S))[S]

LEMMA OneIsOf == \A s : s # {} => OneOf(s) \in s
  BY DEF OneOf

LEMMA SumsAt ==
    ASSUME NEW f, NEW S, NEW g, Sums(g, f, S), NEW s \in SUBSET S
    PROVE  /\ s = {} => g[s] = 0
           /\ s # {} => g[s] = f[OneOf(s)] + g[s \ {OneOf(s)}]
<1> DEFINE At(t) == IF t = {} THEN 0 ELSE f[OneOf(t)] + g[t \ {OneOf(t)}]
<1>1. g = [t \in SUBSET S |-> At(t)]
  BY DEF Sums
<1>2. g[s] = At(s)
  <2> HIDE DEF At
  <2> QED BY <1>1
<1> QED BY <1>2

LEMMA SumsAgree ==
    ASSUME NEW f, NEW S, IsFiniteSet(S), NEW g, Sums(g, f, S),
           NEW T \in SUBSET S, NEW h, Sums(h, f, T)
    PROVE  \A s \in SUBSET T : g[s] = h[s]
<1> DEFINE C == {s \in SUBSET T : g[s] # h[s]}
<1>1. C = {}
  <2> SUFFICES ASSUME C # {} PROVE FALSE
    OBVIOUS
  <2>1. IsFiniteSet(T) /\ C \in SUBSET SUBSET T
    BY FS_Subset
  <2>2. PICK s \in C : \A t \in C : t \subseteq s => t = s
    <3> HIDE DEF C
    <3> QED BY <2>1, SmallestSet
  <2>3. s \in SUBSET T /\ s \in SUBSET S /\ g[s] # h[s]
    OBVIOUS
  <2>4. s # {}
    BY <2>3, SumsAt
  <2>5. OneOf(s) \in s
    BY <2>4, OneIsOf
  <2>6. g[s \ {OneOf(s)}] = h[s \ {OneOf(s)}]
    <3>1. s \ {OneOf(s)} \in SUBSET T /\ s \ {OneOf(s)} \subseteq s /\ s \ {OneOf(s)} # s
      BY <2>3, <2>5
    <3> QED BY <2>2, <3>1
  <2> QED BY <2>3, <2>4, <2>6, SumsAt
<1> QED BY <1>1

LEMMA SumsExist ==
    ASSUME NEW f, NEW S, IsFiniteSet(S)
    PROVE  \E g : Sums(g, f, S)
<1> DEFINE Has(T) == \E g : Sums(g, f, T)
           C == {T \in SUBSET S : ~Has(T)}
           G(T) == CHOOSE g : Sums(g, f, T)
<1>1. C = {}
  <2> SUFFICES ASSUME C # {} PROVE FALSE
    OBVIOUS
  <2>1. PICK T \in C : \A t \in C : t \subseteq T => t = T
    <3> HIDE DEF C
    <3>1. C \in SUBSET SUBSET S
      BY DEF C
    <3> QED BY <3>1, SmallestSet
  <2>2. T \in SUBSET S /\ ~Has(T) /\ IsFiniteSet(T)
    BY FS_Subset
  <2>3. ASSUME NEW u \in SUBSET T, u # T PROVE Sums(G(u), f, u)
    <3>1. Has(u)
      <4> HIDE DEF Has
      <4> QED BY <2>1, <2>2, <2>3
    <3> QED BY <3>1
  <2> DEFINE At(t) == IF t = {} THEN 0 ELSE f[OneOf(t)] + G(t \ {OneOf(t)})[t \ {OneOf(t)}]
             V == [t \in SUBSET T |-> At(t)]
  <2> HIDE DEF Has, C, G
  <2>4. ASSUME NEW u \in SUBSET T, u # T PROVE V[u] = G(u)[u]
    <3>1. Sums(G(u), f, u) /\ IsFiniteSet(u)
      BY <2>2, <2>3, <2>4, FS_Subset
    <3>2. CASE u = {}
      BY <3>1, <3>2, SumsAt
    <3>3. CASE u # {}
      <4> DEFINE r == u \ {OneOf(u)}
      <4>1. OneOf(u) \in u
        BY <3>3, OneIsOf
      <4>2. r \in SUBSET u /\ r \in SUBSET T /\ r # T
        BY <4>1
      <4>3. Sums(G(r), f, r)
        <5> HIDE DEF r
        <5> QED BY <2>3, <4>2
      <4>4. G(u)[r] = G(r)[r]
        <5> HIDE DEF r
        <5> QED BY <3>1, <4>2, <4>3, SumsAgree
      <4>5. G(u)[u] = f[OneOf(u)] + G(u)[r]
        BY <3>1, <3>3, SumsAt
      <4>6. V[u] = f[OneOf(u)] + G(r)[r]
        BY <3>3
      <4> QED BY <4>4, <4>5, <4>6
    <3> QED BY <3>2, <3>3
  <2>5. ASSUME NEW t \in SUBSET T
        PROVE  At(t) = IF t = {} THEN 0 ELSE f[OneOf(t)] + V[t \ {OneOf(t)}]
    <3>1. CASE t = {}
      BY <3>1
    <3>2. CASE t # {}
      <4>1. OneOf(t) \in t
        BY <3>2, OneIsOf
      <4>2. t \ {OneOf(t)} \in SUBSET T /\ t \ {OneOf(t)} # T
        BY <4>1
      <4>3. V[t \ {OneOf(t)}] = G(t \ {OneOf(t)})[t \ {OneOf(t)}]
        <5> HIDE DEF V
        <5> QED BY <2>4, <4>2
      <4> HIDE DEF V
      <4> QED BY <3>2, <4>3
    <3> QED BY <3>1, <3>2
  <2>6. V = [t \in SUBSET T |-> IF t = {} THEN 0 ELSE f[OneOf(t)] + V[t \ {OneOf(t)}]]
    <3>1. V = [t \in SUBSET T |-> V[t]]
      OBVIOUS
    <3>2. ASSUME NEW t \in SUBSET T PROVE V[t] = At(t)
      OBVIOUS
    <3> HIDE DEF V, At
    <3> QED BY <2>5, <3>1, <3>2
  <2>7. Sums(V, f, T)
    <3> HIDE DEF V
    <3> QED BY <2>6 DEF Sums
  <2>8. Has(T)
    <3> HIDE DEF V
    <3> QED BY <2>7 DEF Has
  <2> QED BY <2>2, <2>8
<1>2. Has(S)
  <2> HIDE DEF Has
  <2> QED BY <1>1
<1> QED BY <1>2

LEMMA TotalIs ==
    ASSUME NEW f, NEW S, IsFiniteSet(S)
    PROVE  /\ S = {} => Total(f, S) = 0
           /\ S # {} => /\ OneOf(S) \in S
                        /\ Total(f, S) = f[OneOf(S)] + Total(f, S \ {OneOf(S)})
<1> DEFINE G(T) == CHOOSE g : Sums(g, f, T)
<1>1. ASSUME NEW T, IsFiniteSet(T) PROVE Sums(G(T), f, T) /\ Total(f, T) = G(T)[T]
  <2>1. \E g : Sums(g, f, T)
    BY <1>1, SumsExist
  <2> QED BY <2>1 DEF Total
<1> HIDE DEF G
<1>2. Sums(G(S), f, S) /\ Total(f, S) = G(S)[S]
  BY <1>1
<1>3. CASE S = {}
  BY <1>2, <1>3, SumsAt
<1>4. CASE S # {}
  <2> DEFINE r == S \ {OneOf(S)}
  <2>1. OneOf(S) \in S
    BY <1>4, OneIsOf
  <2>2. r \in SUBSET S /\ IsFiniteSet(r)
    BY FS_Subset
  <2>3. G(S)[S] = f[OneOf(S)] + G(S)[r]
    BY <1>2, <1>4, SumsAt
  <2> HIDE DEF r
  <2>4. Sums(G(r), f, r) /\ Total(f, r) = G(r)[r]
    BY <1>1, <2>2
  <2>5. G(S)[r] = G(r)[r]
    BY <1>2, <2>2, <2>4, SumsAgree
  <2> QED BY <1>2, <1>4, <2>1, <2>3, <2>4, <2>5 DEF r
<1> QED BY <1>3, <1>4

\* A sum of natural numbers is one, and is of the values of its elements only.
LEMMA TotalIsNat ==
    ASSUME NEW f, NEW S, IsFiniteSet(S), \A a \in S : f[a] \in Nat
    PROVE  Total(f, S) \in Nat
<1> DEFINE C == {s \in SUBSET S : Total(f, s) \notin Nat}
<1>1. C = {}
  <2> SUFFICES ASSUME C # {} PROVE FALSE
    OBVIOUS
  <2>1. PICK s \in C : \A t \in C : t \subseteq s => t = s
    <3> HIDE DEF C
    <3>1. C \in SUBSET SUBSET S
      BY DEF C
    <3> QED BY <3>1, SmallestSet
  <2>2. s \in SUBSET S /\ Total(f, s) \notin Nat /\ IsFiniteSet(s)
    BY FS_Subset
  <2>3. s # {}
    <3>1. Total(f, {}) = 0
      BY FS_EmptySet, TotalIs
    <3> QED BY <2>2, <3>1
  <2>4. OneOf(s) \in s /\ Total(f, s) = f[OneOf(s)] + Total(f, s \ {OneOf(s)})
    BY <2>2, <2>3, TotalIs
  <2>5. Total(f, s \ {OneOf(s)}) \in Nat
    <3>1. s \ {OneOf(s)} \in SUBSET S /\ s \ {OneOf(s)} \subseteq s /\ s \ {OneOf(s)} # s
      BY <2>2, <2>4
    <3> QED BY <2>1, <3>1
  <2>6. f[OneOf(s)] \in Nat
    BY <2>2, <2>4
  <2> QED BY <2>2, <2>4, <2>5, <2>6
<1> QED BY <1>1

LEMMA TotalSame ==
    ASSUME NEW f, NEW g, NEW S, IsFiniteSet(S), \A a \in S : f[a] = g[a]
    PROVE  Total(f, S) = Total(g, S)
<1> DEFINE C == {s \in SUBSET S : Total(f, s) # Total(g, s)}
<1>1. C = {}
  <2> SUFFICES ASSUME C # {} PROVE FALSE
    OBVIOUS
  <2>1. PICK s \in C : \A t \in C : t \subseteq s => t = s
    <3> HIDE DEF C
    <3>1. C \in SUBSET SUBSET S
      BY DEF C
    <3> QED BY <3>1, SmallestSet
  <2>2. s \in SUBSET S /\ Total(f, s) # Total(g, s) /\ IsFiniteSet(s)
    BY FS_Subset
  <2>3. s # {}
    BY <2>2, TotalIs
  <2>4. /\ OneOf(s) \in s /\ Total(f, s) = f[OneOf(s)] + Total(f, s \ {OneOf(s)})
        /\ Total(g, s) = g[OneOf(s)] + Total(g, s \ {OneOf(s)})
    BY <2>2, <2>3, TotalIs
  <2>5. Total(f, s \ {OneOf(s)}) = Total(g, s \ {OneOf(s)})
    <3>1. s \ {OneOf(s)} \in SUBSET S /\ s \ {OneOf(s)} \subseteq s /\ s \ {OneOf(s)} # s
      BY <2>2, <2>4
    <3> QED BY <2>1, <3>1
  <2> QED BY <2>2, <2>4, <2>5
<1> QED BY <1>1

\* Any element may be counted first.
LEMMA TotalWith ==
    ASSUME NEW f, NEW S, IsFiniteSet(S), \A a \in S : f[a] \in Nat, NEW y \in S
    PROVE  Total(f, S) = f[y] + Total(f, S \ {y})
<1> DEFINE Any(s) == \A a \in s : Total(f, s) = f[a] + Total(f, s \ {a})
           C == {s \in SUBSET S : ~Any(s)}
<1>1. C = {}
  <2> SUFFICES ASSUME C # {} PROVE FALSE
    OBVIOUS
  <2>1. PICK s \in C : \A t \in C : t \subseteq s => t = s
    <3> HIDE DEF C
    <3>1. C \in SUBSET SUBSET S
      BY DEF C
    <3> QED BY <3>1, SmallestSet
  <2>2. s \in SUBSET S /\ ~Any(s) /\ IsFiniteSet(s)
    BY FS_Subset
  <2>3. PICK a \in s : Total(f, s) # f[a] + Total(f, s \ {a})
    BY <2>2
  <2>4. \A t \in SUBSET s : t # s => Any(t)
    <3> HIDE DEF Any
    <3> QED BY <2>1, <2>2
  <2>5. PICK x \in s : x = OneOf(s) /\ Total(f, s) = f[x] + Total(f, s \ {x})
    BY <2>2, <2>3, TotalIs
  <2>6. x # a
    BY <2>3, <2>5
  <2> DEFINE r == (s \ {x}) \ {a}
  <2>7. Total(f, s \ {x}) = f[a] + Total(f, r)
    <3>1. s \ {x} \in SUBSET s /\ s \ {x} # s /\ a \in s \ {x}
      BY <2>5, <2>6
    <3> QED BY <2>4, <3>1
  <2>8. Total(f, s \ {a}) = f[x] + Total(f, r)
    <3>1. s \ {a} \in SUBSET s /\ s \ {a} # s /\ x \in s \ {a} /\ (s \ {a}) \ {x} = r
      BY <2>3, <2>5, <2>6
    <3> HIDE DEF r
    <3> QED BY <2>4, <3>1
  <2>9. f[x] \in Nat /\ f[a] \in Nat /\ Total(f, r) \in Nat
    <3>1. f[x] \in Nat /\ f[a] \in Nat
      BY <2>2, <2>3, <2>5
    <3>2. r \in SUBSET s /\ IsFiniteSet(r) /\ \A b \in r : f[b] \in Nat
      BY <2>2, FS_Subset
    <3> HIDE DEF r
    <3> QED BY <3>1, <3>2, TotalIsNat
  <2> HIDE DEF r
  <2> QED BY <2>3, <2>5, <2>7, <2>8, <2>9
<1>2. Any(S)
  <2> HIDE DEF Any
  <2> QED BY <1>1
<1> QED BY <1>2

LEMMA TotalOfTwo ==
    ASSUME NEW f, NEW S, IsFiniteSet(S), NEW T, IsFiniteSet(T), S \cap T = {},
           \A a \in S \cup T : f[a] \in Nat
    PROVE  Total(f, S \cup T) = Total(f, S) + Total(f, T)
<1> DEFINE C == {t \in SUBSET T : Total(f, S \cup t) # Total(f, S) + Total(f, t)}
<1>1. C = {}
  <2> SUFFICES ASSUME C # {} PROVE FALSE
    OBVIOUS
  <2>1. PICK t \in C : \A u \in C : u \subseteq t => u = t
    <3> HIDE DEF C
    <3>1. C \in SUBSET SUBSET T
      BY DEF C
    <3> QED BY <3>1, SmallestSet
  <2>2. /\ t \in SUBSET T /\ Total(f, S \cup t) # Total(f, S) + Total(f, t) /\ IsFiniteSet(t)
        /\ IsFiniteSet(S \cup t) /\ Total(f, S) \in Nat
    BY FS_Subset, FS_Union, TotalIsNat
  <2>3. t # {}
    <3> SUFFICES ASSUME t = {} PROVE FALSE
      OBVIOUS
    <3>1. S \cup t = S /\ Total(f, t) = 0
      BY <2>2, TotalIs
    <3> QED BY <2>2, <3>1
  <2>4. PICK x \in t : TRUE
    BY <2>3
  <2> DEFINE r == t \ {x}
  <2>5. r \in SUBSET T /\ r \subseteq t /\ r # t /\ (S \cup t) \ {x} = S \cup r
    BY <2>2, <2>4
  <2>6. Total(f, S \cup r) = Total(f, S) + Total(f, r)
    BY <2>1, <2>5
  <2>7. Total(f, t) = f[x] + Total(f, r)
    BY <2>2, <2>4, TotalWith
  <2>8. Total(f, S \cup t) = f[x] + Total(f, S \cup r)
    <3>1. x \in S \cup t /\ \A a \in S \cup t : f[a] \in Nat
      BY <2>2, <2>4
    <3> HIDE DEF r
    <3> QED BY <2>2, <2>5, <3>1, TotalWith
  <2>9. f[x] \in Nat /\ Total(f, r) \in Nat
    <3>1. IsFiniteSet(r) /\ \A a \in r : f[a] \in Nat
      BY <2>2, <2>5, FS_Subset
    <3> HIDE DEF r
    <3> QED BY <2>2, <2>4, <3>1, TotalIsNat
  <2> HIDE DEF r
  <2> QED BY <2>2, <2>6, <2>7, <2>8, <2>9
<1> QED BY <1>1

-------------------------------------------------------------------------------
(* The budgets. *)

Offspring(p) == {a \in Agents \ {Root} : state[a] # "none" /\ parent[a] = p}

\* All but those who lost a child know what they gave: to children that have ended, by edges.
ShareInv ==
    /\ IsFiniteSet({a \in Agents : state[a] # "none"})
    /\ \A a \in edges : a # Root /\ state[a] = "ended"
    /\ \A a \in Agents \ {Root} :
        state[a] = "ended" /\ parent[a] \notin forgotten => a \in edges
    /\ \A p \in Agents \ forgotten : share[p] # NoShare => Total(share, Offspring(p)) <= share[p]

LEMMA OffspringFinite ==
    ASSUME ShareInv, NEW p
    PROVE  IsFiniteSet(Offspring(p))
<1>1. Offspring(p) \in SUBSET {a \in Agents : state[a] # "none"}
  BY DEF Offspring
<1> QED BY <1>1, FS_Subset DEF ShareInv

LEMMA ShareInitInv == DelInit => ShareInv
<1> SUFFICES ASSUME DelInit PROVE ShareInv
  OBVIOUS
<1>1. {a \in Agents : state[a] # "none"} = {Root}
  BY DelegationAssumption DEF DelInit
<1>2. IsFiniteSet({a \in Agents : state[a] # "none"})
  BY <1>1, FS_Singleton
<1>3. \A a \in Agents \ {Root} : state[a] = "none"
  BY DEF DelInit
<1>4. ASSUME NEW p \in Agents, share[p] # NoShare PROVE Total(share, Offspring(p)) <= share[p]
  <2>1. Offspring(p) = {} /\ IsFiniteSet({})
    BY <1>3, FS_EmptySet DEF Offspring
  <2>2. Total(share, Offspring(p)) = 0
    BY <2>1, TotalIs
  <2>3. share[p] \in Nat
    BY <1>4, DelegationAssumption DEF DelInit, NoShare
  <2> QED BY <2>2, <2>3
<1>5. edges = {}
  BY DEF DelInit
<1> QED BY <1>2, <1>3, <1>4, <1>5 DEF ShareInv

\* What was given earlier and what is given now is within the budget.
LEMMA GivenWithin ==
    ASSUME DelInv, ShareInv, NEW p \in Agents \ forgotten, NEW S \in SUBSET Agents,
           IsFiniteSet(S), \A a \in S : state[a] = "none", ~Delegating(p), share[p] # NoShare,
           NEW given \in [S -> Shares], Affordable(p, given, S),
           NEW after, \A a \in S : after[a] = given[a],
           \A a \in Agents \ S : after[a] = share[a]
    PROVE  Total(after, Offspring(p) \cup S) <= share[p]
<1>1. Offspring(p) = {a \in edges : parent[a] = p}
  <2>1. \A a \in Offspring(p) : state[a] = "ended"
    BY DEF Delegating, ChildrenOf, Offspring, DelInv, DelTypeOK
  <2> QED BY <2>1 DEF ShareInv, Offspring, DelInv, DelTypeOK
<1>2. Total(share, Offspring(p)) + Total(given, S) <= share[p]
  <2>1. MapThenSumSet(LAMBDA a : share[a], {a \in edges : parent[a] = p})
            + MapThenSumSet(LAMBDA a : given[a], S) <= share[p]
    BY DEF Affordable
  <2>2. Total(share, {a \in edges : parent[a] = p}) + Total(given, S) <= share[p]
    BY <2>1 DEF MapThenSumSet, MapThenFoldSet, Total, Sums, OneOf
  <2> QED BY <1>1, <2>2
<1>3. /\ IsFiniteSet(Offspring(p)) /\ Offspring(p) \subseteq Agents /\ Offspring(p) \cap S = {}
  <2>1. IsFiniteSet(Offspring(p))
    BY OffspringFinite
  <2> QED BY <2>1 DEF Offspring
<1>4. Total(after, Offspring(p)) = Total(share, Offspring(p))
  BY <1>3, TotalSame
<1>5. Total(after, S) = Total(given, S)
  BY TotalSame
<1>6. \A a \in Offspring(p) \cup S : after[a] \in Nat
  BY <1>3, DelegationAssumption DEF DelInv, DelTypeOK
<1>7. Total(after, Offspring(p) \cup S) = Total(after, Offspring(p)) + Total(after, S)
  BY <1>3, <1>6, TotalOfTwo
<1> QED BY <1>2, <1>4, <1>5, <1>7

LEMMA DelegateShares ==
    ASSUME DelInv, ShareInv, NEW p \in Agents, NEW S \in SUBSET Agents, Delegate(p, S)
    PROVE  ShareInv'
<1>1. PICK given \in [S -> Shares] :
        /\ Affordable(p, given, S)
        /\ share' = [a \in Agents |-> IF a \in S THEN given[a] ELSE share[a]]
  BY DEF Delegate
<1>2. /\ state' = [a \in Agents |-> IF a \in S THEN "running" ELSE state[a]]
      /\ parent' = [a \in Agents |-> IF a \in S THEN p ELSE parent[a]]
      /\ UNCHANGED <<edges, forgotten>>
      /\ state[p] = "running" /\ ~Delegating(p) /\ IsFiniteSet(S)
      /\ \A a \in S : state[a] = "none"
  BY DEF Delegate
<1>3. p \notin S /\ Root \notin S
  BY <1>2 DEF DelInv
<1>4. IsFiniteSet({a \in Agents : state[a] # "none"}')
  <2>1. {a \in Agents : state[a] # "none"}' = {a \in Agents : state[a] # "none"} \cup S
    BY <1>2
  <2>2. IsFiniteSet({a \in Agents : state[a] # "none"})
    BY DEF ShareInv
  <2>3. IsFiniteSet({a \in Agents : state[a] # "none"} \cup S)
    BY <1>2, <2>2, FS_Union
  <2> QED BY <2>1, <2>3
<1>5. \A a \in edges' : a # Root /\ state'[a] = "ended"
  BY <1>2 DEF ShareInv, DelInv, DelTypeOK
<1>6. \A a \in Agents \ {Root} : state'[a] = "ended" /\ parent'[a] \notin forgotten' => a \in edges'
  BY <1>2 DEF ShareInv
<1>7. ASSUME NEW q \in Agents \ forgotten', share'[q] # NoShare
      PROVE  Total(share', Offspring(q)') <= share'[q]
  <2>1. CASE q = p
    <3>1. Offspring(q)' = Offspring(p) \cup S
      BY <1>2, <1>3, <2>1 DEF Offspring
    <3>2. share'[q] = share[p]
      BY <1>1, <1>3, <2>1
    <3>3. (\A a \in S : share'[a] = given[a]) /\ (\A a \in Agents \ S : share'[a] = share[a])
      BY <1>1
    <3>4. p \in Agents \ forgotten /\ share[p] # NoShare
      BY <1>2, <1>7, <2>1, <3>2
    <3>5. Total(share', Offspring(p) \cup S) <= share[p]
      BY <1>1, <1>2, <3>3, <3>4, GivenWithin
    <3> QED BY <3>1, <3>2, <3>5
  <2>2. CASE q \in S
    <3>1. Offspring(q)' = {}
      BY <1>2, <1>3, <2>2 DEF Offspring, DelInv, Descends
    <3>2. Total(share', {}) = 0
      BY FS_EmptySet, TotalIs
    <3>3. share'[q] \in Nat
      BY <1>1, <2>2, DelegationAssumption
    <3> QED BY <3>1, <3>2, <3>3
  <2>3. CASE q # p /\ q \notin S
    <3>1. Offspring(q)' = Offspring(q)
      BY <1>2, <2>3 DEF Offspring
    <3>2. share'[q] = share[q] /\ q \in Agents \ forgotten
      BY <1>1, <1>2, <2>3
    <3>3. \A a \in Offspring(q) : share'[a] = share[a]
      BY <1>1, <1>2 DEF Offspring
    <3>4. Total(share', Offspring(q)) = Total(share, Offspring(q))
      <4>1. IsFiniteSet(Offspring(q))
        BY OffspringFinite
      <4> QED BY <3>3, <4>1, TotalSame
    <3> QED BY <1>7, <3>1, <3>2, <3>4 DEF ShareInv
  <2> QED BY <2>1, <2>2, <2>3
<1> QED BY <1>4, <1>5, <1>6, <1>7 DEF ShareInv

\* A step that makes no agent and changes no share.
LEMMA SharesAreKept ==
    ASSUME ShareInv, UNCHANGED <<parent, share>>, forgotten \subseteq forgotten',
           \A a \in Agents : state'[a] = "none" <=> state[a] = "none",
           \A a \in edges' : a # Root /\ state'[a] = "ended",
           \A a \in Agents \ {Root} : state'[a] = "ended" /\ parent[a] \notin forgotten' => a \in edges'
    PROVE  ShareInv'
<1>1. {a \in Agents : state'[a] # "none"} = {a \in Agents : state[a] # "none"}
  OBVIOUS
<1>2. \A p : Offspring(p)' = Offspring(p)
  BY DEF Offspring
<1> QED BY <1>1, <1>2 DEF ShareInv

LEMMA ShareStep == DelInv /\ ShareInv /\ [DelNext]_delVars => ShareInv'
<1> SUFFICES ASSUME DelInv, ShareInv, [DelNext]_delVars PROVE ShareInv'
  OBVIOUS
<1>0. DelTypeOK /\ Root \in Agents
  BY DelegationAssumption DEF DelInv
<1>1. ASSUME NEW a \in Agents, RunOver(a) PROVE ShareInv'
  <2>1. /\ UNCHANGED <<parent, share, forgotten>> /\ state[a] = "running"
        /\ state' = [state EXCEPT ![a] = "ended"]
        /\ edges' = IF a = Root THEN edges ELSE edges \cup {a}
    BY <1>1 DEF RunOver, goalRows
  <2>2. \A b \in Agents : state'[b] = IF b = a THEN "ended" ELSE state[b]
    BY <1>0, <2>1 DEF DelTypeOK
  <2>3. \A b \in edges' : b # Root /\ state'[b] = "ended"
    BY <1>0, <2>1, <2>2 DEF ShareInv, DelTypeOK
  <2>4. \A b \in Agents \ {Root} : state'[b] = "ended" /\ parent[b] \notin forgotten' => b \in edges'
    BY <2>1, <2>2 DEF ShareInv
  <2> QED BY <2>1, <2>2, <2>3, <2>4, SharesAreKept
<1>2. ASSUME NEW a \in Agents, RunThrows(a) PROVE ShareInv'
  <2>1. /\ UNCHANGED <<parent, share, edges>> /\ state[a] = "running"
        /\ state' = [state EXCEPT ![a] = "ended"]
        /\ forgotten' = IF a = Root THEN forgotten ELSE forgotten \cup {parent[a]}
    BY <1>2 DEF RunThrows, goalRows
  <2>2. \A b \in Agents : state'[b] = IF b = a THEN "ended" ELSE state[b]
    BY <1>0, <2>1 DEF DelTypeOK
  <2>3. \A b \in edges' : b # Root /\ state'[b] = "ended"
    BY <1>0, <2>1, <2>2 DEF ShareInv, DelTypeOK
  <2>4. \A b \in Agents \ {Root} : state'[b] = "ended" /\ parent[b] \notin forgotten' => b \in edges'
    BY <2>1, <2>2 DEF ShareInv
  <2>5. forgotten \subseteq forgotten'
    BY <2>1
  <2> QED BY <2>1, <2>2, <2>3, <2>4, <2>5, SharesAreKept
<1>3. CASE ProcessStops
  <2>1. /\ UNCHANGED <<parent, share, edges>> /\ forgotten \subseteq forgotten'
        /\ \A b \in Agents \ {Root} : state[b] = "running" => parent[b] \in forgotten'
        /\ state' = [b \in Agents |-> IF state[b] = "running" THEN "ended" ELSE state[b]]
    BY <1>3 DEF ProcessStops, goalRows
  <2>2. \A b \in edges' : b # Root /\ state'[b] = "ended"
    BY <1>0, <2>1 DEF ShareInv, DelTypeOK
  <2>3. \A b \in Agents \ {Root} : state'[b] = "ended" /\ parent[b] \notin forgotten' => b \in edges'
    BY <2>1 DEF ShareInv
  <2>4. \A b \in Agents : state'[b] = "none" <=> state[b] = "none"
    BY <2>1
  <2> QED BY <2>1, <2>2, <2>3, <2>4, SharesAreKept
<1>4. CASE ResumeRoot
  <2>1. /\ UNCHANGED <<parent, share, edges, forgotten>> /\ state[Root] = "ended"
        /\ state' = [state EXCEPT ![Root] = "running"]
    BY <1>4 DEF ResumeRoot
  <2>2. \A b \in Agents : state'[b] = IF b = Root THEN "running" ELSE state[b]
    BY <1>0, <2>1 DEF DelTypeOK
  <2>3. \A b \in edges' : b # Root /\ state'[b] = "ended"
    BY <1>0, <2>1, <2>2 DEF ShareInv, DelTypeOK
  <2>4. \A b \in Agents \ {Root} : state'[b] = "ended" /\ parent[b] \notin forgotten' => b \in edges'
    BY <2>1, <2>2 DEF ShareInv
  <2>5. forgotten \subseteq forgotten' /\ \A b \in Agents : state'[b] = "none" <=> state[b] = "none"
    BY <2>1, <2>2
  <2> QED BY <2>1, <2>3, <2>4, <2>5, SharesAreKept
<1>5. CASE UNCHANGED delVars
  BY <1>5 DEF delVars, ShareInv, Offspring
<1> QED BY <1>1, <1>2, <1>3, <1>4, <1>5, DelegateShares DEF DelNext

(* The type invariant of delegation, for any number of agents. *)
THEOREM DelegationTypes == DelSpec => []DelTypeOK
<1>1. DelInv => DelTypeOK
  BY DEF DelInv
<1> QED BY <1>1, DelInitInv, DelStep, PTL DEF DelSpec

(* validateDelegations counts the edges of earlier calls with the proposals   *)
(* of this one, so that nobody gives more away than it has, over any number   *)
(* of calls, ends of the process and resumes: unless a child of it left no    *)
(* edge.                                                                      *)
THEOREM SharesAreWithin == DelSpec => []SharesWithinBudget
<1>1. ShareInv => SharesWithinBudget
  <2> SUFFICES ASSUME ShareInv PROVE SharesWithinBudget
    OBVIOUS
  <2>1. \A p \in Agents \ forgotten :
            share[p] # NoShare => Total(share, ChildrenOf(p)) <= share[p]
    BY DEF ShareInv, Offspring, ChildrenOf
  <2> QED BY <2>1 DEF SharesWithinBudget, MapThenSumSet, MapThenFoldSet, Total, Sums, OneOf
<1>2. DelSpec => [](DelInv /\ ShareInv)
  BY DelInitInv, DelStep, ShareInitInv, ShareStep, PTL DEF DelSpec
<1> QED BY <1>1, <1>2, PTL

-------------------------------------------------------------------------------
(* Rounds of providers: the inductive invariant. *)

\* The slots of a limited endpoint cover its streams.
SlotsCover(p) ==
    /\ IsFiniteSet(Streaming(p))
    /\ Cardinality(Streaming(p)) <= inFlight[p]
    /\ inFlight[p] <= Concurrency[p]

\* A breaker is not closed for a reason, and one that waits for a probe has let none through
\* in this cooldown, or will let none through for the score.
BreakerKept(p) ==
    /\ breaker[p] # "closed" => consecutive[p] >= FailureThreshold \/ ~Healthy(p)
    /\ admitted[p] <= 1
    /\ breaker[p] = "half-open" /\ ~probe[p] => admitted[p] = 0 \/ ~Healthy(p)

RoundInv ==
    /\ RoundTypeOK
    /\ \A p \in Providers : Concurrency[p] > 0 => SlotsCover(p)
    /\ \A p \in Providers : BreakerKept(p)

-------------------------------------------------------------------------------
(* The locals of a round. *)

\* A round that has not ended has an attempt to spare.
Going == {local \in Local : local.pc # "idle" => local.used < MaxAttempts}

LEMMA IdleIsGoing == Idle \in Going
  BY CandidatesAssumption, LimitsAssumption DEF Idle, Going, Local

LEMMA BegunIsGoing ==
    [Idle EXCEPT !.pc = "ask"] \in Going /\ [Idle EXCEPT !.pc = "ask"].pc = "ask"
<1> DEFINE begun == [Idle EXCEPT !.pc = "ask"]
<1>1. Idle \in Local /\ Idle.used = 0 /\ 0 < MaxAttempts
  BY IdleIsGoing, LimitsAssumption DEF Going, Idle
<1>2. begun \in Local /\ begun.used = Idle.used /\ begun.pc = "ask"
  BY <1>1 DEF Local
<1> QED BY <1>1, <1>2 DEF Going

LEMMA WaitingIsGoing ==
    ASSUME NEW local \in Going, local.pc # "idle", NEW n \in Nat
    PROVE  /\ [local EXCEPT !.pc = "acquire", !.tries = n] \in Going
           /\ [local EXCEPT !.pc = "acquire", !.tries = n].pc = "acquire"
<1> DEFINE waiting == [local EXCEPT !.pc = "acquire", !.tries = n]
<1>1. local \in Local /\ local.used < MaxAttempts
  BY DEF Going
<1>2. waiting \in Local /\ waiting.used = local.used /\ waiting.pc = "acquire"
  BY <1>1 DEF Local
<1> QED BY <1>1, <1>2 DEF Going

LEMMA EndpointIsProvider ==
    ASSUME RoundTypeOK, NEW r \in Rounds PROVE Endpoint(r) \in Providers
  BY CandidatesAssumption DEF RoundTypeOK, Local, Endpoint

LEMMA ArmedIsGoing ==
    ASSUME NEW local \in Going PROVE Armed(local) \in Going /\ Armed(local).pc = local.pc
  BY DEF Armed, Going, Local

LEMMA OnwardIsGoing ==
    ASSUME NEW local \in Going, local.used < MaxAttempts
    PROVE  Onward(local) \in Going /\ Onward(local).pc # "stream"
<1>1. CASE local.at < Len(Candidates)
  <2>1. local.at + 1 \in 1 .. Len(Candidates)
    BY <1>1, CandidatesAssumption DEF Going, Local
  <2> QED BY <1>1, <2>1 DEF Onward, Going, Local
<1>2. CASE ~(local.at < Len(Candidates))
  BY <1>2, IdleIsGoing DEF Onward, Idle
<1> QED BY <1>1, <1>2

LEMMA FailureIsGoing ==
    ASSUME NEW local \in Going, local.pc # "idle", NEW code \in Codes
    PROVE  AfterFailure(local, code) \in Going /\ AfterFailure(local, code).pc # "stream"
<1> DEFINE failed == [local EXCEPT !.used = local.used + 1, !.error = code]
<1>1. failed \in Local /\ failed.used = local.used + 1 /\ failed.pc = local.pc
  <2>1. local \in Local /\ local.used < MaxAttempts
    BY DEF Going
  <2>2. local.used + 1 \in 0 .. MaxAttempts
    BY <2>1, LimitsAssumption DEF Local
  <2> QED BY <2>1, <2>2 DEF Local
<1>2. CASE /\ local.tries < Policy[code].retries /\ failed.used < MaxAttempts
           /\ code \notin {"aborted", "invalid_request"}
  BY <1>1, <1>2 DEF AfterFailure, Going, Local
<1>3. CASE /\ ~(/\ local.tries < Policy[code].retries /\ failed.used < MaxAttempts
                /\ code \notin {"aborted", "invalid_request"})
           /\ Policy[code].failover /\ failed.used < MaxAttempts
  <2>1. failed \in Going
    BY <1>1, <1>3 DEF Going
  <2>2. AfterFailure(local, code) = Onward(failed)
    BY <1>3 DEF AfterFailure
  <2> QED BY <1>3, <2>1, <2>2, OnwardIsGoing
<1>4. CASE /\ ~(/\ local.tries < Policy[code].retries /\ failed.used < MaxAttempts
                /\ code \notin {"aborted", "invalid_request"})
           /\ ~(Policy[code].failover /\ failed.used < MaxAttempts)
  <2>1. AfterFailure(local, code) = Idle
    BY <1>4 DEF AfterFailure
  <2> QED BY <2>1, IdleIsGoing DEF Idle
<1> QED BY <1>2, <1>3, <1>4

LEMMA EffectiveIsCode ==
    ASSUME NEW local, NEW code \in Thrown PROVE Effective(local, code) \in Codes
  BY PolicyAssumption DEF Effective

-------------------------------------------------------------------------------
(* Streams and slots: what becomes of them when one round takes a step. *)

LEMMA NoLongerStreaming ==
    ASSUME RoundTypeOK, NEW r \in Rounds, NEW local \in Local, local.pc # "stream",
           round' = [round EXCEPT ![r] = local], NEW p \in Providers
    PROVE  Streaming(p)' = Streaming(p) \ {r}
  BY DEF Streaming, Endpoint, RoundTypeOK

LEMMA NowStreaming ==
    ASSUME RoundTypeOK, NEW r \in Rounds, round' = [round EXCEPT ![r].pc = "stream"],
           NEW p \in Providers
    PROVE  Streaming(p)' = IF Endpoint(r) = p THEN Streaming(p) \cup {r}
                           ELSE Streaming(p) \ {r}
  BY DEF Streaming, Endpoint, RoundTypeOK, Local

\* Fewer streams in as many slots.
LEMMA FewerStreams ==
    ASSUME RoundTypeOK, NEW p \in Providers, SlotsCover(p), NEW r,
           Streaming(p)' = Streaming(p) \ {r}, inFlight'[p] = inFlight[p]
    PROVE  SlotsCover(p)'
<1>1. /\ IsFiniteSet(Streaming(p) \ {r}) /\ Cardinality(Streaming(p)) \in Nat
      /\ Cardinality(Streaming(p) \ {r}) =
            IF r \in Streaming(p) THEN Cardinality(Streaming(p)) - 1
            ELSE Cardinality(Streaming(p))
  BY FS_RemoveElement, FS_CardinalityType DEF SlotsCover
<1> QED BY <1>1, LimitsAssumption DEF SlotsCover, RoundTypeOK

\* A stream that ends returns its slot.
LEMMA StreamSettled ==
    ASSUME RoundTypeOK, NEW r \in Rounds, round[r].pc = "stream", ReturnSlot(Endpoint(r)),
           NEW local \in Local, local.pc # "stream", round' = [round EXCEPT ![r] = local],
           NEW p \in Providers, SlotsCover(p)
    PROVE  SlotsCover(p)'
<1>1. Streaming(p)' = Streaming(p) \ {r}
  BY NoLongerStreaming
<1>2. CASE Endpoint(r) # p
  BY <1>1, <1>2, FewerStreams DEF ReturnSlot, RoundTypeOK
<1>3. CASE Endpoint(r) = p
  <2>1. r \in Streaming(p)
    BY <1>3 DEF Streaming
  <2>2. /\ IsFiniteSet(Streaming(p) \ {r}) /\ Cardinality(Streaming(p)) \in Nat
        /\ Cardinality(Streaming(p) \ {r}) = Cardinality(Streaming(p)) - 1
        /\ Cardinality(Streaming(p) \ {r}) \in Nat
    BY <2>1, FS_RemoveElement, FS_CardinalityType DEF SlotsCover
  <2>3. inFlight[p] \in Nat /\ inFlight[p] # 0 /\ inFlight'[p] = inFlight[p] - 1
    BY <1>3, <2>2 DEF ReturnSlot, RoundTypeOK, SlotsCover
  <2> QED BY <1>1, <2>2, <2>3, LimitsAssumption DEF SlotsCover
<1> QED BY <1>2, <1>3

\* No stream begins or ends, and no slot is taken or returned.
LEMMA StreamsAsBefore ==
    ASSUME RoundTypeOK, NEW p \in Providers, SlotsCover(p),
           Streaming(p)' = Streaming(p), inFlight'[p] = inFlight[p]
    PROVE  SlotsCover(p)'
  BY DEF SlotsCover

-------------------------------------------------------------------------------
(* Initial states. *)

LEMMA RoundInitInv == RoundInit => RoundInv
<1> SUFFICES ASSUME RoundInit PROVE RoundInv
  OBVIOUS
<1> USE LimitsAssumption
<1>1. RoundTypeOK
  BY IdleIsGoing DEF RoundInit, RoundTypeOK, Going, Idle
<1>2. ASSUME NEW p \in Providers, Concurrency[p] > 0 PROVE SlotsCover(p)
  <2>1. Streaming(p) = {}
    BY DEF RoundInit, Streaming, Idle
  <2> QED BY <1>2, <2>1, FS_EmptySet DEF RoundInit, SlotsCover
<1>3. ASSUME NEW p \in Providers PROVE BreakerKept(p)
  BY DEF RoundInit, BreakerKept
<1> QED BY <1>1, <1>2, <1>3 DEF RoundInv

-------------------------------------------------------------------------------
(* Types. *)

LEMMA LocalStep ==
    ASSUME RoundTypeOK, NEW r \in Rounds, NEW local \in Going,
           round' = [round EXCEPT ![r] = local]
    PROVE  /\ round' \in [Rounds -> Local]
           /\ \A q \in Rounds : round'[q].pc # "idle" => round'[q].used < MaxAttempts
  BY DEF RoundTypeOK, Going

LEMMA GoingRound == ASSUME RoundTypeOK, NEW r \in Rounds PROVE round[r] \in Going
  BY DEF RoundTypeOK, Going

LEMMA BlamedInRange ==
    ASSUME NEW s \in 0 .. MaxScore, NEW code \in Codes
    PROVE  Blamed(s, code) \in 0 .. MaxScore /\ Blamed(s, code) <= s
<1>1. Policy[code].impact \in Nat
  BY PolicyAssumption DEF Decision
<1> QED BY <1>1, LimitsAssumption DEF Blamed, Lowered

\* A failed attempt, whatever becomes of its slot.
LEMMA FailTypes ==
    ASSUME RoundTypeOK, NEW r \in Rounds, round[r].pc = "stream",
           NEW code \in Codes, Fail(r, code), inFlight' \in [Providers -> Nat]
    PROVE  RoundTypeOK'
<1> USE LimitsAssumption
<1>1. Endpoint(r) \in Providers
  BY EndpointIsProvider
<1>2. AfterFailure(round[r], code) \in Going
  BY GoingRound, FailureIsGoing
<1>3. /\ round' \in [Rounds -> Local]
      /\ \A q \in Rounds : round'[q].pc # "idle" => round'[q].used < MaxAttempts
  BY <1>2, LocalStep DEF Fail
<1>4. score' \in [Providers -> 0 .. MaxScore]
  BY <1>1, BlamedInRange DEF Fail, RoundTypeOK
<1>5. breaker' \in [Providers -> {"closed", "open", "half-open"}]
  BY <1>1 DEF Fail, RecordFailure, RoundTypeOK
<1>6. consecutive' \in [Providers -> 0 .. FailureThreshold]
  <2>1. \A n \in 0 .. FailureThreshold :
            (IF n < FailureThreshold THEN n + 1 ELSE n) \in 0 .. FailureThreshold
    OBVIOUS
  <2> QED BY <1>1, <2>1 DEF Fail, RecordFailure, RoundTypeOK
<1>7. probe' \in [Providers -> BOOLEAN]
  BY <1>1 DEF Fail, RecordFailure, RoundTypeOK
<1> QED BY <1>3, <1>4, <1>5, <1>6, <1>7 DEF RoundTypeOK, Fail

LEMMA ReturnSlotType ==
    ASSUME RoundTypeOK, NEW p \in Providers, ReturnSlot(p)
    PROVE  inFlight' \in [Providers -> Nat]
  BY DEF RoundTypeOK, ReturnSlot

LEMMA RoundTypeStep == RoundTypeOK /\ [RoundNext]_roundVars => RoundTypeOK'
<1> SUFFICES ASSUME RoundTypeOK, [RoundNext]_roundVars PROVE RoundTypeOK'
  OBVIOUS
<1> USE LimitsAssumption
<1>1. ASSUME NEW r \in Rounds, Begin(r) PROVE RoundTypeOK'
  BY <1>1, BegunIsGoing, LocalStep DEF Begin, endpoints, RoundTypeOK
<1>2. ASSUME NEW r \in Rounds, Admit(r) PROVE RoundTypeOK'
  <2>1. Endpoint(r) \in Providers
    BY EndpointIsProvider
  <2>2. Armed(round[r]) \in Going /\ Armed(round[r]).pc = "ask"
    BY <1>2, GoingRound, ArmedIsGoing DEF Admit
  <2>3. ASSUME NEW b \in BOOLEAN
        PROVE  [Armed(round[r]) EXCEPT !.pc = "acquire", !.probing = b] \in Going
    BY <2>2 DEF Going, Local
  <2>4. /\ round' \in [Rounds -> Local]
        /\ \A q \in Rounds : round'[q].pc # "idle" => round'[q].used < MaxAttempts
    BY <1>2, <2>3, LocalStep DEF Admit
  <2>5. probe' \in [Providers -> BOOLEAN] /\ admitted' \in [Providers -> Nat]
    BY <1>2, <2>1 DEF Admit, Allow, RoundTypeOK
  <2> QED BY <1>2, <2>4, <2>5 DEF Admit, Allow, RoundTypeOK
<1>3. ASSUME NEW r \in Rounds, Skip(r) PROVE RoundTypeOK'
  <2>1. Endpoint(r) \in Providers
    BY EndpointIsProvider
  <2>2. Onward(round[r]) \in Going
    BY <1>3, GoingRound, OnwardIsGoing DEF Skip, Going
  <2>3. /\ round' \in [Rounds -> Local]
        /\ \A q \in Rounds : round'[q].pc # "idle" => round'[q].used < MaxAttempts
    BY <1>3, <2>2, LocalStep DEF Skip
  <2>4. breaker' \in [Providers -> {"closed", "open", "half-open"}]
    BY <1>3, <2>1 DEF Skip, Refuse, RoundTypeOK
  <2>5. probe' \in [Providers -> BOOLEAN]
    BY <1>3, <2>1 DEF Skip, Refuse, RoundTypeOK
  <2> QED BY <1>3, <2>3, <2>4, <2>5 DEF Skip, Refuse, RoundTypeOK
<1>4. ASSUME NEW r \in Rounds, Acquire(r) PROVE RoundTypeOK'
  <2>1. Endpoint(r) \in Providers
    BY EndpointIsProvider
  <2>2. [round[r] EXCEPT !.pc = "stream"] \in Going
    <3>1. round[r] \in Going /\ round[r].pc = "acquire"
      BY <1>4, GoingRound DEF Acquire
    <3> QED BY <3>1 DEF Going, Local
  <2>3. round' = [round EXCEPT ![r] = [round[r] EXCEPT !.pc = "stream"]]
    BY <1>4 DEF Acquire
  <2>4. /\ round' \in [Rounds -> Local]
        /\ \A q \in Rounds : round'[q].pc # "idle" => round'[q].used < MaxAttempts
    BY <2>2, <2>3, LocalStep
  <2>5. inFlight' \in [Providers -> Nat]
    BY <1>4, <2>1 DEF Acquire, TakeSlot, RoundTypeOK
  <2> QED BY <1>4, <2>4, <2>5 DEF Acquire, RoundTypeOK
<1>5. ASSUME NEW r \in Rounds, Succeed(r) PROVE RoundTypeOK'
  <2>1. Endpoint(r) \in Providers
    BY EndpointIsProvider
  <2>2. \A s \in 0 .. MaxScore : Raise(s) \in 0 .. MaxScore
    BY DEF Raise
  <2>3. score' \in [Providers -> 0 .. MaxScore]
    BY <1>5, <2>1, <2>2 DEF Succeed, RoundTypeOK
  <2>4. inFlight' \in [Providers -> Nat]
    BY <1>5, <2>1, ReturnSlotType DEF Succeed
  <2>5. /\ breaker' \in [Providers -> {"closed", "open", "half-open"}]
        /\ consecutive' \in [Providers -> 0 .. FailureThreshold]
        /\ probe' \in [Providers -> BOOLEAN]
    BY <1>5, <2>1 DEF Succeed, RecordSuccess, RoundTypeOK
  <2> QED
    BY <1>5, <2>3, <2>4, <2>5, IdleIsGoing, LocalStep DEF Succeed, RoundTypeOK
<1>6. ASSUME NEW r \in Rounds, Exhausted(r) PROVE RoundTypeOK'
  BY <1>6, PolicyAssumption, EndpointIsProvider, ReturnSlotType, FailTypes DEF Exhausted
<1>7. ASSUME NEW r \in Rounds, NEW code \in Thrown, Throw(r, code) PROVE RoundTypeOK'
  <2>1. Effective(round[r], code) \in Codes
    BY EffectiveIsCode
  <2>2. inFlight' \in [Providers -> Nat]
    BY <1>7 DEF Throw, RoundTypeOK
  <2> QED BY <1>7, <2>1, <2>2, FailTypes DEF Throw
<1>8. ASSUME NEW r \in Rounds, Retry(r) PROVE RoundTypeOK'
  <2>1. Armed(round[r]) \in Going /\ Armed(round[r]).pc = "backoff"
    BY <1>8, GoingRound, ArmedIsGoing DEF Retry
  <2>2. round[r].tries + 1 \in Nat
    BY DEF RoundTypeOK, Local
  <2>3. round' = [round EXCEPT ![r] = [Armed(round[r]) EXCEPT
                      !.pc = "acquire", !.tries = round[r].tries + 1]]
    BY <1>8 DEF Retry
  <2> QED
    BY <1>8, <2>1, <2>2, <2>3, WaitingIsGoing, LocalStep DEF Retry, endpoints, RoundTypeOK
<1>9. ASSUME NEW r \in Rounds, TimerFires(r) PROVE RoundTypeOK'
  <2>1. [round[r] EXCEPT !.timer = "fired"] \in Going
    BY GoingRound DEF Going, Local
  <2>2. round' = [round EXCEPT ![r] = [round[r] EXCEPT !.timer = "fired"]]
    BY <1>9 DEF TimerFires
  <2> QED BY <1>9, <2>1, <2>2, LocalStep DEF TimerFires, endpoints, RoundTypeOK
<1>10. ASSUME NEW r \in Rounds, CallerAborts(r) PROVE RoundTypeOK'
  <2>1. [round[r] EXCEPT !.aborted = TRUE] \in Going
    BY GoingRound DEF Going, Local
  <2>2. round' = [round EXCEPT ![r] = [round[r] EXCEPT !.aborted = TRUE]]
    BY <1>10 DEF CallerAborts
  <2> QED BY <1>10, <2>1, <2>2, LocalStep DEF CallerAborts, endpoints, RoundTypeOK
<1>11. ASSUME NEW p \in Providers, Cooldown(p) PROVE RoundTypeOK'
  BY <1>11 DEF Cooldown, RoundTypeOK
<1>12. ASSUME UNCHANGED roundVars PROVE RoundTypeOK'
  BY <1>12 DEF roundVars, endpoints, RoundTypeOK
<1> QED
  BY <1>1, <1>2, <1>3, <1>4, <1>5, <1>6, <1>7, <1>8, <1>9, <1>10, <1>11, <1>12
  DEF RoundNext, Advance

-------------------------------------------------------------------------------
(* Slots. *)

LEMMA SlotsStep ==
    ASSUME RoundTypeOK, [RoundNext]_roundVars,
           NEW p \in Providers, Concurrency[p] > 0, SlotsCover(p)
    PROVE  SlotsCover(p)'
<1>1. ASSUME NEW r \in Rounds, round[r].pc # "stream",
             NEW local \in Going, local.pc # "stream",
             round' = [round EXCEPT ![r] = local], UNCHANGED inFlight
      PROVE  SlotsCover(p)'
  BY <1>1, NoLongerStreaming, FewerStreams DEF Going
<1>2. ASSUME NEW r \in Rounds, Begin(r) PROVE SlotsCover(p)'
  <2>1. round[r].pc # "stream"
    BY <1>2 DEF Begin
  <2> QED BY <1>1, <1>2, <2>1, BegunIsGoing DEF Begin, endpoints
<1>3. ASSUME NEW r \in Rounds, Admit(r) PROVE SlotsCover(p)'
  <2>1. Armed(round[r]) \in Going /\ Armed(round[r]).pc = "ask"
    BY <1>3, GoingRound, ArmedIsGoing DEF Admit
  <2>2. ASSUME NEW b \in BOOLEAN
        PROVE  /\ [Armed(round[r]) EXCEPT !.pc = "acquire", !.probing = b] \in Going
               /\ [Armed(round[r]) EXCEPT !.pc = "acquire", !.probing = b].pc = "acquire"
    BY <2>1 DEF Going, Local
  <2> QED BY <1>1, <1>3, <2>2 DEF Admit, Allow
<1>4. ASSUME NEW r \in Rounds, Skip(r) PROVE SlotsCover(p)'
  <2>1. Onward(round[r]) \in Going /\ Onward(round[r]).pc # "stream"
    BY <1>4, GoingRound, OnwardIsGoing DEF Skip, Going
  <2> QED BY <1>1, <1>4, <2>1 DEF Skip, Refuse
<1>5. ASSUME NEW r \in Rounds, Acquire(r) PROVE SlotsCover(p)'
  <2>1. Streaming(p)' = IF Endpoint(r) = p THEN Streaming(p) \cup {r} ELSE Streaming(p) \ {r}
    BY <1>5, NowStreaming DEF Acquire
  <2>2. CASE Endpoint(r) # p
    BY <1>5, <2>1, <2>2, FewerStreams DEF Acquire, TakeSlot, RoundTypeOK
  <2>3. CASE Endpoint(r) = p
    <3>0. IsFiniteSet(Streaming(p))
      BY DEF SlotsCover
    <3>1. /\ IsFiniteSet(Streaming(p) \cup {r})
          /\ Cardinality(Streaming(p) \cup {r}) =
                IF r \in Streaming(p) THEN Cardinality(Streaming(p))
                ELSE Cardinality(Streaming(p)) + 1
      BY <3>0, FS_AddElement
    <3>3. Cardinality(Streaming(p)) \in Nat
      BY <3>0, FS_CardinalityType
    <3>2. /\ inFlight[p] \in Nat /\ inFlight[p] < Concurrency[p]
          /\ inFlight'[p] = inFlight[p] + 1 /\ Concurrency[p] \in Nat
      BY <1>5, <2>3, LimitsAssumption DEF Acquire, SlotFree, TakeSlot, RoundTypeOK
    <3> QED BY <2>1, <2>3, <3>1, <3>2, <3>3 DEF SlotsCover
  <2> QED BY <2>2, <2>3
<1>6. ASSUME NEW r \in Rounds, Succeed(r) PROVE SlotsCover(p)'
  BY <1>6, IdleIsGoing, StreamSettled DEF Succeed, Idle, Going
<1>7. ASSUME NEW r \in Rounds, Exhausted(r) PROVE SlotsCover(p)'
  <2>1. /\ AfterFailure(round[r], "provider_unavailable") \in Going
        /\ AfterFailure(round[r], "provider_unavailable").pc # "stream"
    BY <1>7, GoingRound, FailureIsGoing, PolicyAssumption DEF Exhausted
  <2> QED BY <1>7, <2>1, StreamSettled DEF Exhausted, Fail, Going
<1>8. ASSUME NEW r \in Rounds, NEW code \in Thrown, Throw(r, code) PROVE SlotsCover(p)'
  <2>1. Effective(round[r], code) \in Codes
    BY EffectiveIsCode
  <2>2. /\ AfterFailure(round[r], Effective(round[r], code)) \in Going
        /\ AfterFailure(round[r], Effective(round[r], code)).pc # "stream"
    BY <1>8, <2>1, GoingRound, FailureIsGoing DEF Throw
  <2> QED BY <1>8, <2>2, NoLongerStreaming, FewerStreams DEF Throw, Fail, Going
<1>9. ASSUME NEW r \in Rounds, Retry(r) PROVE SlotsCover(p)'
  <2>1. Armed(round[r]) \in Going /\ Armed(round[r]).pc = "backoff"
    BY <1>9, GoingRound, ArmedIsGoing DEF Retry
  <2>2. round[r].tries + 1 \in Nat /\ round[r].pc # "stream"
    BY <1>9 DEF RoundTypeOK, Local, Retry
  <2>3. round' = [round EXCEPT ![r] = [Armed(round[r]) EXCEPT
                      !.pc = "acquire", !.tries = round[r].tries + 1]]
    BY <1>9 DEF Retry
  <2>4. /\ [Armed(round[r]) EXCEPT !.pc = "acquire", !.tries = round[r].tries + 1] \in Going
        /\ [Armed(round[r]) EXCEPT !.pc = "acquire", !.tries = round[r].tries + 1].pc = "acquire"
    BY <2>1, <2>2, WaitingIsGoing
  <2> QED BY <1>1, <1>9, <2>2, <2>3, <2>4 DEF Retry, endpoints
<1>10. ASSUME \E r \in Rounds : TimerFires(r) \/ CallerAborts(r) PROVE SlotsCover(p)'
  <2>1. \A q \in Rounds : round'[q].pc = round[q].pc /\ round'[q].at = round[q].at
    <3>1. PICK r \in Rounds : \/ round' = [round EXCEPT ![r].timer = "fired"]
                             \/ round' = [round EXCEPT ![r].aborted = TRUE]
      BY <1>10 DEF TimerFires, CallerAborts
    <3>2. /\ round \in [Rounds -> Local]
          /\ \A x \in Local : /\ [x EXCEPT !.timer = "fired"].pc = x.pc
                             /\ [x EXCEPT !.timer = "fired"].at = x.at
                             /\ [x EXCEPT !.aborted = TRUE].pc = x.pc
                             /\ [x EXCEPT !.aborted = TRUE].at = x.at
      BY DEF RoundTypeOK, Local
    <3>3. round[r] \in Local
      BY <3>2
    <3>4. ASSUME NEW q \in Rounds, q # r PROVE round'[q] = round[q]
      BY <3>1, <3>2, <3>4
    <3>5. \/ round'[r] = [round[r] EXCEPT !.timer = "fired"]
          \/ round'[r] = [round[r] EXCEPT !.aborted = TRUE]
      BY <3>1, <3>2
    <3>6. round'[r].pc = round[r].pc /\ round'[r].at = round[r].at
      BY <3>2, <3>3, <3>5
    <3> QED BY <3>4, <3>6
  <2>2. Streaming(p)' = Streaming(p)
    BY <2>1 DEF Streaming, Endpoint
  <2> QED BY <1>10, <2>2, StreamsAsBefore DEF TimerFires, CallerAborts, endpoints
<1>11. ASSUME UNCHANGED <<round, inFlight>> PROVE SlotsCover(p)'
  BY <1>11 DEF SlotsCover, Streaming, Endpoint
<1> QED
  BY <1>2, <1>3, <1>4, <1>5, <1>6, <1>7, <1>8, <1>9, <1>10, <1>11
  DEF RoundNext, Advance, Cooldown, roundVars, endpoints

-------------------------------------------------------------------------------
(* Breakers. *)

\* A breaker that is not touched, whose score does not rise.
LEMMA BreakerAsBefore ==
    ASSUME RoundTypeOK, RoundTypeOK', NEW p \in Providers, BreakerKept(p),
           breaker'[p] = breaker[p], consecutive'[p] = consecutive[p], probe'[p] = probe[p],
           admitted'[p] = admitted[p], score'[p] <= score[p]
    PROVE  BreakerKept(p)'
  BY LimitsAssumption DEF BreakerKept, Healthy, RoundTypeOK

LEMMA FailKeeps ==
    ASSUME RoundTypeOK, RoundTypeOK', NEW r \in Rounds, NEW code \in Codes, Fail(r, code),
           NEW p \in Providers, BreakerKept(p)
    PROVE  BreakerKept(p)'
<1> USE LimitsAssumption
<1>1. Endpoint(r) \in Providers
  BY EndpointIsProvider
<1>2. score'[p] <= score[p] /\ score[p] \in Nat /\ score'[p] \in Nat /\ admitted' = admitted
  BY <1>1, BlamedInRange DEF Fail, RoundTypeOK
<1>3. CASE Endpoint(r) # p \/ ~Policy[code].counts
  BY <1>2, <1>3, BreakerAsBefore DEF Fail, RecordFailure, RoundTypeOK
<1>4. CASE Endpoint(r) = p /\ Policy[code].counts
  <2>1. consecutive[p] \in Nat /\ consecutive[p] <= FailureThreshold
    BY DEF RoundTypeOK
  <2>2. /\ consecutive'[p] = IF consecutive[p] < FailureThreshold THEN consecutive[p] + 1
                             ELSE consecutive[p]
        /\ breaker'[p] = IF consecutive[p] + 1 >= FailureThreshold THEN "open" ELSE breaker[p]
    BY <1>4, <2>1 DEF Fail, RecordFailure, RoundTypeOK
  <2>3. ~Healthy(p) => ~Healthy(p)'
    BY <1>2 DEF Healthy
  <2>4. CASE consecutive[p] + 1 >= FailureThreshold
    BY <1>2, <2>1, <2>2, <2>4 DEF BreakerKept
  <2>5. CASE ~(consecutive[p] + 1 >= FailureThreshold)
    BY <1>2, <2>1, <2>2, <2>3, <2>5 DEF BreakerKept
  <2> QED BY <2>4, <2>5
<1> QED BY <1>3, <1>4

LEMMA BreakerStep ==
    ASSUME RoundTypeOK, RoundTypeOK', [RoundNext]_roundVars, NEW p \in Providers,
           BreakerKept(p)
    PROVE  BreakerKept(p)'
<1>1. \A q \in Providers : score[q] \in Nat /\ admitted[q] \in Nat
  BY LimitsAssumption DEF RoundTypeOK
<1>2. ASSUME UNCHANGED <<endpoints, admitted>> PROVE BreakerKept(p)'
  BY <1>2 DEF endpoints, BreakerKept, Healthy
<1>3. ASSUME NEW r \in Rounds, Admit(r) PROVE BreakerKept(p)'
  <2>1. CASE Endpoint(r) # p
    BY <1>1, <1>3, <2>1, BreakerAsBefore DEF Admit, Allow, RoundTypeOK
  <2>2. CASE Endpoint(r) = p /\ breaker[p] = "half-open"
    <3>1. /\ Healthy(p) /\ ~probe[p] /\ admitted[p] = 0
      BY <1>3, <2>2 DEF Admit, Allows, BreakerKept
    <3>2. /\ admitted'[p] = 1
          /\ breaker' = breaker /\ consecutive' = consecutive /\ score' = score
      BY <1>3, <2>2, <3>1 DEF Admit, Allow, RoundTypeOK
    <3>3. probe'[p] = TRUE
      BY <1>3, <2>2 DEF Admit, Allow, RoundTypeOK
    <3> QED BY <3>2, <3>3 DEF BreakerKept, Healthy
  <2>3. CASE Endpoint(r) = p /\ breaker[p] # "half-open"
    <3>1. /\ admitted' = admitted /\ breaker' = breaker
          /\ consecutive' = consecutive /\ score' = score
      BY <1>3, <2>3 DEF Admit, Allow
    <3> QED BY <2>3, <3>1 DEF BreakerKept, Healthy
  <2> QED BY <2>1, <2>2, <2>3
<1>4. ASSUME NEW r \in Rounds, Skip(r) PROVE BreakerKept(p)'
  <2>1. CASE \/ Endpoint(r) # p
             \/ breaker[p] = "open" \/ (breaker[p] = "half-open" /\ probe[p])
    BY <1>1, <1>4, <2>1, BreakerAsBefore DEF Skip, Refuse, RoundTypeOK
  <2>2. CASE /\ Endpoint(r) = p
             /\ ~(breaker[p] = "open" \/ (breaker[p] = "half-open" /\ probe[p]))
    <3>1. ~Healthy(p)
      BY <1>4, <2>2 DEF Skip, Allows, RoundTypeOK
    <3>2. breaker'[p] = "open" /\ admitted' = admitted /\ score' = score
      BY <1>4, <2>2 DEF Skip, Refuse, RoundTypeOK
    <3> QED BY <3>1, <3>2 DEF BreakerKept, Healthy
  <2> QED BY <2>1, <2>2
<1>5. ASSUME NEW r \in Rounds, Succeed(r) PROVE BreakerKept(p)'
  <2>1. CASE Endpoint(r) # p
    <3>1. /\ breaker'[p] = breaker[p] /\ consecutive'[p] = consecutive[p]
          /\ probe'[p] = probe[p] /\ admitted'[p] = admitted[p]
      BY <1>5, <2>1 DEF Succeed, RecordSuccess, RoundTypeOK
    <3>2. score'[p] = score[p]
      BY <1>5, <2>1 DEF Succeed, RoundTypeOK
    <3> QED BY <1>1, <3>1, <3>2, BreakerAsBefore
  <2>2. CASE Endpoint(r) = p
    <3>1. breaker'[p] = "closed" /\ admitted' = admitted
      BY <1>5, <2>2 DEF Succeed, RecordSuccess, RoundTypeOK
    <3> QED BY <3>1 DEF BreakerKept
  <2> QED BY <2>1, <2>2
<1>6. ASSUME NEW r \in Rounds, Exhausted(r) PROVE BreakerKept(p)'
  BY <1>6, FailKeeps, PolicyAssumption DEF Exhausted
<1>7. ASSUME NEW r \in Rounds, NEW code \in Thrown, Throw(r, code) PROVE BreakerKept(p)'
  BY <1>7, FailKeeps, EffectiveIsCode DEF Throw
<1>8. ASSUME NEW q \in Providers, Cooldown(q) PROVE BreakerKept(p)'
  <2>1. CASE q # p
    BY <1>1, <1>8, <2>1, BreakerAsBefore DEF Cooldown, RoundTypeOK
  <2>2. CASE q = p
    <3>1. /\ breaker[p] = "open" /\ admitted'[p] = 0
          /\ consecutive' = consecutive /\ score' = score
      BY <1>8, <2>2 DEF Cooldown, RoundTypeOK
    <3> QED BY <3>1 DEF BreakerKept, Healthy
  <2> QED BY <2>1, <2>2
<1>9. ASSUME NEW r \in Rounds, Acquire(r) PROVE BreakerKept(p)'
  BY <1>1, <1>9, BreakerAsBefore DEF Acquire
<1> QED
  BY <1>2, <1>3, <1>4, <1>5, <1>6, <1>7, <1>8, <1>9
  DEF RoundNext, Advance, Begin, Retry, TimerFires, CallerAborts, roundVars

-------------------------------------------------------------------------------
(* Theorems. *)

LEMMA RoundInvariant == RoundSpec => []RoundInv
<1>1. RoundInv /\ [RoundNext]_roundVars => RoundInv'
  <2> SUFFICES ASSUME RoundInv, [RoundNext]_roundVars PROVE RoundInv'
    OBVIOUS
  <2>1. RoundTypeOK /\ RoundTypeOK'
    BY RoundTypeStep DEF RoundInv
  <2>2. ASSUME NEW p \in Providers, Concurrency[p] > 0 PROVE SlotsCover(p)'
    BY <2>1, <2>2, SlotsStep DEF RoundInv
  <2>3. ASSUME NEW p \in Providers PROVE BreakerKept(p)'
    BY <2>1, BreakerStep DEF RoundInv
  <2> QED BY <2>1, <2>2, <2>3 DEF RoundInv
<1> QED BY <1>1, RoundInitInv, PTL DEF RoundSpec

(* RoundExecutor.execute keeps its state in range, and no round makes more   *)
(* attempts than maxAttempts, whatever retries and failovers the policy      *)
(* allows.                                                                   *)
THEOREM RoundTypes == RoundSpec => []RoundTypeOK
<1>1. RoundInv => RoundTypeOK
  BY DEF RoundInv
<1> QED BY <1>1, RoundInvariant, PTL

(* EndpointLimiter: no endpoint streams to more rounds than its concurrency  *)
(* limit, for any number of rounds and however they end.                     *)
THEOREM ConcurrencyIsKept == RoundSpec => []WithinConcurrency
<1>1. RoundInv => WithinConcurrency
  BY DEF RoundInv, SlotsCover, WithinConcurrency
<1> QED BY <1>1, RoundInvariant, PTL

(* CircuitBreaker: open for a reason, and one probe for a cooldown, in any   *)
(* order of reports of overlapping rounds, for any threshold and policy.     *)
THEOREM BreakersAreSound == RoundSpec => []BreakerSound
<1>1. RoundInv => BreakerSound
  BY DEF RoundInv, BreakerKept, BreakerSound
<1> QED BY <1>1, RoundInvariant, PTL
===============================================================================
