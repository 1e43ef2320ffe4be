------------------------------ MODULE Delegation ------------------------------
(***************************************************************************)
(* Delegation: an agent hands sub-goals to others with its "delegate" tool *)
(* (delegateAgents, DelegationCoordinator).  Each child is a Goal of its   *)
(* own that may delegate in turn; the children of one call run side by     *)
(* side, and the call returns when all have ended.                         *)
(*                                                                         *)
(* What a child was given is kept as an edge, which is saved when the      *)
(* child has ended.  The next call of the parent counts the edges.         *)
(***************************************************************************)
EXTENDS Integers, FiniteSets, FiniteSetsExt

CONSTANTS Agents,       \* Goals: the first one, and children to come
          Root,         \* the Goal that a person started
          Levels,       \* permission levels, by rank
          RootLevel,    \* its permission ceiling
          RootBudget,   \* its maxCostUsd, or NoShare
          Shares,       \* what a proposal may give: amounts, or NoShare
          MaxStops      \* bound: ends of the process

NoShare == 0            \* no amount: counted as nothing, and the child has no limit
MaxDepth == 2

ASSUME DelegationAssumption ==
    /\ Root \in Agents
    /\ Levels \subseteq Nat /\ RootLevel \in Levels
    /\ Shares \subseteq Nat /\ RootBudget \in Nat
    /\ MaxStops \in Nat

VARIABLES
    state,      \* what each agent has come to
    parent,     \* who delegated to it
    depth,      \* pendingDelegationDepth, as its run took it
    ceiling,    \* its permissionCeiling
    share,      \* its budget
    edges,      \* on disk: children with a delegation edge
    forgotten,  \* history: parents with a child that left no edge
    stops

delVars == <<state, parent, depth, ceiling, share, edges, forgotten, stops>>
goalRows == <<parent, depth, ceiling, share>>

DelInit ==
    /\ state = [a \in Agents |-> IF a = Root THEN "running" ELSE "none"]
    /\ parent = [a \in Agents |-> Root]
    /\ depth = [a \in Agents |-> 0]
    /\ ceiling = [a \in Agents |-> RootLevel]
    /\ share = [a \in Agents |-> IF a = Root THEN RootBudget ELSE NoShare]
    /\ edges = {}
    /\ forgotten = {}
    /\ stops = 0

-------------------------------------------------------------------------------
(* Reading. *)

ChildrenOf(p) == {a \in Agents \ {Root} : state[a] # "none" /\ parent[a] = p}

\* The tool call of p has not returned.
Delegating(p) == \E a \in ChildrenOf(p) : state[a] = "running"

\* Mutation: the ranks are read the wrong way round.
Widest(S) == CHOOSE l \in S : \A m \in S : m <= l

\* strictest
Strictest(S) == CHOOSE l \in S : \A m \in S : l <= m

\* Mutation: what earlier calls gave away is not counted.
AffordableByCall(p, given, S) ==
    share[p] = NoShare \/ MapThenSumSet(LAMBDA a : given[a], S) <= share[p]

\* validateDelegations, the budget: edges and proposals together.
Affordable(p, given, S) ==
    \/ share[p] = NoShare
    \/ MapThenSumSet(LAMBDA a : share[a], {a \in edges : parent[a] = p})
        + MapThenSumSet(LAMBDA a : given[a], S) <= share[p]

-------------------------------------------------------------------------------
(* Actions. *)

\* delegate: all proposals pass, or none is run.  S are the Goals made for them; each has
\* a share, the level its role has by default, and perhaps one that was proposed.
Delegate(p, S) ==
    /\ state[p] = "running" /\ ~Delegating(p) /\ depth[p] < MaxDepth
    /\ S # {} /\ IsFiniteSet(S) /\ \A a \in S : state[a] = "none"
    /\ \E given \in [S -> Shares], role \in [S -> Levels], proposed \in [S -> Levels] :
        /\ Affordable(p, given, S)
        /\ \A a \in S : proposed[a] <= ceiling[p]
        /\ ceiling' = [a \in Agents |->
                        IF a \in S THEN Strictest({ceiling[p], role[a], proposed[a]})
                        ELSE ceiling[a]]
        /\ share' = [a \in Agents |-> IF a \in S THEN given[a] ELSE share[a]]
    /\ state' = [a \in Agents |-> IF a \in S THEN "running" ELSE state[a]]
    /\ parent' = [a \in Agents |-> IF a \in S THEN p ELSE parent[a]]
    /\ depth' = [a \in Agents |-> IF a \in S THEN depth[p] + 1 ELSE depth[a]]
    /\ UNCHANGED <<edges, forgotten, stops>>

\* A run ends when its own call has returned; that of a child leaves an edge.
RunOver(a) ==
    /\ state[a] = "running" /\ ~Delegating(a)
    /\ state' = [state EXCEPT ![a] = "ended"]
    /\ edges' = IF a = Root THEN edges ELSE edges \cup {a}
    /\ UNCHANGED <<goalRows, forgotten, stops>>

\* The run throws, or its edge cannot be saved: a result without a Goal.
RunThrows(a) ==
    /\ state[a] = "running" /\ ~Delegating(a)
    /\ state' = [state EXCEPT ![a] = "ended"]
    /\ forgotten' = IF a = Root THEN forgotten ELSE forgotten \cup {parent[a]}
    /\ UNCHANGED <<goalRows, edges, stops>>

\* The process ends: the depth of a run was in memory only.
ProcessStops ==
    /\ stops < MaxStops
    /\ stops' = stops + 1
    /\ state' = [a \in Agents |-> IF state[a] = "running" THEN "ended" ELSE state[a]]
    /\ forgotten' = forgotten \cup {parent[a] : a \in {c \in Agents \ {Root} : state[c] = "running"}}
    /\ UNCHANGED <<goalRows, edges>>

\* A person resumes the first Goal: the rows are as they were, the depth starts anew.
ResumeRoot ==
    /\ state[Root] = "ended"
    /\ state' = [state EXCEPT ![Root] = "running"]
    /\ depth' = [depth EXCEPT ![Root] = 0]
    /\ UNCHANGED <<parent, ceiling, share, edges, forgotten, stops>>

DelNext ==
    \/ \E p \in Agents, S \in SUBSET Agents : Delegate(p, S)
    \/ \E a \in Agents : RunOver(a) \/ RunThrows(a)
    \/ ProcessStops
    \/ ResumeRoot

DelSpec == DelInit /\ [][DelNext]_delVars

-------------------------------------------------------------------------------
(* Properties. *)

(* Type invariant. *)
DelTypeOK ==
    /\ state \in [Agents -> {"none", "running", "ended"}]
    /\ parent \in [Agents -> Agents]
    /\ depth \in [Agents -> 0 .. MaxDepth]
    /\ ceiling \in [Agents -> Levels]
    /\ share \in [Agents -> Nat]
    /\ edges \subseteq Agents /\ forgotten \subseteq Agents
    /\ stops \in Nat

(* What the children of a Goal were given, over all its calls and those      *)
(* after a restart, is no more than its own budget.  It fails once a child   *)
(* left no edge, because it threw or the process ended: its share is given   *)
(* away a second time.                                                       *)
SharesWithinBudget ==
    \A p \in Agents \ forgotten :
        share[p] # NoShare => MapThenSumSet(LAMBDA a : share[a], ChildrenOf(p)) <= share[p]

(* No child may do more than the Goal that delegated to it, nor more than    *)
(* any above that, whatever its role and its proposal say; and nobody is     *)
(* further than two delegations from the person.                             *)
CeilingNeverRaised ==
    \A a \in Agents \ {Root} :
        state[a] # "none" =>
            /\ ceiling[a] <= ceiling[parent[a]] /\ ceiling[a] <= ceiling[Root]
            /\ depth[a] = depth[parent[a]] + 1 /\ depth[a] <= MaxDepth
===============================================================================
