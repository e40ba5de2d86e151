----------------------------- MODULE PolicyStore -----------------------------
(***************************************************************************)
(* What the policy-based-routing commands of                               *)
(* src/src/frr_core/zebra/policy_route.c promise, without arrays, counters *)
(* or pointers: a set of configured nodes, each known by the policy and    *)
(* the node id it was entered under.                                       *)
(*                                                                         *)
(* A node comes into being empty, changes one clause at a time, and goes   *)
(* only with its whole policy.  No command touches two policies.           *)
(***************************************************************************)
EXTENDS Naturals, FiniteSets

CONSTANTS
    Names,          \* names a policy can be stored under
    NodeIds,        \* node ids
    Clauses,        \* what a node can be configured with
    ClauseRange,    \* ClauseRange[c]: the values of clause c
    Unset,          \* a clause that is not configured
    MaxPolicies,    \* capacity: policies
    MaxNodes        \* capacity: nodes in a policy

VARIABLE store      \* the configured nodes

Actions == {"permit", "deny"}

Policies == {e.policy : e \in store}

NodesOf(p) == {e \in store : e.policy = p}

Init == store = {}

(* A node is entered for the first time: it starts with no clause at all. *)
Enter(p, id, act) ==
    /\ \A e \in NodesOf(p) : e.node # id
    /\ p \notin Policies => Cardinality(Policies) < MaxPolicies
    /\ Cardinality(NodesOf(p)) < MaxNodes
    /\ store' = store \cup {[policy |-> p, node |-> id, action |-> act,
                             conf |-> [c \in Clauses |-> Unset]]}

(* One clause of one node is set, to a value of its range.                 *)
Configure(e, c, v) ==
    store' = (store \ {e}) \cup {[e EXCEPT !.conf[c] = v]}

(* A policy is removed with all of its nodes, and nothing else.            *)
Remove(p) ==
    /\ p \in Policies
    /\ store' = store \ NodesOf(p)

Next ==
    \/ \E p \in Names, id \in NodeIds, act \in Actions : Enter(p, id, act)
    \/ \E e \in store, c \in Clauses : \E v \in ClauseRange[c] : Configure(e, c, v)
    \/ \E p \in Names : Remove(p)

Spec == Init /\ [][Next]_store
==============================================================================
