---------------------------- MODULE MCPolicyRoute ----------------------------
(* Instances of PolicyRoute for model checking. *)
EXTENDS PolicyRoute, FiniteSets, TLC

CONSTANTS a, b, c, d,
    MaxClauses  \* how many clauses of all nodes together are set, at most

MCNames == {a, b, c, d}
MCFewNames == {a, b}
Symmetry == Permutations(MCNames)

MCMatchKinds == {"acl", "source", "destination", "interface", "length"}
MCRouteKinds == {"nexthop", "output-interface", "default-nexthop"}

(* 264 and -250 are narrowed to 8, which is out of range, and 6. *)
MCPrecedenceArgs == {264, -250}

(* 300 and -200 are narrowed to 44 and 56, 100 is out of range. *)
MCDscpArgs == {100, 300, -200}

MCStored == [n \in Names |-> n]

(* The clauses that are set, of every node of every slot. *)
ClausesSet == {<<s, k, cl>> \in Slots \X Indices \X Clauses :
                   policies[s].nodes[k].conf[cl] # Unset}

FewClauses == Cardinality(ClausesSet) <= MaxClauses
==============================================================================
