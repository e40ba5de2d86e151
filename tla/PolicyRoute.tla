----------------------------- MODULE PolicyRoute -----------------------------
(***************************************************************************)
(* Policy-based routing of the Huawei-style CLI,                           *)
(* src/src/frr_core/zebra/policy_route.c.                                  *)
(*                                                                         *)
(* The handlers share static memory: an array of policies, each with an    *)
(* array of nodes, the counts of the slots in use, and two pointers to     *)
(* the policy and the node whose view the operator is in.  Memory is       *)
(* modelled slot by slot, the slots past a count included, because         *)
(* "undo policy-based-route" shifts the array under the pointers and       *)
(* leaves old contents behind for a later command to build upon.           *)
(*                                                                         *)
(* Commands run one at a time (one CLI session); a command that the code   *)
(* refuses before it changes anything is not a step.                       *)
(*                                                                         *)
(* Operators named ..._Faulty are seeded faults: what a definition would   *)
(* be with a plausible slip in the code it models.  No action uses them;   *)
(* they serve to check that the properties notice the slip.                *)
(***************************************************************************)
EXTENDS Integers

CONSTANTS
    Names,           \* policy names an operator may type
    Stored,          \* Stored[n]: what a name[64] field keeps of the name n
    NodeIds,         \* node ids an operator may type
    ActionArgs,      \* permit and deny, as far as the operator types them
    MatchKinds,      \* the if-match commands in use
    RouteKinds,      \* the apply commands that take a name or an address
    Values,          \* their arguments
    PrecedenceArgs,  \* atoi() of the argument of apply ip-precedence
    DscpArgs,        \* atoi() of the argument of apply dscp
    MaxPolicies,     \* 16 in the code
    MaxNodes,        \* 32 in the code
    Unset,           \* a clause whose flag is false
    NoName           \* the empty string of a zeroed slot

ASSUME PolicyRouteAssumption ==
    /\ Stored \in [Names -> Names]
    /\ \A n \in Names : Stored[Stored[n]] = Stored[n]
    /\ NoName \notin Names
    /\ NodeIds \subseteq Nat
    /\ ActionArgs \subseteq {"permit", "deny"}
    /\ MatchKinds \subseteq {"acl", "source", "destination", "interface", "length"}
    /\ RouteKinds \subseteq {"nexthop", "output-interface", "default-nexthop"}
    /\ PrecedenceArgs \subseteq Int
    /\ DscpArgs \subseteq Int
    /\ Unset \notin Values \cup Nat
    /\ MaxPolicies \in Nat \ {0}
    /\ MaxNodes \in Nat \ {0}

(* Every name an operator types is short enough for a name[64] field.      *)
NamesFit == \A n \in Names : Stored[n] = n

VARIABLES
    policies,        \* policies[16], every slot
    policy_count,
    current_policy,  \* slot of the policy pointed to, 0 for NULL
    current_node,    \* slot and index of the node pointed to, NullNode for NULL
    prompt           \* the view named by the last "Entering policy ..." line

vars == <<policies, policy_count, current_policy, current_node, prompt>>

-----------------------------------------------------------------------------
(* The structures. *)

Clauses == MatchKinds \cup RouteKinds \cup {"precedence", "dscp"}
ClauseValues == Values \cup 0 .. 63

(* What a clause may hold, once it is set. *)
ClauseRange == [c \in Clauses |-> CASE c = "precedence" -> 0 .. 7
                                    [] c = "dscp" -> 0 .. 63
                                    [] OTHER -> Values]

PolicyActions == {"permit", "deny"}

NoClauses == [c \in Clauses |-> Unset]

Slots == 1 .. MaxPolicies
Indices == 1 .. MaxNodes

Configurations == {f \in [Clauses -> ClauseValues \cup {Unset}] :
                       \A c \in Clauses : f[c] \in ClauseRange[c] \cup {Unset}}

NodeConfig == [node_id : NodeIds \cup {0}, action : PolicyActions,
               conf : Configurations]

PolicyConfig == [name : Names \cup {NoName}, nodes : [Indices -> NodeConfig],
                 node_count : 0 .. MaxNodes]

Pointers == [slot : 0 .. MaxPolicies, index : 0 .. MaxNodes]
NullNode == [slot |-> 0, index |-> 0]

(* memset(node, 0, ...): POLICY_ACTION_PERMIT is 0. *)
ZeroNode == [node_id |-> 0, action |-> "permit", conf |-> NoClauses]

ZeroPolicy == [name |-> NoName, nodes |-> [k \in Indices |-> ZeroNode],
               node_count |-> 0]

(* Every field is in its range: each clause of each node in its own, so    *)
(* that an argument narrowed to eight bits is still refused when it is out *)
(* of range; the counts and the pointers stay within the arrays.           *)
TypeOK ==
    /\ policies \in [Slots -> PolicyConfig]
    /\ policy_count \in 0 .. MaxPolicies
    /\ current_policy \in 0 .. MaxPolicies
    /\ current_node \in Pointers
    /\ (current_node.slot = 0) <=> (current_node.index = 0)
    /\ prompt \in [policy : Names \cup {NoName}, node : NodeIds \cup {0},
                   action : PolicyActions]

Init ==
    /\ policies = [s \in Slots |-> ZeroPolicy]
    /\ policy_count = 0
    /\ current_policy = 0
    /\ current_node = NullNode
    /\ prompt = [policy |-> NoName, node |-> 0, action |-> "permit"]

-----------------------------------------------------------------------------
(* policy-based-route <policy-name> [permit|deny] node <node-id> *)

(* The linear searches stop at the first match. *)
FoundPolicy(n, s) ==
    /\ s \in 1 .. policy_count
    /\ policies[s].name = n
    /\ \A t \in 1 .. s - 1 : policies[t].name # n

NoPolicy(n) == \A s \in 1 .. policy_count : policies[s].name # n

FoundNode(p, id, k) ==
    /\ k \in 1 .. p.node_count
    /\ p.nodes[k].node_id = id
    /\ \A j \in 1 .. k - 1 : p.nodes[j].node_id # id

(* The last node is not compared. *)
NoNodeIn_Faulty(p, id) == \A k \in 1 .. p.node_count - 1 : p.nodes[k].node_id # id

NoNodeIn(p, id) == \A k \in 1 .. p.node_count : p.nodes[k].node_id # id

(* The memset comes after the assignments. *)
NewNode_Faulty(id, act) == ZeroNode

NewNode(id, act) == [node_id |-> id, action |-> act, conf |-> NoClauses]

(* The view is entered: both pointers are set and the prompt is printed,   *)
(* with the name, the id and the action as they were typed.                *)
EnterView(s, k, n, id, act) ==
    /\ current_policy' = s
    /\ current_node' = [slot |-> s, index |-> k]
    /\ prompt' = [policy |-> n, node |-> id, action |-> act]

(* A node is created without the memset, and a full node table is reported *)
(* after the prompt, with the pointer left where it was.                   *)
CreateNode_Faulty(mem, s, n, id, act) ==
    LET k == mem[s].node_count + 1
    IN  /\ policies' = [mem EXCEPT ![s].nodes[k].node_id = id,
                                   ![s].nodes[k].action = act,
                                   ![s].node_count = k]
        /\ EnterView(s, k, n, id, act)

CreateNode(mem, s, n, id, act) ==
    LET k == mem[s].node_count + 1
    IN  /\ policies' = [mem EXCEPT ![s].nodes[k] = NewNode(id, act),
                                   ![s].node_count = k]
        /\ EnterView(s, k, n, id, act)

NodeTableFull_Faulty(mem, s, n, id, act) ==
    /\ policies' = mem
    /\ current_policy' = s
    /\ prompt' = [policy |-> n, node |-> id, action |-> act]
    /\ UNCHANGED current_node

NodeTableFull(mem, s, n, id, act) ==
    /\ policies' = mem
    /\ current_policy' = s
    /\ current_node' = NullNode
    /\ UNCHANGED prompt

(* The second half of the handler, on memory mem where policy s is found   *)
(* or has just been created: find the node, create it, or run out of room. *)
FindOrCreateNode(mem, s, n, id, act) ==
    \/ \E k \in Indices :
          /\ FoundNode(mem[s], id, k)
          /\ policies' = mem
          /\ EnterView(s, k, n, id, act)
    \/ /\ NoNodeIn(mem[s], id)
       /\ mem[s].node_count < MaxNodes
       /\ CreateNode(mem, s, n, id, act)
    \/ /\ NoNodeIn(mem[s], id)
       /\ mem[s].node_count = MaxNodes
       /\ NodeTableFull(mem, s, n, id, act)

(* A new policy slot is given a name and an empty node array; what the     *)
(* nodes of the slot held before is left in place.                         *)
NewPolicyIn(s, n) == [policies EXCEPT ![s].name = Stored[n], ![s].node_count = 0]

(* With the policy table full, current_policy is NULL but current_node is  *)
(* what it was.                                                            *)
cmd_policy_based_route(n, act, id) ==
    \/ \E s \in Slots :
          /\ FoundPolicy(n, s)
          /\ FindOrCreateNode(policies, s, n, id, act)
          /\ UNCHANGED policy_count
    \/ /\ NoPolicy(n)
       /\ policy_count < MaxPolicies
       /\ policy_count' = policy_count + 1
       /\ FindOrCreateNode(NewPolicyIn(policy_count + 1, n), policy_count + 1, n, id, act)
    \/ /\ NoPolicy(n)
       /\ policy_count = MaxPolicies
       /\ current_policy' = 0
       /\ UNCHANGED <<policies, policy_count, current_node, prompt>>

-----------------------------------------------------------------------------
(* The commands of the policy node view: each sets one flag and its value  *)
(* in the node current_node points to, wherever that is by now.            *)

SetClause(c, v) ==
    /\ current_node # NullNode
    /\ policies' = [policies EXCEPT
                       ![current_node.slot].nodes[current_node.index].conf[c] = v]
    /\ UNCHANGED <<policy_count, current_policy, current_node, prompt>>

(* if-match acl, ip-address source and destination, interface and          *)
(* packet-length; the two bounds of a length are one value.                *)
cmd_policy_if_match(kind, v) == SetClause(kind, v)

(* apply ip-address next-hop, output-interface, default next-hop *)
cmd_policy_apply_route(kind, v) == SetClause(kind, v)

(* The range check is missing. *)
cmd_policy_apply_precedence_Faulty(arg) == SetClause("precedence", arg % 256)

(* The argument is narrowed to uint8_t before it is compared. *)
cmd_policy_apply_precedence(arg) ==
    /\ arg % 256 <= 7
    /\ SetClause("precedence", arg % 256)

cmd_policy_apply_dscp(arg) ==
    /\ arg % 256 <= 63
    /\ SetClause("dscp", arg % 256)

-----------------------------------------------------------------------------
(* The shift stops one slot early. *)
cmd_undo_policy_Faulty(n) ==
    \E s \in Slots :
        /\ FoundPolicy(n, s)
        /\ policies' = [t \in Slots |-> IF t \in s .. policy_count - 2
                                        THEN policies[t + 1]
                                        ELSE policies[t]]
        /\ policy_count' = policy_count - 1
        /\ UNCHANGED <<current_policy, current_node, prompt>>

(* undo policy-based-route <policy-name>: the slots behind the policy move *)
(* down by one, the last one keeps its contents, the pointers stay.        *)
cmd_undo_policy(n) ==
    \E s \in Slots :
        /\ FoundPolicy(n, s)
        /\ policies' = [t \in Slots |-> IF t \in s .. policy_count - 1
                                        THEN policies[t + 1]
                                        ELSE policies[t]]
        /\ policy_count' = policy_count - 1
        /\ UNCHANGED <<current_policy, current_node, prompt>>

-----------------------------------------------------------------------------
Next ==
    \/ \E n \in Names, act \in ActionArgs, id \in NodeIds :
          cmd_policy_based_route(n, act, id)
    \/ \E kind \in MatchKinds, v \in Values : cmd_policy_if_match(kind, v)
    \/ \E kind \in RouteKinds, v \in Values : cmd_policy_apply_route(kind, v)
    \/ \E arg \in PrecedenceArgs : cmd_policy_apply_precedence(arg)
    \/ \E arg \in DscpArgs : cmd_policy_apply_dscp(arg)
    \/ \E n \in Names : cmd_undo_policy(n)

Spec == Init /\ [][Next]_vars

-----------------------------------------------------------------------------
(* Safety. *)

Live == 1 .. policy_count
LiveNodes(s) == 1 .. policies[s].node_count

(* A policy is found or created, never created twice: the policies in use  *)
(* have different names, whatever was removed and shifted before.          *)
UniqueNames ==
    \A s, t \in Live : policies[s].name = policies[t].name => s = t

(* Within a policy the node ids differ, so that the search for a node and  *)
(* the node the operator means are the same.                               *)
UniqueNodeIds ==
    \A s \in Live : \A j, k \in LiveNodes(s) :
        policies[s].nodes[j].node_id = policies[s].nodes[k].node_id => j = k

(* A policy in use has at least one node, and its slots hold what some     *)
(* operator entered: the shift of "undo" brings no zeroed or unnamed slot  *)
(* into the table.                                                         *)
LiveSlotsFilled ==
    \A s \in Live :
        /\ policies[s].name # NoName
        /\ policies[s].node_count > 0
        /\ \A k \in LiveNodes(s) : policies[s].nodes[k].node_id \in NodeIds

(* The slot the node pointer refers to still holds the policy the prompt   *)
(* names.                                                                  *)
InPromptedPolicy ==
    /\ current_node # NullNode
    /\ current_node.slot \in Live
    /\ policies[current_node.slot].name = prompt.policy

(* As long as the policy of the prompt is still where the node pointer     *)
(* looks, the pointer is the very node the prompt names: only the removal  *)
(* of a policy, never an entry, a full table or a refused command, can     *)
(* make the view and the node it edits part.                               *)
ViewCoherent ==
    InPromptedPolicy =>
        /\ current_node.index \in LiveNodes(current_node.slot)
        /\ policies[current_node.slot].nodes[current_node.index].node_id = prompt.node

(* Shifts only move a policy down: the policy of the prompt, if it is      *)
(* still there, is never behind the slot the node pointer looks at.        *)
PromptNotAhead ==
    current_node # NullNode =>
        \A t \in Live : policies[t].name = prompt.policy => t <= current_node.slot

(* The inductive invariant behind the safety properties. *)
IInv ==
    /\ TypeOK
    /\ UniqueNames
    /\ UniqueNodeIds
    /\ LiveSlotsFilled
    /\ ViewCoherent
    /\ PromptNotAhead

(* Whatever clause a command changes, it changes it in the node the prompt *)
(* names.  The code does not keep this: "undo" shifts the policies under   *)
(* current_node, so a later if-match or apply reaches the policy that has  *)
(* moved into the slot, under a prompt that still shows the old one.       *)
EditsReachPromptedNode ==
    [][\A s \in Live : \A k \in LiveNodes(s) :
          LET before == policies[s].nodes[k]
              after  == policies'[s].nodes[k]
          IN  /\ policy_count' = policy_count
              /\ after.conf # before.conf
              => /\ policies[s].name = prompt.policy
                 /\ before.node_id = prompt.node]_vars

-----------------------------------------------------------------------------
(* The nodes in use, as the abstract specification sees them. *)

StoredNodes ==
    UNION {{[policy |-> policies[s].name,
             node   |-> policies[s].nodes[k].node_id,
             action |-> policies[s].nodes[k].action,
             conf   |-> policies[s].nodes[k].conf] : k \in LiveNodes(s)} : s \in Live}

Abstract == INSTANCE PolicyStore WITH store <- StoredNodes

(* The array, the shift and the pointers implement the store of            *)
(* PolicyStore: an entry starts empty even in a slot that was used before, *)
(* an edit changes one clause of one node, and removing a policy leaves    *)
(* every other policy exactly as it was.                                   *)
ImplementsStore == Abstract!Spec
==============================================================================
