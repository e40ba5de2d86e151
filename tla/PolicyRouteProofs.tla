-------------------------- MODULE PolicyRouteProofs --------------------------
(***************************************************************************)
(* Proofs about PolicyRoute, for any number of policies, nodes and names.  *)
(*                                                                         *)
(* The hypothesis NamesFit says that no operator types a name longer than  *)
(* a name[64] field.  Without it the find-or-create search compares the    *)
(* full name with its stored prefix, and the names are not unique.  What   *)
(* is about the memory itself, MemoryInv, needs no such hypothesis.        *)
(***************************************************************************)
EXTENDS PolicyRoute, FiniteSetTheorems, TLAPS

(* The part of the invariant that holds whatever names are typed. *)
MemoryInv == TypeOK /\ UniqueNodeIds /\ LiveSlotsFilled

(* The part that is about names: what is searched for is found. *)
NamesInv == UniqueNames /\ ViewCoherent /\ PromptNotAhead

(* The two parts are the invariant. *)
LEMMA TwoParts == IInv <=> MemoryInv /\ NamesInv
  BY DEF IInv, MemoryInv, NamesInv

(* The memory and its parts have the types of their fields. *)
LEMMA TypeFacts ==
    ASSUME TypeOK
    PROVE  /\ policies \in [Slots -> PolicyConfig]
           /\ policy_count \in 0 .. MaxPolicies
           /\ \A s \in Live : s \in Slots
           /\ \A s \in Slots : LiveNodes(s) \subseteq Indices
  <1>1. policies \in [Slots -> PolicyConfig] /\ policy_count \in 0 .. MaxPolicies
    BY DEF TypeOK
  <1>2. \A s \in Live : s \in Slots
    BY <1>1, PolicyRouteAssumption DEF Live, Slots
  <1>3. \A s \in Slots : policies[s].node_count \in 0 .. MaxNodes
    BY <1>1 DEF PolicyConfig
  <1>4. \A s \in Slots : LiveNodes(s) \subseteq Indices
    BY <1>3, PolicyRouteAssumption DEF LiveNodes, Indices
  <1> QED BY <1>1, <1>2, <1>4

(* The ranges of the clauses. *)
LEMMA Ranges ==
    /\ \A kind \in MatchKinds \cup RouteKinds :
          kind \in Clauses /\ ClauseRange[kind] = Values
    /\ "precedence" \in Clauses /\ ClauseRange["precedence"] = 0 .. 7
    /\ "dscp" \in Clauses /\ ClauseRange["dscp"] = 0 .. 63
    /\ \A cl \in Clauses : ClauseRange[cl] \subseteq ClauseValues
  <1>1. \A kind \in MatchKinds \cup RouteKinds : kind # "precedence" /\ kind # "dscp"
    BY PolicyRouteAssumption
  <1>2. /\ ClauseRange["precedence"] = 0 .. 7
        /\ ClauseRange["dscp"] = 0 .. 63
        /\ \A cl \in Clauses : cl # "precedence" /\ cl # "dscp" => ClauseRange[cl] = Values
    BY DEF ClauseRange, Clauses
  <1>3. 0 .. 7 \subseteq ClauseValues /\ 0 .. 63 \subseteq ClauseValues
        /\ Values \subseteq ClauseValues
    BY DEF ClauseValues
  <1>4. \A cl \in Clauses : ClauseRange[cl] \subseteq ClauseValues
    BY <1>2, <1>3
  <1> QED BY <1>1, <1>2, <1>4 DEF Clauses

(* A configuration stays one when a clause gets a value of its range. *)
LEMMA Configured ==
    /\ NoClauses \in Configurations
    /\ \A f \in Configurations, cl \in Clauses : \A v \in ClauseRange[cl] :
          [f EXCEPT ![cl] = v] \in Configurations
  <1>1. NoClauses \in Configurations
    BY DEF NoClauses, Configurations
  <1>2. ASSUME NEW f \in Configurations, NEW cl \in Clauses, NEW v \in ClauseRange[cl]
        PROVE  [f EXCEPT ![cl] = v] \in Configurations
    <2>1. v \in ClauseValues
      BY Ranges
    <2>2. /\ f \in [Clauses -> ClauseValues \cup {Unset}]
          /\ \A d \in Clauses : f[d] \in ClauseRange[d] \cup {Unset}
      BY DEF Configurations
    <2> QED BY <2>1, <2>2 DEF Configurations
  <1> QED BY <1>1, <1>2

(* Freshly zeroed and freshly created nodes are nodes. *)
LEMMA NewNodeType ==
    ASSUME NEW id \in NodeIds, NEW act \in ActionArgs
    PROVE  /\ ZeroNode \in NodeConfig
           /\ NewNode(id, act) \in NodeConfig
  <1>1. NoClauses \in Configurations
    BY Configured
  <1>2. act \in PolicyActions
    BY PolicyRouteAssumption DEF PolicyActions
  <1> QED BY <1>1, <1>2 DEF ZeroNode, NewNode, NodeConfig, PolicyActions

(* The initial state satisfies the invariant: there is nothing in the      *)
(* table and no view has been entered.                                     *)
LEMMA InitIInv == Init => IInv
  <1> SUFFICES ASSUME Init PROVE IInv
    OBVIOUS
  <1>1. NoClauses \in Configurations
    BY Configured
  <1>2. ZeroNode \in NodeConfig
    BY <1>1 DEF ZeroNode, NodeConfig, PolicyActions
  <1>3. ZeroPolicy \in PolicyConfig
    BY <1>2, PolicyRouteAssumption DEF ZeroPolicy, PolicyConfig
  <1>4. TypeOK
    <2>1. policies \in [Slots -> PolicyConfig]
      BY <1>3 DEF Init
    <2>2. policy_count \in 0 .. MaxPolicies /\ current_policy \in 0 .. MaxPolicies
      BY PolicyRouteAssumption DEF Init
    <2>3. /\ current_node \in Pointers
          /\ (current_node.slot = 0) <=> (current_node.index = 0)
      BY PolicyRouteAssumption DEF Init, Pointers, NullNode
    <2>4. prompt \in [policy : Names \cup {NoName}, node : NodeIds \cup {0},
                      action : PolicyActions]
      BY DEF Init, PolicyActions
    <2> QED BY <2>1, <2>2, <2>3, <2>4 DEF TypeOK
  <1>5. Live = {}
    BY DEF Init, Live
  <1>6. UniqueNames /\ UniqueNodeIds /\ LiveSlotsFilled
    BY <1>5 DEF UniqueNames, UniqueNodeIds, LiveSlotsFilled
  <1>7. ViewCoherent /\ PromptNotAhead
    BY <1>5 DEF Init, ViewCoherent, InPromptedPolicy, PromptNotAhead
  <1> QED BY <1>4, <1>6, <1>7 DEF IInv

(* Setting a clause of the node pointed to disturbs no name, no id and no  *)
(* count.                                                                  *)
LEMMA SetClauseStep ==
    ASSUME MemoryInv, NEW c \in Clauses, NEW v \in ClauseRange[c], SetClause(c, v)
    PROVE  MemoryInv' /\ (NamesInv => NamesInv')
  <1> DEFINE cs == current_node.slot
             ci == current_node.index
             n2 == [policies[cs].nodes[ci] EXCEPT !.conf[c] = v]
             p2 == [policies[cs] EXCEPT !.nodes = [@ EXCEPT ![ci] = n2]]
  <1>1. TypeOK BY DEF MemoryInv
  <1>2. cs \in Slots /\ ci \in Indices
    BY <1>1, PolicyRouteAssumption
       DEF TypeOK, SetClause, Pointers, NullNode, Slots, Indices
  <1>3. policies[cs] \in PolicyConfig
    BY <1>1, <1>2 DEF TypeOK
  <1>4. policies[cs].nodes[ci] \in NodeConfig
    BY <1>2, <1>3 DEF PolicyConfig
  <1>5. /\ n2 \in NodeConfig
        /\ n2.node_id = policies[cs].nodes[ci].node_id
    BY <1>4, Configured DEF NodeConfig
  <1>6. /\ p2 \in PolicyConfig
        /\ p2.name = policies[cs].name
        /\ p2.node_count = policies[cs].node_count
        /\ p2.nodes = [policies[cs].nodes EXCEPT ![ci] = n2]
    BY <1>2, <1>3, <1>5 DEF PolicyConfig
  <1>7. policies' = [policies EXCEPT ![cs] = p2]
    BY DEF SetClause
  <1>8. /\ policies' \in [Slots -> PolicyConfig]
        /\ \A s \in Slots : /\ policies'[s].name = policies[s].name
                            /\ policies'[s].node_count = policies[s].node_count
                            /\ \A k \in Indices : policies'[s].nodes[k].node_id
                                                    = policies[s].nodes[k].node_id
    <2>1. \A s \in Slots : s # cs => policies'[s] = policies[s]
      BY <1>1, <1>7 DEF TypeOK
    <2>2. policies'[cs] = p2
      BY <1>1, <1>2, <1>7 DEF TypeOK
    <2>3. policies' \in [Slots -> PolicyConfig]
      BY <1>1, <1>6, <1>7 DEF TypeOK
    <2>4. \A k \in Indices : p2.nodes[k].node_id = policies[cs].nodes[k].node_id
      BY <1>3, <1>5, <1>6 DEF PolicyConfig
    <2> HIDE DEF p2
    <2> QED BY <1>6, <2>1, <2>2, <2>3, <2>4
  <1>9. UNCHANGED <<policy_count, current_policy, current_node, prompt>>
    BY DEF SetClause
  <1>10. TypeOK'
    BY <1>1, <1>8, <1>9 DEF TypeOK
  <1>11. /\ Live' = Live
         /\ \A s \in Slots : LiveNodes(s)' = LiveNodes(s)
    BY <1>8, <1>9 DEF Live, LiveNodes
  <1>12. /\ \A s \in Live : s \in Slots
         /\ \A s \in Slots : LiveNodes(s) \subseteq Indices
    BY <1>1, TypeFacts
  <1> HIDE DEF cs, ci, n2, p2
  <1>13. ASSUME NamesInv PROVE UniqueNames'
    BY <1>8, <1>11, <1>12, <1>13 DEF NamesInv, UniqueNames
  <1>14. UniqueNodeIds'
    BY <1>8, <1>11, <1>12 DEF MemoryInv, UniqueNodeIds
  <1>15. LiveSlotsFilled'
    BY <1>8, <1>11, <1>12 DEF MemoryInv, LiveSlotsFilled
  <1>16. ASSUME NamesInv PROVE ViewCoherent'
    BY <1>8, <1>9, <1>11, <1>12, <1>16 DEF NamesInv, ViewCoherent, InPromptedPolicy
  <1>17. ASSUME NamesInv PROVE PromptNotAhead'
    BY <1>8, <1>9, <1>11, <1>12, <1>17 DEF NamesInv, PromptNotAhead
  <1> QED BY <1>10, <1>13, <1>14, <1>15, <1>16, <1>17 DEF MemoryInv, NamesInv

(* Removing a policy moves whole policies; the pointer that stays behind   *)
(* cannot come to look at the policy of the prompt with the wrong index,   *)
(* because that policy was at or before the pointer's slot.                *)
LEMMA UndoStep ==
    ASSUME MemoryInv, NEW n \in Names, cmd_undo_policy(n)
    PROVE  MemoryInv' /\ (NamesInv => NamesInv')
  <1>1. PICK s \in Slots :
          /\ FoundPolicy(n, s)
          /\ policies' = [t \in Slots |-> IF t \in s .. policy_count - 1
                                          THEN policies[t + 1]
                                          ELSE policies[t]]
          /\ policy_count' = policy_count - 1
          /\ UNCHANGED <<current_policy, current_node, prompt>>
    BY DEF cmd_undo_policy
  <1>2. TypeOK BY DEF MemoryInv
  <1>3. s \in 1 .. policy_count /\ policy_count \in 1 .. MaxPolicies
    BY <1>1, <1>2 DEF TypeOK, FoundPolicy
  <1> DEFINE From(t) == IF t \in s .. policy_count - 1 THEN t + 1 ELSE t
  <1>4. \A t \in Slots : From(t) \in Slots /\ policies'[t] = policies[From(t)]
    BY <1>1, <1>3, PolicyRouteAssumption DEF Slots
  <1>5. /\ Live' \subseteq Live
        /\ \A t \in Live' : From(t) \in Live /\ t <= From(t)
        /\ \A t, u \in Live' : From(t) = From(u) => t = u
    BY <1>1, <1>3 DEF Live
  <1>6. /\ \A t \in Live : t \in Slots
        /\ \A t \in Slots : LiveNodes(t)' = LiveNodes(From(t))
    BY <1>2, <1>4, TypeFacts DEF LiveNodes
  <1>7. policies' \in [Slots -> PolicyConfig]
    BY <1>1, <1>2, <1>4 DEF TypeOK
  <1>8. TypeOK'
    BY <1>1, <1>2, <1>3, <1>7, PolicyRouteAssumption DEF TypeOK
  <1> HIDE DEF From
  <1>9. ASSUME NamesInv PROVE UniqueNames'
    BY <1>4, <1>5, <1>6, <1>9 DEF NamesInv, UniqueNames
  <1>10. UniqueNodeIds'
    BY <1>4, <1>5, <1>6 DEF MemoryInv, UniqueNodeIds
  <1>11. LiveSlotsFilled'
    <2> SUFFICES ASSUME NEW t \in Live'
                 PROVE  /\ policies'[t].name # NoName
                        /\ policies'[t].node_count > 0
                        /\ \A k \in LiveNodes(t)' : policies'[t].nodes[k].node_id \in NodeIds
      BY DEF LiveSlotsFilled
    <2>1. t \in Slots /\ From(t) \in Live
      BY <1>5, <1>6
    <2> QED BY <2>1, <1>4, <1>6 DEF MemoryInv, LiveSlotsFilled
  <1>12. ASSUME NamesInv PROVE PromptNotAhead'
    <2> SUFFICES ASSUME current_node # NullNode, NEW t \in Live',
                        policies'[t].name = prompt.policy
                 PROVE  t <= current_node.slot
      BY <1>1 DEF PromptNotAhead
    <2>1. From(t) \in Live /\ t \in Slots /\ policies[From(t)].name = prompt.policy
      BY <1>4, <1>5, <1>6
    <2>2. From(t) <= current_node.slot
      BY <1>12, <2>1 DEF NamesInv, PromptNotAhead
    <2>3. t <= From(t)
      BY <1>5
    <2> QED BY <1>2, <2>1, <2>2, <2>3, <1>3 DEF TypeOK, Pointers, Live
  <1>13. ASSUME NamesInv PROVE ViewCoherent'
    <2> SUFFICES ASSUME InPromptedPolicy'
                 PROVE  /\ current_node.index \in LiveNodes(current_node.slot)'
                        /\ policies'[current_node.slot].nodes[current_node.index].node_id
                             = prompt.node
      BY <1>1 DEF ViewCoherent
    <2> DEFINE cs == current_node.slot
    <2>1. /\ current_node # NullNode
          /\ cs \in Live'
          /\ policies'[cs].name = prompt.policy
      BY <1>1 DEF InPromptedPolicy
    <2>2. cs \in Slots /\ From(cs) \in Live /\ policies[From(cs)].name = prompt.policy
      BY <2>1, <1>4, <1>5, <1>6
    <2>3. From(cs) <= cs
      BY <1>13, <2>1, <2>2 DEF NamesInv, PromptNotAhead
    <2>4. From(cs) = cs
      BY <2>1, <2>3, <1>3, <1>5 DEF From, Live
    <2>5. InPromptedPolicy
      BY <2>1, <2>2, <2>4 DEF InPromptedPolicy
    <2>6. /\ current_node.index \in LiveNodes(cs)
          /\ policies[cs].nodes[current_node.index].node_id = prompt.node
      BY <1>13, <2>5 DEF NamesInv, ViewCoherent
    <2>7. policies'[cs] = policies[cs]
      BY <2>2, <2>4, <1>4
    <2> QED BY <2>6, <2>7, <1>1 DEF LiveNodes
  <1> QED BY <1>8, <1>9, <1>10, <1>11, <1>12, <1>13 DEF MemoryInv, NamesInv

(* The second half of cmd_policy_based_route, on a memory in which the     *)
(* policy is in place.  Only the policy being entered may still be without *)
(* a node.                                                                 *)
LEMMA FindOrCreateNodeStep ==
    ASSUME TypeOK,
           NEW mem \in [Slots -> PolicyConfig],
           NEW cnt \in 1 .. MaxPolicies, policy_count' = cnt,
           NEW s \in 1 .. cnt,
           NEW n \in Names, NEW id \in NodeIds, NEW act \in ActionArgs,
           \A t \in 1 .. cnt : \A j, k \in 1 .. mem[t].node_count :
               mem[t].nodes[j].node_id = mem[t].nodes[k].node_id => j = k,
           \A t \in 1 .. cnt :
               /\ mem[t].name # NoName
               /\ t # s => mem[t].node_count > 0
               /\ \A k \in 1 .. mem[t].node_count : mem[t].nodes[k].node_id \in NodeIds,
           FindOrCreateNode(mem, s, n, id, act)
    PROVE  /\ MemoryInv'
           /\ /\ mem[s].name = n
              /\ \A t, u \in 1 .. cnt : mem[t].name = mem[u].name => t = u
              => NamesInv'
  <1> DEFINE Apart == /\ mem[s].name = n
                      /\ \A t, u \in 1 .. cnt : mem[t].name = mem[u].name => t = u
  <1>1. /\ s \in Slots
        /\ \A t \in 1 .. cnt : t \in Slots
        /\ act \in PolicyActions
        /\ id \in NodeIds
        /\ Live' = 1 .. cnt
    BY PolicyRouteAssumption DEF Slots, Live, PolicyActions
  <1>2. /\ mem[s].node_count \in 0 .. MaxNodes
        /\ mem[s].nodes \in [Indices -> NodeConfig]
        /\ 1 .. mem[s].node_count \subseteq Indices
    <2>1. mem[s] \in PolicyConfig
      BY <1>1
    <2>2. mem[s].node_count \in 0 .. MaxNodes /\ mem[s].nodes \in [Indices -> NodeConfig]
      BY <2>1 DEF PolicyConfig
    <2> QED BY <2>2, PolicyRouteAssumption DEF Indices
  <1> USE DEF LiveNodes
  <1>3. CASE \E k \in Indices : /\ FoundNode(mem[s], id, k)
                                /\ policies' = mem
                                /\ EnterView(s, k, n, id, act)
    <2>1. PICK k \in Indices : /\ FoundNode(mem[s], id, k)
                               /\ policies' = mem
                               /\ EnterView(s, k, n, id, act)
      BY <1>3
    <2>2. k \in 1 .. mem[s].node_count /\ mem[s].nodes[k].node_id = id
      BY <2>1 DEF FoundNode
    <2>3. /\ current_policy' = s
          /\ current_node' = [slot |-> s, index |-> k]
          /\ prompt' = [policy |-> n, node |-> id, action |-> act]
          /\ policies' = mem
      BY <2>1 DEF EnterView
    <2>4. TypeOK'
      BY <1>1, <2>1, <2>3, PolicyRouteAssumption DEF TypeOK, Pointers, Slots, Indices
    <2>5. UniqueNodeIds' /\ (Apart => UniqueNames')
      BY <1>1, <2>3 DEF UniqueNames, UniqueNodeIds
    <2>6. LiveSlotsFilled'
      BY <1>1, <1>2, <2>2, <2>3 DEF LiveSlotsFilled
    <2>7. ViewCoherent'
      BY <1>1, <2>2, <2>3 DEF ViewCoherent
    <2>8. Apart => PromptNotAhead'
      BY <1>1, <2>3 DEF PromptNotAhead
    <2> QED BY <2>4, <2>5, <2>6, <2>7, <2>8 DEF MemoryInv, NamesInv
  <1>4. CASE /\ NoNodeIn(mem[s], id)
             /\ mem[s].node_count < MaxNodes
             /\ CreateNode(mem, s, n, id, act)
    <2> DEFINE k == mem[s].node_count + 1
               p2 == [mem[s] EXCEPT !.nodes = [@ EXCEPT ![k] = NewNode(id, act)],
                                    !.node_count = k]
    <2>1. k \in Indices
      BY <1>2, <1>4, PolicyRouteAssumption DEF Indices
    <2>2. /\ NewNode(id, act) \in NodeConfig
          /\ NewNode(id, act).node_id = id
      BY NewNodeType DEF NewNode
    <2>3. mem[s] \in PolicyConfig
      BY <1>1
    <2>4. /\ p2 \in PolicyConfig
          /\ p2.name = mem[s].name
          /\ p2.node_count = k
          /\ p2.nodes = [mem[s].nodes EXCEPT ![k] = NewNode(id, act)]
      <3>1. k \in 0 .. MaxNodes
        BY <2>1, PolicyRouteAssumption DEF Indices
      <3>2. [mem[s].nodes EXCEPT ![k] = NewNode(id, act)] \in [Indices -> NodeConfig]
        BY <1>2, <2>1, <2>2
      <3> HIDE DEF k
      <3> QED BY <2>3, <3>1, <3>2 DEF PolicyConfig
    <2>5. policies' = [mem EXCEPT ![s] = p2]
      BY <1>1, <1>4 DEF CreateNode
    <2>6. /\ current_policy' = s
          /\ current_node' = [slot |-> s, index |-> k]
          /\ prompt' = [policy |-> n, node |-> id, action |-> act]
      BY <1>4 DEF CreateNode, EnterView
    <2>7. /\ policies'[s] = p2
          /\ \A t \in Slots : t # s => policies'[t] = mem[t]
          /\ policies' \in [Slots -> PolicyConfig]
      BY <1>1, <2>4, <2>5
    <2> HIDE DEF p2
    <2>8. /\ p2.nodes[k].node_id = id
          /\ \A j \in 1 .. mem[s].node_count : /\ j # k
                                              /\ p2.nodes[j] = mem[s].nodes[j]
                                              /\ p2.nodes[j].node_id # id
          /\ \A j \in 1 .. p2.node_count : j = k \/ j \in 1 .. mem[s].node_count
      BY <1>1, <1>2, <1>4, <2>1, <2>2, <2>4 DEF NoNodeIn
    <2>9. TypeOK'
      BY <1>1, <2>1, <2>6, <2>7, PolicyRouteAssumption DEF TypeOK, Pointers, Slots, Indices
    <2> HIDE DEF k
    <2>10. Apart => UniqueNames'
      BY <1>1, <2>4, <2>7 DEF UniqueNames
    <2>11. UniqueNodeIds'
      <3> SUFFICES ASSUME NEW t \in 1 .. cnt,
                          NEW i \in LiveNodes(t)', NEW j \in LiveNodes(t)',
                          policies'[t].nodes[i].node_id = policies'[t].nodes[j].node_id
                   PROVE  i = j
        BY <1>1 DEF UniqueNodeIds
      <3>1. CASE t = s
        BY <3>1, <2>7, <2>8
      <3>2. CASE t # s
        BY <3>2, <1>1, <2>7
      <3> QED BY <3>1, <3>2
    <2>12. LiveSlotsFilled'
      <3> SUFFICES ASSUME NEW t \in 1 .. cnt
                   PROVE  /\ policies'[t].name # NoName
                          /\ policies'[t].node_count > 0
                          /\ \A j \in LiveNodes(t)' : policies'[t].nodes[j].node_id \in NodeIds
        BY <1>1 DEF LiveSlotsFilled
      <3>1. CASE t = s
        <4>1. p2.name # NoName
          BY <2>4, PolicyRouteAssumption
        <4>2. p2.node_count > 0
          BY <2>1, <2>4, PolicyRouteAssumption DEF Indices
        <4>3. \A j \in 1 .. p2.node_count : p2.nodes[j].node_id \in NodeIds
          BY <1>1, <2>8
        <4> QED BY <3>1, <2>7, <4>1, <4>2, <4>3
      <3>2. CASE t # s
        BY <3>2, <1>1, <2>7
      <3> QED BY <3>1, <3>2
    <2>13. ViewCoherent'
      <3>1. k \in 1 .. p2.node_count
        BY <2>1, <2>4, PolicyRouteAssumption DEF Indices
      <3>2. /\ current_node'.slot = s
            /\ current_node'.index = k
            /\ prompt'.node = id
        BY <2>6
      <3> QED BY <2>7, <2>8, <3>1, <3>2 DEF ViewCoherent
    <2>14. Apart => PromptNotAhead'
      BY <1>1, <2>4, <2>6, <2>7 DEF PromptNotAhead
    <2> QED BY <2>9, <2>10, <2>11, <2>12, <2>13, <2>14 DEF MemoryInv, NamesInv
  <1>5. CASE /\ NoNodeIn(mem[s], id)
             /\ mem[s].node_count = MaxNodes
             /\ NodeTableFull(mem, s, n, id, act)
    <2>1. /\ policies' = mem
          /\ current_policy' = s
          /\ current_node' = NullNode
          /\ prompt' = prompt
      BY <1>5 DEF NodeTableFull
    <2>2. TypeOK'
      BY <1>1, <2>1, PolicyRouteAssumption DEF TypeOK, Pointers, NullNode, Slots
    <2>3. UniqueNodeIds' /\ (Apart => UniqueNames')
      BY <1>1, <2>1 DEF UniqueNames, UniqueNodeIds
    <2>4. LiveSlotsFilled'
      BY <1>1, <1>2, <1>5, <2>1, PolicyRouteAssumption DEF LiveSlotsFilled
    <2>5. ViewCoherent' /\ PromptNotAhead'
      BY <2>1 DEF ViewCoherent, InPromptedPolicy, PromptNotAhead
    <2> QED BY <2>2, <2>3, <2>4, <2>5 DEF MemoryInv, NamesInv
  <1> QED BY <1>3, <1>4, <1>5 DEF FindOrCreateNode

(* Entering a policy view: the policy is found, created, or there is no    *)
(* room for it.                                                            *)
LEMMA BasedRouteStep ==
    ASSUME MemoryInv,
           NEW n \in Names, NEW act \in ActionArgs, NEW id \in NodeIds,
           cmd_policy_based_route(n, act, id)
    PROVE  MemoryInv' /\ (NamesFit /\ NamesInv => NamesInv')
  <1>1. TypeOK BY DEF MemoryInv
  <1>2. /\ policies \in [Slots -> PolicyConfig]
        /\ policy_count \in 0 .. MaxPolicies
        /\ \A t \in Live : t \in Slots
    BY <1>1, TypeFacts
  <1>3. CASE \E s \in Slots : /\ FoundPolicy(n, s)
                              /\ FindOrCreateNode(policies, s, n, id, act)
                              /\ UNCHANGED policy_count
    <2>1. PICK s \in Slots : /\ FoundPolicy(n, s)
                             /\ FindOrCreateNode(policies, s, n, id, act)
                             /\ UNCHANGED policy_count
      BY <1>3
    <2>2. /\ s \in 1 .. policy_count
          /\ policies[s].name = n
          /\ policy_count' = policy_count
          /\ policy_count \in 1 .. MaxPolicies
      BY <1>2, <2>1 DEF FoundPolicy
    <2>3. ASSUME NamesInv
          PROVE  \A t, u \in 1 .. policy_count : policies[t].name = policies[u].name => t = u
      BY <2>3 DEF NamesInv, UniqueNames, Live
    <2>4. \A t \in 1 .. policy_count : \A j, k \in 1 .. policies[t].node_count :
              policies[t].nodes[j].node_id = policies[t].nodes[k].node_id => j = k
      BY DEF MemoryInv, UniqueNodeIds, Live, LiveNodes
    <2>5. \A t \in 1 .. policy_count :
              /\ policies[t].name # NoName
              /\ t # s => policies[t].node_count > 0
              /\ \A k \in 1 .. policies[t].node_count : policies[t].nodes[k].node_id \in NodeIds
      BY DEF MemoryInv, LiveSlotsFilled, Live, LiveNodes
    <2> QED BY <1>1, <1>2, <2>1, <2>2, <2>3, <2>4, <2>5, FindOrCreateNodeStep
  <1>4. CASE /\ NoPolicy(n)
             /\ policy_count < MaxPolicies
             /\ policy_count' = policy_count + 1
             /\ FindOrCreateNode(NewPolicyIn(policy_count + 1, n), policy_count + 1,
                                 n, id, act)
    <2> DEFINE s == policy_count + 1
               p2 == [policies[s] EXCEPT !.name = Stored[n], !.node_count = 0]
               mem == NewPolicyIn(s, n)
    <2>1. s \in 1 .. MaxPolicies /\ s \in Slots
      BY <1>2, <1>4, PolicyRouteAssumption DEF Slots
    <2>2. Stored[n] \in Names /\ (NamesFit => Stored[n] = n)
      BY PolicyRouteAssumption DEF NamesFit
    <2>3. policies[s] \in PolicyConfig
      BY <1>2, <2>1
    <2>4. p2 \in PolicyConfig /\ p2.name = Stored[n] /\ p2.node_count = 0
      <3>1. Stored[n] \in Names \cup {NoName} /\ 0 \in 0 .. MaxNodes
        BY <2>2, PolicyRouteAssumption
      <3> HIDE DEF s
      <3> QED BY <2>3, <3>1 DEF PolicyConfig
    <2>5. mem = [policies EXCEPT ![s] = p2]
      BY <1>2, <2>1 DEF NewPolicyIn
    <2> HIDE DEF p2, mem
    <2>6. /\ mem \in [Slots -> PolicyConfig]
          /\ mem[s] = p2
          /\ \A t \in Slots : t # s => mem[t] = policies[t]
      BY <1>2, <2>1, <2>4, <2>5
    <2>7. /\ \A t \in 1 .. s : t = s \/ t \in Live
          /\ \A t \in Live : t # s /\ mem[t] = policies[t]
      BY <1>2, <2>6 DEF Live
    <2>8. \A t \in Live : policies[t].name # n
      BY <1>4 DEF NoPolicy, Live
    <2>9. s \in 1 .. s /\ mem[s].name = Stored[n]
      BY <2>1, <2>4, <2>6
    <2> HIDE DEF s
    <2>10. ASSUME NamesFit, NamesInv
           PROVE  /\ mem[s].name = n
                  /\ \A t, u \in 1 .. s : mem[t].name = mem[u].name => t = u
      BY <2>2, <2>7, <2>8, <2>9, <2>10 DEF NamesInv, UniqueNames
    <2>11. \A t \in 1 .. s : \A j, k \in 1 .. mem[t].node_count :
              mem[t].nodes[j].node_id = mem[t].nodes[k].node_id => j = k
      <3> SUFFICES ASSUME NEW t \in 1 .. s,
                          NEW j \in 1 .. mem[t].node_count,
                          NEW k \in 1 .. mem[t].node_count,
                          mem[t].nodes[j].node_id = mem[t].nodes[k].node_id
                   PROVE  j = k
        OBVIOUS
      <3>1. CASE t = s
        BY <3>1, <2>4, <2>6
      <3>2. CASE t \in Live
        BY <3>2, <2>7 DEF MemoryInv, UniqueNodeIds, LiveNodes
      <3> QED BY <2>7, <3>1, <3>2
    <2>12. \A t \in 1 .. s :
              /\ mem[t].name # NoName
              /\ t # s => mem[t].node_count > 0
              /\ \A k \in 1 .. mem[t].node_count : mem[t].nodes[k].node_id \in NodeIds
      <3> SUFFICES ASSUME NEW t \in 1 .. s
                   PROVE  /\ mem[t].name # NoName
                          /\ t # s => mem[t].node_count > 0
                          /\ \A k \in 1 .. mem[t].node_count :
                                mem[t].nodes[k].node_id \in NodeIds
        OBVIOUS
      <3>1. CASE t = s
        BY <3>1, <2>2, <2>4, <2>6, <2>9, PolicyRouteAssumption
      <3>2. CASE t \in Live
        BY <3>2, <2>7 DEF MemoryInv, LiveSlotsFilled, LiveNodes
      <3> QED BY <2>7, <3>1, <3>2
    <2>13. policy_count' = s /\ FindOrCreateNode(mem, s, n, id, act)
      BY <1>4 DEF s, mem
    <2> QED
      BY <1>1, <2>1, <2>6, <2>9, <2>10, <2>11, <2>12, <2>13, FindOrCreateNodeStep
  <1>5. CASE /\ NoPolicy(n)
             /\ policy_count = MaxPolicies
             /\ current_policy' = 0
             /\ UNCHANGED <<policies, policy_count, current_node, prompt>>
    <2>1. TypeOK'
      BY <1>1, <1>5, PolicyRouteAssumption DEF TypeOK
    <2> QED
      BY <2>1, <1>5
         DEF MemoryInv, NamesInv, UniqueNames, UniqueNodeIds, LiveSlotsFilled, ViewCoherent,
             InPromptedPolicy, PromptNotAhead, Live, LiveNodes
  <1> QED BY <1>3, <1>4, <1>5 DEF cmd_policy_based_route

(* Every command keeps the invariant. *)
LEMMA StepKeeps ==
    ASSUME MemoryInv, [Next]_vars
    PROVE  MemoryInv' /\ (NamesFit /\ NamesInv => NamesInv')
  <1> USE PolicyRouteAssumption
  <1>1. ASSUME NEW n \in Names, NEW act \in ActionArgs, NEW id \in NodeIds,
               cmd_policy_based_route(n, act, id)
        PROVE  MemoryInv' /\ (NamesFit /\ NamesInv => NamesInv')
    BY <1>1, BasedRouteStep
  <1>2. ASSUME NEW kind \in MatchKinds, NEW v \in Values, cmd_policy_if_match(kind, v)
        PROVE  MemoryInv' /\ (NamesFit /\ NamesInv => NamesInv')
    BY <1>2, SetClauseStep, Ranges DEF cmd_policy_if_match
  <1>3. ASSUME NEW kind \in RouteKinds, NEW v \in Values, cmd_policy_apply_route(kind, v)
        PROVE  MemoryInv' /\ (NamesFit /\ NamesInv => NamesInv')
    BY <1>3, SetClauseStep, Ranges DEF cmd_policy_apply_route
  <1>4. ASSUME NEW arg \in PrecedenceArgs, cmd_policy_apply_precedence(arg)
        PROVE  MemoryInv' /\ (NamesFit /\ NamesInv => NamesInv')
    <2>1. arg % 256 \in ClauseRange["precedence"] /\ "precedence" \in Clauses
      BY <1>4, Ranges DEF cmd_policy_apply_precedence
    <2>2. SetClause("precedence", arg % 256)
      BY <1>4 DEF cmd_policy_apply_precedence
    <2> QED BY <2>1, <2>2, SetClauseStep
  <1>5. ASSUME NEW arg \in DscpArgs, cmd_policy_apply_dscp(arg)
        PROVE  MemoryInv' /\ (NamesFit /\ NamesInv => NamesInv')
    <2>1. arg % 256 \in ClauseRange["dscp"] /\ "dscp" \in Clauses
      BY <1>5, Ranges DEF cmd_policy_apply_dscp
    <2>2. SetClause("dscp", arg % 256)
      BY <1>5 DEF cmd_policy_apply_dscp
    <2> QED BY <2>1, <2>2, SetClauseStep
  <1>6. ASSUME NEW n \in Names, cmd_undo_policy(n)
        PROVE  MemoryInv' /\ (NamesFit /\ NamesInv => NamesInv')
    BY <1>6, UndoStep
  <1>7. CASE UNCHANGED vars
    BY <1>7 DEF vars, MemoryInv, NamesInv, TypeOK, UniqueNames, UniqueNodeIds, LiveSlotsFilled,
                ViewCoherent, InPromptedPolicy, PromptNotAhead, Live, LiveNodes
  <1> QED BY <1>1, <1>2, <1>3, <1>4, <1>5, <1>6, <1>7 DEF Next

(* When every name fits its field, the whole invariant holds at every      *)
(* step of every session.                                                  *)
THEOREM InvariantHolds == ASSUME NamesFit PROVE Spec => []IInv
  <1>1. Init => IInv
    BY InitIInv
  <1>2. IInv /\ [Next]_vars => IInv'
    BY StepKeeps, TwoParts DEF IInv, MemoryInv, NamesInv
  <1> QED BY <1>1, <1>2, PTL DEF Spec

(* Whatever names are typed, the memory keeps its shape. *)
LEMMA MemoryHolds == Spec => []MemoryInv
  <1>1. Init => MemoryInv
    BY InitIInv, TwoParts
  <1>2. MemoryInv /\ [Next]_vars => MemoryInv'
    BY StepKeeps
  <1> QED BY <1>1, <1>2, PTL DEF Spec

(* The memory of policy_route.c keeps its types, whatever names are typed: *)
(* no count passes its capacity, the node pointer stays inside the arrays, *)
(* and only values in the range of their clause are stored.                *)
THEOREM TypeCorrect == Spec => []TypeOK
  <1>1. MemoryInv => TypeOK
    BY DEF MemoryInv
  <1> QED BY <1>1, MemoryHolds, PTL

(* No sequence of entries and removals gives two policies one name. *)
THEOREM NamesUnique == ASSUME NamesFit PROVE Spec => []UniqueNames
  <1>1. IInv => UniqueNames
    BY DEF IInv
  <1> QED BY <1>1, InvariantHolds, PTL

(* No policy holds two nodes of one id, even if two policies share a name. *)
THEOREM NodeIdsUnique == Spec => []UniqueNodeIds
  <1>1. MemoryInv => UniqueNodeIds
    BY DEF MemoryInv
  <1> QED BY <1>1, MemoryHolds, PTL

(* Every policy in use has a name and at least one node that was entered,  *)
(* whatever names are typed and in whatever order policies are removed.    *)
THEOREM SlotsFilled == Spec => []LiveSlotsFilled
  <1>1. MemoryInv => LiveSlotsFilled
    BY DEF MemoryInv
  <1> QED BY <1>1, MemoryHolds, PTL

(* While the policy of the prompt is where the node pointer looks, the     *)
(* pointer is at the node of the prompt.                                   *)
THEOREM ViewIsCoherent == ASSUME NamesFit PROVE Spec => []ViewCoherent
  <1>1. IInv => ViewCoherent
    BY DEF IInv
  <1> QED BY <1>1, InvariantHolds, PTL

(* Removing policies never puts the prompted policy behind the slot the    *)
(* node pointer looks at: a later command can reach a policy further up,   *)
(* never the prompted one at another node.                                 *)
THEOREM PromptStaysBehind == ASSUME NamesFit PROVE Spec => []PromptNotAhead
  <1>1. IInv => PromptNotAhead
    BY DEF IInv
  <1> QED BY <1>1, InvariantHolds, PTL
-----------------------------------------------------------------------------
(* The refinement: arrays, counts and shifts implement PolicyStore. *)

(* A node in use, and all of them, as the abstract specification sees them *)
(* in a memory with so many policies.                                      *)
Shown(name, node) ==
    [policy |-> name, node |-> node.node_id, action |-> node.action, conf |-> node.conf]

Held(mem, count) ==
    UNION {{Shown(mem[s].name, mem[s].nodes[k]) : k \in 1 .. mem[s].node_count} :
              s \in 1 .. count}

(* The nodes in use, before a step and after it. *)
LEMMA StoredIsHeld ==
    /\ StoredNodes = Held(policies, policy_count)
    /\ StoredNodes' = Held(policies', policy_count')
  BY DEF StoredNodes, Held, Shown, Live, LiveNodes

(* Each has its slot and its index. *)
LEMMA HeldMembers ==
    ASSUME NEW mem, NEW count, NEW e
    PROVE  e \in Held(mem, count)
             <=> \E s \in 1 .. count : \E k \in 1 .. mem[s].node_count :
                     e = Shown(mem[s].name, mem[s].nodes[k])
  BY DEF Held

(* Two nodes that are shown alike are one node. *)
LEMMA ShownOnce ==
    ASSUME IInv, NEW s \in Live, NEW t \in Live,
           NEW j \in LiveNodes(s), NEW k \in LiveNodes(t),
           policies[s].name = policies[t].name,
           policies[s].nodes[j].node_id = policies[t].nodes[k].node_id
    PROVE  s = t /\ j = k
  <1>1. s = t
    BY DEF IInv, UniqueNames
  <1>2. j = k
    BY <1>1 DEF IInv, UniqueNodeIds
  <1> QED BY <1>1, <1>2

(* What a memory holds does not depend on slots and nodes past the counts. *)
LEMMA SameHeld ==
    ASSUME NEW mem, NEW old, NEW count,
           \A s \in 1 .. count :
               /\ mem[s].name = old[s].name
               /\ mem[s].node_count = old[s].node_count
               /\ \A k \in 1 .. old[s].node_count : mem[s].nodes[k] = old[s].nodes[k]
    PROVE  Held(mem, count) = Held(old, count)
  <1>1. \A e : e \in Held(mem, count) <=> e \in Held(old, count)
    BY HeldMembers
  <1> QED BY <1>1

(* The set of policies in use, counted. *)
LEMMA PoliciesCounted ==
    ASSUME IInv
    PROVE  /\ Abstract!Policies = {policies[s].name : s \in Live}
           /\ Abstract!Cardinality(Abstract!Policies) = policy_count
  <1>1. policy_count \in Nat
    BY DEF IInv, TypeOK
  <1>2. \A s \in Live : \E k \in LiveNodes(s) : k = 1
    BY TypeFacts DEF IInv, LiveSlotsFilled, LiveNodes, Live, TypeOK, PolicyConfig
  <1>3. Abstract!Policies = {policies[s].name : s \in Live}
    <2>1. \A e : e \in StoredNodes
              <=> \E s \in Live : \E k \in LiveNodes(s) :
                      e = Shown(policies[s].name, policies[s].nodes[k])
      BY StoredIsHeld, HeldMembers DEF Live, LiveNodes
    <2>2. ASSUME NEW s \in Live
          PROVE  \E e \in StoredNodes : e.policy = policies[s].name
      <3>1. PICK k \in LiveNodes(s) : k = 1
        BY <1>2
      <3>2. Shown(policies[s].name, policies[s].nodes[k]) \in StoredNodes
        BY <2>1
      <3> QED BY <3>2 DEF Shown
    <2>3. ASSUME NEW e \in StoredNodes
          PROVE  \E s \in Live : e.policy = policies[s].name
      BY <2>1 DEF Shown
    <2> QED BY <2>2, <2>3 DEF Abstract!Policies
  <1> DEFINE f == [s \in 1 .. policy_count |-> policies[s].name]
             P == {policies[s].name : s \in Live}
  <1>4. f \in [1 .. policy_count -> P]
    BY DEF Live
  <1>5. \A s, t \in 1 .. policy_count : f[s] = f[t] => s = t
    BY DEF IInv, UniqueNames, Live
  <1>6. \A p \in P : \E s \in 1 .. policy_count : f[s] = p
    BY DEF Live
  <1> HIDE DEF f, P
  <1>7. f \in Bijection(1 .. policy_count, P)
    BY <1>4, <1>5, <1>6 DEF Bijection, Injection, IsInjective, Surjection
  <1>8. Cardinality(P) = policy_count
    BY <1>1, <1>7, FS_CountingElements DEF ExistsBijection
  <1>9. Abstract!Cardinality(P) = Cardinality(P)
    BY DEF Abstract!Cardinality, Cardinality
  <1> QED BY <1>3, <1>8, <1>9 DEF P

(* The nodes of a policy in use, counted. *)
LEMMA NodesCounted ==
    ASSUME IInv, NEW s \in Live
    PROVE  /\ Abstract!NodesOf(policies[s].name)
                = {Shown(policies[s].name, policies[s].nodes[k]) : k \in LiveNodes(s)}
           /\ Abstract!Cardinality(Abstract!NodesOf(policies[s].name))
                = policies[s].node_count
  <1> DEFINE count == policies[s].node_count
             N == {Shown(policies[s].name, policies[s].nodes[k]) : k \in LiveNodes(s)}
             f == [k \in 1 .. count |-> Shown(policies[s].name, policies[s].nodes[k])]
  <1>1. count \in Nat
    BY TypeFacts DEF IInv, PolicyConfig
  <1>2. Abstract!NodesOf(policies[s].name) = N
    <2>1. \A e : e \in StoredNodes
              <=> \E t \in Live : \E k \in LiveNodes(t) :
                      e = Shown(policies[t].name, policies[t].nodes[k])
      BY StoredIsHeld, HeldMembers DEF Live, LiveNodes
    <2>2. \A t \in Live : policies[t].name = policies[s].name => t = s
      BY DEF IInv, UniqueNames
    <2>3. \A t, k : Shown(policies[t].name, policies[t].nodes[k]).policy = policies[t].name
      BY DEF Shown
    <2>4. \A e : e \in Abstract!NodesOf(policies[s].name)
              <=> e \in StoredNodes /\ e.policy = policies[s].name
      BY DEF Abstract!NodesOf
    <2>5. \A e : e \in Abstract!NodesOf(policies[s].name) <=> e \in N
      BY <2>1, <2>2, <2>3, <2>4
    <2> QED BY <2>5
  <1>3. f \in [1 .. count -> N]
    BY DEF LiveNodes
  <1>4. \A j, k \in 1 .. count : f[j] = f[k] => j = k
    BY DEF IInv, UniqueNodeIds, LiveNodes, Shown
  <1>5. \A e \in N : \E k \in 1 .. count : f[k] = e
    BY DEF LiveNodes
  <1> HIDE DEF f, N, count
  <1>6. f \in Bijection(1 .. count, N)
    BY <1>3, <1>4, <1>5 DEF Bijection, Injection, IsInjective, Surjection
  <1>7. Cardinality(N) = count
    BY <1>1, <1>6, FS_CountingElements DEF ExistsBijection
  <1>8. Abstract!Cardinality(N) = Cardinality(N)
    BY DEF Abstract!Cardinality, Cardinality
  <1> QED BY <1>2, <1>7, <1>8 DEF N, count

(* To set a clause is to change one node, or a slot that is not in use. *)
LEMMA ClauseConfigures ==
    ASSUME IInv, NEW c \in Clauses, NEW v \in ClauseRange[c], SetClause(c, v)
    PROVE  Abstract!Next \/ StoredNodes' = StoredNodes
  <1> DEFINE cs == current_node.slot
             ci == current_node.index
             n2 == [policies[cs].nodes[ci] EXCEPT !.conf[c] = v]
             p2 == [policies[cs] EXCEPT !.nodes = [@ EXCEPT ![ci] = n2]]
  <1>1. /\ TypeOK /\ policies \in [Slots -> PolicyConfig]
        /\ \A s \in Live : s \in Slots
        /\ \A s \in Slots : LiveNodes(s) \subseteq Indices
    BY TypeFacts DEF IInv
  <1>2. cs \in Slots /\ ci \in Indices
    BY <1>1, PolicyRouteAssumption
       DEF TypeOK, SetClause, Pointers, NullNode, Slots, Indices
  <1>3. policies[cs] \in PolicyConfig /\ policies[cs].nodes[ci] \in NodeConfig
    BY <1>1, <1>2 DEF PolicyConfig
  <1>4. /\ p2.name = policies[cs].name
        /\ p2.node_count = policies[cs].node_count
        /\ p2.nodes = [policies[cs].nodes EXCEPT ![ci] = n2]
    BY <1>3 DEF PolicyConfig
  <1>5. policies' = [policies EXCEPT ![cs] = p2] /\ policy_count' = policy_count
    BY DEF SetClause
  <1>6. /\ n2.node_id = policies[cs].nodes[ci].node_id
        /\ n2.action = policies[cs].nodes[ci].action
        /\ n2.conf = [policies[cs].nodes[ci].conf EXCEPT ![c] = v]
    BY <1>3 DEF NodeConfig
  <1> HIDE DEF n2, p2
  <1>7. \A s \in Slots :
            /\ policies'[s].name = policies[s].name
            /\ policies'[s].node_count = policies[s].node_count
            /\ \A k \in Indices :
                  policies'[s].nodes[k] = IF s = cs /\ k = ci THEN n2
                                          ELSE policies[s].nodes[k]
    <2>1. policies'[cs] = p2 /\ \A s \in Slots : s # cs => policies'[s] = policies[s]
      BY <1>1, <1>2, <1>5
    <2>2. \A k \in Indices : p2.nodes[k] = IF k = ci THEN n2 ELSE policies[cs].nodes[k]
      BY <1>2, <1>3, <1>4 DEF PolicyConfig
    <2> QED BY <1>4, <2>1, <2>2
  <1> HIDE DEF cs, ci
  <1>8. CASE ~ (cs \in Live /\ ci \in LiveNodes(cs))
    <2>1. \A s \in 1 .. policy_count :
              /\ policies'[s].name = policies[s].name
              /\ policies'[s].node_count = policies[s].node_count
              /\ \A k \in 1 .. policies[s].node_count :
                    policies'[s].nodes[k] = policies[s].nodes[k]
      BY <1>1, <1>7, <1>8 DEF Live, LiveNodes
    <2>2. Held(policies', policy_count) = Held(policies, policy_count)
      BY <2>1, SameHeld
    <2> QED BY <1>5, <2>2, StoredIsHeld
  <1>9. CASE cs \in Live /\ ci \in LiveNodes(cs)
    <2> DEFINE old == Shown(policies[cs].name, policies[cs].nodes[ci])
               new == Shown(policies[cs].name, n2)
    <2>1. \A e : e \in StoredNodes
              <=> \E s \in Live : \E k \in LiveNodes(s) :
                      e = Shown(policies[s].name, policies[s].nodes[k])
      BY StoredIsHeld, HeldMembers DEF Live, LiveNodes
    <2>2. \A e : e \in StoredNodes'
              <=> \E s \in Live : \E k \in LiveNodes(s) :
                      e = Shown(policies[s].name, policies'[s].nodes[k])
      <3>1. \A e : e \in StoredNodes'
                <=> \E s \in 1 .. policy_count : \E k \in 1 .. policies'[s].node_count :
                        e = Shown(policies'[s].name, policies'[s].nodes[k])
        <4>1. StoredNodes' = Held(policies', policy_count)
          BY <1>5, StoredIsHeld
        <4> QED BY ONLY <4>1, HeldMembers
      <3> QED BY <1>1, <1>7, <3>1 DEF Live, LiveNodes
    <2>3. \A s \in Live : \A k \in LiveNodes(s) :
              Shown(policies[s].name, policies[s].nodes[k]) = old => s = cs /\ k = ci
      BY <1>9, ShownOnce DEF Shown
    <2>4. \A s \in Live : \A k \in LiveNodes(s) :
              Shown(policies[s].name, policies'[s].nodes[k])
                = IF s = cs /\ k = ci THEN new
                  ELSE Shown(policies[s].name, policies[s].nodes[k])
      BY <1>1, <1>7
    <2>5. old \in StoredNodes
      BY <1>9, <2>1
    <2>6. new = [old EXCEPT !.conf[c] = v]
      BY <1>6 DEF Shown
    <2> HIDE DEF old, new
    <2>7. ASSUME NEW e
          PROVE  e \in StoredNodes' <=> (e \in StoredNodes /\ e # old) \/ e = new
      <3>1. ASSUME e \in StoredNodes'
            PROVE  (e \in StoredNodes /\ e # old) \/ e = new
        <4>1. PICK s \in Live : \E k \in LiveNodes(s) :
                  e = Shown(policies[s].name, policies'[s].nodes[k])
          BY <2>2, <3>1
        <4>2. PICK k \in LiveNodes(s) : e = Shown(policies[s].name, policies'[s].nodes[k])
          BY <4>1
        <4>3. CASE s = cs /\ k = ci
          BY <2>4, <4>2, <4>3
        <4>4. CASE ~ (s = cs /\ k = ci)
          <5>1. e = Shown(policies[s].name, policies[s].nodes[k])
            BY <2>4, <4>2, <4>4
          <5> QED BY <2>1, <2>3, <4>4, <5>1
        <4> QED BY <4>3, <4>4
      <3>2. ASSUME e \in StoredNodes, e # old
            PROVE  e \in StoredNodes'
        <4>1. PICK s \in Live : \E k \in LiveNodes(s) :
                  e = Shown(policies[s].name, policies[s].nodes[k])
          BY <2>1, <3>2
        <4>2. PICK k \in LiveNodes(s) : e = Shown(policies[s].name, policies[s].nodes[k])
          BY <4>1
        <4>3. ~ (s = cs /\ k = ci)
          BY <3>2, <4>2 DEF old
        <4>4. e = Shown(policies[s].name, policies'[s].nodes[k])
          BY <2>4, <4>2, <4>3
        <4> QED BY <2>2, <4>4
      <3>3. new \in StoredNodes'
        BY <1>9, <2>2, <2>4
      <3> QED BY <3>1, <3>2, <3>3
    <2>8. StoredNodes' = (StoredNodes \ {old}) \cup {new}
      BY <2>7
    <2>9. Abstract!Configure(old, c, v)
      BY <2>6, <2>8 DEF Abstract!Configure
    <2> QED BY <2>5, <2>9 DEF Abstract!Next
  <1> QED BY <1>8, <1>9

(* To shift the array is to remove the nodes of one policy. *)
LEMMA UndoRemoves ==
    ASSUME IInv, NEW n \in Names, cmd_undo_policy(n)
    PROVE  Abstract!Remove(n)
  <1>1. PICK s \in Slots :
          /\ FoundPolicy(n, s)
          /\ policies' = [t \in Slots |-> IF t \in s .. policy_count - 1
                                          THEN policies[t + 1]
                                          ELSE policies[t]]
          /\ policy_count' = policy_count - 1
    BY DEF cmd_undo_policy
  <1>2. /\ TypeOK /\ \A t \in Live : t \in Slots
        /\ s \in Live /\ policies[s].name = n
        /\ policy_count \in 1 .. MaxPolicies
    BY <1>1, TypeFacts DEF IInv, TypeOK, FoundPolicy, Live
  <1> DEFINE From(t) == IF t \in s .. policy_count - 1 THEN t + 1 ELSE t
             Left == 1 .. policy_count - 1
  <1>3. \A t \in Slots : policies'[t] = policies[From(t)]
    BY <1>1
  <1>4. /\ \A t \in Left : t \in Slots /\ From(t) \in Live /\ From(t) # s
        /\ \A u \in Live : u # s => \E t \in Left : From(t) = u
    <2>1. \A t \in Left : t \in Slots /\ From(t) \in Live /\ From(t) # s
      BY <1>1, <1>2, PolicyRouteAssumption DEF Live, Slots
    <2>2. ASSUME NEW u \in Live, u # s
          PROVE  \E t \in Left : From(t) = u
      <3>1. CASE u < s
        BY <1>2, <2>2, <3>1 DEF Live
      <3>2. CASE u > s
        <4>1. u - 1 \in Left /\ From(u - 1) = u
          BY <1>2, <2>2, <3>2 DEF Live
        <4> QED BY <4>1
      <3> QED BY <1>2, <2>2, <3>1, <3>2 DEF Live
    <2> QED BY <2>1, <2>2
  <1>5. \A t \in Left : policies'[t] = policies[From(t)]
    BY <1>3, <1>4
  <1> HIDE DEF From
  <1>6. \A e : e \in StoredNodes
            <=> \E t \in Live : \E k \in 1 .. policies[t].node_count :
                    e = Shown(policies[t].name, policies[t].nodes[k])
    BY StoredIsHeld, HeldMembers DEF Live
  <1>7. \A e : e \in StoredNodes'
            <=> \E t \in Left : \E k \in 1 .. policies'[t].node_count :
                    e = Shown(policies'[t].name, policies'[t].nodes[k])
    BY <1>1, StoredIsHeld, HeldMembers
  <1>8. \A t \in Live : policies[t].name = n <=> t = s
    BY <1>2 DEF IInv, UniqueNames
  <1>9. \A t, k : Shown(policies[t].name, policies[t].nodes[k]).policy = policies[t].name
    BY DEF Shown
  <1> HIDE DEF Left
  <1>10. ASSUME NEW e
         PROVE  e \in StoredNodes' <=> e \in StoredNodes /\ e.policy # n
    <2>1. ASSUME e \in StoredNodes'
          PROVE  e \in StoredNodes /\ e.policy # n
      <3>1. PICK t \in Left : \E k \in 1 .. policies'[t].node_count :
                                e = Shown(policies'[t].name, policies'[t].nodes[k])
        BY <1>7, <2>1
      <3>2. /\ From(t) \in Live /\ From(t) # s
            /\ \E k \in 1 .. policies[From(t)].node_count :
                  e = Shown(policies[From(t)].name, policies[From(t)].nodes[k])
        BY <1>4, <1>5, <3>1
      <3> QED BY <1>6, <1>8, <1>9, <3>2
    <2>2. ASSUME e \in StoredNodes, e.policy # n
          PROVE  e \in StoredNodes'
      <3>1. PICK u \in Live : \E k \in 1 .. policies[u].node_count :
                                e = Shown(policies[u].name, policies[u].nodes[k])
        BY <1>6, <2>2
      <3>2. u # s
        BY <1>8, <1>9, <2>2, <3>1
      <3>3. PICK t \in Left : From(t) = u
        BY <1>4, <3>2
      <3> QED BY <1>5, <1>7, <3>1, <3>3
    <2> QED BY <2>1, <2>2
  <1>11. StoredNodes' = StoredNodes \ Abstract!NodesOf(n)
    BY <1>10 DEF Abstract!NodesOf
  <1>12. n \in Abstract!Policies
    BY <1>2, PoliciesCounted
  <1> QED BY <1>11, <1>12 DEF Abstract!Remove

(* A node created in a policy is one more in the store. *)
LEMMA CreatedIsHeld ==
    ASSUME NEW mem \in [Slots -> PolicyConfig],
           NEW count \in 1 .. MaxPolicies, NEW s \in 1 .. count,
           NEW n \in Names, NEW id \in NodeIds, NEW act \in ActionArgs,
           mem[s].node_count < MaxNodes, CreateNode(mem, s, n, id, act)
    PROVE  Held(policies', count)
             = Held(mem, count) \cup {Shown(mem[s].name, NewNode(id, act))}
  <1> DEFINE last == mem[s].node_count + 1
             p2 == [mem[s] EXCEPT !.nodes = [@ EXCEPT ![last] = NewNode(id, act)],
                                  !.node_count = last]
             new == Shown(mem[s].name, NewNode(id, act))
  <1>1. s \in Slots /\ \A t \in 1 .. count : t \in Slots
    BY PolicyRouteAssumption DEF Slots
  <1>2. mem[s] \in PolicyConfig
    BY <1>1
  <1>3. /\ mem[s].node_count \in 0 .. MaxNodes
        /\ mem[s].nodes \in [Indices -> NodeConfig]
    BY <1>2 DEF PolicyConfig
  <1>4. last \in Indices /\ 1 .. mem[s].node_count \subseteq Indices
    BY <1>3, PolicyRouteAssumption DEF Indices
  <1>5. policies' = [mem EXCEPT ![s] = p2]
    BY <1>1 DEF CreateNode
  <1>6. /\ p2.name = mem[s].name /\ p2.node_count = last
        /\ p2.nodes = [mem[s].nodes EXCEPT ![last] = NewNode(id, act)]
    BY <1>2 DEF PolicyConfig
  <1>7. policies'[s] = p2 /\ \A t \in Slots : t # s => policies'[t] = mem[t]
    BY <1>1, <1>5
  <1>8. /\ p2.nodes[last] = NewNode(id, act)
        /\ \A k \in 1 .. mem[s].node_count : p2.nodes[k] = mem[s].nodes[k]
        /\ \A k \in 1 .. last : k = last \/ k \in 1 .. mem[s].node_count
        /\ last \in 1 .. last /\ \A k \in 1 .. mem[s].node_count : k \in 1 .. last
    BY <1>3, <1>4, <1>6
  <1> HIDE DEF p2, last
  <1>9. ASSUME NEW e
        PROVE  e \in Held(policies', count) <=> e \in Held(mem, count) \/ e = new
    <2>1. ASSUME e \in Held(policies', count)
          PROVE  e \in Held(mem, count) \/ e = new
      <3>1. PICK t \in 1 .. count : \E k \in 1 .. policies'[t].node_count :
                                        e = Shown(policies'[t].name, policies'[t].nodes[k])
        BY <2>1, HeldMembers
      <3>2. CASE t # s
        BY <1>1, <1>7, <3>1, <3>2, HeldMembers
      <3>3. CASE t = s
        <4>1. PICK k \in 1 .. last : e = Shown(mem[s].name, p2.nodes[k])
          BY <1>6, <1>7, <3>1, <3>3
        <4>2. CASE k = last
          BY <1>8, <4>1, <4>2
        <4>3. CASE k \in 1 .. mem[s].node_count
          BY <1>8, <4>1, <4>3, HeldMembers
        <4> QED BY <1>8, <4>2, <4>3
      <3> QED BY <3>2, <3>3
    <2>2. ASSUME e \in Held(mem, count)
          PROVE  e \in Held(policies', count)
      <3>1. PICK t \in 1 .. count : \E k \in 1 .. mem[t].node_count :
                                        e = Shown(mem[t].name, mem[t].nodes[k])
        BY <2>2, HeldMembers
      <3>2. CASE t # s
        BY <1>1, <1>7, <3>1, <3>2, HeldMembers
      <3>3. CASE t = s
        <4>1. PICK k \in 1 .. mem[s].node_count : e = Shown(mem[s].name, mem[s].nodes[k])
          BY <3>1, <3>3
        <4>2. k \in 1 .. last /\ e = Shown(p2.name, p2.nodes[k])
          BY <1>6, <1>8, <4>1
        <4> QED BY <1>6, <1>7, <4>2, HeldMembers
      <3> QED BY <3>2, <3>3
    <2>3. new \in Held(policies', count)
      <3>1. new = Shown(p2.name, p2.nodes[last])
        BY <1>6, <1>8
      <3> QED BY <1>6, <1>7, <1>8, <3>1, HeldMembers
    <2> QED BY <2>1, <2>2, <2>3
  <1> HIDE DEF new
  <1>10. Held(policies', count) = Held(mem, count) \cup {new}
    BY <1>9
  <1> QED BY <1>10 DEF new

(* A created node starts without a clause, as PolicyStore has it. *)
LEMMA CreatedEnters ==
    ASSUME NEW n \in Names, NEW id \in NodeIds, NEW act \in ActionArgs,
           \A e \in Abstract!NodesOf(n) : e.node # id,
           n \notin Abstract!Policies =>
               Abstract!Cardinality(Abstract!Policies) < MaxPolicies,
           Abstract!Cardinality(Abstract!NodesOf(n)) < MaxNodes,
           StoredNodes' = StoredNodes \cup {Shown(n, NewNode(id, act))}
    PROVE  Abstract!Next
  <1>1. Shown(n, NewNode(id, act))
          = [policy |-> n, node |-> id, action |-> act, conf |-> [c \in Clauses |-> Unset]]
    BY DEF Shown, NewNode, NoClauses
  <1>2. act \in Abstract!Actions
    BY PolicyRouteAssumption DEF Abstract!Actions
  <1>3. Abstract!Enter(n, id, act)
    BY <1>1 DEF Abstract!Enter
  <1> QED BY <1>2, <1>3 DEF Abstract!Next

(* To enter a view is to enter a node, one that is there or a new one. *)
LEMMA EnteringEnters ==
    ASSUME NamesFit, IInv,
           NEW n \in Names, NEW act \in ActionArgs, NEW id \in NodeIds,
           cmd_policy_based_route(n, act, id)
    PROVE  Abstract!Next \/ StoredNodes' = StoredNodes
  <1>1. /\ policies \in [Slots -> PolicyConfig] /\ policy_count \in 0 .. MaxPolicies
        /\ \A t \in Live : t \in Slots
    BY TypeFacts DEF IInv
  <1>2. ASSUME policies' = policies, policy_count' = policy_count
        PROVE  StoredNodes' = StoredNodes
    BY <1>2, StoredIsHeld
  <1>3. ASSUME NEW s \in Slots, FoundPolicy(n, s), UNCHANGED policy_count,
               FindOrCreateNode(policies, s, n, id, act)
        PROVE  Abstract!Next \/ StoredNodes' = StoredNodes
    <2>1. s \in Live /\ policies[s].name = n /\ policy_count \in 1 .. MaxPolicies
      BY <1>1, <1>3 DEF FoundPolicy, Live
    <2>2. CASE policies' = policies
      BY <1>2, <1>3, <2>2
    <2>3. CASE /\ NoNodeIn(policies[s], id)
               /\ policies[s].node_count < MaxNodes
               /\ CreateNode(policies, s, n, id, act)
      <3>1. Held(policies', policy_count)
              = Held(policies, policy_count) \cup {Shown(n, NewNode(id, act))}
        BY <1>1, <2>1, <2>3, CreatedIsHeld DEF Live
      <3>2. StoredNodes' = StoredNodes \cup {Shown(n, NewNode(id, act))}
        BY <1>3, <3>1, StoredIsHeld
      <3>3. \A e \in Abstract!NodesOf(n) : e.node # id
        BY <2>1, <2>3, NodesCounted DEF NoNodeIn, LiveNodes, Shown
      <3>4. Abstract!Cardinality(Abstract!NodesOf(n)) < MaxNodes
        BY <2>1, <2>3, NodesCounted
      <3>5. n \in Abstract!Policies
        BY <2>1, PoliciesCounted
      <3> QED BY <3>2, <3>3, <3>4, <3>5, CreatedEnters
    <2> QED BY <1>3, <2>2, <2>3 DEF FindOrCreateNode, NodeTableFull
  <1>4. ASSUME NoPolicy(n), policy_count < MaxPolicies,
               policy_count' = policy_count + 1,
               FindOrCreateNode(NewPolicyIn(policy_count + 1, n), policy_count + 1,
                                n, id, act)
        PROVE  Abstract!Next
    <2> DEFINE s == policy_count + 1
               p2 == [policies[s] EXCEPT !.name = Stored[n], !.node_count = 0]
               mem == NewPolicyIn(s, n)
    <2>1. s \in 1 .. MaxPolicies /\ s \in Slots /\ s \in 1 .. s
      BY <1>1, <1>4, PolicyRouteAssumption DEF Slots
    <2>2. /\ policies[s] \in PolicyConfig
          /\ p2 \in PolicyConfig /\ p2.name = n /\ p2.node_count = 0
      <3>1. policies[s] \in PolicyConfig /\ Stored[n] = n
        BY <1>1, <2>1 DEF NamesFit
      <3>2. n \in Names \cup {NoName} /\ 0 \in 0 .. MaxNodes
        BY PolicyRouteAssumption
      <3> HIDE DEF s
      <3> QED BY <3>1, <3>2 DEF PolicyConfig
    <2>3. mem = [policies EXCEPT ![s] = p2]
      BY <1>1, <2>1 DEF NewPolicyIn
    <2> HIDE DEF p2, mem
    <2>4. /\ mem \in [Slots -> PolicyConfig]
          /\ mem[s] = p2
          /\ \A t \in Slots : t # s => mem[t] = policies[t]
      BY <1>1, <2>1, <2>2, <2>3
    <2>5. \A t \in 1 .. s : t = s \/ (t \in 1 .. policy_count /\ mem[t] = policies[t])
      BY <1>1, <2>4 DEF Live
    <2>6. \A t \in 1 .. policy_count : t \in 1 .. s /\ mem[t] = policies[t]
      BY <1>1, <2>4 DEF Live
    <2>7. Held(mem, s) = Held(policies, policy_count)
      <3> HIDE DEF s
      <3>1. \A e : e \in Held(mem, s) <=> e \in Held(policies, policy_count)
        BY <2>2, <2>4, <2>5, <2>6, HeldMembers
      <3> QED BY <3>1
    <2>8. CreateNode(mem, s, n, id, act)
      <3>1. FindOrCreateNode(mem, s, n, id, act)
        BY <1>4 DEF mem
      <3> HIDE DEF s
      <3> QED BY <2>2, <2>4, <3>1, PolicyRouteAssumption DEF FindOrCreateNode, FoundNode
    <2>9. Held(policies', s) = Held(mem, s) \cup {Shown(n, NewNode(id, act))}
      <3>1. mem[s].node_count < MaxNodes /\ mem[s].name = n
        BY <2>2, <2>4, PolicyRouteAssumption
      <3> HIDE DEF s
      <3> QED BY <2>1, <2>4, <2>8, <3>1, CreatedIsHeld
    <2>10. StoredNodes' = StoredNodes \cup {Shown(n, NewNode(id, act))}
      BY <1>4, <2>7, <2>9, StoredIsHeld
    <2>11. Abstract!NodesOf(n) = {}
      <3>1. \A e \in StoredNodes : \E t \in Live : e.policy = policies[t].name
        <4>1. \A e \in StoredNodes : \E t \in Live : \E k \in 1 .. policies[t].node_count :
                  e = Shown(policies[t].name, policies[t].nodes[k])
          BY StoredIsHeld, HeldMembers DEF Live
        <4> QED BY <4>1 DEF Shown
      <3>2. \A t \in Live : policies[t].name # n
        BY <1>4 DEF NoPolicy, Live
      <3> QED BY <3>1, <3>2 DEF Abstract!NodesOf
    <2>12. Abstract!Cardinality({}) = 0
      <3>1. Abstract!Cardinality({}) = Cardinality({})
        BY DEF Abstract!Cardinality, Cardinality
      <3> QED BY <3>1, FS_EmptySet
    <2>13. /\ \A e \in Abstract!NodesOf(n) : e.node # id
           /\ Abstract!Cardinality(Abstract!NodesOf(n)) < MaxNodes
           /\ Abstract!Cardinality(Abstract!Policies) < MaxPolicies
      BY <1>4, <2>11, <2>12, PoliciesCounted, PolicyRouteAssumption
    <2> QED BY <2>10, <2>13, CreatedEnters
  <1>5. CASE UNCHANGED <<policies, policy_count>>
    BY <1>2, <1>5
  <1> QED BY <1>3, <1>4, <1>5 DEF cmd_policy_based_route

(* The arrays, the counts and the pointers implement the store of          *)
(* PolicyStore, when every name fits its field: each command is a step of  *)
(* the store, or changes nothing that is in use.                           *)
THEOREM StoreImplemented == ASSUME NamesFit PROVE Spec => ImplementsStore
  <1>1. Init => Abstract!Init
    <2> SUFFICES ASSUME Init PROVE StoredNodes = {}
      BY DEF Abstract!Init
    <2>1. Live = {}
      BY DEF Init, Live
    <2> QED BY <2>1 DEF StoredNodes
  <1>2. ASSUME IInv, [Next]_vars
        PROVE  [Abstract!Next]_StoredNodes
    <2> USE PolicyRouteAssumption
    <2>1. ASSUME NEW n \in Names, NEW act \in ActionArgs, NEW id \in NodeIds,
                 cmd_policy_based_route(n, act, id)
          PROVE  Abstract!Next \/ StoredNodes' = StoredNodes
      BY <1>2, <2>1, EnteringEnters
    <2>2. ASSUME NEW kind \in MatchKinds, NEW v \in Values, cmd_policy_if_match(kind, v)
          PROVE  Abstract!Next \/ StoredNodes' = StoredNodes
      BY <1>2, <2>2, ClauseConfigures, Ranges DEF cmd_policy_if_match
    <2>3. ASSUME NEW kind \in RouteKinds, NEW v \in Values, cmd_policy_apply_route(kind, v)
          PROVE  Abstract!Next \/ StoredNodes' = StoredNodes
      BY <1>2, <2>3, ClauseConfigures, Ranges DEF cmd_policy_apply_route
    <2>4. ASSUME NEW arg \in PrecedenceArgs, cmd_policy_apply_precedence(arg)
          PROVE  Abstract!Next \/ StoredNodes' = StoredNodes
      <3>1. arg % 256 \in ClauseRange["precedence"] /\ "precedence" \in Clauses
        BY <2>4, Ranges DEF cmd_policy_apply_precedence
      <3>2. SetClause("precedence", arg % 256)
        BY <2>4 DEF cmd_policy_apply_precedence
      <3> QED BY <1>2, <3>1, <3>2, ClauseConfigures
    <2>5. ASSUME NEW arg \in DscpArgs, cmd_policy_apply_dscp(arg)
          PROVE  Abstract!Next \/ StoredNodes' = StoredNodes
      <3>1. arg % 256 \in ClauseRange["dscp"] /\ "dscp" \in Clauses
        BY <2>5, Ranges DEF cmd_policy_apply_dscp
      <3>2. SetClause("dscp", arg % 256)
        BY <2>5 DEF cmd_policy_apply_dscp
      <3> QED BY <1>2, <3>1, <3>2, ClauseConfigures
    <2>6. ASSUME NEW n \in Names, cmd_undo_policy(n)
          PROVE  Abstract!Next
      BY <1>2, <2>6, UndoRemoves DEF Abstract!Next
    <2>7. CASE UNCHANGED vars
      BY <2>7, StoredIsHeld DEF vars
    <2> QED BY <1>2, <2>1, <2>2, <2>3, <2>4, <2>5, <2>6, <2>7 DEF Next
  <1> QED
    BY <1>1, <1>2, InvariantHolds, PTL DEF Spec, ImplementsStore, Abstract!Spec
=============================================================================
