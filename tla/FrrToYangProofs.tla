--------------------------- MODULE FrrToYangProofs ---------------------------
(***************************************************************************)
(* Proofs about FrrToYang, for any host names, any values of other clients *)
(* and any number of edits: the export implements DatastoreExport.         *)
(*                                                                         *)
(* The refinement rests on one more invariant: at any time the session     *)
(* holds a group of items as a whole or nothing of it, and the state of    *)
(* the interface from the time its function has returned.                  *)
(***************************************************************************)
EXTENDS FrrToYang, TLAPS

Has(items) == \A i \in items : session[i] # Absent
HasNone(items) == \A i \in items : session[i] = Absent

SessionWhole ==
    /\ \A g \in Groups : Has(g) \/ HasNone(g)
    /\ pc \in {"as", "router_id", "neighbor", "system", "apply"} => Has(Always)

IInv == TypeOK /\ SessionWhole

-----------------------------------------------------------------------------
(* The items are those of the groups and the one always written. *)
LEMMA ItemsAre ==
    /\ Items = {"name", "enabled", "oper_status", "as", "router_id",
                "neighbor_address", "peer_as", "session_state", "hostname"}
    /\ DOMAIN Written = Items \ {"hostname"}
  BY DEF Items, Written

LEMMA GroupsPartition ==
    /\ \A g \in Groups \cup {Always} : g \subseteq Items
    /\ \A i \in Items \ Always : \E g \in Groups : i \in g
    /\ \A g, h \in Groups \cup {Always} : \A i \in g : i \in h => g = h
  BY ItemsAre, Zenon DEF Groups, Always, Neighbor

(* What is set is a value, the host name if there is one. *)
LEMMA ValueIs ==
    ASSUME NEW i \in Items, i = "hostname" => hostname \in Hostnames
    PROVE  Value(i) \in Values
  BY ItemsAre DEF Value, Values

-----------------------------------------------------------------------------
(* The invariant. *)
LEMMA InitIInv == Init => IInv
  <1> SUFFICES ASSUME Init PROVE IInv
    OBVIOUS
  <1>1. TypeOK
    BY FrrToYangAssumption DEF Init, TypeOK, NoEdits, Resting
  <1>2. SessionWhole
    <2>1. \A g \in Groups : HasNone(g)
      BY GroupsPartition DEF Init, NoEdits, HasNone
    <2>2. pc = "idle"
      BY DEF Init
    <2> QED BY <2>1, <2>2 DEF SessionWhole
  <1> QED BY <1>1, <1>2 DEF IInv

(* A run that fails forgets all it has set. *)
LEMMA FailIInv ==
    ASSUME IInv, Fail, UNCHANGED <<hostname, edits>>
    PROVE  IInv'
  <1>1. TypeOK'
    BY DEF IInv, TypeOK, Fail, NoEdits, Resting
  <1>2. \A g \in Groups : HasNone(g)'
    BY GroupsPartition DEF Fail, NoEdits, HasNone
  <1>3. pc' = "failed"
    BY DEF Fail
  <1> QED BY <1>1, <1>2, <1>3 DEF IInv, SessionWhole

(* A function that returns has set one group as a whole. *)
LEMMA SetIInv ==
    ASSUME IInv, UNCHANGED <<hostname, edits>>,
           NEW items \in Groups \cup {Always},
           "hostname" \in items => hostname # Absent,
           NEW next \in Stages,
           next \in {"as", "router_id", "neighbor", "system", "apply"}
               => items = Always \/ Has(Always),
           Set(items, next)
    PROVE  IInv'
  <1>1. CASE Fail
    BY <1>1, FailIInv
  <1>2. CASE ~Fail
    <2>1. /\ session' = [i \in Items |-> IF i \in items THEN Value(i) ELSE session[i]]
          /\ pc' = next
          /\ startup' = startup
      BY <1>2 DEF Set
    <2>2. ASSUME NEW i \in items
          PROVE  i \in Items /\ session'[i] \in Values /\ session'[i] # Absent
      <3>1. i \in Items /\ (i = "hostname" => hostname \in Hostnames)
        BY GroupsPartition DEF IInv, TypeOK
      <3> QED BY <2>1, <3>1, ValueIs, FrrToYangAssumption
    <2>3. ASSUME NEW i \in Items \ items
          PROVE  session'[i] = session[i]
      BY <2>1
    <2>4. TypeOK'
      <3>1. session' \in [Items -> Values \cup {Absent}]
        BY <2>1, <2>2, <2>3 DEF IInv, TypeOK
      <3>2. pc' \in Stages /\ pc' \notin Resting
        BY <2>1 DEF Stages, Resting
      <3> QED BY <2>1, <3>1, <3>2 DEF IInv, TypeOK
    <2>5. ASSUME NEW g \in Groups \cup {Always}, g # items
          PROVE  \A i \in g : session'[i] = session[i]
      BY <2>3, <2>5, GroupsPartition
    <2>6. Has(items)'
      BY <2>2 DEF Has
    <2>7. \A g \in Groups : Has(g)' \/ HasNone(g)'
      BY <2>5, <2>6 DEF IInv, SessionWhole, Has, HasNone
    <2>8. pc' \in {"as", "router_id", "neighbor", "system", "apply"} => Has(Always)'
      BY <2>1, <2>5, <2>6 DEF Has
    <2> QED BY <2>4, <2>7, <2>8 DEF IInv, SessionWhole
  <1> QED BY <1>1, <1>2

LEMMA SkipIInv ==
    ASSUME IInv, UNCHANGED <<hostname, edits>>,
           pc \in Stages,
           NEW next \in Stages,
           next \in {"as", "router_id", "neighbor", "system", "apply"} => Has(Always),
           Skip(next)
    PROVE  IInv'
  <1>1. pc' = next /\ UNCHANGED <<startup, session>>
    BY DEF Skip
  <1>2. next \notin Resting
    BY DEF Stages, Resting
  <1>3. TypeOK'
    BY <1>1, <1>2 DEF IInv, TypeOK
  <1>4. SessionWhole'
    BY <1>1 DEF IInv, SessionWhole, Has, HasNone
  <1> QED BY <1>3, <1>4 DEF IInv

LEMMA ExportIInv ==
    ASSUME IInv, frr_to_yang, UNCHANGED <<hostname, edits>>
    PROVE  IInv'
  <1> DEFINE Later == {"as", "router_id", "neighbor", "system", "apply"}
  <1>1. pc \in Later => Has(Always)
    BY DEF IInv, SessionWhole
  <1>2. /\ {"name", "enabled"} \in Groups /\ {"as"} \in Groups /\ {"router_id"} \in Groups
        /\ Neighbor \in Groups /\ {"hostname"} \in Groups
        /\ {"oper_status"} = Always
        /\ "hostname" \notin Neighbor
    BY DEF Groups, Always, Neighbor
  <1>3. CASE frr_interface_to_yang
    <2>1. CASE pc = "interface" /\ Set({"name", "enabled"}, "oper_status")
      BY <1>2, <2>1, SetIInv DEF Stages
    <2>2. CASE pc = "interface" /\ Skip("oper_status")
      BY <2>2, SkipIInv DEF Stages
    <2>3. CASE pc = "oper_status" /\ Set({"oper_status"}, "as")
      BY <1>2, <2>3, SetIInv DEF Stages
    <2> QED BY <1>3, <2>1, <2>2, <2>3 DEF frr_interface_to_yang
  <1>4. CASE frr_bgp_global_to_yang
    <2>1. CASE pc = "as" /\ Set({"as"}, "router_id")
      BY <1>1, <1>2, <2>1, SetIInv DEF Stages
    <2>2. CASE pc = "as" /\ Skip("router_id")
      BY <1>1, <2>2, SkipIInv DEF Stages
    <2>3. CASE pc = "router_id" /\ Set({"router_id"}, "neighbor")
      BY <1>1, <1>2, <2>3, SetIInv DEF Stages
    <2>4. CASE pc = "router_id" /\ Skip("neighbor")
      BY <1>1, <2>4, SkipIInv DEF Stages
    <2> QED BY <1>4, <2>1, <2>2, <2>3, <2>4 DEF frr_bgp_global_to_yang
  <1>5. CASE frr_bgp_neighbor_to_yang
    <2>1. CASE pc = "neighbor" /\ Set(Neighbor, "system")
      BY <1>1, <1>2, <2>1, SetIInv DEF Stages
    <2>2. CASE pc = "neighbor" /\ Skip("system")
      BY <1>1, <2>2, SkipIInv DEF Stages
    <2> QED BY <1>5, <2>1, <2>2 DEF frr_bgp_neighbor_to_yang
  <1>6. CASE frr_system_to_yang
    <2>1. CASE pc = "system" /\ hostname # Absent /\ Set({"hostname"}, "apply")
      BY <1>1, <1>2, <2>1, SetIInv DEF Stages
    <2>2. CASE pc = "system" /\ Skip("apply")
      BY <1>1, <2>2, SkipIInv DEF Stages
    <2> QED BY <1>6, <2>1, <2>2 DEF frr_system_to_yang
  <1>7. CASE apply_changes
    <2>1. CASE Fail
      BY <2>1, FailIInv
    <2>2. CASE ~Fail
      <3>1. /\ startup' = [i \in Items |-> IF session[i] = Absent THEN startup[i] ELSE session[i]]
            /\ session' = NoEdits /\ pc' = "ok"
        BY <1>7, <2>2 DEF apply_changes
      <3>2. TypeOK'
        BY <3>1 DEF IInv, TypeOK, NoEdits, Resting
      <3>3. \A g \in Groups : HasNone(g)'
        BY <3>1, GroupsPartition DEF NoEdits, HasNone
      <3> QED BY <3>1, <3>2, <3>3 DEF IInv, SessionWhole
    <2> QED BY <2>1, <2>2
  <1> QED BY <1>3, <1>4, <1>5, <1>6, <1>7 DEF frr_to_yang

LEMMA OthersIInv ==
    ASSUME IInv, Others
    PROVE  IInv'
  <1>1. /\ pc' = pc /\ session' = session
        /\ edits' \in 0 .. MaxEdits
        /\ startup' \in [Items -> Values \cup {Absent}]
        /\ hostname' \in Hostnames \cup {Absent}
    BY FrrToYangAssumption
       DEF Others, EditDatastore, Rename, exportVars, IInv, TypeOK, Values
  <1>2. TypeOK'
    BY <1>1 DEF IInv, TypeOK
  <1>3. SessionWhole'
    BY <1>1 DEF IInv, SessionWhole, Has, HasNone
  <1> QED BY <1>2, <1>3 DEF IInv

LEMMA StepIInv == IInv /\ [Next]_vars => IInv'
  <1> SUFFICES ASSUME IInv, [Next]_vars PROVE IInv'
    OBVIOUS
  <1>1. CASE main /\ UNCHANGED <<hostname, edits>>
    <2>1. pc' \in {"interface", "failed"} /\ UNCHANGED <<startup, session>> /\ session = NoEdits
      BY <1>1 DEF main, IInv, TypeOK
    <2>2. TypeOK'
      BY <1>1, <2>1 DEF IInv, TypeOK, Resting, Stages
    <2>3. SessionWhole'
      BY <2>1 DEF IInv, SessionWhole, Has, HasNone
    <2> QED BY <2>2, <2>3 DEF IInv
  <1>2. CASE frr_to_yang /\ UNCHANGED <<hostname, edits>>
    BY <1>2, ExportIInv
  <1>3. CASE Others
    BY <1>3, OthersIInv
  <1>4. CASE UNCHANGED vars
    BY <1>4 DEF vars, exportVars, IInv, TypeOK, SessionWhole, Has, HasNone
  <1> QED BY <1>1, <1>2, <1>3, <1>4 DEF Next

(* The values, the stages and the session of the export are always of      *)
(* their types; between two runs the session is empty.                     *)
THEOREM TypeCorrect == Spec => []TypeOK
  <1>1. Spec => []IInv
    BY InitIInv, StepIInv, PTL DEF Spec
  <1>2. IInv => TypeOK
    BY DEF IInv
  <1> QED BY <1>1, <1>2, PTL

-----------------------------------------------------------------------------
(* The refinement. *)
LEMMA InitRefines == Init => Export!Init
  BY DEF Init, NoEdits, Outcome, Export!Init

(* What the session holds at the end is what the export writes. *)
LEMMA CommitRefines ==
    ASSUME IInv, apply_changes, ~Fail
    PROVE  Export!Commit
  <1> DEFINE found == {g \in Groups : Has(g)}
             written == Always \cup UNION found
  <1>1. /\ pc = "apply"
        /\ startup' = [i \in Items |-> IF session[i] = Absent THEN startup[i] ELSE session[i]]
        /\ pc' = "ok"
    BY DEF apply_changes
  <1>2. Outcome = "none" /\ Outcome' = "ok"
    BY <1>1 DEF Outcome
  <1>3. Has(Always)
    BY <1>1 DEF IInv, SessionWhole
  <1>4. ASSUME NEW i \in Items
        PROVE  i \in written <=> session[i] # Absent
    <2>1. CASE i \in Always
      BY <1>3, <2>1 DEF Has
    <2>2. CASE i \notin Always
      <3>1. PICK g \in Groups : i \in g
        BY <2>2, GroupsPartition
      <3>2. \A h \in Groups : i \in h => h = g
        BY <3>1, GroupsPartition
      <3>3. Has(g) \/ HasNone(g)
        BY DEF IInv, SessionWhole
      <3>4. i \in written <=> Has(g)
        BY <2>2, <3>1, <3>2
      <3> QED BY <3>1, <3>3, <3>4 DEF Has, HasNone
    <2> QED BY <2>1, <2>2
  <1>5. written \subseteq Items /\ found \in SUBSET Groups
    BY GroupsPartition
  <1> HIDE DEF found
  <1>6. \A i \in written : startup'[i] \in Values
    BY <1>1, <1>4, <1>5 DEF IInv, TypeOK
  <1>7. startup' = [i \in Items |-> IF i \in written THEN startup'[i] ELSE startup[i]]
    BY <1>1, <1>4
  <1> QED BY <1>2, <1>5, <1>6, <1>7 DEF Export!Commit

(* Until then nothing changes but the outcome, and that only at the start  *)
(* or the end of a run.                                                    *)
LEMMA StepRefines ==
    IInv /\ [Next]_vars => [Export!Next]_<<startup, Outcome>>
  <1> SUFFICES ASSUME IInv, [Next]_vars
               PROVE  Export!Next \/ UNCHANGED <<startup, Outcome>>
    OBVIOUS
  <1>1. ASSUME Fail
        PROVE  Export!Next
    BY <1>1 DEF Fail, Outcome, Export!Fail, Export!Next
  <1>2. ASSUME NEW items, NEW next \in Stages, pc \in Stages, Set(items, next)
        PROVE  Export!Next \/ UNCHANGED <<startup, Outcome>>
    <2>1. CASE Fail
      BY <1>1, <2>1
    <2>2. CASE ~Fail
      BY <1>2, <2>2 DEF Set, Stages, Outcome
    <2> QED BY <2>1, <2>2
  <1>3. ASSUME NEW next \in Stages, pc \in Stages, Skip(next)
        PROVE  UNCHANGED <<startup, Outcome>>
    BY <1>3 DEF Skip, Stages, Outcome
  <1>4. CASE main
    <2>1. startup' = startup
      BY <1>4 DEF main
    <2>2. CASE pc' = "interface"
      BY <2>1, <2>2 DEF Outcome, Export!Begin, Export!Next
    <2>3. CASE pc' = "failed"
      BY <2>1, <2>3 DEF Outcome, Export!Fail, Export!Next
    <2> QED BY <1>4, <2>2, <2>3 DEF main
  <1>5. CASE apply_changes
    <2>1. CASE Fail
      BY <1>1, <2>1
    <2>2. CASE ~Fail
      BY <1>5, <2>2, CommitRefines DEF Export!Next
    <2> QED BY <2>1, <2>2
  <1>6. CASE frr_interface_to_yang
    BY <1>2, <1>3, <1>6 DEF frr_interface_to_yang, Stages
  <1>7. CASE frr_bgp_global_to_yang
    BY <1>2, <1>3, <1>7 DEF frr_bgp_global_to_yang, Stages
  <1>8. CASE frr_bgp_neighbor_to_yang
    BY <1>2, <1>3, <1>8 DEF frr_bgp_neighbor_to_yang, Stages
  <1>9. CASE frr_system_to_yang
    BY <1>2, <1>3, <1>9 DEF frr_system_to_yang, Stages
  <1>10. CASE Others
    <2>1. ASSUME NEW i \in Items, NEW v \in ClientValues \cup {Absent}, EditDatastore(i, v)
          PROVE  Export!Next
      <3>1. v \in Values \cup {Absent}
        BY DEF Values
      <3>2. startup' = [startup EXCEPT ![i] = v] /\ Outcome' = Outcome
        BY <2>1 DEF EditDatastore, Outcome
      <3> QED BY <3>1, <3>2 DEF Export!Edit, Export!Next
    <2>2. ASSUME NEW name, Rename(name)
          PROVE  UNCHANGED <<startup, Outcome>>
      BY <2>2 DEF Rename, exportVars, Outcome
    <2> QED BY <1>10, <2>1, <2>2 DEF Others
  <1>11. CASE UNCHANGED vars
    BY <1>11 DEF vars, exportVars, Outcome
  <1> QED BY <1>4, <1>5, <1>6, <1>7, <1>8, <1>9, <1>10, <1>11 DEF Next, frr_to_yang

(* An export is all or nothing, and takes nothing of other clients away,   *)
(* wherever it fails and whatever they do meanwhile.                       *)
THEOREM ExportRefines == Spec => AllOrNothing
  <1>1. Spec => []IInv
    BY InitIInv, StepIInv, PTL DEF Spec
  <1>2. Spec => Export!Spec
    BY <1>1, InitRefines, StepRefines, PTL DEF Spec, Export!Spec
  <1> QED BY <1>2 DEF AllOrNothing
==============================================================================
