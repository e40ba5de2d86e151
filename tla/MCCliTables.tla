----------------------------- MODULE MCCliTables -----------------------------
(* Instances of CliTables for model checking. *)
EXTENDS CliTables, TLC

CONSTANTS
    a, b, c,         \* names
    t,               \* a text
    MaxEdits         \* bound: fields that differ from their first values

MCKinds == Viewed \cup AppendOnly \cup {"policy", "vlan", "vlanif"}
MCNames == {a, b, c}
MCTexts == {t}

(* Every table can fill but those that cannot in the code. *)
MCCapacity ==
    [kind \in Kinds |-> CASE kind \in {"vlan", "vlanif", "vrrp"} -> 3
                          [] kind \in {"nat_outbound", "nat_server", "radius"} -> 1
                          [] OTHER -> 2]

(* Numbers at the edges of uint8_t and uint16_t, below zero and at 0. *)
MCNumbers == {-1, 0, 7, 263, 65543}
MCZonePriorities == {0, 101, 263}
MCQosNumbers == {0, 1, 257, 2000}
MCAclNumbers == {1999, 2000, 2999, 3000, 4000}
MCTrackIds == {0, 1, 2, 1024, 65537}
MCVlanIds == {0, 1, 2, 4095, 65537}

Symmetry == Permutations(MCNames)

(* What an entry looked like when it was created. *)
Fresh(kind, name) ==
    CASE kind = "zone" -> NewZone(name)
      [] kind = "rule" -> NewRule(name)
      [] kind = "acl" -> NewAcl(name)
      [] kind = "classifier" -> NewClassifier(name)
      [] kind = "behavior" -> NewBehavior(name)
      [] kind = "traffic_policy" -> NewTrafficPolicy(name)
      [] kind = "queue_profile" -> NewProfile(name)
      [] kind = "tunnel" -> NewTunnel(name)
      [] kind = "vrrp" -> NewGroup(name)
      [] kind = "bfd" -> NewSession(name, t, "d1")
      [] kind = "track" -> NewTrack(name)
      [] OTHER -> <<>>

Lists == {"members", "rules", "conditions", "actions", "bindings", "queues",
          "virtual_ips", "tracks"}

EditsOf(entry, kind) ==
    LET fresh == Fresh(kind, entry.name)
    IN Cardinality({field \in DOMAIN fresh \ (Lists \cup {"rule_id"}) :
                        entry[field] # fresh[field]})
       + FoldSet(LAMBDA field, n : n + Len(entry[field]), 0, DOMAIN fresh \cap Lists)

(* The components share no state: they are explored one at a time.         *)
Alone(kinds) ==
    /\ \A kind \in Kinds \ kinds : tables[kind] = <<>> /\ prompt[kind] = NoView
    /\ aaa_enabled => "user" \in kinds

MCNext ==
    \/ Alone({"zone"}) /\ Other(ZoneNext)
    \/ Alone({"policy", "rule"}) /\ Other(SecurityPolicyNext)
    \/ Alone({"acl"}) /\ Other(AclNext)
    \/ Alone({"nat_outbound", "nat_server"}) /\ Other(NatNext)
    \/ Alone({"classifier"}) /\ Other(ClassifierNext)
    \/ Alone({"behavior"}) /\ Other(BehaviorNext)
    \/ Alone({"traffic_policy"}) /\ Other(TrafficPolicyNext)
    \/ Alone({"queue_profile"}) /\ Other(QueueNext)
    \/ Alone({"vrrp"}) /\ Other(VrrpNext)
    \/ Alone({"bfd"}) /\ Other(BfdNext)
    \/ Alone({"track"}) /\ Other(TrackNext)
    \/ Alone({"user", "radius"}) /\ AaaNext /\ UNCHANGED kernelVars
    \/ Alone({"tunnel"}) /\ TunnelNext /\ UNCHANGED kernelVars
    \/ Alone({"vlan", "vlanif"}) /\ VlanNext /\ UNCHANGED aaa_enabled
    \/ Alone({"subif"}) /\ SubifNext /\ UNCHANGED aaa_enabled

MCSpec == Init /\ [][MCNext]_vars

FewEdits ==
    \A kind \in Kinds :
        FoldSeq(LAMBDA entry, n : n + EditsOf(entry, kind), 0, tables[kind]) <= MaxEdits
==============================================================================
