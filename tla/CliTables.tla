------------------------------ MODULE CliTables ------------------------------
(***************************************************************************)
(* All commands of the CLI that keep their configuration in the process:   *)
(* firewall, ACL and NAT, QoS, AAA and GRE, VLANs, high availability.  The *)
(* components share no state; they are put side by side here, with the     *)
(* properties they have in common.                                         *)
(***************************************************************************)
EXTENDS ZoneFirewall, AclNat, Qos, AaaGre, Vlan, HighAvailability

(* The tables whose commands have a view and a pointer. *)
Viewed == {"zone", "rule", "acl", "classifier", "behavior", "traffic_policy",
           "queue_profile", "tunnel", "vrrp", "bfd", "track"}

AppendOnly == {"nat_outbound", "nat_server", "user", "radius", "subif"}

ASSUME CliTablesAssumption ==
    Kinds = Viewed \cup AppendOnly \cup {"policy", "vlan", "vlanif"}

vars == <<tableVars, kernelVars, aaa_enabled>>

Init == TablesInit /\ KernelInit /\ aaa_enabled = FALSE

Other(Component) == Component /\ UNCHANGED <<kernelVars, aaa_enabled>>

Next ==
    \/ Other(ZoneNext) \/ Other(SecurityPolicyNext)
    \/ Other(AclNext) \/ Other(NatNext)
    \/ Other(ClassifierNext) \/ Other(BehaviorNext)
    \/ Other(TrafficPolicyNext) \/ Other(QueueNext)
    \/ Other(VrrpNext) \/ Other(BfdNext) \/ Other(TrackNext)
    \/ AaaNext /\ UNCHANGED kernelVars
    \/ TunnelNext /\ UNCHANGED kernelVars
    \/ VlanNext /\ UNCHANGED aaa_enabled
    \/ SubifNext /\ UNCHANGED aaa_enabled

Spec == Init /\ [][Next]_vars

-----------------------------------------------------------------------------
RecordOf(kind) ==
    CASE kind = "zone" -> SecurityZone
      [] kind = "policy" -> [name : {"default"}]
      [] kind = "rule" -> SecurityRule
      [] kind = "acl" -> Acl
      [] kind = "nat_outbound" -> NatOutbound
      [] kind = "nat_server" -> NatServer
      [] kind = "classifier" -> Classifier
      [] kind = "behavior" -> Behavior
      [] kind = "traffic_policy" -> TrafficPolicy
      [] kind = "queue_profile" -> QueueProfile
      [] kind = "user" -> User
      [] kind = "radius" -> RadiusServer
      [] kind = "tunnel" -> Tunnel
      [] kind = "vlan" -> VlanConfig
      [] kind = "vlanif" -> VlanifConfig
      [] kind = "subif" -> Subif
      [] kind = "vrrp" -> VrrpGroup
      [] kind = "bfd" -> BfdSession
      [] kind = "track" -> Track

(* The arrays within the entries have room for so many elements; that of a *)
(* boolean track is bounded in Data.                                       *)
Sized(kind) ==
    {e \in RecordOf(kind) :
        /\ kind = "zone" => Len(e.members) <= MaxMembers
        /\ kind = "acl" => Len(e.rules) <= MaxAclRules
        /\ kind = "classifier" => Len(e.conditions) <= MaxConditions
        /\ kind = "behavior" => Len(e.actions) <= MaxActions
        /\ kind = "traffic_policy" => Len(e.bindings) <= MaxBindings
        /\ kind = "queue_profile" => Len(e.queues) <= LastQueue + 1
        /\ kind = "vrrp" =>
              Len(e.virtual_ips) <= MaxVirtualIps /\ Len(e.tracks) <= MaxVrrpTracks}

TypeOK ==
    /\ \A kind \in Kinds :
          /\ tables[kind] \in Seq(Sized(kind))
          /\ Len(tables[kind]) <= Capacity[kind]
          /\ current[kind] \in 0 .. Len(tables[kind])
    /\ links \in [Ids -> {"none", "eth0.N", "vlanN"}]
    /\ addresses \in [Ids -> SUBSET IpAddresses]
    /\ aaa_enabled \in BOOLEAN

-----------------------------------------------------------------------------
(* What a table promises of an entry; traffic policies are applied by      *)
(* name, outside any view.                                                 *)
Content(kind) ==
    {IF kind = "traffic_policy" THEN [e EXCEPT !.applied = {}] ELSE e :
        e \in Range(tables[kind])}

View(kind) ==
    INSTANCE ViewedTable WITH
        content <- Content(kind), view <- prompt[kind],
        Room <- Capacity[kind]

Implements(kind) ==
    \/ UNCHANGED <<tables[kind], prompt[kind]>>
    \/ [View(kind)!Next]_<<Content(kind), prompt[kind]>>

(* Every table implements ViewedTable, View(kind)!Spec for each kind: a    *)
(* command changes the entry whose view was last announced and no other    *)
(* one, and no name has two entries, also when tables fill up and pointers *)
(* are NULL.                                                               *)
ViewsHold ==
    /\ \A kind \in Viewed : View(kind)!Init
    /\ [][\A kind \in Viewed : Implements(kind)]_tableVars

(* The same of VLANs, as the prompt and the manual have it.  The code does *)
(* not keep it: a description goes to the VLAN added last, not to the one  *)
(* whose view was entered.                                                 *)
VlanViewHolds ==
    /\ View("vlan")!Init
    /\ [][Implements("vlan")]_tableVars
==============================================================================
