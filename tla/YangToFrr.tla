------------------------------ MODULE YangToFrr ------------------------------
(***************************************************************************)
(* The conversion of the YANG running datastore into FRR,                  *)
(* src/src/openconfig_adapter/yang_to_frr.c.                               *)
(*                                                                         *)
(* One run reads the datastore item by item, while its clients edit it,    *)
(* and sends what it read to FRR, one vtysh call at a time; it ends by     *)
(* saving the configuration of FRR and restarting it.  A step is one       *)
(* vtysh call together with the reads right before it.                     *)
(***************************************************************************)
EXTENDS Frr

CONSTANTS
    NoArg,           \* the argument of a key that has none
    Interfaces,
    Neighbors,
    YangValues,      \* what a client may write under each kind of key
    Enabled          \* the value of an item that is not observed

VARIABLES
    yang,            \* the running datastore of sysrepo
    pc,              \* where the run is
    as_number,       \* the AS it read
    states,          \* the interface states it read and has not sent yet
    addresses        \* the neighbors it read and has not sent yet

adapterVars == <<pc, as_number, states, addresses>>

HostnameKey == <<"hostname", NoArg>>
RouterIdKey == <<"router-id", NoArg>>

YangKeys == {BgpKey, HostnameKey, RouterIdKey}
            \cup ({"interface"} \X Interfaces) \cup ({"neighbor"} \X Neighbors)

(* A neighbor may be in the datastore without a peer AS, as NoAs.          *)
YangDomain(key) == {Absent} \cup YangValues[key[1]]

Locations == {"idle", "interface_names", "interface_states", "router bgp", "router_id",
              "neighbors", "neighbor", "system", "write", "restart", "ok", "failed"}

AdapterTypeOK ==
    /\ yang \in [YangKeys -> UNION {YangDomain(key) : key \in YangKeys}]
    /\ \A key \in YangKeys : yang[key] \in YangDomain(key)
    /\ pc \in Locations
    /\ as_number \in YangValues[BgpKey[1]] \cup {NoAs}
    /\ states \subseteq [key : {"interface"} \X Interfaces, value : YangValues["interface"]]
    /\ addresses \subseteq Neighbors

AdapterInit ==
    /\ yang = [key \in YangKeys |-> Absent]
    /\ pc = "idle"
    /\ as_number = NoAs
    /\ states = {}
    /\ addresses = {}

-----------------------------------------------------------------------------
Vtysh(batch) == Accepted(batch) \/ Refused(batch)

Configured(kind, args) == {a \in args : yang[<<kind, a>>] # Absent}

Goto(location) ==
    /\ pc' = location
    /\ UNCHANGED <<as_number, yang>>

yang_to_frr ==
    /\ pc \in {"idle", "ok", "failed"}
    /\ pc' = "interface_names"
    /\ as_number' = NoAs
    /\ states' = {}
    /\ addresses' = {}
    /\ UNCHANGED <<yang, frrVars>>

(* The names are read and "interface <name>" is sent for each, which       *)
(* configures nothing that is observed; then the states are read, all at   *)
(* once.  A read that fails ends the run.                                  *)
yang_interface_read ==
    /\ pc = "interface_names"
    /\ \/ /\ Goto("interface_states")
          /\ states' = {Line(<<"interface", i>>, yang[<<"interface", i>>]) :
                           i \in Configured("interface", Interfaces)}
       \/ /\ Goto("failed")
          /\ UNCHANGED states
    /\ UNCHANGED <<addresses, frrVars>>

(* A state FRR refuses is logged only. *)
yang_interface_state ==
    /\ pc = "interface_states"
    /\ \/ \E line \in states :
             /\ states' = states \ {line}
             /\ Vtysh(<<line>>)
             /\ Goto("interface_states")
       \/ /\ states = {}
          /\ Goto("router bgp")
          /\ UNCHANGED <<states, frrVars>>
    /\ UNCHANGED addresses

(* A refused AS is logged only, as everything else is. *)
RefusedAs_Faulty == pc' = "router_id"

(* "router bgp" is the one line whose failure ends the run. *)
RefusedAs == pc' = "failed"

(* as_number without its initial value *)
AsRead_Faulty == yang[BgpKey]

AsRead == IF yang[BgpKey] = Absent THEN NoAs ELSE yang[BgpKey]

yang_bgp_as ==
    /\ pc = "router bgp"
    /\ LET as == AsRead
       IN  /\ as_number' = as
           /\ \/ as = NoAs  /\ pc' = "system" /\ UNCHANGED frrVars
              \/ as # NoAs /\ Accepted(<<Line(BgpKey, as)>>) /\ pc' = "router_id"
              \/ as # NoAs /\ Refused(<<Line(BgpKey, as)>>) /\ RefusedAs
    /\ UNCHANGED <<yang, states, addresses>>

yang_bgp_router_id ==
    /\ pc = "router_id"
    /\ IF yang[RouterIdKey] = Absent
       THEN UNCHANGED frrVars
       ELSE Vtysh(<<Line(BgpKey, as_number), Line(RouterIdKey, yang[RouterIdKey])>>)
    /\ Goto("neighbors")
    /\ UNCHANGED <<states, addresses>>

(* The list of neighbors is read once; if that fails there are none. *)
yang_bgp_neighbors ==
    /\ pc = "neighbors"
    /\ addresses' \in {Configured("neighbor", Neighbors), {}}
    /\ Goto("neighbor")
    /\ UNCHANGED <<states, frrVars>>

(* The loop does not advance. *)
NeighborDone_Faulty(n) == UNCHANGED addresses

NeighborDone(n) == addresses' = addresses \ {n}

(* The peer AS of each is read when its turn comes; a neighbor that has    *)
(* none by then is passed over, one that FRR refuses is logged only.       *)
yang_bgp_neighbor ==
    /\ pc = "neighbor"
    /\ \/ \E n \in addresses :
             /\ NeighborDone(n)
             /\ IF yang[<<"neighbor", n>>] \in {Absent, NoAs}
                THEN UNCHANGED frrVars
                ELSE Vtysh(<<Line(BgpKey, as_number),
                             Line(<<"neighbor", n>>, yang[<<"neighbor", n>>])>>)
             /\ Goto("neighbor")
       \/ /\ addresses = {}
          /\ Goto("system")
          /\ UNCHANGED <<addresses, frrVars>>
    /\ UNCHANGED states

yang_system ==
    /\ pc = "system"
    /\ IF yang[HostnameKey] = Absent
       THEN UNCHANGED frrVars
       ELSE Vtysh(<<Line(HostnameKey, yang[HostnameKey])>>)
    /\ Goto("write")
    /\ UNCHANGED <<states, addresses>>

(* The configuration is not saved before the restart. *)
SaveFrr_Faulty == UNCHANGED frrVars

SaveFrr == Write

apply_frr_write ==
    /\ pc = "write"
    /\ \/ SaveFrr /\ Goto("restart")
       \/ Refused(<<Line(<<"write", NoArg>>, Enabled)>>) /\ Goto("failed")
    /\ UNCHANGED <<states, addresses>>

(* systemctl may fail, and then leaves FRR as it is. *)
apply_frr_restart ==
    /\ pc = "restart"
    /\ \/ Restart /\ Goto("ok")
       \/ UNCHANGED frrVars /\ Goto("failed")
    /\ UNCHANGED <<states, addresses>>

Convert ==
    \/ yang_interface_read
    \/ yang_interface_state
    \/ yang_bgp_as
    \/ yang_bgp_router_id
    \/ yang_bgp_neighbors
    \/ yang_bgp_neighbor
    \/ yang_system
    \/ apply_frr_write
    \/ apply_frr_restart

-----------------------------------------------------------------------------
(* A client of sysrepo edits one item of the datastore. *)
EditYang(key, v) ==
    /\ v \in YangDomain(key) \ {yang[key]}
    /\ yang' = [yang EXCEPT ![key] = v]
    /\ UNCHANGED <<adapterVars, frrVars>>
==============================================================================
