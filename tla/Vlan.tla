-------------------------------- MODULE Vlan --------------------------------
(***************************************************************************)
(* VLANs, VLAN interfaces and sub-interfaces,                              *)
(* src/src/frr_core/zebra/interface_vlan.c and interface_subif.c, and the  *)
(* devices the commands create in the kernel with "ip".                    *)
(*                                                                         *)
(* These tables have no pointer: the commands of a view change the entry   *)
(* added last, whichever view was entered.  Of the kernel it is used that  *)
(* eth0 carries a VLAN id on one device at most, so that a second "ip link *)
(* add" for the id fails; the code ignores every failure.                  *)
(***************************************************************************)
EXTENDS Tables

CONSTANTS
    VlanIds,         \* as typed
    IpAddresses,
    Parents,         \* parent interfaces
    VlanTexts        \* descriptions

VARIABLES
    links,           \* the device that carries a VLAN id: eth0.N, vlanN or none
    addresses        \* the addresses of device vlanN

kernelVars == <<links, addresses>>

(* Ids in range, as they are stored. *)
Ids == {Uint16(n) : n \in VlanIds} \cap (1 .. 4094)

(* 4096 entries for 4094 ids: these two tables never fill.                 *)
ASSUME VlanAssumption ==
    /\ VlanIds \subseteq Int
    /\ Cardinality(Ids) <= Capacity["vlan"]
    /\ Cardinality(Ids) <= Capacity["vlanif"]

VlanConfig == [name : Ids, description : VlanTexts \cup {Unset}]
VlanifConfig == [name : Ids, ip_address : IpAddresses \cup {Unset}]
Subif == [name : Parents \X (0 .. 65535), vlan_id : 0 .. 65535]

KernelInit ==
    /\ links = [n \in Ids |-> "none"]
    /\ addresses = [n \in Ids |-> {}]

-----------------------------------------------------------------------------
(* The kernel: a command that cannot be done does nothing. *)
LinkAdd(n, device) == links' = IF links[n] = "none" THEN [links EXCEPT ![n] = device] ELSE links

LinkDelete(n) == links' = IF links[n] = "eth0.N" THEN [links EXCEPT ![n] = "none"] ELSE links

AddrAdd(n, ip) ==
    addresses' = IF links[n] = "vlanN" THEN [addresses EXCEPT ![n] = @ \cup {ip}] ELSE addresses

-----------------------------------------------------------------------------
NewVlan(n) == [name |-> n, description |-> Unset]
NewVlanif(n) == [name |-> n, ip_address |-> Unset]

(* Found or created by its number. *)
EnterNumbered(kind, new) ==
    /\ Position(kind, new.name) # Null \/ HasRoom(kind)
    /\ tables' = [tables EXCEPT ![kind] = WithEntry(kind, new)]
    /\ prompt' = Announced(kind, new.name)
    /\ UNCHANGED current

(* vlan <vlan-id> *)
cmd_vlan(typed) ==
    LET n == Uint16(typed)
    IN /\ n \in 1 .. 4094
       /\ EnterNumbered("vlan", NewVlan(n))
       /\ LinkAdd(n, "eth0.N")
       /\ UNCHANGED addresses

(* description <text>: of the VLAN added last. *)
cmd_vlan_description(text) ==
    /\ SetIn("vlan", Len(tables["vlan"]), "description", text)
    /\ UNCHANGED kernelVars

(* interface Vlanif<vlan-id> *)
cmd_interface_vlanif(typed) ==
    LET n == Uint16(typed)
    IN /\ n \in 1 .. 4094
       /\ EnterNumbered("vlanif", NewVlanif(n))
       /\ LinkAdd(n, "vlanN")
       /\ UNCHANGED addresses

(* ip address <ip-address> <mask>: on the VLAN interface added last. *)
cmd_vlanif_ip_address(ip) ==
    /\ SetIn("vlanif", Len(tables["vlanif"]), "ip_address", ip)
    /\ AddrAdd(Last(tables["vlanif"]).name, ip)
    /\ UNCHANGED links

(* The device of another VLAN goes, the one that is first in the table.    *)
cmd_undo_vlan_Faulty(typed) ==
    LET n == Uint16(typed)
        i == Position("vlan", n)
    IN /\ i # Null
       /\ tables' = [tables EXCEPT !["vlan"] = RemoveAt(@, i)]
       /\ LinkDelete(tables["vlan"][1].name)
       /\ UNCHANGED <<current, prompt, addresses>>

(* undo vlan <vlan-id>: the VLANs behind it move up; its VLAN interface,   *)
(* and that one's device, stay.                                            *)
cmd_undo_vlan(typed) ==
    LET n == Uint16(typed)
        i == Position("vlan", n)
    IN /\ i # Null
       /\ tables' = [tables EXCEPT !["vlan"] = RemoveAt(@, i)]
       /\ LinkDelete(n)
       /\ UNCHANGED <<current, prompt, addresses>>

VlanNext ==
    \/ \E n \in VlanIds : cmd_vlan(n) \/ cmd_interface_vlanif(n) \/ cmd_undo_vlan(n)
    \/ \E text \in VlanTexts : cmd_vlan_description(text)
    \/ \E ip \in IpAddresses : cmd_vlanif_ip_address(ip)

-----------------------------------------------------------------------------
(* interface <parent>.<id>: a new entry every time, or, when there is no   *)
(* room, none; the view is announced all the same.                         *)
cmd_interface_subif(parent, n) ==
    /\ tables' = [tables EXCEPT !["subif"] =
           IF HasRoom("subif") THEN Append(@, [name |-> <<parent, Uint16(n)>>, vlan_id |-> 0])
           ELSE @]
    /\ prompt' = Announced("subif", <<parent, Uint16(n)>>)
    /\ UNCHANGED <<current, kernelVars>>

(* dot1q termination vid <vlan-id>: on the sub-interface added last, the   *)
(* id is not checked.                                                      *)
cmd_dot1q_termination(n) ==
    /\ SetIn("subif", Len(tables["subif"]), "vlan_id", Uint16(n))
    /\ UNCHANGED kernelVars

SubifNext ==
    \/ \E parent \in Parents, n \in VlanIds : cmd_interface_subif(parent, n)
    \/ \E n \in VlanIds : cmd_dot1q_termination(n)
-----------------------------------------------------------------------------
(* Every device the commands left in the kernel has its entry: eth0.N a    *)
(* VLAN, vlanN a VLAN interface, whatever was undone, refused or full.     *)
DevicesAccountedFor ==
    \A n \in Ids : /\ links[n] = "eth0.N" => Position("vlan", n) # Null
                   /\ links[n] = "vlanN" => Position("vlanif", n) # Null
                   /\ addresses[n] # {} => links[n] = "vlanN"

(* A VLAN interface shown with an address has it in the kernel.  The code  *)
(* does not keep this: after "vlan N" the device vlanN cannot be created.  *)
AddressesInstalled ==
    \A i \in DOMAIN tables["vlanif"] :
        LET vlanif == tables["vlanif"][i]
        IN vlanif.ip_address # Unset => vlanif.ip_address \in addresses[vlanif.name]
==============================================================================
