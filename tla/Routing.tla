------------------------------- MODULE Routing -------------------------------
(***************************************************************************)
(* The OSPF, IS-IS, RIP and static route commands of the CLI,              *)
(* src/src/frr_core/ospfd/ospf_huawei.c, isisd/isis_huawei.c,              *)
(* ripd/rip_huawei.c and zebra/static_route.c.                             *)
(*                                                                         *)
(* As with BGP, a command is written into the copy of its protocol and     *)
(* then sent to FRR, whose refusal undoes nothing; only the "undo"         *)
(* commands wait for the answer before they wipe the copy.  Static routes  *)
(* have no copy.  The filter-policy and authentication-mode commands of    *)
(* OSPF and all commands for one interface only print.                     *)
(***************************************************************************)
EXTENDS Frr, Integers

CONSTANTS
    ProcessIds,      \* of OSPF and IS-IS, as typed; 0 for a word
    RouterIds,
    AreaIds,
    Neighbors,       \* ends of virtual links
    Bandwidths,
    Nets,            \* IS-IS network entity titles
    Networks,        \* of RIP
    Interfaces,      \* silent interfaces
    Passwords,
    Routes,          \* destination and next hop of a static route
    Preferences,     \* of a static route, as typed
    MaxAreas,        \* 16 in the code
    MaxVlinks,       \* 8
    MaxNetworks,     \* 32
    MaxSilent,       \* 16
    Word,            \* 2^32
    NoArg,           \* the argument of an item that has none
    Enabled,         \* the value of an item that is merely on
    Empty            \* a string that was never set

(* The enumerations ospf_area_type_t and isis_level_t. *)
Normal == 0
Stub == 1
Nssa == 2
TotallyStub == 3
TotallyNssa == 4
Level12 == 3

ASSUME RoutingAssumption ==
    /\ {<<"rip", NoArg>>, <<"version", NoArg>>} \subseteq Keys
    /\ {"area"} \X (ProcessIds \X AreaIds) \subseteq Keys
    /\ {"virtual-link"} \X (ProcessIds \X AreaIds \X Neighbors) \subseteq Keys
    /\ {"isis", "net", "is-type", "set-overload-bit"} \X ProcessIds \subseteq Keys
    /\ {"network"} \X Networks \subseteq Keys
    /\ {"passive-interface"} \X Interfaces \subseteq Keys
    /\ {"ip route"} \X Routes \subseteq Keys
    /\ BgpKey \notin Keys
    /\ 0 \in ProcessIds
    /\ Word \in Nat /\ Word > 256
    /\ 0 .. Word - 1 \subseteq ConfigValues
    /\ {Enabled} \cup Nets \cup RouterIds \cup Bandwidths \subseteq ConfigValues
    /\ Empty \notin RouterIds \cup Nets \cup Passwords
    /\ Preferences \subseteq Int
    /\ {MaxAreas, MaxVlinks, MaxNetworks, MaxSilent} \subseteq Nat \ {0}

VARIABLES
    ospf,            \* global_ospf_config
    isis,            \* global_isis_config
    rip              \* global_rip_config

copies == <<ospf, isis, rip>>

vars == <<frrVars, copies>>

Area == [area_id : AreaIds, type : Normal .. TotallyNssa]
VirtualLink == [area_id : AreaIds, neighbor_id : Neighbors]

OspfConfig ==
    [process_id : ProcessIds, router_id : RouterIds \cup {Empty},
     reference_bandwidth : Bandwidths \cup {0},
     areas : Seq(Area), vlinks : Seq(VirtualLink)]

IsisConfig ==
    [process_id : ProcessIds, enabled : BOOLEAN, net : Nets \cup {Empty},
     level : 0 .. Level12, overload_bit : BOOLEAN]

RipConfig ==
    [enabled : BOOLEAN, version : 0 .. 2, networks : Seq(Networks),
     silent_interfaces : Seq(Interfaces), authentication_key : Passwords \cup {Empty}]

NoOspf == [process_id |-> 0, router_id |-> Empty, reference_bandwidth |-> 0,
           areas |-> <<>>, vlinks |-> <<>>]
NoIsis == [process_id |-> 0, enabled |-> FALSE, net |-> Empty, level |-> 0,
           overload_bit |-> FALSE]
NoRip == [enabled |-> FALSE, version |-> 0, networks |-> <<>>,
          silent_interfaces |-> <<>>, authentication_key |-> Empty]

CopiesTypeOK ==
    /\ ospf \in OspfConfig
    /\ Len(ospf.areas) <= MaxAreas /\ Len(ospf.vlinks) <= MaxVlinks
    /\ isis \in IsisConfig
    /\ rip \in RipConfig
    /\ Len(rip.networks) <= MaxNetworks /\ Len(rip.silent_interfaces) <= MaxSilent

(* No preference above 255 was sent as one of an IPv4 route.               *)
PreferencesInRange ==
    \A route \in Routes : running[<<"ip route", route>>] \in {Absent} \cup (0 .. 255)

TypeOK == FrrTypeOK /\ CopiesTypeOK /\ PreferencesInRange

Init ==
    /\ FrrInit
    /\ ospf = NoOspf
    /\ isis = NoIsis
    /\ rip = NoRip

Vtysh(batch) == Accepted(batch) \/ Refused(batch)

-----------------------------------------------------------------------------
(* OSPF.  A batch opens with the process of the copy. *)
SendOspf(line) ==
    /\ Vtysh(<<Line(<<"ospf", ospf.process_id>>, Enabled), line>>)
    /\ UNCHANGED <<isis, rip>>

(* ospf [<process-id>] [router-id <router-id>]: a router id that was typed *)
(* before, for whichever process, is sent again.                           *)
cmd_ospf(pid, id) ==
    LET router_id == IF id = Empty THEN ospf.router_id ELSE id
        router == <<Line(<<"ospf", pid>>, Enabled)>>
    IN /\ ospf' = [ospf EXCEPT !.process_id = pid, !.router_id = router_id]
       /\ Vtysh(IF router_id = Empty THEN router
                ELSE Append(router, Line(<<"router-id", pid>>, router_id)))
       /\ UNCHANGED <<isis, rip>>

NewArea(n) == [area_id |-> n, type |-> Normal]

HasArea(n) == \E i \in DOMAIN ospf.areas : ospf.areas[i].area_id = n

(* The type is reset for an area that exists as well. *)
cmd_ospf_area_Faulty(n) ==
    /\ HasArea(n) \/ Len(ospf.areas) < MaxAreas
    /\ ospf' = [ospf EXCEPT !.areas =
                    IF HasArea(n) THEN [i \in DOMAIN @ |-> IF @[i].area_id = n THEN NewArea(n) ELSE @[i]]
                    ELSE Append(@, NewArea(n))]
    /\ UNCHANGED <<frrVars, isis, rip>>

(* area <area-id>: FRR is not told; the view of an area that exists, or    *)
(* that there is no room for, is announced without a change.               *)
cmd_ospf_area(n) ==
    /\ ~HasArea(n)
    /\ Len(ospf.areas) < MaxAreas
    /\ ospf' = [ospf EXCEPT !.areas = Append(@, NewArea(n))]
    /\ UNCHANGED <<frrVars, isis, rip>>

LastArea == ospf.areas[Len(ospf.areas)]

(* Into the copy of the area added last, and to FRR for the same area. *)
SetLastArea(area) ==
    /\ ospf' = [ospf EXCEPT !.areas[Len(ospf.areas)] = area]
    /\ SendOspf(Line(<<"area", <<ospf.process_id, area.area_id>>>>, area.type))

(* nssa [default-route-advertise] [no-summary]; the default route is left  *)
(* out.                                                                    *)
cmd_ospf_area_nssa(no_summary) ==
    /\ ospf.areas # <<>>
    /\ SetLastArea([LastArea EXCEPT !.type = IF no_summary THEN TotallyNssa ELSE Nssa])

(* stub [no-summary] *)
cmd_ospf_area_stub(no_summary) ==
    /\ ospf.areas # <<>>
    /\ SetLastArea([LastArea EXCEPT !.type = IF no_summary THEN TotallyStub ELSE Stub])

SendVlink(area, neighbor) ==
    SendOspf(Line(<<"virtual-link", <<ospf.process_id, area, neighbor>>>>, Enabled))

(* A full table keeps nothing but the link is sent, as with RIP networks. *)
cmd_ospf_vlink_Faulty(neighbor) ==
    /\ ospf.areas # <<>>
    /\ ospf' = [ospf EXCEPT !.vlinks =
                    IF Len(@) < MaxVlinks
                    THEN Append(@, [area_id |-> LastArea.area_id, neighbor_id |-> neighbor])
                    ELSE @]
    /\ SendVlink(LastArea.area_id, neighbor)

(* vlink-peer <router-id> ...: through the area added last; the intervals  *)
(* are kept in the copy only, and left out.                                *)
cmd_ospf_vlink(neighbor) ==
    /\ ospf.areas # <<>>
    /\ Len(ospf.vlinks) < MaxVlinks
    /\ ospf' = [ospf EXCEPT !.vlinks =
                    Append(@, [area_id |-> LastArea.area_id, neighbor_id |-> neighbor])]
    /\ SendVlink(LastArea.area_id, neighbor)

(* bandwidth-reference <bandwidth> *)
cmd_ospf_bandwidth_reference(bandwidth) ==
    /\ ospf' = [ospf EXCEPT !.reference_bandwidth = bandwidth]
    /\ SendOspf(Line(<<"auto-cost", ospf.process_id>>, bandwidth))

(* default-route-advertise [always] [cost <cost>] *)
cmd_ospf_default_route ==
    /\ UNCHANGED ospf
    /\ SendOspf(Line(<<"default-information", ospf.process_id>>, Enabled))

OspfNext ==
    \/ \E pid \in ProcessIds, id \in RouterIds \cup {Empty} : cmd_ospf(pid, id)
    \/ \E n \in AreaIds : cmd_ospf_area(n)
    \/ \E no_summary \in BOOLEAN :
          cmd_ospf_area_nssa(no_summary) \/ cmd_ospf_area_stub(no_summary)
    \/ \E neighbor \in Neighbors : cmd_ospf_vlink(neighbor)
    \/ \E bandwidth \in Bandwidths : cmd_ospf_bandwidth_reference(bandwidth)
    \/ cmd_ospf_default_route

-----------------------------------------------------------------------------
(* IS-IS *)
SendIsis(pid, lines) ==
    /\ Vtysh(<<Line(<<"isis", pid>>, Enabled)>> \o lines)
    /\ UNCHANGED <<ospf, rip>>

(* isis [<process-id>]: the copy, not FRR, goes back to level-1-2; the     *)
(* line that makes the metric style wide, always the same, is left out.    *)
cmd_isis(pid) ==
    /\ isis' = [isis EXCEPT !.process_id = pid, !.enabled = TRUE, !.level = Level12]
    /\ SendIsis(pid, <<>>)

(* network-entity <net> *)
cmd_isis_net(net) ==
    /\ isis' = [isis EXCEPT !.net = net]
    /\ SendIsis(isis.process_id, <<Line(<<"net", isis.process_id>>, net)>>)

(* is-level {level-1|level-2|level-1-2} *)
cmd_isis_level(level) ==
    /\ isis' = [isis EXCEPT !.level = level]
    /\ SendIsis(isis.process_id, <<Line(<<"is-type", isis.process_id>>, level)>>)

(* set-overload-bit *)
cmd_isis_overload ==
    /\ isis' = [isis EXCEPT !.overload_bit = TRUE]
    /\ SendIsis(isis.process_id, <<Line(<<"set-overload-bit", isis.process_id>>, Enabled)>>)

IsisItems(pid) == {"isis", "net", "is-type", "set-overload-bit"} \X {pid}

RipItems == {k \in Keys : k[1] \in {"rip", "version", "network", "passive-interface"}}

(* undo isis [<process-id>]: the copy is wiped when FRR took the command,  *)
(* also when it was about another process than the copy's.                 *)
cmd_undo_isis(pid) ==
    /\ \/ Removed(IsisItems(pid)) /\ isis' = NoIsis
       \/ UNCHANGED <<frrVars, isis>>
    /\ UNCHANGED <<ospf, rip>>

IsisNext ==
    \/ \E pid \in ProcessIds : cmd_isis(pid) \/ cmd_undo_isis(pid)
    \/ \E net \in Nets : cmd_isis_net(net)
    \/ \E level \in 1 .. Level12 : cmd_isis_level(level)
    \/ cmd_isis_overload

-----------------------------------------------------------------------------
(* RIP: one process in FRR, whatever number is typed. *)
SendRip(line) ==
    /\ Vtysh(<<Line(<<"rip", NoArg>>, Enabled), line>>)
    /\ UNCHANGED <<ospf, isis>>

SendVersion(version) == SendRip(Line(<<"version", NoArg>>, version))

(* rip [<process-id>] *)
cmd_rip ==
    /\ rip' = [rip EXCEPT !.enabled = TRUE, !.version = 2]
    /\ SendVersion(2)

(* version {1|2} *)
cmd_rip_version(version) ==
    /\ rip' = [rip EXCEPT !.version = version]
    /\ SendVersion(version)

(* The last place of the list is never used. *)
IfRoom_Faulty(list, element, max) ==
    IF Len(list) < max - 1 THEN Append(list, element) ELSE list

(* The list with one more element, if there is room for it. *)
IfRoom(list, element, max) == IF Len(list) < max THEN Append(list, element) ELSE list

(* network <network-address>: sent also when the list is full *)
cmd_rip_network(network) ==
    /\ rip' = [rip EXCEPT !.networks = IfRoom(@, network, MaxNetworks)]
    /\ SendRip(Line(<<"network", network>>, Enabled))

(* silent-interface <interface-name>: likewise *)
cmd_rip_silent_interface(interface) ==
    /\ rip' = [rip EXCEPT !.silent_interfaces = IfRoom(@, interface, MaxSilent)]
    /\ SendRip(Line(<<"passive-interface", interface>>, Enabled))

(* authentication-mode {simple|md5} <password>: kept in the copy only *)
cmd_rip_authentication(password) ==
    /\ rip' = [rip EXCEPT !.authentication_key = password]
    /\ UNCHANGED <<frrVars, ospf, isis>>

(* The copy is wiped before FRR has answered. *)
cmd_undo_rip_Faulty ==
    /\ rip' = NoRip
    /\ Removed(RipItems) \/ UNCHANGED frrVars
    /\ UNCHANGED <<ospf, isis>>

(* undo rip *)
cmd_undo_rip ==
    /\ \/ Removed(RipItems) /\ rip' = NoRip
       \/ UNCHANGED <<frrVars, rip>>
    /\ UNCHANGED <<ospf, isis>>

RipNext ==
    \/ cmd_rip
    \/ \E version \in {1, 2} : cmd_rip_version(version)
    \/ \E network \in Networks : cmd_rip_network(network)
    \/ \E interface \in Interfaces : cmd_rip_silent_interface(interface)
    \/ \E password \in Passwords : cmd_rip_authentication(password)
    \/ cmd_undo_rip

-----------------------------------------------------------------------------
(* Static routes; a preference is a uint32_t, 60 when none is typed. *)
Uint32(n) == n % Word

Preference(typed) == IF typed = <<>> THEN 60 ELSE Uint32(typed[1])

(* The number is compared before it becomes unsigned. *)
cmd_ip_route_static_Faulty(route, typed) ==
    /\ typed # <<>> => typed[1] <= 255
    /\ Vtysh(<<Line(<<"ip route", route>>, Preference(typed))>>)
    /\ UNCHANGED copies

(* ip route-static <dest> <mask> <nexthop> [preference <value>] ... *)
cmd_ip_route_static(route, typed) ==
    /\ Preference(typed) <= 255
    /\ Vtysh(<<Line(<<"ip route", route>>, Preference(typed))>>)
    /\ UNCHANGED copies

(* ipv6 route-static ...: the preference is not checked *)
cmd_ipv6_route_static(route, typed) ==
    /\ Vtysh(<<Line(<<"ipv6 route", route>>, Preference(typed))>>)
    /\ UNCHANGED copies

(* undo ip route-static <dest> <mask> <nexthop> *)
cmd_undo_ip_route_static(route) ==
    /\ Vtysh(<<Line(<<"ip route", route>>, Absent)>>)
    /\ UNCHANGED copies

StaticNext ==
    \E route \in Routes :
        \/ \E typed \in {<<>>} \cup {<<n>> : n \in Preferences} :
              cmd_ip_route_static(route, typed) \/ cmd_ipv6_route_static(route, typed)
        \/ cmd_undo_ip_route_static(route)

-----------------------------------------------------------------------------
(* FRR is saved, stops and is started again while the CLI lives on. *)
FrrNext ==
    /\ Write \/ Crash \/ Restart
    /\ UNCHANGED copies

Next == OspfNext \/ IsisNext \/ RipNext \/ StaticNext \/ FrrNext

Spec == Init /\ [][Next]_vars

-----------------------------------------------------------------------------
(* Safety. *)

AreasOf(conf) ==
    \A pid \in ProcessIds, n \in AreaIds :
        conf[<<"area", <<pid, n>>>>] # Absent =>
            \E i \in DOMAIN ospf.areas : /\ ospf.areas[i].area_id = n
                                         /\ ospf.areas[i].type # Normal

VlinksOf(conf) ==
    \A pid \in ProcessIds, n \in AreaIds, neighbor \in Neighbors :
        conf[<<"virtual-link", <<pid, n, neighbor>>>>] # Absent =>
            \E i \in DOMAIN ospf.vlinks :
                ospf.vlinks[i] = [area_id |-> n, neighbor_id |-> neighbor]

(* An area FRR runs, or will run after a restart, as stub or NSSA is never *)
(* a normal area in the copy, whatever was refused or entered again.       *)
AreasRecorded == AreasOf(running) /\ AreasOf(startup)

(* Every virtual link in FRR, now or after a restart, is in the copy with  *)
(* the area it goes through, also when the table is full.                  *)
VirtualLinksRecorded == VlinksOf(running) /\ VlinksOf(startup)

(* The copy agrees with an item FRR runs.  The other items have no copy:   *)
(* that a process runs at all, the router id and the reference bandwidth,  *)
(* which the copy does not keep by process, default routes, static routes. *)
WrittenDown(k) ==
    LET arg == k[2]
        value == running[k]
    IN CASE k[1] = "area" ->
                \E i \in DOMAIN ospf.areas : /\ ospf.areas[i].area_id = arg[2]
                                             /\ ospf.areas[i].type = value
         [] k[1] = "virtual-link" ->
                \E i \in DOMAIN ospf.vlinks :
                    ospf.vlinks[i] = [area_id |-> arg[2], neighbor_id |-> arg[3]]
         [] k[1] = "net" -> isis.process_id = arg /\ isis.net = value
         [] k[1] = "is-type" -> isis.process_id = arg /\ isis.level = value
         [] k[1] = "set-overload-bit" -> isis.process_id = arg /\ isis.overload_bit
         [] k[1] = "version" -> rip.version = value
         [] k[1] = "network" -> \E i \in DOMAIN rip.networks : rip.networks[i] = arg
         [] k[1] = "passive-interface" ->
                \E i \in DOMAIN rip.silent_interfaces : rip.silent_interfaces[i] = arg
         [] OTHER -> TRUE

(* A list of RIP that is full takes no further element, but FRR is sent    *)
(* it: the code checks the bound for the copy only.                        *)
NoRoomFor(k) ==
    \/ k[1] = "network" /\ Len(rip.networks) = MaxNetworks
    \/ k[1] = "passive-interface" /\ Len(rip.silent_interfaces) = MaxSilent

(* What FRR takes of a command, all of it or the lines before one that it  *)
(* refused, the copy says of the same process, area, link, network or      *)
(* interface.  Two things reach FRR without the copy: what a restart       *)
(* brings back, and what was typed when the list of RIP it belongs to was  *)
(* full before the command.                                                *)
TakenAsWritten ==
    [][~Restart => \A k \in Keys :
           running'[k] \notin {running[k], Absent} => WrittenDown(k)' \/ NoRoomFor(k)]_vars

(* The copy of RIP is only wiped once FRR has let go of all of RIP.        *)
RipWipedLast ==
    [][rip # NoRip /\ rip' = NoRip => \A k \in RipItems : running'[k] = Absent]_vars
==============================================================================
