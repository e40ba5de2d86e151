---------------------------- MODULE RoutingProofs ----------------------------
(***************************************************************************)
(* Proofs about Routing, for any number of processes, areas, links,        *)
(* networks and routes, any capacities and any width of a preference.      *)
(*                                                                         *)
(* The invariants of the run are inductive together with one more, that    *)
(* the saved configuration has no preference out of range either.  The     *)
(* argument is the same for each command: vtysh changes in FRR only what   *)
(* the lines of the batch say (FrrProofs), and the copy already says it.   *)
(***************************************************************************)
EXTENDS Routing, FrrProofs

AreaKey(pid, n) == <<"area", <<pid, n>>>>
VlinkKey(pid, n, neighbor) == <<"virtual-link", <<pid, n, neighbor>>>>
RouteKey(route) == <<"ip route", route>>

TypedArea(n) ==
    \E i \in DOMAIN ospf.areas : ospf.areas[i].area_id = n /\ ospf.areas[i].type # Normal

HasVlink(n, neighbor) ==
    \E i \in DOMAIN ospf.vlinks :
        ospf.vlinks[i] = [area_id |-> n, neighbor_id |-> neighbor]

InRange(conf) == \A route \in Routes : conf[RouteKey(route)] \in {Absent} \cup (0 .. 255)

IInv == TypeOK /\ AreasRecorded /\ VirtualLinksRecorded /\ InRange(startup)

(* What TakenAsWritten and RipWipedLast say of one step. *)
Taken ==
    \A k \in Keys :
        running'[k] \notin {running[k], Absent} => WrittenDown(k)' \/ NoRoomFor(k)

WipedLast == rip # NoRip /\ rip' = NoRip => \A k \in RipItems : running'[k] = Absent

(* A step that is right in every respect. *)
Kept == IInv' /\ Taken /\ WipedLast

-----------------------------------------------------------------------------
LEMMA ObservedKeys ==
    ASSUME NEW pid \in ProcessIds, NEW n \in AreaIds
    PROVE  /\ AreaKey(pid, n) \in Keys
           /\ \A neighbor \in Neighbors : VlinkKey(pid, n, neighbor) \in Keys
  BY RoutingAssumption DEF AreaKey, VlinkKey

LEMMA RouteKeys == \A route \in Routes : RouteKey(route) \in Keys
  BY RoutingAssumption DEF RouteKey

LEMMA ValuesIn ==
    /\ 0 .. 255 \subseteq ConfigValues
    /\ Normal .. TotallyNssa \subseteq ConfigValues
    /\ 0 .. Level12 \subseteq ConfigValues
    /\ {Enabled} \cup Nets \cup RouterIds \cup Bandwidths \subseteq ConfigValues
    /\ \A n \in Int : Uint32(n) \in ConfigValues /\ Uint32(n) \in 0 .. Word - 1
  <1>1. /\ Word \in Nat /\ Word > 256 /\ 0 .. Word - 1 \subseteq ConfigValues
        /\ {Enabled} \cup Nets \cup RouterIds \cup Bandwidths \subseteq ConfigValues
    BY RoutingAssumption
  <1>2. \A n \in Int : Uint32(n) \in 0 .. Word - 1
    BY <1>1 DEF Uint32
  <1> QED BY <1>1, <1>2 DEF Normal, TotallyNssa, Level12

(* The invariant holds after a step that saves nothing, changes of the     *)
(* areas, links and routes in FRR only what is written down, or in range,  *)
(* and loses nothing that was written down.                                *)
LEMMA StillIInv ==
    ASSUME IInv, FrrTypeOK', CopiesTypeOK', startup' = startup,
           \A n \in AreaIds : TypedArea(n) => TypedArea(n)',
           \A n \in AreaIds, neighbor \in Neighbors :
               HasVlink(n, neighbor) => HasVlink(n, neighbor)',
           \A pid \in ProcessIds, n \in AreaIds :
               \/ running'[AreaKey(pid, n)] = running[AreaKey(pid, n)]
               \/ TypedArea(n)',
           \A pid \in ProcessIds, n \in AreaIds, neighbor \in Neighbors :
               \/ running'[VlinkKey(pid, n, neighbor)] = running[VlinkKey(pid, n, neighbor)]
               \/ HasVlink(n, neighbor)',
           \A route \in Routes :
               \/ running'[RouteKey(route)] = running[RouteKey(route)]
               \/ running'[RouteKey(route)] \in {Absent} \cup (0 .. 255)
    PROVE  IInv'
  <1>1. \A pid \in ProcessIds, n \in AreaIds :
           \/ running[AreaKey(pid, n)] # Absent
           \/ startup[AreaKey(pid, n)] # Absent
           => TypedArea(n)
    <2>1. AreasOf(running) /\ AreasOf(startup)
      BY DEF IInv, AreasRecorded
    <2>2. ASSUME NEW pid \in ProcessIds, NEW n \in AreaIds,
                 running[AreaKey(pid, n)] # Absent
          PROVE  TypedArea(n)
      BY <2>1, <2>2 DEF AreasOf, AreaKey, TypedArea
    <2>3. ASSUME NEW pid \in ProcessIds, NEW n \in AreaIds,
                 startup[AreaKey(pid, n)] # Absent
          PROVE  TypedArea(n)
      BY <2>1, <2>3 DEF AreasOf, AreaKey, TypedArea
    <2> QED BY <2>2, <2>3
  <1>2. \A pid \in ProcessIds, n \in AreaIds, neighbor \in Neighbors :
           \/ running[VlinkKey(pid, n, neighbor)] # Absent
           \/ startup[VlinkKey(pid, n, neighbor)] # Absent
           => HasVlink(n, neighbor)
    <2>1. VlinksOf(running) /\ VlinksOf(startup)
      BY DEF IInv, VirtualLinksRecorded
    <2>2. ASSUME NEW pid \in ProcessIds, NEW n \in AreaIds, NEW neighbor \in Neighbors,
                 running[VlinkKey(pid, n, neighbor)] # Absent
          PROVE  HasVlink(n, neighbor)
      BY <2>1, <2>2 DEF VlinksOf, VlinkKey, HasVlink
    <2>3. ASSUME NEW pid \in ProcessIds, NEW n \in AreaIds, NEW neighbor \in Neighbors,
                 startup[VlinkKey(pid, n, neighbor)] # Absent
          PROVE  HasVlink(n, neighbor)
      BY <2>1, <2>3 DEF VlinksOf, VlinkKey, HasVlink
    <2> QED BY <2>2, <2>3
  <1>3. \A pid \in ProcessIds, n \in AreaIds :
           \/ running'[AreaKey(pid, n)] # Absent
           \/ startup'[AreaKey(pid, n)] # Absent
           => TypedArea(n)'
    BY <1>1
  <1>4. \A pid \in ProcessIds, n \in AreaIds, neighbor \in Neighbors :
           \/ running'[VlinkKey(pid, n, neighbor)] # Absent
           \/ startup'[VlinkKey(pid, n, neighbor)] # Absent
           => HasVlink(n, neighbor)'
    BY <1>2
  <1>5. AreasRecorded'
    BY <1>3 DEF AreasRecorded, AreasOf, AreaKey, TypedArea
  <1>6. VirtualLinksRecorded'
    BY <1>4 DEF VirtualLinksRecorded, VlinksOf, VlinkKey, HasVlink
  <1>7. InRange(startup)' /\ PreferencesInRange'
    BY DEF IInv, TypeOK, InRange, PreferencesInRange, RouteKey
  <1> QED BY <1>5, <1>6, <1>7 DEF IInv, TypeOK

(* The copies of the other protocols lose nothing of OSPF. *)
LEMMA SameOspf ==
    ASSUME UNCHANGED ospf
    PROVE  /\ \A n \in AreaIds : TypedArea(n) => TypedArea(n)'
           /\ \A n \in AreaIds, neighbor \in Neighbors :
                 HasVlink(n, neighbor) => HasVlink(n, neighbor)'
  BY DEF TypedArea, HasVlink

(* A command that changes neither areas nor links, and in FRR only items   *)
(* of other kinds.                                                         *)
LEMMA ElsewhereIInv ==
    ASSUME IInv, FrrTypeOK', CopiesTypeOK', startup' = startup,
           ospf'.areas = ospf.areas, ospf'.vlinks = ospf.vlinks,
           \A k \in Keys : k[1] \in {"area", "virtual-link", "ip route"}
               => running'[k] = running[k]
    PROVE  IInv'
  <1>1. /\ \A n \in AreaIds : TypedArea(n) => TypedArea(n)'
        /\ \A n \in AreaIds, neighbor \in Neighbors :
              HasVlink(n, neighbor) => HasVlink(n, neighbor)'
    BY DEF TypedArea, HasVlink
  <1>2. \A pid \in ProcessIds, n \in AreaIds :
           running'[AreaKey(pid, n)] = running[AreaKey(pid, n)]
    BY ObservedKeys DEF AreaKey
  <1>3. \A pid \in ProcessIds, n \in AreaIds, neighbor \in Neighbors :
           running'[VlinkKey(pid, n, neighbor)] = running[VlinkKey(pid, n, neighbor)]
    BY ObservedKeys DEF VlinkKey
  <1>4. \A route \in Routes : running'[RouteKey(route)] = running[RouteKey(route)]
    BY RouteKeys DEF RouteKey
  <1> QED BY <1>1, <1>2, <1>3, <1>4, StillIInv

(* The cases of WrittenDown, after a step. *)
LEMMA WrittenCases ==
    ASSUME NEW k
    PROVE  /\ k[1] \notin {"area", "virtual-link", "net", "is-type", "set-overload-bit",
                         "version", "network", "passive-interface"}
                => WrittenDown(k)'
           /\ k[1] = "area"
                => (WrittenDown(k)' <=>
                      \E i \in DOMAIN ospf'.areas : /\ ospf'.areas[i].area_id = k[2][2]
                                                    /\ ospf'.areas[i].type = running'[k])
           /\ k[1] = "virtual-link"
                => (WrittenDown(k)' <=>
                      \E i \in DOMAIN ospf'.vlinks :
                          ospf'.vlinks[i] = [area_id |-> k[2][2], neighbor_id |-> k[2][3]])
           /\ k[1] = "net"
                => (WrittenDown(k)' <=> isis'.process_id = k[2] /\ isis'.net = running'[k])
           /\ k[1] = "is-type"
                => (WrittenDown(k)' <=> isis'.process_id = k[2] /\ isis'.level = running'[k])
           /\ k[1] = "set-overload-bit"
                => (WrittenDown(k)' <=> isis'.process_id = k[2] /\ isis'.overload_bit)
           /\ k[1] = "version"
                => (WrittenDown(k)' <=> rip'.version = running'[k])
           /\ k[1] = "network"
                => (WrittenDown(k)' <=>
                      \E i \in DOMAIN rip'.networks : rip'.networks[i] = k[2])
           /\ k[1] = "passive-interface"
                => (WrittenDown(k)' <=>
                      \E i \in DOMAIN rip'.silent_interfaces :
                          rip'.silent_interfaces[i] = k[2])
  BY DEF WrittenDown

(* What a batch about OSPF, IS-IS or RIP leaves in FRR: one line follows   *)
(* the line that opens the process.                                        *)
LEMMA SendOspfEffect ==
    ASSUME FrrTypeOK, NEW k, NEW v, k \in Keys => v \in ConfigValues,
           SendOspf(Line(k, v))
    PROVE  /\ FrrTypeOK'
           /\ UNCHANGED <<startup, isis, rip>>
           /\ \A item \in Keys :
                 \/ running'[item] = running[item]
                 \/ item[1] = "ospf"
                 \/ item = k /\ running'[item] = v
  <1>1. Enabled \in ConfigValues
    BY RoutingAssumption
  <1> QED BY <1>1, TwoLines DEF SendOspf, Vtysh

LEMMA SendIsisEffect ==
    ASSUME FrrTypeOK, NEW pid, NEW k, NEW v, k \in Keys => v \in ConfigValues,
           SendIsis(pid, <<Line(k, v)>>)
    PROVE  /\ FrrTypeOK'
           /\ UNCHANGED <<startup, ospf, rip>>
           /\ \A item \in Keys :
                 \/ running'[item] = running[item]
                 \/ item[1] = "isis"
                 \/ item = k /\ running'[item] = v
  <1>1. Enabled \in ConfigValues
    BY RoutingAssumption
  <1> DEFINE first == Line(<<"isis", pid>>, Enabled)
             second == Line(k, v)
  <1>2. <<first>> \o <<second>> = <<first, second>>
    BY ConcatPair
  <1>3. UNCHANGED <<ospf, rip>> /\ Vtysh(<<first, second>>)
    BY <1>2 DEF SendIsis
  <1> QED BY <1>1, <1>3, TwoLines DEF Vtysh

LEMMA SendRipEffect ==
    ASSUME FrrTypeOK, NEW k, NEW v, k \in Keys => v \in ConfigValues,
           SendRip(Line(k, v))
    PROVE  /\ FrrTypeOK'
           /\ UNCHANGED <<startup, ospf, isis>>
           /\ \A item \in Keys :
                 \/ running'[item] = running[item]
                 \/ item[1] = "rip"
                 \/ item = k /\ running'[item] = v
  <1>1. Enabled \in ConfigValues
    BY RoutingAssumption
  <1> QED BY <1>1, TwoLines DEF SendRip, Vtysh

-----------------------------------------------------------------------------
(* OSPF *)
LEMMA OspfKept ==
    ASSUME IInv, NEW pid \in ProcessIds, NEW id \in RouterIds \cup {Empty},
           cmd_ospf(pid, id)
    PROVE  Kept
  <1> DEFINE router_id == IF id = Empty THEN ospf.router_id ELSE id
             opening == <<"ospf", pid>>
             naming == <<"router-id", pid>>
  <1>1. /\ ospf' = [ospf EXCEPT !.process_id = pid, !.router_id = router_id]
        /\ UNCHANGED <<isis, rip>>
        /\ Vtysh(IF router_id = Empty THEN <<Line(opening, Enabled)>>
                 ELSE Append(<<Line(opening, Enabled)>>, Line(naming, router_id)))
    BY DEF cmd_ospf
  <1>2. router_id \in RouterIds \cup {Empty} /\ FrrTypeOK /\ CopiesTypeOK
    BY DEF IInv, TypeOK, CopiesTypeOK, OspfConfig
  <1>3. Enabled \in ConfigValues /\ RouterIds \subseteq ConfigValues
    BY RoutingAssumption
  <1>4. /\ FrrTypeOK'
        /\ startup' = startup
        /\ \A k \in Keys : \/ running'[k] = running[k]
                           \/ k[1] \in {"ospf", "router-id"}
    <2> HIDE DEF router_id
    <2>1. CASE router_id = Empty
      BY <1>1, <1>2, <1>3, <2>1, OneLine DEF Vtysh
    <2>2. CASE router_id # Empty
      <3>1. Vtysh(<<Line(opening, Enabled), Line(naming, router_id)>>)
        BY <1>1, <2>2, AppendOne
      <3>2. router_id \in ConfigValues
        BY <1>2, <1>3, <2>2
      <3> QED BY <1>2, <1>3, <3>1, <3>2, TwoLines DEF Vtysh
    <2> QED BY <2>1, <2>2
  <1>5. CopiesTypeOK'
    BY <1>1, <1>2 DEF CopiesTypeOK, OspfConfig
  <1>6. ospf'.areas = ospf.areas /\ ospf'.vlinks = ospf.vlinks
    BY <1>1, <1>2 DEF CopiesTypeOK, OspfConfig
  <1>7. IInv'
    BY <1>4, <1>5, <1>6, ElsewhereIInv
  <1>8. Taken
    BY <1>4, WrittenCases DEF Taken
  <1> QED BY <1>1, <1>7, <1>8 DEF Kept, WipedLast

LEMMA NewAreaKept ==
    ASSUME IInv, NEW n \in AreaIds, cmd_ospf_area(n)
    PROVE  Kept
  <1>1. /\ ospf' = [ospf EXCEPT !.areas = Append(ospf.areas, NewArea(n))]
        /\ Len(ospf.areas) < MaxAreas
        /\ UNCHANGED <<frrVars, isis, rip>>
    BY DEF cmd_ospf_area
  <1>2. CopiesTypeOK /\ FrrTypeOK /\ MaxAreas \in Nat
    BY RoutingAssumption DEF IInv, TypeOK
  <1>3. NewArea(n) \in Area
    BY DEF NewArea, Area, Normal, TotallyNssa
  <1>4. /\ ospf.areas \in Seq(Area)
        /\ ospf'.areas = Append(ospf.areas, NewArea(n))
        /\ ospf'.vlinks = ospf.vlinks
        /\ ospf' \in OspfConfig
    <2>1. ospf \in OspfConfig
      BY <1>2 DEF CopiesTypeOK
    <2>2. ospf.areas \in Seq(Area) /\ Append(ospf.areas, NewArea(n)) \in Seq(Area)
      BY <1>3, <2>1 DEF OspfConfig
    <2> QED BY <1>1, <2>1, <2>2 DEF OspfConfig
  <1>5. Len(ospf'.areas) <= MaxAreas
    BY <1>1, <1>2, <1>3, <1>4
  <1>6. CopiesTypeOK'
    BY <1>1, <1>2, <1>4, <1>5 DEF CopiesTypeOK
  <1>7. /\ DOMAIN ospf.areas \subseteq DOMAIN ospf'.areas
        /\ \A i \in DOMAIN ospf.areas : ospf'.areas[i] = ospf.areas[i]
    BY <1>3, <1>4
  <1>8. \A m \in AreaIds : TypedArea(m) => TypedArea(m)'
    BY <1>7 DEF TypedArea
  <1>9. \A m \in AreaIds, neighbor \in Neighbors :
           HasVlink(m, neighbor) => HasVlink(m, neighbor)'
    BY <1>4 DEF HasVlink
  <1>10. FrrTypeOK' /\ startup' = startup /\ running' = running
    BY <1>1, <1>2 DEF frrVars, FrrTypeOK
  <1>11. IInv'
    BY <1>6, <1>8, <1>9, <1>10, StillIInv
  <1> QED BY <1>1, <1>10, <1>11 DEF Kept, Taken, WipedLast

(* stub and nssa *)
LEMMA AreaTypedKept ==
    ASSUME IInv, ospf.areas # <<>>, NEW type \in Stub .. TotallyNssa,
           SetLastArea([LastArea EXCEPT !.type = type])
    PROVE  Kept
  <1> DEFINE last == Len(ospf.areas)
             area == [LastArea EXCEPT !.type = type]
             key == <<"area", <<ospf.process_id, area.area_id>>>>
  <1>1. FrrTypeOK /\ CopiesTypeOK /\ ospf.areas \in Seq(Area)
    BY DEF IInv, TypeOK, CopiesTypeOK, OspfConfig
  <1>2. last \in DOMAIN ospf.areas /\ ospf.areas[last] \in Area
    BY <1>1
  <1>3. /\ area \in Area /\ area.area_id = ospf.areas[last].area_id
        /\ area.type = type /\ type # Normal
    BY <1>2 DEF Area, LastArea, Normal, Stub, TotallyNssa
  <1>4. ospf' = [ospf EXCEPT !.areas[last] = area] /\ SendOspf(Line(key, type))
    BY <1>3 DEF SetLastArea
  <1> HIDE DEF area
  <1>5. /\ ospf'.areas = [ospf.areas EXCEPT ![last] = area]
        /\ ospf'.vlinks = ospf.vlinks
        /\ ospf'.areas \in Seq(Area) /\ Len(ospf'.areas) = Len(ospf.areas)
        /\ ospf' \in OspfConfig
    <2>1. ospf \in OspfConfig
      BY <1>1 DEF CopiesTypeOK
    <2>2. ospf' = [ospf EXCEPT !.areas = [ospf.areas EXCEPT ![last] = area]]
      BY <1>4
    <2>3. /\ [ospf.areas EXCEPT ![last] = area] \in Seq(Area)
          /\ Len([ospf.areas EXCEPT ![last] = area]) = Len(ospf.areas)
      BY <1>1, <1>2, <1>3
    <2> HIDE DEF last
    <2> QED BY <2>1, <2>2, <2>3 DEF OspfConfig
  <1>6. type \in ConfigValues
    <2>1. type \in 1 .. 4
      BY DEF Stub, TotallyNssa
    <2>2. Normal .. TotallyNssa = 0 .. 4
      BY DEF Normal, TotallyNssa
    <2> QED BY <2>1, <2>2, ValuesIn
  <1> HIDE DEF key
  <1>7. /\ FrrTypeOK' /\ UNCHANGED <<startup, isis, rip>>
        /\ \A k \in Keys : \/ running'[k] = running[k]
                           \/ k[1] = "ospf"
                           \/ k = key /\ running'[k] = type
    BY <1>1, <1>4, <1>6, SendOspfEffect
  <1>8. CopiesTypeOK'
    BY <1>1, <1>5, <1>7 DEF CopiesTypeOK
  <1>9. \A m \in AreaIds : TypedArea(m) => TypedArea(m)'
    BY <1>1, <1>2, <1>3, <1>5 DEF TypedArea
  <1>10. /\ last \in DOMAIN ospf'.areas
         /\ ospf'.areas[last].area_id = area.area_id
         /\ ospf'.areas[last].type = type
    BY <1>1, <1>2, <1>3, <1>5
  <1>11. \A m \in AreaIds, neighbor \in Neighbors :
            HasVlink(m, neighbor) => HasVlink(m, neighbor)'
    BY <1>5 DEF HasVlink
  <1>12. ASSUME NEW pid \in ProcessIds, NEW m \in AreaIds
         PROVE  \/ running'[AreaKey(pid, m)] = running[AreaKey(pid, m)]
                \/ TypedArea(m)'
    <2>1. CASE AreaKey(pid, m) = key
      <3>1. m = area.area_id
        BY <2>1 DEF AreaKey, key
      <3> QED BY <1>3, <1>10, <3>1 DEF TypedArea
    <2>2. CASE AreaKey(pid, m) # key
      BY <1>7, <2>2, ObservedKeys DEF AreaKey
    <2> QED BY <2>1, <2>2
  <1>13. \A pid \in ProcessIds, m \in AreaIds, neighbor \in Neighbors :
            running'[VlinkKey(pid, m, neighbor)] = running[VlinkKey(pid, m, neighbor)]
    BY <1>7, ObservedKeys DEF VlinkKey, key
  <1>14. \A route \in Routes : running'[RouteKey(route)] = running[RouteKey(route)]
    BY <1>7, RouteKeys DEF RouteKey, key
  <1>15. IInv'
    BY <1>7, <1>8, <1>9, <1>11, <1>12, <1>13, <1>14, StillIInv
  <1>16. Taken
    <2> SUFFICES ASSUME NEW k \in Keys, running'[k] \notin {running[k], Absent}
                 PROVE  WrittenDown(k)'
      BY DEF Taken
    <2>1. CASE k[1] = "ospf"
      BY <2>1, WrittenCases
    <2>2. CASE k = key /\ running'[k] = type
      <3>1. k[1] = "area" /\ k[2][2] = area.area_id
        BY <2>2 DEF key
      <3>2. WrittenDown(k)' <=>
              \E i \in DOMAIN ospf'.areas : /\ ospf'.areas[i].area_id = k[2][2]
                                            /\ ospf'.areas[i].type = running'[k]
        BY <3>1, WrittenCases
      <3> HIDE DEF last
      <3> QED BY <1>10, <2>2, <3>1, <3>2
    <2> QED BY <1>7, <2>1, <2>2
  <1> QED BY <1>7, <1>15, <1>16 DEF Kept, WipedLast

LEMMA VlinkKept ==
    ASSUME IInv, NEW neighbor \in Neighbors, cmd_ospf_vlink(neighbor)
    PROVE  Kept
  <1> DEFINE n == LastArea.area_id
             link == [area_id |-> n, neighbor_id |-> neighbor]
             key == <<"virtual-link", <<ospf.process_id, n, neighbor>>>>
  <1>1. FrrTypeOK /\ CopiesTypeOK /\ ospf \in OspfConfig
    BY DEF IInv, TypeOK, CopiesTypeOK
  <1>2. ospf.areas \in Seq(Area) /\ ospf.vlinks \in Seq(VirtualLink)
    BY <1>1 DEF OspfConfig
  <1>3. /\ ospf.areas # <<>> /\ Len(ospf.vlinks) < MaxVlinks
        /\ ospf' = [ospf EXCEPT !.vlinks = Append(ospf.vlinks, link)]
        /\ SendOspf(Line(key, Enabled))
    BY DEF cmd_ospf_vlink, SendVlink
  <1>4. LastArea \in Area
    BY <1>2, <1>3 DEF LastArea
  <1>5. link \in VirtualLink
    BY <1>4 DEF Area, VirtualLink
  <1> HIDE DEF link
  <1>6. /\ ospf'.areas = ospf.areas
        /\ ospf'.vlinks = Append(ospf.vlinks, link)
        /\ ospf'.vlinks \in Seq(VirtualLink)
        /\ ospf' \in OspfConfig
    <2>1. Append(ospf.vlinks, link) \in Seq(VirtualLink)
      BY <1>2, <1>5
    <2> QED BY <1>1, <1>3, <2>1 DEF OspfConfig
  <1>7. Len(ospf'.vlinks) <= MaxVlinks
    <2>1. MaxVlinks \in Nat /\ Len(ospf.vlinks) < MaxVlinks
      BY <1>3, RoutingAssumption
    <2>2. Len(ospf'.vlinks) = Len(ospf.vlinks) + 1 /\ Len(ospf.vlinks) \in Nat
      BY <1>2, <1>5, <1>6
    <2> QED BY <2>1, <2>2
  <1>8. Enabled \in ConfigValues
    BY RoutingAssumption
  <1> HIDE DEF key
  <1>9. /\ FrrTypeOK' /\ UNCHANGED <<startup, isis, rip>>
        /\ \A k \in Keys : \/ running'[k] = running[k]
                           \/ k[1] = "ospf"
                           \/ k = key /\ running'[k] = Enabled
    BY <1>1, <1>3, <1>8, SendOspfEffect
  <1>10. CopiesTypeOK'
    BY <1>1, <1>6, <1>7, <1>9 DEF CopiesTypeOK
  <1>11. \A m \in AreaIds : TypedArea(m) => TypedArea(m)'
    BY <1>6 DEF TypedArea
  <1>12. /\ \A i \in DOMAIN ospf.vlinks :
               i \in DOMAIN ospf'.vlinks /\ ospf'.vlinks[i] = ospf.vlinks[i]
         /\ \E i \in DOMAIN ospf'.vlinks : ospf'.vlinks[i] = link
    <2>1. /\ Len(ospf.vlinks) + 1 \in DOMAIN ospf'.vlinks
          /\ ospf'.vlinks[Len(ospf.vlinks) + 1] = link
      BY <1>2, <1>5, <1>6
    <2>2. \A i \in DOMAIN ospf.vlinks :
             i \in DOMAIN ospf'.vlinks /\ ospf'.vlinks[i] = ospf.vlinks[i]
      BY <1>2, <1>5, <1>6
    <2> QED BY <2>1, <2>2
  <1>13. \A m \in AreaIds, other \in Neighbors :
            HasVlink(m, other) => HasVlink(m, other)'
    BY <1>12 DEF HasVlink
  <1>14. \A pid \in ProcessIds, m \in AreaIds :
            running'[AreaKey(pid, m)] = running[AreaKey(pid, m)]
    BY <1>9, ObservedKeys DEF AreaKey, key
  <1>15. ASSUME NEW pid \in ProcessIds, NEW m \in AreaIds, NEW other \in Neighbors
         PROVE  \/ running'[VlinkKey(pid, m, other)] = running[VlinkKey(pid, m, other)]
                \/ HasVlink(m, other)'
    <2>1. CASE VlinkKey(pid, m, other) = key
      <3>1. m = n /\ other = neighbor
        BY <2>1 DEF VlinkKey, key
      <3> QED BY <1>12, <3>1 DEF HasVlink, link
    <2>2. CASE VlinkKey(pid, m, other) # key
      BY <1>9, <2>2, ObservedKeys DEF VlinkKey
    <2> QED BY <2>1, <2>2
  <1>16. \A route \in Routes : running'[RouteKey(route)] = running[RouteKey(route)]
    BY <1>9, RouteKeys DEF RouteKey, key
  <1>17. IInv'
    BY <1>9, <1>10, <1>11, <1>13, <1>14, <1>15, <1>16, StillIInv
  <1>18. Taken
    <2> SUFFICES ASSUME NEW k \in Keys, running'[k] \notin {running[k], Absent}
                 PROVE  WrittenDown(k)'
      BY DEF Taken
    <2>1. CASE k[1] = "ospf"
      BY <2>1, WrittenCases
    <2>2. CASE k = key
      <3>1. k[1] = "virtual-link" /\ k[2][2] = n /\ k[2][3] = neighbor
        BY <2>2 DEF key
      <3> QED BY <1>12, <3>1, WrittenCases DEF link
    <2> QED BY <1>9, <2>1, <2>2
  <1> QED BY <1>9, <1>17, <1>18 DEF Kept, WipedLast

(* A line about one process of OSPF that the copy keeps nowhere that a     *)
(* property looks.                                                         *)
LEMMA PlainOspfKept ==
    ASSUME IInv, NEW kind \in {"auto-cost", "default-information"},
           NEW v \in ConfigValues,
           SendOspf(Line(<<kind, ospf.process_id>>, v)),
           ospf' \in OspfConfig, ospf'.areas = ospf.areas, ospf'.vlinks = ospf.vlinks
    PROVE  Kept
  <1> DEFINE key == <<kind, ospf.process_id>>
  <1>1. FrrTypeOK /\ CopiesTypeOK
    BY DEF IInv, TypeOK
  <1> HIDE DEF key
  <1>2. SendOspf(Line(key, v))
    BY DEF key
  <1>3. /\ FrrTypeOK' /\ UNCHANGED <<startup, isis, rip>>
        /\ \A k \in Keys : \/ running'[k] = running[k]
                           \/ k[1] = "ospf"
                           \/ k = key /\ running'[k] = v
    BY <1>1, <1>2, SendOspfEffect
  <1>4. \A k \in Keys : \/ running'[k] = running[k]
                        \/ k[1] \in {"ospf", "auto-cost", "default-information"}
    BY <1>3 DEF key
  <1>5. CopiesTypeOK'
    BY <1>1, <1>3 DEF CopiesTypeOK
  <1>6. IInv'
    BY <1>3, <1>4, <1>5, ElsewhereIInv
  <1>7. Taken
    BY <1>4, WrittenCases DEF Taken
  <1> QED BY <1>3, <1>6, <1>7 DEF Kept, WipedLast

LEMMA OspfNextKept ==
    ASSUME IInv, OspfNext
    PROVE  Kept
  <1>1. ospf \in OspfConfig /\ Enabled \in ConfigValues /\ Bandwidths \subseteq ConfigValues
    BY RoutingAssumption DEF IInv, TypeOK, CopiesTypeOK
  <1>2. CASE \E pid \in ProcessIds, id \in RouterIds \cup {Empty} : cmd_ospf(pid, id)
    BY <1>2, OspfKept
  <1>3. CASE \E n \in AreaIds : cmd_ospf_area(n)
    BY <1>3, NewAreaKept
  <1>4. CASE \E no_summary \in BOOLEAN :
                cmd_ospf_area_nssa(no_summary) \/ cmd_ospf_area_stub(no_summary)
    <2>1. /\ ospf.areas # <<>>
          /\ \E type \in {Stub, Nssa, TotallyStub, TotallyNssa} :
                SetLastArea([LastArea EXCEPT !.type = type])
      BY <1>4 DEF cmd_ospf_area_nssa, cmd_ospf_area_stub
    <2>2. {Stub, Nssa, TotallyStub, TotallyNssa} \subseteq Stub .. TotallyNssa
      BY DEF Stub, Nssa, TotallyStub, TotallyNssa
    <2> QED BY <2>1, <2>2, AreaTypedKept
  <1>5. CASE \E neighbor \in Neighbors : cmd_ospf_vlink(neighbor)
    BY <1>5, VlinkKept
  <1>6. ASSUME NEW bandwidth \in Bandwidths, cmd_ospf_bandwidth_reference(bandwidth)
        PROVE  Kept
    <2>1. /\ ospf' = [ospf EXCEPT !.reference_bandwidth = bandwidth]
          /\ SendOspf(Line(<<"auto-cost", ospf.process_id>>, bandwidth))
      BY <1>6 DEF cmd_ospf_bandwidth_reference
    <2>2. ospf' \in OspfConfig /\ ospf'.areas = ospf.areas /\ ospf'.vlinks = ospf.vlinks
      BY <1>1, <2>1 DEF OspfConfig
    <2> QED BY <1>1, <2>1, <2>2, PlainOspfKept
  <1>7. CASE cmd_ospf_default_route
    BY <1>1, <1>7, PlainOspfKept DEF cmd_ospf_default_route
  <1> QED BY <1>2, <1>3, <1>4, <1>5, <1>6, <1>7 DEF OspfNext

-----------------------------------------------------------------------------
(* IS-IS *)
OfIsis == {"isis", "net", "is-type", "set-overload-bit"}

LEMMA IsisKept ==
    ASSUME IInv, isis' \in IsisConfig, UNCHANGED <<ospf, rip, startup>>, FrrTypeOK',
           \A k \in Keys : \/ running'[k] \in {running[k], Absent}
                           \/ k[1] \in OfIsis /\ WrittenDown(k)',
           \A k \in Keys : running'[k] = running[k] \/ k[1] \in OfIsis
    PROVE  Kept
  <1>1. CopiesTypeOK'
    BY DEF IInv, TypeOK, CopiesTypeOK
  <1>2. IInv'
    BY <1>1, ElsewhereIInv DEF OfIsis
  <1>3. Taken
    BY DEF Taken
  <1> QED BY <1>2, <1>3 DEF Kept, WipedLast

LEMMA IsisCommandKept ==
    ASSUME IInv, isis' \in IsisConfig, NEW key, key[1] \in OfIsis, NEW v \in ConfigValues,
           SendIsis(isis.process_id, <<Line(key, v)>>),
           running'[key] = v => WrittenDown(key)'
    PROVE  Kept
  <1>1. FrrTypeOK
    BY DEF IInv, TypeOK
  <1>2. /\ FrrTypeOK' /\ UNCHANGED <<startup, ospf, rip>>
        /\ \A k \in Keys : \/ running'[k] = running[k]
                           \/ k[1] = "isis"
                           \/ k = key /\ running'[k] = v
    BY <1>1, SendIsisEffect
  <1>3. \A k \in Keys : k[1] = "isis" => k[1] \in OfIsis /\ WrittenDown(k)'
    BY WrittenCases DEF OfIsis
  <1>4. ASSUME NEW k \in Keys
        PROVE  /\ \/ running'[k] \in {running[k], Absent}
                  \/ k[1] \in OfIsis /\ WrittenDown(k)'
               /\ running'[k] = running[k] \/ k[1] \in OfIsis
    <2>1. CASE k = key /\ running'[k] = v
      BY <2>1
    <2> QED BY <1>2, <1>3, <2>1
  <1> QED BY <1>2, <1>4, IsisKept

LEMMA IsisNextKept ==
    ASSUME IInv, IsisNext
    PROVE  Kept
  <1>1. isis \in IsisConfig /\ FrrTypeOK
    BY DEF IInv, TypeOK, CopiesTypeOK
  <1>2. /\ Enabled \in ConfigValues /\ Nets \subseteq ConfigValues
        /\ 1 .. Level12 \subseteq 0 .. Level12 /\ 0 .. Level12 \subseteq ConfigValues
        /\ 0 \in ProcessIds /\ 0 \in 0 .. Level12 /\ Level12 \in 0 .. Level12
    <2>1. /\ Enabled \in ConfigValues /\ Nets \subseteq ConfigValues /\ 0 \in ProcessIds
      BY RoutingAssumption
    <2>2. /\ 1 .. Level12 \subseteq 0 .. Level12
          /\ 0 \in 0 .. Level12 /\ Level12 \in 0 .. Level12
      BY DEF Level12
    <2> QED BY <2>1, <2>2, ValuesIn
  <1>3. ASSUME NEW pid \in ProcessIds, cmd_isis(pid)
        PROVE  Kept
    <2>1. isis' \in IsisConfig
      BY <1>1, <1>2, <1>3 DEF cmd_isis, IsisConfig
    <2>2. UNCHANGED <<ospf, rip>> /\ Vtysh(<<Line(<<"isis", pid>>, Enabled)>>)
      BY <1>3, ConcatPair DEF cmd_isis, SendIsis
    <2>3. /\ FrrTypeOK' /\ startup' = startup
          /\ \A k \in Keys : running'[k] = running[k] \/ k[1] = "isis"
      BY <1>1, <1>2, <2>2, OneLine DEF Vtysh
    <2>4. \A k \in Keys : k[1] = "isis" => k[1] \in OfIsis /\ WrittenDown(k)'
      BY WrittenCases DEF OfIsis
    <2> QED BY <2>1, <2>2, <2>3, <2>4, IsisKept
  <1>4. ASSUME NEW pid \in ProcessIds, cmd_undo_isis(pid)
        PROVE  Kept
    <2>1. CASE Removed(IsisItems(pid)) /\ isis' = NoIsis
      <3>1. isis' \in IsisConfig
        BY <1>2, <2>1 DEF NoIsis, IsisConfig
      <3>2. \A k \in IsisItems(pid) : k[1] \in OfIsis
        BY DEF IsisItems, OfIsis
      <3>3. /\ startup' = startup /\ up' = up
            /\ running' = [k \in Keys |-> IF k \in IsisItems(pid) THEN Absent ELSE running[k]]
        BY <2>1 DEF Removed
      <3>4. FrrTypeOK'
        BY <1>1, <3>3 DEF FrrTypeOK, Configurations
      <3>5. UNCHANGED <<ospf, rip>>
        BY <1>4 DEF cmd_undo_isis
      <3> QED BY <3>1, <3>2, <3>3, <3>4, <3>5, IsisKept
    <2>2. CASE UNCHANGED <<frrVars, isis>>
      BY <1>1, <1>4, <2>2, IsisKept DEF cmd_undo_isis, frrVars, FrrTypeOK
    <2> QED BY <1>4, <2>1, <2>2 DEF cmd_undo_isis
  <1>5. ASSUME NEW net \in Nets, cmd_isis_net(net)
        PROVE  Kept
    <2>1. /\ isis' = [isis EXCEPT !.net = net]
          /\ SendIsis(isis.process_id, <<Line(<<"net", isis.process_id>>, net)>>)
      BY <1>5 DEF cmd_isis_net
    <2>2. /\ isis' \in IsisConfig
          /\ isis'.process_id = isis.process_id /\ isis'.net = net
      BY <1>1, <2>1 DEF IsisConfig
    <2> PICK pid : pid = isis.process_id
      OBVIOUS
    <2> DEFINE key == <<"net", pid>>
    <2>3. key[1] \in OfIsis /\ (running'[key] = net => WrittenDown(key)')
      BY <2>2, WrittenCases DEF OfIsis
    <2>4. net \in ConfigValues
      BY <1>2
    <2> HIDE DEF key
    <2>5. SendIsis(isis.process_id, <<Line(key, net)>>)
      BY <2>1 DEF key
    <2> QED BY <2>2, <2>3, <2>4, <2>5, IsisCommandKept
  <1>6. ASSUME NEW level \in 1 .. Level12, cmd_isis_level(level)
        PROVE  Kept
    <2>1. /\ isis' = [isis EXCEPT !.level = level]
          /\ SendIsis(isis.process_id, <<Line(<<"is-type", isis.process_id>>, level)>>)
      BY <1>6 DEF cmd_isis_level
    <2>2. /\ isis' \in IsisConfig
          /\ isis'.process_id = isis.process_id /\ isis'.level = level
      BY <1>1, <1>2, <2>1 DEF IsisConfig
    <2> PICK pid : pid = isis.process_id
      OBVIOUS
    <2> DEFINE key == <<"is-type", pid>>
    <2>3. key[1] \in OfIsis /\ (running'[key] = level => WrittenDown(key)')
      BY <2>2, WrittenCases DEF OfIsis
    <2>4. level \in ConfigValues
      BY <1>2
    <2> HIDE DEF key
    <2>5. SendIsis(isis.process_id, <<Line(key, level)>>)
      BY <2>1 DEF key
    <2> QED BY <2>2, <2>3, <2>4, <2>5, IsisCommandKept
  <1>7. ASSUME cmd_isis_overload
        PROVE  Kept
    <2>1. /\ isis' = [isis EXCEPT !.overload_bit = TRUE]
          /\ SendIsis(isis.process_id,
                      <<Line(<<"set-overload-bit", isis.process_id>>, Enabled)>>)
      BY <1>7 DEF cmd_isis_overload
    <2>2. /\ isis' \in IsisConfig
          /\ isis'.process_id = isis.process_id /\ isis'.overload_bit
      BY <1>1, <2>1 DEF IsisConfig
    <2> PICK pid : pid = isis.process_id
      OBVIOUS
    <2> DEFINE key == <<"set-overload-bit", pid>>
    <2>3. key[1] \in OfIsis /\ (running'[key] = Enabled => WrittenDown(key)')
      BY <2>2, WrittenCases DEF OfIsis
    <2>4. Enabled \in ConfigValues
      BY <1>2
    <2> HIDE DEF key
    <2>5. SendIsis(isis.process_id, <<Line(key, Enabled)>>)
      BY <2>1 DEF key
    <2> QED BY <2>2, <2>3, <2>4, <2>5, IsisCommandKept
  <1> QED BY <1>3, <1>4, <1>5, <1>6, <1>7 DEF IsisNext

-----------------------------------------------------------------------------
(* RIP *)
OfRip == {"rip", "version", "network", "passive-interface"}

LEMMA RipKept ==
    ASSUME IInv, rip' \in RipConfig, UNCHANGED <<ospf, isis, startup>>, FrrTypeOK',
           Len(rip'.networks) <= MaxNetworks, Len(rip'.silent_interfaces) <= MaxSilent,
           \A k \in Keys : \/ running'[k] \in {running[k], Absent}
                           \/ k[1] \in OfRip /\ (WrittenDown(k)' \/ NoRoomFor(k)),
           \A k \in Keys : running'[k] = running[k] \/ k[1] \in OfRip,
           WipedLast
    PROVE  Kept
  <1>1. CopiesTypeOK'
    BY DEF IInv, TypeOK, CopiesTypeOK
  <1>2. IInv'
    BY <1>1, ElsewhereIInv DEF OfRip
  <1>3. Taken
    BY DEF Taken
  <1> QED BY <1>2, <1>3 DEF Kept

LEMMA RipCommandKept ==
    ASSUME IInv, rip' \in RipConfig, rip' # NoRip,
           Len(rip'.networks) <= MaxNetworks, Len(rip'.silent_interfaces) <= MaxSilent,
           NEW key, key[1] \in OfRip, NEW v \in ConfigValues, SendRip(Line(key, v)),
           running'[key] = v => WrittenDown(key)' \/ NoRoomFor(key)
    PROVE  Kept
  <1>1. FrrTypeOK
    BY DEF IInv, TypeOK
  <1>2. /\ FrrTypeOK' /\ UNCHANGED <<startup, ospf, isis>>
        /\ \A k \in Keys : \/ running'[k] = running[k]
                           \/ k[1] = "rip"
                           \/ k = key /\ running'[k] = v
    BY <1>1, SendRipEffect
  <1>3. \A k \in Keys : k[1] = "rip" => k[1] \in OfRip /\ WrittenDown(k)'
    BY WrittenCases DEF OfRip
  <1>4. ASSUME NEW k \in Keys
        PROVE  /\ \/ running'[k] \in {running[k], Absent}
                  \/ k[1] \in OfRip /\ (WrittenDown(k)' \/ NoRoomFor(k))
               /\ running'[k] = running[k] \/ k[1] \in OfRip
    <2>1. CASE k = key /\ running'[k] = v
      BY <2>1
    <2> QED BY <1>2, <1>3, <2>1
  <1>5. WipedLast
    BY DEF WipedLast
  <1> QED BY <1>2, <1>4, <1>5, RipKept

(* A list after one more element, and what it holds then. *)
LEMMA IfRoomIs ==
    ASSUME NEW S, NEW list \in Seq(S), NEW element \in S, NEW max \in Nat \ {0},
           Len(list) <= max
    PROVE  /\ IfRoom(list, element, max) \in Seq(S)
           /\ Len(IfRoom(list, element, max)) <= max
           /\ IfRoom(list, element, max) # <<>>
           /\ \/ Len(list) = max
              \/ \E i \in DOMAIN IfRoom(list, element, max) :
                    IfRoom(list, element, max)[i] = element
  <1>1. CASE Len(list) < max
    <2> DEFINE longer == Append(list, element)
    <2>1. /\ longer \in Seq(S) /\ longer # <<>> /\ Len(longer) = Len(list) + 1
          /\ longer[Len(list) + 1] = element
      BY AppendProperties
    <2>2. Len(list) + 1 \in DOMAIN longer /\ Len(longer) <= max
      BY <1>1, <2>1
    <2>3. IfRoom(list, element, max) = longer
      BY <1>1 DEF IfRoom
    <2> HIDE DEF longer
    <2> QED BY <2>1, <2>2, <2>3
  <1>2. CASE ~(Len(list) < max)
    <2>1. IfRoom(list, element, max) = list /\ Len(list) = max /\ list # <<>>
      BY <1>2 DEF IfRoom
    <2> QED BY <2>1
  <1> QED BY <1>1, <1>2

LEMMA RipNextKept ==
    ASSUME IInv, RipNext
    PROVE  Kept
  <1>1. /\ rip \in RipConfig /\ FrrTypeOK
        /\ Len(rip.networks) <= MaxNetworks /\ Len(rip.silent_interfaces) <= MaxSilent
    BY DEF IInv, TypeOK, CopiesTypeOK
  <1>2. {1, 2} \subseteq ConfigValues /\ Enabled \in ConfigValues
    <2>1. {1, 2} \subseteq 0 .. 255
      OBVIOUS
    <2> QED BY <2>1, ValuesIn
  <1>3. /\ MaxNetworks \in Nat \ {0} /\ MaxSilent \in Nat \ {0}
        /\ Empty \notin Passwords
    BY RoutingAssumption
  <1>4. rip.networks \in Seq(Networks) /\ rip.silent_interfaces \in Seq(Interfaces)
    BY <1>1 DEF RipConfig
  <1>5. NoRip \in RipConfig /\ NoRip.networks = <<>> /\ NoRip.silent_interfaces = <<>>
    BY DEF NoRip, RipConfig
  <1>6. ASSUME NEW version \in {1, 2}, SendVersion(version), rip' \in RipConfig,
               rip'.version = version,
               rip'.networks = rip.networks, rip'.silent_interfaces = rip.silent_interfaces
        PROVE  Kept
    <2> DEFINE key == <<"version", NoArg>>
    <2>1. key[1] \in OfRip /\ (running'[key] = version => WrittenDown(key)')
      BY <1>6, WrittenCases DEF OfRip
    <2> HIDE DEF key
    <2>2. SendRip(Line(key, version))
      BY <1>6 DEF SendVersion, key
    <2>3. rip' # NoRip
      BY <1>6 DEF NoRip
    <2> QED BY <1>1, <1>2, <1>6, <2>1, <2>2, <2>3, RipCommandKept
  <1>7. CASE cmd_rip
    <2>1. /\ rip' = [rip EXCEPT !.enabled = TRUE, !.version = 2]
          /\ SendVersion(2)
      BY <1>7 DEF cmd_rip
    <2>2. /\ rip'.version = 2
          /\ rip'.networks = rip.networks /\ rip'.silent_interfaces = rip.silent_interfaces
      BY <1>1, <2>1 DEF RipConfig
    <2>3. rip' \in RipConfig
      <3>1. [rip EXCEPT !.version = 2] \in RipConfig
        BY <1>1 DEF RipConfig
      <3>2. rip' = [[rip EXCEPT !.version = 2] EXCEPT !.enabled = TRUE]
        BY <1>1, <2>1 DEF RipConfig
      <3> QED BY <3>1, <3>2 DEF RipConfig
    <2> QED BY <1>6, <2>1, <2>2, <2>3
  <1>8. ASSUME NEW version \in {1, 2}, cmd_rip_version(version)
        PROVE  Kept
    <2>1. /\ rip' = [rip EXCEPT !.version = version]
          /\ SendVersion(version)
      BY <1>8 DEF cmd_rip_version
    <2>2. /\ rip' \in RipConfig /\ rip'.version = version
          /\ rip'.networks = rip.networks /\ rip'.silent_interfaces = rip.silent_interfaces
      BY <1>1, <2>1 DEF RipConfig
    <2> QED BY <1>6, <2>1, <2>2
  <1>9. ASSUME NEW network \in Networks, cmd_rip_network(network)
        PROVE  Kept
    <2> DEFINE list == IfRoom(rip.networks, network, MaxNetworks)
               key == <<"network", network>>
    <2>1. /\ list \in Seq(Networks) /\ Len(list) <= MaxNetworks /\ list # <<>>
          /\ \/ Len(rip.networks) = MaxNetworks
             \/ \E i \in DOMAIN list : list[i] = network
      <3>1. MaxNetworks \in Nat \ {0} /\ Len(rip.networks) <= MaxNetworks
        BY <1>1, <1>3
      <3> QED BY <1>4, <3>1, IfRoomIs
    <2>2. rip' = [rip EXCEPT !.networks = list] /\ SendRip(Line(key, Enabled))
      BY <1>9 DEF cmd_rip_network
    <2> HIDE DEF list
    <2>3. /\ rip' \in RipConfig /\ rip'.networks = list
          /\ rip'.silent_interfaces = rip.silent_interfaces
      BY <1>1, <2>1, <2>2 DEF RipConfig
    <2>4. key[1] \in OfRip /\ (WrittenDown(key)' \/ NoRoomFor(key))
      BY <2>1, <2>3, WrittenCases DEF OfRip, NoRoomFor
    <2>5. rip' # NoRip
      BY <1>5, <2>1, <2>3
    <2> HIDE DEF key
    <2> QED BY <1>1, <1>2, <2>1, <2>2, <2>3, <2>4, <2>5, RipCommandKept
  <1>10. ASSUME NEW interface \in Interfaces, cmd_rip_silent_interface(interface)
         PROVE  Kept
    <2> DEFINE list == IfRoom(rip.silent_interfaces, interface, MaxSilent)
               key == <<"passive-interface", interface>>
    <2>1. /\ list \in Seq(Interfaces) /\ Len(list) <= MaxSilent /\ list # <<>>
          /\ \/ Len(rip.silent_interfaces) = MaxSilent
             \/ \E i \in DOMAIN list : list[i] = interface
      <3>1. MaxSilent \in Nat \ {0} /\ Len(rip.silent_interfaces) <= MaxSilent
        BY <1>1, <1>3
      <3> QED BY <1>4, <3>1, IfRoomIs
    <2>2. rip' = [rip EXCEPT !.silent_interfaces = list] /\ SendRip(Line(key, Enabled))
      BY <1>10 DEF cmd_rip_silent_interface
    <2> HIDE DEF list
    <2>3. /\ rip' \in RipConfig /\ rip'.silent_interfaces = list
          /\ rip'.networks = rip.networks
      BY <1>1, <2>1, <2>2 DEF RipConfig
    <2>4. key[1] \in OfRip /\ (WrittenDown(key)' \/ NoRoomFor(key))
      BY <2>1, <2>3, WrittenCases DEF OfRip, NoRoomFor
    <2>5. rip' # NoRip
      BY <1>5, <2>1, <2>3
    <2> HIDE DEF key
    <2> QED BY <1>1, <1>2, <2>1, <2>2, <2>3, <2>4, <2>5, RipCommandKept
  <1>11. ASSUME NEW password \in Passwords, cmd_rip_authentication(password)
         PROVE  Kept
    <2>1. /\ rip' = [rip EXCEPT !.authentication_key = password]
          /\ UNCHANGED <<frrVars, ospf, isis>>
      BY <1>11 DEF cmd_rip_authentication
    <2>2. /\ rip' \in RipConfig /\ rip'.authentication_key = password
          /\ rip'.networks = rip.networks /\ rip'.silent_interfaces = rip.silent_interfaces
      BY <1>1, <2>1 DEF RipConfig
    <2>3. WipedLast
      BY <1>3, <2>2 DEF WipedLast, NoRip
    <2> QED BY <1>1, <2>1, <2>2, <2>3, RipKept DEF frrVars, FrrTypeOK
  <1>12. CASE cmd_undo_rip
    <2>1. CASE Removed(RipItems) /\ rip' = NoRip
      <3>1. \A k \in RipItems : k \in Keys /\ k[1] \in OfRip
        BY DEF RipItems, OfRip
      <3>2. /\ startup' = startup /\ up' = up
            /\ running' = [k \in Keys |-> IF k \in RipItems THEN Absent ELSE running[k]]
        BY <2>1 DEF Removed
      <3>3. FrrTypeOK'
        BY <1>1, <3>2 DEF FrrTypeOK, Configurations
      <3>4. UNCHANGED <<ospf, isis>>
        BY <1>12 DEF cmd_undo_rip
      <3>5. WipedLast
        BY <3>1, <3>2 DEF WipedLast
      <3>6. Len(rip'.networks) <= MaxNetworks /\ Len(rip'.silent_interfaces) <= MaxSilent
        BY <1>3, <1>5, <2>1
      <3> QED BY <1>5, <2>1, <3>1, <3>2, <3>3, <3>4, <3>5, <3>6, RipKept
    <2>2. CASE UNCHANGED <<frrVars, rip>>
      <3>1. WipedLast
        BY <2>2 DEF WipedLast
      <3> QED BY <1>1, <1>12, <2>2, <3>1, RipKept DEF cmd_undo_rip, frrVars, FrrTypeOK
    <2> QED BY <1>12, <2>1, <2>2 DEF cmd_undo_rip
  <1> QED BY <1>7, <1>8, <1>9, <1>10, <1>11, <1>12 DEF RipNext

-----------------------------------------------------------------------------
(* Static routes *)
LEMMA StaticKept ==
    ASSUME IInv, NEW kind \in {"ip route", "ipv6 route"}, NEW route \in Routes,
           NEW v \in ConfigValues \cup {Absent},
           kind = "ip route" => v \in {Absent} \cup (0 .. 255),
           Vtysh(<<Line(<<kind, route>>, v)>>), UNCHANGED copies
    PROVE  Kept
  <1> DEFINE key == <<kind, route>>
  <1>1. FrrTypeOK /\ CopiesTypeOK
    BY DEF IInv, TypeOK
  <1>2. UNCHANGED <<ospf, isis, rip>>
    BY DEF copies
  <1>3. Vtysh(<<Line(key, v)>>)
    OBVIOUS
  <1> HIDE DEF key
  <1>4. /\ FrrTypeOK' /\ startup' = startup
        /\ \A k \in Keys : \/ running'[k] = running[k]
                           \/ k = key /\ running'[k] = v
    BY <1>1, <1>3, OneLine DEF Vtysh
  <1>5. CopiesTypeOK'
    BY <1>1, <1>2 DEF CopiesTypeOK
  <1>6. \A pid \in ProcessIds, n \in AreaIds :
           running'[AreaKey(pid, n)] = running[AreaKey(pid, n)]
    BY <1>4, ObservedKeys DEF AreaKey, key
  <1>7. \A pid \in ProcessIds, n \in AreaIds, neighbor \in Neighbors :
           running'[VlinkKey(pid, n, neighbor)] = running[VlinkKey(pid, n, neighbor)]
    BY <1>4, ObservedKeys DEF VlinkKey, key
  <1>8. ASSUME NEW other \in Routes
        PROVE  \/ running'[RouteKey(other)] = running[RouteKey(other)]
               \/ running'[RouteKey(other)] \in {Absent} \cup (0 .. 255)
    <2>1. RouteKey(other) = key => kind = "ip route"
      BY DEF RouteKey, key
    <2> QED BY <1>4, <2>1, RouteKeys
  <1>9. IInv'
    BY <1>2, <1>4, <1>5, <1>6, <1>7, <1>8, SameOspf, StillIInv
  <1>10. Taken
    <2>1. key[1] \in {"ip route", "ipv6 route"}
      BY DEF key
    <2>2. WrittenDown(key)'
      BY <2>1, WrittenCases
    <2> QED BY <1>4, <2>2 DEF Taken
  <1> QED BY <1>2, <1>9, <1>10 DEF Kept, WipedLast

LEMMA StaticNextKept ==
    ASSUME IInv, StaticNext
    PROVE  Kept
  <1> DEFINE Typed == {<<>>} \cup {<<n>> : n \in Preferences}
  <1>1. PICK route \in Routes :
           \/ \E typed \in Typed :
                 cmd_ip_route_static(route, typed) \/ cmd_ipv6_route_static(route, typed)
           \/ cmd_undo_ip_route_static(route)
    BY DEF StaticNext
  <1> HIDE DEF Typed
  <1>2. ASSUME NEW typed \in Typed
        PROVE  Preference(typed) \in Nat /\ Preference(typed) \in ConfigValues
    <2>1. 60 \in 0 .. 255 /\ 0 .. 255 \subseteq ConfigValues
      BY ValuesIn
    <2>2. CASE typed = <<>>
      BY <2>1, <2>2 DEF Preference
    <2>3. CASE typed # <<>>
      <3>1. typed[1] \in Int
        <4>1. PICK n \in Preferences : typed = <<n>>
          BY <2>3 DEF Typed
        <4> QED BY <4>1, RoutingAssumption
      <3>2. Uint32(typed[1]) \in ConfigValues /\ Uint32(typed[1]) \in 0 .. Word - 1
        BY <3>1, ValuesIn
      <3> QED BY <2>3, <3>2 DEF Preference
    <2> QED BY <2>2, <2>3
  <1>3. ASSUME NEW typed \in Typed,
               cmd_ip_route_static(route, typed)
        PROVE  Kept
    <2>1. Preference(typed) \in 0 .. 255
      <3>1. Preference(typed) <= 255
        BY <1>3 DEF cmd_ip_route_static
      <3> QED BY <1>2, <3>1
    <2> QED BY <1>2, <1>3, <2>1, StaticKept DEF cmd_ip_route_static
  <1>4. ASSUME NEW typed \in Typed,
               cmd_ipv6_route_static(route, typed)
        PROVE  Kept
    BY <1>2, <1>4, StaticKept DEF cmd_ipv6_route_static
  <1>5. CASE cmd_undo_ip_route_static(route)
    BY <1>5, StaticKept DEF cmd_undo_ip_route_static
  <1> QED BY <1>1, <1>3, <1>4, <1>5

-----------------------------------------------------------------------------
(* FRR on its own: a configuration that the copies account for takes the   *)
(* place of another.                                                       *)
LEMMA MovedIInv ==
    ASSUME IInv, UNCHANGED copies, up' \in BOOLEAN,
           running' \in {running, startup, NoConfiguration},
           startup' \in {running, startup}
    PROVE  IInv'
  <1> DEFINE Accounted(conf) == /\ conf \in Configurations
                                /\ AreasOf(conf) /\ VlinksOf(conf) /\ InRange(conf)
  <1>1. Accounted(running) /\ Accounted(startup)
    BY DEF IInv, TypeOK, FrrTypeOK, AreasRecorded, VirtualLinksRecorded,
           PreferencesInRange, InRange, RouteKey
  <1>2. Accounted(NoConfiguration)
    <2>1. \A k \in Keys : NoConfiguration[k] = Absent
      BY DEF NoConfiguration
    <2>2. NoConfiguration \in Configurations
      BY DEF NoConfiguration, Configurations
    <2>3. AreasOf(NoConfiguration)
      BY <2>1, ObservedKeys DEF AreasOf, AreaKey
    <2>4. VlinksOf(NoConfiguration)
      BY <2>1, ObservedKeys DEF VlinksOf, VlinkKey
    <2>5. InRange(NoConfiguration)
      BY <2>1, RouteKeys DEF InRange
    <2> QED BY <2>2, <2>3, <2>4, <2>5
  <1>3. Accounted(running') /\ Accounted(startup')
    <2> HIDE DEF Accounted
    <2> QED BY <1>1, <1>2
  <1>4. UNCHANGED <<ospf, isis, rip>>
    BY DEF copies
  <1>5. AreasRecorded' /\ VirtualLinksRecorded'
    BY <1>3, <1>4 DEF AreasRecorded, VirtualLinksRecorded, AreasOf, VlinksOf
  <1>6. FrrTypeOK' /\ PreferencesInRange' /\ InRange(startup)'
    BY <1>3 DEF FrrTypeOK, PreferencesInRange, InRange, RouteKey
  <1>7. CopiesTypeOK'
    BY <1>4 DEF IInv, TypeOK, CopiesTypeOK
  <1> QED BY <1>5, <1>6, <1>7 DEF IInv, TypeOK

(* Everything after a step, but what a restart brings back. *)
Stepped == IInv' /\ (~Restart => Taken) /\ WipedLast

LEMMA FrrNextStepped ==
    ASSUME IInv, FrrNext
    PROVE  Stepped
  <1>1. UNCHANGED copies /\ rip' = rip
    BY DEF FrrNext, copies
  <1>2. up \in BOOLEAN
    BY DEF IInv, TypeOK, FrrTypeOK
  <1>3. CASE Write
    BY <1>1, <1>2, <1>3, MovedIInv DEF Write, Stepped, Taken, WipedLast
  <1>4. CASE Crash
    <2>1. running' = NoConfiguration /\ startup' = startup /\ up' = FALSE
      BY <1>4 DEF Crash
    <2>2. \A k \in Keys : running'[k] = Absent
      BY <2>1 DEF NoConfiguration
    <2> QED BY <1>1, <2>1, <2>2, MovedIInv DEF Stepped, Taken, WipedLast
  <1>5. CASE Restart
    <2>1. IInv'
      BY <1>1, <1>5, MovedIInv DEF Restart
    <2> QED BY <1>1, <1>5, <2>1 DEF Stepped, WipedLast
  <1> QED BY <1>3, <1>4, <1>5 DEF FrrNext

LEMMA InitIInv == Init => IInv
  <1> SUFFICES ASSUME Init
               PROVE  IInv
    OBVIOUS
  <1>1. \A k \in Keys : running[k] = Absent /\ startup[k] = Absent
    BY DEF Init, FrrInit, NoConfiguration
  <1>2. FrrTypeOK
    BY DEF Init, FrrInit, NoConfiguration, FrrTypeOK, Configurations
  <1>3. CopiesTypeOK
    <2>1. /\ 0 \in ProcessIds /\ MaxAreas \in Nat /\ MaxVlinks \in Nat
          /\ MaxNetworks \in Nat /\ MaxSilent \in Nat
      BY RoutingAssumption
    <2>2. NoOspf \in OspfConfig /\ NoOspf.areas = <<>> /\ NoOspf.vlinks = <<>>
      BY <2>1 DEF NoOspf, OspfConfig
    <2>3. NoIsis \in IsisConfig
      BY <2>1 DEF NoIsis, IsisConfig, Level12
    <2>4. /\ NoRip \in RipConfig /\ NoRip.networks = <<>>
          /\ NoRip.silent_interfaces = <<>>
      BY DEF NoRip, RipConfig
    <2> QED BY <2>1, <2>2, <2>3, <2>4 DEF Init, CopiesTypeOK
  <1>4. AreasRecorded
    BY <1>1, ObservedKeys DEF AreasRecorded, AreasOf, AreaKey
  <1>5. VirtualLinksRecorded
    BY <1>1, ObservedKeys DEF VirtualLinksRecorded, VlinksOf, VlinkKey
  <1>6. PreferencesInRange /\ InRange(startup)
    BY <1>1, RouteKeys DEF PreferencesInRange, InRange, RouteKey
  <1> QED BY <1>2, <1>3, <1>4, <1>5, <1>6 DEF IInv, TypeOK

LEMMA NextStepped ==
    ASSUME IInv, [Next]_vars
    PROVE  Stepped
  <1>1. CASE OspfNext
    BY <1>1, OspfNextKept DEF Kept, Stepped
  <1>2. CASE IsisNext
    BY <1>2, IsisNextKept DEF Kept, Stepped
  <1>3. CASE RipNext
    BY <1>3, RipNextKept DEF Kept, Stepped
  <1>4. CASE StaticNext
    BY <1>4, StaticNextKept DEF Kept, Stepped
  <1>5. CASE FrrNext
    BY <1>5, FrrNextStepped
  <1>6. CASE UNCHANGED vars
    <2>1. UNCHANGED <<running, startup, up, ospf, isis, rip>>
      BY <1>6 DEF vars, frrVars, copies
    <2>2. up \in BOOLEAN
      BY DEF IInv, TypeOK, FrrTypeOK
    <2>3. IInv'
      BY <2>1, <2>2, MovedIInv DEF copies
    <2> QED BY <2>1, <2>3 DEF Stepped, Taken, WipedLast
  <1> QED BY <1>1, <1>2, <1>3, <1>4, <1>5, <1>6 DEF Next

LEMMA Invariance == Spec => []IInv
  <1>1. IInv /\ [Next]_vars => IInv'
    BY NextStepped DEF Stepped
  <1> QED BY <1>1, InitIInv, PTL DEF Spec

-----------------------------------------------------------------------------
(* The copies keep their shape and never outgrow their tables, FRR's       *)
(* configurations theirs, and no preference out of range reaches FRR as    *)
(* one of an IPv4 route, however the number typed wraps around.            *)
THEOREM TypeCorrect == Spec => []TypeOK
  <1>1. IInv => TypeOK
    BY DEF IInv
  <1> QED BY <1>1, Invariance, PTL

(* An area that FRR has as stub or NSSA, in memory or on disk, is typed in *)
(* the copy: entering it again does not make it normal.                    *)
THEOREM AreasStayRecorded == Spec => []AreasRecorded
  <1>1. IInv => AreasRecorded
    BY DEF IInv
  <1> QED BY <1>1, Invariance, PTL

(* No virtual link is in FRR that the copy has no entry for: a link that   *)
(* there is no room for is not sent.                                       *)
THEOREM VirtualLinksStayRecorded == Spec => []VirtualLinksRecorded
  <1>1. IInv => VirtualLinksRecorded
    BY DEF IInv
  <1> QED BY <1>1, Invariance, PTL

(* Whatever part of a batch FRR takes, the copy says the same: of areas,   *)
(* links and the items of IS-IS always, of networks and silent interfaces  *)
(* unless their list was full before the command.  Only a restart of FRR   *)
(* brings in more.                                                         *)
THEOREM TakenIsWritten == Spec => TakenAsWritten
  <1>1. IInv /\ [Next]_vars
          => [~Restart => \A k \in Keys :
                 running'[k] \notin {running[k], Absent}
                     => WrittenDown(k)' \/ NoRoomFor(k)]_vars
    BY NextStepped DEF Stepped, Taken
  <1> QED BY <1>1, Invariance, PTL DEF Spec, TakenAsWritten

(* "undo rip" wipes the copy only when FRR has dropped all of RIP.         *)
THEOREM RipIsWipedLast == Spec => RipWipedLast
  <1>1. IInv /\ [Next]_vars
          => [rip # NoRip /\ rip' = NoRip => \A k \in RipItems : running'[k] = Absent]_vars
    BY NextStepped DEF Stepped, WipedLast
  <1> QED BY <1>1, Invariance, PTL DEF Spec, RipWipedLast
==============================================================================
