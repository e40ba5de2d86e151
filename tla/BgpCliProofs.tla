---------------------------- MODULE BgpCliProofs ----------------------------
(***************************************************************************)
(* Proofs about BgpCli, for any number of peers, addresses and ASes.       *)
(*                                                                         *)
(* The three invariants of the runs are inductive together: a batch of the *)
(* CLI changes in FRR only what its own lines say, the lines about a peer  *)
(* follow what was just written down, and the commands only ever add       *)
(* entries behind the others or change one in place.                       *)
(***************************************************************************)
EXTENDS BgpCli, FrrProofs

NeighborKey(addr) == <<"neighbor", addr>>
ReflectorKey(addr) == <<"route-reflector-client", addr>>

HasPeer(addr, as) ==
    \E i \in DOMAIN peers : peers[i].peer_address = addr /\ peers[i].remote_as = as

HasReflector(addr) ==
    \E i \in DOMAIN peers : EntryOf(addr, i) /\ peers[i].route_reflector_client

IInv == TypeOK /\ PeersRecorded /\ ReflectorsRecorded

-----------------------------------------------------------------------------
(* FRR. *)

(* The keys of peers are observed and are not the key of "router bgp". *)
LEMMA PeerKeys ==
    ASSUME NEW addr \in Addresses
    PROVE  /\ NeighborKey(addr) \in Keys \ {BgpKey}
           /\ ReflectorKey(addr) \in Keys \ {BgpKey}
           /\ \A a \in Addresses : NeighborKey(addr) # ReflectorKey(a)
           /\ \A a : NeighborKey(addr) = NeighborKey(a) => addr = a
           /\ \A a : ReflectorKey(addr) = ReflectorKey(a) => addr = a
  BY BgpCliAssumption DEF NeighborKey, ReflectorKey

(* The two-line batches of the handlers.  Nothing but the AS and the item  *)
(* of the second line can change.                                          *)
LEMMA PeerLineEffect ==
    ASSUME FrrTypeOK, as_number \in AsArgs,
           NEW kind, NEW arg, NEW v,
           <<kind, arg>> \in Keys => v \in ConfigValues \cup {NoAs} /\ <<kind, arg>> # BgpKey,
           SendPeerLine(kind, arg, v)
    PROVE  /\ FrrTypeOK'
           /\ startup' = startup
           /\ \A item \in Keys \ {BgpKey} :
                 \/ running'[item] = running[item]
                 \/ item = <<kind, arg>> /\ running'[item] = v
  <1> DEFINE batch == <<RouterBgp(as_number), Line(<<kind, arg>>, v)>>
  <1>1. /\ Len(batch) = 2 /\ DOMAIN batch = 1 .. 2
        /\ batch[1].key = BgpKey /\ batch[1].value = as_number
        /\ batch[2].key = <<kind, arg>> /\ batch[2].value = v
    BY DEF RouterBgp, Line
  <1>2. ASSUME NEW i \in DOMAIN batch, Acceptable(batch, i), batch[i].key \in Keys
        PROVE  batch[i].value \in ConfigValues
    <2>1. CASE i = 1
      BY <1>1, <1>2, <2>1, BgpCliAssumption DEF Acceptable, AsArgs
    <2>2. CASE i = 2
      BY <1>1, <1>2, <2>2 DEF Acceptable
    <2> QED BY <1>1, <2>1, <2>2
  <1>3. Vtysh(batch)
    BY DEF SendPeerLine
  <1> HIDE DEF batch
  <1>4. /\ FrrTypeOK'
        /\ startup' = startup
        /\ \A item \in Keys :
              \/ running'[item] = running[item]
              \/ \E i \in DOMAIN batch : /\ batch[i].key = item
                                         /\ running'[item] = batch[i].value
    BY <1>1, <1>2, <1>3, VtyshEffect DEF Vtysh
  <1> QED BY <1>1, <1>4

(* Lines about other items leave those of the peers alone.                 *)
LEMMA OtherLineEffect ==
    ASSUME FrrTypeOK, as_number \in AsArgs, SendOtherLine
    PROVE  /\ FrrTypeOK'
           /\ startup' = startup
           /\ \A item \in Keys \ {BgpKey} : running'[item] = running[item]
  <1>1. <<"other", NoArg>> \notin Keys
    BY BgpCliAssumption
  <1>2. SendPeerLine("other", NoArg, Enabled)
    BY DEF SendOtherLine
  <1> QED BY <1>1, <1>2, PeerLineEffect

-----------------------------------------------------------------------------
(* The copy. *)

(* The two invariants hold after a step when FRR is saved at most, every   *)
(* change of FRR is written down, and what was written down stays.         *)
LEMMA StillRecorded ==
    ASSUME PeersRecorded, ReflectorsRecorded, startup' = startup,
           \A addr \in Addresses : \A as : HasPeer(addr, as) => HasPeer(addr, as)',
           \A addr \in Addresses : HasReflector(addr) => HasReflector(addr)',
           \A addr \in Addresses :
               \/ running'[NeighborKey(addr)] = running[NeighborKey(addr)]
               \/ \E as : running'[NeighborKey(addr)] = as /\ HasPeer(addr, as)',
           \A addr \in Addresses :
               \/ running'[ReflectorKey(addr)] = running[ReflectorKey(addr)]
               \/ HasReflector(addr)'
    PROVE  PeersRecorded' /\ ReflectorsRecorded'
  <1>1. ASSUME NEW addr \in Addresses, running[NeighborKey(addr)] # Absent
        PROVE  HasPeer(addr, running[NeighborKey(addr)])
    BY <1>1 DEF PeersRecorded, Recorded, HasPeer, NeighborKey
  <1>2. ASSUME NEW addr \in Addresses, startup[NeighborKey(addr)] # Absent
        PROVE  HasPeer(addr, startup[NeighborKey(addr)])
    BY <1>2 DEF PeersRecorded, Recorded, HasPeer, NeighborKey
  <1>3. ASSUME NEW addr \in Addresses, running[ReflectorKey(addr)] # Absent
        PROVE  HasReflector(addr)
    BY <1>3 DEF ReflectorsRecorded, ReflectedByFirstEntry, HasReflector, ReflectorKey
  <1>4. ASSUME NEW addr \in Addresses, startup[ReflectorKey(addr)] # Absent
        PROVE  HasReflector(addr)
    BY <1>4 DEF ReflectorsRecorded, ReflectedByFirstEntry, HasReflector, ReflectorKey
  <1>5. ASSUME NEW addr \in Addresses, NEW as,
               running'[NeighborKey(addr)] = as, as # Absent
        PROVE  HasPeer(addr, as)'
    BY <1>1, <1>5
  <1>6. ASSUME NEW addr \in Addresses, NEW as,
               startup'[NeighborKey(addr)] = as, as # Absent
        PROVE  HasPeer(addr, as)'
    BY <1>2, <1>6
  <1>7. ASSUME NEW addr \in Addresses,
               \/ running'[ReflectorKey(addr)] # Absent
               \/ startup'[ReflectorKey(addr)] # Absent
        PROVE  HasReflector(addr)'
    BY <1>3, <1>4, <1>7
  <1>8. PeersRecorded'
    BY <1>5, <1>6 DEF PeersRecorded, Recorded, HasPeer, NeighborKey
  <1>9. ReflectorsRecorded'
    BY <1>7 DEF ReflectorsRecorded, ReflectedByFirstEntry, HasReflector, ReflectorKey
  <1> QED BY <1>8, <1>9

(* A change of one entry in place, which keeps its address, its AS and a   *)
(* flag that is set.                                                       *)
LEMMA EditEntry ==
    ASSUME CliTypeOK, NEW i \in DOMAIN peers, NEW e \in Peer,
           e.peer_address = peers[i].peer_address,
           e.remote_as = peers[i].remote_as,
           peers[i].route_reflector_client => e.route_reflector_client,
           peers' = [peers EXCEPT ![i] = e]
    PROVE  /\ peers' \in Seq(Peer) /\ Len(peers') <= MaxPeers
           /\ \A addr \in Addresses : \A as : HasPeer(addr, as) => HasPeer(addr, as)'
           /\ \A addr \in Addresses : HasReflector(addr) => HasReflector(addr)'
           /\ EntryOf(e.peer_address, i) /\ e.route_reflector_client
                 => HasReflector(e.peer_address)'
  <1>1. /\ peers \in Seq(Peer) /\ Len(peers) <= MaxPeers
        /\ DOMAIN peers = 1 .. Len(peers)
    BY DEF CliTypeOK
  <1>2. /\ peers' \in Seq(Peer) /\ Len(peers') = Len(peers)
        /\ DOMAIN peers' = DOMAIN peers
    BY <1>1
  <1>3. \A j \in DOMAIN peers :
           /\ peers'[j].peer_address = peers[j].peer_address
           /\ peers'[j].remote_as = peers[j].remote_as
           /\ peers[j].route_reflector_client => peers'[j].route_reflector_client
    BY <1>1
  <1>4. ASSUME NEW addr, NEW j, EntryOf(addr, j)
        PROVE  EntryOf(addr, j)'
    BY <1>1, <1>2, <1>3, <1>4 DEF EntryOf
  <1>5. ASSUME NEW addr \in Addresses, NEW as, HasPeer(addr, as)
        PROVE  HasPeer(addr, as)'
    BY <1>2, <1>3, <1>5 DEF HasPeer
  <1>6. ASSUME NEW addr \in Addresses, HasReflector(addr)
        PROVE  HasReflector(addr)'
    BY <1>2, <1>3, <1>4, <1>6 DEF HasReflector
  <1>7. ASSUME EntryOf(e.peer_address, i), e.route_reflector_client
        PROVE  HasReflector(e.peer_address)'
    <2>1. EntryOf(e.peer_address, i)'
      BY <1>4, <1>7
    <2>2. peers'[i] = e
      BY <1>1
    <2> QED BY <1>2, <1>7, <2>1, <2>2 DEF HasReflector
  <1> QED BY <1>1, <1>2, <1>5, <1>6, <1>7

(* A new entry goes behind the others.                                     *)
LEMMA AppendEntry ==
    ASSUME CliTypeOK, NEW e \in Peer, Len(peers) < MaxPeers,
           peers' = Append(peers, e)
    PROVE  /\ peers' \in Seq(Peer) /\ Len(peers') <= MaxPeers
           /\ \A addr \in Addresses : \A as : HasPeer(addr, as) => HasPeer(addr, as)'
           /\ HasPeer(e.peer_address, e.remote_as)'
           /\ \A addr \in Addresses : HasReflector(addr) => HasReflector(addr)'
  <1>1. peers \in Seq(Peer) /\ DOMAIN peers = 1 .. Len(peers) /\ Len(peers) \in Nat
    BY DEF CliTypeOK
  <1>2. /\ peers' \in Seq(Peer) /\ Len(peers') = Len(peers) + 1
        /\ DOMAIN peers' = 1 .. Len(peers) + 1
        /\ peers'[Len(peers) + 1] = e
        /\ \A j \in DOMAIN peers : peers'[j] = peers[j]
    BY <1>1
  <1>3. Len(peers') <= MaxPeers
    BY <1>1, <1>2, BgpCliAssumption
  <1>4. ASSUME NEW addr, NEW j, EntryOf(addr, j)
        PROVE  EntryOf(addr, j)'
    BY <1>1, <1>2, <1>4 DEF EntryOf
  <1>5. ASSUME NEW addr \in Addresses, NEW as, HasPeer(addr, as)
        PROVE  HasPeer(addr, as)'
    <2>1. PICK j \in DOMAIN peers : /\ peers[j].peer_address = addr
                                    /\ peers[j].remote_as = as
      BY <1>5 DEF HasPeer
    <2>2. j \in DOMAIN peers' /\ peers'[j] = peers[j]
      BY <1>1, <1>2
    <2> QED BY <2>1, <2>2 DEF HasPeer
  <1>6. HasPeer(e.peer_address, e.remote_as)'
    BY <1>1, <1>2 DEF HasPeer
  <1>7. ASSUME NEW addr \in Addresses, HasReflector(addr)
        PROVE  HasReflector(addr)'
    BY <1>1, <1>2, <1>4, <1>7 DEF HasReflector
  <1> QED BY <1>2, <1>3, <1>5, <1>6, <1>7

(* No entry changes. *)
LEMMA SameEntries ==
    ASSUME UNCHANGED peers
    PROVE  /\ \A addr \in Addresses : \A as : HasPeer(addr, as) => HasPeer(addr, as)'
           /\ \A addr \in Addresses : HasReflector(addr) => HasReflector(addr)'
  BY DEF HasPeer, HasReflector, EntryOf

(* A command that sends lines FRR does not keep for a peer, and keeps the  *)
(* peers or edits one in place.                                            *)
LEMMA UnobservedStep ==
    ASSUME TypeOK, PeersRecorded, ReflectorsRecorded, CliTypeOK',
           FrrTypeOK', startup' = startup,
           \A item \in Keys \ {BgpKey} : running'[item] = running[item],
           \A addr \in Addresses : \A as : HasPeer(addr, as) => HasPeer(addr, as)',
           \A addr \in Addresses : HasReflector(addr) => HasReflector(addr)'
    PROVE  IInv'
  <1>1. TypeOK'
    BY DEF TypeOK
  <1>2. \A addr \in Addresses :
           /\ running'[NeighborKey(addr)] = running[NeighborKey(addr)]
           /\ running'[ReflectorKey(addr)] = running[ReflectorKey(addr)]
    BY PeerKeys
  <1>3. PeersRecorded' /\ ReflectorsRecorded'
    BY <1>2, StillRecorded
  <1> QED BY <1>1, <1>3 DEF IInv

-----------------------------------------------------------------------------
(* The commands. *)

LEMMA BgpStep ==
    ASSUME IInv, NEW as \in AsArgs, cmd_bgp(as)
    PROVE  IInv'
  <1>1. TypeOK /\ FrrTypeOK /\ CliTypeOK /\ PeersRecorded /\ ReflectorsRecorded
    BY DEF IInv, TypeOK
  <1>2. CliTypeOK' /\ UNCHANGED peers
    BY <1>1 DEF cmd_bgp, CliTypeOK
  <1> DEFINE batch == <<RouterBgp(as)>>
  <1>3. /\ Len(batch) = 1
        /\ DOMAIN batch = 1 .. Len(batch)
    OBVIOUS
  <1>4. batch[1].key = BgpKey /\ batch[1].value = as
    BY DEF RouterBgp, Line
  <1>5. Vtysh(batch) /\ (Acceptable(batch, 1) => as \in ConfigValues)
    BY <1>4, BgpCliAssumption DEF cmd_bgp, Acceptable, AsArgs
  <1> HIDE DEF batch
  <1>6. Len(batch) \in Nat /\ \A i \in DOMAIN batch : i = 1
    BY <1>3
  <1>7. /\ FrrTypeOK'
        /\ startup' = startup
        /\ \A item \in Keys :
              \/ running'[item] = running[item]
              \/ \E i \in DOMAIN batch : /\ batch[i].key = item
                                         /\ running'[item] = batch[i].value
    BY <1>1, <1>3, <1>4, <1>5, <1>6, VtyshEffect DEF Vtysh
  <1>8. ASSUME NEW item \in Keys \ {BgpKey}
        PROVE  running'[item] = running[item]
    <2>1. \A i \in DOMAIN batch : batch[i].key # item
      BY <1>4, <1>6
    <2> QED BY <1>7, <2>1
  <1> QED BY <1>1, <1>2, <1>7, <1>8, SameEntries, UnobservedStep

(* Commands about the whole of BGP, and the commands about peers that the  *)
(* copy does not keep.                                                     *)
LEMMA GlobalStep ==
    ASSUME IInv, CliTypeOK', UNCHANGED peers, SendOtherLine
    PROVE  IInv'
  <1>1. /\ TypeOK /\ FrrTypeOK /\ PeersRecorded /\ ReflectorsRecorded
        /\ as_number \in AsArgs
    BY DEF IInv, TypeOK, CliTypeOK
  <1> QED BY <1>1, OtherLineEffect, SameEntries, UnobservedStep

LEMMA RouterIdStep ==
    ASSUME IInv, NEW id \in RouterIds, cmd_bgp_router_id(id)
    PROVE  IInv'
  <1>1. CliTypeOK' /\ UNCHANGED peers /\ SendOtherLine
    BY DEF IInv, TypeOK, CliTypeOK, cmd_bgp_router_id
  <1> QED BY <1>1, GlobalStep

LEMMA ConfederationIdStep ==
    ASSUME IInv, NEW id \in ConfederationIds, cmd_bgp_confederation_id(id)
    PROVE  IInv'
  <1>1. CliTypeOK' /\ UNCHANGED peers /\ SendOtherLine
    BY DEF IInv, TypeOK, CliTypeOK, cmd_bgp_confederation_id
  <1> QED BY <1>1, GlobalStep

LEMMA UnrecordedStep ==
    ASSUME IInv, NEW addr \in Addresses, cmd_bgp_peer_unrecorded(addr)
    PROVE  IInv'
  <1>1. CliTypeOK' /\ UNCHANGED peers /\ SendOtherLine
    BY DEF IInv, TypeOK, CliTypeOK, cliVars, cmd_bgp_peer_unrecorded
  <1> QED BY <1>1, GlobalStep

(* The list of confederation peers is cut at the capacity of the array.    *)
LEMMA ConfederationPeersStep ==
    ASSUME IInv, NEW list \in ConfederationArgs, cmd_bgp_confederation_peers(list)
    PROVE  IInv'
  <1>1. list \in Seq(AsArgs) /\ Len(list) \in Nat /\ MaxConfederationPeers \in Nat
    BY BgpCliAssumption DEF AsArgs
  <1> DEFINE n == IF Len(list) < MaxConfederationPeers
                  THEN Len(list) ELSE MaxConfederationPeers
  <1>2. n \in 0 .. Len(list) /\ n <= MaxConfederationPeers
    BY <1>1
  <1>3. confederation_peers' = SubSeq(list, 1, n)
    BY DEF cmd_bgp_confederation_peers
  <1> HIDE DEF n
  <1>4. /\ SubSeq(list, 1, n) \in Seq(AsArgs)
        /\ Len(SubSeq(list, 1, n)) = n
    BY <1>1, <1>2
  <1>5. CliTypeOK'
    BY <1>2, <1>3, <1>4 DEF IInv, TypeOK, CliTypeOK, cmd_bgp_confederation_peers
  <1>6. UNCHANGED peers /\ SendOtherLine
    BY DEF cmd_bgp_confederation_peers
  <1> QED BY <1>5, <1>6, GlobalStep

LEMMA AggregateStep ==
    ASSUME IInv, NEW prefix \in Aggregates, cmd_bgp_aggregate(prefix)
    PROVE  IInv'
  <1>1. /\ aggregate_addresses \in Seq(Aggregates)
        /\ Len(aggregate_addresses) <= MaxAggregates
        /\ Len(aggregate_addresses) \in Nat /\ MaxAggregates \in Nat
    BY BgpCliAssumption DEF IInv, TypeOK, CliTypeOK
  <1>2. /\ aggregate_addresses' \in Seq(Aggregates)
        /\ Len(aggregate_addresses') <= MaxAggregates
    <2>1. CASE Len(aggregate_addresses) < MaxAggregates
      <3>1. aggregate_addresses' = Append(aggregate_addresses, prefix)
        BY <2>1 DEF cmd_bgp_aggregate
      <3>2. Len(Append(aggregate_addresses, prefix)) = Len(aggregate_addresses) + 1
        BY <1>1
      <3> QED BY <1>1, <2>1, <3>1, <3>2
    <2>2. CASE ~ (Len(aggregate_addresses) < MaxAggregates)
      BY <1>1, <2>2 DEF cmd_bgp_aggregate
    <2> QED BY <2>1, <2>2
  <1>3. CliTypeOK' /\ UNCHANGED peers /\ SendOtherLine
    BY <1>2 DEF IInv, TypeOK, CliTypeOK, cmd_bgp_aggregate
  <1> QED BY <1>3, GlobalStep

(* The description and the route policies of a peer.                       *)
LEMMA EditStep ==
    ASSUME IInv, NEW i \in DOMAIN peers, NEW e \in Peer,
           e.peer_address = peers[i].peer_address,
           e.remote_as = peers[i].remote_as,
           e.route_reflector_client = peers[i].route_reflector_client,
           peers' = [peers EXCEPT ![i] = e],
           UNCHANGED globals, SendOtherLine
    PROVE  IInv'
  <1>1. /\ TypeOK /\ FrrTypeOK /\ CliTypeOK /\ PeersRecorded /\ ReflectorsRecorded
        /\ as_number \in AsArgs
    BY DEF IInv, TypeOK, CliTypeOK
  <1>2. /\ peers' \in Seq(Peer) /\ Len(peers') <= MaxPeers
        /\ \A addr \in Addresses : \A as : HasPeer(addr, as) => HasPeer(addr, as)'
        /\ \A addr \in Addresses : HasReflector(addr) => HasReflector(addr)'
    BY <1>1, EditEntry
  <1>3. CliTypeOK'
    BY <1>1, <1>2 DEF CliTypeOK, globals
  <1> QED BY <1>1, <1>2, <1>3, OtherLineEffect, UnobservedStep

LEMMA DescriptionStep ==
    ASSUME IInv, NEW addr \in Addresses, NEW text \in Texts,
           cmd_bgp_peer_description(addr, text)
    PROVE  IInv'
  <1>1. PICK i \in DOMAIN peers :
           /\ peers' = [peers EXCEPT ![i].description = text]
           /\ UNCHANGED globals /\ SendOtherLine
    BY DEF cmd_bgp_peer_description
  <1> DEFINE e == [peers[i] EXCEPT !.description = text]
  <1>2. peers[i] \in Peer
    BY DEF IInv, TypeOK, CliTypeOK
  <1>3. /\ e \in Peer
        /\ e.peer_address = peers[i].peer_address
        /\ e.remote_as = peers[i].remote_as
        /\ e.route_reflector_client = peers[i].route_reflector_client
    BY <1>2 DEF Peer
  <1>4. peers' = [peers EXCEPT ![i] = e]
    BY <1>1
  <1> HIDE DEF e
  <1> QED BY <1>1, <1>3, <1>4, EditStep

LEMMA RoutePolicyStep ==
    ASSUME IInv, NEW addr \in Addresses, NEW name \in Texts,
           NEW direction \in Directions,
           cmd_bgp_peer_route_policy(addr, name, direction)
    PROVE  IInv'
  <1>1. PICK i \in DOMAIN peers :
           /\ peers' = [peers EXCEPT ![i].route_policy[direction] = name]
           /\ UNCHANGED globals /\ SendOtherLine
    BY DEF cmd_bgp_peer_route_policy
  <1> DEFINE e == [peers[i] EXCEPT !.route_policy[direction] = name]
  <1>2. peers[i] \in Peer
    BY DEF IInv, TypeOK, CliTypeOK
  <1>3. /\ e \in Peer
        /\ e.peer_address = peers[i].peer_address
        /\ e.remote_as = peers[i].remote_as
        /\ e.route_reflector_client = peers[i].route_reflector_client
    BY <1>2 DEF Peer
  <1>4. peers' = [peers EXCEPT ![i] = e]
    BY <1>1
  <1> HIDE DEF e
  <1> QED BY <1>1, <1>3, <1>4, EditStep

(* A new peer is written down before it is sent.                           *)
LEMMA PeerStep ==
    ASSUME IInv, NEW addr \in Addresses, NEW as \in AsArgs, cmd_bgp_peer(addr, as)
    PROVE  IInv'
  <1> DEFINE e == NewPeer(addr, as)
  <1>1. /\ TypeOK /\ FrrTypeOK /\ CliTypeOK /\ PeersRecorded /\ ReflectorsRecorded
        /\ as_number \in AsArgs
    BY DEF IInv, TypeOK, CliTypeOK
  <1>2. e \in Peer /\ e.peer_address = addr /\ e.remote_as = as
    BY DEF NewPeer, Peer
  <1>3. /\ Len(peers) < MaxPeers /\ peers' = Append(peers, e)
        /\ UNCHANGED globals /\ SendPeerLine("neighbor", addr, as)
    BY DEF cmd_bgp_peer
  <1> HIDE DEF e
  <1>4. /\ peers' \in Seq(Peer) /\ Len(peers') <= MaxPeers
        /\ \A a \in Addresses : \A b : HasPeer(a, b) => HasPeer(a, b)'
        /\ HasPeer(e.peer_address, e.remote_as)'
        /\ \A a \in Addresses : HasReflector(a) => HasReflector(a)'
    BY <1>1, <1>2, <1>3, AppendEntry
  <1>5. HasPeer(addr, as)'
    BY <1>2, <1>4
  <1>6. CliTypeOK'
    BY <1>1, <1>3, <1>4 DEF CliTypeOK, globals
  <1>7. as \in ConfigValues \cup {NoAs} /\ NeighborKey(addr) # BgpKey
    BY PeerKeys, BgpCliAssumption DEF AsArgs
  <1>8. /\ FrrTypeOK'
        /\ startup' = startup
        /\ \A item \in Keys \ {BgpKey} :
              \/ running'[item] = running[item]
              \/ item = NeighborKey(addr) /\ running'[item] = as
    BY <1>1, <1>3, <1>7, PeerLineEffect DEF NeighborKey
  <1>9. ASSUME NEW a \in Addresses
        PROVE  /\ \/ running'[NeighborKey(a)] = running[NeighborKey(a)]
                  \/ \E b : running'[NeighborKey(a)] = b /\ HasPeer(a, b)'
               /\ running'[ReflectorKey(a)] = running[ReflectorKey(a)]
    BY <1>5, <1>8, PeerKeys
  <1>10. PeersRecorded' /\ ReflectorsRecorded'
    BY <1>1, <1>4, <1>8, <1>9, StillRecorded
  <1> QED BY <1>6, <1>8, <1>10 DEF IInv, TypeOK

(* The first entry of the address becomes the client FRR is told about.    *)
LEMMA ReflectClientStep ==
    ASSUME IInv, NEW addr \in Addresses, cmd_bgp_peer_rr_client(addr)
    PROVE  IInv'
  <1>1. /\ TypeOK /\ FrrTypeOK /\ CliTypeOK /\ PeersRecorded /\ ReflectorsRecorded
        /\ as_number \in AsArgs
    BY DEF IInv, TypeOK, CliTypeOK
  <1>2. PICK i \in DOMAIN peers :
           /\ EntryOf(addr, i)
           /\ peers' = [peers EXCEPT ![i].route_reflector_client = TRUE]
           /\ UNCHANGED globals
           /\ SendPeerLine("route-reflector-client", addr, Enabled)
    BY DEF cmd_bgp_peer_rr_client
  <1> DEFINE e == [peers[i] EXCEPT !.route_reflector_client = TRUE]
  <1>3. peers[i] \in Peer
    BY <1>1 DEF CliTypeOK
  <1>4. /\ e \in Peer
        /\ e.peer_address = peers[i].peer_address
        /\ e.remote_as = peers[i].remote_as
        /\ e.route_reflector_client
    BY <1>3 DEF Peer
  <1>5. e.peer_address = addr
    BY <1>2, <1>4 DEF EntryOf
  <1>6. peers' = [peers EXCEPT ![i] = e]
    BY <1>2
  <1> HIDE DEF e
  <1>7. /\ peers' \in Seq(Peer) /\ Len(peers') <= MaxPeers
        /\ \A a \in Addresses : \A b : HasPeer(a, b) => HasPeer(a, b)'
        /\ \A a \in Addresses : HasReflector(a) => HasReflector(a)'
        /\ HasReflector(addr)'
    BY <1>1, <1>2, <1>4, <1>5, <1>6, EditEntry
  <1>8. CliTypeOK'
    BY <1>1, <1>2, <1>7 DEF CliTypeOK, globals
  <1>9. Enabled \in ConfigValues /\ ReflectorKey(addr) # BgpKey
    BY PeerKeys, BgpCliAssumption
  <1>10. /\ FrrTypeOK'
         /\ startup' = startup
         /\ \A item \in Keys \ {BgpKey} :
               \/ running'[item] = running[item]
               \/ item = ReflectorKey(addr) /\ running'[item] = Enabled
    BY <1>1, <1>2, <1>9, PeerLineEffect DEF ReflectorKey
  <1>11. ASSUME NEW a \in Addresses
         PROVE  /\ running'[NeighborKey(a)] = running[NeighborKey(a)]
                /\ \/ running'[ReflectorKey(a)] = running[ReflectorKey(a)]
                   \/ HasReflector(a)'
    BY <1>7, <1>10, PeerKeys
  <1>12. PeersRecorded' /\ ReflectorsRecorded'
    BY <1>1, <1>7, <1>10, <1>11, StillRecorded
  <1> QED BY <1>8, <1>10, <1>12 DEF IInv, TypeOK

(* FRR saves, dies and starts again.  Its two configurations only replace  *)
(* one another, or are emptied.                                            *)
LEMMA FrrStep ==
    ASSUME IInv, FrrNext
    PROVE  IInv'
  <1>1. /\ TypeOK /\ FrrTypeOK /\ CliTypeOK /\ PeersRecorded /\ ReflectorsRecorded
        /\ UNCHANGED cliVars
    BY DEF IInv, TypeOK, FrrNext
  <1>2. /\ running' \in {running, startup, NoConfiguration}
        /\ startup' \in {running, startup}
        /\ up' \in BOOLEAN
    BY <1>1 DEF FrrNext, Write, Crash, Restart, FrrTypeOK
  <1>3. NoConfiguration \in Configurations
    BY DEF NoConfiguration, Configurations
  <1>4. TypeOK'
    BY <1>1, <1>2, <1>3 DEF TypeOK, FrrTypeOK, CliTypeOK, cliVars
  <1>5. Recorded(NoConfiguration) /\ ReflectedByFirstEntry(NoConfiguration)
    <2>1. \A addr \in Addresses : /\ NoConfiguration[NeighborKey(addr)] = Absent
                                  /\ NoConfiguration[ReflectorKey(addr)] = Absent
      BY PeerKeys DEF NoConfiguration
    <2> QED BY <2>1 DEF Recorded, ReflectedByFirstEntry, NeighborKey, ReflectorKey
  <1>6. UNCHANGED peers
    BY <1>1 DEF cliVars
  <1>7. \A conf \in {running, startup, NoConfiguration} :
           Recorded(conf) /\ ReflectedByFirstEntry(conf)
    BY <1>1, <1>5 DEF PeersRecorded, ReflectorsRecorded
  <1>8. PeersRecorded'
    BY <1>2, <1>6, <1>7 DEF PeersRecorded, Recorded
  <1>9. ReflectorsRecorded'
    BY <1>2, <1>6, <1>7 DEF ReflectorsRecorded, ReflectedByFirstEntry, EntryOf
  <1> QED BY <1>4, <1>8, <1>9 DEF IInv

-----------------------------------------------------------------------------

LEMMA InitIInv == Init => IInv
  <1> SUFFICES ASSUME Init PROVE IInv
    OBVIOUS
  <1>1. /\ running = NoConfiguration /\ startup = NoConfiguration /\ up = TRUE
        /\ NoConfiguration \in Configurations
    BY DEF Init, FrrInit, NoConfiguration, Configurations
  <1>2. TypeOK
    BY <1>1, BgpCliAssumption DEF Init, CliInit, AsArgs, TypeOK, FrrTypeOK, CliTypeOK
  <1>3. \A addr \in Addresses : /\ NoConfiguration[NeighborKey(addr)] = Absent
                                /\ NoConfiguration[ReflectorKey(addr)] = Absent
    BY PeerKeys DEF NoConfiguration
  <1>4. PeersRecorded /\ ReflectorsRecorded
    BY <1>1, <1>3 DEF PeersRecorded, ReflectorsRecorded, Recorded,
                      ReflectedByFirstEntry, NeighborKey, ReflectorKey
  <1> QED BY <1>2, <1>4 DEF IInv

(* Every command and every event of FRR preserves the invariant. *)
LEMMA StepIInv == IInv /\ [Next]_vars => IInv'
  <1> SUFFICES ASSUME IInv, [Next]_vars PROVE IInv'
    OBVIOUS
  <1>1. CASE CliNext
    BY <1>1, BgpStep, ConfederationIdStep, RouterIdStep, PeerStep, DescriptionStep,
       UnrecordedStep, ReflectClientStep, RoutePolicyStep, ConfederationPeersStep,
       AggregateStep DEF CliNext
  <1>2. CASE FrrNext
    BY <1>2, FrrStep
  <1>3. CASE UNCHANGED vars
    BY <1>3 DEF vars, frrVars, cliVars, IInv, TypeOK, FrrTypeOK, CliTypeOK,
                PeersRecorded, ReflectorsRecorded, Recorded, ReflectedByFirstEntry,
                EntryOf
  <1> QED BY <1>1, <1>2, <1>3 DEF Next

(* The types, and the two relations between the copy of the CLI and FRR,   *)
(* are kept by every command, whatever FRR refuses and whenever it dies.   *)
THEOREM InvariantHolds == Spec => []IInv
  <1> QED BY InitIInv, StepIInv, PTL DEF Spec

(* No array of global_bgp_config outgrows its capacity, the list of        *)
(* confederation peers included.                                          *)
THEOREM TypeCorrect == Spec => []TypeOK
  <1>1. IInv => TypeOK
    BY DEF IInv
  <1> QED BY <1>1, InvariantHolds, PTL

(* Every neighbor FRR runs, or would run after a restart, has an entry     *)
(* with its AS in the copy.                                                *)
THEOREM NeighborsRecorded == Spec => []PeersRecorded
  <1>1. IInv => PeersRecorded
    BY DEF IInv
  <1> QED BY <1>1, InvariantHolds, PTL

(* Every route reflector client of FRR, now or after a restart, is shown   *)
(* as one at the first entry of its address.                               *)
THEOREM ClientsRecorded == Spec => []ReflectorsRecorded
  <1>1. IInv => ReflectorsRecorded
    BY DEF IInv
  <1> QED BY <1>1, InvariantHolds, PTL
=============================================================================
