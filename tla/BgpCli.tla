------------------------------- MODULE BgpCli -------------------------------
(***************************************************************************)
(* The BGP commands of the Huawei-style CLI,                               *)
(* src/src/frr_core/bgpd/bgp_huawei.c.                                     *)
(*                                                                         *)
(* Every command is written down twice: first in global_bgp_config, the    *)
(* copy that "display bgp peer" prints and that later commands consult,    *)
(* then in FRR, through vtysh, which may refuse.  Nothing is undone when   *)
(* it does.  Each batch opens with "router bgp" and the AS of the copy.    *)
(***************************************************************************)
EXTENDS Frr

CONSTANTS
    AsNumbers,       \* AS numbers
    Addresses,       \* peer addresses an operator may type
    RouterIds,
    Directions,      \* import and export, as far as the operator types them
    ConfederationIds,
    Texts,           \* descriptions, passwords and policy names
    Aggregates,      \* prefixes to aggregate
    ConfederationArgs, \* lists of ASes typed after confederation peer-as
    MaxPeers,        \* 64 in the code
    MaxAggregates,   \* 32 in the code
    MaxConfederationPeers, \* 16 in the code
    NoArg,           \* the argument of a key that has none
    Enabled,         \* the value of an item that is merely on
    Empty            \* a string field that was never set

ASSUME BgpCliAssumption ==
    /\ Keys = {<<"bgp", NoArg>>}
              \cup ({"neighbor", "route-reflector-client"} \X Addresses)
    /\ BgpKey = <<"bgp", NoArg>>
    /\ ConfigValues = AsNumbers \cup {Enabled}
    /\ NoAs \notin AsNumbers
    /\ Absent \notin ConfigValues \cup {NoAs}
    /\ Empty \notin Texts \cup RouterIds
    /\ Directions \subseteq {"import", "export"}
    /\ ConfederationArgs \subseteq Seq(AsNumbers \cup {NoAs})
    /\ NoAs \notin ConfederationIds
    /\ MaxPeers \in Nat \ {0}
    /\ MaxAggregates \in Nat \ {0}
    /\ MaxConfederationPeers \in Nat \ {0}

VARIABLES
    as_number,           \* global_bgp_config.as_number
    router_id,
    peers,               \* the peers[] in use, in the order they were added
    confederation_id,
    confederation_peers,
    aggregate_addresses

cliVars == <<as_number, router_id, peers, confederation_id, confederation_peers,
             aggregate_addresses>>

globals == <<as_number, router_id, confederation_id, confederation_peers,
             aggregate_addresses>>

(* What atoi() makes of an AS as it was typed: 0 for what is not a number. *)
AsArgs == AsNumbers \cup {NoAs}

Peer == [peer_address : Addresses, remote_as : AsArgs,
         description : Texts \cup {Empty}, route_reflector_client : BOOLEAN,
         route_policy : [Directions -> Texts \cup {Empty}]]

CliTypeOK ==
    /\ as_number \in AsArgs
    /\ router_id \in RouterIds \cup {Empty}
    /\ peers \in Seq(Peer) /\ Len(peers) <= MaxPeers
    /\ confederation_id \in ConfederationIds \cup {NoAs}
    /\ confederation_peers \in Seq(AsArgs)
    /\ Len(confederation_peers) <= MaxConfederationPeers
    /\ aggregate_addresses \in Seq(Aggregates)
    /\ Len(aggregate_addresses) <= MaxAggregates

TypeOK == FrrTypeOK /\ CliTypeOK

CliInit ==
    /\ as_number = NoAs
    /\ router_id = Empty
    /\ peers = <<>>
    /\ confederation_id = NoAs
    /\ confederation_peers = <<>>
    /\ aggregate_addresses = <<>>

-----------------------------------------------------------------------------
(* The call of vtysh that ends a handler: its exit code decides the        *)
(* message that is printed and nothing else.                               *)
Vtysh(batch) == Accepted(batch) \/ Refused(batch)

RouterBgp(as) == Line(BgpKey, as)

(* "router bgp <the AS of the copy>" and one line about a peer, or about   *)
(* something else that is not observed.                                    *)
SendPeerLine(kind, addr, v) ==
    Vtysh(<<RouterBgp(as_number), Line(<<kind, addr>>, v)>>)

SendOtherLine == SendPeerLine("other", NoArg, Enabled)

-----------------------------------------------------------------------------
(* bgp <as-number> *)
cmd_bgp(as) ==
    /\ as_number' = as
    /\ UNCHANGED <<router_id, peers, confederation_id, confederation_peers,
                   aggregate_addresses>>
    /\ Vtysh(<<RouterBgp(as)>>)

(* router-id <router-id> *)
cmd_bgp_router_id(id) ==
    /\ router_id' = id
    /\ UNCHANGED <<as_number, peers, confederation_id, confederation_peers,
                   aggregate_addresses>>
    /\ SendOtherLine

NewPeer(addr, as) ==
    [peer_address |-> addr, remote_as |-> as, description |-> Empty,
     route_reflector_client |-> FALSE,
     route_policy |-> [d \in Directions |-> Empty]]

(* With the table full the peer is still sent to FRR, the way              *)
(* cmd_bgp_aggregate does with an aggregate.                               *)
cmd_bgp_peer_Faulty(addr, as) ==
    /\ peers' = IF Len(peers) < MaxPeers THEN Append(peers, NewPeer(addr, as)) ELSE peers
    /\ UNCHANGED globals
    /\ SendPeerLine("neighbor", addr, as)

(* peer <peer-address> as-number <as-number>: a new entry every time, also *)
(* for an address that already has one.                                    *)
cmd_bgp_peer(addr, as) ==
    /\ Len(peers) < MaxPeers
    /\ peers' = Append(peers, NewPeer(addr, as))
    /\ UNCHANGED globals
    /\ SendPeerLine("neighbor", addr, as)

(* The search stops at the first entry of the address. *)
EntryOf_Faulty(addr, i) ==
    /\ i \in DOMAIN peers
    /\ peers[i].peer_address = addr
    /\ \A j \in i + 1 .. Len(peers) : peers[j].peer_address # addr

EntryOf(addr, i) ==
    /\ i \in DOMAIN peers
    /\ peers[i].peer_address = addr
    /\ \A j \in 1 .. i - 1 : peers[j].peer_address # addr

(* peer <peer-address> description <text> *)
cmd_bgp_peer_description(addr, text) ==
    \E i \in DOMAIN peers :
        /\ EntryOf(addr, i)
        /\ peers' = [peers EXCEPT ![i].description = text]
        /\ UNCHANGED globals
        /\ SendOtherLine

(* peer <peer-address> password cipher <password> and                      *)
(* peer <peer-address> advertise-community: not kept in the copy, and sent *)
(* whether or not the peer is known.                                       *)
cmd_bgp_peer_unrecorded(addr) ==
    /\ UNCHANGED cliVars
    /\ SendOtherLine

(* peer <peer-address> reflect-client *)
cmd_bgp_peer_rr_client(addr) ==
    \E i \in DOMAIN peers :
        /\ EntryOf(addr, i)
        /\ peers' = [peers EXCEPT ![i].route_reflector_client = TRUE]
        /\ UNCHANGED globals
        /\ SendPeerLine("route-reflector-client", addr, Enabled)

(* peer <peer-address> route-policy <policy-name> {import|export} *)
cmd_bgp_peer_route_policy(addr, name, direction) ==
    \E i \in DOMAIN peers :
        /\ EntryOf(addr, i)
        /\ peers' = [peers EXCEPT ![i].route_policy[direction] = name]
        /\ UNCHANGED globals
        /\ SendOtherLine

(* confederation id <confederation-id> *)
cmd_bgp_confederation_id(id) ==
    /\ confederation_id' = id
    /\ UNCHANGED <<as_number, router_id, peers, confederation_peers, aggregate_addresses>>
    /\ SendOtherLine

(* The loop runs to 17 instead of stopping before it. *)
cmd_bgp_confederation_peers_Faulty(list) ==
    /\ list # <<>>
    /\ confederation_peers' =
           SubSeq(list, 1, IF Len(list) < MaxConfederationPeers + 1
                           THEN Len(list) ELSE MaxConfederationPeers + 1)
    /\ UNCHANGED <<as_number, router_id, peers, confederation_id, aggregate_addresses>>
    /\ SendOtherLine

(* confederation peer-as <as-number> ...: the list replaces the old one    *)
(* and is cut at the capacity of the array.                                *)
cmd_bgp_confederation_peers(list) ==
    /\ list # <<>>
    /\ confederation_peers' =
           SubSeq(list, 1, IF Len(list) < MaxConfederationPeers
                           THEN Len(list) ELSE MaxConfederationPeers)
    /\ UNCHANGED <<as_number, router_id, peers, confederation_id, aggregate_addresses>>
    /\ SendOtherLine

(* aggregate <address> <mask>: recorded if there is room, sent anyway. *)
cmd_bgp_aggregate(prefix) ==
    /\ aggregate_addresses' = IF Len(aggregate_addresses) < MaxAggregates
                              THEN Append(aggregate_addresses, prefix)
                              ELSE aggregate_addresses
    /\ UNCHANGED <<as_number, router_id, peers, confederation_id, confederation_peers>>
    /\ SendOtherLine

-----------------------------------------------------------------------------
CliNext ==
    \/ \E as \in AsArgs : cmd_bgp(as)
    \/ \E id \in ConfederationIds : cmd_bgp_confederation_id(id)
    \/ \E id \in RouterIds : cmd_bgp_router_id(id)
    \/ \E addr \in Addresses, as \in AsArgs : cmd_bgp_peer(addr, as)
    \/ \E addr \in Addresses, text \in Texts : cmd_bgp_peer_description(addr, text)
    \/ \E addr \in Addresses : cmd_bgp_peer_unrecorded(addr)
    \/ \E addr \in Addresses : cmd_bgp_peer_rr_client(addr)
    \/ \E addr \in Addresses, name \in Texts, direction \in Directions :
          cmd_bgp_peer_route_policy(addr, name, direction)
    \/ \E list \in ConfederationArgs : cmd_bgp_confederation_peers(list)
    \/ \E prefix \in Aggregates : cmd_bgp_aggregate(prefix)

(* Meanwhile somebody saves the configuration of FRR, and FRR stops, is    *)
(* started again or is restarted; the process of the CLI lives on.         *)
FrrNext ==
    /\ Write \/ Crash \/ Restart
    /\ UNCHANGED cliVars

Init == FrrInit /\ CliInit

Next == CliNext \/ FrrNext

vars == <<frrVars, cliVars>>

Spec == Init /\ [][Next]_vars

-----------------------------------------------------------------------------
(* Safety. *)

Recorded(conf) ==
    \A addr \in Addresses :
        conf[<<"neighbor", addr>>] # Absent =>
            \E i \in DOMAIN peers : /\ peers[i].peer_address = addr
                                    /\ peers[i].remote_as = conf[<<"neighbor", addr>>]

ReflectedByFirstEntry(conf) ==
    \A addr \in Addresses :
        conf[<<"route-reflector-client", addr>>] # Absent =>
            \E i \in DOMAIN peers : EntryOf(addr, i) /\ peers[i].route_reflector_client

(* Every neighbor FRR runs, or will run once it is started again, was      *)
(* written down before it was sent, with its AS: whatever FRR refused, in  *)
(* whatever order, and however full the table was.                         *)
PeersRecorded == Recorded(running) /\ Recorded(startup)

(* A neighbor that is a route reflector client in FRR is shown as one, at  *)
(* the entry a command about it would change, however many entries of the  *)
(* address were added before or after.                                     *)
ReflectorsRecorded ==
    ReflectedByFirstEntry(running) /\ ReflectedByFirstEntry(startup)

(* The entry later commands act on, and that the display shows first, has  *)
(* the AS FRR runs the neighbor with.  The code does not keep this: a peer *)
(* entered again with another AS gets a second entry, behind the first.    *)
FirstEntryCurrent ==
    \A addr \in Addresses :
        running[<<"neighbor", addr>>] # Absent =>
            \E i \in DOMAIN peers :
                EntryOf(addr, i) /\ peers[i].remote_as = running[<<"neighbor", addr>>]
==============================================================================
