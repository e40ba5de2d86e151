------------------------------ MODULE MCRouting ------------------------------
(* Instances of Routing for model checking. *)
EXTENDS Routing, FiniteSets, TLC

CONSTANTS
    p, q,            \* a neighbor, a network, an interface, a route: two each
    area1, area2, area3,
    MaxItems,        \* bound: items configured in FRR, running or saved
    MaxEdits         \* bound: settings in the copy of OSPF, but its areas

MCNames == {p, q}
MCProcessIds == {0, 2}
MCAreaIds == {area1, area2, area3}
MCBandwidths == {100}
MCPreferences == {-1, 0, 255, 256}
MCBgpKey == <<"bgp", NoArg>>

MCKeys ==
    {<<"rip", NoArg>>, <<"version", NoArg>>}
        \cup ({"network", "passive-interface", "ip route"} \X MCNames)
        \cup ({"isis", "net", "is-type", "set-overload-bit"} \X MCProcessIds)
        \cup ({"area"} \X (MCProcessIds \X MCAreaIds))
        \cup ({"virtual-link"} \X (MCProcessIds \X MCAreaIds \X MCNames))

MCConfigValues == (0 .. Word - 1) \cup {Enabled} \cup Nets \cup RouterIds \cup Bandwidths

Symmetry == Permutations(MCNames) \cup Permutations(MCAreaIds)

Items(conf) == {k \in Keys : conf[k] # Absent}

(* The protocols share nothing but the daemon: they are explored one at a  *)
(* time, each with FRR saving, stopping and restarting in between.         *)
Alone(kinds) == \A k \in Items(running) \cup Items(startup) : k[1] \in kinds

MCNext ==
    \/ /\ Alone({"area", "virtual-link"})
       /\ isis = NoIsis /\ rip = NoRip
       /\ OspfNext
    \/ /\ Alone({"isis", "net", "is-type", "set-overload-bit"})
       /\ ospf = NoOspf /\ rip = NoRip
       /\ IsisNext
    \/ /\ Alone({"rip", "version", "network", "passive-interface"})
       /\ ospf = NoOspf /\ isis = NoIsis
       /\ RipNext
    \/ /\ Alone({"ip route"})
       /\ copies = <<NoOspf, NoIsis, NoRip>>
       /\ StaticNext
    \/ FrrNext

MCSpec == Init /\ [][MCNext]_vars

OspfEdits ==
    Cardinality({field \in {"process_id", "router_id", "reference_bandwidth"} :
                     ospf[field] # NoOspf[field]}) + Len(ospf.vlinks)

Few ==
    /\ Cardinality(Items(running)) <= MaxItems
    /\ Cardinality(Items(startup)) < MaxItems
    /\ OspfEdits <= MaxEdits
==============================================================================
