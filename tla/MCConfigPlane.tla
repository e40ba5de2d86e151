---------------------------- MODULE MCConfigPlane ----------------------------
(* Instances of ConfigPlane for model checking. *)
EXTENDS ConfigPlane, TLC

CONSTANTS n1, d1, i1, as1, as2, on

MCBgpKey == <<"bgp", NoArg>>
MCNeighborKey == <<"neighbor", n1>>
MCRouteKey == <<"route", d1>>
MCKeys == {MCBgpKey, MCNeighborKey, MCRouteKey}
MCConfigValues == {as1, as2, on}

MCYangValues == [kind \in {"bgp", "hostname", "router-id", "interface", "neighbor"} |->
                    CASE kind = "bgp" -> {as1}
                      [] kind = "neighbor" -> {as1}
                      [] kind = "interface" -> {on}
                      [] OTHER -> {}]

(* "no router bgp" takes the neighbor along; /api/command may send it.     *)
MCNoRouterBgp == <<Line(MCNeighborKey, Absent), Line(MCBgpKey, Absent)>>
MCBatches == {<<Line(MCRouteKey, on)>>, MCNoRouterBgp}
MCCliBatches == {<<Line(MCBgpKey, as2), Line(MCNeighborKey, as2)>>, MCNoRouterBgp}
==============================================================================
