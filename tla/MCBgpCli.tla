------------------------------ MODULE MCBgpCli ------------------------------
(* Instances of BgpCli for model checking. *)
EXTENDS BgpCli, TLC

CONSTANTS p, q, as1, as2

MCAddresses == {p, q}
MCAsNumbers == {as1, as2}
MCKeys == {<<"bgp", NoArg>>}
          \cup ({"neighbor", "route-reflector-client"} \X MCAddresses)
MCBgpKey == <<"bgp", NoArg>>
MCConfigValues == MCAsNumbers \cup {Enabled}
MCConfederationArgs == {<<as1, as2>>}
Symmetry == Permutations(MCAddresses) \cup Permutations(MCAsNumbers)
==============================================================================
