---------------------------- MODULE ZoneFirewall ----------------------------
(***************************************************************************)
(* Security zones and the rules of the security policy,                    *)
(* src/src/security/firewall/zone_firewall.c.                              *)
(*                                                                         *)
(* The only policy there can be is "default", so that the table "rule" is  *)
(* the rules of that policy.                                               *)
(***************************************************************************)
EXTENDS Tables

CONSTANTS
    ZoneNames,
    RuleNames,
    Interfaces,
    ZonePriorities,  \* priorities as typed
    RuleFields,      \* source_zone, ..., service, those that are typed
    RuleTexts,       \* what they may be set to
    MaxMembers       \* 32 in the code

ASSUME ZoneAssumption == ZonePriorities \subseteq Int /\ MaxMembers \in Nat

RuleActions == {"permit", "deny"}

SecurityZone == [name : ZoneNames, priority : 0 .. 100, 
                 members : Seq(Interfaces)]

SecurityRule ==
    [name : RuleNames, rule_id : 1 .. Capacity["rule"], action : RuleActions,
     match : [RuleFields -> RuleTexts \cup {Unset}]]

NewZone(name) == [name |-> name, priority |-> 50, members |-> <<>>]

NewRule(name) ==
    [name |-> name, rule_id |-> Len(tables["rule"]) + 1, action |-> "deny",
     match |-> [field \in RuleFields |-> Unset]]

-----------------------------------------------------------------------------
(* firewall zone <zone-name> *)
cmd_firewall_zone(name) == Enter("zone", NewZone(name))

(* The range is checked after the narrowing, the number is stored whole. *)
cmd_zone_priority_Faulty(n) ==
    /\ Uint8(n) <= 100
    /\ Set("zone", "priority", n)

(* set priority <priority> *)
cmd_zone_priority(n) ==
    /\ Uint8(n) <= 100
    /\ Set("zone", "priority", Uint8(n))

(* add interface <interface-name> *)
cmd_zone_add_interface(interface) == Add("zone", "members", interface, MaxMembers)

(* security-policy *)
cmd_security_policy == EnterUnchecked("policy", [name |-> "default"])

(* rule name <rule-name> *)
cmd_security_rule(name) ==
    /\ HasEntry("policy")
    /\ Enter("rule", NewRule(name))

(* source-zone, destination-zone, source-address, destination-address and  *)
(* service, each with its value.                                           *)
cmd_rule_match(field, text) ==
    /\ HasEntry("rule")
    /\ Set("rule", "match", [Entry("rule").match EXCEPT ![field] = text])

(* action {permit|deny} *)
cmd_rule_action(action) == Set("rule", "action", action)

ZoneNext ==
    \/ \E name \in ZoneNames : cmd_firewall_zone(name)
    \/ \E n \in ZonePriorities : cmd_zone_priority(n)
    \/ \E interface \in Interfaces : cmd_zone_add_interface(interface)

SecurityPolicyNext ==
    \/ cmd_security_policy
    \/ \E name \in RuleNames : cmd_security_rule(name)
    \/ \E field \in RuleFields, text \in RuleTexts : cmd_rule_match(field, text)
    \/ \E action \in RuleActions : cmd_rule_action(action)
==============================================================================
