------------------------------- MODULE AclNat -------------------------------
(***************************************************************************)
(* Access control lists, src/src/ip_services/acl/acl_huawei.c, and the two *)
(* tables of address translation, src/src/ip_services/nat/nat44.c.         *)
(***************************************************************************)
EXTENDS Tables

CONSTANTS
    AclNumbers,      \* numbers as typed
    RuleIds,         \* rule ids as typed, 0 for none
    AclTexts,        \* addresses and ports
    MaxAclRules      \* 128 in the code

ASSUME AclAssumption ==
    /\ AclNumbers \subseteq Int /\ RuleIds \subseteq Int
    /\ MaxAclRules \in Nat

(* uint32_t: a number below zero is a huge one, and refused as well. *)
AclType(n) ==
    CASE n \in 2000 .. 2999 -> "basic"
      [] n \in 3000 .. 3999 -> "advanced"
      [] OTHER -> "none"

AclRule == [rule_id : Nat \ {0}, permit : BOOLEAN, text : AclTexts]

Acl == [name : 2000 .. 3999, type : {"basic", "advanced"}, 
        rules : Seq(AclRule)]

NewAcl(n) == [name |-> n, type |-> AclType(n), rules |-> <<>>]

(* acl <acl-number> *)
cmd_acl(n) ==
    /\ AclType(n) # "none"
    /\ EnterUnchecked("acl", NewAcl(n))

(* The id of the slot taken last, when none is typed. *)
RuleId(id) == IF id > 0 THEN id ELSE (Len(Entry("acl").rules) + 1) * 5

AclRules == Entry("acl").rules

NewAclRule(id, keyword, text) ==
    [rule_id |-> RuleId(id), permit |-> keyword = "permit", text |-> text]

(* The keyword is looked at before a slot is taken, the slot is given back *)
(* all the same.                                                           *)
cmd_acl_rule_Faulty(id, keyword, text) ==
    /\ HasEntry("acl")
    /\ Len(AclRules) < MaxAclRules
    /\ Set("acl", "rules",
           IF keyword \in {"permit", "deny"}
           THEN Append(AclRules, NewAclRule(id, keyword, text))
           ELSE IF AclRules = <<>> THEN <<>> ELSE Front(AclRules))

(* rule [<rule-id>] {permit|deny} [source ...] [destination ...]: the slot *)
(* is taken first, and given back when the keyword is another one.         *)
cmd_acl_rule(id, keyword, text) ==
    /\ HasEntry("acl")
    /\ Len(AclRules) < MaxAclRules
    /\ LET taken == Append(AclRules, NewAclRule(id, keyword, text))
       IN Set("acl", "rules", IF keyword \in {"permit", "deny"} THEN taken ELSE Front(taken))

-----------------------------------------------------------------------------
NatOutbound == [name : Int, enabled : {TRUE}]
NatServer == [name : AclTexts, port : 0 .. 65535]

(* With the table full the command reports success and keeps nothing. *)
Kept(kind, new) ==
    /\ HasRoom(kind)
    /\ AppendEntry(kind, new)

(* nat outbound <acl-number>: the ACL need not exist. *)
cmd_nat_outbound(n) == Kept("nat_outbound", [name |-> n, enabled |-> TRUE])

(* nat server protocol tcp global <ip> <port> inside <ip> <port>; a last   *)
(* port that was not typed is read from behind the arguments.              *)
cmd_nat_server(text, port) ==
    Kept("nat_server", [name |-> text, port |-> Uint16(port)])

AclNext ==
    \/ \E n \in AclNumbers : cmd_acl(n)
    \/ \E id \in RuleIds, keyword \in {"permit", "deny", "other"}, text \in AclTexts :
          cmd_acl_rule(id, keyword, text)

NatNext ==
    \/ \E n \in AclNumbers : cmd_nat_outbound(n)
    \/ \E text \in AclTexts, port \in AclNumbers : cmd_nat_server(text, port)

-----------------------------------------------------------------------------
(* An ACL in use only grows, by one permit or deny rule at a time: a rule  *)
(* command that fails after it took a slot takes no earlier rule with it,  *)
(* and leaves none behind.                                                 *)
AclRulesKept ==
    [][\A i \in DOMAIN tables["acl"] :
           LET old == tables["acl"][i].rules
               new == tables'["acl"][i].rules
           IN IsPrefix(old, new) /\ Len(new) <= Len(old) + 1]_tables
==============================================================================
