------------------------------ MODULE FrrToYang ------------------------------
(***************************************************************************)
(* The export of FRR into the YANG startup datastore,                      *)
(* src/src/openconfig_adapter/frr_to_yang.c.                               *)
(*                                                                         *)
(* One run asks vtysh for one thing after the other and sets items in its  *)
(* session, which nobody else sees; the first item that cannot be set ends *)
(* the run, else the session is applied as a whole at the end.  The answer *)
(* of vtysh is not looked at: what is written is constant but for the host *)
(* name.  A step is one function of the code, or one of its questions to   *)
(* vtysh; other clients edit the datastore between the steps.              *)
(***************************************************************************)
EXTENDS Naturals, FiniteSets

CONSTANTS
    Hostnames,       \* lines of /etc/hostname
    ClientValues,    \* what other clients write
    Absent,          \* an item that is not there, or a file that is not
    MaxEdits         \* bound: edits of others, of the datastore and the host name

(* What the code writes, whatever FRR answers. *)
Written ==
    [name |-> "eth0", enabled |-> "true", oper_status |-> "UP",
     as |-> "65001", router_id |-> "192.168.1.1",
     neighbor_address |-> "192.168.1.2", peer_as |-> "65002",
     session_state |-> "ESTABLISHED"]

Items == DOMAIN Written \cup {"hostname"}

Values == {Written[i] : i \in DOMAIN Written} \cup Hostnames \cup ClientValues

Neighbor == {"neighbor_address", "peer_as", "session_state"}

ASSUME FrrToYangAssumption ==
    /\ Absent \notin Values
    /\ MaxEdits \in Nat

VARIABLES
    startup,         \* the startup datastore of sysrepo
    session,         \* the items set and not applied yet
    pc,              \* where the run is
    hostname,        \* /etc/hostname
    edits            \* how often others have changed something

exportVars == <<startup, session, pc>>

vars == <<exportVars, hostname, edits>>

NoEdits == [i \in Items |-> Absent]

Resting == {"idle", "ok", "failed"}

Stages == {"interface", "oper_status", "as", "router_id", "neighbor", "system", "apply"}

TypeOK ==
    /\ startup \in [Items -> Values \cup {Absent}]
    /\ session \in [Items -> Values \cup {Absent}]
    /\ pc \in Resting \cup Stages
    /\ pc \in Resting => session = NoEdits
    /\ hostname \in Hostnames \cup {Absent}
    /\ edits \in 0 .. MaxEdits

Init ==
    /\ startup = NoEdits
    /\ session = NoEdits
    /\ pc = "idle"
    /\ hostname \in Hostnames \cup {Absent}
    /\ edits = 0

-----------------------------------------------------------------------------
(* The session is not stopped, and the next run finds what it holds. *)
Fail_Faulty ==
    /\ pc' = "failed"
    /\ UNCHANGED <<startup, session>>

(* The run starts again from the top. *)
Fail_Again_Faulty ==
    /\ pc' = "interface"
    /\ session' = NoEdits
    /\ UNCHANGED startup

(* An error is returned up to main, which stops the session. *)
Fail ==
    /\ pc' = "failed"
    /\ session' = NoEdits
    /\ UNCHANGED startup

Value(i) == IF i = "hostname" THEN hostname ELSE Written[i]

(* The items go into the datastore at once, and stay when the run fails.   *)
Set_Faulty(items, next) ==
    \/ /\ startup' = [i \in Items |-> IF i \in items THEN Value(i) ELSE startup[i]]
       /\ pc' = next
       /\ UNCHANGED session
    \/ Fail

(* Every sr_set_item of a function succeeds, or one does not. *)
Set(items, next) ==
    \/ /\ session' = [i \in Items |-> IF i \in items THEN Value(i) ELSE session[i]]
       /\ pc' = next
       /\ UNCHANGED startup
    \/ Fail

(* The question to vtysh could not be asked. *)
Skip(next) ==
    /\ pc' = next
    /\ UNCHANGED <<startup, session>>

(* main: a session is opened, or the run ends there. *)
main ==
    /\ pc \in Resting
    /\ pc' \in {"interface", "failed"}
    /\ UNCHANGED <<startup, session>>

frr_interface_to_yang ==
    \/ pc = "interface" /\ (Set({"name", "enabled"}, "oper_status") \/ Skip("oper_status"))
    \/ pc = "oper_status" /\ Set({"oper_status"}, "as")

frr_bgp_global_to_yang ==
    \/ pc = "as" /\ (Set({"as"}, "router_id") \/ Skip("router_id"))
    \/ pc = "router_id" /\ (Set({"router_id"}, "neighbor") \/ Skip("neighbor"))

frr_bgp_neighbor_to_yang ==
    /\ pc = "neighbor"
    /\ Set(Neighbor, "system") \/ Skip("system")

(* Without the file there is no host name to set. *)
frr_system_to_yang ==
    /\ pc = "system"
    /\ IF hostname = Absent THEN Skip("apply") ELSE Set({"hostname"}, "apply")

(* sr_apply_changes: everything set, or an error and nothing. *)
apply_changes ==
    /\ pc = "apply"
    /\ \/ /\ startup' = [i \in Items |-> IF session[i] = Absent THEN startup[i] ELSE session[i]]
          /\ session' = NoEdits
          /\ pc' = "ok"
       \/ Fail

frr_to_yang ==
    \/ frr_interface_to_yang
    \/ frr_bgp_global_to_yang
    \/ frr_bgp_neighbor_to_yang
    \/ frr_system_to_yang
    \/ apply_changes

-----------------------------------------------------------------------------
(* Clients of sysrepo, and whoever gives the host another name. *)
EditDatastore(i, v) ==
    /\ startup' = [startup EXCEPT ![i] = v]
    /\ UNCHANGED <<session, pc, hostname>>

Rename(name) ==
    /\ hostname' = name
    /\ UNCHANGED exportVars

Others ==
    /\ edits < MaxEdits
    /\ edits' = edits + 1
    /\ \/ \E i \in Items, v \in ClientValues \cup {Absent} : EditDatastore(i, v)
       \/ \E name \in Hostnames \cup {Absent} : Rename(name)

Next ==
    \/ (main \/ frr_to_yang) /\ UNCHANGED <<hostname, edits>>
    \/ Others

Fairness == WF_vars(frr_to_yang /\ UNCHANGED <<hostname, edits>>)

Spec == Init /\ [][Next]_vars /\ Fairness

-----------------------------------------------------------------------------
Outcome == IF pc \in {"ok", "failed"} THEN pc ELSE "none"

(* What is written together, and what is written by every export. *)
Groups == {{"name", "enabled"}, {"as"}, {"router_id"}, Neighbor, {"hostname"}}
Always == {"oper_status"}

Export == INSTANCE DatastoreExport WITH content <- startup, outcome <- Outcome

(* An export that fails half-way, at whichever item, leaves nothing in the *)
(* datastore; one that succeeds writes every neighbor with its AS and      *)
(* state, and keeps what other clients wrote elsewhere meanwhile.          *)
AllOrNothing == Export!Spec

(* A run that has started ends, well or not. *)
ExportEnds == pc \in Stages ~> pc \in {"ok", "failed"}
==============================================================================
