--------------------------------- MODULE Frr ---------------------------------
(***************************************************************************)
(* FRRouting as the code of this repository uses it: a daemon that takes   *)
(* batches of configuration lines through vtysh, answers with an exit      *)
(* code, keeps a running configuration in memory and a startup             *)
(* configuration in /etc/frr/frr.conf, and reads the latter whenever it is *)
(* started.                                                                *)
(*                                                                         *)
(* FRR is not part of the repository.  The configuration is reduced to a   *)
(* value per key, one key per thing that can be configured; lines about    *)
(* keys outside Keys, which no property looks at, leave it alone.          *)
(***************************************************************************)
EXTENDS Naturals, Sequences

CONSTANTS
    Keys,            \* the configuration items observed, pairs <<kind, argument>>
    ConfigValues,    \* their values
    Absent,          \* an item that is not configured
    BgpKey,          \* the item "router bgp"
    NoAs             \* AS 0, which FRR refuses

VARIABLES
    running,         \* the running configuration
    startup,         \* /etc/frr/frr.conf
    up               \* FRR is running

frrVars == <<running, startup, up>>

Configurations == [Keys -> ConfigValues \cup {Absent}]
NoConfiguration == [k \in Keys |-> Absent]

FrrTypeOK ==
    /\ running \in Configurations
    /\ startup \in Configurations
    /\ up \in BOOLEAN

FrrInit ==
    /\ running = NoConfiguration
    /\ startup = NoConfiguration
    /\ up = TRUE

(* A line of a batch sets an item, or removes it ("no ..."). *)
Line(k, v) == [key |-> k, value |-> v]

(* The last of the first k lines of a batch that is about an item.         *)
LastLine(batch, k, item) ==
    CHOOSE i \in 1 .. k : /\ batch[i].key = item
                          /\ \A j \in i + 1 .. k : batch[j].key # item

AfterLines(batch, k) ==
    [item \in Keys |-> IF \E i \in 1 .. k : batch[i].key = item
                       THEN batch[LastLine(batch, k, item)].value
                       ELSE running[item]]

(* Line i of a batch.  AS 0 is none; "router bgp" names the AS that runs   *)
(* after the lines before it, or starts one; "no router bgp" ends it.      *)
Acceptable(batch, i) ==
    /\ batch[i].value # NoAs
    /\ batch[i].key = BgpKey =>
          \/ batch[i].value = Absent
          \/ AfterLines(batch, i - 1)[BgpKey] \in {Absent, batch[i].value}

(* vtysh exits with 0: every line was taken. *)
Accepted(batch) ==
    /\ up
    /\ \A i \in DOMAIN batch : Acceptable(batch, i)
    /\ running' = AfterLines(batch, Len(batch))
    /\ UNCHANGED <<startup, up>>

(* vtysh exits with another code: it stopped at some line, the lines       *)
(* before it stay.  FRR may refuse a line for reasons of its own.          *)
Refused(batch) ==
    /\ \E k \in 0 .. Len(batch) - 1 :
          /\ k > 0 => up
          /\ \A i \in 1 .. k : Acceptable(batch, i)
          /\ running' = AfterLines(batch, k)
    /\ UNCHANGED <<startup, up>>

(* "no router ...": one line that takes many items with it, or none. *)
Removed(items) ==
    /\ up
    /\ running' = [k \in Keys |-> IF k \in items THEN Absent ELSE running[k]]
    /\ UNCHANGED <<startup, up>>

(* "write" and "write memory" *)
Write ==
    /\ up
    /\ startup' = running
    /\ UNCHANGED <<running, up>>

(* Stopped and started again, by systemctl. *)
Restart ==
    /\ running' = startup
    /\ up' = TRUE
    /\ UNCHANGED startup

Crash ==
    /\ up
    /\ up' = FALSE
    /\ running' = NoConfiguration
    /\ UNCHANGED startup
==============================================================================
