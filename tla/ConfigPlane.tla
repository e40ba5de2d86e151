----------------------------- MODULE ConfigPlane -----------------------------
(***************************************************************************)
(* Everything that configures FRR, at once: the web service, the           *)
(* conversion from YANG, operators at the CLI and in vtysh, and the        *)
(* container entry point, which starts FRR again when it has died.  They   *)
(* share FRR and nothing else, and none of them knows of the others.       *)
(***************************************************************************)
EXTENDS YangToFrr, WebApi

CONSTANTS
    CliBatches,      \* the lines of the commands operators type
    MaxCrashes,      \* bound on the crashes of FRR
    MaxEdits,        \* bound on the edits of the datastore
    Unpromised       \* nothing is promised about an item

(* The lines of a command give the items observed values they may have, or *)
(* AS 0.                                                                   *)
WellFormed(batch) ==
    /\ Len(batch) \in Nat
    /\ DOMAIN batch = 1 .. Len(batch)
    /\ \A i \in DOMAIN batch :
          batch[i].key \in Keys => batch[i].value \in ConfigValues \cup {Absent, NoAs}

ASSUME ConfigPlaneAssumption ==
    /\ MaxCrashes \in Nat
    /\ MaxEdits \in Nat
    /\ BgpKey \in Keys
    /\ Enabled \in ConfigValues
    /\ \A key \in Keys \cap YangKeys : YangValues[key[1]] \subseteq ConfigValues \cup {NoAs}
    /\ Absent \notin ConfigValues \cup {NoAs}
    /\ \A batch \in Batches \cup CliBatches : WellFormed(batch)

VARIABLES
    crashes, edits,  \* counted for the bounds
    kept,            \* history: what the last acknowledged save promises
    pushed,          \* history: what the conversion has got into FRR
    as_lost          \* history: since the conversion got its AS into FRR, BGP was
                     \* removed, or FRR crashed before it was saved

counters == <<crashes, edits>>
vars == <<frrVars, yang, adapterVars, requests, counters, kept, pushed, as_lost>>

Promises == [Keys -> ConfigValues \cup {Absent, Unpromised}]
NoPromise == [k \in Keys |-> Unpromised]

TypeOK ==
    /\ FrrTypeOK
    /\ AdapterTypeOK
    /\ WebTypeOK
    /\ crashes \in 0 .. MaxCrashes
    /\ edits \in 0 .. MaxEdits
    /\ kept \in Promises
    /\ pushed \in Promises
    /\ as_lost \in BOOLEAN

Init ==
    /\ FrrInit
    /\ AdapterInit
    /\ WebInit
    /\ crashes = 0
    /\ edits = 0
    /\ kept = NoPromise
    /\ pushed = NoPromise
    /\ as_lost = FALSE

-----------------------------------------------------------------------------
(* A promise about an item ends when a command gives it another value.     *)
Surviving(promise) ==
    [k \in Keys |-> IF running'[k] = running[k] THEN promise[k] ELSE Unpromised]

(* What the conversion promises grows with the lines FRR takes from it.    *)
Pushed ==
    [k \in Keys |-> IF running'[k] = running[k] THEN pushed[k] ELSE running'[k]]

(* Where a run that read an AS has it in FRR, and has yet to save it.      *)
BeforeSave == {"router_id", "neighbors", "neighbor", "system", "write"}
Configuring == BeforeSave \cup {"restart", "ok"}

Removes(batch) ==
    \E i \in DOMAIN batch : batch[i].key = BgpKey /\ batch[i].value = Absent

(* A vtysh of the web service with such lines has ended. *)
WebRemoves ==
    \E w \in Workers : /\ requests[w].status # "free"
                       /\ requests'[w].status = "free"
                       /\ Removes(requests[w].batch)

WebStep ==
    /\ WebNext
    /\ kept' = IF \E w \in Workers : /\ requests[w].status = "waiting"
                                     /\ requests[w].save
                                     /\ requests'[w].status # "waiting"
                                     /\ requests'[w].reply = "success"
               THEN running
               ELSE Surviving(kept)
    /\ pushed' = Surviving(pushed)
    /\ as_lost' = (as_lost \/ (pc \in Configuring /\ WebRemoves))
    /\ UNCHANGED <<yang, adapterVars, counters>>

AdapterStarts ==
    /\ yang_to_frr
    /\ pushed' = NoPromise
    /\ as_lost' = FALSE
    /\ UNCHANGED <<requests, counters, kept>>

AdapterStep ==
    /\ Convert
    /\ IF pc = "restart"
       THEN UNCHANGED <<kept, pushed>>
       ELSE /\ kept' = Surviving(kept)
            /\ pushed' = Pushed
    /\ UNCHANGED <<requests, counters, as_lost>>

(* A command at the Huawei-style CLI or in vtysh itself. *)
OperatorStep ==
    /\ \E batch \in CliBatches :
          /\ Vtysh(batch)
          /\ as_lost' = (as_lost \/ (pc \in Configuring /\ Removes(batch)))
    /\ kept' = Surviving(kept)
    /\ pushed' = Surviving(pushed)
    /\ UNCHANGED <<yang, adapterVars, requests, counters>>

FrrCrashes ==
    /\ crashes < MaxCrashes
    /\ Crash
    /\ crashes' = crashes + 1
    /\ pushed' = NoPromise
    /\ as_lost' = (as_lost \/ pc \in BeforeSave)
    /\ UNCHANGED <<yang, adapterVars, requests, edits, kept>>

Watchdog_Faulty == up /\ Restart

(* The loop of the entry point: every 30 s, if zebra is not running, FRR   *)
(* is started.                                                             *)
Watchdog ==
    /\ ~up
    /\ Restart

WatchdogStep ==
    /\ Watchdog
    /\ UNCHANGED <<yang, adapterVars, requests, counters, kept, pushed, as_lost>>

YangClientStep ==
    /\ edits < MaxEdits
    /\ \E key \in YangKeys : \E v \in YangDomain(key) : EditYang(key, v)
    /\ edits' = edits + 1
    /\ UNCHANGED <<requests, crashes, kept, pushed, as_lost>>

Next ==
    \/ WebStep
    \/ AdapterStarts
    \/ AdapterStep
    \/ OperatorStep
    \/ FrrCrashes
    \/ WatchdogStep
    \/ YangClientStep

(* The timer of subprocess.run ends every wait that vtysh does not; a run  *)
(* of the conversion goes on as long as vtysh returns; the loop of the     *)
(* entry point never ends.                                                 *)
Fairness ==
    /\ \A w \in Workers : WF_vars(WebStep /\ execute_timeout(w))
    /\ WF_vars(AdapterStep)
    /\ WF_vars(WatchdogStep)

Spec == Init /\ [][Next]_vars /\ Fairness

-----------------------------------------------------------------------------
(* What a client was told is saved is in force whenever FRR runs, through  *)
(* crashes, restarts by others and saves by others, until somebody         *)
(* configures the item anew.                                               *)
SavedSurvives ==
    up => \A k \in Keys : kept[k] # Unpromised => running[k] = kept[k]

(* A conversion that reports success leaves FRR with every line FRR took   *)
(* from it, the restart at its end notwithstanding, unless FRR crashed on  *)
(* the way or somebody configured the item anew.                           *)
ConversionSticks ==
    pc = "ok" /\ up => \A k \in Keys : pushed[k] # Unpromised => running[k] = pushed[k]

(* A run that reports success found FRR with the AS it read, or gave FRR   *)
(* that AS, and has restarted it with that AS: a refusal of the AS ends    *)
(* the run before anything is saved.  No "router bgp" others send takes    *)
(* the AS away, nor what they save, nor a crash once the run has saved.    *)
(* What can is exempt: "no router bgp", which /api/command and operators   *)
(* may send at any time, and a crash before the run has saved.             *)
SuccessHasItsAs ==
    pc = "ok" /\ as_number # NoAs /\ ~as_lost /\ up => running[BgpKey] = as_number

(* Every request is answered, whatever vtysh does. *)
RequestsAnswered ==
    \A w \in Workers : requests[w].status = "waiting" ~> requests[w].status # "waiting"

(* A run of the conversion ends. *)
ConversionEnds == pc = "interface_names" ~> pc \in {"ok", "failed"}

(* The guide's answer to FRR and the datastore being out of step is to run *)
(* the conversion (OPENCONFIG_GUIDE.md:321-330): an item that is gone from *)
(* the datastore for good is gone from FRR after run upon run.             *)
InStep ==
    \A key \in Keys \cap YangKeys :
        []<>(pc = "ok") /\ <>[](yang[key] = Absent) => []<>(running[key] = Absent)

(* FRR comes back. *)
FrrComesBack == ~up ~> up
==============================================================================
