-------------------------- MODULE DatastoreExport --------------------------
(***************************************************************************)
(* What an export into a datastore with other clients promises: it writes  *)
(* all items of the groups it found, at one moment, or nothing at all, and *)
(* it takes nothing away.                                                  *)
(***************************************************************************)
CONSTANTS
    Items,
    Values,
    Absent,
    Groups,          \* sets of items that only make sense together
    Always           \* items no export leaves out

VARIABLES
    content,         \* the datastore
    outcome          \* of the last export: "none", "ok" or "failed"

Init ==
    /\ content = [i \in Items |-> Absent]
    /\ outcome = "none"

(* A new run; its outcome is open. *)
Begin ==
    /\ outcome' = "none"
    /\ UNCHANGED content

Commit ==
    /\ outcome = "none" /\ outcome' = "ok"
    /\ \E found \in SUBSET Groups :
          LET written == Always \cup UNION found
          IN /\ \A i \in written : content'[i] \in Values
             /\ content' = [i \in Items |-> IF i \in written THEN content'[i] ELSE content[i]]

(* At any time, as soon as a run has begun included. *)
Fail ==
    /\ outcome' = "failed"
    /\ UNCHANGED content

(* Another client writes or deletes an item. *)
Edit ==
    /\ \E i \in Items, v \in Values \cup {Absent} : content' = [content EXCEPT ![i] = v]
    /\ UNCHANGED outcome

Next == Begin \/ Commit \/ Fail \/ Edit

Spec == Init /\ [][Next]_<<content, outcome>>
==============================================================================
