---------------------------- MODULE ViewedTable ----------------------------
(***************************************************************************)
(* What the commands that open a view promise, without arrays or pointers: *)
(* a set of entries, each known by its name, and the name of the view the  *)
(* operator is in.  Entering a view never changes another entry; a command *)
(* given in a view changes the entry the view was opened for, and no other *)
(* one.                                                                    *)
(***************************************************************************)
EXTENDS Naturals, FiniteSets

CONSTANTS
    Room,            \* how many entries there may be
    NoView           \* no view was entered yet

VARIABLES
    content,         \* the entries, records with a field "name"
    view             \* the name of the view

Named(n) == {e \in content : e.name = n}

Init == content = {} /\ view = NoView

(* Only the entry of that name changes, and it keeps the name. *)
Change(n) ==
    \E e \in Named(n), f \in content' :
        f.name = n /\ content' = (content \ {e}) \cup {f}

(* The view of an entry that exists; the command may change that entry.    *)
Enter == Change(view')

(* The view of a new entry. *)
Create ==
    /\ Named(view') = {}
    /\ Cardinality(content) < Room
    /\ \E f \in content' : f.name = view' /\ content' = content \cup {f}

(* With no room for the entry, the view may open on nothing. *)
OpenEmpty ==
    /\ Named(view') = {}
    /\ Cardinality(content) = Room
    /\ UNCHANGED content

(* A command given in the view. *)
Edit ==
    /\ Change(view)
    /\ UNCHANGED view

Remove ==
    /\ \E e \in content : content' = content \ {e}
    /\ UNCHANGED view

Next == Enter \/ Create \/ OpenEmpty \/ Edit \/ Remove

Spec == Init /\ [][Next]_<<content, view>>
==============================================================================
