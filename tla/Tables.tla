------------------------------- MODULE Tables -------------------------------
(***************************************************************************)
(* The static tables behind the commands of the Huawei-style CLI that keep *)
(* their configuration in the process: an array with a count, a pointer to *)
(* the entry later commands change, and the view the operator was last     *)
(* told to be in.  The handlers find or create an entry by name, or add    *)
(* one unseen; what an entry holds is up to the modules of the components. *)
(*                                                                         *)
(* An entry is a record; its field "name" stands for the name or number it *)
(* is found by.  The pointer is a position in the table, Null for NULL.    *)
(* Only VLANs are ever removed.                                            *)
(***************************************************************************)
EXTENDS Integers, Sequences, SequencesExt

CONSTANTS
    Kinds,           \* the tables
    Capacity,        \* the size of each array
    NoView,          \* no view was entered yet
    Unset            \* a string that was never set

ASSUME TablesAssumption == Capacity \in [Kinds -> Nat \ {0}]

VARIABLES
    tables,          \* the entries in use, by table
    current,         \* the pointers current_zone, current_acl, ...
    prompt           \* the name in the last "Entering ..." line

tableVars == <<tables, current, prompt>>

Null == 0

(* uint8_t and uint16_t, as atoi() is stored into them. *)
Uint8(n) == n % 256
Uint16(n) == n % 65536

TablesInit ==
    /\ tables = [kind \in Kinds |-> <<>>]
    /\ current = [kind \in Kinds |-> Null]
    /\ prompt = [kind \in Kinds |-> NoView]

-----------------------------------------------------------------------------
HasRoom(kind) == Len(tables[kind]) < Capacity[kind]

(* The first entry of that name. *)
Position(kind, name) ==
    SelectInSeq(tables[kind], LAMBDA entry : entry.name = name)

(* The search does not reset the pointer of the last command first. *)
Pointer_Faulty(kind, name) ==
    IF Position(kind, name) # Null THEN Position(kind, name)
    ELSE IF HasRoom(kind) THEN Len(tables[kind]) + 1
    ELSE current[kind]

(* Where the pointer is left: at the entry found, at one created behind    *)
(* the others, or at none, when the table is full.                         *)
Pointer(kind, name) ==
    IF Position(kind, name) = Null /\ HasRoom(kind)
    THEN Len(tables[kind]) + 1
    ELSE Position(kind, name)

(* The table with its new entry, if one has to be created. *)
WithEntry(kind, new) ==
    IF Position(kind, new.name) = Null /\ HasRoom(kind)
    THEN Append(tables[kind], new)
    ELSE tables[kind]

Announced(kind, name) == [prompt EXCEPT ![kind] = name]

(* The commands that enter a view: an error ends them when the table is    *)
(* full, the pointer is NULL by then.                                      *)
Enter(kind, new) ==
    LET i == Pointer(kind, new.name)
    IN /\ tables' = [tables EXCEPT ![kind] = WithEntry(kind, new)]
       /\ current' = [current EXCEPT ![kind] = i]
       /\ prompt' = IF i = Null THEN prompt ELSE Announced(kind, new.name)

(* Those that announce the view without a look at the pointer. *)
EnterUnchecked(kind, new) ==
    /\ tables' = [tables EXCEPT ![kind] = WithEntry(kind, new)]
    /\ current' = [current EXCEPT ![kind] = Pointer(kind, new.name)]
    /\ prompt' = Announced(kind, new.name)

(* A new entry without a search; the caller sees to it that there is room. *)
AppendEntry(kind, new) ==
    /\ tables' = [tables EXCEPT ![kind] = Append(@, new)]
    /\ UNCHANGED <<current, prompt>>

-----------------------------------------------------------------------------
SetIn(kind, i, field, value) ==
    /\ i \in DOMAIN tables[kind]
    /\ tables' = [tables EXCEPT ![kind][i][field] = value]
    /\ UNCHANGED <<current, prompt>>

(* The entry the pointer looks at; the commands fail when it is NULL. *)
Entry(kind) == tables[kind][current[kind]]

HasEntry(kind) == current[kind] # Null

Set(kind, field, value) ==
    /\ HasEntry(kind)
    /\ SetIn(kind, current[kind], field, value)

(* Several fields of the entry at once. *)
SetEntry(kind, entry) ==
    /\ HasEntry(kind)
    /\ tables' = [tables EXCEPT ![kind][current[kind]] = entry]
    /\ UNCHANGED <<current, prompt>>

(* One more element of a list in the entry, while the list has room. *)
Add(kind, field, element, max) ==
    /\ HasEntry(kind)
    /\ Len(Entry(kind)[field]) < max
    /\ Set(kind, field, Append(Entry(kind)[field], element))
==============================================================================
