---------------------------- MODULE TablesProofs ----------------------------
(***************************************************************************)
(* What the operators of Tables do to one table and leave of the others:   *)
(* the lemmas that the proofs about the commands rest on.                  *)
(***************************************************************************)
EXTENDS Tables, SequenceTheorems, WellFoundedInduction, TLAPS

(* A set of positions has a first one. *)
LEMMA LeastIndex ==
    ASSUME NEW I \in SUBSET Nat, I # {}
    PROVE  Min(I) \in I /\ \A i \in I : Min(I) <= i
  <1> DEFINE R == OpToRel(<, Nat)
  <1>1. PICK n \in I : \A i \in I : ~ (<<i, n>> \in R)
    <2>1. IsWellFoundedOn(R, Nat)
      BY NatLessThanWellFounded
    <2> HIDE DEF R
    <2> QED BY <2>1, WFMin
  <1>2. \A i \in I : n <= i
    <2>1. ASSUME NEW i \in I, i < n
          PROVE  <<i, n>> \in R
      BY <2>1 DEF OpToRel
    <2>2. ASSUME NEW i \in I
          PROVE  ~ (i < n)
      <3> HIDE DEF R
      <3> QED BY <1>1, <2>1
    <2> HIDE DEF R
    <2> QED BY <2>2
  <1> QED
    <2> HIDE DEF R
    <2> QED BY <1>2 DEF Min

(* A search by name ends at the first entry of that name, or nowhere. *)
LEMMA SearchByName ==
    ASSUME NEW kind, NEW name, Len(tables[kind]) \in Nat
    PROVE  LET i == Position(kind, name)
           IN \/ /\ i = Null
                 /\ \A j \in 1 .. Len(tables[kind]) : tables[kind][j].name # name
              \/ /\ i \in 1 .. Len(tables[kind])
                 /\ tables[kind][i].name = name
                 /\ \A j \in 1 .. i - 1 : tables[kind][j].name # name
  <1> DEFINE I == {j \in 1 .. Len(tables[kind]) : tables[kind][j].name = name}
  <1>1. Position(kind, name) = IF I # {} THEN Min(I) ELSE Null
    BY DEF Position, SelectInSeq, Null
  <1>2. CASE I = {}
    BY <1>1, <1>2 DEF Null
  <1>3. CASE I # {}
    <2>1. Min(I) \in I /\ \A j \in I : Min(I) <= j
      <3>1. I \in SUBSET Nat
        OBVIOUS
      <3> HIDE DEF I
      <3> QED BY <1>3, <3>1, LeastIndex
    <2>2. Position(kind, name) = Min(I)
      BY <1>1, <1>3
    <2>3. ASSUME NEW j \in 1 .. Min(I) - 1 PROVE tables[kind][j].name # name
      BY <2>1, <2>3
    <2> HIDE DEF I
    <2> QED
      BY <2>1, <2>2, <2>3 DEF I
  <1> QED
    BY <1>2, <1>3

-----------------------------------------------------------------------------
(* There is one table, pointer and view for every kind. *)
Arrays == DOMAIN tables = Kinds /\ DOMAIN current = Kinds /\ DOMAIN prompt = Kinds

(* A command is about one table and leaves the others alone. *)
OthersKept(kind) ==
    \A other \in Kinds \ {kind} :
        /\ tables'[other] = tables[other]
        /\ current'[other] = current[other]
        /\ prompt'[other] = prompt[other]

NoneNamed(kind, name) == \A i \in 1 .. Len(tables[kind]) : tables[kind][i].name # name

(* The three outcomes of entering a view. *)
Found(kind, name) ==
    \E i \in 1 .. Len(tables[kind]) :
        /\ tables[kind][i].name = name
        /\ tables'[kind] = tables[kind]
        /\ current'[kind] = i
        /\ prompt'[kind] = name

Created(kind, new) ==
    /\ NoneNamed(kind, new.name)
    /\ HasRoom(kind)
    /\ tables'[kind] = Append(tables[kind], new)
    /\ current'[kind] = Len(tables[kind]) + 1
    /\ prompt'[kind] = new.name

Refused(kind, name) ==
    /\ NoneNamed(kind, name)
    /\ ~ HasRoom(kind)
    /\ tables'[kind] = tables[kind]
    /\ current'[kind] = Null
    /\ prompt'[kind] \in {prompt[kind], name}

Entered(kind, new) ==
    \/ Found(kind, new.name)
    \/ Created(kind, new)
    \/ Refused(kind, new.name)

(* One entry is replaced, pointer and view stay. *)
Replaced(kind, i, entry) ==
    /\ tables'[kind] = [tables[kind] EXCEPT ![i] = entry]
    /\ current'[kind] = current[kind]
    /\ prompt'[kind] = prompt[kind]

(* What the pointer and the table become, case by case. *)
LEMMA PointerCases ==
    ASSUME NEW kind, NEW new, Len(tables[kind]) \in Nat
    PROVE  \/ /\ Pointer(kind, new.name) \in 1 .. Len(tables[kind])
              /\ tables[kind][Pointer(kind, new.name)].name = new.name
              /\ WithEntry(kind, new) = tables[kind]
           \/ /\ NoneNamed(kind, new.name) /\ HasRoom(kind)
              /\ Pointer(kind, new.name) = Len(tables[kind]) + 1
              /\ WithEntry(kind, new) = Append(tables[kind], new)
           \/ /\ NoneNamed(kind, new.name) /\ ~ HasRoom(kind)
              /\ Pointer(kind, new.name) = Null
              /\ WithEntry(kind, new) = tables[kind]
  <1>1. CASE Position(kind, new.name) = Null
    <2>1. NoneNamed(kind, new.name)
      BY <1>1, SearchByName DEF NoneNamed, Null
    <2> QED BY <1>1, <2>1 DEF Pointer, WithEntry
  <1>2. CASE Position(kind, new.name) # Null
    <2>1. /\ Position(kind, new.name) \in 1 .. Len(tables[kind])
          /\ tables[kind][Position(kind, new.name)].name = new.name
      BY <1>2, SearchByName
    <2> QED BY <1>2, <2>1 DEF Pointer, WithEntry
  <1> QED BY <1>1, <1>2

(* Entering a view finds the entry, creates it, or is refused. *)
LEMMA Entering ==
    ASSUME NEW kind \in Kinds, NEW new, Arrays, Len(tables[kind]) \in Nat,
           Enter(kind, new) \/ EnterUnchecked(kind, new)
    PROVE  Arrays' /\ OthersKept(kind) /\ Entered(kind, new)
  <1>1. /\ tables' = [tables EXCEPT ![kind] = WithEntry(kind, new)]
        /\ current' = [current EXCEPT ![kind] = Pointer(kind, new.name)]
        /\ \/ prompt' = Announced(kind, new.name)
           \/ Pointer(kind, new.name) = Null /\ prompt' = prompt
    BY DEF Enter, EnterUnchecked
  <1>2. Arrays' /\ OthersKept(kind)
    BY <1>1 DEF Arrays, OthersKept, Announced
  <1>3. /\ tables'[kind] = WithEntry(kind, new)
        /\ current'[kind] = Pointer(kind, new.name)
        /\ \/ prompt'[kind] = new.name
           \/ Pointer(kind, new.name) = Null /\ prompt'[kind] = prompt[kind]
    BY <1>1 DEF Arrays, Announced
  <1>4. Entered(kind, new)
    BY <1>3, PointerCases DEF Entered, Found, Created, Refused, Null
  <1> QED BY <1>2, <1>4

(* Setting a field replaces one entry. *)
LEMMA SettingAt ==
    ASSUME NEW kind \in Kinds, NEW i, NEW field, NEW value, Arrays,
           SetIn(kind, i, field, value)
    PROVE  /\ i \in DOMAIN tables[kind]
           /\ Arrays' /\ OthersKept(kind)
           /\ Replaced(kind, i, [tables[kind][i] EXCEPT ![field] = value])
  BY DEF Arrays, OthersKept, Replaced, SetIn

(* A command that sets one field replaces the entry behind the pointer. *)
LEMMA Setting ==
    ASSUME NEW kind \in Kinds, NEW field, NEW value, Arrays, Set(kind, field, value)
    PROVE  /\ HasEntry(kind)
           /\ Arrays' /\ OthersKept(kind)
           /\ Replaced(kind, current[kind], [Entry(kind) EXCEPT ![field] = value])
  BY SettingAt DEF Set, Entry

(* Adding to a list of the entry finds room there. *)
LEMMA Adding ==
    ASSUME NEW kind \in Kinds, NEW field, NEW element, NEW max, Arrays,
           Add(kind, field, element, max)
    PROVE  /\ HasEntry(kind)
           /\ Len(Entry(kind)[field]) < max
           /\ Arrays' /\ OthersKept(kind)
           /\ Replaced(kind, current[kind],
                 [Entry(kind) EXCEPT ![field] = Append(Entry(kind)[field], element)])
  BY Setting DEF Add

(* An entry put behind the others. *)
LEMMA Appending ==
    ASSUME NEW kind \in Kinds, NEW new, Arrays, AppendEntry(kind, new)
    PROVE  /\ Arrays' /\ OthersKept(kind)
           /\ tables'[kind] = Append(tables[kind], new)
           /\ current'[kind] = current[kind]
           /\ prompt'[kind] = prompt[kind]
  BY DEF Arrays, OthersKept, AppendEntry
=============================================================================
