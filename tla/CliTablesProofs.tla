--------------------------- MODULE CliTablesProofs ---------------------------
(***************************************************************************)
(* What holds of the tables behind the commands, for every capacity, every *)
(* set of names and every number that may be typed: the entries are well   *)
(* formed, no two entries that have a view share a name, and a command     *)
(* changes the entry whose view was announced and no other one.            *)
(*                                                                         *)
(* Each command is shown to take one of the few steps a table knows: a     *)
(* view is entered, the entry behind the pointer is edited, an entry is    *)
(* put behind the others.  The properties are then proved of these steps.  *)
(***************************************************************************)
EXTENDS CliTables, TablesProofs, FiniteSetTheorems

(* The entries a table may hold. *)
Fitting(kind) ==
    {e \in Sized(kind) :
        /\ kind = "queue_profile" =>
              \A j, k \in DOMAIN e.queues :
                  e.queues[j].queue_id = e.queues[k].queue_id => j = k
        /\ kind = "vrrp" =>
              /\ ~e.preempt => e.preempt_delay = 0
              /\ e.auth_type # "none" => e.auth_key # Unset
        /\ kind = "track" =>
              (e.type \notin {"boolean", e.data[1]} => e.data = <<"none">>)}

(* What one command may make of an entry. *)
Successors(kind, old) ==
    {e \in Fitting(kind) :
        /\ e.name = old.name
        /\ kind = "acl" =>
              IsPrefix(old.rules, e.rules) /\ Len(e.rules) <= Len(old.rules) + 1
        /\ kind = "queue_profile" =>
              \A j \in DOMAIN old.queues :
                  /\ j \in DOMAIN e.queues
                  /\ e.queues[j].queue_id = old.queues[j].queue_id
                  /\ e.queues[j].sched_type = old.queues[j].sched_type
                  /\ old.queues[j].wred => e.queues[j].wred}

Typed(kind) ==
    /\ tables[kind] \in Seq(Fitting(kind))
    /\ Len(tables[kind]) <= Capacity[kind]
    /\ current[kind] \in 0 .. Len(tables[kind])

NamesDiffer(kind) ==
    \A i, j \in 1 .. Len(tables[kind]) :
        tables[kind][i].name = tables[kind][j].name => i = j

(* The view the operator was last told to be in is that of the entry the   *)
(* pointer looks at.                                                       *)
ViewIsCurrent(kind) == HasEntry(kind) => prompt[kind] = Entry(kind).name

Viewable(kind) == Typed(kind) /\ NamesDiffer(kind) /\ ViewIsCurrent(kind)

(* The tables with a pointer; the one security policy has no view. *)
Pointed == Viewed \cup {"policy"}

(* The inductive invariant. *)
IInv ==
    /\ Arrays
    /\ \A kind \in Kinds : Typed(kind)
    /\ \A kind \in Pointed : NamesDiffer(kind) /\ ViewIsCurrent(kind)
    /\ \A kind \in Kinds \ Pointed : current[kind] = Null
    /\ DuplicatesPowerless
    /\ DevicesAccountedFor
    /\ links \in [Ids -> {"none", "eth0.N", "vlanN"}]
    /\ addresses \in [Ids -> SUBSET IpAddresses]
    /\ aaa_enabled \in BOOLEAN

-----------------------------------------------------------------------------
(* The steps of a table whose commands have a view. *)
Opens(kind) ==
    \E i \in 1 .. Len(tables[kind]) : \E e \in Successors(kind, tables[kind][i]) :
        /\ tables'[kind] = [tables[kind] EXCEPT ![i] = e]
        /\ current'[kind] = i
        /\ prompt'[kind] = e.name

Creates(kind) == \E e \in Fitting(kind) : Created(kind, e)

OpensNothing(kind) == \E name : Refused(kind, name)

Edits(kind) ==
    /\ HasEntry(kind)
    /\ \E e \in Successors(kind, Entry(kind)) : Replaced(kind, current[kind], e)

(* A traffic policy is applied by its name. *)
Applies(kind) ==
    /\ kind = "traffic_policy"
    /\ \E i \in 1 .. Len(tables[kind]), applied \in SUBSET Directions :
          Replaced(kind, i, [tables[kind][i] EXCEPT !.applied = applied])

ViewStep(kind) ==
    \/ Opens(kind) \/ Creates(kind) \/ OpensNothing(kind)
    \/ Edits(kind) \/ Applies(kind)

(* A sequence with an element put where it was is the same sequence. *)
LEMMA PutBack ==
    ASSUME NEW S, NEW s \in Seq(S), NEW i \in 1 .. Len(s)
    PROVE  [s EXCEPT ![i] = s[i]] = s
  OBVIOUS

(* A command that leaves an entry as it is takes no liberties with it. *)
LEMMA SuccessorOfItself ==
    ASSUME NEW kind, NEW e \in Fitting(kind)
    PROVE  e \in Successors(kind, e)
  <1>1. kind = "acl" => e.rules \in Seq(AclRule)
    BY DEF Fitting, Sized, RecordOf, Acl
  <1>2. kind = "acl" => IsPrefix(e.rules, e.rules) /\ Len(e.rules) <= Len(e.rules) + 1
    BY <1>1, LenProperties DEF IsPrefix
  <1> QED
    BY <1>2 DEF Successors

(* To enter the view of an entry is one of the steps. *)
LEMMA EnteredIsViewStep ==
    ASSUME NEW kind \in Kinds, Typed(kind), NEW new, Entered(kind, new),
           HasRoom(kind) => new \in Fitting(kind)
    PROVE  ViewStep(kind)
  <1>1. CASE Found(kind, new.name)
    <2>1. PICK i \in 1 .. Len(tables[kind]) :
              /\ tables[kind][i].name = new.name
              /\ tables'[kind] = tables[kind]
              /\ current'[kind] = i
              /\ prompt'[kind] = new.name
      BY <1>1 DEF Found
    <2>2. tables[kind][i] \in Successors(kind, tables[kind][i])
      BY SuccessorOfItself, ElementOfSeq DEF Typed
    <2>3. tables'[kind] = [tables[kind] EXCEPT ![i] = tables[kind][i]]
      BY <2>1, PutBack DEF Typed
    <2> QED BY <2>1, <2>2, <2>3 DEF ViewStep, Opens
  <1>2. CASE Created(kind, new)
    BY <1>2 DEF ViewStep, Creates, Created
  <1>3. CASE Refused(kind, new.name)
    BY <1>3 DEF ViewStep, OpensNothing
  <1> QED BY <1>1, <1>2, <1>3 DEF Entered

(* Applying a policy leaves its name and its bindings. *)
LEMMA AppliedSuccessor ==
    ASSUME NEW e \in Fitting("traffic_policy"), NEW applied \in SUBSET Directions
    PROVE  [e EXCEPT !.applied = applied] \in Successors("traffic_policy", e)
  <1> DEFINE f == [e EXCEPT !.applied = applied]
  <1>1. e \in TrafficPolicy /\ e \in Sized("traffic_policy")
    BY DEF Fitting, Sized, RecordOf
  <1>2. f \in TrafficPolicy /\ f.name = e.name /\ f.bindings = e.bindings
    BY <1>1 DEF TrafficPolicy
  <1>3. f \in Sized("traffic_policy")
    BY <1>1, <1>2 DEF Sized, RecordOf
  <1> QED
    BY <1>2, <1>3 DEF Successors, Fitting

(* Replacing an entry by one of its successors keeps a table well formed,  *)
(* and every name in its place.                                            *)
LEMMA ReplacingKeeps ==
    ASSUME NEW kind \in Kinds, Typed(kind), NEW i \in 1 .. Len(tables[kind]),
           NEW e \in Successors(kind, tables[kind][i]),
           tables'[kind] = [tables[kind] EXCEPT ![i] = e]
    PROVE  /\ tables'[kind] \in Seq(Fitting(kind))
           /\ Len(tables'[kind]) = Len(tables[kind])
           /\ \A j \in 1 .. Len(tables[kind]) :
                 /\ tables'[kind][j] = IF j = i THEN e ELSE tables[kind][j]
                 /\ tables'[kind][j].name = tables[kind][j].name
  <1>1. e \in Fitting(kind) /\ e.name = tables[kind][i].name
    BY DEF Successors
  <1>2. tables[kind] \in Seq(Fitting(kind))
    BY DEF Typed
  <1>3. /\ tables'[kind] \in Seq(Fitting(kind))
        /\ Len(tables'[kind]) = Len(tables[kind])
        /\ \A j \in 1 .. Len(tables[kind]) :
              tables'[kind][j] = IF j = i THEN e ELSE tables[kind][j]
    BY <1>1, <1>2, ExceptSeq
  <1> QED
    BY <1>1, <1>3

(* An entry put behind the others is the last one; the others stay in      *)
(* place.                                                                  *)
LEMMA AppendingKeeps ==
    ASSUME NEW kind \in Kinds, Typed(kind), HasRoom(kind), NEW e \in Fitting(kind),
           tables'[kind] = Append(tables[kind], e)
    PROVE  /\ tables'[kind] \in Seq(Fitting(kind))
           /\ Len(tables'[kind]) = Len(tables[kind]) + 1
           /\ Len(tables'[kind]) <= Capacity[kind]
           /\ \A j \in 1 .. Len(tables[kind]) : tables'[kind][j] = tables[kind][j]
           /\ tables'[kind][Len(tables[kind]) + 1] = e
  <1>1. /\ tables'[kind] \in Seq(Fitting(kind))
        /\ Len(tables'[kind]) = Len(tables[kind]) + 1
        /\ \A j \in 1 .. Len(tables[kind]) : tables'[kind][j] = tables[kind][j]
        /\ tables'[kind][Len(tables[kind]) + 1] = e
    BY AppendProperties DEF Typed
  <1>2. Len(tables[kind]) \in Nat /\ Capacity[kind] \in Nat
    BY TablesAssumption, LenProperties DEF Typed
  <1> QED
    BY <1>1, <1>2 DEF HasRoom

(* A step keeps a table well formed, its names apart, and the view at the  *)
(* entry the pointer looks at.                                             *)
LEMMA ViewStepKeeps ==
    ASSUME NEW kind \in Kinds, Viewable(kind), ViewStep(kind)
    PROVE  Viewable(kind)'
  <1> USE DEF Viewable
  <1>0. Len(tables[kind]) \in Nat /\ current[kind] \in 0 .. Len(tables[kind])
    BY LenProperties DEF Typed
  <1>1. CASE Opens(kind)
    <2>1. PICK i \in 1 .. Len(tables[kind]) :
              \E e \in Successors(kind, tables[kind][i]) :
                  /\ tables'[kind] = [tables[kind] EXCEPT ![i] = e]
                  /\ current'[kind] = i
                  /\ prompt'[kind] = e.name
      BY <1>1 DEF Opens
    <2>2. PICK e \in Successors(kind, tables[kind][i]) :
                  /\ tables'[kind] = [tables[kind] EXCEPT ![i] = e]
                  /\ current'[kind] = i
                  /\ prompt'[kind] = e.name
      BY <2>1
    <2>3. /\ tables'[kind] \in Seq(Fitting(kind))
          /\ Len(tables'[kind]) = Len(tables[kind])
          /\ tables'[kind][i] = e
          /\ \A j \in 1 .. Len(tables[kind]) :
                 tables'[kind][j].name = tables[kind][j].name
      <3>1. /\ tables'[kind] \in Seq(Fitting(kind))
            /\ Len(tables'[kind]) = Len(tables[kind])
            /\ \A j \in 1 .. Len(tables[kind]) :
                  /\ tables'[kind][j] = IF j = i THEN e ELSE tables[kind][j]
                  /\ tables'[kind][j].name = tables[kind][j].name
        <4>1. Typed(kind) /\ tables'[kind] = [tables[kind] EXCEPT ![i] = e]
          BY <2>2
        <4> QED BY <4>1, ReplacingKeeps
      <3> QED BY <3>1
    <2> QED
      BY <1>0, <2>2, <2>3 DEF Typed, NamesDiffer, ViewIsCurrent, HasEntry, Entry
  <1>2. CASE Creates(kind)
    <2>1. PICK e \in Fitting(kind) : Created(kind, e)
      BY <1>2 DEF Creates
    <2>2. /\ tables'[kind] \in Seq(Fitting(kind))
          /\ Len(tables'[kind]) = Len(tables[kind]) + 1
          /\ Len(tables'[kind]) <= Capacity[kind]
          /\ \A j \in 1 .. Len(tables[kind]) : tables'[kind][j] = tables[kind][j]
          /\ tables'[kind][Len(tables[kind]) + 1] = e
      BY <2>1, AppendingKeeps DEF Created
    <2>3. Typed(kind)' /\ ViewIsCurrent(kind)'
      <3>1. tables'[kind][current'[kind]].name = prompt'[kind]
        BY <2>1, <2>2 DEF Created
      <3>2. current'[kind] \in 0 .. Len(tables'[kind])
        BY <1>0, <2>1, <2>2 DEF Created
      <3> QED
        BY <2>2, <3>1, <3>2 DEF Typed, ViewIsCurrent, Entry
    <2>4. ASSUME NEW j \in 1 .. Len(tables[kind]) + 1, NEW k \in 1 .. Len(tables[kind]) + 1,
                 tables'[kind][j].name = tables'[kind][k].name
          PROVE  j = k
      BY <1>0, <2>1, <2>2, <2>4 DEF Created, NoneNamed, NamesDiffer
    <2> QED
      BY <2>2, <2>3, <2>4 DEF NamesDiffer
  <1>3. CASE OpensNothing(kind)
    BY <1>0, <1>3
       DEF OpensNothing, Refused, Typed, NamesDiffer, ViewIsCurrent, HasEntry, Null
  <1>4. CASE Edits(kind)
    <2>1. PICK e \in Successors(kind, Entry(kind)) : Replaced(kind, current[kind], e)
      BY <1>4 DEF Edits
    <2>2. current[kind] \in 1 .. Len(tables[kind])
      BY <1>0, <1>4 DEF Edits, HasEntry, Null
    <2>3. /\ tables'[kind] \in Seq(Fitting(kind))
          /\ Len(tables'[kind]) = Len(tables[kind])
          /\ \A j \in 1 .. Len(tables[kind]) :
                 tables'[kind][j].name = tables[kind][j].name
      BY <2>1, <2>2, ReplacingKeeps DEF Replaced, Entry
    <2> QED
      BY <1>0, <2>1, <2>2, <2>3
         DEF Replaced, Typed, NamesDiffer, ViewIsCurrent, HasEntry, Entry
  <1>5. CASE Applies(kind)
    <2>1. PICK i \in 1 .. Len(tables[kind]), applied \in SUBSET Directions :
              Replaced(kind, i, [tables[kind][i] EXCEPT !.applied = applied])
      BY <1>5 DEF Applies
    <2>2. [tables[kind][i] EXCEPT !.applied = applied]
            \in Successors(kind, tables[kind][i])
      BY <1>5, AppliedSuccessor, ElementOfSeq DEF Applies, Typed
    <2>3. /\ tables'[kind] \in Seq(Fitting(kind))
          /\ Len(tables'[kind]) = Len(tables[kind])
          /\ \A j \in 1 .. Len(tables[kind]) :
                 tables'[kind][j].name = tables[kind][j].name
      BY <2>1, <2>2, ReplacingKeeps DEF Replaced
    <2> QED
      BY <1>0, <2>1, <2>3
         DEF Replaced, Typed, NamesDiffer, ViewIsCurrent, HasEntry, Entry, Null
  <1> QED
    BY <1>1, <1>2, <1>3, <1>4, <1>5 DEF ViewStep

-----------------------------------------------------------------------------
(* The abstract content, position by position. *)
Shown(kind, e) == IF kind = "traffic_policy" THEN [e EXCEPT !.applied = {}] ELSE e

ContentOf(kind, s) == {Shown(kind, s[i]) : i \in 1 .. Len(s)}

(* The content of a table, by the positions of its array. *)
LEMMA ContentByPosition ==
    ASSUME NEW kind \in Kinds, Typed(kind), Typed(kind)'
    PROVE  /\ Content(kind) = ContentOf(kind, tables[kind])
           /\ Content(kind)' = ContentOf(kind, tables'[kind])
  <1>1. Range(tables[kind]) = {tables[kind][i] : i \in 1 .. Len(tables[kind])}
    BY RangeEquality DEF Typed
  <1>2. Range(tables'[kind]) = {tables'[kind][i] : i \in 1 .. Len(tables'[kind])}
    BY RangeEquality DEF Typed
  <1>3. Content(kind) = {Shown(kind, e) : e \in Range(tables[kind])}
    BY DEF Content, Shown
  <1>4. Content(kind)' = {Shown(kind, e) : e \in Range(tables'[kind])}
    BY DEF Content, Shown
  <1> QED
    BY <1>1, <1>2, <1>3, <1>4 DEF ContentOf

(* An entry is shown under its name. *)
LEMMA ShownName ==
    ASSUME NEW kind, NEW e \in Fitting(kind)
    PROVE  Shown(kind, e).name = e.name
  <1>1. kind = "traffic_policy" => e \in TrafficPolicy
    BY DEF Fitting, Sized, RecordOf
  <1> QED
    BY <1>1 DEF Shown, TrafficPolicy

(* With their names apart, entries are apart also as they are shown. *)
LEMMA ReplacedContent ==
    ASSUME NEW kind, NEW s \in Seq(Fitting(kind)), NEW i \in 1 .. Len(s), NEW e,
           \A j, k \in 1 .. Len(s) : s[j].name = s[k].name => j = k
    PROVE  ContentOf(kind, [s EXCEPT ![i] = e])
             = (ContentOf(kind, s) \ {Shown(kind, s[i])}) \cup {Shown(kind, e)}
  <1> DEFINE t == [s EXCEPT ![i] = e]
  <1>1. /\ Len(t) = Len(s)
        /\ \A j \in 1 .. Len(s) : t[j] = IF j = i THEN e ELSE s[j]
    OBVIOUS
  <1>2. \A j \in 1 .. Len(s) : Shown(kind, s[j]).name = s[j].name
    BY ShownName, ElementOfSeq
  <1>3. \A j \in 1 .. Len(s) : j # i => Shown(kind, s[j]) # Shown(kind, s[i])
    BY <1>2
  <1> HIDE DEF t
  <1>4. ContentOf(kind, t)
          = {Shown(kind, s[j]) : j \in (1 .. Len(s)) \ {i}} \cup {Shown(kind, e)}
    BY <1>1 DEF ContentOf
  <1>5. ContentOf(kind, s) \ {Shown(kind, s[i])}
          = {Shown(kind, s[j]) : j \in (1 .. Len(s)) \ {i}}
    BY <1>3 DEF ContentOf
  <1> QED
    BY <1>4, <1>5 DEF t

(* A new entry is one more in the content. *)
LEMMA AppendedContent ==
    ASSUME NEW kind, NEW s \in Seq(Fitting(kind)), NEW e \in Fitting(kind)
    PROVE  ContentOf(kind, Append(s, e)) = ContentOf(kind, s) \cup {Shown(kind, e)}
  <1> DEFINE t == Append(s, e)
  <1>1. /\ Len(t) = Len(s) + 1 /\ Len(s) \in Nat
        /\ \A j \in 1 .. Len(s) : t[j] = s[j]
        /\ t[Len(s) + 1] = e
    BY AppendProperties, LenProperties
  <1> HIDE DEF t
  <1>2. 1 .. Len(t) = (1 .. Len(s)) \cup {Len(s) + 1}
    BY <1>1
  <1>3. ContentOf(kind, t) = ContentOf(kind, s) \cup {Shown(kind, e)}
    BY <1>1, <1>2 DEF ContentOf
  <1> QED
    BY <1>3 DEF t

(* There are as many entries as the table is long. *)
LEMMA ContentCounted ==
    ASSUME NEW kind, NEW s \in Seq(Fitting(kind)),
           \A j, k \in 1 .. Len(s) : s[j].name = s[k].name => j = k
    PROVE  Cardinality(ContentOf(kind, s)) = Len(s)
  <1> DEFINE f == [i \in 1 .. Len(s) |-> Shown(kind, s[i])]
  <1>1. \A j \in 1 .. Len(s) : Shown(kind, s[j]).name = s[j].name
    BY ShownName, ElementOfSeq
  <1>2. f \in [1 .. Len(s) -> ContentOf(kind, s)]
    BY DEF ContentOf
  <1>3. \A j, k \in 1 .. Len(s) : f[j] = f[k] => j = k
    BY <1>1
  <1>4. \A c \in ContentOf(kind, s) : \E i \in 1 .. Len(s) : f[i] = c
    BY DEF ContentOf
  <1> HIDE DEF f
  <1>5. f \in Bijection(1 .. Len(s), ContentOf(kind, s))
    BY <1>2, <1>3, <1>4 DEF Bijection, Injection, IsInjective, Surjection
  <1>6. ExistsBijection(1 .. Len(s), ContentOf(kind, s))
    BY <1>5 DEF ExistsBijection
  <1> QED
    BY <1>6, FS_CountingElements, LenProperties

(* The abstract specification counts as this module does. *)
LEMMA SameCardinality ==
    ASSUME NEW kind, NEW S
    PROVE  View(kind)!Cardinality(S) = Cardinality(S)
  BY DEF View!Cardinality, Cardinality

(* A step of a table is a step of ViewedTable, or no step at all. *)
LEMMA ViewStepImplements ==
    ASSUME NEW kind \in Kinds, Viewable(kind), ViewStep(kind)
    PROVE  Implements(kind)
  <1> DEFINE s == tables[kind]
             t == tables'[kind]
  <1>1. /\ Viewable(kind)' /\ Typed(kind) /\ Typed(kind)'
        /\ \A j, k \in 1 .. Len(s) : s[j].name = s[k].name => j = k
        /\ ViewIsCurrent(kind)
    BY ViewStepKeeps DEF Viewable, NamesDiffer
  <1>2. /\ s \in Seq(Fitting(kind)) /\ Len(s) \in Nat
        /\ Content(kind) = ContentOf(kind, s)
        /\ Content(kind)' = ContentOf(kind, t)
        /\ Cardinality(Content(kind)) = Len(s)
        /\ current[kind] \in 0 .. Len(s)
        /\ Len(s) <= Capacity[kind] /\ Capacity[kind] \in Nat
    BY <1>1, ContentByPosition, ContentCounted, LenProperties, TablesAssumption DEF Typed
  <1>3. \A i \in 1 .. Len(s) : Shown(kind, s[i]).name = s[i].name
    BY <1>2, ShownName, ElementOfSeq
  <1> HIDE DEF s, t
  <1>replaced. ASSUME NEW i \in 1 .. Len(s), NEW e
        PROVE  ContentOf(kind, [s EXCEPT ![i] = e])
                 = (ContentOf(kind, s) \ {Shown(kind, s[i])}) \cup {Shown(kind, e)}
    <2>1. /\ s \in Seq(Fitting(kind))
          /\ \A j, k \in 1 .. Len(s) : s[j].name = s[k].name => j = k
      BY <1>1, <1>2
    <2> QED BY ONLY <2>1, ReplacedContent, <1>replaced
  (* One entry is replaced by a successor. *)
  <1>4. ASSUME NEW i \in 1 .. Len(s), NEW e \in Successors(kind, s[i]),
               t = [s EXCEPT ![i] = e]
        PROVE  View(kind)!Change(e.name)
    <2>1. /\ e \in Fitting(kind) /\ e.name = s[i].name
          /\ Shown(kind, e).name = e.name
      BY ShownName DEF Successors
    <2>2. Content(kind)' = (Content(kind) \ {Shown(kind, s[i])}) \cup {Shown(kind, e)}
      <3>1. ContentOf(kind, [s EXCEPT ![i] = e])
              = (ContentOf(kind, s) \ {Shown(kind, s[i])}) \cup {Shown(kind, e)}
        BY <1>replaced
      <3> QED BY <1>2, <1>4, <3>1
    <2>3. Shown(kind, s[i]) \in View(kind)!Named(e.name)
      BY <1>2, <1>3, <2>1 DEF View!Named, ContentOf
    <2>4. Shown(kind, e) \in Content(kind)'
      BY <2>2
    <2> QED
      BY <2>1, <2>2, <2>3, <2>4 DEF View!Change
  <1>5. CASE Opens(kind)
    <2>1. PICK i \in 1 .. Len(s) :
              \E e \in Successors(kind, s[i]) :
                  /\ t = [s EXCEPT ![i] = e]
                  /\ prompt'[kind] = e.name
      BY <1>5 DEF Opens, s, t
    <2>2. PICK e \in Successors(kind, s[i]) :
                  /\ t = [s EXCEPT ![i] = e]
                  /\ prompt'[kind] = e.name
      BY <2>1
    <2>3. View(kind)!Enter
      BY <1>4, <2>2 DEF View!Enter
    <2> QED BY <2>3 DEF Implements, View!Next
  <1>6. CASE Creates(kind)
    <2>1. PICK e \in Fitting(kind) : Created(kind, e)
      BY <1>6 DEF Creates
    <2>2. /\ \A i \in 1 .. Len(s) : s[i].name # e.name
          /\ Len(s) < Capacity[kind]
          /\ t = Append(s, e)
          /\ prompt'[kind] = e.name
      BY <2>1 DEF Created, NoneNamed, HasRoom, s, t
    <2>3. Content(kind)' = Content(kind) \cup {Shown(kind, e)}
      BY <1>2, <2>2, AppendedContent
    <2>4. View(kind)!Named(e.name) = {}
      BY <1>2, <1>3, <2>2 DEF View!Named, ContentOf
    <2>5. Shown(kind, e).name = e.name
      BY ShownName
    <2>6. View(kind)!Create
      <3>1. Shown(kind, e) \in Content(kind)'
        BY <2>3
      <3>2. View(kind)!Named(prompt'[kind]) = {}
        BY <2>2, <2>4
      <3>3. View(kind)!Cardinality(Content(kind)) < Capacity[kind]
        BY <1>2, <2>2, SameCardinality
      <3> QED BY <2>2, <2>3, <2>5, <3>1, <3>2, <3>3 DEF View!Create
    <2> QED BY <2>6 DEF Implements, View!Next
  <1>7. CASE OpensNothing(kind)
    <2>1. PICK name : Refused(kind, name)
      BY <1>7 DEF OpensNothing
    <2>2. /\ \A i \in 1 .. Len(s) : s[i].name # name
          /\ ~ (Len(s) < Capacity[kind])
          /\ tables'[kind] = tables[kind]
          /\ t = s
          /\ prompt'[kind] \in {prompt[kind], name}
      BY <2>1 DEF Refused, NoneNamed, HasRoom, s, t
    <2>3. CASE prompt'[kind] = prompt[kind]
      BY <2>2, <2>3 DEF Implements
    <2>4. CASE prompt'[kind] = name
      <3>1. View(kind)!Named(name) = {}
        BY <1>2, <1>3, <2>2 DEF View!Named, ContentOf
      <3>2. /\ View(kind)!Cardinality(Content(kind)) = Capacity[kind]
            /\ Content(kind)' = Content(kind)
        BY <1>2, <2>2, SameCardinality
      <3>3. View(kind)!OpenEmpty
        BY <2>4, <3>1, <3>2 DEF View!OpenEmpty
      <3> QED BY <3>3 DEF Implements, View!Next
    <2> QED BY <2>2, <2>3, <2>4
  <1>8. CASE Edits(kind)
    <2>1. PICK e \in Successors(kind, Entry(kind)) : Replaced(kind, current[kind], e)
      BY <1>8 DEF Edits
    <2>2. /\ current[kind] \in 1 .. Len(s)
          /\ Entry(kind) = s[current[kind]]
          /\ t = [s EXCEPT ![current[kind]] = e]
          /\ prompt'[kind] = prompt[kind]
      BY <1>2, <1>8, <2>1 DEF Edits, Replaced, HasEntry, Entry, Null, s, t
    <2>3. e.name = prompt[kind]
      BY <1>1, <1>8 DEF Edits, ViewIsCurrent, Successors
    <2>4. View(kind)!Change(prompt[kind])
      BY <1>4, <2>2, <2>3
    <2>5. View(kind)!Edit
      BY <2>2, <2>4 DEF View!Edit
    <2> QED BY <2>5 DEF Implements, View!Next
  <1>9. CASE Applies(kind)
    <2>1. PICK i \in 1 .. Len(s), applied \in SUBSET Directions :
              Replaced(kind, i, [s[i] EXCEPT !.applied = applied])
      BY <1>9 DEF Applies, s
    <2>2. /\ t = [s EXCEPT ![i] = [s[i] EXCEPT !.applied = applied]]
          /\ prompt'[kind] = prompt[kind]
      BY <2>1 DEF Replaced, s, t
    <2>3. s[i] \in TrafficPolicy
      BY <1>2, <1>9, ElementOfSeq DEF Applies, Fitting, Sized, RecordOf
    <2>4. Shown(kind, [s[i] EXCEPT !.applied = applied]) = Shown(kind, s[i])
      BY <1>9, <2>3 DEF Applies, Shown, TrafficPolicy
    <2>5. Shown(kind, s[i]) \in Content(kind)
      BY <1>2 DEF ContentOf
    <2>6. Content(kind)' = Content(kind)
      <3>1. ContentOf(kind, [s EXCEPT ![i] = [s[i] EXCEPT !.applied = applied]])
              = (ContentOf(kind, s) \ {Shown(kind, s[i])})
                  \cup {Shown(kind, [s[i] EXCEPT !.applied = applied])}
        BY <1>replaced
      <3> QED BY <1>2, <2>2, <2>4, <2>5, <3>1
    <2> QED BY <2>2, <2>6 DEF Implements
  <1> QED
    BY <1>5, <1>6, <1>7, <1>8, <1>9 DEF ViewStep

-----------------------------------------------------------------------------
(* What a command does to one table, the others left alone. *)
Touches(kind) == Arrays' /\ OthersKept(kind) /\ ViewStep(kind)

(* What is assumed of the tables by a command that enters or edits. *)
Sound(kind) == kind \in Kinds /\ Arrays /\ Typed(kind)

(* A pointer that is not NULL looks at an entry, and a well-formed one. *)
LEMMA EntryFits ==
    ASSUME NEW kind, Sound(kind), HasEntry(kind)
    PROVE  /\ current[kind] \in 1 .. Len(tables[kind])
           /\ Entry(kind) \in Fitting(kind)
  <1>1. current[kind] \in 1 .. Len(tables[kind])
    BY LenProperties DEF Sound, Typed, HasEntry, Null
  <1> QED
    BY <1>1, ElementOfSeq DEF Sound, Typed, Entry

(* A command that enters a view touches one table. *)
LEMMA EnteringTouches ==
    ASSUME NEW kind, NEW new, Sound(kind),
           Enter(kind, new) \/ EnterUnchecked(kind, new),
           HasRoom(kind) => new \in Fitting(kind)
    PROVE  Touches(kind)
  <1>1. Len(tables[kind]) \in Nat
    BY LenProperties DEF Sound, Typed
  <1>2. Arrays' /\ OthersKept(kind) /\ Entered(kind, new)
    BY <1>1, Entering DEF Sound
  <1> QED
    BY <1>2, EnteredIsViewStep DEF Sound, Touches

(* So does one that edits the entry behind the pointer, *)
LEMMA EditingTouches ==
    ASSUME NEW kind, Sound(kind), HasEntry(kind), NEW e \in Successors(kind, Entry(kind)),
           Arrays', OthersKept(kind), Replaced(kind, current[kind], e)
    PROVE  Touches(kind)
  BY DEF Touches, ViewStep, Edits

(* and one that sets a field of it. *)
LEMMA SettingTouches ==
    ASSUME NEW kind, NEW field, NEW value, Sound(kind), Set(kind, field, value),
           [Entry(kind) EXCEPT ![field] = value] \in Successors(kind, Entry(kind))
    PROVE  Touches(kind)
  <1>1. /\ HasEntry(kind) /\ Arrays' /\ OthersKept(kind)
        /\ Replaced(kind, current[kind], [Entry(kind) EXCEPT ![field] = value])
    BY Setting DEF Sound
  <1> QED
    BY <1>1, EditingTouches

(* A command that replaces the entry as a whole. *)
LEMMA ReplacingTouches ==
    ASSUME NEW kind, NEW e, Sound(kind), SetEntry(kind, e),
           e \in Successors(kind, Entry(kind))
    PROVE  Touches(kind)
  <1>1. HasEntry(kind) /\ Arrays' /\ OthersKept(kind) /\ Replaced(kind, current[kind], e)
    BY DEF Sound, Arrays, OthersKept, Replaced, SetEntry
  <1> QED
    BY <1>1, EditingTouches

(* A successor in the tables that have no rule of their own. *)
LEMMA PlainSuccessors ==
    ASSUME NEW kind, kind \notin {"acl", "queue_profile"}, NEW e, NEW f
    PROVE  f \in Successors(kind, e) <=> f \in Fitting(kind) /\ f.name = e.name
  BY DEF Successors

(* The last element is written again. *)
LEMMA LastReplaced ==
    ASSUME NEW S, NEW s \in Seq(S), NEW x \in S, NEW y \in S
    PROVE  [Append(s, x) EXCEPT ![Len(s) + 1] = y] = Append(s, y)
  <1> DEFINE a == Append(s, x)
             b == Append(s, y)
             n == Len(s) + 1
  <1>1. /\ a \in Seq(S) /\ Len(a) = n
        /\ \A i \in 1 .. Len(s) : a[i] = s[i]
    BY AppendProperties
  <1>2. /\ b \in Seq(S) /\ Len(b) = n /\ b[n] = y
        /\ \A i \in 1 .. Len(s) : b[i] = s[i]
    BY AppendProperties
  <1>3. n \in 1 .. n /\ \A i \in 1 .. n : i = n \/ i \in 1 .. Len(s)
    BY LenProperties
  <1> HIDE DEF a, b, n
  <1>4. /\ [a EXCEPT ![n] = y] \in Seq(S)
        /\ Len([a EXCEPT ![n] = y]) = n
        /\ \A i \in 1 .. n : [a EXCEPT ![n] = y][i] = IF i = n THEN y ELSE a[i]
    BY <1>1, <1>3, ExceptSeq
  <1>5. \A i \in 1 .. n : [a EXCEPT ![n] = y][i] = b[i]
    BY <1>1, <1>2, <1>3, <1>4
  <1>6. [a EXCEPT ![n] = y] = b
    BY <1>2, <1>4, <1>5, SeqEqual
  <1> QED BY <1>6 DEF a, b, n

(* A new element in a list that has room. *)
LEMMA ListGrows ==
    ASSUME NEW S, NEW s \in Seq(S), NEW x \in S, NEW max \in Nat, Len(s) < max
    PROVE  Append(s, x) \in Seq(S) /\ Len(Append(s, x)) <= max
  BY AppendProperties, LenProperties

-----------------------------------------------------------------------------
(* Zones. *)
LEMMA ZoneFits ==
    ASSUME NEW e
    PROVE  e \in Fitting("zone") <=> e \in SecurityZone /\ Len(e.members) <= MaxMembers
  BY DEF Fitting, Sized, RecordOf

(* Every firewall zone command touches the zones only. *)
LEMMA ZoneTouches ==
    ASSUME Sound("zone"), ZoneNext
    PROVE  Touches("zone")
  <1>1. ASSUME NEW name \in ZoneNames, cmd_firewall_zone(name)
        PROVE  Touches("zone")
    <2>1. NewZone(name) \in SecurityZone /\ NewZone(name).members = <<>>
      BY DEF NewZone, SecurityZone
    <2>2. NewZone(name) \in Fitting("zone")
      BY <2>1, ZoneFits, ZoneAssumption
    <2> QED BY <1>1, <2>2, EnteringTouches DEF cmd_firewall_zone
  <1>2. ASSUME HasEntry("zone")
        PROVE  Entry("zone") \in SecurityZone /\ Entry("zone") \in Fitting("zone")
    BY <1>2, EntryFits, ZoneFits
  <1>3. ASSUME NEW n \in ZonePriorities, cmd_zone_priority(n)
        PROVE  Touches("zone")
    <2> DEFINE e == Entry("zone")
               f == [e EXCEPT !["priority"] = Uint8(n)]
    <2>1. Uint8(n) \in 0 .. 100
      BY <1>3, ZoneAssumption DEF cmd_zone_priority, Uint8
    <2>2. e \in SecurityZone /\ e \in Fitting("zone")
      BY <1>2, <1>3 DEF cmd_zone_priority, Set
    <2>3. f \in SecurityZone /\ f.name = e.name /\ f.members = e.members
      BY <2>1, <2>2 DEF SecurityZone
    <2>4. f \in Successors("zone", e)
      BY <2>2, <2>3, ZoneFits, PlainSuccessors
    <2> QED BY <1>3, <2>4, SettingTouches DEF cmd_zone_priority
  <1>4. ASSUME NEW interface \in Interfaces, cmd_zone_add_interface(interface)
        PROVE  Touches("zone")
    <2> DEFINE e == Entry("zone")
               f == [e EXCEPT !["members"] = Append(e.members, interface)]
    <2>1. /\ Set("zone", "members", Append(e.members, interface))
          /\ Len(e.members) < MaxMembers
          /\ HasEntry("zone")
      BY <1>4 DEF cmd_zone_add_interface, Add
    <2>2. e \in SecurityZone /\ e \in Fitting("zone") /\ e.members \in Seq(Interfaces)
      BY <1>2, <2>1 DEF SecurityZone
    <2>3. /\ Append(e.members, interface) \in Seq(Interfaces)
          /\ Len(Append(e.members, interface)) <= MaxMembers
      BY <2>1, <2>2, ListGrows, ZoneAssumption
    <2>4. /\ f \in SecurityZone /\ f.name = e.name
          /\ f.members = Append(e.members, interface)
      BY <2>2, <2>3 DEF SecurityZone
    <2>5. f \in Successors("zone", e)
      BY <2>2, <2>3, <2>4, ZoneFits, PlainSuccessors
    <2> QED BY <2>1, <2>5, SettingTouches
  <1> QED
    BY <1>1, <1>3, <1>4 DEF ZoneNext

-----------------------------------------------------------------------------
(* The security policy and its rules. *)
LEMMA PolicyTouches ==
    ASSUME Sound("policy"), cmd_security_policy
    PROVE  Touches("policy")
  <1>1. [name |-> "default"] \in Fitting("policy")
    BY DEF Fitting, Sized, RecordOf
  <1> QED
    BY <1>1, EnteringTouches DEF cmd_security_policy

(* The rules of the security policy. *)
LEMMA RuleFits ==
    ASSUME NEW e
    PROVE  e \in Fitting("rule") <=> e \in SecurityRule
  BY DEF Fitting, Sized, RecordOf

(* Every command on a rule touches the rules only. *)
LEMMA RuleTouches ==
    ASSUME Sound("rule"),
           \/ \E name \in RuleNames : cmd_security_rule(name)
           \/ \E field \in RuleFields, text \in RuleTexts : cmd_rule_match(field, text)
           \/ \E action \in RuleActions : cmd_rule_action(action)
    PROVE  Touches("rule")
  <1>1. ASSUME NEW name \in RuleNames, cmd_security_rule(name)
        PROVE  Touches("rule")
    <2>1. ASSUME HasRoom("rule")
          PROVE  Len(tables["rule"]) + 1 \in 1 .. Capacity["rule"]
      <3>1. Len(tables["rule"]) \in Nat /\ Capacity["rule"] \in Nat
        BY TablesAssumption, LenProperties DEF Sound, Typed
      <3> QED BY <2>1, <3>1 DEF HasRoom
    <2>2. HasRoom("rule") => NewRule(name) \in Fitting("rule")
      BY <2>1, RuleFits DEF NewRule, SecurityRule, RuleActions
    <2>3. NewRule(name).name = name
      BY DEF NewRule
    <2> QED BY <1>1, <2>2, <2>3, EnteringTouches DEF cmd_security_rule
  <1>2. ASSUME NEW field \in RuleFields, NEW text \in RuleTexts,
               cmd_rule_match(field, text)
        PROVE  Touches("rule")
    <2> DEFINE e == Entry("rule")
               m == [e.match EXCEPT ![field] = text]
               f == [e EXCEPT !["match"] = m]
    <2>1. e \in SecurityRule /\ e \in Fitting("rule")
      BY <1>2, EntryFits, RuleFits DEF cmd_rule_match
    <2>2. e.match \in [RuleFields -> RuleTexts \cup {Unset}]
      BY <2>1 DEF SecurityRule
    <2>3. m \in [RuleFields -> RuleTexts \cup {Unset}]
      BY <2>2
    <2>4. f \in SecurityRule /\ f.name = e.name
      <3> HIDE DEF m
      <3> QED BY <2>1, <2>3 DEF SecurityRule
    <2>5. f \in Successors("rule", e)
      BY <2>4, RuleFits, PlainSuccessors
    <2> QED BY <1>2, <2>5, SettingTouches DEF cmd_rule_match
  <1>3. ASSUME NEW action \in RuleActions, cmd_rule_action(action)
        PROVE  Touches("rule")
    <2> DEFINE e == Entry("rule")
               f == [e EXCEPT !["action"] = action]
    <2>1. e \in SecurityRule /\ e \in Fitting("rule")
      BY <1>3, EntryFits, RuleFits DEF cmd_rule_action, Set
    <2>2. f \in SecurityRule /\ f.name = e.name
      BY <2>1 DEF SecurityRule
    <2>3. f \in Successors("rule", e)
      BY <2>2, RuleFits, PlainSuccessors
    <2> QED BY <1>3, <2>3, SettingTouches DEF cmd_rule_action
  <1> QED
    BY <1>1, <1>2, <1>3

-----------------------------------------------------------------------------
(* Access control lists. *)
LEMMA AclFits ==
    ASSUME NEW e
    PROVE  e \in Fitting("acl") <=> e \in Acl /\ Len(e.rules) <= MaxAclRules
  BY DEF Fitting, Sized, RecordOf

(* The slot that is taken and given back leaves the rules as they were. *)
LEMMA TakenAndGivenBack ==
    ASSUME NEW S, NEW s \in Seq(S), NEW x \in S
    PROVE  /\ Front(Append(s, x)) = s
           /\ IsPrefix(s, Append(s, x))
           /\ IsPrefix(s, s)
           /\ Len(Append(s, x)) = Len(s) + 1
           /\ Len(s) \in Nat
  <1>1. Len(s) \in Nat
    BY LenProperties
  <1>2. /\ Append(s, x) \in Seq(S) /\ Len(Append(s, x)) = Len(s) + 1
        /\ \A i \in 1 .. Len(s) : Append(s, x)[i] = s[i]
    BY AppendProperties
  <1>3. SubSeq(Append(s, x), 1, Len(s)) = s
    <2> DEFINE t == Append(s, x)
               u == SubSeq(t, 1, Len(s))
    <2>1. \A i \in 1 .. Len(s) : t[i] \in S
      BY <1>2, ElementOfSeq
    <2> HIDE DEF t
    <2>2. /\ u \in Seq(S)
          /\ Len(u) = Len(s)
          /\ \A i \in 1 .. Len(s) : u[i] = t[i]
      <3>1. /\ SubSeq(t, 1, Len(s)) \in Seq(S)
            /\ Len(SubSeq(t, 1, Len(s)))
                 = IF 1 <= Len(s) THEN Len(s) - 1 + 1 ELSE 0
            /\ \A i \in 1 .. Len(s) - 1 + 1 : SubSeq(t, 1, Len(s))[i] = t[1 + i - 1]
        BY <1>1, <2>1, SubSeqProperties
      <3> QED BY <1>1, <3>1
    <2> HIDE DEF u
    <2>3. u = s
      BY <1>2, <2>2, SeqEqual DEF t
    <2> QED BY <2>3 DEF t, u
  <1>4. SubSeq(s, 1, Len(s)) = s
    BY SubSeqFull
  <1> QED
    BY <1>1, <1>2, <1>3, <1>4 DEF Front, IsPrefix

(* Every ACL command touches the access lists only; a refused rule leaves  *)
(* the list as it was.                                                     *)
LEMMA AclTouches ==
    ASSUME Sound("acl"), AclNext
    PROVE  Touches("acl")
  <1>1. ASSUME NEW n \in AclNumbers, cmd_acl(n)
        PROVE  Touches("acl")
    <2>1. n \in 2000 .. 3999 /\ AclType(n) \in {"basic", "advanced"}
      BY <1>1, AclAssumption DEF cmd_acl, AclType
    <2>2. NewAcl(n) \in Acl /\ NewAcl(n).rules = <<>>
      BY <2>1 DEF NewAcl, Acl
    <2>3. NewAcl(n) \in Fitting("acl")
      BY <2>2, AclFits, AclAssumption
    <2> QED BY <1>1, <2>3, EnteringTouches DEF cmd_acl
  <1>2. ASSUME NEW id \in RuleIds, NEW keyword \in {"permit", "deny", "other"},
               NEW text \in AclTexts, cmd_acl_rule(id, keyword, text)
        PROVE  Touches("acl")
    <2> DEFINE e == Entry("acl")
               new == NewAclRule(id, keyword, text)
               taken == Append(e.rules, new)
               rules == IF keyword \in {"permit", "deny"} THEN taken ELSE Front(taken)
               f == [e EXCEPT !["rules"] = rules]
    <2>1. /\ HasEntry("acl")
          /\ Len(e.rules) < MaxAclRules
          /\ Set("acl", "rules", rules)
      BY <1>2 DEF cmd_acl_rule, AclRules
    <2>2. e \in Acl /\ e \in Fitting("acl")
      BY <2>1, EntryFits, AclFits
    <2>3. e.rules \in Seq(AclRule) /\ Len(e.rules) \in Nat
      BY <2>2, LenProperties DEF Acl
    <2>4. new \in AclRule
      <3>1. RuleId(id) \in Nat \ {0}
        BY <2>3, AclAssumption DEF RuleId
      <3> QED BY <3>1 DEF NewAclRule, AclRule
    <2> HIDE DEF new
    <2>5. /\ taken \in Seq(AclRule) /\ Front(taken) = e.rules
          /\ IsPrefix(e.rules, taken) /\ IsPrefix(e.rules, e.rules)
          /\ Len(taken) = Len(e.rules) + 1
      BY <2>3, <2>4, TakenAndGivenBack, AppendProperties
    <2> HIDE DEF taken
    <2>6. /\ rules \in Seq(AclRule)
          /\ IsPrefix(e.rules, rules)
          /\ Len(rules) <= Len(e.rules) + 1 /\ Len(rules) <= MaxAclRules
      BY <2>1, <2>3, <2>5, AclAssumption
    <2> HIDE DEF rules
    <2>7. f \in Acl /\ f.name = e.name /\ f.rules = rules
      <3>1. /\ e.name \in 2000 .. 3999 /\ e.type \in {"basic", "advanced"}
            /\ e = [name |-> e.name, type |-> e.type, rules |-> e.rules]
        BY <2>2 DEF Acl
      <3>2. f = [name |-> e.name, type |-> e.type, rules |-> rules]
        BY <3>1
      <3>3. rules \in Seq(AclRule)
        BY <2>6
      <3>4. [name |-> e.name, type |-> e.type, rules |-> rules] \in Acl
        BY <3>1, <3>3 DEF Acl
      <3> QED BY <3>2, <3>4
    <2>8. f \in Successors("acl", e)
      BY <2>6, <2>7, AclFits DEF Successors
    <2> QED BY <2>1, <2>8, SettingTouches
  <1> QED
    BY <1>1, <1>2 DEF AclNext

-----------------------------------------------------------------------------
(* The tables without a pointer only stay well formed. *)
Keeps(kind) ==
    /\ Arrays' /\ OthersKept(kind)
    /\ Typed(kind)' /\ current'[kind] = current[kind]

(* To add an entry unseen keeps the table well formed, *)
LEMMA AppendingIsTyped ==
    ASSUME NEW kind, Sound(kind), HasRoom(kind), NEW e \in Fitting(kind),
           AppendEntry(kind, e)
    PROVE  Keeps(kind) /\ tables'[kind] = Append(tables[kind], e)
  <1>1. /\ Arrays' /\ OthersKept(kind)
        /\ tables'[kind] = Append(tables[kind], e)
        /\ current'[kind] = current[kind]
    BY Appending DEF Sound
  <1>2. /\ tables'[kind] \in Seq(Fitting(kind))
        /\ Len(tables'[kind]) = Len(tables[kind]) + 1
        /\ Len(tables'[kind]) <= Capacity[kind]
    BY <1>1, AppendingKeeps DEF Sound
  <1>3. current[kind] \in 0 .. Len(tables[kind]) /\ Len(tables[kind]) \in Nat
    BY LenProperties DEF Sound, Typed
  <1>4. current'[kind] \in 0 .. Len(tables'[kind])
    BY <1>1, <1>2, <1>3
  <1> QED
    BY <1>1, <1>2, <1>4 DEF Keeps, Typed

(* and so does to set a field of an entry. *)
LEMMA SettingIsTyped ==
    ASSUME NEW kind, NEW i, NEW field, NEW value, Sound(kind),
           SetIn(kind, i, field, value),
           [tables[kind][i] EXCEPT ![field] = value] \in Successors(kind, tables[kind][i])
    PROVE  /\ Keeps(kind)
           /\ i \in 1 .. Len(tables[kind])
           /\ Len(tables'[kind]) = Len(tables[kind])
           /\ \A j \in 1 .. Len(tables[kind]) :
                 tables'[kind][j] = IF j = i THEN [tables[kind][i] EXCEPT ![field] = value]
                                    ELSE tables[kind][j]
  <1> DEFINE e == [tables[kind][i] EXCEPT ![field] = value]
  <1>1. /\ i \in DOMAIN tables[kind] /\ Arrays' /\ OthersKept(kind)
        /\ Replaced(kind, i, e)
    BY SettingAt DEF Sound
  <1>2. i \in 1 .. Len(tables[kind])
    BY <1>1, LenProperties DEF Sound, Typed
  <1>3. /\ e \in Successors(kind, tables[kind][i])
        /\ tables'[kind] = [tables[kind] EXCEPT ![i] = e]
        /\ current'[kind] = current[kind]
        /\ Typed(kind) /\ kind \in Kinds
    BY <1>1 DEF Replaced, Sound
  <1> HIDE DEF e
  <1>4. /\ tables'[kind] \in Seq(Fitting(kind))
        /\ Len(tables'[kind]) = Len(tables[kind])
        /\ \A j \in 1 .. Len(tables[kind]) :
              tables'[kind][j] = IF j = i THEN e ELSE tables[kind][j]
    <2>1. /\ kind \in Kinds /\ Typed(kind)
          /\ tables'[kind] = [tables[kind] EXCEPT ![i] = e]
      BY <1>3
    <2>2. i \in 1 .. Len(tables[kind]) /\ e \in Successors(kind, tables[kind][i])
      BY <1>2, <1>3
    <2> QED BY ONLY <2>1, <2>2, ReplacingKeeps
  <1>5. Typed(kind)'
    BY <1>3, <1>4 DEF Typed
  <1> QED
    BY <1>1, <1>2, <1>3, <1>4, <1>5 DEF Keeps, e

(* Address translation. *)
LEMMA NatKeeps ==
    ASSUME Sound("nat_outbound"), Sound("nat_server"), NatNext
    PROVE  Keeps("nat_outbound") \/ Keeps("nat_server")
  <1>1. ASSUME NEW n \in AclNumbers, cmd_nat_outbound(n)
        PROVE  Keeps("nat_outbound")
    <2>1. [name |-> n, enabled |-> TRUE] \in Fitting("nat_outbound")
      BY AclAssumption DEF Fitting, Sized, RecordOf, NatOutbound
    <2> QED BY <1>1, <2>1, AppendingIsTyped DEF cmd_nat_outbound, Kept
  <1>2. ASSUME NEW text \in AclTexts, NEW port \in AclNumbers, cmd_nat_server(text, port)
        PROVE  Keeps("nat_server")
    <2>1. port \in Int
      BY AclAssumption
    <2>2. [name |-> text, port |-> Uint16(port)] \in NatServer
      BY <2>1 DEF NatServer, Uint16
    <2>3. [name |-> text, port |-> Uint16(port)] \in Fitting("nat_server")
      BY <2>2 DEF Fitting, Sized, RecordOf
    <2> QED BY <1>2, <2>3, AppendingIsTyped DEF cmd_nat_server, Kept
  <1> QED
    BY <1>1, <1>2 DEF NatNext

-----------------------------------------------------------------------------
(* Classifiers. *)
LEMMA ClassifierFits ==
    ASSUME NEW e
    PROVE  e \in Fitting("classifier")
             <=> e \in Classifier /\ Len(e.conditions) <= MaxConditions
  BY DEF Fitting, Sized, RecordOf

(* Every classifier command touches the classifiers only. *)
LEMMA ClassifierTouches ==
    ASSUME Sound("classifier"), ClassifierNext
    PROVE  Touches("classifier")
  <1>1. ASSUME NEW name \in QosNames, cmd_traffic_classifier(name)
        PROVE  Touches("classifier")
    <2>1. NewClassifier(name) \in Classifier /\ NewClassifier(name).conditions = <<>>
      BY DEF NewClassifier, Classifier
    <2>2. NewClassifier(name) \in Fitting("classifier")
      BY <2>1, ClassifierFits, QosAssumption
    <2> QED BY <1>1, <2>2, EnteringTouches DEF cmd_traffic_classifier
  <1>2. ASSUME NEW condition, cmd_if_match(condition)
        PROVE  Touches("classifier")
    <2> DEFINE e == Entry("classifier")
               conditions == Append(e.conditions, condition)
               f == [e EXCEPT !["conditions"] = conditions]
    <2>1. /\ HasEntry("classifier") /\ condition \in Condition
          /\ Len(e.conditions) < MaxConditions
          /\ Set("classifier", "conditions", conditions)
      BY <1>2 DEF cmd_if_match, Add
    <2>2. e \in Classifier /\ e.conditions \in Seq(Condition)
      BY <2>1, EntryFits, ClassifierFits DEF Classifier
    <2>3. conditions \in Seq(Condition) /\ Len(conditions) <= MaxConditions
      BY <2>1, <2>2, ListGrows, QosAssumption
    <2> HIDE DEF conditions
    <2>4. f \in Classifier /\ f.name = e.name /\ f.conditions = conditions
      BY <2>2, <2>3 DEF Classifier
    <2>5. f \in Successors("classifier", e)
      BY <2>3, <2>4, ClassifierFits, PlainSuccessors
    <2> QED BY <2>1, <2>5, SettingTouches
  <1> QED
    BY <1>1, <1>2 DEF ClassifierNext

(* Behaviors. *)
LEMMA BehaviorFits ==
    ASSUME NEW e
    PROVE  e \in Fitting("behavior") <=> e \in Behavior /\ Len(e.actions) <= MaxActions
  BY DEF Fitting, Sized, RecordOf

(* Every behavior command touches the behaviors only. *)
LEMMA BehaviorTouches ==
    ASSUME Sound("behavior"), BehaviorNext
    PROVE  Touches("behavior")
  <1>1. ASSUME NEW name \in QosNames, cmd_traffic_behavior(name)
        PROVE  Touches("behavior")
    <2>1. NewBehavior(name) \in Behavior /\ NewBehavior(name).actions = <<>>
      BY DEF NewBehavior, Behavior
    <2>2. NewBehavior(name) \in Fitting("behavior")
      BY <2>1, BehaviorFits, QosAssumption
    <2> QED BY <1>1, <2>2, EnteringTouches DEF cmd_traffic_behavior
  <1>2. ASSUME NEW action \in Action, Add("behavior", "actions", action, MaxActions)
        PROVE  Touches("behavior")
    <2> DEFINE e == Entry("behavior")
               actions == Append(e.actions, action)
               f == [e EXCEPT !["actions"] = actions]
    <2>1. /\ HasEntry("behavior")
          /\ Len(e.actions) < MaxActions
          /\ Set("behavior", "actions", actions)
      BY <1>2 DEF Add
    <2>2. e \in Behavior /\ e.actions \in Seq(Action)
      BY <2>1, EntryFits, BehaviorFits DEF Behavior
    <2>3. actions \in Seq(Action) /\ Len(actions) <= MaxActions
      BY <2>1, <2>2, ListGrows, QosAssumption
    <2> HIDE DEF actions
    <2>4. f \in Behavior /\ f.name = e.name /\ f.actions = actions
      BY <2>2, <2>3 DEF Behavior
    <2>5. f \in Successors("behavior", e)
      BY <2>3, <2>4, BehaviorFits, PlainSuccessors
    <2> QED BY <2>1, <2>5, SettingTouches
  <1>3. ASSUME NEW n \in QosNumbers, cmd_remark_dscp(n)
        PROVE  Touches("behavior")
    <2>1. Uint8(n) \in 0 .. 63
      <3>1. Uint8(n) <= 63
        BY <1>3 DEF cmd_remark_dscp
      <3> QED BY <3>1, QosAssumption DEF Uint8
    <2>2. <<"remark_dscp", Uint8(n)>> \in Action
      BY <2>1 DEF Action
    <2> QED BY <1>2, <1>3, <2>2 DEF cmd_remark_dscp
  <1>4. ASSUME NEW n \in QosNumbers, cmd_priority(n)
        PROVE  Touches("behavior")
    <2>1. Uint8(n) \in 0 .. 7
      <3>1. Uint8(n) <= 7
        BY <1>4 DEF cmd_priority
      <3> QED BY <3>1, QosAssumption DEF Uint8
    <2>2. <<"priority", Uint8(n)>> \in Action
      BY <2>1 DEF Action
    <2> QED BY <1>2, <1>4, <2>2 DEF cmd_priority
  <1>5. ASSUME NEW n \in QosNumbers, NEW cbs \in Bursts(n), cmd_car(n, cbs)
        PROVE  Touches("behavior")
    <2>1. \A m \in Int : Uint32(m) \in 0 .. Word - 1
      BY QosAssumption DEF Uint32
    <2>2. Uint32(n) \in 0 .. Word - 1 /\ Uint32(n) * 125 \in Int
      BY <2>1, QosAssumption
    <2>3. cbs \in 0 .. Word - 1
      BY <2>1, <2>2, QosAssumption DEF Bursts
    <2>4. <<"car", Uint32(n), cbs>> \in Action
      BY <2>2, <2>3 DEF Action
    <2> QED BY <1>2, <1>5, <2>4 DEF cmd_car
  <1>6. ASSUME cmd_deny
        PROVE  Touches("behavior")
    <2>1. <<"deny">> \in Action
      BY DEF Action
    <2> QED BY <1>2, <1>6, <2>1 DEF cmd_deny
  <1> QED
    BY <1>1, <1>3, <1>4, <1>5, <1>6 DEF BehaviorNext

-----------------------------------------------------------------------------
(* Traffic policies. *)
LEMMA TrafficPolicyFits ==
    ASSUME NEW e
    PROVE  e \in Fitting("traffic_policy")
             <=> e \in TrafficPolicy /\ Len(e.bindings) <= MaxBindings
  BY DEF Fitting, Sized, RecordOf

(* Every traffic policy command touches the traffic policies only. *)
LEMMA TrafficPolicyTouches ==
    ASSUME Sound("traffic_policy"), TrafficPolicyNext
    PROVE  Touches("traffic_policy")
  <1>1. ASSUME NEW name \in QosNames, cmd_traffic_policy(name)
        PROVE  Touches("traffic_policy")
    <2>1. NewTrafficPolicy(name) \in TrafficPolicy /\ NewTrafficPolicy(name).bindings = <<>>
      BY DEF NewTrafficPolicy, TrafficPolicy
    <2>2. NewTrafficPolicy(name) \in Fitting("traffic_policy")
      BY <2>1, TrafficPolicyFits, QosAssumption
    <2> QED BY <1>1, <2>2, EnteringTouches DEF cmd_traffic_policy
  <1>2. ASSUME NEW classifier \in QosNames, NEW behavior \in QosNames,
               cmd_classifier_behavior(classifier, behavior)
        PROVE  Touches("traffic_policy")
    <2> DEFINE e == Entry("traffic_policy")
               bindings == Append(e.bindings, <<classifier, behavior>>)
               f == [e EXCEPT !["bindings"] = bindings]
    <2>1. /\ HasEntry("traffic_policy")
          /\ Len(e.bindings) < MaxBindings
          /\ Set("traffic_policy", "bindings", bindings)
      BY <1>2 DEF cmd_classifier_behavior, Add
    <2>2. e \in TrafficPolicy /\ e.bindings \in Seq(QosNames \X QosNames)
      BY <2>1, EntryFits, TrafficPolicyFits DEF TrafficPolicy
    <2>3. bindings \in Seq(QosNames \X QosNames) /\ Len(bindings) <= MaxBindings
      BY <2>1, <2>2, ListGrows, QosAssumption
    <2> HIDE DEF bindings
    <2>4. f \in TrafficPolicy /\ f.name = e.name /\ f.bindings = bindings
      BY <2>2, <2>3 DEF TrafficPolicy
    <2>5. f \in Successors("traffic_policy", e)
      BY <2>3, <2>4, TrafficPolicyFits, PlainSuccessors
    <2> QED BY <2>1, <2>5, SettingTouches
  <1>3. ASSUME NEW name \in QosNames, NEW direction \in Directions,
               cmd_apply_traffic_policy(name, direction)
        PROVE  Touches("traffic_policy")
    <2> DEFINE i == Position("traffic_policy", name)
    <2>1. /\ i \in DOMAIN tables["traffic_policy"]
          /\ Arrays' /\ OthersKept("traffic_policy")
          /\ Replaced("traffic_policy", i,
                [tables["traffic_policy"][i] EXCEPT !["applied"] = {direction}])
      BY <1>3, SettingAt DEF cmd_apply_traffic_policy, Sound
    <2>2. i \in 1 .. Len(tables["traffic_policy"])
      BY <2>1, LenProperties DEF Sound, Typed
    <2> HIDE DEF i
    <2>3. Applies("traffic_policy")
      BY <2>1, <2>2 DEF Applies
    <2> QED BY <2>1, <2>3 DEF Touches, ViewStep
  <1> QED
    BY <1>1, <1>2, <1>3 DEF TrafficPolicyNext

-----------------------------------------------------------------------------
(* Queue profiles. *)
NoTwoQueues(queues) ==
    \A j, k \in 1 .. Len(queues) : queues[j].queue_id = queues[k].queue_id => j = k

QueuesStay(old, new) ==
    \A j \in 1 .. Len(old) :
        /\ new[j].queue_id = old[j].queue_id
        /\ new[j].sched_type = old[j].sched_type
        /\ old[j].wred => new[j].wred

(* Queue profiles whose queues differ in number. *)
LEMMA ProfileFits ==
    ASSUME NEW e
    PROVE  e \in Fitting("queue_profile")
             <=> /\ e \in QueueProfile
                 /\ Len(e.queues) <= LastQueue + 1
                 /\ NoTwoQueues(e.queues)
  <1>1. e \in QueueProfile => e.queues \in Seq(Queue)
    BY DEF QueueProfile
  <1>2. e \in QueueProfile => DOMAIN e.queues = 1 .. Len(e.queues)
    BY <1>1, LenProperties
  <1>3. e \in Fitting("queue_profile")
          <=> /\ e \in QueueProfile
              /\ Len(e.queues) <= LastQueue + 1
              /\ \A j, k \in DOMAIN e.queues :
                    e.queues[j].queue_id = e.queues[k].queue_id => j = k
    BY DEF Fitting, Sized, RecordOf
  <1> QED
    BY <1>2, <1>3 DEF NoTwoQueues

(* A profile whose queues only grow, or lose nothing, succeeds itself. *)
LEMMA ProfileSucceeds ==
    ASSUME NEW e \in Fitting("queue_profile"), NEW queues \in Seq(Queue),
           Len(e.queues) <= Len(queues), Len(queues) <= LastQueue + 1,
           NoTwoQueues(queues), QueuesStay(e.queues, queues)
    PROVE  [e EXCEPT !["queues"] = queues] \in Successors("queue_profile", e)
  <1> DEFINE f == [e EXCEPT !["queues"] = queues]
  <1>1. e \in QueueProfile
    BY ProfileFits
  <1>2. f \in QueueProfile /\ f.name = e.name /\ f.queues = queues
    BY <1>1 DEF QueueProfile
  <1>3. f \in Fitting("queue_profile")
    BY <1>2, ProfileFits
  <1>4. /\ DOMAIN e.queues = 1 .. Len(e.queues) /\ Len(e.queues) \in Nat
        /\ DOMAIN queues = 1 .. Len(queues) /\ Len(queues) \in Nat
    BY <1>1, LenProperties DEF QueueProfile
  <1>5. \A j \in DOMAIN e.queues :
            /\ j \in DOMAIN f.queues
            /\ f.queues[j].queue_id = e.queues[j].queue_id
            /\ f.queues[j].sched_type = e.queues[j].sched_type
            /\ e.queues[j].wred => f.queues[j].wred
    BY <1>2, <1>4 DEF QueuesStay
  <1> HIDE DEF f
  <1>6. f \in Successors("queue_profile", e)
    BY <1>2, <1>3, <1>5 DEF Successors
  <1> QED BY <1>6 DEF f

(* The search for a queue ends at one of that number, or nowhere. *)
LEMMA SearchByQueue ==
    ASSUME NEW id, Len(Queues) \in Nat
    PROVE  \/ /\ QueuePosition(id) = Null
              /\ \A j \in 1 .. Len(Queues) : Queues[j].queue_id # id
           \/ /\ QueuePosition(id) \in 1 .. Len(Queues)
              /\ Queues[QueuePosition(id)].queue_id = id
  <1> DEFINE I == {j \in 1 .. Len(Queues) : Queues[j].queue_id = id}
  <1>1. QueuePosition(id) = IF I # {} THEN Min(I) ELSE Null
    BY DEF QueuePosition, SelectInSeq, Null
  <1>2. CASE I = {}
    BY <1>1, <1>2 DEF Null
  <1>3. CASE I # {}
    <2>1. Min(I) \in I
      <3>1. I \in SUBSET Nat
        OBVIOUS
      <3> HIDE DEF I
      <3> QED BY <1>3, <3>1, LeastIndex
    <2>2. QueuePosition(id) = Min(I)
      BY <1>1, <1>3
    <2> HIDE DEF I
    <2> QED
      BY <2>1, <2>2 DEF I
  <1> QED
    BY <1>2, <1>3

(* The entry of a profile after one of its queues was written. *)
LEMMA QueueWritten ==
    ASSUME NEW s \in Seq(Queue), NEW i \in 1 .. Len(s), NEW q \in Queue,
           NoTwoQueues(s), Len(s) <= LastQueue + 1,
           q.queue_id = s[i].queue_id, q.sched_type = s[i].sched_type,
           s[i].wred => q.wred
    PROVE  LET t == [s EXCEPT ![i] = q]
           IN /\ t \in Seq(Queue) /\ Len(t) = Len(s)
              /\ NoTwoQueues(t) /\ QueuesStay(s, t)
  <1> DEFINE t == [s EXCEPT ![i] = q]
  <1>1. /\ t \in Seq(Queue) /\ Len(t) = Len(s)
        /\ \A j \in 1 .. Len(s) : t[j] = IF j = i THEN q ELSE s[j]
    BY ExceptSeq
  <1> HIDE DEF t
  <1>2. NoTwoQueues(t)
    BY <1>1 DEF NoTwoQueues
  <1>3. QueuesStay(s, t)
    BY <1>1 DEF QueuesStay
  <1> QED BY <1>1, <1>2, <1>3 DEF t

(* A queue of a number not seen yet, set up and put behind the others. *)
LEMMA QueueAdded ==
    ASSUME NEW s \in Seq(Queue), NEW q \in Queue, NoTwoQueues(s),
           \A j \in 1 .. Len(s) : s[j].queue_id # q.queue_id
    PROVE  LET t == Append(s, q)
           IN /\ t \in Seq(Queue) /\ Len(t) = Len(s) + 1
              /\ t[Len(s) + 1] = q
              /\ NoTwoQueues(t) /\ QueuesStay(s, t)
  <1> DEFINE t == Append(s, q)
  <1>1. /\ t \in Seq(Queue) /\ Len(t) = Len(s) + 1 /\ Len(s) \in Nat
        /\ t[Len(s) + 1] = q
        /\ \A j \in 1 .. Len(s) : t[j] = s[j]
    BY AppendProperties, LenProperties
  <1> HIDE DEF t
  <1>2. ASSUME NEW j \in 1 .. Len(t), NEW k \in 1 .. Len(t),
               t[j].queue_id = t[k].queue_id
        PROVE  j = k
    BY <1>1, <1>2 DEF NoTwoQueues
  <1>3. NoTwoQueues(t) /\ QueuesStay(s, t)
    BY <1>1, <1>2 DEF NoTwoQueues, QueuesStay
  <1> QED BY <1>1, <1>3 DEF t

(* The numbers of a uint16_t, under a name: the provers are lost in large   *)
(* ranges they can look into.                                              *)
Word16 == 0 .. 65535

(* What is stored in a uint16_t is one. *)
LEMMA Uint16InRange == \A n \in Int : Uint16(n) \in Word16
  BY DEF Uint16, Word16

(* The depth a queue is left with. *)
LEMMA DepthTyped ==
    ASSUME NEW old \in Word16,
           NEW typed \in {<<>>} \cup {<<d>> : d \in QosNumbers}
    PROVE  Depth(old, typed) \in Word16
  <1>1. CASE typed = <<>>
    BY <1>1 DEF Depth
  <1>2. CASE typed # <<>>
    <2>1. PICK d \in QosNumbers : typed = <<d>>
      BY <1>2
    <2>2. Depth(old, typed) = Uint16(d)
      BY <2>1 DEF Depth
    <2>3. d \in Int
      BY QosAssumption
    <2> QED BY <2>2, <2>3, Uint16InRange
  <1> QED BY <1>1, <1>2

(* The fields of a queue. *)
LEMMA QueueRecord ==
    Queue = [queue_id : 0 .. LastQueue, sched_type : Schedulers,
             max_depth : Word16, wred : BOOLEAN]
  BY DEF Queue, Word16

(* Writing the depth or the WRED of a queue leaves its other fields. *)
LEMMA QueueFields ==
    ASSUME NEW q \in Queue
    PROVE  /\ q.max_depth \in Word16
           /\ \A d \in Word16 :
                 LET r == [q EXCEPT !.max_depth = d]
                 IN /\ r \in Queue /\ r.queue_id = q.queue_id
                    /\ r.sched_type = q.sched_type /\ r.wred = q.wred
           /\ LET r == [q EXCEPT !.wred = TRUE]
              IN /\ r \in Queue /\ r.queue_id = q.queue_id
                 /\ r.sched_type = q.sched_type /\ r.wred
  BY QueueRecord

(* A WRED range given in the wrong order fails, with what it had stored by *)
(* then left in place.                                                     *)
LEMMA QueueDeepened ==
    ASSUME NEW s \in Seq(Queue), NEW i \in 1 .. Len(s),
           NEW typed \in {<<>>} \cup {<<d>> : d \in QosNumbers},
           NoTwoQueues(s), Len(s) <= LastQueue + 1
    PROVE  LET t == [s EXCEPT ![i].max_depth = Depth(@, typed)]
           IN /\ t \in Seq(Queue) /\ Len(t) = Len(s)
              /\ NoTwoQueues(t) /\ QueuesStay(s, t)
  <1> DEFINE d == Depth(s[i].max_depth, typed)
             q == [s[i] EXCEPT !.max_depth = d]
  <1>1. s[i] \in Queue
    BY ElementOfSeq
  <1>2. d \in Word16
    <2>1. s[i].max_depth \in Word16
      BY <1>1, QueueFields
    <2> QED BY <2>1, DepthTyped
  <1>3. [s EXCEPT ![i].max_depth = Depth(@, typed)] = [s EXCEPT ![i] = q]
    OBVIOUS
  <1> HIDE DEF d
  <1>4. /\ q \in Queue /\ q.queue_id = s[i].queue_id
        /\ q.sched_type = s[i].sched_type /\ q.wred = s[i].wred
    BY <1>1, <1>2, QueueFields
  <1> HIDE DEF q
  <1>5. LET t == [s EXCEPT ![i] = q]
        IN /\ t \in Seq(Queue) /\ Len(t) = Len(s)
           /\ NoTwoQueues(t) /\ QueuesStay(s, t)
    BY <1>4, QueueWritten
  <1> QED BY <1>3, <1>5

(* Every queue command touches the profiles only. *)
LEMMA QueueTouches ==
    ASSUME Sound("queue_profile"), QueueNext
    PROVE  Touches("queue_profile")
  <1>1. ASSUME NEW name \in QosNames, cmd_qos_queue_profile(name)
        PROVE  Touches("queue_profile")
    <2>1. /\ NewProfile(name) \in QueueProfile /\ NewProfile(name).queues = <<>>
          /\ Len(<<>>) <= LastQueue + 1 /\ NoTwoQueues(<<>>)
      BY QosAssumption DEF NewProfile, QueueProfile, Schedulers, NoTwoQueues
    <2>2. NewProfile(name) \in Fitting("queue_profile")
      BY <2>1, ProfileFits
    <2> QED BY <1>1, <2>2, EnteringTouches DEF cmd_qos_queue_profile
  (* What is known of the profile that is edited. *)
  <1>2. ASSUME HasEntry("queue_profile")
        PROVE  /\ Entry("queue_profile") \in Fitting("queue_profile")
               /\ Entry("queue_profile") \in QueueProfile
               /\ Queues \in Seq(Queue) /\ Len(Queues) \in Nat
               /\ Len(Queues) <= LastQueue + 1 /\ NoTwoQueues(Queues)
               /\ Queues = Entry("queue_profile").queues
    BY <1>2, EntryFits, ProfileFits, LenProperties DEF Queues, QueueProfile
  <1>3. ASSUME NEW queues \in Seq(Queue), HasEntry("queue_profile"),
               Set("queue_profile", "queues", queues),
               Len(Queues) <= Len(queues), Len(queues) <= LastQueue + 1,
               NoTwoQueues(queues), QueuesStay(Queues, queues)
        PROVE  Touches("queue_profile")
    BY <1>2, <1>3, ProfileSucceeds, SettingTouches
  <1>4. ASSUME NEW n \in QosNumbers,
               NEW depth \in {<<>>} \cup {<<d>> : d \in QosNumbers},
               cmd_queue(n, depth)
        PROVE  Touches("queue_profile")
    <2> DEFINE id == Uint8(n)
    <2>1. id \in 0 .. LastQueue
      <3>1. id \in Int /\ id >= 0
        BY QosAssumption DEF Uint8
      <3>2. id <= LastQueue
        BY <1>4 DEF cmd_queue
      <3> QED BY <3>1, <3>2, QosAssumption
    <2>2. HasEntry("queue_profile")
      BY <1>4 DEF cmd_queue
    <2> HIDE DEF id
    <2>4. CASE QueuePosition(id) = Null
      <3> DEFINE q == NewQueue(id)
                 added == Append(Queues, q)
                 last == Len(Queues) + 1
                 t == [added EXCEPT ![Len(added)].max_depth = Depth(@, depth)]
      <3>1. q \in Queue /\ q.queue_id = id
        BY <1>2, <2>1, <2>2 DEF NewQueue, Queue, QueueProfile
      <3>2. \A j \in 1 .. Len(Queues) : Queues[j].queue_id # id
        BY <1>2, <2>2, <2>4, SearchByQueue DEF Null
      <3>3. Len(added) <= LastQueue + 1 /\ Set("queue_profile", "queues", t)
        BY <1>4, <2>4 DEF cmd_queue, id
      <3> HIDE DEF q, t
      <3>4. /\ added \in Seq(Queue) /\ Len(added) = last /\ added[last] = q
            /\ NoTwoQueues(added) /\ QueuesStay(Queues, added)
        BY <1>2, <2>2, <3>1, <3>2, QueueAdded
      <3>5. Len(added) \in 1 .. Len(added)
        BY <1>2, <2>2, <3>4
      <3> HIDE DEF added
      <3>6. /\ t \in Seq(Queue) /\ Len(t) = Len(added)
            /\ NoTwoQueues(t) /\ QueuesStay(added, t)
        BY <3>3, <3>4, <3>5, QueueDeepened DEF t
      <3>7. QueuesStay(Queues, t)
        BY <1>2, <2>2, <3>4, <3>6 DEF QueuesStay
      <3>8. Len(Queues) <= Len(t) /\ Len(t) <= LastQueue + 1
        BY <1>2, <2>2, <3>3, <3>4, <3>6
      <3> QED BY <1>3, <2>2, <3>3, <3>6, <3>7, <3>8
    <2>5. CASE QueuePosition(id) # Null
      <3> DEFINE i == QueuePosition(id)
                 t == [Queues EXCEPT ![i].max_depth = Depth(@, depth)]
      <3>1. i \in 1 .. Len(Queues)
        BY <1>2, <2>2, <2>5, SearchByQueue
      <3>2. Len(Queues) <= LastQueue + 1 /\ Set("queue_profile", "queues", t)
        BY <1>4, <2>5 DEF cmd_queue, id
      <3> HIDE DEF i
      <3>3. /\ t \in Seq(Queue) /\ Len(t) = Len(Queues)
            /\ NoTwoQueues(t) /\ QueuesStay(Queues, t)
        BY <1>2, <2>2, <3>1, QueueDeepened
      <3> HIDE DEF t
      <3>4. Len(Queues) <= Len(t)
        BY <1>2, <2>2, <3>3
      <3> QED BY <1>3, <2>2, <3>2, <3>3, <3>4
    <2> QED BY <2>4, <2>5
  <1>5. ASSUME NEW sched \in Schedulers, cmd_qos_schedule(sched)
        PROVE  Touches("queue_profile")
    <2> DEFINE e == Entry("queue_profile")
               f == [e EXCEPT !["default_sched"] = sched]
    <2>1. HasEntry("queue_profile")
      BY <1>5 DEF cmd_qos_schedule, Set
    <2>2. /\ e \in Fitting("queue_profile") /\ e \in QueueProfile
          /\ Len(e.queues) <= LastQueue + 1 /\ NoTwoQueues(e.queues)
          /\ e.queues \in Seq(Queue)
      BY <1>2, <2>1 DEF Queues
    <2>3. f \in QueueProfile /\ f.name = e.name /\ f.queues = e.queues
      BY <2>2 DEF QueueProfile
    <2>4. f \in Fitting("queue_profile")
      BY <2>2, <2>3, ProfileFits
    <2> HIDE DEF f
    <2>5. f \in Successors("queue_profile", e)
      BY <2>3, <2>4 DEF Successors
    <2> QED BY <1>5, <2>5, SettingTouches DEF cmd_qos_schedule, f
  <1>6. ASSUME NEW n \in QosNumbers, cmd_wred(n)
        PROVE  Touches("queue_profile")
    <2> DEFINE i == QueuePosition(Uint8(n))
               q == [Queues[i] EXCEPT !.wred = TRUE]
               t == [Queues EXCEPT ![i] = q]
    <2>1. /\ HasEntry("queue_profile") /\ i # Null
          /\ Set("queue_profile", "queues", [Queues EXCEPT ![i].wred = TRUE])
      BY <1>6 DEF cmd_wred
    <2>2. i \in 1 .. Len(Queues)
      BY <1>2, <2>1, SearchByQueue
    <2> HIDE DEF i
    <2>3. Queues[i] \in Queue
      BY <1>2, <2>1, <2>2, ElementOfSeq
    <2>4. /\ q \in Queue /\ q.wred
          /\ q.queue_id = Queues[i].queue_id /\ q.sched_type = Queues[i].sched_type
      BY <2>3, QueueFields
    <2>5. [Queues EXCEPT ![i].wred = TRUE] = t
      OBVIOUS
    <2> HIDE DEF q
    <2>6. /\ t \in Seq(Queue) /\ Len(t) = Len(Queues)
          /\ NoTwoQueues(t) /\ QueuesStay(Queues, t)
      BY <1>2, <2>1, <2>2, <2>4, QueueWritten
    <2> HIDE DEF t
    <2>7. Len(Queues) <= Len(t) /\ Len(t) <= LastQueue + 1
      BY <1>2, <2>1, <2>6
    <2> QED BY <1>3, <2>1, <2>5, <2>6, <2>7
  <1> QED
    BY <1>1, <1>4, <1>5, <1>6 DEF QueueNext

-----------------------------------------------------------------------------
(* Tunnels. *)
LEMMA TunnelRecord ==
    Tunnel = [name : Word16, source : Endpoints \cup {Unset},
              destination : Endpoints \cup {Unset}, keepalive_enabled : BOOLEAN,
              keepalive_interval : Word16]
  BY DEF Tunnel, Word16

(* Tunnels. *)
LEMMA TunnelFits ==
    ASSUME NEW e
    PROVE  e \in Fitting("tunnel") <=> e \in Tunnel
  BY DEF Fitting, Sized, RecordOf

(* Every tunnel command touches the tunnels only. *)
LEMMA TunnelTouches ==
    ASSUME Sound("tunnel"), TunnelNext
    PROVE  Touches("tunnel") /\ UNCHANGED aaa_enabled
  <1>1. ASSUME NEW n \in TunnelIds, cmd_interface_tunnel(n)
        PROVE  Touches("tunnel") /\ UNCHANGED aaa_enabled
    <2>1. Uint16(n) \in Word16 /\ 10 \in Word16
      <3>1. n \in Int
        BY AaaAssumption
      <3>2. Uint16(n) \in Word16
        BY <3>1, Uint16InRange
      <3>3. 10 \in Word16
        BY DEF Word16
      <3> QED BY <3>2, <3>3
    <2>2. NewTunnel(Uint16(n)) \in Tunnel
      BY <2>1, TunnelRecord DEF NewTunnel
    <2>3. NewTunnel(Uint16(n)) \in Fitting("tunnel")
      BY <2>2, TunnelFits
    <2> QED BY <1>1, <2>3, EnteringTouches DEF cmd_interface_tunnel
  <1>2. ASSUME NEW field \in {"source", "destination"}, NEW endpoint \in Endpoints,
               cmd_tunnel_endpoint(field, endpoint)
        PROVE  Touches("tunnel") /\ UNCHANGED aaa_enabled
    <2> DEFINE e == Entry("tunnel")
               f == [e EXCEPT ![field] = endpoint]
    <2>1. e \in Tunnel /\ e \in Fitting("tunnel")
      BY <1>2, EntryFits, TunnelFits DEF cmd_tunnel_endpoint, Set
    <2>2. f \in Tunnel /\ f.name = e.name
      <3>1. CASE field = "source"
        BY <2>1, <3>1, TunnelRecord
      <3>2. CASE field = "destination"
        BY <2>1, <3>2, TunnelRecord
      <3> QED BY <3>1, <3>2
    <2>3. f \in Successors("tunnel", e)
      BY <2>2, TunnelFits, PlainSuccessors
    <2> QED BY <1>2, <2>3, SettingTouches DEF cmd_tunnel_endpoint
  <1>3. ASSUME NEW interval \in {<<>>} \cup {<<n>> : n \in AaaNumbers},
               cmd_tunnel_keepalive(interval)
        PROVE  Touches("tunnel") /\ UNCHANGED aaa_enabled
    <2> DEFINE e == Entry("tunnel")
               d == IF interval = <<>> THEN e.keepalive_interval ELSE Uint16(interval[1])
               f == [e EXCEPT !.keepalive_enabled = TRUE, !.keepalive_interval = d]
    <2>1. e \in Tunnel /\ e \in Fitting("tunnel") /\ HasEntry("tunnel")
      BY <1>3, EntryFits, TunnelFits DEF cmd_tunnel_keepalive
    <2>2. d \in Word16
      <3>1. CASE interval = <<>>
        BY <2>1, <3>1, TunnelRecord
      <3>2. CASE interval # <<>>
        <4>1. PICK n \in AaaNumbers : interval = <<n>>
          BY <3>2
        <4>2. d = Uint16(n) /\ n \in Int
          BY <3>2, <4>1, AaaAssumption
        <4> QED BY <4>2, Uint16InRange
      <3> QED BY <3>1, <3>2
    <2>3. SetEntry("tunnel", f)
      BY <1>3 DEF cmd_tunnel_keepalive
    <2> HIDE DEF d
    <2>4. f \in Tunnel /\ f.name = e.name
      BY <2>1, <2>2, TunnelRecord
    <2> HIDE DEF f
    <2>5. f \in Successors("tunnel", e)
      BY <2>4, TunnelFits, PlainSuccessors
    <2> QED BY <1>3, <2>1, <2>3, <2>5, ReplacingTouches DEF cmd_tunnel_keepalive
  <1> QED
    BY <1>1, <1>2, <1>3 DEF TunnelNext

-----------------------------------------------------------------------------
(* VRRP groups. *)
VrrpIds == 1 .. 255
Priorities == 1 .. 254
Intervals == 1 .. 25500

(* The fields of a VRRP group. *)
LEMMA GroupRecord ==
    VrrpGroup =
        [name : VrrpIds, version : {2, 3}, priority : Priorities,
         effective_priority : Priorities, advert_interval : Intervals,
         preempt : BOOLEAN, preempt_delay : Word16,
         virtual_ips : Seq(HaTexts),
         auth_type : {"none", "simple", "md5"}, auth_key : HaTexts \cup {Unset},
         tracks : Seq(VrrpTrack)]
  BY DEF VrrpGroup, VrrpIds, Priorities, Intervals, Word16

Coherent(group) ==
    /\ ~group.preempt => group.preempt_delay = 0
    /\ group.auth_type # "none" => group.auth_key # Unset

(* VRRP groups. *)
LEMMA GroupFits ==
    ASSUME NEW e
    PROVE  e \in Fitting("vrrp")
             <=> /\ e \in VrrpGroup /\ Coherent(e)
                 /\ Len(e.virtual_ips) <= MaxVirtualIps
                 /\ Len(e.tracks) <= MaxVrrpTracks
  BY DEF Fitting, Sized, RecordOf, Coherent

(* What a command may do to a group. *)
LEMMA GroupSucceeds ==
    ASSUME NEW e \in Fitting("vrrp"), NEW f \in VrrpGroup, f.name = e.name, Coherent(f),
           \/ f.virtual_ips = e.virtual_ips
           \/ Len(f.virtual_ips) <= MaxVirtualIps,
           \/ f.tracks = e.tracks
           \/ Len(f.tracks) <= MaxVrrpTracks
    PROVE  f \in Successors("vrrp", e)
  BY GroupFits, PlainSuccessors

(* Every VRRP command touches the groups only. *)
LEMMA VrrpTouches ==
    ASSUME Sound("vrrp"), VrrpNext
    PROVE  Touches("vrrp")
  <1>1. ASSUME NEW n \in VrIds, cmd_vrrp_vrid(n)
        PROVE  Touches("vrrp")
    <2>1. /\ Uint8(n) \in VrrpIds /\ 100 \in Priorities /\ 100 \in Intervals
          /\ 0 \in Word16
      BY <1>1 DEF cmd_vrrp_vrid, VrrpIds, Priorities, Intervals, Word16
    <2>2. /\ NewGroup(Uint8(n)) \in VrrpGroup
          /\ NewGroup(Uint8(n)).virtual_ips = <<>>
          /\ NewGroup(Uint8(n)).tracks = <<>>
          /\ Coherent(NewGroup(Uint8(n)))
      BY <2>1, GroupRecord DEF NewGroup, Coherent
    <2>3. NewGroup(Uint8(n)) \in Fitting("vrrp")
      BY <2>2, GroupFits, HaAssumption
    <2> QED BY <1>1, <2>3, EnteringTouches DEF cmd_vrrp_vrid
  <1> DEFINE e == Entry("vrrp")
  <1>2. ASSUME HasEntry("vrrp")
        PROVE  /\ e \in Fitting("vrrp") /\ e \in VrrpGroup /\ Coherent(e)
               /\ e.virtual_ips \in Seq(HaTexts) /\ e.tracks \in Seq(VrrpTrack)
               /\ Group = e
    BY <1>2, EntryFits, GroupFits, GroupRecord DEF Group
  <1> HIDE DEF e
  <1>3. ASSUME NEW field, NEW value, Set("vrrp", field, value),
               [e EXCEPT ![field] = value] \in Successors("vrrp", e)
        PROVE  Touches("vrrp")
    BY <1>3, SettingTouches DEF e
  <1>4. ASSUME NEW f \in Successors("vrrp", e), SetEntry("vrrp", f)
        PROVE  Touches("vrrp")
    BY <1>4, ReplacingTouches DEF e
  <1>5. ASSUME NEW n \in {1, 2, 3}, cmd_vrrp_version(n)
        PROVE  Touches("vrrp")
    <2> DEFINE f == [e EXCEPT !["version"] = n]
    <2>1. HasEntry("vrrp") /\ n \in {2, 3} /\ Set("vrrp", "version", n)
      BY <1>5 DEF cmd_vrrp_version, Set
    <2>2. /\ f \in VrrpGroup /\ f.name = e.name /\ Coherent(f)
          /\ f.virtual_ips = e.virtual_ips /\ f.tracks = e.tracks
      BY <1>2, <2>1, GroupRecord DEF Coherent
    <2>3. f \in Successors("vrrp", e)
      <3> HIDE DEF f
      <3> QED BY <1>2, <2>1, <2>2, GroupSucceeds
    <2> QED BY <1>3, <2>1, <2>3
  <1>6. ASSUME NEW n \in HaNumbers, cmd_vrrp_priority(n)
        PROVE  Touches("vrrp")
    <2> DEFINE f == [e EXCEPT !.priority = Uint8(n), !.effective_priority = Uint8(n)]
    <2>1. HasEntry("vrrp") /\ Uint8(n) \in Priorities
      BY <1>6 DEF cmd_vrrp_priority, Priorities
    <2>2. SetEntry("vrrp", f)
      BY <1>2, <1>6, <2>1 DEF cmd_vrrp_priority
    <2>3. /\ f \in VrrpGroup /\ f.name = e.name /\ Coherent(f)
          /\ f.virtual_ips = e.virtual_ips /\ f.tracks = e.tracks
      BY <1>2, <2>1, GroupRecord DEF Coherent
    <2> HIDE DEF f
    <2>4. f \in Successors("vrrp", e)
      BY <1>2, <2>1, <2>3, GroupSucceeds
    <2> QED BY <1>4, <2>2, <2>4
  <1>7. ASSUME NEW n \in HaNumbers, cmd_vrrp_timer_advertise(n)
        PROVE  Touches("vrrp")
    <2> DEFINE f == [e EXCEPT !["advert_interval"] = Uint16(n)]
    <2>1. /\ HasEntry("vrrp") /\ Uint16(n) \in Intervals
          /\ Set("vrrp", "advert_interval", Uint16(n))
      BY <1>7 DEF cmd_vrrp_timer_advertise, Set, Intervals
    <2>2. /\ f \in VrrpGroup /\ f.name = e.name /\ Coherent(f)
          /\ f.virtual_ips = e.virtual_ips /\ f.tracks = e.tracks
      BY <1>2, <2>1, GroupRecord DEF Coherent
    <2>3. f \in Successors("vrrp", e)
      <3> HIDE DEF f
      <3> QED BY <1>2, <2>1, <2>2, GroupSucceeds
    <2> QED BY <1>3, <2>1, <2>3
  <1>8. ASSUME NEW ip \in HaTexts, cmd_vrrp_virtual_ip(ip)
        PROVE  Touches("vrrp")
    <2> DEFINE ips == Append(e.virtual_ips, ip)
               f == [e EXCEPT !["virtual_ips"] = ips]
    <2>1. /\ HasEntry("vrrp") /\ Len(e.virtual_ips) < MaxVirtualIps
          /\ Set("vrrp", "virtual_ips", ips)
      BY <1>8 DEF cmd_vrrp_virtual_ip, Add, e
    <2>2. ips \in Seq(HaTexts) /\ Len(ips) <= MaxVirtualIps
      BY <1>2, <2>1, ListGrows, HaAssumption
    <2> HIDE DEF ips
    <2>3. /\ f \in VrrpGroup /\ f.name = e.name /\ Coherent(f)
          /\ f.virtual_ips = ips /\ f.tracks = e.tracks
      BY <1>2, <2>1, <2>2, GroupRecord DEF Coherent
    <2>4. f \in Successors("vrrp", e)
      <3> HIDE DEF f
      <3> QED BY <1>2, <2>1, <2>2, <2>3, GroupSucceeds
    <2> QED BY <1>3, <2>1, <2>4
  <1>9. ASSUME NEW delay \in {<<>>} \cup {<<n>> : n \in HaNumbers}, cmd_vrrp_preempt(delay)
        PROVE  Touches("vrrp")
    <2> DEFINE d == IF delay = <<>> THEN e.preempt_delay ELSE Uint16(delay[1])
               f == [e EXCEPT !.preempt = TRUE, !.preempt_delay = d]
    <2>1. HasEntry("vrrp")
      BY <1>9 DEF cmd_vrrp_preempt
    <2>2. SetEntry("vrrp", f)
      BY <1>2, <1>9, <2>1 DEF cmd_vrrp_preempt
    <2>3. d \in Word16
      <3>1. CASE delay = <<>>
        BY <1>2, <2>1, <3>1, GroupRecord
      <3>2. CASE delay # <<>>
        <4>1. PICK n \in HaNumbers : delay = <<n>>
          BY <3>2
        <4>2. d = Uint16(n) /\ n \in Int
          BY <3>2, <4>1, HaAssumption
        <4> QED BY <4>2, Uint16InRange
      <3> QED BY <3>1, <3>2
    <2> HIDE DEF d
    <2>4. /\ f \in VrrpGroup /\ f.name = e.name /\ Coherent(f)
          /\ f.virtual_ips = e.virtual_ips /\ f.tracks = e.tracks
      BY <1>2, <2>1, <2>3, GroupRecord DEF Coherent
    <2> HIDE DEF f
    <2>5. f \in Successors("vrrp", e)
      BY <1>2, <2>1, <2>4, GroupSucceeds
    <2> QED BY <1>4, <2>2, <2>5
  <1>10. ASSUME cmd_vrrp_undo_preempt
         PROVE  Touches("vrrp")
    <2> DEFINE f == [e EXCEPT !.preempt = FALSE, !.preempt_delay = 0]
    <2>1. HasEntry("vrrp") /\ 0 \in Word16
      BY <1>10 DEF cmd_vrrp_undo_preempt, Word16
    <2>2. SetEntry("vrrp", f)
      BY <1>2, <1>10, <2>1 DEF cmd_vrrp_undo_preempt
    <2>3. /\ f \in VrrpGroup /\ f.name = e.name /\ Coherent(f)
          /\ f.virtual_ips = e.virtual_ips /\ f.tracks = e.tracks
      BY <1>2, <2>1, GroupRecord DEF Coherent
    <2> HIDE DEF f
    <2>4. f \in Successors("vrrp", e)
      BY <1>2, <2>1, <2>3, GroupSucceeds
    <2> QED BY <1>4, <2>2, <2>4
  <1>11. ASSUME NEW mode \in {"simple", "md5"}, NEW key \in HaTexts,
                cmd_vrrp_authentication(mode, key)
         PROVE  Touches("vrrp")
    <2> DEFINE f == [e EXCEPT !.auth_type = mode, !.auth_key = key]
    <2>1. HasEntry("vrrp")
      BY <1>11 DEF cmd_vrrp_authentication
    <2>2. SetEntry("vrrp", f)
      BY <1>2, <1>11, <2>1 DEF cmd_vrrp_authentication
    <2>3. /\ f \in VrrpGroup /\ f.name = e.name /\ Coherent(f)
          /\ f.virtual_ips = e.virtual_ips /\ f.tracks = e.tracks
      BY <1>2, <2>1, GroupRecord, HaAssumption DEF Coherent
    <2> HIDE DEF f
    <2>4. f \in Successors("vrrp", e)
      BY <1>2, <2>1, <2>3, GroupSucceeds
    <2> QED BY <1>4, <2>2, <2>4
  <1>12. ASSUME NEW name \in HaTexts \cup SessionNames, NEW is_bfd \in BOOLEAN,
                NEW reduce \in HaNumbers \cup {10}, cmd_vrrp_track(name, is_bfd, reduce)
         PROVE  Touches("vrrp")
    <2> DEFINE track == [name |-> name, is_bfd |-> is_bfd, priority_reduce |-> reduce]
               tracks == Append(e.tracks, track)
               f == [e EXCEPT !["tracks"] = tracks]
    <2>1. /\ HasEntry("vrrp") /\ Len(e.tracks) < MaxVrrpTracks
          /\ Set("vrrp", "tracks", tracks)
      BY <1>12 DEF cmd_vrrp_track, Add, e
    <2>2. track \in VrrpTrack
      BY DEF VrrpTrack
    <2> HIDE DEF track
    <2>3. tracks \in Seq(VrrpTrack) /\ Len(tracks) <= MaxVrrpTracks
      BY <1>2, <2>1, <2>2, ListGrows, HaAssumption
    <2> HIDE DEF tracks
    <2>4. /\ f \in VrrpGroup /\ f.name = e.name /\ Coherent(f)
          /\ f.virtual_ips = e.virtual_ips /\ f.tracks = tracks
      BY <1>2, <2>1, <2>3, GroupRecord DEF Coherent
    <2>5. f \in Successors("vrrp", e)
      <3> HIDE DEF f
      <3> QED BY <1>2, <2>1, <2>3, <2>4, GroupSucceeds
    <2> QED BY <1>3, <2>1, <2>5
  <1> QED
    BY <1>1, <1>5, <1>6, <1>7, <1>8, <1>9, <1>10, <1>11, <1>12 DEF VrrpNext

-----------------------------------------------------------------------------
(* BFD sessions. *)
Multipliers == 3 .. 50

(* The fields of a BFD session. *)
LEMMA SessionRecord ==
    BfdSession =
        [name : SessionNames, type : {"single-hop", "multi-hop"},
         peer_ip : HaTexts, source_ip : HaTexts \cup {Unset},
         min_tx_interval : Microseconds, min_rx_interval : Microseconds,
         detect_multiplier : Multipliers, echo_mode : BOOLEAN,
         echo_interval : Microseconds, local_discriminator : Discriminators]
  BY DEF BfdSession, Multipliers

(* BFD sessions. *)
LEMMA SessionFits ==
    ASSUME NEW e
    PROVE  e \in Fitting("bfd") <=> e \in BfdSession
  BY DEF Fitting, Sized, RecordOf

(* A session as it is created. *)
LEMMA NewSessionTyped ==
    ASSUME NEW name \in SessionNames, NEW peer \in HaTexts, NEW random \in Discriminators
    PROVE  /\ NewSession(name, peer, random) \in BfdSession
           /\ NewSession(name, peer, random).name = name
  <1>1. Us(1000) \in Microseconds /\ Us(500) \in Microseconds
    <2>1. 1000 \in Milliseconds /\ 500 \in Milliseconds
      BY DEF Milliseconds
    <2> QED BY <2>1 DEF Microseconds
  <1>2. 3 \in Multipliers
    BY DEF Multipliers
  <1> QED BY <1>1, <1>2, SessionRecord DEF NewSession

(* The addresses typed are written into the session, its name stays. *)
LEMMA BoundTyped ==
    ASSUME NEW e \in BfdSession, NEW peer \in HaTexts,
           NEW source \in {<<>>} \cup {<<ip>> : ip \in HaTexts}
    PROVE  Bound(e, peer, source) \in BfdSession /\ Bound(e, peer, source).name = e.name
  <1> DEFINE s == IF source = <<>> THEN e.source_ip ELSE source[1]
  <1>1. s \in HaTexts \cup {Unset}
    BY SessionRecord
  <1>2. Bound(e, peer, source) = [e EXCEPT !.peer_ip = peer, !.source_ip = s]
    BY SessionRecord DEF Bound
  <1> HIDE DEF s
  <1> QED BY <1>1, <1>2, SessionRecord

(* Binding a session enters its view and writes into it. *)
LEMMA BindingTouches ==
    ASSUME Sound("bfd"), NEW name \in SessionNames, NEW peer \in HaTexts,
           NEW random \in Discriminators,
           NEW source \in {<<>>} \cup {<<ip>> : ip \in HaTexts},
           cmd_bfd_session(name, peer, random, source)
    PROVE  Touches("bfd")
  <1> DEFINE new == NewSession(name, peer, random)
             i == Pointer("bfd", name)
             entered == WithEntry("bfd", new)
             t == tables["bfd"]
  <1>1. new \in BfdSession /\ new.name = name
    BY NewSessionTyped
  <1>2. t \in Seq(Fitting("bfd")) /\ Len(t) \in Nat /\ "bfd" \in Kinds /\ Arrays
    BY LenProperties DEF Sound, Typed
  <1>3. /\ tables' = [tables EXCEPT !["bfd"] =
                IF i = Null THEN entered
                ELSE [entered EXCEPT ![i] = Bound(entered[i], peer, source)]]
        /\ current' = [current EXCEPT !["bfd"] = i]
        /\ prompt' = IF i = Null THEN prompt ELSE Announced("bfd", name)
    BY DEF cmd_bfd_session
  <1> HIDE DEF new, i, entered
  <1>4. Arrays' /\ OthersKept("bfd")
    BY <1>2, <1>3 DEF Arrays, OthersKept, Announced
  <1>5. /\ tables'["bfd"] = IF i = Null THEN entered
                ELSE [entered EXCEPT ![i] = Bound(entered[i], peer, source)]
        /\ current'["bfd"] = i
        /\ prompt'["bfd"] = IF i = Null THEN prompt["bfd"] ELSE name
    BY <1>2, <1>3 DEF Arrays, Announced
  <1>6. \/ i \in 1 .. Len(t) /\ t[i].name = name /\ entered = t
        \/ /\ NoneNamed("bfd", name) /\ HasRoom("bfd")
           /\ i = Len(t) + 1 /\ entered = Append(t, new)
        \/ NoneNamed("bfd", name) /\ ~HasRoom("bfd") /\ i = Null /\ entered = t
    BY <1>1, <1>2, PointerCases DEF i, entered
  <1>7. CASE i \in 1 .. Len(t) /\ t[i].name = name /\ entered = t
    <2> DEFINE e == Bound(t[i], peer, source)
    <2>1. t[i] \in BfdSession
      BY <1>2, <1>7, SessionFits, ElementOfSeq
    <2>2. e \in Successors("bfd", t[i]) /\ e.name = name
      BY <1>7, <2>1, BoundTyped, SessionFits, PlainSuccessors
    <2>3. /\ tables'["bfd"] = [t EXCEPT ![i] = e]
          /\ current'["bfd"] = i /\ prompt'["bfd"] = name
      BY <1>2, <1>5, <1>7 DEF Null
    <2> HIDE DEF e
    <2>4. Opens("bfd")
      BY <1>7, <2>2, <2>3 DEF Opens
    <2> QED BY <1>4, <2>4 DEF Touches, ViewStep
  <1>8. CASE /\ NoneNamed("bfd", name) /\ HasRoom("bfd")
             /\ i = Len(t) + 1 /\ entered = Append(t, new)
    <2> DEFINE e == Bound(new, peer, source)
    <2>1. e \in Fitting("bfd") /\ e.name = name
      BY <1>1, BoundTyped, SessionFits
    <2>2. new \in Fitting("bfd")
      BY <1>1, SessionFits
    <2>3. [entered EXCEPT ![i] = Bound(entered[i], peer, source)] = Append(t, e)
      <3>1. entered[i] = new
        BY <1>2, <1>8, <2>2, AppendProperties
      <3>2. Bound(entered[i], peer, source) = e
        BY <3>1
      <3> HIDE DEF e, t
      <3>3. [Append(t, new) EXCEPT ![Len(t) + 1] = e] = Append(t, e)
        BY <1>2, <2>1, <2>2, LastReplaced
      <3> QED BY <1>8, <3>2, <3>3
    <2>4. i # Null
      BY <1>2, <1>8 DEF Null
    <2> HIDE DEF e
    <2>5. Created("bfd", e)
      BY <1>5, <1>8, <2>1, <2>3, <2>4 DEF Created
    <2> QED BY <1>4, <2>1, <2>5 DEF Touches, ViewStep, Creates
  <1>9. CASE NoneNamed("bfd", name) /\ ~HasRoom("bfd") /\ i = Null /\ entered = t
    <2>1. Refused("bfd", name)
      BY <1>5, <1>9 DEF Refused
    <2> QED BY <1>4, <2>1 DEF Touches, ViewStep, OpensNothing
  <1> QED BY <1>6, <1>7, <1>8, <1>9

(* Every BFD command touches the sessions only. *)
LEMMA BfdTouches ==
    ASSUME Sound("bfd"), BfdNext
    PROVE  Touches("bfd")
  <1> DEFINE e == Entry("bfd")
  <1>1. ASSUME HasEntry("bfd")
        PROVE  e \in BfdSession
    BY <1>1, EntryFits, SessionFits
  <1> HIDE DEF e
  <1>2. ASSUME NEW field, NEW value, Set("bfd", field, value),
               LET f == [e EXCEPT ![field] = value] IN f \in BfdSession /\ f.name = e.name
        PROVE  Touches("bfd")
    <2>1. [e EXCEPT ![field] = value] \in Successors("bfd", e)
      BY <1>2, SessionFits, PlainSuccessors
    <2> QED BY <1>2, <2>1, SettingTouches DEF e
  <1>3. ASSUME NEW value \in Discriminators, cmd_bfd_discriminator(value)
        PROVE  Touches("bfd")
    <2> DEFINE f == [e EXCEPT !["local_discriminator"] = value]
    <2>1. HasEntry("bfd") /\ Set("bfd", "local_discriminator", value)
      BY <1>3 DEF cmd_bfd_discriminator, Set
    <2>2. f \in BfdSession /\ f.name = e.name
      BY <1>1, <2>1, SessionRecord
    <2> QED BY <1>2, <2>1, <2>2
  <1>4. ASSUME NEW field \in {"min_tx_interval", "min_rx_interval"}, NEW n \in HaNumbers,
               cmd_bfd_interval(field, n)
        PROVE  Touches("bfd")
    <2> DEFINE us == Us(n)
               f == [e EXCEPT ![field] = us]
    <2>1. HasEntry("bfd") /\ us \in Microseconds /\ Set("bfd", field, us)
      BY <1>4 DEF cmd_bfd_interval, Set, Microseconds
    <2> HIDE DEF us
    <2>2. f \in BfdSession /\ f.name = e.name
      <3>1. CASE field = "min_tx_interval"
        BY <1>1, <2>1, <3>1, SessionRecord
      <3>2. CASE field = "min_rx_interval"
        BY <1>1, <2>1, <3>2, SessionRecord
      <3> QED BY <3>1, <3>2
    <2> QED BY <1>2, <2>1, <2>2
  <1>5. ASSUME NEW n \in HaNumbers, cmd_bfd_detect_multiplier(n)
        PROVE  Touches("bfd")
    <2> DEFINE f == [e EXCEPT !["detect_multiplier"] = Uint8(n)]
    <2>1. /\ HasEntry("bfd") /\ Uint8(n) \in Multipliers
          /\ Set("bfd", "detect_multiplier", Uint8(n))
      BY <1>5 DEF cmd_bfd_detect_multiplier, Set, Multipliers
    <2>2. f \in BfdSession /\ f.name = e.name
      BY <1>1, <2>1, SessionRecord
    <2> QED BY <1>2, <2>1, <2>2
  <1>6. ASSUME NEW interval \in {<<>>} \cup {<<n>> : n \in HaNumbers},
               cmd_bfd_echo_mode(interval)
        PROVE  Touches("bfd")
    <2> DEFINE us == IF interval # <<>> /\ interval[1] \in Milliseconds
                     THEN Us(interval[1]) ELSE e.echo_interval
               f == [e EXCEPT !.echo_mode = TRUE, !.echo_interval = us]
    <2>1. HasEntry("bfd")
      BY <1>6 DEF cmd_bfd_echo_mode
    <2>2. us \in Microseconds
      <3>1. e.echo_interval \in Microseconds
        BY <1>1, <2>1, SessionRecord
      <3> QED BY <3>1 DEF Microseconds
    <2>3. SetEntry("bfd", f)
      <3>1. [e EXCEPT !.echo_mode = TRUE,
                      !.echo_interval = IF interval # <<>> /\ interval[1] \in Milliseconds
                                        THEN Us(interval[1]) ELSE @] = f
        BY <1>1, <2>1, SessionRecord
      <3> QED BY <1>6, <3>1 DEF cmd_bfd_echo_mode, e
    <2> HIDE DEF us
    <2>4. f \in BfdSession /\ f.name = e.name
      BY <1>1, <2>1, <2>2, SessionRecord
    <2> HIDE DEF f
    <2>5. f \in Successors("bfd", e)
      BY <2>4, SessionFits, PlainSuccessors
    <2> QED BY <2>3, <2>5, ReplacingTouches DEF e
  <1>7. ASSUME NEW type \in {"single-hop", "multi-hop"}, cmd_bfd_session_type(type)
        PROVE  Touches("bfd")
    <2> DEFINE f == [e EXCEPT !["type"] = type]
    <2>1. HasEntry("bfd") /\ Set("bfd", "type", type)
      BY <1>7 DEF cmd_bfd_session_type, Set
    <2>2. f \in BfdSession /\ f.name = e.name
      BY <1>1, <2>1, SessionRecord
    <2> QED BY <1>2, <2>1, <2>2
  <1> QED
    BY <1>3, <1>4, <1>5, <1>6, <1>7, BindingTouches DEF BfdNext

-----------------------------------------------------------------------------
(* Tracks. *)
TrackNumbers == 1 .. 1024

(* Tracks. *)
LEMMA TrackFits ==
    ASSUME NEW e
    PROVE  e \in Fitting("track")
             <=> /\ e \in Track
                 /\ e.type \notin {"boolean", e.data[1]} => e.data = <<"none">>
  BY DEF Fitting, Sized, RecordOf

(* The fields of a track. *)
LEMMA TrackRecord ==
    Track = [name : TrackNumbers, type : TrackTypes, data : Data, delay_up : Word16]
  BY DEF Track, TrackNumbers, Word16

(* The union is written as what the type says, or the type is boolean. *)
LEMMA UnionWritten ==
    ASSUME Sound("track"), NEW type \in TrackTypes, NEW data \in Data,
           type \in {"boolean", data[1]}, SetTrack(type, data)
    PROVE  Touches("track")
  <1> DEFINE e == Entry("track")
             f == [e EXCEPT !.type = type, !.data = data]
  <1>1. SetEntry("track", f) /\ HasEntry("track")
    BY DEF SetTrack
  <1>2. e \in Track
    BY <1>1, EntryFits, TrackFits
  <1>3. f \in Track /\ f.name = e.name /\ f.type = type /\ f.data = data
    BY <1>2, TrackRecord
  <1> HIDE DEF f
  <1>4. f \in Successors("track", e)
    BY <1>3, TrackFits, PlainSuccessors
  <1> QED BY <1>1, <1>4, ReplacingTouches

(* The tracks a track combines have numbers in range and fit the array,    *)
(* however many are typed.                                                 *)
LEMMA OperandsTyped ==
    ASSUME NEW m \in Int, NEW n \in Int
    PROVE  Operands(m, n) \in OperandLists
  <1> DEFINE T == 1 .. 1024
             inRange == Operand(m) \o Operand(n)
  <1>1. \A k \in Int : Operand(k) = IF Uint16(k) \in T THEN <<Uint16(k)>> ELSE <<>>
    BY DEF Operand
  <1>2. /\ OperandLists = {ids \in Seq(T) : Len(ids) <= MaxOperands}
        /\ Operands(m, n) = IF Len(inRange) <= MaxOperands THEN inRange
                            ELSE SubSeq(inRange, 1, MaxOperands)
    BY DEF OperandLists, Operands
  <1> HIDE DEF T
  <1>3. ASSUME NEW k \in Int
        PROVE  Operand(k) \in Seq(T)
    <2>1. \A x \in T : <<x>> \in Seq(T)
      OBVIOUS
    <2>2. <<>> \in Seq(T)
      OBVIOUS
    <2> QED BY <1>1, <2>1, <2>2
  <1>4. inRange \in Seq(T)
    BY <1>3, ConcatProperties
  <1>5. MaxOperands \in Nat
    BY HaAssumption
  <1> HIDE DEF inRange
  <1>6. ASSUME ~(Len(inRange) <= MaxOperands)
        PROVE  /\ SubSeq(inRange, 1, MaxOperands) \in Seq(T)
               /\ Len(SubSeq(inRange, 1, MaxOperands)) = MaxOperands
    <2>1. Len(inRange) \in Nat /\ \A i \in 1 .. MaxOperands : inRange[i] \in T
      BY <1>4, <1>5, <1>6, LenProperties, ElementOfSeq
    <2> QED BY <1>5, <2>1, SubSeqProperties
  <1> QED
    BY <1>4, <1>5, <1>6, <1>2

(* Every track command touches the tracks only. *)
LEMMA TrackTouches ==
    ASSUME Sound("track"), TrackNext
    PROVE  Touches("track")
  <1>1. ASSUME NEW n \in TrackIds, cmd_track(n)
        PROVE  Touches("track")
    <2>1. Uint16(n) \in TrackNumbers /\ 0 \in Word16 /\ <<"none">> \in Data
      BY <1>1 DEF cmd_track, TrackNumbers, Word16, Data
    <2>2. NewTrack(Uint16(n)) \in Track /\ NewTrack(Uint16(n)).data = <<"none">>
      BY <2>1, TrackRecord DEF NewTrack, TrackTypes
    <2>3. NewTrack(Uint16(n)) \in Fitting("track")
      BY <2>2, TrackFits
    <2> QED BY <1>1, <2>3, EnteringTouches DEF cmd_track
  <1>2. ASSUME NEW name \in HaTexts, NEW mode \in {"protocol", "line", "both"},
               cmd_track_interface(name, mode)
        PROVE  Touches("track")
    <2>1. <<"interface", name, mode>> \in Data /\ "interface" \in TrackTypes
      BY DEF Data, TrackTypes
    <2> QED BY <1>2, <2>1, UnionWritten DEF cmd_track_interface
  <1>3. ASSUME NEW name \in HaTexts, cmd_track_ip_route(name)
        PROVE  Touches("track")
    <2>1. <<"ip_route", name>> \in Data /\ "ip_route" \in TrackTypes
      BY DEF Data, TrackTypes
    <2> QED BY <1>3, <2>1, UnionWritten DEF cmd_track_ip_route
  <1>4. ASSUME NEW name \in HaTexts, NEW n \in HaNumbers \cup {100}, cmd_track_nqa(name, n)
        PROVE  Touches("track")
    <2>1. <<"nqa", name, n>> \in Data /\ "nqa" \in TrackTypes
      BY DEF Data, TrackTypes
    <2> QED BY <1>4, <2>1, UnionWritten DEF cmd_track_nqa
  <1>5. ASSUME NEW name \in SessionNames, cmd_track_bfd_session(name)
        PROVE  Touches("track")
    <2>1. <<"bfd", name>> \in Data /\ "bfd" \in TrackTypes
      BY DEF Data, TrackTypes
    <2> QED BY <1>5, <2>1, UnionWritten DEF cmd_track_bfd_session
  <1>6. ASSUME NEW op \in {"and", "or", "other"}, NEW m \in TrackIds, NEW n \in TrackIds,
               cmd_track_boolean(op, m, n)
        PROVE  Touches("track")
    <2> DEFINE operands == Operands(m, n)
               data == IF op \in {"and", "or"} THEN <<"boolean", op, operands>>
                       ELSE Entry("track").data
    <2>1. HasEntry("track") /\ SetTrack("boolean", data)
      BY <1>6 DEF cmd_track_boolean
    <2>2. operands \in OperandLists
      BY OperandsTyped, HaAssumption
    <2> HIDE DEF operands
    <2>3. Entry("track").data \in Data
      BY <2>1, EntryFits, TrackFits, TrackRecord
    <2>4. data \in Data /\ "boolean" \in TrackTypes
      <3>1. op \in {"and", "or"} => <<"boolean", op, operands>> \in Data
        BY <2>2 DEF Data
      <3> QED BY <2>3, <3>1 DEF TrackTypes
    <2> HIDE DEF data
    <2> QED BY <2>1, <2>4, UnionWritten
  <1>7. ASSUME NEW n \in HaNumbers, cmd_track_delay(n)
        PROVE  Touches("track")
    <2> DEFINE e == Entry("track")
               f == [e EXCEPT !["delay_up"] = Uint16(n)]
    <2>1. HasEntry("track") /\ Set("track", "delay_up", Uint16(n))
      BY <1>7 DEF cmd_track_delay, Set
    <2>2. Uint16(n) \in Word16
      <3>1. n \in Int
        BY HaAssumption
      <3> QED BY <3>1, Uint16InRange
    <2>3. e \in Fitting("track") /\ e \in Track
      BY <2>1, EntryFits, TrackFits
    <2>4. f \in Track /\ f.name = e.name /\ f.type = e.type /\ f.data = e.data
      BY <2>2, <2>3, TrackRecord
    <2>5. f \in Successors("track", e)
      <3> HIDE DEF f
      <3> QED BY <2>3, <2>4, TrackFits, PlainSuccessors
    <2> QED BY <2>1, <2>5, SettingTouches
  <1> QED
    BY <1>1, <1>2, <1>3, <1>4, <1>5, <1>6, <1>7 DEF TrackNext

-----------------------------------------------------------------------------
(* Users and RADIUS servers. *)
LEMMA UserFits ==
    ASSUME NEW e
    PROVE  e \in Fitting("user") <=> e \in User
  BY DEF Fitting, Sized, RecordOf

(* RADIUS servers. *)
LEMMA RadiusFits ==
    ASSUME NEW e
    PROVE  e \in Fitting("radius")
             <=> e \in [name : Servers, auth_port : Word16]
  BY DEF Fitting, Sized, RecordOf, RadiusServer, Word16

(* The entries a user has beyond the first have no privilege, said of a    *)
(* sequence.                                                               *)
LaterPowerless(users) ==
    \A i, j \in 1 .. Len(users) :
        i < j /\ users[i].name = users[j].name => users[j].privilege_level = 0

(* DuplicatesPowerless, by the positions of the array. *)
LEMMA PowerlessByPosition ==
    ASSUME tables["user"] \in Seq(Fitting("user")), tables'["user"] \in Seq(Fitting("user"))
    PROVE  /\ DuplicatesPowerless <=> LaterPowerless(tables["user"])
           /\ DuplicatesPowerless' <=> LaterPowerless(tables'["user"])
  <1>1. DOMAIN tables["user"] = 1 .. Len(tables["user"])
    BY LenProperties
  <1>2. DOMAIN tables'["user"] = 1 .. Len(tables'["user"])
    BY LenProperties
  <1> QED
    BY <1>1, <1>2 DEF DuplicatesPowerless, LaterPowerless

(* Every AAA command enables AAA, or is about the users or the servers. *)
LEMMA AaaKeeps ==
    ASSUME Sound("user"), Sound("radius"), DuplicatesPowerless, AaaNext
    PROVE  \/ UNCHANGED tableVars /\ aaa_enabled' = TRUE
           \/ Keeps("user") /\ DuplicatesPowerless' /\ UNCHANGED aaa_enabled
           \/ Keeps("radius") /\ UNCHANGED aaa_enabled
  <1> DEFINE users == tables["user"]
  <1>1. users \in Seq(Fitting("user")) /\ Len(users) \in Nat
    BY LenProperties DEF Sound, Typed
  <1>2. LaterPowerless(users)
    <2>1. DOMAIN users = 1 .. Len(users)
      BY <1>1, LenProperties
    <2> QED BY <2>1 DEF DuplicatesPowerless, LaterPowerless
  <1>3. ASSUME NEW name \in UserNames, NEW password \in Passwords,
               cmd_local_user(name, password)
        PROVE  Keeps("user") /\ DuplicatesPowerless' /\ UNCHANGED aaa_enabled
    <2> DEFINE e == [name |-> name, password |-> password,
                     privilege_level |-> 0, service_type |-> Unset]
    <2>1. e \in Fitting("user") /\ e.privilege_level = 0
      BY UserFits DEF User
    <2>2. /\ HasRoom("user") /\ AppendEntry("user", e) /\ UNCHANGED aaa_enabled
      BY <1>3 DEF cmd_local_user
    <2> HIDE DEF e
    <2>3. Keeps("user") /\ tables'["user"] = Append(users, e)
      BY <2>1, <2>2, AppendingIsTyped
    <2>4. /\ Len(Append(users, e)) = Len(users) + 1
          /\ Append(users, e)[Len(users) + 1] = e
          /\ \A i \in 1 .. Len(users) : Append(users, e)[i] = users[i]
      BY <1>1, <2>1, AppendProperties
    <2>5. LaterPowerless(tables'["user"])
      <3> HIDE DEF users
      <3>1. ASSUME NEW i \in 1 .. Len(users) + 1, NEW j \in 1 .. Len(users) + 1, i < j,
                   Append(users, e)[i].name = Append(users, e)[j].name
            PROVE  Append(users, e)[j].privilege_level = 0
        BY <1>1, <1>2, <2>1, <2>4, <3>1 DEF LaterPowerless
      <3> QED BY <2>3, <2>4, <3>1 DEF LaterPowerless
    <2> QED
      BY <1>1, <2>2, <2>3, <2>5, PowerlessByPosition DEF Keeps, Typed
  (* An entry of its user is changed, and it is the first one. *)
  <1>4. ASSUME NEW name, NEW field, NEW value,
               SetIn("user", Position("user", name), field, value),
               \A e \in User : LET f == [e EXCEPT ![field] = value]
                               IN /\ f \in User /\ f.name = e.name
                                  /\ \/ f.privilege_level = e.privilege_level
                                     \/ field = "privilege_level"
        PROVE  Keeps("user") /\ DuplicatesPowerless'
    <2> DEFINE i == Position("user", name)
               f == [users[i] EXCEPT ![field] = value]
    <2>1. i \in 1 .. Len(users)
      <3>1. i \in DOMAIN users
        BY <1>4 DEF SetIn
      <3> QED BY <1>1, <3>1, LenProperties
    <2>2. /\ users[i].name = name
          /\ \A j \in 1 .. i - 1 : users[j].name # name
      BY <1>1, <2>1, SearchByName DEF Null
    <2>3. users[i] \in User
      BY <1>1, <2>1, UserFits, ElementOfSeq
    <2>4. f \in User /\ f.name = users[i].name
      BY <1>4, <2>3
    <2>5. f \in Successors("user", users[i])
      <3> HIDE DEF f
      <3> QED BY <2>4, UserFits, PlainSuccessors
    <2>6. /\ Keeps("user") /\ Len(tables'["user"]) = Len(users)
          /\ \A j \in 1 .. Len(users) : tables'["user"][j] = IF j = i THEN f ELSE users[j]
      BY <1>4, <2>5, SettingIsTyped
    <2> HIDE DEF i, f, users
    <2>7. LaterPowerless(tables'["user"])
      <3>1. ASSUME NEW j \in 1 .. Len(users), NEW k \in 1 .. Len(users), j < k,
                   tables'["user"][j].name = tables'["user"][k].name
            PROVE  tables'["user"][k].privilege_level = 0
        <4>1. \A l \in 1 .. Len(users) : tables'["user"][l].name = users[l].name
          BY <2>4, <2>6
        <4>2. users[j].name = users[k].name
          BY <3>1, <4>1
        <4>3. k # i
          BY <1>1, <2>1, <2>2, <3>1, <4>2
        <4>4. users[k].privilege_level = 0
          BY <1>2, <3>1, <4>2 DEF LaterPowerless
        <4> QED BY <2>6, <4>3, <4>4
      <3> QED BY <2>6, <3>1 DEF LaterPowerless
    <2> QED
      BY <1>1, <2>6, <2>7, PowerlessByPosition DEF Keeps, Typed, users
  <1>5. ASSUME NEW name \in UserNames, NEW n \in AaaNumbers, cmd_user_privilege(name, n)
        PROVE  Keeps("user") /\ DuplicatesPowerless' /\ UNCHANGED aaa_enabled
    <2>1. Uint8(n) \in 0 .. 15
      <3>1. n \in Int /\ Uint8(n) <= 15
        BY <1>5, AaaAssumption DEF cmd_user_privilege
      <3> QED BY <3>1 DEF Uint8
    <2>2. \A e \in User : LET f == [e EXCEPT !["privilege_level"] = Uint8(n)]
                          IN f \in User /\ f.name = e.name
      BY <2>1 DEF User
    <2> QED BY <1>4, <1>5, <2>2 DEF cmd_user_privilege
  <1>6. ASSUME NEW name \in UserNames, NEW service \in Services,
               cmd_user_service_type(name, service)
        PROVE  Keeps("user") /\ DuplicatesPowerless' /\ UNCHANGED aaa_enabled
    <2>1. \A e \in User : LET f == [e EXCEPT !["service_type"] = service]
                          IN /\ f \in User /\ f.name = e.name
                             /\ f.privilege_level = e.privilege_level
      BY DEF User
    <2> QED BY <1>4, <1>6, <2>1 DEF cmd_user_service_type
  <1>7. ASSUME NEW server \in Servers, NEW port \in AaaNumbers \cup {1812},
               cmd_radius_server(server, port)
        PROVE  Keeps("radius") /\ UNCHANGED aaa_enabled
    <2>1. Uint16(port) \in Word16
      <3>1. port \in Int
        BY AaaAssumption
      <3> QED BY <3>1, Uint16InRange
    <2>2. [name |-> server, auth_port |-> Uint16(port)] \in Fitting("radius")
      BY <2>1, RadiusFits
    <2> QED BY <1>7, <2>2, AppendingIsTyped DEF cmd_radius_server
  <1>8. ASSUME cmd_aaa
        PROVE  UNCHANGED tableVars /\ aaa_enabled' = TRUE
    BY <1>8 DEF cmd_aaa
  <1>9. CASE \E name \in UserNames :
                \/ \E password \in Passwords : cmd_local_user(name, password)
                \/ \E n \in AaaNumbers : cmd_user_privilege(name, n)
                \/ \E service \in Services : cmd_user_service_type(name, service)
    <2>1. PICK name \in UserNames :
                \/ \E password \in Passwords : cmd_local_user(name, password)
                \/ \E n \in AaaNumbers : cmd_user_privilege(name, n)
                \/ \E service \in Services : cmd_user_service_type(name, service)
      BY <1>9
    <2> QED BY <1>3, <1>5, <1>6, <2>1
  <1>10. CASE \E server \in Servers, port \in AaaNumbers \cup {1812} :
                cmd_radius_server(server, port)
    BY <1>7, <1>10
  <1>11. CASE cmd_aaa
    BY <1>8, <1>11
  <1>12. \/ cmd_aaa
         \/ \E name \in UserNames :
                \/ \E password \in Passwords : cmd_local_user(name, password)
                \/ \E n \in AaaNumbers : cmd_user_privilege(name, n)
                \/ \E service \in Services : cmd_user_service_type(name, service)
         \/ \E server \in Servers, port \in AaaNumbers \cup {1812} :
                cmd_radius_server(server, port)
    BY DEF AaaNext
  <1> QED
    BY ONLY <1>9, <1>10, <1>11, <1>12

-----------------------------------------------------------------------------
(* VLANs and the devices of the kernel. *)
Devices == {"none", "eth0.N", "vlanN"}

KernelTyped == links \in [Ids -> Devices] /\ addresses \in [Ids -> SUBSET IpAddresses]

VlanFits == \A e : e \in Fitting("vlan") <=> e \in VlanConfig
VlanifFits == \A e : e \in Fitting("vlanif") <=> e \in VlanifConfig

(* The entries of the two tables of VLANs. *)
LEMMA VlansFit == VlanFits /\ VlanifFits
  BY DEF Fitting, Sized, RecordOf, VlanFits, VlanifFits

(* A number with an entry. *)
Listed(s, n) == \E i \in 1 .. Len(s) : s[i].name = n

(* The search finds what is listed. *)
LEMMA PositionListed ==
    ASSUME NEW kind, NEW n
    PROVE  /\ Len(tables[kind]) \in Nat
                => (Position(kind, n) # Null <=> Listed(tables[kind], n))
           /\ Len(tables'[kind]) \in Nat
                => (Position(kind, n)' # Null <=> Listed(tables'[kind], n))
  <1> DEFINE I(s) == {j \in 1 .. Len(s) : s[j].name = n}
  <1>1. /\ Position(kind, n) = IF I(tables[kind]) # {} THEN Min(I(tables[kind])) ELSE Null
        /\ Position(kind, n)' = IF I(tables'[kind]) # {} THEN Min(I(tables'[kind])) ELSE Null
    BY DEF Position, SelectInSeq, Null
  <1>2. ASSUME NEW s, Len(s) \in Nat, I(s) # {}
        PROVE  Min(I(s)) # Null
    <2>1. I(s) \in SUBSET Nat /\ 0 \notin I(s)
      BY <1>2
    <2> HIDE DEF I
    <2>2. Min(I(s)) \in I(s)
      BY <1>2, <2>1, LeastIndex
    <2> QED BY <2>1, <2>2 DEF Null
  <1>3. ASSUME NEW s
        PROVE  I(s) # {} <=> Listed(s, n)
    BY DEF Listed
  <1> HIDE DEF I
  <1> QED BY <1>1, <1>2, <1>3

(* The devices and the tables, said of the tables as sequences. *)
Accounted(vlans, vlanifs, devices, installed) ==
    \A n \in Ids : /\ devices[n] = "eth0.N" => Listed(vlans, n)
                   /\ devices[n] = "vlanN" => Listed(vlanifs, n)
                   /\ installed[n] # {} => devices[n] = "vlanN"

(* DevicesAccountedFor in these terms, before a step *)
LEMMA AccountedBefore ==
    ASSUME Len(tables["vlan"]) \in Nat, Len(tables["vlanif"]) \in Nat
    PROVE  DevicesAccountedFor
             <=> Accounted(tables["vlan"], tables["vlanif"], links, addresses)
  BY PositionListed DEF DevicesAccountedFor, Accounted

(* and after it. *)
LEMMA AccountedAfter ==
    ASSUME Len(tables'["vlan"]) \in Nat, Len(tables'["vlanif"]) \in Nat
    PROVE  DevicesAccountedFor'
             <=> Accounted(tables'["vlan"], tables'["vlanif"], links', addresses')
  BY PositionListed DEF DevicesAccountedFor, Accounted

(* Removing an entry loses no other one. *)
LEMMA Removing ==
    ASSUME NEW S, NEW s \in Seq(S), NEW i \in 1 .. Len(s)
    PROVE  /\ RemoveAt(s, i) \in Seq(S)
           /\ Len(RemoveAt(s, i)) = Len(s) - 1
           /\ \A j \in 1 .. Len(s) : j # i =>
                 \E k \in 1 .. Len(RemoveAt(s, i)) : RemoveAt(s, i)[k] = s[j]
  <1> DEFINE front == SubSeq(s, 1, i - 1)
             back == SubSeq(s, i + 1, Len(s))
             t == front \o back
  <1>1. Len(s) \in Nat /\ \A j \in 1 .. Len(s) : s[j] \in S
    BY LenProperties, ElementOfSeq
  <1>2. /\ front \in Seq(S) /\ Len(front) = i - 1
        /\ \A j \in 1 .. i - 1 : front[j] = s[j]
    <2>1. \A j \in 1 .. i - 1 : s[j] \in S
      BY <1>1
    <2>2. /\ front \in Seq(S)
          /\ Len(front) = IF 1 <= i - 1 THEN i - 1 - 1 + 1 ELSE 0
          /\ \A j \in 1 .. i - 1 - 1 + 1 : front[j] = s[1 + j - 1]
      BY <1>1, <2>1, SubSeqProperties
    <2> HIDE DEF front
    <2> QED BY <1>1, <2>2
  <1>3. /\ back \in Seq(S) /\ Len(back) = Len(s) - i
        /\ \A j \in 1 .. Len(s) - i : back[j] = s[i + j]
    <2>1. \A j \in i + 1 .. Len(s) : s[j] \in S
      BY <1>1
    <2>2. /\ back \in Seq(S)
          /\ Len(back) = IF i + 1 <= Len(s) THEN Len(s) - (i + 1) + 1 ELSE 0
          /\ \A j \in 1 .. Len(s) - (i + 1) + 1 : back[j] = s[i + 1 + j - 1]
      BY <1>1, <2>1, SubSeqProperties
    <2> HIDE DEF back
    <2> QED BY <1>1, <2>2
  <1> HIDE DEF front, back
  <1>4. /\ t \in Seq(S) /\ Len(t) = Len(front) + Len(back)
        /\ \A j \in 1 .. Len(front) + Len(back) :
              t[j] = IF j <= Len(front) THEN front[j] ELSE back[j - Len(front)]
    BY <1>2, <1>3, ConcatProperties
  <1> HIDE DEF t
  <1>5. ASSUME NEW j \in 1 .. Len(s), j # i
        PROVE  \E k \in 1 .. Len(t) : t[k] = s[j]
    <2>1. CASE j < i
      <3>1. j \in 1 .. Len(front) /\ j \in 1 .. Len(t) /\ j <= Len(front)
        BY <1>1, <1>2, <1>3, <1>4, <2>1
      <3>2. t[j] = front[j]
        BY <1>1, <1>2, <1>3, <1>4, <3>1
      <3>3. front[j] = s[j]
        BY <1>2, <3>1
      <3> QED BY <3>1, <3>2, <3>3
    <2>2. CASE j > i
      <3>1. j - 1 \in 1 .. Len(t) /\ t[j - 1] = s[j]
        BY <1>1, <1>2, <1>3, <1>4, <2>2
      <3> QED BY <3>1
    <2> QED BY <1>1, <1>5, <2>1, <2>2
  <1>6. t \in Seq(S) /\ Len(t) = Len(s) - 1
    BY <1>1, <1>2, <1>3, <1>4
  <1> QED BY <1>5, <1>6 DEF RemoveAt, t, front, back

(* A VLAN or its interface is found or added. *)
LEMMA Numbered ==
    ASSUME NEW kind, Sound(kind), NEW new \in Fitting(kind), EnterNumbered(kind, new)
    PROVE  /\ Keeps(kind)
           /\ Listed(tables'[kind], new.name)
           /\ \A n : Listed(tables[kind], n) => Listed(tables'[kind], n)
  <1>1. tables[kind] \in Seq(Fitting(kind)) /\ Len(tables[kind]) \in Nat
    BY LenProperties DEF Sound, Typed
  <1>2. /\ tables' = [tables EXCEPT ![kind] = WithEntry(kind, new)]
        /\ prompt' = Announced(kind, new.name)
        /\ current' = current
        /\ Position(kind, new.name) # Null \/ HasRoom(kind)
    BY DEF EnterNumbered
  <1>3. Arrays' /\ OthersKept(kind)
    BY <1>2 DEF Sound, Arrays, OthersKept, Announced
  <1>4. tables'[kind] = WithEntry(kind, new) /\ current'[kind] = current[kind]
    BY <1>2 DEF Sound, Arrays
  <1>5. \/ Listed(tables[kind], new.name) /\ WithEntry(kind, new) = tables[kind]
        \/ HasRoom(kind) /\ WithEntry(kind, new) = Append(tables[kind], new)
    <2>1. CASE Position(kind, new.name) = Null
      BY <1>2, <2>1 DEF WithEntry
    <2>2. CASE Position(kind, new.name) # Null
      BY <1>1, <2>2, SearchByName DEF WithEntry, Listed
    <2> QED BY <2>1, <2>2
  <1>6. CASE Listed(tables[kind], new.name) /\ WithEntry(kind, new) = tables[kind]
    BY <1>3, <1>4, <1>6 DEF Keeps, Sound, Typed
  <1>7. CASE HasRoom(kind) /\ WithEntry(kind, new) = Append(tables[kind], new)
    <2>1. /\ tables'[kind] \in Seq(Fitting(kind))
          /\ Len(tables'[kind]) = Len(tables[kind]) + 1
          /\ Len(tables'[kind]) <= Capacity[kind]
          /\ \A j \in 1 .. Len(tables[kind]) : tables'[kind][j] = tables[kind][j]
          /\ tables'[kind][Len(tables[kind]) + 1] = new
      BY <1>4, <1>7, AppendingKeeps DEF Sound
    <2>2. Typed(kind)'
      <3>1. current'[kind] \in 0 .. Len(tables'[kind])
        BY <1>1, <1>4, <2>1 DEF Sound, Typed
      <3> QED BY <2>1, <3>1 DEF Typed
    <2>3. Listed(tables'[kind], new.name)
      BY <1>1, <2>1 DEF Listed
    <2>4. ASSUME NEW n, Listed(tables[kind], n)
          PROVE  Listed(tables'[kind], n)
      BY <1>1, <2>1, <2>4 DEF Listed
    <2> QED BY <1>3, <1>4, <2>2, <2>3, <2>4 DEF Keeps
  <1> QED BY <1>5, <1>6, <1>7

(* What the kernel does to the device of an id. *)
LEMMA LinkAdded ==
    ASSUME links \in [Ids -> Devices], NEW n \in Ids, NEW device \in Devices,
           LinkAdd(n, device)
    PROVE  /\ links' \in [Ids -> Devices]
           /\ \A m \in Ids : \/ links'[m] = links[m]
                             \/ m = n /\ links[m] = "none" /\ links'[m] = device
  <1>1. CASE links[n] = "none"
    <2>1. links' = [links EXCEPT ![n] = device]
      BY <1>1 DEF LinkAdd
    <2> QED BY <1>1, <2>1
  <1>2. CASE links[n] # "none"
    <2>1. links' = links
      BY <1>2 DEF LinkAdd
    <2> QED BY <2>1
  <1> QED BY <1>1, <1>2

(* Only the device of the VLAN itself is deleted. *)
LEMMA LinkDeleted ==
    ASSUME links \in [Ids -> Devices], NEW n \in Ids, LinkDelete(n)
    PROVE  /\ links' \in [Ids -> Devices]
           /\ links'[n] # "eth0.N"
           /\ \A m \in Ids : \/ links'[m] = links[m]
                             \/ m = n /\ links[m] = "eth0.N" /\ links'[m] = "none"
  <1>1. "none" \in Devices
    BY DEF Devices
  <1>2. CASE links[n] = "eth0.N"
    <2>1. links' = [links EXCEPT ![n] = "none"]
      BY <1>2 DEF LinkDelete
    <2> QED BY <1>1, <1>2, <2>1
  <1>3. CASE links[n] # "eth0.N"
    <2>1. links' = links
      BY <1>3 DEF LinkDelete
    <2> QED BY <1>3, <2>1
  <1> QED BY <1>2, <1>3

(* Every VLAN command keeps tables and devices in accord. *)
LEMMA VlanKeeps ==
    ASSUME Sound("vlan"), Sound("vlanif"), current["vlan"] = Null, KernelTyped,
           DevicesAccountedFor, VlanNext
    PROVE  /\ Keeps("vlan") \/ Keeps("vlanif")
           /\ KernelTyped' /\ DevicesAccountedFor'
  <1> DEFINE vlans == tables["vlan"]
             vlanifs == tables["vlanif"]
             After == Accounted(tables'["vlan"], tables'["vlanif"], links', addresses')
  <1>0. Sound("vlan") /\ Sound("vlanif")
    OBVIOUS
  <1>1. /\ vlans \in Seq(Fitting("vlan")) /\ Len(vlans) \in Nat
        /\ vlanifs \in Seq(Fitting("vlanif")) /\ Len(vlanifs) \in Nat
        /\ links \in [Ids -> Devices] /\ addresses \in [Ids -> SUBSET IpAddresses]
        /\ "vlan" \in Kinds /\ "vlanif" \in Kinds
    BY LenProperties DEF Sound, Typed, KernelTyped
  <1>2. Accounted(vlans, vlanifs, links, addresses)
    BY <1>1, AccountedBefore
  <1>3. ASSUME Keeps("vlan") \/ Keeps("vlanif"), KernelTyped', After
        PROVE  /\ Keeps("vlan") \/ Keeps("vlanif")
               /\ KernelTyped' /\ DevicesAccountedFor'
    <2>1. Typed("vlan")' /\ Typed("vlanif")'
      BY <1>1, <1>3 DEF Keeps, OthersKept, Sound, Typed
    <2>2. Len(tables'["vlan"]) \in Nat /\ Len(tables'["vlanif"]) \in Nat
      BY <2>1, LenProperties DEF Typed
    <2> QED BY <1>3, <2>2, AccountedAfter
  <1>4. ASSUME NEW typed \in VlanIds, cmd_vlan(typed)
        PROVE  (Keeps("vlan") \/ Keeps("vlanif")) /\ KernelTyped' /\ After
    <2> DEFINE n == Uint16(typed)
    <2>1. n \in Ids /\ EnterNumbered("vlan", NewVlan(n)) /\ LinkAdd(n, "eth0.N")
      BY <1>4 DEF cmd_vlan, Ids
    <2>2. addresses' = addresses
      BY <1>4 DEF cmd_vlan
    <2> HIDE DEF n
    <2>3. NewVlan(n) \in Fitting("vlan") /\ NewVlan(n).name = n
      BY <2>1, VlansFit DEF VlanFits, NewVlan, VlanConfig
    <2>4. /\ Keeps("vlan") /\ Listed(tables'["vlan"], n)
          /\ \A m : Listed(vlans, m) => Listed(tables'["vlan"], m)
      BY <2>1, <2>3, Numbered
    <2>5. tables'["vlanif"] = vlanifs
      BY <1>1, <2>4 DEF Keeps, OthersKept
    <2>6. /\ links' \in [Ids -> Devices]
          /\ \A m \in Ids : \/ links'[m] = links[m]
                            \/ m = n /\ links[m] = "none" /\ links'[m] = "eth0.N"
      <3>1. "eth0.N" \in Devices /\ "vlanN" \in Devices
        BY DEF Devices
      <3> QED BY <1>1, <2>1, <3>1, LinkAdded
    <2>7. KernelTyped'
      BY <1>1, <2>2, <2>6 DEF KernelTyped
    <2>8. After
      BY <1>2, <2>2, <2>4, <2>5, <2>6 DEF Accounted
    <2> QED BY <2>4, <2>7, <2>8
  <1>5. ASSUME NEW typed \in VlanIds, cmd_interface_vlanif(typed)
        PROVE  (Keeps("vlan") \/ Keeps("vlanif")) /\ KernelTyped' /\ After
    <2> DEFINE n == Uint16(typed)
    <2>1. n \in Ids /\ EnterNumbered("vlanif", NewVlanif(n)) /\ LinkAdd(n, "vlanN")
      BY <1>5 DEF cmd_interface_vlanif, Ids
    <2>2. addresses' = addresses
      BY <1>5 DEF cmd_interface_vlanif
    <2> HIDE DEF n
    <2>3. NewVlanif(n) \in Fitting("vlanif") /\ NewVlanif(n).name = n
      BY <2>1, VlansFit DEF VlanifFits, NewVlanif, VlanifConfig
    <2>4. /\ Keeps("vlanif") /\ Listed(tables'["vlanif"], n)
          /\ \A m : Listed(vlanifs, m) => Listed(tables'["vlanif"], m)
      BY <2>1, <2>3, Numbered
    <2>5. tables'["vlan"] = vlans
      BY <1>1, <2>4 DEF Keeps, OthersKept
    <2>6. /\ links' \in [Ids -> Devices]
          /\ \A m \in Ids : \/ links'[m] = links[m]
                            \/ m = n /\ links[m] = "none" /\ links'[m] = "vlanN"
      <3>1. "eth0.N" \in Devices /\ "vlanN" \in Devices
        BY DEF Devices
      <3> QED BY <1>1, <2>1, <3>1, LinkAdded
    <2>7. KernelTyped'
      BY <1>1, <2>2, <2>6 DEF KernelTyped
    <2>8. After
      BY <1>2, <2>2, <2>4, <2>5, <2>6 DEF Accounted
    <2> QED BY <2>4, <2>7, <2>8
  <1>6. ASSUME NEW typed \in VlanIds, cmd_undo_vlan(typed)
        PROVE  (Keeps("vlan") \/ Keeps("vlanif")) /\ KernelTyped' /\ After
    <2> DEFINE n == Uint16(typed)
               i == Position("vlan", n)
    <2>1. /\ i # Null
          /\ tables' = [tables EXCEPT !["vlan"] = RemoveAt(vlans, i)]
          /\ LinkDelete(n)
          /\ current' = current /\ prompt' = prompt /\ addresses' = addresses
      BY <1>6 DEF cmd_undo_vlan
    <2>2. i \in 1 .. Len(vlans) /\ vlans[i].name = n
      BY <1>1, <2>1, SearchByName
    <2> HIDE DEF i, n
    <2>3. Arrays' /\ OthersKept("vlan") /\ tables'["vlan"] = RemoveAt(vlans, i)
      BY <1>1, <2>1 DEF Sound, Arrays, OthersKept
    <2>4. /\ RemoveAt(vlans, i) \in Seq(Fitting("vlan"))
          /\ Len(RemoveAt(vlans, i)) = Len(vlans) - 1
          /\ \A j \in 1 .. Len(vlans) : j # i =>
                \E k \in 1 .. Len(RemoveAt(vlans, i)) : RemoveAt(vlans, i)[k] = vlans[j]
      BY <1>1, <2>2, Removing
    <2>5. Keeps("vlan")
      <3>1. Len(vlans) <= Capacity["vlan"] /\ Capacity["vlan"] \in Nat
        BY <1>1, TablesAssumption DEF Sound, Typed
      <3>2. Len(tables'["vlan"]) <= Capacity["vlan"] /\ Len(tables'["vlan"]) \in Nat
        BY <1>1, <2>2, <2>3, <2>4, <3>1
      <3>3. current'["vlan"] = Null /\ Null \in 0 .. Len(tables'["vlan"])
        BY <2>1, <3>2 DEF Null
      <3> QED BY <2>3, <2>4, <3>2, <3>3 DEF Keeps, Typed
    <2>6. ASSUME NEW m, m # n, Listed(vlans, m)
          PROVE  Listed(tables'["vlan"], m)
      <3>1. PICK j \in 1 .. Len(vlans) : vlans[j].name = m
        BY <2>6 DEF Listed
      <3>2. PICK k \in 1 .. Len(RemoveAt(vlans, i)) : RemoveAt(vlans, i)[k] = vlans[j]
        BY <2>2, <2>4, <2>6, <3>1
      <3> QED BY <2>3, <3>1, <3>2 DEF Listed
    <2>7. tables'["vlanif"] = vlanifs
      BY <1>1, <2>3 DEF OthersKept
    <2>8. n \in Ids
      <3>1. vlans[i] \in VlanConfig
        BY <1>1, <2>2, VlansFit, ElementOfSeq DEF VlanFits
      <3> QED BY <2>2, <3>1 DEF VlanConfig
    <2>9. /\ links' \in [Ids -> Devices]
          /\ links'[n] # "eth0.N"
          /\ \A m \in Ids : \/ links'[m] = links[m]
                            \/ m = n /\ links[m] = "eth0.N" /\ links'[m] = "none"
      BY <1>1, <2>1, <2>8, LinkDeleted
    <2>10. KernelTyped'
      BY <1>1, <2>1, <2>9 DEF KernelTyped
    <2>11. After
      BY <1>2, <2>1, <2>6, <2>7, <2>9 DEF Accounted
    <2> QED BY <2>5, <2>10, <2>11
  <1>7. ASSUME NEW text \in VlanTexts, cmd_vlan_description(text)
        PROVE  (Keeps("vlan") \/ Keeps("vlanif")) /\ KernelTyped' /\ After
    <2> DEFINE i == Len(vlans)
               f == [vlans[i] EXCEPT !["description"] = text]
    <2>1. /\ SetIn("vlan", i, "description", text)
          /\ links' = links /\ addresses' = addresses
      BY <1>7 DEF cmd_vlan_description, kernelVars
    <2>2. i \in 1 .. Len(vlans)
      BY <1>1, <2>1, LenProperties DEF SetIn
    <2>3. vlans[i] \in VlanConfig
      BY <1>1, <2>2, VlansFit, ElementOfSeq DEF VlanFits
    <2>4. f \in VlanConfig /\ f.name = vlans[i].name
      BY <2>3 DEF VlanConfig
    <2>5. f \in Successors("vlan", vlans[i])
      <3> HIDE DEF f
      <3> QED BY <2>4, VlansFit, PlainSuccessors DEF VlanFits
    <2>6. /\ Keeps("vlan") /\ Len(tables'["vlan"]) = Len(vlans)
          /\ \A j \in 1 .. Len(vlans) : tables'["vlan"][j] = IF j = i THEN f ELSE vlans[j]
      <3>1. /\ SetIn("vlan", i, "description", text)
            /\ [vlans[i] EXCEPT !["description"] = text] \in Successors("vlan", vlans[i])
        BY <2>1, <2>5
      <3> HIDE DEF i
      <3> QED BY ONLY <1>0, <3>1, SettingIsTyped
    <2> HIDE DEF f, i
    <2>7. \A m : Listed(vlans, m) => Listed(tables'["vlan"], m)
      BY <2>4, <2>6 DEF Listed
    <2>8. tables'["vlanif"] = vlanifs
      BY <1>1, <2>6 DEF Keeps, OthersKept
    <2>9. KernelTyped' /\ After
      BY <1>1, <1>2, <2>1, <2>7, <2>8 DEF Accounted, KernelTyped
    <2> QED BY <2>6, <2>9
  <1>8. ASSUME NEW ip \in IpAddresses, cmd_vlanif_ip_address(ip)
        PROVE  (Keeps("vlan") \/ Keeps("vlanif")) /\ KernelTyped' /\ After
    <2> DEFINE i == Len(vlanifs)
               f == [vlanifs[i] EXCEPT !["ip_address"] = ip]
               n == vlanifs[i].name
    <2>1. /\ SetIn("vlanif", i, "ip_address", ip)
          /\ links' = links /\ AddrAdd(n, ip)
      BY <1>8 DEF cmd_vlanif_ip_address, Last
    <2>2. i \in 1 .. Len(vlanifs)
      BY <1>1, <2>1, LenProperties DEF SetIn
    <2>3. vlanifs[i] \in VlanifConfig /\ n \in Ids
      BY <1>1, <2>2, VlansFit, ElementOfSeq DEF VlanifFits, VlanifConfig
    <2>4. f \in VlanifConfig /\ f.name = vlanifs[i].name
      BY <2>3 DEF VlanifConfig
    <2>5. f \in Successors("vlanif", vlanifs[i])
      <3> HIDE DEF f
      <3> QED BY <2>4, VlansFit, PlainSuccessors DEF VlanifFits
    <2>6. /\ Keeps("vlanif") /\ Len(tables'["vlanif"]) = Len(vlanifs)
          /\ \A j \in 1 .. Len(vlanifs) :
                tables'["vlanif"][j] = IF j = i THEN f ELSE vlanifs[j]
      <3>1. /\ SetIn("vlanif", i, "ip_address", ip)
            /\ [vlanifs[i] EXCEPT !["ip_address"] = ip] \in Successors("vlanif", vlanifs[i])
        BY <2>1, <2>5
      <3> HIDE DEF i
      <3> QED BY ONLY <1>0, <3>1, SettingIsTyped
    <2> HIDE DEF f, i, n
    <2>7. \A m : Listed(vlanifs, m) => Listed(tables'["vlanif"], m)
      BY <2>4, <2>6 DEF Listed
    <2>8. tables'["vlan"] = vlans
      BY <1>1, <2>6 DEF Keeps, OthersKept
    <2>9. /\ addresses' \in [Ids -> SUBSET IpAddresses]
          /\ \A m \in Ids : addresses'[m] = addresses[m] \/ links[m] = "vlanN"
      BY <1>1, <2>1, <2>3 DEF AddrAdd
    <2>10. KernelTyped' /\ After
      BY <1>1, <1>2, <2>1, <2>7, <2>8, <2>9 DEF Accounted, KernelTyped
    <2> QED BY <2>6, <2>10
  <1> HIDE DEF After
  <1> QED
    BY <1>3, <1>4, <1>5, <1>6, <1>7, <1>8 DEF VlanNext

-----------------------------------------------------------------------------
(* Sub-interfaces. *)
LEMMA SubifFits ==
    ASSUME NEW e
    PROVE  e \in Fitting("subif") <=> e \in [name : Parents \X Word16, vlan_id : Word16]
  BY DEF Fitting, Sized, RecordOf, Subif, Word16

(* Every sub-interface command keeps the sub-interfaces well formed. *)
LEMMA SubifKeeps ==
    ASSUME Sound("subif"), SubifNext
    PROVE  Keeps("subif") /\ UNCHANGED kernelVars
  <1>1. tables["subif"] \in Seq(Fitting("subif")) /\ Len(tables["subif"]) \in Nat
    BY LenProperties DEF Sound, Typed
  <1>2. ASSUME NEW n \in VlanIds
        PROVE  Uint16(n) \in Word16
    <2>1. n \in Int
      BY VlanAssumption
    <2> QED BY <2>1, Uint16InRange
  <1>3. ASSUME NEW parent \in Parents, NEW n \in VlanIds, cmd_interface_subif(parent, n)
        PROVE  Keeps("subif") /\ UNCHANGED kernelVars
    <2> DEFINE name == <<parent, Uint16(n)>>
               e == [name |-> name, vlan_id |-> 0]
    <2>1. e \in Fitting("subif")
      <3>1. 0 \in Word16
        BY DEF Word16
      <3> QED BY <1>2, <3>1, SubifFits
    <2>2. /\ tables' = [tables EXCEPT !["subif"] =
                            IF HasRoom("subif") THEN Append(tables["subif"], e)
                            ELSE tables["subif"]]
          /\ prompt' = Announced("subif", name)
          /\ current' = current /\ UNCHANGED kernelVars
      BY <1>3 DEF cmd_interface_subif
    <2> HIDE DEF e, name
    <2>3. /\ Arrays' /\ OthersKept("subif") /\ current'["subif"] = current["subif"]
          /\ tables'["subif"] = IF HasRoom("subif") THEN Append(tables["subif"], e)
                                ELSE tables["subif"]
      BY <2>2 DEF Sound, Arrays, OthersKept, Announced
    <2>4. CASE HasRoom("subif")
      <3>1. /\ tables'["subif"] \in Seq(Fitting("subif"))
            /\ Len(tables'["subif"]) = Len(tables["subif"]) + 1
            /\ Len(tables'["subif"]) <= Capacity["subif"]
        BY <2>1, <2>3, <2>4, AppendingKeeps DEF Sound
      <3>2. current'["subif"] \in 0 .. Len(tables'["subif"])
        BY <1>1, <2>3, <3>1 DEF Sound, Typed
      <3> QED BY <2>2, <2>3, <3>1, <3>2 DEF Keeps, Typed
    <2>5. CASE ~HasRoom("subif")
      BY <2>2, <2>3, <2>5 DEF Keeps, Sound, Typed
    <2> QED BY <2>4, <2>5
  <1>4. ASSUME NEW n \in VlanIds, cmd_dot1q_termination(n)
        PROVE  Keeps("subif") /\ UNCHANGED kernelVars
    <2> DEFINE i == Len(tables["subif"])
               e == tables["subif"][i]
               f == [e EXCEPT !["vlan_id"] = Uint16(n)]
    <2>1. SetIn("subif", i, "vlan_id", Uint16(n)) /\ UNCHANGED kernelVars
      BY <1>4 DEF cmd_dot1q_termination
    <2>2. i \in 1 .. Len(tables["subif"])
      BY <1>1, <2>1, LenProperties DEF SetIn
    <2>3. e \in [name : Parents \X Word16, vlan_id : Word16]
      BY <1>1, <2>2, SubifFits, ElementOfSeq
    <2>4. f \in [name : Parents \X Word16, vlan_id : Word16] /\ f.name = e.name
      BY <1>2, <2>3
    <2>5. f \in Successors("subif", e)
      <3> HIDE DEF f
      <3> QED BY <2>4, SubifFits, PlainSuccessors
    <2> QED BY <2>1, <2>5, SettingIsTyped
  <1> QED
    BY <1>3, <1>4 DEF SubifNext

-----------------------------------------------------------------------------
(* The steps of the whole.  Nothing else changes when a table with a view  *)
(* does.                                                                   *)
Calm == UNCHANGED kernelVars /\ UNCHANGED aaa_enabled

Plain == {"nat_outbound", "nat_server", "radius", "subif"}

(* The tables, by what kind of step they take. *)
LEMMA KindsNamed ==
    /\ Pointed \subseteq Kinds /\ Plain \subseteq Kinds
    /\ {"user", "vlan", "vlanif"} \subseteq Kinds
    /\ Kinds \ Pointed = Plain \cup {"user", "vlan", "vlanif"}
    /\ Pointed = {"zone", "rule", "acl", "classifier", "behavior", "traffic_policy",
                  "queue_profile", "tunnel", "vrrp", "bfd", "track", "policy"}
  BY CliTablesAssumption DEF Viewed, AppendOnly, Pointed, Plain

(* Every command is about one table: it is a step of its view, or leaves   *)
(* the table well formed, and what is more of users and VLANs.             *)
Outcome ==
    \/ \E kind \in Pointed : Touches(kind) /\ Calm
    \/ \E kind \in Plain : Keeps(kind) /\ Calm
    \/ Keeps("user") /\ DuplicatesPowerless' /\ Calm
    \/ UNCHANGED tableVars /\ UNCHANGED kernelVars /\ aaa_enabled' = TRUE
    \/ /\ Keeps("vlan") \/ Keeps("vlanif")
       /\ KernelTyped' /\ DevicesAccountedFor' /\ UNCHANGED aaa_enabled

(* There are no other steps: one case per component. *)
LEMMA EveryStepHasAnOutcome ==
    ASSUME IInv, Next
    PROVE  Outcome
  <1>1. \A kind \in Kinds : Sound(kind)
    BY DEF IInv, Sound
  <1>2. /\ Pointed \subseteq Kinds /\ Plain \subseteq Kinds
        /\ {"user", "vlan", "vlanif"} \subseteq Kinds
        /\ Kinds \ Pointed = Plain \cup {"user", "vlan", "vlanif"}
        /\ Pointed = {"zone", "rule", "acl", "classifier", "behavior", "traffic_policy",
                      "queue_profile", "tunnel", "vrrp", "bfd", "track", "policy"}
    BY KindsNamed
  <1>3. CASE Other(ZoneNext)
    <2>1. "zone" \in Pointed /\ Sound("zone") /\ ZoneNext /\ Calm
      BY <1>1, <1>2, <1>3 DEF Other, Calm, kernelVars
    <2> QED BY <2>1, ZoneTouches DEF Outcome
  <1>4. CASE Other(AclNext)
    <2>1. "acl" \in Pointed /\ Sound("acl") /\ AclNext /\ Calm
      BY <1>1, <1>2, <1>4 DEF Other, Calm, kernelVars
    <2> QED BY <2>1, AclTouches DEF Outcome
  <1>5. CASE Other(ClassifierNext)
    <2>1. "classifier" \in Pointed /\ Sound("classifier") /\ ClassifierNext /\ Calm
      BY <1>1, <1>2, <1>5 DEF Other, Calm, kernelVars
    <2> QED BY <2>1, ClassifierTouches DEF Outcome
  <1>6. CASE Other(BehaviorNext)
    <2>1. "behavior" \in Pointed /\ Sound("behavior") /\ BehaviorNext /\ Calm
      BY <1>1, <1>2, <1>6 DEF Other, Calm, kernelVars
    <2> QED BY <2>1, BehaviorTouches DEF Outcome
  <1>7. CASE Other(TrafficPolicyNext)
    <2>1. "traffic_policy" \in Pointed /\ Sound("traffic_policy") /\ TrafficPolicyNext /\ Calm
      BY <1>1, <1>2, <1>7 DEF Other, Calm, kernelVars
    <2> QED BY <2>1, TrafficPolicyTouches DEF Outcome
  <1>8. CASE Other(QueueNext)
    <2>1. "queue_profile" \in Pointed /\ Sound("queue_profile") /\ QueueNext /\ Calm
      BY <1>1, <1>2, <1>8 DEF Other, Calm, kernelVars
    <2> QED BY <2>1, QueueTouches DEF Outcome
  <1>9. CASE Other(VrrpNext)
    <2>1. "vrrp" \in Pointed /\ Sound("vrrp") /\ VrrpNext /\ Calm
      BY <1>1, <1>2, <1>9 DEF Other, Calm, kernelVars
    <2> QED BY <2>1, VrrpTouches DEF Outcome
  <1>10. CASE Other(BfdNext)
    <2>1. "bfd" \in Pointed /\ Sound("bfd") /\ BfdNext /\ Calm
      BY <1>1, <1>2, <1>10 DEF Other, Calm, kernelVars
    <2> QED BY <2>1, BfdTouches DEF Outcome
  <1>11. CASE Other(TrackNext)
    <2>1. "track" \in Pointed /\ Sound("track") /\ TrackNext /\ Calm
      BY <1>1, <1>2, <1>11 DEF Other, Calm, kernelVars
    <2> QED BY <2>1, TrackTouches DEF Outcome
  <1>12. CASE Other(SecurityPolicyNext)
    <2>1. /\ "policy" \in Pointed /\ Sound("policy")
          /\ "rule" \in Pointed /\ Sound("rule") /\ Calm
      BY <1>1, <1>2, <1>12 DEF Other, Calm, kernelVars
    <2>2. CASE cmd_security_policy
      BY <2>1, <2>2, PolicyTouches DEF Outcome
    <2>3. CASE \/ \E name \in RuleNames : cmd_security_rule(name)
               \/ \E field \in RuleFields, text \in RuleTexts : cmd_rule_match(field, text)
               \/ \E action \in RuleActions : cmd_rule_action(action)
      BY <2>1, <2>3, RuleTouches DEF Outcome
    <2> QED BY <2>2, <2>3, <1>12 DEF Other, SecurityPolicyNext
  <1>13. CASE Other(NatNext)
    <2>1. /\ "nat_outbound" \in Plain /\ Sound("nat_outbound")
          /\ "nat_server" \in Plain /\ Sound("nat_server") /\ NatNext /\ Calm
      BY <1>1, <1>2, <1>13 DEF Other, Calm, kernelVars, Plain
    <2> QED BY <2>1, NatKeeps DEF Outcome
  <1>14. CASE AaaNext /\ UNCHANGED kernelVars
    <2>1. Sound("user") /\ Sound("radius") /\ "radius" \in Plain /\ DuplicatesPowerless
      BY <1>1, <1>2 DEF IInv, Plain
    <2> QED BY <2>1, <1>14, AaaKeeps DEF Outcome, Calm
  <1>15. CASE TunnelNext /\ UNCHANGED kernelVars
    <2>1. "tunnel" \in Pointed /\ Sound("tunnel")
      BY <1>1, <1>2
    <2> QED BY <2>1, <1>15, TunnelTouches DEF Outcome, Calm
  <1>16. CASE VlanNext /\ UNCHANGED aaa_enabled
    <2>1. Sound("vlan") /\ Sound("vlanif")
      BY <1>1, <1>2
    <2>2. current["vlan"] = Null /\ KernelTyped /\ DevicesAccountedFor
      BY <1>2 DEF IInv, KernelTyped, Devices
    <2> QED BY <2>1, <2>2, <1>16, VlanKeeps DEF Outcome
  <1>17. CASE SubifNext /\ UNCHANGED aaa_enabled
    <2>1. Sound("subif") /\ "subif" \in Plain
      BY <1>1, <1>2 DEF Plain
    <2> QED BY <2>1, <1>17, SubifKeeps DEF Outcome, Calm
  <1> QED
    BY <1>3, <1>4, <1>5, <1>6, <1>7, <1>8, <1>9, <1>10, <1>11, <1>12, <1>13, <1>14, <1>15, <1>16, <1>17 DEF Next

-----------------------------------------------------------------------------
(* The tables a command is not about are what they were. *)
SameTable(kind) ==
    /\ tables'[kind] = tables[kind]
    /\ current'[kind] = current[kind]
    /\ prompt'[kind] = prompt[kind]

(* What holds of a table goes on to hold when the table is left alone. *)
LEMMA SameTableKeeps ==
    ASSUME NEW kind, SameTable(kind)
    PROVE  /\ Typed(kind) => Typed(kind)'
           /\ NamesDiffer(kind) /\ ViewIsCurrent(kind)
                => NamesDiffer(kind)' /\ ViewIsCurrent(kind)'
  BY DEF SameTable, Typed, NamesDiffer, ViewIsCurrent, HasEntry, Entry

(* The same of the users, *)
LEMMA SameUsers ==
    ASSUME SameTable("user"), DuplicatesPowerless
    PROVE  DuplicatesPowerless'
  BY DEF SameTable, DuplicatesPowerless

(* and of the VLANs and their devices. *)
LEMMA SameDevices ==
    ASSUME Typed("vlan"), Typed("vlanif"), SameTable("vlan"), SameTable("vlanif"),
           UNCHANGED kernelVars, DevicesAccountedFor, KernelTyped
    PROVE  DevicesAccountedFor' /\ KernelTyped'
  <1>1. Len(tables["vlan"]) \in Nat /\ Len(tables["vlanif"]) \in Nat
    BY LenProperties DEF Typed
  <1>2. Accounted(tables["vlan"], tables["vlanif"], links, addresses)
    BY <1>1, AccountedBefore
  <1>3. /\ tables'["vlan"] = tables["vlan"] /\ tables'["vlanif"] = tables["vlanif"]
        /\ links' = links /\ addresses' = addresses
    BY DEF SameTable, kernelVars
  <1>4. Accounted(tables'["vlan"], tables'["vlanif"], links', addresses')
    BY <1>2, <1>3
  <1>5. Len(tables'["vlan"]) \in Nat /\ Len(tables'["vlanif"]) \in Nat
    BY <1>1, <1>3
  <1> QED
    BY <1>3, <1>4, <1>5, AccountedAfter DEF KernelTyped

(* What a step makes of one table, whatever the command was. *)
TableStep(kind) ==
    \/ SameTable(kind)
    \/ kind \in Pointed /\ ViewStep(kind)
    \/ kind \notin Pointed /\ Typed(kind)' /\ current'[kind] = current[kind]

(* A step about one table is a stutter of every other. *)
LEMMA OneTableSteps ==
    ASSUME NEW kind \in Kinds,
           \/ kind \in Pointed /\ Touches(kind)
           \/ kind \notin Pointed /\ Keeps(kind)
    PROVE  /\ Arrays'
           /\ \A other \in Kinds : TableStep(other)
           /\ \A other \in Kinds \ {kind} : SameTable(other)
  <1>1. Arrays' /\ OthersKept(kind) /\ TableStep(kind)
    BY DEF Touches, Keeps, TableStep
  <1>2. ASSUME NEW other \in Kinds \ {kind}
        PROVE  SameTable(other)
    BY <1>1 DEF OthersKept, SameTable
  <1> QED
    BY <1>1, <1>2 DEF TableStep

(* So each step is, to every table, one of these, and users and devices    *)
(* are in order after it.                                                  *)
LEMMA StepsOfTables ==
    ASSUME IInv, [Next]_vars
    PROVE  /\ Arrays'
           /\ \A kind \in Kinds : TableStep(kind)
           /\ DuplicatesPowerless'
           /\ DevicesAccountedFor' /\ KernelTyped'
           /\ aaa_enabled' \in BOOLEAN
  <1>1. /\ Pointed \subseteq Kinds /\ Plain \subseteq Kinds
        /\ {"user", "vlan", "vlanif"} \subseteq Kinds
        /\ Kinds \ Pointed = Plain \cup {"user", "vlan", "vlanif"}
    BY KindsNamed
  <1>2. "user" \notin Pointed /\ "vlan" \notin Pointed /\ "vlanif" \notin Pointed
    BY <1>1
  <1>3. Typed("vlan") /\ Typed("vlanif") /\ KernelTyped
    BY <1>1 DEF IInv, KernelTyped, Devices
  <1>4. DuplicatesPowerless /\ DevicesAccountedFor /\ Arrays /\ aaa_enabled \in BOOLEAN
    BY DEF IInv
  <1>5. ASSUME UNCHANGED tableVars, UNCHANGED kernelVars, aaa_enabled' \in BOOLEAN
        PROVE  /\ Arrays'
               /\ \A kind \in Kinds : TableStep(kind)
               /\ DuplicatesPowerless'
               /\ DevicesAccountedFor' /\ KernelTyped'
               /\ aaa_enabled' \in BOOLEAN
    <2>1. Arrays' /\ \A kind : SameTable(kind)
      BY <1>4, <1>5 DEF tableVars, Arrays, SameTable
    <2> QED BY <1>3, <1>4, <1>5, <2>1, SameUsers, SameDevices DEF TableStep
  <1>6. ASSUME NEW kind \in Kinds \ {"user", "vlan", "vlanif"}, Calm,
               \/ kind \in Pointed /\ Touches(kind)
               \/ kind \notin Pointed /\ Keeps(kind)
        PROVE  /\ Arrays'
               /\ \A other \in Kinds : TableStep(other)
               /\ DuplicatesPowerless'
               /\ DevicesAccountedFor' /\ KernelTyped'
               /\ aaa_enabled' \in BOOLEAN
    <2>1. /\ Arrays'
          /\ \A other \in Kinds : TableStep(other)
          /\ \A other \in Kinds \ {kind} : SameTable(other)
      BY <1>6, OneTableSteps
    <2>2. SameTable("user") /\ SameTable("vlan") /\ SameTable("vlanif")
      BY <1>1, <2>1
    <2> QED BY <1>3, <1>4, <1>6, <2>1, <2>2, SameUsers, SameDevices DEF Calm
  <1>7. CASE \E kind \in Pointed : Touches(kind) /\ Calm
    BY <1>1, <1>2, <1>6, <1>7
  <1>8. CASE \E kind \in Plain : Keeps(kind) /\ Calm
    <2>1. PICK kind \in Plain : Keeps(kind) /\ Calm
      BY <1>8
    <2>2. kind \in Kinds \ {"user", "vlan", "vlanif"} /\ kind \notin Pointed
      BY <1>1, <2>1, KindsNamed DEF Plain
    <2> QED BY <1>6, <2>1, <2>2
  <1>9. CASE Keeps("user") /\ DuplicatesPowerless' /\ Calm
    <2>1. /\ Arrays'
          /\ \A other \in Kinds : TableStep(other)
          /\ SameTable("vlan") /\ SameTable("vlanif")
      BY <1>1, <1>2, <1>9, OneTableSteps
    <2> QED BY <1>3, <1>4, <1>9, <2>1, SameDevices DEF Calm
  <1>10. CASE UNCHANGED tableVars /\ UNCHANGED kernelVars /\ aaa_enabled' = TRUE
    BY <1>5, <1>10
  <1>11. CASE /\ Keeps("vlan") \/ Keeps("vlanif")
              /\ KernelTyped' /\ DevicesAccountedFor' /\ UNCHANGED aaa_enabled
    <2>1. /\ Arrays'
          /\ \A other \in Kinds : TableStep(other)
          /\ SameTable("user")
      BY <1>1, <1>2, <1>11, OneTableSteps
    <2> QED BY <1>4, <1>11, <2>1, SameUsers
  <1>12. CASE UNCHANGED vars
    BY <1>4, <1>5, <1>12 DEF vars
  <1>13. Outcome \/ UNCHANGED vars
    BY EveryStepHasAnOutcome
  <1> QED
    BY <1>7, <1>8, <1>9, <1>10, <1>11, <1>12, <1>13 DEF Outcome

(* The invariant is kept. *)
LEMMA NextKeepsIInv ==
    ASSUME IInv, [Next]_vars
    PROVE  IInv'
  <1>1. /\ Arrays'
        /\ \A kind \in Kinds : TableStep(kind)
        /\ DuplicatesPowerless'
        /\ DevicesAccountedFor' /\ KernelTyped'
        /\ aaa_enabled' \in BOOLEAN
    BY StepsOfTables
  <1>2. ASSUME NEW kind \in Kinds
        PROVE  /\ Typed(kind)'
               /\ kind \in Pointed => NamesDiffer(kind)' /\ ViewIsCurrent(kind)'
               /\ kind \notin Pointed => current'[kind] = current[kind]
    <2>1. /\ Typed(kind)
          /\ kind \in Pointed => NamesDiffer(kind) /\ ViewIsCurrent(kind)
      BY <1>2 DEF IInv
    <2>2. CASE SameTable(kind)
      BY <2>1, <2>2, SameTableKeeps DEF SameTable
    <2>3. CASE kind \in Pointed /\ ViewStep(kind)
      <3>1. Viewable(kind)
        BY <2>1, <2>3 DEF Viewable
      <3>2. Viewable(kind)'
        BY <1>2, <2>3, <3>1, ViewStepKeeps
      <3> QED BY <2>3, <3>2 DEF Viewable
    <2>4. CASE kind \notin Pointed /\ Typed(kind)' /\ current'[kind] = current[kind]
      BY <2>4
    <2> QED BY <1>1, <1>2, <2>2, <2>3, <2>4 DEF TableStep
  <1>3. \A kind \in Pointed : NamesDiffer(kind)' /\ ViewIsCurrent(kind)'
    BY <1>2, KindsNamed
  <1>4. \A kind \in Kinds \ Pointed : current'[kind] = Null
    BY <1>2 DEF IInv
  <1>5. \A kind \in Kinds : Typed(kind)'
    BY <1>2
  <1> QED
    BY <1>1, <1>3, <1>4, <1>5 DEF IInv, KernelTyped, Devices

(* It holds before the first command. *)
LEMMA InitHasIInv == Init => IInv
  <1> SUFFICES ASSUME Init
               PROVE  IInv
    OBVIOUS
  <1>1. /\ Arrays
        /\ \A kind \in Kinds :
              tables[kind] = <<>> /\ current[kind] = Null /\ prompt[kind] = NoView
        /\ aaa_enabled = FALSE
    BY DEF Init, TablesInit, Arrays
  <1>2. ASSUME NEW kind \in Kinds
        PROVE  Typed(kind) /\ NamesDiffer(kind) /\ ViewIsCurrent(kind)
    <2>1. <<>> \in Seq(Fitting(kind)) /\ Len(<<>>) = 0 /\ Capacity[kind] \in Nat
      BY <1>2, TablesAssumption
    <2>2. tables[kind] = <<>> /\ current[kind] = 0
      BY <1>1, <1>2 DEF Null
    <2>3. Typed(kind)
      BY <2>1, <2>2 DEF Typed
    <2>4. NamesDiffer(kind) /\ ViewIsCurrent(kind)
      BY <2>1, <2>2 DEF NamesDiffer, ViewIsCurrent, HasEntry, Null
    <2> QED BY <2>3, <2>4
  <1>3. DuplicatesPowerless
    <2>1. tables["user"] = <<>>
      BY <1>1, KindsNamed
    <2> QED BY <2>1 DEF DuplicatesPowerless
  <1>4. links = [n \in Ids |-> "none"] /\ addresses = [n \in Ids |-> {}]
    BY DEF Init, KernelInit
  <1>5. DevicesAccountedFor
    BY <1>4 DEF DevicesAccountedFor
  <1>6. /\ links \in [Ids -> {"none", "eth0.N", "vlanN"}]
        /\ addresses \in [Ids -> SUBSET IpAddresses]
    BY <1>4
  <1>7. Pointed \subseteq Kinds
    BY KindsNamed
  <1> QED
    BY <1>1, <1>2, <1>3, <1>5, <1>6, <1>7 DEF IInv

(* The invariant holds throughout. *)
LEMMA AlwaysIInv == Spec => []IInv
  <1>1. IInv /\ [Next]_vars => IInv'
    BY NextKeepsIInv
  <1> QED BY <1>1, InitHasIInv, PTL DEF Spec

-----------------------------------------------------------------------------
(* Every entry is of its type, no array overflows, no pointer leaves its   *)
(* table, and no list within an entry grows past its room.                 *)
THEOREM TypeCorrect == Spec => []TypeOK
  <1>1. ASSUME IInv
        PROVE  TypeOK
    <2>1. ASSUME NEW kind \in Kinds
          PROVE  /\ tables[kind] \in Seq(Sized(kind))
                 /\ Len(tables[kind]) <= Capacity[kind]
                 /\ current[kind] \in 0 .. Len(tables[kind])
      <3>1. Typed(kind)
        BY <1>1, <2>1 DEF IInv
      <3>2. Fitting(kind) \subseteq Sized(kind)
        BY DEF Fitting
      <3>3. tables[kind] \in Seq(Sized(kind))
        <4> HIDE DEF Sized, Fitting
        <4> QED BY <3>1, <3>2 DEF Typed
      <3> QED BY <3>1, <3>3 DEF Typed
    <2> QED BY <1>1, <2>1 DEF IInv, TypeOK
  <1> QED BY <1>1, AlwaysIInv, PTL

(* No queue profile ever has two queues of one number.                     *)
THEOREM QueuesStayDistinct == Spec => []QueuesDistinct
  <1>1. ASSUME IInv
        PROVE  QueuesDistinct
    <2>1. "queue_profile" \in Kinds
      BY CliTablesAssumption DEF Viewed
    <2>2. ASSUME NEW i \in DOMAIN tables["queue_profile"]
          PROVE  tables["queue_profile"][i] \in Fitting("queue_profile")
      BY <1>1, <2>1, <2>2, ElementOfSeq, LenProperties DEF IInv, Typed
    <2> QED BY <2>2 DEF QueuesDistinct, Fitting
  <1> QED BY <1>1, AlwaysIInv, PTL

(* A second "local-user" of a name never gets a privilege: the commands    *)
(* that edit a user reach the first entry of the name only.                *)
THEOREM DuplicatesStayPowerless == Spec => []DuplicatesPowerless
  <1>1. IInv => DuplicatesPowerless
    BY DEF IInv
  <1> QED BY <1>1, AlwaysIInv, PTL

(* Every device the commands made in the kernel has an entry in a table.   *)
THEOREM DevicesStayAccountedFor == Spec => []DevicesAccountedFor
  <1>1. IInv => DevicesAccountedFor
    BY DEF IInv
  <1> QED BY <1>1, AlwaysIInv, PTL

(* No command, of any order of them, leaves a VRRP group with a delay it   *)
(* does not use or a mode of authentication without a key.                 *)
THEOREM GroupsStayCoherent == Spec => []GroupsCoherent
  <1>1. ASSUME IInv
        PROVE  GroupsCoherent
    <2>1. "vrrp" \in Kinds
      BY CliTablesAssumption DEF Viewed
    <2>2. ASSUME NEW i \in DOMAIN tables["vrrp"]
          PROVE  tables["vrrp"][i] \in Fitting("vrrp")
      BY <1>1, <2>1, <2>2, ElementOfSeq, LenProperties DEF IInv, Typed
    <2> QED BY <2>2 DEF GroupsCoherent, Fitting
  <1> QED BY <1>1, AlwaysIInv, PTL

(* The union of a track is never read as what it was not written as.       *)
THEOREM UnionIsReadAsWritten == Spec => []UnionReadAsWritten
  <1>1. ASSUME IInv
        PROVE  UnionReadAsWritten
    <2>1. "track" \in Kinds
      BY CliTablesAssumption DEF Viewed
    <2>2. ASSUME NEW i \in DOMAIN tables["track"]
          PROVE  tables["track"][i] \in Fitting("track")
      BY <1>1, <2>1, <2>2, ElementOfSeq, LenProperties DEF IInv, Typed
    <2> QED BY <2>2 DEF UnionReadAsWritten, Fitting
  <1> QED BY <1>1, AlwaysIInv, PTL

-----------------------------------------------------------------------------
(* An entry that has a view stays where it is; a command makes of it what  *)
(* one command may.                                                        *)
LEMMA EntriesSucceed ==
    ASSUME IInv, [Next]_vars, NEW kind \in Pointed
    PROVE  \A i \in 1 .. Len(tables[kind]) :
               tables'[kind][i] \in Successors(kind, tables[kind][i])
  <1>1. kind \in Kinds /\ Typed(kind) /\ TableStep(kind)
    BY StepsOfTables, KindsNamed DEF IInv
  <1>2. /\ tables[kind] \in Seq(Fitting(kind)) /\ Len(tables[kind]) \in Nat
        /\ current[kind] \in 0 .. Len(tables[kind])
    BY <1>1, LenProperties DEF Typed
  <1>3. ASSUME NEW i \in 1 .. Len(tables[kind])
        PROVE  tables[kind][i] \in Successors(kind, tables[kind][i])
    BY <1>2, SuccessorOfItself, ElementOfSeq
  <1>4. CASE tables'[kind] = tables[kind]
    BY <1>3, <1>4
  <1>5. ASSUME NEW i \in 1 .. Len(tables[kind]),
               NEW e \in Successors(kind, tables[kind][i]),
               tables'[kind] = [tables[kind] EXCEPT ![i] = e]
        PROVE  \A j \in 1 .. Len(tables[kind]) :
                   tables'[kind][j] \in Successors(kind, tables[kind][j])
    <2>1. \A j \in 1 .. Len(tables[kind]) :
              tables'[kind][j] = IF j = i THEN e ELSE tables[kind][j]
      BY <1>1, <1>5, ReplacingKeeps
    <2> QED BY <1>3, <1>5, <2>1
  <1>6. CASE Opens(kind)
    BY <1>5, <1>6 DEF Opens
  <1>7. CASE Creates(kind)
    <2>1. PICK e \in Fitting(kind) : Created(kind, e)
      BY <1>7 DEF Creates
    <2>2. \A j \in 1 .. Len(tables[kind]) : tables'[kind][j] = tables[kind][j]
      BY <1>1, <2>1, AppendingKeeps DEF Created
    <2> QED BY <1>3, <2>2
  <1>8. CASE OpensNothing(kind)
    BY <1>4, <1>8 DEF OpensNothing, Refused
  <1>9. CASE Edits(kind)
    <2>1. PICK e \in Successors(kind, Entry(kind)) : Replaced(kind, current[kind], e)
      BY <1>9 DEF Edits
    <2>2. current[kind] \in 1 .. Len(tables[kind])
      BY <1>2, <1>9 DEF Edits, HasEntry, Null
    <2> QED BY <1>5, <2>1, <2>2 DEF Replaced, Entry
  <1>10. CASE Applies(kind)
    <2>1. PICK i \in 1 .. Len(tables[kind]), applied \in SUBSET Directions :
              Replaced(kind, i, [tables[kind][i] EXCEPT !.applied = applied])
      BY <1>10 DEF Applies
    <2>2. [tables[kind][i] EXCEPT !.applied = applied] \in Successors(kind, tables[kind][i])
      BY <1>2, <1>10, <2>1, AppliedSuccessor, ElementOfSeq DEF Applies
    <2> QED BY <1>5, <2>1, <2>2 DEF Replaced
  <1>11. CASE Typed(kind)' /\ kind \notin Pointed
    BY <1>11
  <1> QED
    BY <1>1, <1>4, <1>6, <1>7, <1>8, <1>9, <1>10 DEF TableStep, ViewStep, SameTable

(* No command takes a rule out of an access list or changes one, and none  *)
(* adds more than one.                                                     *)
THEOREM AclRulesAreKept == Spec => AclRulesKept
  <1>1. IInv /\ [Next]_vars
          => [\A i \in DOMAIN tables["acl"] :
                 LET old == tables["acl"][i].rules
                     new == tables'["acl"][i].rules
                 IN IsPrefix(old, new) /\ Len(new) <= Len(old) + 1]_tables
    <2> SUFFICES ASSUME IInv, [Next]_vars, NEW i \in DOMAIN tables["acl"]
                 PROVE  /\ IsPrefix(tables["acl"][i].rules, tables'["acl"][i].rules)
                        /\ Len(tables'["acl"][i].rules) <= Len(tables["acl"][i].rules) + 1
      OBVIOUS
    <2>1. "acl" \in Pointed /\ "acl" \in Kinds
      BY KindsNamed
    <2>2. i \in 1 .. Len(tables["acl"])
      BY <2>1, LenProperties DEF IInv, Typed
    <2>3. tables'["acl"][i] \in Successors("acl", tables["acl"][i])
      BY <2>1, <2>2, EntriesSucceed
    <2> QED BY <2>3 DEF Successors
  <1> QED BY <1>1, AlwaysIInv, PTL DEF Spec, AclRulesKept

(* A queue of a profile keeps its number and its discipline, and its WRED  *)
(* once it is on, whatever is configured after it.                         *)
THEOREM QueuesAreKept == Spec => QueuesKept
  <1>1. IInv /\ [Next]_vars
          => [\A i \in DOMAIN tables["queue_profile"] :
                 LET old == tables["queue_profile"][i].queues
                     new == tables'["queue_profile"][i].queues
                 IN \A j \in DOMAIN old : /\ new[j].queue_id = old[j].queue_id
                                          /\ new[j].sched_type = old[j].sched_type
                                          /\ old[j].wred => new[j].wred]_tables
    <2> SUFFICES ASSUME IInv, [Next]_vars, NEW i \in DOMAIN tables["queue_profile"]
                 PROVE  LET old == tables["queue_profile"][i].queues
                            new == tables'["queue_profile"][i].queues
                        IN \A j \in DOMAIN old :
                               /\ new[j].queue_id = old[j].queue_id
                               /\ new[j].sched_type = old[j].sched_type
                               /\ old[j].wred => new[j].wred
      OBVIOUS
    <2>1. "queue_profile" \in Pointed /\ "queue_profile" \in Kinds
      BY KindsNamed
    <2>2. i \in 1 .. Len(tables["queue_profile"])
      BY <2>1, LenProperties DEF IInv, Typed
    <2>3. tables'["queue_profile"][i]
            \in Successors("queue_profile", tables["queue_profile"][i])
      BY <2>1, <2>2, EntriesSucceed
    <2> QED BY <2>3 DEF Successors
  <1> QED BY <1>1, AlwaysIInv, PTL DEF Spec, QueuesKept

-----------------------------------------------------------------------------
(* Each table whose commands have a view implements ViewedTable: a command *)
(* changes the entry whose view was last announced and no other one, and   *)
(* no name has two entries.                                                *)
THEOREM TablesImplementViews == Spec => ViewsHold
  <1>1. Init => \A kind \in Viewed : View(kind)!Init
    <2> SUFFICES ASSUME Init, NEW kind \in Viewed
                 PROVE  View(kind)!Init
      OBVIOUS
    <2>1. tables[kind] = <<>> /\ prompt[kind] = NoView
      BY CliTablesAssumption DEF Init, TablesInit
    <2>2. Content(kind) = {}
      BY <2>1 DEF Content, Range
    <2> QED BY <2>1, <2>2 DEF View!Init
  <1>2. IInv /\ [Next]_vars => [\A kind \in Viewed : Implements(kind)]_tableVars
    <2> SUFFICES ASSUME IInv, [Next]_vars, NEW kind \in Viewed
                 PROVE  Implements(kind)
      OBVIOUS
    <2>1. kind \in Kinds /\ kind \in Pointed
      BY CliTablesAssumption DEF Pointed
    <2>2. TableStep(kind) /\ Viewable(kind)
      BY <2>1, StepsOfTables DEF IInv, Viewable
    <2>3. CASE SameTable(kind)
      BY <2>3 DEF SameTable, Implements
    <2>4. CASE ViewStep(kind)
      BY <2>1, <2>2, <2>4, ViewStepImplements
    <2> QED BY <2>1, <2>2, <2>3, <2>4 DEF TableStep
  <1> QED BY <1>1, <1>2, AlwaysIInv, PTL DEF Spec, ViewsHold
==============================================================================
