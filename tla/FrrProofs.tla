------------------------------ MODULE FrrProofs ------------------------------
(***************************************************************************)
(* What a batch of lines does to FRR: the lemmas that the proofs about all *)
(* who configure it rest on.                                               *)
(***************************************************************************)
EXTENDS Frr, SequenceTheorems, WellFoundedInduction, TLAPS

(* A set of positions has a last one.  The theorem about well-founded      *)
(* relations stands in for an induction on k.                              *)
LEMMA LastPosition ==
    ASSUME NEW k \in Nat, NEW T \in SUBSET (1 .. k), T # {}
    PROVE  \E i \in T : \A j \in T : j <= i
  <1> DEFINE R == OpToRel(<, Nat)
      D == {n \in Nat : k - n \in T}
  <1>1. IsWellFoundedOn(R, Nat)
    BY NatLessThanWellFounded
  <1>2. D \subseteq Nat /\ D # {}
    <2>1. PICK i \in T : TRUE
       OBVIOUS
    <2>2. k - i \in D
       BY <2>1
    <2> QED BY <2>2
  <1>3. PICK d \in D : \A e \in D : ~ (<<e, d>> \in R)
    <2> HIDE DEF R, D
    <2> QED BY <1>1, <1>2, WFMin
  <1>4. \A e \in D : d <= e
    <2>1. D \subseteq Nat
      OBVIOUS
    <2>2. ASSUME NEW e \in D, e < d
          PROVE  <<e, d>> \in R
      <3> HIDE DEF D
      <3> QED BY <2>1, <2>2 DEF OpToRel
    <2> HIDE DEF D, R
    <2>3. \A e \in D : ~ (e < d)
      BY <1>3, <2>2
    <2> QED BY <2>1, <2>3
  <1>5. k - d \in T /\ \A j \in T : j <= k - d
    <2>1. ASSUME NEW j \in T PROVE j <= k - d
      <3>1. k - j \in D BY <2>1
      <3>2. d <= k - j /\ d \in Nat
        BY <3>1, <1>4
      <3> QED BY <3>2
    <2> QED BY <2>1
  <1> QED BY <1>5

(* And a first one. *)
LEMMA FirstPosition ==
    ASSUME NEW k \in Nat, NEW T \in SUBSET (1 .. k), T # {}
    PROVE  \E i \in T : \A j \in T : i <= j
  <1> DEFINE M == {m \in 1 .. k : k + 1 - m \in T}
  <1>1. \A i \in T : k + 1 - i \in M
    OBVIOUS
  <1>2. M \in SUBSET (1 .. k) /\ M # {}
    BY <1>1
  <1>3. PICK m \in M : \A j \in M : j <= m
    <2> HIDE DEF M
    <2> QED BY <1>2, LastPosition
  <1>4. m \in 1 .. k /\ k + 1 - m \in T
    OBVIOUS
  <1>5. ASSUME NEW j \in T PROVE k + 1 - m <= j
    <2>1. j \in 1 .. k /\ k + 1 - j <= m
      BY <1>1, <1>3
    <2> QED BY <1>4, <2>1
  <1> QED BY <1>4, <1>5

(* Among some lines the last one about an item exists. *)
LEMMA LastLineIs ==
    ASSUME NEW batch, NEW k \in Nat, NEW item,
           \E i \in 1 .. k : batch[i].key = item
    PROVE  /\ LastLine(batch, k, item) \in 1 .. k
           /\ batch[LastLine(batch, k, item)].key = item
  <1> DEFINE IsLast(i) == /\ batch[i].key = item
                          /\ \A j \in i + 1 .. k : batch[j].key # item
             T == {i \in 1 .. k : batch[i].key = item}
  <1>1. T \in SUBSET (1 .. k) /\ T # {}
    OBVIOUS
  <1>2. PICK i \in T : \A j \in T : j <= i
    <2> HIDE DEF T
    <2> QED BY <1>1, LastPosition
  <1>3. i \in 1 .. k /\ IsLast(i)
    <2>1. ASSUME NEW j \in i + 1 .. k, batch[j].key = item
          PROVE  FALSE
      <3>1. i \in 1 .. k /\ j \in 1 .. k /\ j > i
        BY <2>1
      <3> QED BY <1>2, <2>1, <3>1
    <2> QED BY <2>1
  <1>4. LastLine(batch, k, item) = CHOOSE m \in 1 .. k : IsLast(m)
    BY DEF LastLine
  <1> QED BY <1>3, <1>4

(* After some lines an item is as it was, or as one of the lines says.     *)
LEMMA AfterLinesTake ==
    ASSUME NEW batch, NEW k \in Nat, NEW item \in Keys
    PROVE  \/ /\ AfterLines(batch, k)[item] = running[item]
              /\ \A i \in 1 .. k : batch[i].key # item
           \/ \E i \in 1 .. k : /\ batch[i].key = item
                                /\ AfterLines(batch, k)[item] = batch[i].value
  <1>1. CASE \E i \in 1 .. k : batch[i].key = item
    <2>1. AfterLines(batch, k)[item] = batch[LastLine(batch, k, item)].value
      BY <1>1 DEF AfterLines
    <2> QED BY <1>1, <2>1, LastLineIs
  <1>2. CASE ~ \E i \in 1 .. k : batch[i].key = item
    BY <1>2 DEF AfterLines
  <1> QED BY <1>1, <1>2

(* What a call of vtysh does: it changes what its lines are about, or      *)
(* nothing, and only lines that FRR accepts count.                         *)
LEMMA VtyshEffect ==
    ASSUME FrrTypeOK,
           NEW batch, Len(batch) \in Nat, DOMAIN batch = 1 .. Len(batch),
           \A i \in DOMAIN batch :
               Acceptable(batch, i) /\ batch[i].key \in Keys
                   => batch[i].value \in ConfigValues \cup {Absent},
           Accepted(batch) \/ Refused(batch)
    PROVE  /\ FrrTypeOK'
           /\ startup' = startup
           /\ \A item \in Keys :
                 \/ running'[item] = running[item]
                 \/ \E i \in DOMAIN batch : /\ batch[i].key = item
                                            /\ running'[item] = batch[i].value
  <1>1. PICK k \in 0 .. Len(batch) :
           /\ running' = AfterLines(batch, k)
           /\ \A i \in 1 .. k : Acceptable(batch, i)
    <2>1. CASE Accepted(batch)
      BY <2>1 DEF Accepted
    <2>2. CASE Refused(batch)
      BY <2>2 DEF Refused
    <2> QED BY <2>1, <2>2
  <1>2. UNCHANGED <<startup, up>>
    BY DEF Accepted, Refused
  <1>3. k \in Nat /\ 1 .. k \subseteq DOMAIN batch
    OBVIOUS
  <1>4. ASSUME NEW item \in Keys
        PROVE  \/ running'[item] = running[item]
               \/ \E i \in 1 .. k : /\ batch[i].key = item
                                    /\ running'[item] = batch[i].value
    BY <1>1, <1>3, AfterLinesTake
  <1>5. ASSUME NEW item \in Keys
        PROVE  running'[item] \in ConfigValues \cup {Absent}
    <2>1. running[item] \in ConfigValues \cup {Absent}
      BY DEF FrrTypeOK, Configurations
    <2> QED BY <1>1, <1>3, <1>4, <2>1
  <1>6. running' \in Configurations
    <2>1. running' = [item \in Keys |-> running'[item]]
      BY <1>1 DEF AfterLines
    <2> QED BY <1>5, <2>1 DEF Configurations
  <1>7. FrrTypeOK'
    BY <1>2, <1>6 DEF FrrTypeOK
  <1> QED BY <1>2, <1>3, <1>4, <1>7

(* As long as no line is "no router bgp", an AS that runs goes on running: *)
(* the first line that named another one would not be accepted.            *)
LEMMA AsStaysSo ==
    ASSUME BgpKey \in Keys, running[BgpKey] # Absent,
           NEW batch, NEW k \in Nat,
           \A i \in 1 .. k : /\ Acceptable(batch, i)
                             /\ batch[i].key = BgpKey => batch[i].value # Absent
    PROVE  AfterLines(batch, k)[BgpKey] = running[BgpKey]
  <1> DEFINE T == {i \in 1 .. k : /\ batch[i].key = BgpKey
                                  /\ batch[i].value # running[BgpKey]}
  <1>1. ASSUME T # {}
        PROVE  FALSE
    <2>1. PICK i \in T : \A j \in T : i <= j
      <3>1. T \in SUBSET (1 .. k)
        OBVIOUS
      <3> HIDE DEF T
      <3> QED BY <1>1, <3>1, FirstPosition
    <2>2. i \in 1 .. k /\ batch[i].key = BgpKey /\ batch[i].value # running[BgpKey]
      BY <2>1
    <2>3. \A j \in 1 .. i - 1 : batch[j].key = BgpKey => batch[j].value = running[BgpKey]
      <3>1. ASSUME NEW j \in 1 .. i - 1, batch[j].key = BgpKey,
                   batch[j].value # running[BgpKey]
            PROVE  FALSE
        <4>1. j \in 1 .. k /\ ~(i <= j)
          BY <2>2
        <4>2. j \in T
          BY <3>1, <4>1
        <4> QED BY <2>1, <4>1, <4>2
      <3> QED BY <3>1
    <2>4. AfterLines(batch, i - 1)[BgpKey] = running[BgpKey]
      <3>1. i - 1 \in Nat
        BY <2>2
      <3> QED BY <2>3, <3>1, AfterLinesTake
    <2>5. batch[i].value # Absent /\ Acceptable(batch, i)
      BY <2>2
    <2> QED BY <2>2, <2>4, <2>5 DEF Acceptable
  <1>2. \A i \in 1 .. k : batch[i].key = BgpKey => batch[i].value = running[BgpKey]
    BY <1>1
  <1> QED BY <1>2, AfterLinesTake

(* Batches put together from two parts. *)
LEMMA ConcatPair ==
    ASSUME NEW a, NEW b
    PROVE  <<a>> \o <<b>> = <<a, b>> /\ <<a>> \o <<>> = <<a>>
  <1> DEFINE S == {a, b}
             both == <<a>> \o <<b>>
             pair == <<a, b>>
  <1>1. <<a>> \in Seq(S) /\ <<b>> \in Seq(S)
    OBVIOUS
  <1>2. both \in Seq(S) /\ Len(both) = 2 /\ both[1] = a /\ both[2] = b
    BY <1>1, ConcatProperties
  <1>3. pair \in Seq(S) /\ Len(pair) = 2 /\ pair[1] = a /\ pair[2] = b
    OBVIOUS
  <1>4. <<a>> \o <<>> = <<a>>
    BY <1>1, ConcatEmptySeq
  <1> HIDE DEF S, both, pair
  <1>5. both = pair
    BY <1>2, <1>3, SeqEqual
  <1> QED BY <1>4, <1>5 DEF both, pair

LEMMA AppendOne == ASSUME NEW a, NEW b PROVE Append(<<a>>, b) = <<a, b>>
  <1> DEFINE S == {a, b}
             both == Append(<<a>>, b)
             pair == <<a, b>>
  <1>1. <<a>> \in Seq(S) /\ b \in S
    OBVIOUS
  <1>2. both \in Seq(S) /\ Len(both) = 2 /\ both[1] = a /\ both[2] = b
    BY <1>1, AppendProperties
  <1>3. pair \in Seq(S) /\ Len(pair) = 2 /\ pair[1] = a /\ pair[2] = b
    OBVIOUS
  <1> HIDE DEF S, both, pair
  <1>4. both = pair
    BY <1>2, <1>3, SeqEqual
  <1> QED BY <1>4 DEF both, pair

(* The batches of the commands have one line, or two. *)
LEMMA OneLine ==
    ASSUME FrrTypeOK, NEW k, NEW v,
           k \in Keys => v \in ConfigValues \cup {Absent},
           Accepted(<<Line(k, v)>>) \/ Refused(<<Line(k, v)>>)
    PROVE  /\ FrrTypeOK'
           /\ startup' = startup
           /\ \A item \in Keys :
                 \/ running'[item] = running[item]
                 \/ item = k /\ running'[item] = v
  <1> DEFINE batch == <<Line(k, v)>>
  <1>1. /\ Len(batch) = 1 /\ DOMAIN batch = 1 .. 1
        /\ batch[1].key = k /\ batch[1].value = v
    BY DEF Line
  <1>2. Accepted(batch) \/ Refused(batch)
    OBVIOUS
  <1> HIDE DEF batch
  <1>3. /\ FrrTypeOK'
        /\ startup' = startup
        /\ \A item \in Keys :
              \/ running'[item] = running[item]
              \/ \E i \in DOMAIN batch : /\ batch[i].key = item
                                         /\ running'[item] = batch[i].value
    BY <1>1, <1>2, VtyshEffect
  <1> QED BY <1>1, <1>3

LEMMA TwoLines ==
    ASSUME FrrTypeOK, NEW k, NEW v, NEW l, NEW w,
           k \in Keys => v \in ConfigValues \cup {Absent},
           l \in Keys => w \in ConfigValues \cup {Absent},
           \/ Accepted(<<Line(k, v), Line(l, w)>>)
           \/ Refused(<<Line(k, v), Line(l, w)>>)
    PROVE  /\ FrrTypeOK'
           /\ startup' = startup
           /\ \A item \in Keys :
                 \/ running'[item] = running[item]
                 \/ item = k /\ running'[item] = v
                 \/ item = l /\ running'[item] = w
  <1> DEFINE batch == <<Line(k, v), Line(l, w)>>
  <1>1. /\ Len(batch) = 2 /\ DOMAIN batch = 1 .. 2
        /\ batch[1].key = k /\ batch[1].value = v
        /\ batch[2].key = l /\ batch[2].value = w
    BY DEF Line
  <1>2. Accepted(batch) \/ Refused(batch)
    OBVIOUS
  <1> HIDE DEF batch
  <1>3. /\ FrrTypeOK'
        /\ startup' = startup
        /\ \A item \in Keys :
              \/ running'[item] = running[item]
              \/ \E i \in DOMAIN batch : /\ batch[i].key = item
                                         /\ running'[item] = batch[i].value
    BY <1>1, <1>2, VtyshEffect
  <1> QED BY <1>1, <1>3
==============================================================================
