-------------------------- MODULE ConfigPlaneProofs --------------------------
(***************************************************************************)
(* Proofs about ConfigPlane: whatever the web service, the conversion, the *)
(* operators and the crashes of FRR do, in whatever order, a saved value   *)
(* and an AS that was converted are not lost.                              *)
(***************************************************************************)
EXTENDS ConfigPlane, FrrProofs

(* What FRR has is what its file has, as far as a promise goes.            *)
SavedIsInFile ==
    \A k \in Keys : kept[k] # Unpromised => /\ startup[k] = kept[k]
                                            /\ up => running[k] = kept[k]

PushedIsRunning ==
    \A k \in Keys : pushed[k] # Unpromised => /\ up
                                              /\ running[k] = pushed[k]
                                              /\ pc = "restart" => startup[k] = pushed[k]

(* From the moment FRR took "router bgp" the run works under that AS; once *)
(* it has saved, the file has the AS too.                                  *)
AsIsRunning ==
    /\ as_number # NoAs => as_number # Absent
    /\ ~as_lost /\ as_number # NoAs =>
          /\ pc \in BeforeSave => up /\ running[BgpKey] = as_number
          /\ pc \in {"restart", "ok"} => /\ startup[BgpKey] = as_number
                                         /\ up => running[BgpKey] = as_number

IInv ==
    /\ TypeOK
    /\ SavedIsInFile
    /\ PushedIsRunning
    /\ AsIsRunning

LEMMA InitInv == Init => IInv
  <1> SUFFICES ASSUME Init PROVE IInv
    OBVIOUS
  <1> USE DEF Init, FrrInit, AdapterInit, WebInit
  <1>1. FrrTypeOK /\ WebTypeOK
    BY DEF FrrTypeOK, Configurations, NoConfiguration, WebTypeOK, Requests
  <1>2. AdapterTypeOK
    BY DEF AdapterTypeOK, YangDomain, Locations
  <1>3. TypeOK
    <2>1. kept \in Promises /\ pushed \in Promises
      BY DEF Promises, NoPromise
    <2>2. crashes \in 0 .. MaxCrashes /\ edits \in 0 .. MaxEdits
      BY ConfigPlaneAssumption
    <2>3. as_lost \in BOOLEAN
      OBVIOUS
    <2> QED BY <1>1, <1>2, <2>1, <2>2, <2>3 DEF TypeOK
  <1>4. SavedIsInFile /\ PushedIsRunning /\ AsIsRunning
    BY DEF SavedIsInFile, PushedIsRunning, AsIsRunning, NoPromise, BeforeSave
  <1> QED BY <1>3, <1>4 DEF IInv

-----------------------------------------------------------------------------
(* What the actors do to FRR.                                              *)

(* Some items get new values, if FRR runs. *)
Changed ==
    /\ FrrTypeOK'
    /\ UNCHANGED <<startup, up>>
    /\ \A k \in Keys : running'[k] # running[k] => up

(* But not BGP, once it has an AS. *)
Taken ==
    /\ Changed
    /\ running[BgpKey] # Absent => running'[BgpKey] = running[BgpKey]

Saved ==
    /\ FrrTypeOK'
    /\ Write

LEMMA NothingTaken == ASSUME FrrTypeOK, UNCHANGED frrVars PROVE Taken
  BY DEF Taken, Changed, FrrTypeOK, frrVars

LEMMA WriteSaves == ASSUME FrrTypeOK, Write PROVE Saved
  BY DEF Saved, FrrTypeOK, Write

(* Lines none of which is "no router bgp" leave BGP its AS.                *)
LEMMA BatchTaken ==
    ASSUME FrrTypeOK, NEW batch, WellFormed(batch), Vtysh(batch)
    PROVE  Changed /\ (~Removes(batch) => Taken)
  <1>1. PICK k \in 0 .. Len(batch) :
           /\ k > 0 => up
           /\ running' = AfterLines(batch, k)
           /\ \A i \in 1 .. k : Acceptable(batch, i)
    BY DEF Vtysh, Accepted, Refused, WellFormed
  <1>2. k \in Nat /\ 1 .. k \subseteq DOMAIN batch
    BY DEF WellFormed
  <1>3. FrrTypeOK' /\ UNCHANGED <<startup, up>>
    <2>1. \A i \in DOMAIN batch :
             Acceptable(batch, i) /\ batch[i].key \in Keys
                 => batch[i].value \in ConfigValues \cup {Absent}
      BY DEF WellFormed, Acceptable
    <2>2. UNCHANGED <<startup, up>>
      BY DEF Vtysh, Accepted, Refused
    <2> QED BY <2>1, <2>2, VtyshEffect DEF Vtysh, WellFormed
  <1>4. ASSUME NEW item \in Keys, running'[item] # running[item]
        PROVE  up
    <2>1. PICK i \in 1 .. k : batch[i].key = item
      BY <1>1, <1>2, <1>4, AfterLinesTake
    <2> QED BY <1>1, <1>2, <2>1
  <1>5. ASSUME running[BgpKey] # Absent, ~Removes(batch)
        PROVE  running'[BgpKey] = running[BgpKey]
    <2>1. \A i \in 1 .. k : batch[i].key = BgpKey => batch[i].value # Absent
      BY <1>2, <1>5 DEF Removes
    <2> QED BY <1>1, <1>2, <1>5, <2>1, AsStaysSo, ConfigPlaneAssumption
  <1> QED BY <1>3, <1>4, <1>5 DEF Changed, Taken

LEMMA OneLineTaken ==
    ASSUME FrrTypeOK, NEW k, NEW v, Vtysh(<<Line(k, v)>>),
           k \in Keys => v \in ConfigValues \cup {NoAs}
    PROVE  Taken
  <1> DEFINE batch == <<Line(k, v)>>
  <1>1. WellFormed(batch)
    BY DEF WellFormed, Line
  <1>2. k = BgpKey => v # Absent
    BY ConfigPlaneAssumption
  <1>3. ~Removes(batch)
    BY <1>2 DEF Removes, Line
  <1> QED BY <1>1, <1>3, BatchTaken

LEMMA TwoLinesTaken ==
    ASSUME FrrTypeOK, NEW k, NEW v, NEW l, NEW w, Vtysh(<<Line(k, v), Line(l, w)>>),
           k \in Keys => v \in ConfigValues \cup {NoAs},
           l \in Keys => w \in ConfigValues \cup {NoAs}
    PROVE  Taken
  <1> DEFINE batch == <<Line(k, v), Line(l, w)>>
  <1>1. WellFormed(batch)
    BY DEF WellFormed, Line
  <1>2. (k = BgpKey => v # Absent) /\ (l = BgpKey => w # Absent)
    BY ConfigPlaneAssumption
  <1>3. ~Removes(batch)
    BY <1>2 DEF Removes, Line
  <1> QED BY <1>1, <1>3, BatchTaken

(* The one line "router bgp" as FRR takes it gives BGP its AS. *)
LEMMA AsTaken ==
    ASSUME FrrTypeOK, NEW as, Accepted(<<Line(BgpKey, as)>>)
    PROVE  running'[BgpKey] = as
  <1> DEFINE batch == <<Line(BgpKey, as)>>
  <1>1. Len(batch) = 1 /\ batch[1].key = BgpKey /\ batch[1].value = as
    BY DEF Line
  <1>2. running' = AfterLines(batch, Len(batch))
    BY DEF Accepted
  <1> HIDE DEF batch
  <1>3. BgpKey \in Keys /\ 1 \in Nat /\ 1 .. 1 = {1}
    BY ConfigPlaneAssumption
  <1>4. \/ \A i \in 1 .. 1 : batch[i].key # BgpKey
        \/ \E i \in 1 .. 1 : AfterLines(batch, 1)[BgpKey] = batch[i].value
    BY <1>3, AfterLinesTake
  <1> QED BY <1>1, <1>2, <1>3, <1>4

-----------------------------------------------------------------------------
(* The web service. *)

LEMMA LinesOfRequest ==
    ASSUME WebTypeOK, NEW w \in Workers
    PROVE  WellFormed(requests[w].batch)
  <1>1. requests[w].batch \in Batches \cup {<<>>}
    BY DEF WebTypeOK, Requests
  <1>2. WellFormed(<<>>)
    BY DEF WellFormed
  <1> QED BY <1>1, <1>2, ConfigPlaneAssumption

LEMMA OneFree ==
    ASSUME WebTypeOK, NEW w \in Workers,
           NEW reply \in {"none", "success", "error", "timeout", "forbidden"},
           Free(w, reply)
    PROVE  /\ WebTypeOK'
           /\ requests'[w].status = "free"
           /\ requests'[w].reply = reply
           /\ \A v \in Workers \ {w} : requests'[v] = requests[v]
  <1> DEFINE r == [status |-> "free", batch |-> <<>>, save |-> FALSE, reply |-> reply]
  <1>1. r \in Requests /\ r.status = "free" /\ r.reply = reply
    BY DEF Requests
  <1>2. requests' = [requests EXCEPT ![w] = r]
    BY DEF Free
  <1> HIDE DEF r
  <1> QED BY <1>1, <1>2 DEF WebTypeOK

(* A save that is acknowledged has been done. *)
Acknowledged ==
    \E w \in Workers : /\ requests[w].status = "waiting"
                       /\ requests[w].save
                       /\ requests'[w].status # "waiting"
                       /\ requests'[w].reply = "success"

LEMMA WebEffect ==
    ASSUME FrrTypeOK, WebTypeOK, WebNext
    PROVE  /\ WebTypeOK'
           /\ Changed \/ Saved
           /\ ~WebRemoves => Taken \/ Saved
           /\ Acknowledged => Saved
  <1>1. PICK w \in Workers :
           \/ save_config(w)
           \/ \E batch \in Batches : config_request(w, batch)
           \/ execute(w)
           \/ execute_timeout(w)
           \/ late_effect(w)
    BY DEF WebNext
  <1>2. /\ requests \in [Workers -> Requests]
        /\ requests[w].save \in BOOLEAN
        /\ requests[w].reply \in {"none", "success", "error", "timeout", "forbidden"}
    BY DEF WebTypeOK, Requests
  <1>3. CASE save_config(w)
    <2>1. WebTypeOK'
      BY <1>2, <1>3 DEF save_config, WebTypeOK, Requests
    <2>2. ~ Acknowledged
      BY <1>2, <1>3 DEF save_config, Acknowledged
    <2> QED BY <1>3, <2>1, <2>2, NothingTaken DEF save_config, Taken
  <1>4. ASSUME NEW batch \in Batches, config_request(w, batch)
        PROVE  WebTypeOK' /\ ~ Acknowledged /\ Taken
    <2>1. Taken
      BY <1>4, NothingTaken DEF config_request
    <2>2. CASE AllowConfig
      <3>1. requests' = [requests EXCEPT ![w] = [status |-> "waiting", batch |-> batch,
                                                 save |-> FALSE, reply |-> "none"]]
        BY <1>4, <2>2 DEF config_request
      <3>2. WebTypeOK'
        BY <1>2, <3>1 DEF WebTypeOK, Requests
      <3>3. ~ Acknowledged
        BY <1>2, <3>1 DEF Acknowledged
      <3> QED BY <2>1, <3>2, <3>3
    <2>3. CASE ~ AllowConfig
      <3>1. Free(w, "forbidden")
        BY <1>4, <2>3 DEF config_request
      <3>2. WebTypeOK' /\ ~ Acknowledged
        BY <3>1, OneFree DEF Acknowledged
      <3> QED BY <2>1, <3>2
    <2> QED BY <2>2, <2>3
  <1>5. ASSUME requests[w].status # "free", requests'[w].status = "free",
               Vtysh(requests[w].batch)
        PROVE  Changed /\ (~WebRemoves => Taken)
    <2>1. Removes(requests[w].batch) => WebRemoves
      BY <1>5 DEF WebRemoves
    <2> QED BY <1>5, <2>1, LinesOfRequest, BatchTaken
  <1>6. CASE execute(w)
    <2>1. CASE /\ IF requests[w].save THEN Write ELSE Accepted(requests[w].batch)
               /\ Free(w, "success")
      <3>1. /\ WebTypeOK'
            /\ requests'[w].status = "free"
            /\ \A v \in Workers \ {w} : requests'[v] = requests[v]
        BY <2>1, OneFree
      <3>2. CASE requests[w].save
        BY <2>1, <3>1, <3>2, WriteSaves
      <3>3. CASE ~ requests[w].save
        <4>1. Changed /\ (~WebRemoves => Taken)
          BY <1>5, <1>6, <2>1, <3>1, <3>3 DEF Vtysh, execute
        <4>2. ~ Acknowledged
          BY <3>1, <3>3 DEF Acknowledged
        <4> QED BY <3>1, <4>1, <4>2
      <3> QED BY <3>2, <3>3
    <2>2. CASE /\ IF requests[w].save THEN UNCHANGED frrVars
                                      ELSE Refused(requests[w].batch)
               /\ Free(w, "error")
      <3>1. WebTypeOK' /\ requests'[w].status = "free" /\ ~ Acknowledged
        BY <2>2, OneFree DEF Acknowledged
      <3>2. Changed /\ (~WebRemoves => Taken)
        BY <1>5, <1>6, <2>2, <3>1, NothingTaken DEF Vtysh, execute, Taken
      <3> QED BY <3>1, <3>2
    <2> QED BY <1>6, <2>1, <2>2 DEF execute
  <1>7. CASE execute_timeout(w)
    <2>1. WebTypeOK'
      BY <1>2, <1>7 DEF execute_timeout, GiveUp, WebTypeOK, Requests
    <2>2. ~ Acknowledged
      BY <1>2, <1>7 DEF execute_timeout, GiveUp, Acknowledged, Requests
    <2> QED BY <1>7, <2>1, <2>2, NothingTaken DEF execute_timeout, Taken
  <1>8. CASE late_effect(w)
    <2>1. requests[w].status = "late" /\ Free(w, requests[w].reply)
      BY <1>8 DEF late_effect
    <2>2. /\ WebTypeOK'
          /\ requests'[w].status = "free"
          /\ \A v \in Workers \ {w} : requests'[v] = requests[v]
      BY <1>2, <2>1, OneFree
    <2>3. ~ Acknowledged
      BY <2>1, <2>2 DEF Acknowledged
    <2>4. \/ Changed /\ (~WebRemoves => Taken)
          \/ Saved
      BY <1>5, <1>8, <2>1, <2>2, NothingTaken, WriteSaves DEF late_effect, Vtysh, Taken
    <2> QED BY <2>2, <2>3, <2>4
  <1> QED BY <1>1, <1>3, <1>4, <1>6, <1>7, <1>8 DEF Taken

-----------------------------------------------------------------------------
(* The conversion. *)

(* What it read may be sent to FRR. *)
LEMMA ReadValues ==
    ASSUME NEW key \in YangKeys, NEW v \in YangValues[key[1]]
    PROVE  key \in Keys => v \in ConfigValues \cup {NoAs}
  BY ConfigPlaneAssumption

LEMMA BgpKeyRead == BgpKey \in Keys \cap YangKeys
  BY ConfigPlaneAssumption DEF YangKeys

(* What a step of the conversion does to FRR, and when.                    *)
Converted ==
    /\ AdapterTypeOK'
    /\ pc # "ok"
    /\ pc = "restart" => \/ FrrTypeOK' /\ Restart /\ pc' = "ok"
                         \/ UNCHANGED frrVars /\ pc' = "failed"
    /\ pc # "restart" => Taken \/ Saved
    /\ pc' = "restart" => Saved
    /\ pc' = "ok" => pc = "restart"
    /\ pc # "router bgp" => /\ as_number' = as_number
                            /\ pc' \in BeforeSave \cup {"restart"} => pc \in BeforeSave
    /\ pc = "router bgp" /\ as_number' # NoAs =>
          /\ as_number' # Absent
          /\ pc' \in Configuring =>
                pc' = "router_id" /\ up' /\ running'[BgpKey] = as_number'

(* Most steps are of this form. *)
LEMMA ConvertedWithin ==
    ASSUME AdapterTypeOK, AdapterTypeOK', Taken, UNCHANGED as_number,
           pc \notin {"restart", "router bgp", "ok"}, pc' \notin {"restart", "ok"},
           pc' \in BeforeSave => pc \in BeforeSave
    PROVE  Converted
  BY DEF Converted, BeforeSave

(* Steps that leave yang and the AS alone keep the types of the rest.      *)
LEMMA AdapterMoves ==
    ASSUME AdapterTypeOK, NEW location \in Locations, Goto(location),
           states' \subseteq [key : {"interface"} \X Interfaces, value : YangValues["interface"]],
           addresses' \subseteq Neighbors
    PROVE  AdapterTypeOK' /\ pc' = location /\ UNCHANGED as_number
  BY DEF AdapterTypeOK, Goto

LEMMA InterfaceReadStep ==
    ASSUME FrrTypeOK, AdapterTypeOK, yang_interface_read
    PROVE  Converted
  <1>1. Taken
    BY NothingTaken DEF yang_interface_read
  <1>2. states \subseteq [key : {"interface"} \X Interfaces, value : YangValues["interface"]]
        /\ addresses \subseteq Neighbors
    BY DEF AdapterTypeOK
  <1>3. CASE /\ Goto("interface_states")
             /\ states' = {Line(<<"interface", i>>, yang[<<"interface", i>>]) :
                              i \in Configured("interface", Interfaces)}
    <2>1. ASSUME NEW i \in Configured("interface", Interfaces)
          PROVE  Line(<<"interface", i>>, yang[<<"interface", i>>])
                    \in [key : {"interface"} \X Interfaces, value : YangValues["interface"]]
      <3> DEFINE key == <<"interface", i>>
      <3>1. i \in Interfaces /\ yang[key] # Absent
        BY DEF Configured
      <3>2. key \in YangKeys /\ key[1] = "interface" /\ key \in {"interface"} \X Interfaces
        BY <3>1 DEF YangKeys
      <3>3. yang[key] \in YangDomain(key)
        BY <3>2 DEF AdapterTypeOK
      <3>4. yang[key] \in YangValues["interface"]
        BY <3>1, <3>2, <3>3 DEF YangDomain
      <3> QED BY <3>2, <3>4 DEF Line
    <2>2. AdapterTypeOK' /\ pc' = "interface_states" /\ UNCHANGED as_number
      BY <1>2, <1>3, <2>1, AdapterMoves DEF yang_interface_read, Locations
    <2> QED BY <1>1, <2>2, ConvertedWithin DEF yang_interface_read, BeforeSave
  <1>4. CASE Goto("failed") /\ UNCHANGED states
    <2>1. AdapterTypeOK' /\ pc' = "failed" /\ UNCHANGED as_number
      BY <1>2, <1>4, AdapterMoves DEF yang_interface_read, Locations
    <2> QED BY <1>1, <2>1, ConvertedWithin DEF yang_interface_read, BeforeSave
  <1> QED BY <1>3, <1>4 DEF yang_interface_read

LEMMA InterfaceStateStep ==
    ASSUME FrrTypeOK, AdapterTypeOK, yang_interface_state
    PROVE  Converted
  <1>1. states \subseteq [key : {"interface"} \X Interfaces, value : YangValues["interface"]]
        /\ addresses \subseteq Neighbors
    BY DEF AdapterTypeOK
  <1>2. ASSUME NEW line \in states, states' = states \ {line}, Vtysh(<<line>>),
               Goto("interface_states")
        PROVE  Converted
    <2>1. PICK i \in Interfaces, v \in YangValues["interface"] :
             line = Line(<<"interface", i>>, v)
      BY <1>1 DEF Line
    <2> DEFINE key == <<"interface", i>>
    <2>2. key \in YangKeys /\ key[1] = "interface"
      BY DEF YangKeys
    <2>3. Taken
      BY <1>2, <2>1, <2>2, ReadValues, OneLineTaken
    <2>4. AdapterTypeOK' /\ pc' = "interface_states" /\ UNCHANGED as_number
      BY <1>1, <1>2, AdapterMoves DEF yang_interface_state, Locations
    <2> QED BY <2>3, <2>4, ConvertedWithin DEF yang_interface_state, BeforeSave
  <1>3. CASE states = {} /\ Goto("router bgp") /\ UNCHANGED <<states, frrVars>>
    <2>1. Taken
      BY <1>3, NothingTaken
    <2>2. AdapterTypeOK' /\ pc' = "router bgp" /\ UNCHANGED as_number
      BY <1>1, <1>3, AdapterMoves DEF yang_interface_state, Locations
    <2> QED BY <2>1, <2>2, ConvertedWithin DEF yang_interface_state, BeforeSave
  <1> QED BY <1>2, <1>3 DEF yang_interface_state

LEMMA BgpAsStep ==
    ASSUME FrrTypeOK, AdapterTypeOK, yang_bgp_as
    PROVE  Converted
  <1>1. /\ as_number' = AsRead
        /\ pc = "router bgp"
        /\ UNCHANGED <<yang, states, addresses>>
    BY DEF yang_bgp_as
  <1>2. AsRead # NoAs => AsRead # Absent /\ AsRead \in YangValues[BgpKey[1]]
    <2>1. BgpKey \in YangKeys /\ yang[BgpKey] \in YangDomain(BgpKey)
      BY BgpKeyRead DEF AdapterTypeOK
    <2> QED BY <2>1 DEF AsRead, YangDomain
  <1>3. pc' \in Locations => AdapterTypeOK'
    BY <1>1, <1>2 DEF AdapterTypeOK
  <1>4. CASE AsRead = NoAs /\ pc' = "system" /\ UNCHANGED frrVars
    BY <1>1, <1>3, <1>4, NothingTaken DEF Converted, Locations
  <1>5. CASE AsRead # NoAs /\ Accepted(<<Line(BgpKey, AsRead)>>) /\ pc' = "router_id"
    <2>1. Taken
      BY <1>2, <1>5, BgpKeyRead, ReadValues, OneLineTaken DEF Vtysh
    <2>2. up' /\ running'[BgpKey] = AsRead
      BY <1>5, AsTaken DEF Accepted
    <2> QED BY <1>1, <1>2, <1>3, <1>5, <2>1, <2>2 DEF Converted, Locations, Configuring, BeforeSave
  <1>6. CASE AsRead # NoAs /\ Refused(<<Line(BgpKey, AsRead)>>) /\ RefusedAs
    <2>1. Taken
      BY <1>2, <1>6, BgpKeyRead, ReadValues, OneLineTaken DEF Vtysh
    <2> QED BY <1>1, <1>2, <1>3, <1>6, <2>1 DEF Converted, Locations, RefusedAs, Configuring, BeforeSave
  <1> QED BY <1>4, <1>5, <1>6 DEF yang_bgp_as

(* The AS it read, on a line of its own or not, is one that FRR may have.  *)
LEMMA AsRunsAsRead ==
    ASSUME AdapterTypeOK
    PROVE  BgpKey \in Keys => as_number \in ConfigValues \cup {NoAs}
  BY BgpKeyRead, ReadValues DEF AdapterTypeOK

LEMMA RouterIdStep ==
    ASSUME FrrTypeOK, AdapterTypeOK, yang_bgp_router_id
    PROVE  Converted
  <1>1. RouterIdKey \in YangKeys /\ yang[RouterIdKey] \in YangDomain(RouterIdKey)
    BY DEF AdapterTypeOK, YangKeys
  <1>2. Taken
    <2>1. CASE yang[RouterIdKey] = Absent
      BY <2>1, NothingTaken DEF yang_bgp_router_id
    <2>2. CASE yang[RouterIdKey] # Absent
      <3>1. yang[RouterIdKey] \in YangValues[RouterIdKey[1]]
        BY <1>1, <2>2 DEF YangDomain
      <3>2. RouterIdKey \in Keys => yang[RouterIdKey] \in ConfigValues \cup {NoAs}
        BY <1>1, <3>1, ReadValues
      <3>3. Vtysh(<<Line(BgpKey, as_number), Line(RouterIdKey, yang[RouterIdKey])>>)
        BY <2>2 DEF yang_bgp_router_id
      <3> QED BY <3>2, <3>3, AsRunsAsRead, TwoLinesTaken
    <2> QED BY <2>1, <2>2
  <1>3. AdapterTypeOK' /\ pc' = "neighbors" /\ UNCHANGED as_number
    BY AdapterMoves DEF yang_bgp_router_id, Locations, AdapterTypeOK
  <1> QED BY <1>2, <1>3, ConvertedWithin DEF yang_bgp_router_id, BeforeSave

LEMMA NeighborsStep ==
    ASSUME FrrTypeOK, AdapterTypeOK, yang_bgp_neighbors
    PROVE  Converted
  <1>1. Taken
    BY NothingTaken DEF yang_bgp_neighbors
  <1>2. AdapterTypeOK' /\ pc' = "neighbor" /\ UNCHANGED as_number
    <2>1. addresses' \subseteq Neighbors
      BY DEF yang_bgp_neighbors, Configured
    <2> QED BY <2>1, AdapterMoves DEF yang_bgp_neighbors, Locations, AdapterTypeOK
  <1> QED BY <1>1, <1>2, ConvertedWithin DEF yang_bgp_neighbors, BeforeSave

LEMMA NeighborStep ==
    ASSUME FrrTypeOK, AdapterTypeOK, yang_bgp_neighbor
    PROVE  Converted
  <1>1. Taken /\ addresses' \subseteq addresses /\ (Goto("neighbor") \/ Goto("system"))
    <2>1. ASSUME NEW n \in addresses, NeighborDone(n), Goto("neighbor"),
                 IF yang[<<"neighbor", n>>] \in {Absent, NoAs}
                 THEN UNCHANGED frrVars
                 ELSE Vtysh(<<Line(BgpKey, as_number),
                              Line(<<"neighbor", n>>, yang[<<"neighbor", n>>])>>)
          PROVE  Taken
      <3> DEFINE key == <<"neighbor", n>>
      <3>1. key \in YangKeys /\ yang[key] \in YangDomain(key)
        BY DEF AdapterTypeOK, YangKeys
      <3>2. CASE yang[key] \in {Absent, NoAs}
        BY <2>1, <3>2, NothingTaken
      <3>3. CASE yang[key] \notin {Absent, NoAs}
        <4>1. yang[key] \in YangValues[key[1]]
          BY <3>1, <3>3 DEF YangDomain
        <4> HIDE DEF key
        <4>2. key \in Keys => yang[key] \in ConfigValues \cup {NoAs}
          BY <3>1, <4>1, ReadValues
        <4>3. Vtysh(<<Line(BgpKey, as_number), Line(key, yang[key])>>)
          BY <2>1, <3>3 DEF key
        <4> QED BY <4>2, <4>3, AsRunsAsRead, TwoLinesTaken
      <3> QED BY <3>2, <3>3
    <2>2. CASE addresses = {} /\ Goto("system") /\ UNCHANGED <<addresses, frrVars>>
      BY <2>2, NothingTaken
    <2> QED BY <2>1, <2>2 DEF yang_bgp_neighbor, NeighborDone
  <1>2. UNCHANGED as_number /\ AdapterTypeOK' /\ pc' \in {"neighbor", "system"}
    BY <1>1, AdapterMoves DEF yang_bgp_neighbor, Locations, AdapterTypeOK
  <1> QED BY <1>1, <1>2, ConvertedWithin DEF yang_bgp_neighbor, BeforeSave

LEMMA SystemStep ==
    ASSUME FrrTypeOK, AdapterTypeOK, yang_system
    PROVE  Converted
  <1>1. HostnameKey \in YangKeys /\ yang[HostnameKey] \in YangDomain(HostnameKey)
    BY DEF AdapterTypeOK, YangKeys
  <1>2. Taken
    <2>1. CASE yang[HostnameKey] = Absent
      BY <2>1, NothingTaken DEF yang_system
    <2>2. CASE yang[HostnameKey] # Absent
      <3>1. yang[HostnameKey] \in YangValues[HostnameKey[1]]
        BY <1>1, <2>2 DEF YangDomain
      <3>2. HostnameKey \in Keys => yang[HostnameKey] \in ConfigValues \cup {NoAs}
        BY <1>1, <3>1, ReadValues
      <3> QED BY <2>2, <3>2, OneLineTaken DEF yang_system
    <2> QED BY <2>1, <2>2
  <1>3. AdapterTypeOK' /\ pc' = "write" /\ UNCHANGED as_number
    BY AdapterMoves DEF yang_system, Locations, AdapterTypeOK
  <1> QED BY <1>2, <1>3, ConvertedWithin DEF yang_system, BeforeSave

LEMMA WriteStep ==
    ASSUME FrrTypeOK, AdapterTypeOK, apply_frr_write
    PROVE  Converted
  <1>1. CASE SaveFrr /\ Goto("restart")
    <2>1. AdapterTypeOK' /\ pc' = "restart" /\ UNCHANGED as_number
      BY <1>1, AdapterMoves DEF apply_frr_write, Locations, AdapterTypeOK
    <2>2. Saved
      BY <1>1, WriteSaves DEF SaveFrr
    <2> QED BY <2>1, <2>2 DEF Converted, BeforeSave, Configuring, apply_frr_write
  <1>2. CASE Refused(<<Line(<<"write", NoArg>>, Enabled)>>) /\ Goto("failed")
    <2>1. AdapterTypeOK' /\ pc' = "failed" /\ UNCHANGED as_number
      BY <1>2, AdapterMoves DEF apply_frr_write, Locations, AdapterTypeOK
    <2>2. Taken
      BY <1>2, OneLineTaken, ConfigPlaneAssumption DEF Vtysh
    <2> QED BY <2>1, <2>2, ConvertedWithin DEF apply_frr_write, BeforeSave
  <1> QED BY <1>1, <1>2 DEF apply_frr_write

LEMMA RestartStep ==
    ASSUME FrrTypeOK, AdapterTypeOK, apply_frr_restart
    PROVE  Converted
  <1>1. /\ UNCHANGED as_number /\ pc = "restart" /\ pc' \in {"ok", "failed"}
        /\ \/ Restart /\ pc' = "ok"
           \/ UNCHANGED frrVars /\ pc' = "failed"
    BY DEF apply_frr_restart, Goto
  <1>2. AdapterTypeOK'
    BY AdapterMoves DEF apply_frr_restart, Locations, AdapterTypeOK
  <1>3. Restart => FrrTypeOK'
    BY DEF Restart, FrrTypeOK
  <1> QED BY <1>1, <1>2, <1>3 DEF Converted, BeforeSave, Configuring

LEMMA ConvertEffect ==
    ASSUME FrrTypeOK, AdapterTypeOK, Convert
    PROVE  Converted
  BY InterfaceReadStep, InterfaceStateStep, BgpAsStep, RouterIdStep, NeighborsStep,
     NeighborStep, SystemStep, WriteStep, RestartStep DEF Convert

-----------------------------------------------------------------------------
(* What the effects on FRR mean for the promises. *)

LEMMA PromisesTyped ==
    ASSUME TypeOK, FrrTypeOK'
    PROVE  /\ Surviving(kept) \in Promises
           /\ Surviving(pushed) \in Promises
           /\ Pushed \in Promises
           /\ running \in Promises
           /\ NoPromise \in Promises
  BY DEF TypeOK, FrrTypeOK, Configurations, Promises, Surviving, Pushed, NoPromise

LEMMA SavedKept ==
    ASSUME SavedIsInFile, Changed \/ Saved,
           \/ kept' = Surviving(kept)
           \/ kept' = running /\ Saved
    PROVE  SavedIsInFile'
  <1>1. CASE kept' = Surviving(kept)
    <2>1. ASSUME NEW k \in Keys, kept'[k] # Unpromised
          PROVE  kept'[k] = kept[k] /\ running'[k] = running[k]
      BY <1>1, <2>1 DEF Surviving
    <2>2. CASE Changed
      BY <2>1, <2>2 DEF Changed, SavedIsInFile
    <2>3. CASE Saved
      BY <2>1, <2>3 DEF Saved, Write, SavedIsInFile
    <2> QED BY <2>2, <2>3
  <1>2. CASE kept' = running /\ Saved
    BY <1>2 DEF Saved, Write, SavedIsInFile
  <1> QED BY <1>1, <1>2

LEMMA PushedKept ==
    ASSUME PushedIsRunning, Changed \/ Saved, pushed' = Surviving(pushed),
           UNCHANGED pc
    PROVE  PushedIsRunning'
  <1>1. ASSUME NEW k \in Keys, pushed'[k] # Unpromised
        PROVE  pushed'[k] = pushed[k] /\ running'[k] = running[k]
    BY <1>1 DEF Surviving
  <1>2. CASE Changed
    BY <1>1, <1>2 DEF Changed, PushedIsRunning
  <1>3. CASE Saved
    BY <1>1, <1>3 DEF Saved, Write, PushedIsRunning
  <1> QED BY <1>2, <1>3

LEMMA PushedGrows ==
    ASSUME PushedIsRunning, Changed \/ Saved, pushed' = Pushed,
           pc' = "restart" => Saved
    PROVE  PushedIsRunning'
  <1>1. ASSUME NEW k \in Keys, pushed'[k] # Unpromised
        PROVE  /\ pushed'[k] = running'[k]
               /\ up'
               /\ pc' = "restart" => startup'[k] = running'[k]
    <2>1. CASE running'[k] = running[k]
      <3>1. pushed'[k] = pushed[k]
        BY <2>1 DEF Pushed
      <3> QED BY <1>1, <2>1, <3>1 DEF Changed, Saved, Write, PushedIsRunning
    <2>2. CASE running'[k] # running[k]
      <3>1. pushed'[k] = running'[k]
        BY <2>2 DEF Pushed
      <3> QED BY <2>2, <3>1 DEF Changed, Saved, Write
    <2> QED BY <2>1, <2>2
  <1> QED BY <1>1 DEF PushedIsRunning

(* What others do, and whether it was taking the AS away. *)
LEMMA AsKept ==
    ASSUME AsIsRunning, Changed \/ Saved, NEW removes \in BOOLEAN,
           ~removes => Taken \/ Saved, UNCHANGED <<pc, as_number>>,
           as_lost' = (as_lost \/ (pc \in Configuring /\ removes))
    PROVE  AsIsRunning'
  <1>1. pc \in Configuring \/ pc \notin BeforeSave \cup {"restart", "ok"}
    BY DEF Configuring
  <1>2. CASE ~as_lost' /\ pc \in Configuring
    <2>1. ~as_lost /\ (Taken \/ Saved)
      BY <1>2
    <2> QED BY <2>1 DEF AsIsRunning, Taken, Changed, Saved, Write
  <1>3. CASE as_lost' \/ pc \notin Configuring
    BY <1>1, <1>3 DEF AsIsRunning
  <1> QED BY <1>2, <1>3

-----------------------------------------------------------------------------
(* The steps. *)

LEMMA WebKeeps == ASSUME IInv, WebStep PROVE IInv'
  <1>1. TypeOK /\ FrrTypeOK /\ AdapterTypeOK /\ WebTypeOK
    BY DEF IInv, TypeOK
  <1>2. /\ WebTypeOK'
        /\ Changed \/ Saved
        /\ ~WebRemoves => Taken \/ Saved
        /\ Acknowledged => Saved
    BY <1>1, WebEffect DEF WebStep
  <1>3. /\ UNCHANGED <<yang, pc, as_number, states, addresses, crashes, edits>>
        /\ pushed' = Surviving(pushed)
        /\ as_lost' = (as_lost \/ (pc \in Configuring /\ WebRemoves))
        /\ \/ kept' = Surviving(kept)
           \/ kept' = running /\ Saved
    BY <1>2 DEF WebStep, adapterVars, counters, Acknowledged
  <1>4. FrrTypeOK'
    BY <1>2 DEF Changed, Saved
  <1>5. TypeOK'
    <2>1. AdapterTypeOK'
      BY <1>1, <1>3 DEF AdapterTypeOK
    <2>2. as_lost' \in BOOLEAN
      BY <1>3
    <2> QED BY <1>1, <1>2, <1>3, <1>4, <2>1, <2>2, PromisesTyped DEF TypeOK
  <1>6. SavedIsInFile'
    BY <1>2, <1>3, SavedKept DEF IInv
  <1>7. PushedIsRunning'
    BY <1>2, <1>3, PushedKept DEF IInv
  <1>8. AsIsRunning'
    <2>1. WebRemoves \in BOOLEAN
      BY DEF WebRemoves
    <2> QED BY <1>2, <1>3, <2>1, AsKept DEF IInv
  <1> QED BY <1>5, <1>6, <1>7, <1>8 DEF IInv

LEMMA OperatorKeeps == ASSUME IInv, OperatorStep PROVE IInv'
  <1>1. TypeOK /\ FrrTypeOK /\ AdapterTypeOK /\ WebTypeOK
    BY DEF IInv, TypeOK
  <1>2. PICK batch \in CliBatches :
           /\ Vtysh(batch)
           /\ as_lost' = (as_lost \/ (pc \in Configuring /\ Removes(batch)))
    BY DEF OperatorStep
  <1>3. Changed /\ (~Removes(batch) => Taken)
    BY <1>1, <1>2, BatchTaken, ConfigPlaneAssumption
  <1>4. /\ UNCHANGED <<yang, pc, as_number, states, addresses, requests, crashes, edits>>
        /\ pushed' = Surviving(pushed)
        /\ kept' = Surviving(kept)
    BY DEF OperatorStep, adapterVars, counters
  <1>5. FrrTypeOK' /\ AdapterTypeOK' /\ WebTypeOK'
    BY <1>1, <1>4, <1>3 DEF Changed, AdapterTypeOK, WebTypeOK
  <1>6. TypeOK'
    BY <1>1, <1>2, <1>4, <1>5, PromisesTyped DEF TypeOK
  <1>7. SavedIsInFile'
    BY <1>4, <1>3, SavedKept DEF IInv
  <1>8. PushedIsRunning'
    BY <1>4, <1>3, PushedKept DEF IInv
  <1>9. AsIsRunning'
    <2>1. Removes(batch) \in BOOLEAN
      BY DEF Removes
    <2> QED BY <1>2, <1>4, <1>3, <2>1, AsKept DEF IInv
  <1> QED BY <1>6, <1>7, <1>8, <1>9 DEF IInv

LEMMA AdapterStartKeeps == ASSUME IInv, AdapterStarts PROVE IInv'
  <1>1. TypeOK /\ FrrTypeOK /\ AdapterTypeOK /\ WebTypeOK
    BY DEF IInv, TypeOK
  <1>2. /\ UNCHANGED <<running, startup, up, yang, requests, crashes, edits, kept>>
        /\ pc' = "interface_names" /\ as_number' = NoAs
        /\ states' = {} /\ addresses' = {}
        /\ pushed' = NoPromise
        /\ as_lost' = FALSE
    BY DEF AdapterStarts, yang_to_frr, frrVars, counters
  <1>3. FrrTypeOK' /\ AdapterTypeOK' /\ WebTypeOK'
    BY <1>1, <1>2 DEF FrrTypeOK, AdapterTypeOK, WebTypeOK, Locations
  <1>4. TypeOK'
    BY <1>1, <1>2, <1>3, PromisesTyped DEF TypeOK
  <1>5. SavedIsInFile' /\ PushedIsRunning' /\ AsIsRunning'
    BY <1>2 DEF IInv, SavedIsInFile, PushedIsRunning, AsIsRunning, NoPromise, BeforeSave
  <1> QED BY <1>4, <1>5 DEF IInv

LEMMA AdapterKeeps == ASSUME IInv, AdapterStep PROVE IInv'
  <1>1. TypeOK /\ FrrTypeOK /\ AdapterTypeOK /\ WebTypeOK
    BY DEF IInv, TypeOK
  <1>2. Converted
    BY <1>1, ConvertEffect DEF AdapterStep
  <1>3. UNCHANGED <<requests, crashes, edits, as_lost>>
    BY DEF AdapterStep, counters
  <1>4. AdapterTypeOK' /\ WebTypeOK'
    BY <1>1, <1>2, <1>3 DEF Converted, WebTypeOK
  <1>5. CASE pc = "restart"
    <2>1. /\ UNCHANGED <<kept, pushed, as_number>>
          /\ pc' \in {"ok", "failed"}
          /\ FrrTypeOK'
          /\ \/ Restart /\ pc' = "ok"
             \/ UNCHANGED <<running, startup, up>> /\ pc' = "failed"
      BY <1>1, <1>2, <1>5 DEF AdapterStep, Converted, frrVars, FrrTypeOK
    <2>2. TypeOK'
      BY <1>1, <1>3, <1>4, <2>1 DEF TypeOK
    <2>3. SavedIsInFile'
      BY <2>1 DEF IInv, SavedIsInFile, Restart
    <2>4. PushedIsRunning'
      BY <1>5, <2>1 DEF IInv, PushedIsRunning, Restart
    <2>5. AsIsRunning'
      BY <1>3, <1>5, <2>1 DEF IInv, AsIsRunning, Restart, BeforeSave
    <2> QED BY <2>2, <2>3, <2>4, <2>5 DEF IInv
  <1>6. CASE pc # "restart"
    <2>1. /\ Taken \/ Saved
          /\ pc' = "restart" => Saved
          /\ kept' = Surviving(kept)
          /\ pushed' = Pushed
      BY <1>2, <1>6 DEF AdapterStep, Converted
    <2>2. FrrTypeOK'
      BY <2>1 DEF Taken, Changed, Saved
    <2>3. TypeOK'
      BY <1>1, <1>3, <1>4, <2>1, <2>2, PromisesTyped DEF TypeOK
    <2>4. SavedIsInFile'
      BY <2>1, SavedKept DEF IInv, Taken
    <2>5. PushedIsRunning'
      BY <2>1, PushedGrows DEF IInv, Taken
    <2>6. AsIsRunning'
      <3>1. AsIsRunning /\ pc # "ok" /\ pc' # "ok"
        BY <1>2, <1>6 DEF IInv, Converted
      <3>2. CASE pc = "router bgp"
        BY <1>2, <3>1, <3>2 DEF Converted, AsIsRunning, Configuring, BeforeSave
      <3>3. CASE pc # "router bgp"
        <4>1. /\ as_number' = as_number
              /\ pc' \in BeforeSave \cup {"restart"} => pc \in BeforeSave
          BY <1>2, <3>3 DEF Converted
        <4> QED BY <1>3, <2>1, <3>1, <4>1 DEF AsIsRunning, Taken, Changed, Saved, Write
      <3> QED BY <3>2, <3>3
    <2> QED BY <2>3, <2>4, <2>5, <2>6 DEF IInv
  <1> QED BY <1>5, <1>6

LEMMA CrashKeeps == ASSUME IInv, FrrCrashes PROVE IInv'
  <1>1. TypeOK /\ FrrTypeOK /\ AdapterTypeOK /\ WebTypeOK
    BY DEF IInv, TypeOK
  <1>2. /\ UNCHANGED <<startup, yang, pc, as_number, states, addresses, requests, edits, kept>>
        /\ running' = NoConfiguration
        /\ up' = FALSE
        /\ crashes < MaxCrashes
        /\ crashes' = crashes + 1
        /\ pushed' = NoPromise
        /\ as_lost' = (as_lost \/ pc \in BeforeSave)
    BY DEF FrrCrashes, Crash, adapterVars
  <1>3. FrrTypeOK' /\ AdapterTypeOK' /\ WebTypeOK'
    BY <1>1, <1>2
    DEF FrrTypeOK, Configurations, NoConfiguration, AdapterTypeOK, WebTypeOK
  <1>4. crashes' \in 0 .. MaxCrashes
    BY <1>1, <1>2, ConfigPlaneAssumption DEF TypeOK
  <1>5. TypeOK'
    BY <1>1, <1>2, <1>3, <1>4, PromisesTyped DEF TypeOK
  <1>6. SavedIsInFile' /\ PushedIsRunning' /\ AsIsRunning'
    BY <1>2 DEF IInv, SavedIsInFile, PushedIsRunning, AsIsRunning, NoPromise
  <1> QED BY <1>5, <1>6 DEF IInv

LEMMA WatchdogKeeps == ASSUME IInv, WatchdogStep PROVE IInv'
  <1>1. TypeOK /\ FrrTypeOK /\ AdapterTypeOK /\ WebTypeOK
    BY DEF IInv, TypeOK
  <1>2. /\ UNCHANGED <<startup, yang, pc, as_number, states, addresses, requests,
                        crashes, edits, kept, pushed, as_lost>>
        /\ running' = startup
        /\ ~up /\ up' = TRUE
    BY DEF WatchdogStep, Watchdog, Restart, adapterVars, counters
  <1>3. FrrTypeOK' /\ AdapterTypeOK' /\ WebTypeOK'
    BY <1>1, <1>2 DEF FrrTypeOK, AdapterTypeOK, WebTypeOK
  <1>4. TypeOK'
    BY <1>1, <1>2, <1>3 DEF TypeOK
  <1>5. SavedIsInFile' /\ PushedIsRunning' /\ AsIsRunning'
    BY <1>2 DEF IInv, SavedIsInFile, PushedIsRunning, AsIsRunning
  <1> QED BY <1>4, <1>5 DEF IInv

LEMMA YangClientKeeps == ASSUME IInv, YangClientStep PROVE IInv'
  <1>1. TypeOK /\ FrrTypeOK /\ AdapterTypeOK /\ WebTypeOK
    BY DEF IInv, TypeOK
  <1>2. PICK key \in YangKeys : \E v \in YangDomain(key) : EditYang(key, v)
    BY DEF YangClientStep
  <1> PICK v \in YangDomain(key) : EditYang(key, v)
    BY <1>2
  <1>3. /\ UNCHANGED <<running, startup, up, pc, as_number, states, addresses, requests,
                        crashes, kept, pushed, as_lost>>
        /\ yang' = [yang EXCEPT ![key] = v]
        /\ edits < MaxEdits
        /\ edits' = edits + 1
    BY DEF YangClientStep, EditYang, adapterVars, frrVars
  <1>4. AdapterTypeOK'
    BY <1>1, <1>3 DEF AdapterTypeOK
  <1>5. FrrTypeOK' /\ WebTypeOK'
    BY <1>1, <1>3 DEF FrrTypeOK, WebTypeOK
  <1>6. edits' \in 0 .. MaxEdits
    BY <1>1, <1>3, ConfigPlaneAssumption DEF TypeOK
  <1>7. TypeOK'
    BY <1>1, <1>3, <1>4, <1>5, <1>6 DEF TypeOK
  <1>8. SavedIsInFile' /\ PushedIsRunning' /\ AsIsRunning'
    BY <1>3 DEF IInv, SavedIsInFile, PushedIsRunning, AsIsRunning
  <1> QED BY <1>7, <1>8 DEF IInv

LEMMA StutterKeeps == ASSUME IInv, UNCHANGED vars PROVE IInv'
  BY DEF vars, frrVars, adapterVars, counters, IInv, TypeOK, FrrTypeOK, AdapterTypeOK,
         WebTypeOK, SavedIsInFile, PushedIsRunning, AsIsRunning

LEMMA StepInv == IInv /\ [Next]_vars => IInv'
  BY WebKeeps, AdapterStartKeeps, AdapterKeeps, OperatorKeeps, CrashKeeps, WatchdogKeeps,
     YangClientKeeps, StutterKeeps DEF Next

LEMMA Invariance == Spec => []IInv
  BY InitInv, StepInv, PTL DEF Spec

-----------------------------------------------------------------------------
(* Every variable keeps its type, so every value FRR is given is one of    *)
(* its values, whoever sends it.                                           *)
THEOREM TypeCorrect == Spec => []TypeOK
  <1>1. IInv => TypeOK
    BY DEF IInv
  <1> QED BY <1>1, Invariance, PTL

(* What /api/config/save acknowledged is in force whenever FRR runs,       *)
(* whatever crashes, restarts, conversions, requests and commands come in  *)
(* between, until one of them configures the item anew.                    *)
THEOREM SavesSurvive == Spec => []SavedSurvives
  <1>1. IInv => SavedSurvives
    BY DEF IInv, SavedIsInFile, SavedSurvives
  <1> QED BY <1>1, Invariance, PTL

(* The restart at the end of a conversion takes nothing away from what FRR *)
(* took during it.                                                         *)
THEOREM ConversionsStick == Spec => []ConversionSticks
  <1>1. IInv => ConversionSticks
    BY DEF IInv, PushedIsRunning, ConversionSticks
  <1> QED BY <1>1, Invariance, PTL

(* A conversion that reports success leaves FRR with the AS it read, under *)
(* commands of others that are arbitrary: what they may contain, "no       *)
(* router bgp" included, is not assumed.  Exempt are runs in which BGP was *)
(* removed, or FRR crashed before the save, after the AS was taken.        *)
THEOREM SuccessesHaveTheirAs == Spec => []SuccessHasItsAs
  <1>1. IInv => SuccessHasItsAs
    BY DEF IInv, AsIsRunning, SuccessHasItsAs, Configuring
  <1> QED BY <1>1, Invariance, PTL
==============================================================================
