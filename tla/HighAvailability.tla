-------------------------- MODULE HighAvailability --------------------------
(***************************************************************************)
(* The commands of VRRP groups, BFD sessions and tracks,                   *)
(* src/src/high_availability/vrrp.c, bfd.c and track.c.  They fill three   *)
(* tables; a group names the sessions and interfaces it depends on, a      *)
(* track the tracks it combines.  No protocol runs in this code: the       *)
(* states and statistics shown never leave their initial values and are    *)
(* left out.                                                               *)
(***************************************************************************)
EXTENDS Tables

CONSTANTS
    VrIds,           \* VRRP groups, as typed
    TrackIds,        \* tracks, as typed
    SessionNames,    \* BFD sessions
    HaTexts,         \* addresses, interfaces, keys
    HaNumbers,       \* priorities, intervals and delays, as typed
    Discriminators,
    MaxVirtualIps,   \* 8 in the code
    MaxVrrpTracks,   \* 16
    MaxOperands      \* 8: the tracks one track combines

ASSUME HaAssumption ==
    /\ VrIds \subseteq Int /\ TrackIds \subseteq Int /\ HaNumbers \subseteq Int
    /\ {MaxVirtualIps, MaxVrrpTracks, MaxOperands} \subseteq Nat
    /\ Unset \notin HaTexts

VrrpTrack == [name : HaTexts \cup SessionNames, is_bfd : BOOLEAN,
              priority_reduce : HaNumbers \cup {10}]

VrrpGroup ==
    [name : 1 .. 255, version : {2, 3}, priority : 1 .. 254,
     effective_priority : 1 .. 254, advert_interval : 1 .. 25500,
     preempt : BOOLEAN, preempt_delay : 0 .. 65535,
     virtual_ips : Seq(HaTexts),
     auth_type : {"none", "simple", "md5"}, auth_key : HaTexts \cup {Unset},
     tracks : Seq(VrrpTrack)]

NewGroup(vrid) ==
    [name |-> vrid, version |-> 2, priority |-> 100, effective_priority |-> 100,
     advert_interval |-> 100, preempt |-> TRUE, preempt_delay |-> 0,
     virtual_ips |-> <<>>, auth_type |-> "none", auth_key |-> Unset, tracks |-> <<>>]

(* vrrp vrid <vrid>: narrowed first, 257 enters group 1. *)
cmd_vrrp_vrid(n) ==
    /\ Uint8(n) \in 1 .. 255
    /\ Enter("vrrp", NewGroup(Uint8(n)))

Group == Entry("vrrp")

(* version {2|3} *)
cmd_vrrp_version(n) == n \in {2, 3} /\ Set("vrrp", "version", n)

(* priority <priority>: nothing ever takes what the tracks are to reduce   *)
(* from the effective priority.                                            *)
cmd_vrrp_priority(n) ==
    /\ Uint8(n) \in 1 .. 254
    /\ HasEntry("vrrp")
    /\ SetEntry("vrrp", [Group EXCEPT !.priority = Uint8(n), !.effective_priority = Uint8(n)])

(* virtual-ip <ip-address> *)
cmd_vrrp_virtual_ip(ip) == Add("vrrp", "virtual_ips", ip, MaxVirtualIps)

(* timer advertise <interval> *)
cmd_vrrp_timer_advertise(n) ==
    /\ Uint16(n) \in 1 .. 25500
    /\ Set("vrrp", "advert_interval", Uint16(n))

(* preempt-mode [timer delay <delay>]: a delay once set stays when none is *)
(* typed.                                                                  *)
cmd_vrrp_preempt(delay) ==
    /\ HasEntry("vrrp")
    /\ SetEntry("vrrp", [Group EXCEPT
           !.preempt = TRUE,
           !.preempt_delay = IF delay = <<>> THEN @ ELSE Uint16(delay[1])])

(* The delay stays. *)
cmd_vrrp_undo_preempt_Faulty == Set("vrrp", "preempt", FALSE)

(* undo preempt-mode *)
cmd_vrrp_undo_preempt ==
    /\ HasEntry("vrrp")
    /\ SetEntry("vrrp", [Group EXCEPT !.preempt = FALSE, !.preempt_delay = 0])

(* authentication-mode {simple|md5} <key>: another mode changes nothing. *)
cmd_vrrp_authentication(mode, key) ==
    /\ HasEntry("vrrp")
    /\ SetEntry("vrrp", [Group EXCEPT !.auth_type = mode, !.auth_key = key])

(* track interface and track bfd-session, each [reduced <priority>] *)
cmd_vrrp_track(name, is_bfd, reduce) ==
    Add("vrrp", "tracks",
        [name |-> name, is_bfd |-> is_bfd, priority_reduce |-> reduce], MaxVrrpTracks)

VrrpNext ==
    \/ \E n \in VrIds : cmd_vrrp_vrid(n)
    \/ \E n \in {1, 2, 3} : cmd_vrrp_version(n)
    \/ \E n \in HaNumbers : cmd_vrrp_priority(n) \/ cmd_vrrp_timer_advertise(n)
    \/ \E ip \in HaTexts : cmd_vrrp_virtual_ip(ip)
    \/ \E delay \in {<<>>} \cup {<<n>> : n \in HaNumbers} : cmd_vrrp_preempt(delay)
    \/ cmd_vrrp_undo_preempt
    \/ \E mode \in {"simple", "md5"}, key \in HaTexts : cmd_vrrp_authentication(mode, key)
    \/ \E reduce \in HaNumbers \cup {10} :
          \/ \E name \in HaTexts : cmd_vrrp_track(name, FALSE, reduce)
          \/ \E name \in SessionNames : cmd_vrrp_track(name, TRUE, reduce)
-----------------------------------------------------------------------------
(* Intervals are typed in ms and kept in us. *)
Milliseconds == 3 .. 20000
Us(n) == n * 1000
Microseconds == {Us(n) : n \in Milliseconds}

BfdSession ==
    [name : SessionNames, type : {"single-hop", "multi-hop"},
     peer_ip : HaTexts, source_ip : HaTexts \cup {Unset},
     min_tx_interval : Microseconds, min_rx_interval : Microseconds,
     detect_multiplier : 3 .. 50, echo_mode : BOOLEAN,
     echo_interval : Microseconds, local_discriminator : Discriminators]

(* The discriminator is a random number, nothing keeps two sessions from   *)
(* having the same.                                                        *)
NewSession(name, peer, random) ==
    [name |-> name, type |-> "single-hop", peer_ip |-> peer, source_ip |-> Unset,
     min_tx_interval |-> Us(1000), min_rx_interval |-> Us(1000),
     detect_multiplier |-> 3, echo_mode |-> FALSE, echo_interval |-> Us(500),
     local_discriminator |-> random]

Bound(session, peer, source) ==
    [session EXCEPT !.peer_ip = peer,
                    !.source_ip = IF source = <<>> THEN @ ELSE source[1]]

(* bfd <session-name> bind peer-ip <ip> [interface ...] [source-ip <ip>]:  *)
(* the addresses are written into a session that exists as well.           *)
cmd_bfd_session(name, peer, random, source) ==
    LET i == Pointer("bfd", name)
        entered == WithEntry("bfd", NewSession(name, peer, random))
    IN /\ tables' = [tables EXCEPT !["bfd"] =
              IF i = Null THEN entered
              ELSE [entered EXCEPT ![i] = Bound(@, peer, source)]]
       /\ current' = [current EXCEPT !["bfd"] = i]
       /\ prompt' = IF i = Null THEN prompt ELSE Announced("bfd", name)

(* discriminator local <value> *)
cmd_bfd_discriminator(value) == Set("bfd", "local_discriminator", value)

(* min-tx-interval and min-rx-interval, in ms; they are kept in us.  A     *)
(* number below zero is a huge uint32_t, and refused like it.              *)
cmd_bfd_interval(field, n) ==
    /\ n \in Milliseconds
    /\ Set("bfd", field, Us(n))

(* detect-multiplier <multiplier> *)
cmd_bfd_detect_multiplier(n) ==
    /\ Uint8(n) \in 3 .. 50
    /\ Set("bfd", "detect_multiplier", Uint8(n))

(* echo-mode [interval <interval>]: an interval out of range is ignored,   *)
(* the mode is on all the same.                                            *)
cmd_bfd_echo_mode(interval) ==
    /\ HasEntry("bfd")
    /\ SetEntry("bfd", [Entry("bfd") EXCEPT
           !.echo_mode = TRUE,
           !.echo_interval = IF interval # <<>> /\ interval[1] \in Milliseconds
                             THEN Us(interval[1]) ELSE @])

(* session-type {single-hop|multi-hop} *)
cmd_bfd_session_type(type) == Set("bfd", "type", type)

BfdNext ==
    \/ \E name \in SessionNames, peer \in HaTexts, random \in Discriminators,
          source \in {<<>>} \cup {<<ip>> : ip \in HaTexts} :
          cmd_bfd_session(name, peer, random, source)
    \/ \E value \in Discriminators : cmd_bfd_discriminator(value)
    \/ \E field \in {"min_tx_interval", "min_rx_interval"}, n \in HaNumbers :
          cmd_bfd_interval(field, n)
    \/ \E n \in HaNumbers : cmd_bfd_detect_multiplier(n)
    \/ \E interval \in {<<>>} \cup {<<n>> : n \in HaNumbers} : cmd_bfd_echo_mode(interval)
    \/ \E type \in {"single-hop", "multi-hop"} : cmd_bfd_session_type(type)
-----------------------------------------------------------------------------
TrackTypes == {"interface", "ip_route", "bfd", "nqa", "boolean"}

(* The tracks a track of type boolean combines. *)
OperandLists == {ids \in Seq(1 .. 1024) : Len(ids) <= MaxOperands}

(* The union of a track: who wrote it last, and what.  A new track holds   *)
(* zeros and is of type interface.                                         *)
Data ==
    ({"interface"} \X HaTexts \X {"protocol", "line", "both"})
        \cup ({"ip_route", "bfd"} \X (HaTexts \cup SessionNames))
        \cup ({"nqa"} \X HaTexts \X (HaNumbers \cup {100}))
        \cup ({"boolean"} \X {"and", "or"} \X OperandLists) \cup {<<"none">>}

Track == [name : 1 .. 1024, type : TrackTypes, data : Data, delay_up : 0 .. 65535]

NewTrack(id) == [name |-> id, type |-> "interface", data |-> <<"none">>, delay_up |-> 0]

(* track <track-id>; the label that may be given with it is left out. *)
cmd_track(n) ==
    /\ Uint16(n) \in 1 .. 1024
    /\ Enter("track", NewTrack(Uint16(n)))

(* The type is left as it was. *)
SetTrack_Faulty(type, data) ==
    /\ HasEntry("track")
    /\ tables' = [tables EXCEPT !["track"][current["track"]].data = data]
    /\ UNCHANGED <<current, prompt>>

SetTrack(type, data) ==
    /\ HasEntry("track")
    /\ SetEntry("track", [Entry("track") EXCEPT !.type = type, !.data = data])

(* interface <interface> [protocol|line], ip route <destination> <mask>,   *)
(* bfd-session <session-name>                                              *)
cmd_track_interface(interface, mode) ==
    SetTrack("interface", <<"interface", interface, mode>>)
cmd_track_ip_route(destination) == SetTrack("ip_route", <<"ip_route", destination>>)
cmd_track_bfd_session(session) == SetTrack("bfd", <<"bfd", session>>)

(* nqa <admin-name> <test-name> [threshold <value>]: 100 unless it is      *)
(* typed, also for a track that had another one.                           *)
cmd_track_nqa(test, threshold) == SetTrack("nqa", <<"nqa", test, threshold>>)

(* An id out of range is passed over; neither that such a track exists nor *)
(* that the track does not combine itself is checked.                      *)
Operand(n) == IF Uint16(n) \in 1 .. 1024 THEN <<Uint16(n)>> ELSE <<>>

(* Those of the ids in range there is room for. *)
Operands(m, n) ==
    LET inRange == Operand(m) \o Operand(n)
    IN IF Len(inRange) <= MaxOperands THEN inRange ELSE SubSeq(inRange, 1, MaxOperands)

(* boolean {and|or} <track-id> ...: the type is set before the operator is *)
(* looked at, so that with another operator the union keeps the bytes of   *)
(* the former type.                                                        *)
cmd_track_boolean(op, m, n) ==
    /\ HasEntry("track")
    /\ SetTrack("boolean", IF op \in {"and", "or"}
                           THEN <<"boolean", op, Operands(m, n)>>
                           ELSE Entry("track").data)

(* delay up <seconds> down <seconds> *)
cmd_track_delay(n) == Set("track", "delay_up", Uint16(n))

TrackNext ==
    \/ \E n \in TrackIds : cmd_track(n)
    \/ \E name \in HaTexts : \/ \E mode \in {"protocol", "line", "both"} :
                                   cmd_track_interface(name, mode)
                             \/ cmd_track_ip_route(name)
                             \/ \E n \in HaNumbers \cup {100} : cmd_track_nqa(name, n)
    \/ \E name \in SessionNames : cmd_track_bfd_session(name)
    \/ \E op \in {"and", "or", "other"}, m, n \in TrackIds :
          cmd_track_boolean(op, m, n)
    \/ \E n \in HaNumbers : cmd_track_delay(n)

-----------------------------------------------------------------------------
(* However preemption and authentication are configured, in any order and  *)
(* with commands that fail in between: a group that does not preempt has   *)
(* no delay left over, and a mode of authentication comes with a key.      *)
GroupsCoherent ==
    \A i \in DOMAIN tables["vrrp"] :
        LET group == tables["vrrp"][i]
        IN /\ ~group.preempt => group.preempt_delay = 0
           /\ group.auth_type # "none" => group.auth_key # Unset

(* The display reads the union of a track as what its type says.  What it  *)
(* reads was written as that, but for a track that is new.  Tracks of type *)
(* boolean are exempt: a refused "boolean" leaves that type with the bytes *)
(* of the former one.                                                      *)
UnionReadAsWritten ==
    \A i \in DOMAIN tables["track"] :
        LET track == tables["track"][i]
        IN track.type \notin {"boolean", track.data[1]} => track.data = <<"none">>
==============================================================================
