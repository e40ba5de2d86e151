------------------------------- MODULE AaaGre -------------------------------
(***************************************************************************)
(* Local users and RADIUS servers, src/src/security/auth/aaa.c, and GRE    *)
(* tunnels, src/src/security/vpn/gre/gre_tunnel.c.                         *)
(***************************************************************************)
EXTENDS Tables

CONSTANTS
    UserNames,
    Passwords,
    Services,        \* telnet, ssh, ...; not checked
    Servers,         \* RADIUS servers
    TunnelIds,       \* as typed
    Endpoints,       \* addresses and interfaces
    AaaNumbers       \* levels, ports and intervals as typed

ASSUME AaaAssumption == AaaNumbers \subseteq Int /\ TunnelIds \subseteq Int

VARIABLE aaa_enabled

User == [name : UserNames, password : Passwords, privilege_level : 0 .. 15,
         service_type : Services \cup {Unset}]
RadiusServer == [name : Servers, auth_port : 0 .. 65535]
Tunnel == [name : 0 .. 65535, source : Endpoints \cup {Unset},
           destination : Endpoints \cup {Unset}, keepalive_enabled : BOOLEAN,
           keepalive_interval : 0 .. 65535]

(* aaa *)
cmd_aaa ==
    /\ aaa_enabled' = TRUE
    /\ UNCHANGED tableVars

(* local-user <username> password cipher <password>: a new entry every     *)
(* time, also for a user there is.                                         *)
cmd_local_user(name, password) ==
    /\ HasRoom("user")
    /\ AppendEntry("user", [name |-> name, password |-> password,
                            privilege_level |-> 0, service_type |-> Unset])
    /\ UNCHANGED aaa_enabled

(* Every entry of the user is changed. *)
cmd_user_privilege_Faulty(name, n) ==
    /\ Uint8(n) <= 15
    /\ Position("user", name) # Null
    /\ tables' = [tables EXCEPT !["user"] =
           [i \in DOMAIN @ |-> IF @[i].name = name
                               THEN [@[i] EXCEPT !.privilege_level = Uint8(n)] ELSE @[i]]]
    /\ UNCHANGED <<current, prompt, aaa_enabled>>

(* local-user <username> privilege level <level> *)
cmd_user_privilege(name, n) ==
    /\ Uint8(n) <= 15
    /\ SetIn("user", Position("user", name), "privilege_level", Uint8(n))
    /\ UNCHANGED aaa_enabled

(* local-user <username> service-type <service> *)
cmd_user_service_type(name, service) ==
    /\ SetIn("user", Position("user", name), "service_type", service)
    /\ UNCHANGED aaa_enabled

(* radius-server <address> [auth-port <port>] ... *)
cmd_radius_server(server, port) ==
    /\ HasRoom("radius")
    /\ AppendEntry("radius", [name |-> server, auth_port |-> Uint16(port)])
    /\ UNCHANGED aaa_enabled

-----------------------------------------------------------------------------
NewTunnel(id) ==
    [name |-> id, source |-> Unset, destination |-> Unset,
     keepalive_enabled |-> FALSE, keepalive_interval |-> 10]

(* interface Tunnel<id>; %hu takes the number modulo 2^16. *)
cmd_interface_tunnel(n) ==
    /\ EnterUnchecked("tunnel", NewTunnel(Uint16(n)))
    /\ UNCHANGED aaa_enabled

(* source and destination *)
cmd_tunnel_endpoint(field, endpoint) ==
    /\ Set("tunnel", field, endpoint)
    /\ UNCHANGED aaa_enabled

(* keepalive [<interval> [<retries>]]: an interval once set stays when     *)
(* none is typed.                                                          *)
cmd_tunnel_keepalive(interval) ==
    /\ HasEntry("tunnel")
    /\ SetEntry("tunnel", [Entry("tunnel") EXCEPT
           !.keepalive_enabled = TRUE,
           !.keepalive_interval = IF interval = <<>> THEN @ ELSE Uint16(interval[1])])
    /\ UNCHANGED aaa_enabled

AaaNext ==
    \/ cmd_aaa
    \/ \E name \in UserNames : \/ \E password \in Passwords : cmd_local_user(name, password)
                               \/ \E n \in AaaNumbers : cmd_user_privilege(name, n)
                               \/ \E service \in Services : cmd_user_service_type(name, service)
    \/ \E server \in Servers, port \in AaaNumbers \cup {1812} : cmd_radius_server(server, port)

TunnelNext ==
    \/ \E n \in TunnelIds : cmd_interface_tunnel(n)
    \/ \E field \in {"source", "destination"}, endpoint \in Endpoints :
          cmd_tunnel_endpoint(field, endpoint)
    \/ \E interval \in {<<>>} \cup {<<n>> : n \in AaaNumbers} : cmd_tunnel_keepalive(interval)

-----------------------------------------------------------------------------
(* The entries a user has beyond the first, as when a password is typed    *)
(* again, never get a privilege: the commands reach the first one only.    *)
DuplicatesPowerless ==
    \A i, j \in DOMAIN tables["user"] :
        LET users == tables["user"]
        IN i < j /\ users[i].name = users[j].name => users[j].privilege_level = 0
==============================================================================
