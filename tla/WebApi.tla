------------------------------- MODULE WebApi -------------------------------
(***************************************************************************)
(* The web management service, src/src/web_management/app.py.              *)
(*                                                                         *)
(* Flask serves requests in threads of their own.  A request that          *)
(* configures turns into one call of vtysh, which is given up after        *)
(* COMMAND_TIMEOUT seconds: the client is told so, but what FRR has taken  *)
(* of the batch, or is still to take, stays.                               *)
(*                                                                         *)
(* Operators named ..._Faulty are seeded faults, as in PolicyRoute.        *)
(***************************************************************************)
EXTENDS Frr

CONSTANTS
    Workers,         \* request threads
    Batches,         \* the lines of the requests clients send
    AllowConfig      \* ALLOW_CONFIG_COMMANDS

VARIABLE requests    \* per thread: the request it serves and its answer

Save == "save"

(* status: free, waiting for vtysh, or given up while FRR may still act;   *)
(* reply: the last answer of the thread                                    *)
Requests == [status : {"free", "waiting", "late"}, batch : Batches \cup {<<>>},
             save : BOOLEAN, reply : {"none", "success", "error", "timeout", "forbidden"}]

WebTypeOK == requests \in [Workers -> Requests]

WebInit ==
    requests = [w \in Workers |-> [status |-> "free", batch |-> <<>>, save |-> FALSE,
                                   reply |-> "none"]]

-----------------------------------------------------------------------------
(* The thread is done with its request. *)
Free(w, reply) ==
    requests' = [requests EXCEPT ![w] = [status |-> "free", batch |-> <<>>,
                                         save |-> FALSE, reply |-> reply]]

(* The client has its answer, but not because vtysh ended.                 *)
GiveUp(w, reply) ==
    requests' = [requests EXCEPT ![w].status = "late", ![w].reply = reply]

(* /api/config/save, which ALLOW_CONFIG_COMMANDS does not forbid *)
save_config(w) ==
    /\ requests[w].status = "free"
    /\ requests' = [requests EXCEPT ![w] = [status |-> "waiting", batch |-> <<>>,
                                            save |-> TRUE, reply |-> "none"]]
    /\ UNCHANGED frrVars

(* /api/config/interface, ospf, bgp, static-route, delete-static-route and *)
(* hostname, and /api/command with a configuration command                 *)
config_request(w, batch) ==
    /\ requests[w].status = "free"
    /\ IF AllowConfig
       THEN requests' = [requests EXCEPT ![w] = [status |-> "waiting", batch |-> batch,
                                                 save |-> FALSE, reply |-> "none"]]
       ELSE Free(w, "forbidden")
    /\ UNCHANGED frrVars

(* vtysh returns in time. *)
execute(w) ==
    /\ requests[w].status = "waiting"
    /\ \/ /\ IF requests[w].save THEN Write ELSE Accepted(requests[w].batch)
          /\ Free(w, "success")
       \/ /\ IF requests[w].save THEN UNCHANGED frrVars ELSE Refused(requests[w].batch)
          /\ Free(w, "error")

(* The exit code is looked at although vtysh has not returned. *)
execute_timeout_Faulty(w) ==
    /\ requests[w].status = "waiting"
    /\ GiveUp(w, "success")
    /\ UNCHANGED frrVars

(* vtysh is waited for again. *)
execute_timeout_Retry_Faulty(w) ==
    /\ requests[w].status = "waiting"
    /\ UNCHANGED <<requests, frrVars>>

(* subprocess.TimeoutExpired *)
execute_timeout(w) ==
    /\ requests[w].status = "waiting"
    /\ GiveUp(w, "timeout")
    /\ UNCHANGED frrVars

(* What a killed vtysh had already sent takes effect, or is lost.          *)
late_effect(w) ==
    /\ requests[w].status = "late"
    /\ \/ IF requests[w].save THEN Write ELSE Accepted(requests[w].batch)
       \/ IF requests[w].save THEN UNCHANGED frrVars ELSE Refused(requests[w].batch)
    /\ Free(w, requests[w].reply)

WebNext ==
    \E w \in Workers :
        \/ save_config(w)
        \/ \E batch \in Batches : config_request(w, batch)
        \/ execute(w)
        \/ execute_timeout(w)
        \/ late_effect(w)
==============================================================================
