-------------------------------- MODULE Qos --------------------------------
(***************************************************************************)
(* Traffic classifiers, behaviors, policies and queue profiles,            *)
(* src/src/qos/classifier.c, behavior.c, policy.c and queue.c.  A policy   *)
(* names classifiers, behaviors and is applied by name; nothing checks     *)
(* that what it names exists.                                              *)
(***************************************************************************)
EXTENDS Tables

CONSTANTS
    QosNames,        \* classifiers, behaviors, policies, interfaces
    QosTexts,        \* addresses
    QosNumbers,      \* numbers as typed
    MaxConditions,   \* 16 in the code
    MaxActions,      \* 8
    MaxBindings,     \* 32
    LastQueue,       \* the highest queue id, 7; there is room for LastQueue + 1
    Word             \* 2^32 in the code

ASSUME QosAssumption ==
    /\ QosNumbers \subseteq Int
    /\ {MaxConditions, MaxActions, MaxBindings, LastQueue} \subseteq Nat
    /\ Word \in Nat \ {0}

Directions == {"inbound", "outbound"}
Schedulers == {"pq", "wfq", "cbwfq"}

(* A condition or an action keeps its kind and its value. *)
Condition ==
    ({"acl"} \X (2000 .. 3999)) \cup ({"dscp"} \X (0 .. 63))
        \cup ({"source", "destination"} \X QosTexts)
Action ==
    ({"remark_dscp"} \X (0 .. 63)) \cup ({"priority"} \X (0 .. 7))
        \cup ({"car"} \X (0 .. Word - 1) \X (0 .. Word - 1)) \cup {<<"deny">>}

Classifier == [name : QosNames, conditions : Seq(Condition)]
Behavior == [name : QosNames, actions : Seq(Action)]
TrafficPolicy == [name : QosNames,
                  bindings : Seq(QosNames \X QosNames),
                  applied : SUBSET Directions]
Queue == [queue_id : 0 .. LastQueue, sched_type : Schedulers,
          max_depth : 0 .. 65535, wred : BOOLEAN]
QueueProfile == [name : QosNames, queues : Seq(Queue),
                 default_sched : Schedulers]

NewClassifier(name) == [name |-> name, conditions |-> <<>>]
NewBehavior(name) == [name |-> name, actions |-> <<>>]
NewTrafficPolicy(name) == [name |-> name, bindings |-> <<>>, applied |-> {}]
NewProfile(name) == [name |-> name, queues |-> <<>>, default_sched |-> "wfq"]

-----------------------------------------------------------------------------
(* traffic classifier <name> *)
cmd_traffic_classifier(name) == Enter("classifier", NewClassifier(name))

(* if-match acl, dscp, ip-address source and ip-address destination *)
cmd_if_match(condition) ==
    /\ condition \in Condition
    /\ Add("classifier", "conditions", condition, MaxConditions)

Conditions(n, text) ==
    {<<"acl", Uint16(n)>>, <<"dscp", Uint8(n)>>, <<"source", text>>, <<"destination", text>>}

(* traffic behavior <name> *)
cmd_traffic_behavior(name) == Enter("behavior", NewBehavior(name))

(* remark dscp *)
cmd_remark_dscp(n) ==
    /\ Uint8(n) <= 63
    /\ Add("behavior", "actions", <<"remark_dscp", Uint8(n)>>, MaxActions)

(* uint32_t *)
Uint32(n) == n % Word

(* The burst of one second, unless one is typed; the product may overflow. *)
Bursts(n) == {Uint32(Uint32(n) * 125)} \cup {Uint32(cbs) : cbs \in QosNumbers}

(* car cir <cir> [cbs <cbs>]: no value is checked; the peak rate and burst *)
(* follow the committed ones.                                              *)
cmd_car(n, cbs) ==
    Add("behavior", "actions", <<"car", Uint32(n), cbs>>, MaxActions)

(* priority <priority-value> *)
cmd_priority(n) ==
    /\ Uint8(n) <= 7
    /\ Add("behavior", "actions", <<"priority", Uint8(n)>>, MaxActions)

(* deny *)
cmd_deny == Add("behavior", "actions", <<"deny">>, MaxActions)

-----------------------------------------------------------------------------
(* traffic policy <name> *)
cmd_traffic_policy(name) == Enter("traffic_policy", NewTrafficPolicy(name))

(* classifier <classifier-name> behavior <behavior-name> *)
cmd_classifier_behavior(classifier, behavior) ==
    Add("traffic_policy", "bindings", <<classifier, behavior>>, MaxBindings)

(* traffic-policy <policy-name> {inbound|outbound}: found by its name; the *)
(* direction replaces the one before, the interface is not kept.           *)
cmd_apply_traffic_policy(name, direction) ==
    SetIn("traffic_policy", Position("traffic_policy", name), "applied", {direction})

-----------------------------------------------------------------------------
(* qos queue-profile <interface> *)
cmd_qos_queue_profile(name) == Enter("queue_profile", NewProfile(name))

Queues == Entry("queue_profile").queues

QueuePosition(id) == SelectInSeq(Queues, LAMBDA queue : queue.queue_id = id)

NewQueue(id) ==
    [queue_id |-> id, sched_type |-> Entry("queue_profile").default_sched,
     max_depth |-> 64, wred |-> FALSE]

(* The optional depth, a sequence of at most one number. *)
Depth(old, typed) == IF typed = <<>> THEN old ELSE Uint16(typed[1])

(* A queue that exists is set up anew. *)
cmd_queue_Faulty(n, depth) ==
    /\ HasEntry("queue_profile")
    /\ Uint8(n) <= LastQueue
    /\ LET i == QueuePosition(Uint8(n))
           queue == [NewQueue(Uint8(n)) EXCEPT !.max_depth = Depth(@, depth)]
       IN Set("queue_profile", "queues",
              IF i = Null THEN Append(Queues, queue) ELSE [Queues EXCEPT ![i] = queue])

(* The queue is looked up by the number as typed. *)
cmd_queue_Wide_Faulty(n, depth) ==
    /\ HasEntry("queue_profile")
    /\ Uint8(n) <= LastQueue
    /\ LET i == QueuePosition(n)
           queues == IF i = Null THEN Append(Queues, NewQueue(Uint8(n))) ELSE Queues
           j == IF i = Null THEN Len(queues) ELSE i
       IN /\ Len(queues) <= LastQueue + 1
          /\ Set("queue_profile", "queues", [queues EXCEPT ![j].max_depth = Depth(@, depth)])

(* queue <queue-id> [bandwidth <value>] [max-depth <value>]: the scheduler *)
(* is the profile's at the time the queue is created.                      *)
cmd_queue(n, depth) ==
    /\ HasEntry("queue_profile")
    /\ Uint8(n) <= LastQueue
    /\ LET i == QueuePosition(Uint8(n))
           queues == IF i = Null THEN Append(Queues, NewQueue(Uint8(n))) ELSE Queues
           j == IF i = Null THEN Len(queues) ELSE i
       IN /\ Len(queues) <= LastQueue + 1
          /\ Set("queue_profile", "queues", [queues EXCEPT ![j].max_depth = Depth(@, depth)])

(* qos schedule {pq|wfq|cbwfq}: for the queues created from now on *)
cmd_qos_schedule(sched) == Set("queue_profile", "default_sched", sched)

(* wred queue <queue-id> min-threshold ...: the id is not checked, only    *)
(* looked up.                                                              *)
cmd_wred(n) ==
    /\ HasEntry("queue_profile")
    /\ QueuePosition(Uint8(n)) # Null
    /\ Set("queue_profile", "queues", [Queues EXCEPT ![QueuePosition(Uint8(n))].wred = TRUE])

ClassifierNext ==
    \/ \E name \in QosNames : cmd_traffic_classifier(name)
    \/ \E n \in QosNumbers, text \in QosTexts :
          \E condition \in Conditions(n, text) : cmd_if_match(condition)

BehaviorNext ==
    \/ \E name \in QosNames : cmd_traffic_behavior(name)
    \/ \E n \in QosNumbers : \/ cmd_remark_dscp(n) \/ cmd_priority(n)
                             \/ \E cbs \in Bursts(n) : cmd_car(n, cbs)
    \/ cmd_deny

TrafficPolicyNext ==
    \/ \E name \in QosNames : cmd_traffic_policy(name)
    \/ \E classifier, behavior \in QosNames : cmd_classifier_behavior(classifier, behavior)
    \/ \E name \in QosNames, direction \in Directions :
          cmd_apply_traffic_policy(name, direction)

QueueNext ==
    \/ \E name \in QosNames : cmd_qos_queue_profile(name)
    \/ \E n \in QosNumbers, depth \in {<<>>} \cup {<<d>> : d \in QosNumbers} :
          cmd_queue(n, depth)
    \/ \E sched \in Schedulers : cmd_qos_schedule(sched)
    \/ \E n \in QosNumbers : cmd_wred(n)

-----------------------------------------------------------------------------
(* A queue that exists keeps its scheduler and its WRED for good: whether  *)
(* its number is typed again (257 is queue 1), its profile is entered      *)
(* again, or the profile is given another scheduler.                       *)
QueuesKept ==
    [][\A i \in DOMAIN tables["queue_profile"] :
           LET old == tables["queue_profile"][i].queues
               new == tables'["queue_profile"][i].queues
           IN \A j \in DOMAIN old : /\ new[j].queue_id = old[j].queue_id
                                    /\ new[j].sched_type = old[j].sched_type
                                    /\ old[j].wred => new[j].wred]_tables

(* No profile has two queues of one number, so the 8 there is room for are *)
(* enough for every number: "Maximum queues reached" is never seen.        *)
QueuesDistinct ==
    \A i \in DOMAIN tables["queue_profile"] :
        LET queues == tables["queue_profile"][i].queues
        IN \A j, k \in DOMAIN queues : queues[j].queue_id = queues[k].queue_id => j = k
==============================================================================
