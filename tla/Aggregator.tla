----------------------------- MODULE Aggregator -----------------------------
(***************************************************************************)
(* The controller's ClusterAggregator: the current power of every node and *)
(* pod, and a rolling history per namespace                                *)
(* (keck-controller/src/aggregator/mod.rs).                                *)
(*                                                                         *)
(* The code keeps instants and only ever looks at how long ago they were   *)
(* (received_at > now - 60s, ts >= now - 1h, received_at.elapsed()), so    *)
(* the model keeps ages.  Tick lets time pass; an age stops growing at     *)
(* AgeCap, which is beyond every threshold the code compares it with.      *)
(***************************************************************************)
EXTENDS Integers, Maps

CONSTANTS
    Node,        \* node names
    Uid,         \* pod UIDs
    Namespace,   \* namespaces
    Power,       \* power readings, in microwatts
    Platform,    \* platform (PSU) readings; NoReading for a node that has none
    NoReading,
    Staleness,   \* staleness_threshold (60 s in the code)
    Retention,   \* history_retention (1 h in the code)
    MaxDelay,    \* bound: how old a reading can be when it is ingested
    AgeCap       \* bound: ages saturate here

ASSUME AgesAssumption ==
    /\ Staleness \in Nat \ {0} /\ Retention \in Nat
    /\ MaxDelay \in Nat /\ AgeCap \in Nat
    /\ Staleness <= AgeCap /\ Retention < AgeCap /\ MaxDelay <= AgeCap

ASSUME PowerAssumption ==
    Power \subseteq Nat /\ NoReading \notin Nat /\ Platform \subseteq Nat \cup {NoReading}

VARIABLES
    nodes,    \* (node name, slot)  -> NodeState
    pods,     \* (pod uid, slot)    -> PodState
    history   \* namespace          -> samples (age of the timestamp, power)

vars == <<nodes, pods, history>>

-----------------------------------------------------------------------------
(* The wire format.  A node and each of its pods have a metering_method of *)
(* their own.  The agent sends none (it deserialises to the empty string)  *)
(* and the Kepler scraper writes "kepler" on both, but ingest relies on    *)
(* neither.  Both senders put their own node_name on every pod.            *)

Slot == {"keck", "kepler"}
WireMethod == {"", "kepler"}
Age == 0 .. AgeCap

NodeKey == Node \X Slot
PodKey == Uid \X Slot

PodReport == [namespace : Namespace, metering_method : WireMethod, total_uw : Power]

AgentReport ==
    [node_name : Node, metering_method : WireMethod, timestamp : 0 .. MaxDelay,
     used_uw : Power, platform_uw : Platform,
     pods : Map(Uid, PodReport)]

NodeState ==
    [metering_method : WireMethod, used_uw : Power,
     platform_uw : Platform, timestamp : Age, received_at : Age]

PodState ==
    [node_name : Node, namespace : Namespace, metering_method : Slot,
     total_uw : Power, timestamp : Age, received_at : Age]

Sample == Age \X Power

TypeOK ==
    /\ IsMap(nodes, NodeKey, NodeState)
    /\ IsMap(pods, PodKey, PodState)
    /\ IsMap(history, Namespace, SUBSET Sample)

-----------------------------------------------------------------------------
(* ingest                                                                  *)

\* The slot a report goes into: "keck" unless the node names a method.
MethodOf(r) == IF r.metering_method = "" THEN "keck" ELSE r.metering_method

InsertNode(m, r) ==
    Extend(m, [k \in {<<r.node_name, MethodOf(r)>>} |->
        [metering_method |-> r.metering_method, used_uw |-> r.used_uw,
         platform_uw |-> r.platform_uw, timestamp |-> r.timestamp,
         received_at |-> 0]])

\* Mutant: the method is left out of the condition.
EvictUnreportedAnyMethod(m, r) ==
    Restrict(m, {k \in DOMAIN m : ~ /\ m[k].node_name = r.node_name
                                    /\ k[1] \notin DOMAIN r.pods})

\* Mutant: pods that are no longer reported wait for evict_stale.
EvictUnreportedNever(m, r) == m

\* Pods of the same method on the same node that are no longer reported go.
EvictUnreported(m, r) ==
    Restrict(m, {k \in DOMAIN m : ~ /\ k[2] = MethodOf(r)
                                    /\ m[k].node_name = r.node_name
                                    /\ k[1] \notin DOMAIN r.pods})

\* A pod without a metering_method takes the report's slot.
StoredMethod(r, u) ==
    IF r.pods[u].metering_method = "" THEN MethodOf(r) ELSE r.pods[u].metering_method

InsertPods(m, r) ==
    Extend(m, [k \in (DOMAIN r.pods) \X {MethodOf(r)} |->
        [node_name |-> r.node_name, namespace |-> r.pods[k[1]].namespace,
         metering_method |-> StoredMethod(r, k[1]), total_uw |-> r.pods[k[1]].total_uw,
         timestamp |-> r.timestamp, received_at |-> 0]])

SamplesOf(r, ns) ==
    {<<r.timestamp, r.pods[u].total_uw>> : u \in {v \in DOMAIN r.pods : r.pods[v].namespace = ns}}

\* Equal samples of a namespace are one element; their order is left out.
PushHistory(h, r) ==
    [ns \in DOMAIN h \cup {r.pods[u].namespace : u \in DOMAIN r.pods} |->
        (IF ns \in DOMAIN h THEN h[ns] ELSE {}) \cup SamplesOf(r, ns)]

\* Mutant: nothing is ever stale.
EvictStaleNever(m) == m

EvictStale(m) == Restrict(m, {k \in DOMAIN m : m[k].received_at < Staleness})

\* Mutant: a sample exactly as old as the retention window is dropped.
TrimHistoryStrict(h) ==
    LET kept == [ns \in DOMAIN h |-> {s \in h[ns] : s[1] < Retention}]
    IN  Restrict(kept, {ns \in DOMAIN h : kept[ns] # {}})

TrimHistory(h) ==
    LET kept == [ns \in DOMAIN h |-> {s \in h[ns] : s[1] <= Retention}]
    IN  Restrict(kept, {ns \in DOMAIN h : kept[ns] # {}})

Ingest(r) ==
    /\ nodes' = EvictStale(InsertNode(nodes, r))
    /\ pods' = EvictStale(InsertPods(EvictUnreported(pods, r), r))
    /\ history' = TrimHistory(PushHistory(history, r))

-----------------------------------------------------------------------------
(* evict_removed_nodes, and the passage of time                            *)

EvictRemovedNodes(live) ==
    /\ nodes' = Restrict(nodes, {k \in DOMAIN nodes : k[1] \in live})
    /\ pods' = Restrict(pods, {k \in DOMAIN pods : pods[k].node_name \in live})
    /\ UNCHANGED history

Older(a) == IF a < AgeCap THEN a + 1 ELSE a

Aged(m) ==
    [k \in DOMAIN m |-> [m[k] EXCEPT !.timestamp = Older(@), !.received_at = Older(@)]]

Tick ==
    /\ nodes' = Aged(nodes)
    /\ pods' = Aged(pods)
    /\ history' = [ns \in DOMAIN history |-> {<<Older(s[1]), s[2]>> : s \in history[ns]}]

-----------------------------------------------------------------------------
Init == nodes = EmptyMap /\ pods = EmptyMap /\ history = EmptyMap

Next ==
    \/ \E r \in AgentReport : Ingest(r)
    \/ \E live \in SUBSET Node : EvictRemovedNodes(live)
    \/ Tick

Spec == Init /\ [][Next]_vars

-----------------------------------------------------------------------------
(* Correctness                                                             *)

NodeOf(k) == <<pods[k].node_name, k[2]>>

\* What the API shows of a node and of the node's pods always comes from one
\* report: ingest, evict_stale and evict_removed_nodes each take a pod out
\* together with the node entry of its method, so no pod outlives, or is older
\* or younger than, the node entry it is summed with.
OneReportPerNode ==
    \A k \in DOMAIN pods :
        /\ NodeOf(k) \in DOMAIN nodes
        /\ nodes[NodeOf(k)].received_at = pods[k].received_at
        /\ nodes[NodeOf(k)].timestamp = pods[k].timestamp

\* The history of a namespace holds the current reading of each of its pods for
\* as long as the reading is within the retention window.
HistoryCoversPods ==
    \A k \in DOMAIN pods :
        pods[k].timestamp <= Retention =>
            /\ pods[k].namespace \in DOMAIN history
            /\ <<pods[k].timestamp, pods[k].total_uw>> \in history[pods[k].namespace]

\* A pod disappears only when it is stale, when its node is gone, or when a
\* report of its own node and its own method has just been ingested: a Keck
\* report never evicts Kepler pods, nor a node's report another node's pods.
PodLossHasCause ==
    [][\A k \in DOMAIN pods :
           \/ k \in DOMAIN pods'
           \/ pods[k].received_at >= Staleness
           \/ NodeOf(k) \notin DOMAIN nodes'
           \/ nodes'[NodeOf(k)].received_at = 0]_vars

\* "Current state: latest power for every known pod/namespace/node": the reading
\* kept for a node is never replaced by one taken earlier (a node entry that
\* was received just now has a timestamp at least as recent as the one before).
LatestReading ==
    [][\A k \in DOMAIN nodes \cap DOMAIN nodes' :
           nodes'[k].received_at = 0 => nodes'[k].timestamp <= nodes[k].timestamp]_vars
=============================================================================
