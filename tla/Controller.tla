----------------------------- MODULE Controller -----------------------------
(***************************************************************************)
(* The report path of the controller: agents post reports over a network   *)
(* that loses, delays and reorders them, handle_report authenticates,      *)
(* validates and ingests them, the Kepler scraper ingests into its own     *)
(* slot, and watch_cluster_nodes removes the nodes that left the cluster.  *)
(*                                                                         *)
(* The aggregator sits behind a tokio RwLock: each ingest and each         *)
(* eviction is one step, and what a task read before it took the lock (the *)
(* list of live nodes, the body of a Kepler scrape) may be out of date by  *)
(* the time it holds it.                                                   *)
(***************************************************************************)
EXTENDS Aggregator, FiniteSets

CONSTANTS
    Home,          \* Uid -> Node: the node a pod is bound to for its life
    NamespaceOf,   \* Uid -> Namespace
    Trusted,       \* nodes whose agent holds the controller's API key
    MaxPower,      \* MAX_POWER_UW
    MaxPods,       \* MAX_PODS_PER_REPORT
    KeplerEnabled, \* KEPLER_ENABLED
    MaxInFlight    \* bound: reports of one agent under way at a time

ASSUME ControllerAssumption ==
    /\ Home \in [Uid -> Node] /\ NamespaceOf \in [Uid -> Namespace]
    /\ Trusted \subseteq Node /\ MaxPower \in Nat /\ MaxPods \in Nat
    /\ KeplerEnabled \in BOOLEAN /\ MaxInFlight \in Nat

VARIABLES
    live,      \* the nodes the Kubernetes API lists
    up,        \* the nodes whose agent runs
    running,   \* the pods that run
    inFlight,  \* reports sent and neither handled nor lost
    listed,    \* {list of the node watcher} between the API call and the lock
    scraped    \* {report of the Kepler scraper} between the GET and the lock

envVars == <<live, up, running>>
allVars == <<nodes, pods, history, live, up, running, inFlight, listed, scraped>>

-----------------------------------------------------------------------------
(* The cluster                                                             *)

NodeLeaves(n) ==
    /\ n \in live
    /\ live' = live \ {n}
    /\ running' = {u \in running : Home[u] # n}
    /\ UNCHANGED <<vars, up, inFlight, listed, scraped>>

\* The node comes back, or a new one takes its name, with no pods on it yet.
NodeJoins(n) ==
    /\ n \notin live
    /\ live' = live \cup {n}
    /\ UNCHANGED <<vars, up, running, inFlight, listed, scraped>>

AgentStops(n) ==
    /\ n \in up
    /\ up' = up \ {n}
    /\ UNCHANGED <<vars, live, running, inFlight, listed, scraped>>

\* The DaemonSet restarts the agent of a node that is in the cluster.
AgentStarts(n) ==
    /\ n \in live \ up
    /\ up' = up \cup {n}
    /\ UNCHANGED <<vars, live, running, inFlight, listed, scraped>>

\* A pod that ended never comes back under the same UID.
PodEnds(u) ==
    /\ u \in running
    /\ running' = running \ {u}
    /\ UNCHANGED <<vars, live, up, inFlight, listed, scraped>>

-----------------------------------------------------------------------------
(* Agents and the network                                                  *)

PodsOn(n) == {u \in running : Home[u] = n}

\* What a sender says of node n: its running pods, each with some power.
ReportsOf(n, method) ==
    {r \in [node_name : {n}, metering_method : {method}, timestamp : {0},
            used_uw : Power, platform_uw : Platform, pods : [PodsOn(n) -> PodReport]] :
        \A u \in PodsOn(n) : /\ r.pods[u].namespace = NamespaceOf[u]
                             /\ r.pods[u].metering_method = method}

\* An agent gives up on a POST after 5 s and sends the next report while the
\* previous one may still be under way.
AgentSends(n, r) ==
    /\ n \in up
    /\ Cardinality({s \in inFlight : s.node_name = n}) < MaxInFlight
    /\ inFlight' = inFlight \cup {r}
    /\ UNCHANGED <<vars, envVars, listed, scraped>>

ReportLost(r) ==
    /\ inFlight' = inFlight \ {r}
    /\ UNCHANGED <<vars, envVars, listed, scraped>>

check_auth(r) == r.node_name \in Trusted

\* Mutant: a reading at the limit is refused.
validate_report_strict(r) ==
    /\ r.used_uw < MaxPower /\ Cardinality(DOMAIN r.pods) <= MaxPods
    /\ \A u \in DOMAIN r.pods : r.pods[u].total_uw < MaxPower

validate_report(r) ==
    /\ r.used_uw <= MaxPower /\ Cardinality(DOMAIN r.pods) <= MaxPods
    /\ \A u \in DOMAIN r.pods : r.pods[u].total_uw <= MaxPower

\* handle_report: 401 and 400 leave the aggregator alone.
ReportRejected(r) ==
    /\ ~ (check_auth(r) /\ validate_report(r))
    /\ inFlight' = inFlight \ {r}
    /\ UNCHANGED <<vars, envVars, listed, scraped>>

ReportAccepted(r) ==
    /\ check_auth(r) /\ validate_report(r)
    /\ inFlight' = inFlight \ {r}
    /\ Ingest(r)
    /\ UNCHANGED <<envVars, listed, scraped>>

-----------------------------------------------------------------------------
(* The Kepler scraper.  A node is ingested only if a running pod of it is  *)
(* in the scrape; a report is stamped when it is built from the body.      *)

KeplerScrapes(n) ==
    /\ KeplerEnabled /\ scraped = {}
    /\ n \in live /\ PodsOn(n) # {}
    /\ \E r \in ReportsOf(n, "kepler") : scraped' = {r}
    /\ UNCHANGED <<vars, envVars, inFlight, listed>>

KeplerIngests ==
    /\ \E r \in scraped : Ingest(r)
    /\ scraped' = {}
    /\ UNCHANGED <<envVars, inFlight, listed>>

-----------------------------------------------------------------------------
(* watch_cluster_nodes: a failed list leaves everything as it was.         *)

WatcherLists ==
    /\ listed = {}
    /\ listed' = {live}
    /\ UNCHANGED <<vars, envVars, inFlight, scraped>>

\* Mutant: the list is read and the aggregator left as it is.
WatcherKeepsNodes ==
    /\ listed # {}
    /\ listed' = {}
    /\ UNCHANGED <<vars, envVars, inFlight, scraped>>

WatcherEvicts ==
    /\ \E names \in listed : EvictRemovedNodes(names)
    /\ listed' = {}
    /\ UNCHANGED <<envVars, inFlight, scraped>>

-----------------------------------------------------------------------------
(* Time.  MaxDelay bounds how long a report stays under way, or a scrape   *)
(* waits for the lock.                                                     *)

Delayed(r) == [r EXCEPT !.timestamp = @ + 1]

TimePasses ==
    /\ \A r \in inFlight \cup scraped : r.timestamp < MaxDelay
    /\ Tick
    /\ inFlight' = {Delayed(r) : r \in inFlight}
    /\ scraped' = {Delayed(r) : r \in scraped}
    /\ UNCHANGED <<envVars, listed>>

-----------------------------------------------------------------------------
ControllerInit ==
    /\ Init
    /\ live = Node /\ up = Node /\ running = Uid
    /\ inFlight = {} /\ listed = {} /\ scraped = {}

ControllerNext ==
    \/ \E n \in Node : NodeLeaves(n) \/ NodeJoins(n) \/ AgentStops(n) \/ AgentStarts(n)
    \/ \E n \in Node : \E r \in ReportsOf(n, "") : AgentSends(n, r)
    \/ \E n \in Node : KeplerScrapes(n)
    \/ \E u \in Uid : PodEnds(u)
    \/ \E r \in inFlight : ReportLost(r) \/ ReportRejected(r) \/ ReportAccepted(r)
    \/ KeplerIngests \/ WatcherLists \/ WatcherEvicts \/ TimePasses

ControllerSpec == ControllerInit /\ [][ControllerNext]_allVars

\* The watcher's loop and the scraper's lock wait go on, a POST ends, and time
\* passes: each is a loop of the program or a timeout in it.
SystemFairness ==
    /\ WF_allVars(WatcherLists) /\ WF_allVars(WatcherEvicts)
    /\ WF_allVars(KeplerIngests)
    /\ WF_allVars(\E r \in inFlight :
                      /\ r.timestamp = MaxDelay
                      /\ ReportLost(r) \/ ReportRejected(r) \/ ReportAccepted(r))
    /\ SF_allVars(TimePasses)

\* The DaemonSet restarts agents, an agent's loop posts a report every
\* interval, readings above MAX_POWER_UW do not persist, and the network does
\* not lose every report.
AgentFairness(n) ==
    /\ SF_allVars(AgentStarts(n))
    /\ SF_allVars(\E r \in ReportsOf(n, "") : validate_report(r) /\ AgentSends(n, r))
    /\ SF_allVars(\E r \in inFlight : r.node_name = n /\ ReportAccepted(r))

-----------------------------------------------------------------------------
(* Correctness                                                             *)

Knows(n) == (\E k \in DOMAIN nodes : k[1] = n) \/ (\E k \in DOMAIN pods : pods[k].node_name = n)

\* A node that left the cluster for good, and whose agent is gone, is forgotten
\* for good: a report that was under way when the watcher ran, or a list taken
\* before the node left, brings its data back only until the next pass.
RemovedNodeForgotten ==
    \A n \in Node : <>[](n \notin live \cup up) => <>[]~Knows(n)

\* A node that stays in the cluster is visible again and again, although a list
\* taken while it was away may evict it after it came back and reported.
LiveNodeVisible ==
    \A n \in Node : <>[](n \in live) => []<>(<<n, "keck">> \in DOMAIN nodes)

\* While agents are restarted and keep reporting, a pod that ended leaves both
\* slots for good, although the Kepler scraper does not ingest a node that has
\* no running pod left and so never evicts the last pod of a node itself.
EndedPodForgotten ==
    \A u \in Uid : <>[](u \notin running) => <>[](\A s \in Slot : <<u, s>> \notin DOMAIN pods)
=============================================================================
