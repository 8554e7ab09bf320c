------------------------------- MODULE Agent --------------------------------
(***************************************************************************)
(* Life of an agent process (keck-agent/src/main.rs): connecting to the    *)
(* Kubernetes API, the pod cache and the owner cache it fills from there,  *)
(* reporting to the controller, and the health flag the kubelet probes.    *)
(* The API server and the controller come and go; pods and ReplicaSets are *)
(* created and deleted while a refresh waits for answers; the kubelet      *)
(* restarts the process.                                                   *)
(***************************************************************************)
EXTENDS Integers, FiniteSets, Maps

CONSTANTS
    PodUid,
    Replica,       \* uids of ReplicaSets and Jobs
    OwnerOf,       \* pod -> its controller owner: a Replica, another owner, or None
    TopOf,         \* Replica -> its Deployment or CronJob, or None
    None,
    MaxAttempts,   \* 10
    RefreshTicks,  \* pod_refresh_interval in intervals, rounded up
    MaxChanges,    \* bound: pods created and ReplicaSets deleted
    MaxKills       \* bound: restarts of a process that has not exited

ASSUME AgentAssumption ==
    /\ DOMAIN OwnerOf = PodUid /\ DOMAIN TopOf = Replica /\ None \notin PodUid \cup Replica
    /\ MaxAttempts \in Nat \ {0} /\ RefreshTicks \in Nat

VARIABLES
    api, controller,   \* reachable or not
    placed, replicas,  \* what exists on the node, and in the cluster
    changes, kills,    \* counters of the bounds
    pc, inLoop,        \* where main is; inLoop from the first interval on
    attempts,          \* failed attempts to create the client
    pod_cache,         \* pod -> workload
    owner_cache,       \* Replica -> workload
    todo,              \* pods of the listing not yet resolved
    elapsed,           \* intervals since last_pod_refresh
    healthy,           \* what /healthz answers
    listed,            \* pods of the last listing that succeeded
    failed,            \* Replicas whose lookup failed in this process
    accepted,          \* a report of this process was acknowledged
    ingested           \* the controller has this interval's report

env == <<api, controller, placed, replicas, changes>>
k8s == <<inLoop, attempts, pod_cache, owner_cache, todo, elapsed, listed, failed>>
reporting == <<healthy, accepted, ingested>>
agentVars == <<env, kills, pc, k8s, reporting>>

\* Everything a new process starts with.
Fresh ==
    /\ pc' = "connect" /\ inLoop' = FALSE /\ attempts' = 0
    /\ pod_cache' = EmptyMap /\ owner_cache' = EmptyMap /\ todo' = {} /\ elapsed' = 0
    /\ healthy' = FALSE
    /\ listed' = {} /\ failed' = {} /\ accepted' = FALSE /\ ingested' = FALSE

AgentInit ==
    /\ api \in BOOLEAN /\ controller \in BOOLEAN /\ changes = 0 /\ kills = 0
    /\ placed \in SUBSET PodUid /\ replicas = Replica
    /\ pc = "connect" /\ inLoop = FALSE /\ attempts = 0
    /\ pod_cache = EmptyMap /\ owner_cache = EmptyMap /\ todo = {} /\ elapsed = 0
    /\ healthy = FALSE
    /\ listed = {} /\ failed = {} /\ accepted = FALSE /\ ingested = FALSE

-----------------------------------------------------------------------------
(* Surroundings                                                            *)

Outage ==
    /\ \/ api' = ~api /\ UNCHANGED controller
       \/ controller' = ~controller /\ UNCHANGED api
    /\ UNCHANGED <<placed, replicas, changes, kills, pc, k8s, reporting>>

PodsChange ==
    /\ changes < MaxChanges /\ changes' = changes + 1
    /\ \/ \E u \in PodUid : placed' = (placed \cup {u}) \ (placed \cap {u})
          /\ UNCHANGED replicas
       \/ \E r \in replicas : replicas' = replicas \ {r} /\ UNCHANGED placed
    /\ UNCHANGED <<api, controller, kills, pc, k8s, reporting>>

\* The kubelet restarts an agent that exited, that fails its liveness probe, or
\* that was evicted.
Restart ==
    /\ IF pc = "exited" THEN UNCHANGED kills ELSE kills < MaxKills /\ kills' = kills + 1
    /\ Fresh
    /\ UNCHANGED env

-----------------------------------------------------------------------------
(* Connecting, with a limit on the attempts                                *)

Connect ==
    /\ pc = "connect" /\ api
    /\ pc' = "list"
    /\ UNCHANGED <<env, kills, k8s, reporting>>

ConnectFails ==
    /\ pc = "connect" /\ ~api /\ attempts' = attempts + 1
    /\ pc' = IF attempts' >= MaxAttempts THEN "exited" ELSE "connect"
    /\ UNCHANGED <<env, kills, inLoop, pod_cache, owner_cache, todo, elapsed, listed, failed, reporting>>

-----------------------------------------------------------------------------
(* refresh_pod_cache                                                       *)

\* Before the loop the agent sleeps next; within it, it goes on to report, and
\* last_pod_refresh is set whether or not the listing succeeded.
Refreshed ==
    /\ pc' = IF inLoop THEN "report" ELSE "sleep"
    /\ elapsed' = IF inLoop THEN 0 ELSE elapsed

\* Mutant: the cache is cleared before the listing is known to be good.
ListFailsClearing ==
    /\ pc = "list" /\ ~api /\ Refreshed
    /\ pod_cache' = EmptyMap
    /\ UNCHANGED <<env, kills, inLoop, attempts, owner_cache, todo, listed, failed, reporting>>

\* The cache stays as it is.
ListFails ==
    /\ pc = "list" /\ ~api /\ Refreshed
    /\ UNCHANGED <<env, kills, inLoop, attempts, pod_cache, owner_cache, todo, listed, failed,
                   reporting>>

List ==
    /\ pc = "list" /\ api /\ pc' = "resolve"
    /\ pod_cache' = EmptyMap /\ todo' = placed /\ listed' = placed
    /\ UNCHANGED <<env, kills, inLoop, attempts, owner_cache, elapsed, failed, reporting>>

\* The owner of a ReplicaSet or Job, when the API answers and it has one.
resolve_intermediate_owner(r) == IF api /\ r \in replicas /\ TopOf[r] # None THEN {TopOf[r]} ELSE {}

\* Mutant: a lookup that fails is not cached.
CacheOwnerFound(r) ==
    Extend(owner_cache, [s \in IF resolve_intermediate_owner(r) = {} THEN {} ELSE {r} |-> TopOf[r]])

\* Mutant: the ReplicaSet is cached instead of what owns it.
CacheOwnerRaw(r) == Put(owner_cache, r, r)

\* The first lookup is cached for good; one that fails is cached as r itself.
CacheOwner(r) ==
    Put(owner_cache, r, IF resolve_intermediate_owner(r) = {} THEN r ELSE TopOf[r])

NeedsLookup(o) == o \in Replica \ DOMAIN owner_cache

\* One pod of the listing: a pod without owner is its own workload, and only
\* ReplicaSets and Jobs are looked up.
resolve_owner(u) ==
    LET o == OwnerOf[u] IN
    /\ pc = "resolve" /\ u \in todo /\ todo' = todo \ {u}
    /\ owner_cache' = IF NeedsLookup(o) THEN CacheOwner(o) ELSE owner_cache
    /\ failed' = IF NeedsLookup(o) /\ resolve_intermediate_owner(o) = {}
                 THEN failed \cup {o} ELSE failed
    /\ pod_cache' = Put(pod_cache, u, IF o = None THEN u ELSE Get(owner_cache', o, o))
    /\ UNCHANGED <<env, kills, pc, inLoop, attempts, elapsed, listed, reporting>>

RefreshDone ==
    /\ pc = "resolve" /\ todo = {} /\ Refreshed
    /\ UNCHANGED <<env, kills, inLoop, attempts, pod_cache, owner_cache, todo, listed, failed,
                   reporting>>

-----------------------------------------------------------------------------
(* The loop                                                                *)

\* Mutant: the pods are only listed at start.
SleepOnly ==
    /\ pc = "sleep" /\ pc' = "report" /\ inLoop' = TRUE /\ ingested' = FALSE
    /\ UNCHANGED <<env, kills, attempts, pod_cache, owner_cache, todo, elapsed, listed, failed,
                   healthy, accepted>>

\* Mutant: an agent that is not healthy does not report.
SleepUntilHealthy ==
    /\ pc = "sleep" /\ inLoop' = TRUE /\ ingested' = FALSE
    /\ elapsed' = IF elapsed < RefreshTicks THEN elapsed + 1 ELSE elapsed
    /\ pc' = IF ~healthy THEN "sleep" ELSE IF elapsed' >= RefreshTicks THEN "list" ELSE "report"
    /\ UNCHANGED <<env, kills, attempts, pod_cache, owner_cache, todo, listed, failed,
                   healthy, accepted>>

\* The interval passes; refresh when it is due.
Sleep ==
    /\ pc = "sleep" /\ inLoop' = TRUE /\ ingested' = FALSE
    /\ elapsed' = IF elapsed < RefreshTicks THEN elapsed + 1 ELSE elapsed
    /\ pc' = IF elapsed' >= RefreshTicks THEN "list" ELSE "report"
    /\ UNCHANGED <<env, kills, attempts, pod_cache, owner_cache, todo, listed, failed,
                   healthy, accepted>>

\* The POST succeeds; or its answer is lost to the timeout; or it fails.  A
\* report that fails is not sent again.
ReportAccepted ==
    /\ pc = "report" /\ controller /\ pc' = "sleep"
    /\ healthy' = TRUE /\ accepted' = TRUE /\ ingested' = TRUE
    /\ UNCHANGED <<env, kills, k8s>>

ReportUnanswered ==
    /\ pc = "report" /\ controller /\ pc' = "sleep"
    /\ ingested' = TRUE
    /\ UNCHANGED <<env, kills, k8s, healthy, accepted>>

ReportFails ==
    /\ pc = "report" /\ ~controller /\ pc' = "sleep"
    /\ UNCHANGED <<env, kills, k8s, reporting>>

Main ==
    \/ Connect \/ ConnectFails \/ ListFails \/ List \/ (\E u \in PodUid : resolve_owner(u))
    \/ RefreshDone \/ Sleep \/ ReportAccepted \/ ReportUnanswered \/ ReportFails

AgentNext == Main \/ Outage \/ PodsChange \/ Restart

AgentSpec == AgentInit /\ [][AgentNext]_agentVars

-----------------------------------------------------------------------------
(* Properties                                                              *)

\* Outside a refresh the pod cache has exactly the pods of the last listing that
\* succeeded: a failed listing never empties or mixes it (refresh_pod_cache).
CacheIsAListing == pc # "resolve" => DOMAIN pod_cache = listed

\* Two pods of one ReplicaSet are always cached under the same workload, even
\* when the API goes away or the ReplicaSet is deleted between the two lookups,
\* because the answer for the first is kept for the second (resolve_owner).
SameOwnerSameWorkload ==
    \A u, v \in DOMAIN pod_cache :
        OwnerOf[u] \in Replica /\ OwnerOf[u] = OwnerOf[v] => pod_cache[u] = pod_cache[v]

\* As long as the process lives, the workload of a ReplicaSet's pods does not
\* change: the first answer stands, right or wrong.
OwnerNeverFlips ==
    [][pc' # "connect" => \A r \in DOMAIN owner_cache :
                             r \in DOMAIN owner_cache' /\ owner_cache'[r] = owner_cache[r]]_agentVars

\* A pod is cached under a wrong workload only if the one lookup of its
\* ReplicaSet failed in this process.
WrongOnlyAfterFailure ==
    \A u \in DOMAIN pod_cache :
        OwnerOf[u] \in Replica /\ TopOf[OwnerOf[u]] # None /\ OwnerOf[u] \notin failed
        => pod_cache[u] = TopOf[OwnerOf[u]]

\* Once the API server stays up, the pod cache ends up with the node's pods and
\* stays so, whatever was missed before.
PodCacheConverges ==
    <>[]api => <>[](pc = "resolve" \/ DOMAIN pod_cache = placed)

\* Once the API server and the controller stay up, reports reach the controller
\* again and again, however many were lost and however often the agent exited.
ReportsResume == <>[](api /\ controller) => []<>ingested
=============================================================================
