-------------------------------- MODULE Fleet -------------------------------
(***************************************************************************)
(* The fleet manager: the registry of clusters (keck-fleet registry) and   *)
(* the policy engine, whose violations are logged.  Instants are ages in   *)
(* ticks, capped at MaxAge; watts and carbon intensities are natural       *)
(* numbers in units that make the products of the code whole.  The history *)
(* of a cluster, the daily report and the routing advice only present what *)
(* ingest stored, and are left out.                                        *)
(***************************************************************************)
EXTENDS Integers, Maps

CONSTANTS
    Cluster,
    ClusterReports,  \* [namespaces : ns -> watts, intensity, error]
    Owners,          \* the <<namespace, team>> pairs the API may set
    Policies,        \* enabled policies, [kind, ...]
    staleness_threshold,
    MaxAge           \* bound on ages

ASSUME FleetAssumption ==
    /\ staleness_threshold \in Nat /\ MaxAge \in Nat
    /\ staleness_threshold <= MaxAge
    /\ \A p \in Policies : p.kind = "ClusterStaleness" => p.max < MaxAge

VARIABLES
    clusters,           \* Cluster -> [latest_report, received_at]
    namespace_owners,   \* namespace -> team
    alerts              \* violations logged by the last evaluation, [kind, subject]

fleetVars == <<clusters, namespace_owners, alerts>>

FleetInit == clusters = EmptyMap /\ namespace_owners = EmptyMap /\ alerts = {}

-----------------------------------------------------------------------------
(* Registry                                                                *)

ingest(c, report) ==
    /\ clusters' = Put(clusters, c, [latest_report |-> report, received_at |-> 0])
    /\ UNCHANGED <<namespace_owners, alerts>>

set_namespace_owner(ns, team) ==
    /\ namespace_owners' = Put(namespace_owners, ns, team)
    /\ UNCHANGED <<clusters, alerts>>

FleetTick ==
    /\ clusters' = [c \in DOMAIN clusters |->
            [clusters[c] EXCEPT !.received_at = IF @ < MaxAge THEN @ + 1 ELSE @]]
    /\ UNCHANGED <<namespace_owners, alerts>>


active_clusters == {c \in DOMAIN clusters : clusters[c].received_at < staleness_threshold}

\* Mutant: the summary leaves out clusters that went silent.
fleet_summary_active == [c \in active_clusters |-> clusters[c].received_at]

\* last_seen_secs_ago of every registered cluster, stale ones included.
fleet_summary == [c \in DOMAIN clusters |-> clusters[c].received_at]

NamespaceReadings ==
    UNION {{<<c, ns>> : ns \in DOMAIN clusters[c].latest_report.namespaces} : c \in DOMAIN clusters}

watts(k) == clusters[k[1]].latest_report.namespaces[k[2]]

team_of(ns) == Get(namespace_owners, ns, "unassigned")

\* The watts of each team, over all registered clusters.
team_power ==
    [t \in {team_of(k[2]) : k \in NamespaceReadings} |->
        SumFunction([k \in {j \in NamespaceReadings : team_of(j[2]) = t} |-> watts(k)])]

-----------------------------------------------------------------------------
(* Policies                                                                *)

intensity(c) == clusters[c].latest_report.intensity

\* Carbon per month is proportional to watts x intensity; budgets are in that unit.
Violates(p) ==
    CASE p.kind = "TeamPowerBudget" ->
            {t \in {p.team} \cap DOMAIN team_power : team_power[t] > p.max}
      [] p.kind = "NamespaceCarbonBudget" ->
            {c \in active_clusters : p.namespace \in DOMAIN clusters[c].latest_report.namespaces
                /\ watts(<<c, p.namespace>>) * intensity(c) > p.max}
      [] p.kind = "MeteringQuality" ->
            {c \in active_clusters : clusters[c].latest_report.error > p.max}
      [] p.kind = "CarbonIntensityPreference" -> {c \in active_clusters : intensity(c) > p.max}
      [] p.kind = "ClusterStaleness" -> {c \in DOMAIN fleet_summary : fleet_summary[c] > p.max}

\* One round of run_policy_engine.
Evaluate ==
    /\ alerts' = UNION {{[kind |-> p.kind, subject |-> s] : s \in Violates(p)} : p \in Policies}
    /\ UNCHANGED <<clusters, namespace_owners>>

FleetNext ==
    \/ \E c \in Cluster, r \in ClusterReports : ingest(c, r)
    \/ \E o \in Owners : set_namespace_owner(o[1], o[2])
    \/ FleetTick \/ Evaluate

-----------------------------------------------------------------------------
(* Properties                                                              *)

Overdue(c, max) == c \in DOMAIN clusters /\ clusters[c].received_at > max

(* "Alert if a cluster hasn't reported within a threshold": a cluster that *)
(* registered and fell silent is alerted, or reports again.                *)
SilentClusterAlerts ==
    \A c \in Cluster, p \in {q \in Policies : q.kind = "ClusterStaleness"} :
        Overdue(c, p.max) ~> [kind |-> p.kind, subject |-> c] \in alerts \/ ~Overdue(c, p.max)

=============================================================================
