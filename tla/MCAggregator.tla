---------------------------- MODULE MCAggregator ----------------------------
(* Instances of the aggregator for TLC.  Init chooses what is explored: the  *)
(* windows of time, with one namespace; the views, with two namespaces that  *)
(* change category, while no time passes; the classification watcher; or the *)
(* fleet manager, which has the same kind of registry one level up.          *)
EXTENDS AggregatorViews, Classification, Fleet, TLC

CONSTANTS n2, u1, u2, ns1, p1, p2, p3, c1, c2

VARIABLE part

\* u1 has a workload, u2 has none and carries the part-of label.
Workloads == [u \in Uid |-> IF u = u1 THEN "w" ELSE NoKey]
Labels == [u \in Uid |-> IF u = u2 THEN "app" ELSE NoKey]
Operators == [ns \in Namespace |-> "etcd"]

\* The name of p1 contains that of c1 only, the name of p2 those of both.
SomeNamesFit == {<<p1, c1>>, <<p2, c1>>, <<p2, c2>>}

\* Reports that break one policy each, or none, and the policies.
SomeClusterReports ==
    {[namespaces |-> ("web" :> 2 @@ "db" :> 3), intensity |-> 2, error |-> 0],
     [namespaces |-> ("web" :> 3), intensity |-> 1, error |-> 3],
     [namespaces |-> EmptyMap, intensity |-> 3, error |-> 1]}
SomeOwners == {<<"web", "x">>, <<"db", "x">>}
AllPolicies ==
    {[kind |-> "TeamPowerBudget", team |-> "x", max |-> 4],
     [kind |-> "NamespaceCarbonBudget", namespace |-> "web", max |-> 3],
     [kind |-> "MeteringQuality", max |-> 2],
     [kind |-> "CarbonIntensityPreference", max |-> 2],
     [kind |-> "ClusterStaleness", max |-> 2]}

mcVars == <<viewVars, clsVars, fleetVars, part>>

MCInit ==
    /\ part \in {"window", "views", "classes", "fleet"}
    /\ ViewInit /\ ClsInit /\ FleetInit
    /\ part = "classes" \/ (subs = {} /\ \A co \in ClusterOperator : related[co] = {})

\* Kepler runs on one node.
SomeReports == {r \in AgentReport : r.node_name = n2 => r.metering_method = ""}

\* First exploration: only ns1 has pods, each with the method of its report.
WindowReports ==
    {r \in SomeReports : \A u \in DOMAIN r.pods :
        r.pods[u].namespace = ns1 /\ r.pods[u].metering_method = r.metering_method}

\* Second exploration: fresh reports only.
FreshReports == {r \in SomeReports : r.timestamp = 0}

MCNext ==
    /\ UNCHANGED part
    /\ \/ /\ part = "window" /\ UNCHANGED <<category, clsVars, fleetVars>>
          /\ \/ \E r \in WindowReports : Ingest(r)
             \/ \E live \in SUBSET Node : EvictRemovedNodes(live)
             \/ Tick
       \/ /\ part = "views" /\ UNCHANGED <<clsVars, fleetVars>>
          /\ \/ (\E r \in FreshReports : Ingest(r)) /\ UNCHANGED category
             \/ (\E live \in SUBSET Node : EvictRemovedNodes(live)) /\ UNCHANGED category
             \/ Reclassify
       \/ part = "classes" /\ ClsNext /\ UNCHANGED <<viewVars, fleetVars>>
       \/ part = "fleet" /\ FleetNext /\ UNCHANGED <<viewVars, clsVars>>

\* The watcher's loop goes on and its lists stop failing at some point (those that
\* find nothing are no failures); time passes for the fleet manager, and nothing
\* blocks the lock of its policy loop.
MCSpec ==
    /\ MCInit /\ [][MCNext]_mcVars
    /\ WF_clsVars(part = "classes" /\ (ListCos \/ ListCosFails))
    /\ WF_clsVars(part = "classes" /\ (ListSubs \/ ListSubsFails))
    /\ <>[](~failed)
    /\ WF_fleetVars(part = "fleet" /\ FleetTick) /\ WF_fleetVars(part = "fleet" /\ Evaluate)
=============================================================================
