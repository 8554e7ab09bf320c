------------------------- MODULE AggregatorQueries --------------------------
(***************************************************************************)
(* The queries of ClusterAggregator that take a metering method ("keck"    *)
(* when the request names none).  A request holds the read lock, so each   *)
(* query sees one state of the aggregator.                                 *)
(***************************************************************************)
EXTENDS Aggregator, FiniteSets

\* matches_method looks at the method inside the stored entry, not at its slot.
MatchesMethod(m, filter) == (IF m = "" THEN "keck" ELSE m) = filter

PodsOfMethod(filter) ==
    {k \in DOMAIN pods : MatchesMethod(pods[k].metering_method, filter)}

NodesOfMethod(filter) ==
    {k \in DOMAIN nodes : MatchesMethod(nodes[k].metering_method, filter)}

TotalOf(ks) == SumFunction([k \in ks |-> pods[k].total_uw])

cluster_power(filter) ==
    LET ns == NodesOfMethod(filter)
        platform(k) == IF nodes[k].platform_uw = NoReading THEN 0 ELSE nodes[k].platform_uw
    IN  [total_attributed_uw |-> SumFunction([k \in ns |-> nodes[k].used_uw]),
         platform_uw |-> SumFunction([k \in ns |-> platform(k)]),
         node_count |-> Cardinality(ns),
         pod_count |-> Cardinality(PodsOfMethod(filter))]

pods_in_namespace(ns, filter) ==
    {k \in PodsOfMethod(filter) : pods[k].namespace = ns}

\* Namespaces without pods have no row.
namespace_power(filter) ==
    [ns \in {pods[k].namespace : k \in PodsOfMethod(filter)} |->
        TotalOf(pods_in_namespace(ns, filter))]

saturating_sub(a, b) == IF a >= b THEN a - b ELSE 0

\* Rows of a method are told apart by the node alone.
node_summaries(filter) ==
    {[node_name |-> k[1], used_uw |-> nodes[k].used_uw,
      headroom_uw |-> IF nodes[k].platform_uw = NoReading THEN NoReading
                      ELSE saturating_sub(nodes[k].platform_uw, nodes[k].used_uw),
      last_seen |-> nodes[k].received_at] : k \in NodesOfMethod(filter)}
=============================================================================
