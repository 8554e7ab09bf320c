------------------------- MODULE ControllerMetrics --------------------------
(***************************************************************************)
(* The Prometheus gauges of the controller.  A scrape of /metrics sets a   *)
(* gauge for everything the aggregator knows at that moment; a gauge once  *)
(* created is never removed, so the others keep the value they had.        *)
(***************************************************************************)
EXTENDS Controller, AggregatorQueries

CONSTANT AlertAfter   \* keck_agent_last_report_seconds_ago > 120

ASSUME AlertAssumption == AlertAfter \in Nat /\ AlertAfter < AgeCap

VARIABLES
    last_report,   \* node -> keck_agent_last_report_seconds_ago
    ns_power,      \* namespace -> keck_namespace_power_watts
    node_count     \* keck_node_count

gauges == <<last_report, ns_power, node_count>>
metricsVars == <<allVars, gauges>>

\* The age of each node in the Keck view, by the label the gauge has.
ReportAges ==
    [n \in {row.node_name : row \in node_summaries("keck")} |->
        (CHOOSE row \in node_summaries("keck") : row.node_name = n).last_seen]

\* Mutant: a gauge is set when it is created and not set again.
handle_metrics_once ==
    /\ last_report' = Extend(ReportAges, last_report)
    /\ ns_power' = Extend(namespace_power("keck"), ns_power)
    /\ node_count' = cluster_power("keck").node_count
    /\ UNCHANGED allVars

handle_metrics ==
    /\ last_report' = Extend(last_report, ReportAges)
    /\ ns_power' = Extend(ns_power, namespace_power("keck"))
    /\ node_count' = cluster_power("keck").node_count
    /\ UNCHANGED allVars

MetricsInit ==
    /\ ControllerInit
    /\ last_report = EmptyMap /\ ns_power = EmptyMap /\ node_count = 0

MetricsNext == (ControllerNext /\ UNCHANGED gauges) \/ handle_metrics

MetricsSpec == MetricsInit /\ [][MetricsNext]_metricsVars

\* Prometheus scrapes every interval.  Agents are not restarted: those that run
\* keep reporting.
AlertingFairness ==
    /\ SystemFairness /\ WF_metricsVars(handle_metrics)
    /\ \A n \in Node :
          /\ SF_allVars(\E r \in ReportsOf(n, "") : AgentSends(n, r))
          /\ SF_allVars(\E r \in inFlight : r.node_name = n /\ ReportAccepted(r))

-----------------------------------------------------------------------------
Silent(n) == n \in live /\ n \notin up /\ \A r \in inFlight : r.node_name # n

Fresh(n) == <<n, "keck">> \in DOMAIN nodes /\ nodes[<<n, "keck">>].received_at <= AlertAfter

\* A node that stays fresh does not stay alerted: whatever its gauge showed
\* while it was silent or evicted, it comes to rest below the threshold.
RecoveredAgentClears ==
    \A n \in Node :
        <>[]Fresh(n) => <>[](n \in DOMAIN last_report /\ last_report[n] <= AlertAfter)

\* "KeckAgentNotReporting | Warning | Agent silent for 2m+": an agent that is
\* silent for good, on a node that never left the cluster, has its gauge cross
\* the alert's threshold.
SilentAgentAlerts ==
    \A n \in Node :
        [](n \in live) /\ <>[](Silent(n) /\ n \in DOMAIN last_report) =>
            <>[](n \in DOMAIN last_report /\ last_report[n] > AlertAfter)
=============================================================================
