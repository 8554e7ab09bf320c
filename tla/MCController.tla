---------------------------- MODULE MCController ----------------------------
(* Instances of the controller for TLC. *)
EXTENDS ControllerMetrics

CONSTANTS n1, n2, ns1

HomeIsN1 == [u \in Uid |-> n1]
InNs1 == [u \in Uid |-> ns1]

\* Readings above the limit come from the agent's node total only.
OneWayTooHigh ==
    /\ \A r \in inFlight' \cup scraped' : \A u \in DOMAIN r.pods : r.pods[u].total_uw <= MaxPower
    /\ \A r \in scraped' : r.used_uw <= MaxPower

\* The agents are restarted and Prometheus scrapes every interval.
MCSpec ==
    /\ MetricsInit /\ [][MetricsNext /\ OneWayTooHigh]_metricsVars
    /\ SystemFairness /\ \A n \in Node : AgentFairness(n)
    /\ WF_metricsVars(handle_metrics)

\* Agents that stop stay stopped.
AlertsSpec == MetricsInit /\ [][MetricsNext]_metricsVars /\ AlertingFairness
=============================================================================
