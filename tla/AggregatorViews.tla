-------------------------- MODULE AggregatorViews ---------------------------
(***************************************************************************)
(* The power of the same pods by category (handle_cluster) and by group    *)
(* (handle_applications, group_power), for any classification of the       *)
(* namespaces, which the watcher may replace at any time.                  *)
(***************************************************************************)
EXTENDS AggregatorQueries

CONSTANTS
    WorkloadOf,  \* Uid -> workload_uid the agent resolved, or NoKey
    PartOf,      \* Uid -> label app.kubernetes.io/part-of, or NoKey
    OperatorOf   \* Namespace -> ClusterOperator, for namespaces that are platform

\* Pod UIDs are 128-bit identifiers.
ASSUME UidAssumption == IsFiniteSet(Uid)

VARIABLE category   \* Namespace -> category, as last published by the watcher

viewVars == <<vars, category>>

Category == {"platform", "operator", "application"}

\* category_power of handle_cluster
category_power(filter) ==
    [c \in Category |->
        TotalOf({k \in PodsOfMethod(filter) : category[pods[k].namespace] = c})]

-----------------------------------------------------------------------------
(* group_power takes no method.  Only Keck entries carry a workload and    *)
(* labels: the Kepler scraper leaves them empty.                           *)

NoKey == "no key"

LabelKey(k) == IF k[2] = "keck" THEN PartOf[k[1]] ELSE NoKey

WorkloadKey(k) ==
    IF k[2] = "keck" /\ WorkloadOf[k[1]] # NoKey THEN WorkloadOf[k[1]] ELSE k[1]

NamespaceKey(k) == pods[k].namespace

ApplicationKey(k) ==
    IF category[pods[k].namespace] = "platform" THEN <<"co", OperatorOf[pods[k].namespace]>>
    ELSE IF LabelKey(k) # NoKey THEN <<"auto", LabelKey(k)>> ELSE <<"workload", WorkloadKey(k)>>

Keys == [application |-> [k \in DOMAIN pods |-> ApplicationKey(k)],
         workload |-> [k \in DOMAIN pods |-> WorkloadKey(k)],
         label |-> [k \in DOMAIN pods |-> LabelKey(k)],
         namespace |-> [k \in DOMAIN pods |-> NamespaceKey(k)]]

\* Mutant: a pod without the part-of label is skipped for an application too.
SkipsWithApplication(group_by, k) == group_by \in {"label", "application"} /\ LabelKey(k) = NoKey

\* Grouping by a label leaves out the pods that lack it.
Skips(group_by, k) == group_by = "label" /\ LabelKey(k) = NoKey

\* The rows for a grouping, of the categories asked for.
group_power(group_by, cats) ==
    LET key == Keys[group_by]
        shown == {k \in DOMAIN pods : category[pods[k].namespace] \in cats /\ ~Skips(group_by, k)}
    IN  [g \in {key[k] : k \in shown} |-> TotalOf({k \in shown : key[k] = g})]

-----------------------------------------------------------------------------
ViewInit == Init /\ category = [ns \in Namespace |-> "application"]

Reclassify ==
    /\ category' \in [Namespace -> Category]
    /\ UNCHANGED vars

ViewNext == (Next /\ UNCHANGED category) \/ Reclassify

ViewSpec == ViewInit /\ [][ViewNext]_viewVars

-----------------------------------------------------------------------------
(* Correctness                                                             *)

\* The category tiles, the namespace table and the pod table of a method add up
\* to the same power, and the two methods together account for every entry.
ViewsAgree ==
    /\ \A s \in Slot :
          /\ SumFunction(category_power(s)) = TotalOf(PodsOfMethod(s))
          /\ SumFunction(namespace_power(s)) = TotalOf(PodsOfMethod(s))
    /\ TotalOf(PodsOfMethod("keck")) + TotalOf(PodsOfMethod("kepler")) = TotalOf(DOMAIN pods)

\* Grouped by application, workload or namespace, every pod entry is counted in
\* one group, and asking for one category at a time splits the groups' power
\* without loss.  By label, no entry is counted twice.
GroupsComplete ==
    LET total(group_by, cats) == SumFunction(group_power(group_by, cats))
    IN  /\ \A c \in Category :
              /\ total("application", {c}) = total("namespace", {c})
              /\ total("workload", {c}) = total("namespace", {c})
              /\ total("label", {c}) <= total("namespace", {c})
        /\ total("namespace", Category) = TotalOf(DOMAIN pods)

\* However a reader asks for the power of the stored pods, the answers agree and
\* leave no pod out.
PowerAddsUp == ViewsAgree /\ GroupsComplete

\* "Kepler side-by-side comparison (toggle between Keck and Kepler
\* attribution)": the row of a namespace shows the power one method found, while
\* every pod has the method of its report, as from both senders.
GroupShowsOneMethod ==
    (\A k \in DOMAIN pods : pods[k].metering_method = k[2]) =>
        \A ns \in DOMAIN group_power("namespace", Category) :
            group_power("namespace", Category)[ns] \in
                {TotalOf(pods_in_namespace(ns, s)) : s \in Slot}
=============================================================================
