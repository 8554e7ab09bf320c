-------------------------- MODULE AggregatorProofs --------------------------
(***************************************************************************)
(* The controller's aggregator, views and classification, for any number of*)
(* nodes, pods, namespaces and operators, any reports, and every           *)
(* interleaving of the ingests with the age-out and the clean-up.          *)
(***************************************************************************)
EXTENDS Controller, AggregatorViews, Classification, FoldProofs

-----------------------------------------------------------------------------
(* The map operations keep maps maps.                                      *)

\* retain, on any set of keys the map has, yields a map of the same type.
LEMMA RestrictIsMap ==
    ASSUME NEW K, NEW V, NEW m, IsMap(m, K, V), NEW D \in SUBSET DOMAIN m
    PROVE  /\ IsMap(Restrict(m, D), K, V)
           /\ DOMAIN Restrict(m, D) = D
           /\ \A k \in D : Restrict(m, D)[k] = m[k]
BY Zenon DEF IsMap, Restrict

-----------------------------------------------------------------------------
(* Ages.                                                                   *)

\* Ageing stays within the cap.
LEMMA OlderIsAge == \A a \in Age : Older(a) \in Age
BY AgesAssumption DEF Age, Older

\* A reading that is within the retention window after a tick was so before.
LEMMA OlderRetention == \A a \in Age : Older(a) <= Retention => a <= Retention
BY AgesAssumption DEF Age, Older

\* A tick ages the entries of a map and changes nothing else in it.
LEMMA AgedNodes ==
    ASSUME NEW m, IsMap(m, NodeKey, NodeState)
    PROVE  /\ IsMap(Aged(m), NodeKey, NodeState)
           /\ DOMAIN Aged(m) = DOMAIN m
           /\ \A k \in DOMAIN m :
                 /\ Aged(m)[k].metering_method = m[k].metering_method
                 /\ Aged(m)[k].timestamp = Older(m[k].timestamp)
                 /\ Aged(m)[k].received_at = Older(m[k].received_at)
BY OlderIsAge, Zenon DEF Aged, IsMap, NodeState

\* The same for the pods: their node and namespace stay as well.
LEMMA AgedPods ==
    ASSUME NEW m, IsMap(m, PodKey, PodState)
    PROVE  /\ IsMap(Aged(m), PodKey, PodState)
           /\ DOMAIN Aged(m) = DOMAIN m
           /\ \A k \in DOMAIN m :
                 /\ Aged(m)[k].metering_method = m[k].metering_method
                 /\ Aged(m)[k].node_name = m[k].node_name
                 /\ Aged(m)[k].namespace = m[k].namespace
                 /\ Aged(m)[k].total_uw = m[k].total_uw
                 /\ Aged(m)[k].timestamp = Older(m[k].timestamp)
                 /\ Aged(m)[k].received_at = Older(m[k].received_at)
BY OlderIsAge, Zenon DEF Aged, IsMap, PodState

-----------------------------------------------------------------------------
(* What a report is, and what ingest stores of it.                         *)

\* The fields of a report of the wire format, and the slot it goes to.
LEMMA ReportFields ==
    ASSUME NEW r \in AgentReport
    PROVE  /\ r.node_name \in Node
           /\ r.metering_method \in WireMethod
           /\ r.timestamp \in Age
           /\ r.used_uw \in Power
           /\ r.platform_uw \in Platform
           /\ IsMap(r.pods, Uid, PodReport)
           /\ MethodOf(r) \in Slot
           /\ \A u \in DOMAIN r.pods : StoredMethod(r, u) \in Slot
<1>1. /\ r.node_name \in Node /\ r.metering_method \in WireMethod
      /\ r.timestamp \in 0 .. MaxDelay /\ r.used_uw \in Power
      /\ r.platform_uw \in Platform /\ r.pods \in Map(Uid, PodReport)
  BY Zenon DEF AgentReport
<1>2. r.timestamp \in Age
  BY <1>1, AgesAssumption DEF Age
<1>3. IsMap(r.pods, Uid, PodReport)
  BY <1>1, Zenon DEF Map, IsMap
<1>4. MethodOf(r) \in Slot
  BY <1>1, Zenon DEF WireMethod, Slot, MethodOf
<1>5. ASSUME NEW u \in DOMAIN r.pods
      PROVE  StoredMethod(r, u) \in Slot
  <2>1. r.pods[u].metering_method \in WireMethod
    BY <1>3, Zenon DEF IsMap, PodReport
  <2> QED
    BY <1>4, <2>1, Zenon DEF WireMethod, Slot, StoredMethod
<1> QED
  BY <1>1, <1>2, <1>3, <1>4, <1>5, Zenon

\* The node entry a report leaves behind.
NewNode(r) ==
    [metering_method |-> r.metering_method, used_uw |-> r.used_uw,
     platform_uw |-> r.platform_uw, timestamp |-> r.timestamp, received_at |-> 0]

\* nodes.insert adds or replaces the entry of the report and no other.
LEMMA InsertNodeIsMap ==
    ASSUME NEW m, IsMap(m, NodeKey, NodeState), NEW r \in AgentReport
    PROVE  LET k0 == <<r.node_name, MethodOf(r)>>
           IN  /\ IsMap(InsertNode(m, r), NodeKey, NodeState)
               /\ DOMAIN InsertNode(m, r) = DOMAIN m \cup {k0}
               /\ InsertNode(m, r)[k0] = NewNode(r)
               /\ \A k \in DOMAIN m \ {k0} : InsertNode(m, r)[k] = m[k]
<1> DEFINE k0 == <<r.node_name, MethodOf(r)>>
           e == [k \in {k0} |-> NewNode(r)]
<1>1. NewNode(r) \in NodeState
  BY ReportFields, AgesAssumption DEF NewNode, NodeState, Age
<1>2. k0 \in NodeKey
  BY ReportFields, Zenon DEF NodeKey
<1>3. IsMap(e, NodeKey, NodeState)
  BY <1>1, <1>2, Zenon DEF IsMap
<1>4. InsertNode(m, r) = Extend(m, e)
  BY Zenon DEF InsertNode, NewNode
<1>5. DOMAIN e = {k0} /\ e[k0] = NewNode(r)
  BY Zenon
<1> HIDE DEF e
<1>6. /\ IsMap(Extend(m, e), NodeKey, NodeState)
      /\ DOMAIN Extend(m, e) = DOMAIN m \cup DOMAIN e
      /\ \A k \in DOMAIN e : Extend(m, e)[k] = e[k]
      /\ \A k \in DOMAIN m \ DOMAIN e : Extend(m, e)[k] = m[k]
  BY <1>3, Zenon DEF IsMap, Extend
<1> QED
  BY <1>4, <1>5, <1>6, Zenon

\* The entry a report leaves behind for its pod u.
NewPod(r, u) ==
    [node_name |-> r.node_name, namespace |-> r.pods[u].namespace,
     metering_method |-> StoredMethod(r, u), total_uw |-> r.pods[u].total_uw,
     timestamp |-> r.timestamp, received_at |-> 0]

\* The keys of the pods of a report.
ReportedKeys(r) == (DOMAIN r.pods) \X {MethodOf(r)}

\* The loop over the pods adds or replaces the entries of the report and no other.
LEMMA InsertPodsIsMap ==
    ASSUME NEW m, IsMap(m, PodKey, PodState), NEW r \in AgentReport
    PROVE  /\ IsMap(InsertPods(m, r), PodKey, PodState)
           /\ DOMAIN InsertPods(m, r) = DOMAIN m \cup ReportedKeys(r)
           /\ \A k \in ReportedKeys(r) : InsertPods(m, r)[k] = NewPod(r, k[1])
           /\ \A k \in DOMAIN m \ ReportedKeys(r) : InsertPods(m, r)[k] = m[k]
<1> DEFINE e == [k \in ReportedKeys(r) |-> NewPod(r, k[1])]
<1>1. ASSUME NEW k \in ReportedKeys(r)
      PROVE  k \in PodKey /\ NewPod(r, k[1]) \in PodState
  <2>1. k[1] \in DOMAIN r.pods /\ k[1] \in Uid /\ r.pods[k[1]] \in PodReport
    BY ReportFields, Zenon DEF ReportedKeys, IsMap
  <2>2. k \in PodKey
    BY <2>1, ReportFields, Zenon DEF ReportedKeys, PodKey
  <2>3. r.pods[k[1]].namespace \in Namespace /\ r.pods[k[1]].total_uw \in Power
    BY <2>1, Zenon DEF PodReport
  <2>4. StoredMethod(r, k[1]) \in Slot /\ 0 \in Age
    BY <2>1, ReportFields, AgesAssumption DEF Age
  <2> QED
    BY <2>2, <2>3, <2>4, ReportFields, Zenon DEF NewPod, PodState
<1>2. IsMap(e, PodKey, PodState)
  BY <1>1, Zenon DEF IsMap
<1>3. InsertPods(m, r) = Extend(m, e)
  BY Zenon DEF InsertPods, NewPod, ReportedKeys
<1>4. DOMAIN e = ReportedKeys(r) /\ \A k \in ReportedKeys(r) : e[k] = NewPod(r, k[1])
  BY Zenon
<1> HIDE DEF e
<1>5. /\ IsMap(Extend(m, e), PodKey, PodState)
      /\ DOMAIN Extend(m, e) = DOMAIN m \cup DOMAIN e
      /\ \A k \in DOMAIN e : Extend(m, e)[k] = e[k]
      /\ \A k \in DOMAIN m \ DOMAIN e : Extend(m, e)[k] = m[k]
  BY <1>2, Zenon DEF IsMap, Extend
<1> QED
  BY <1>3, <1>4, <1>5, Zenon

\* The nodes after an ingest: the reported one is new and fresh, any other one
\* is as it was, and is not stale.
LEMMA NodesAfterIngest ==
    ASSUME NEW r \in AgentReport, TypeOK, Ingest(r)
    PROVE  LET k0 == <<r.node_name, MethodOf(r)>>
           IN  /\ IsMap(nodes', NodeKey, NodeState)
               /\ k0 \in DOMAIN nodes' /\ nodes'[k0] = NewNode(r)
               /\ \A k \in DOMAIN nodes' \ {k0} :
                      /\ k \in DOMAIN nodes /\ nodes'[k] = nodes[k]
                      /\ nodes[k].received_at < Staleness
               /\ \A k \in DOMAIN nodes \ {k0} :
                      nodes[k].received_at < Staleness => k \in DOMAIN nodes'
<1> DEFINE k0 == <<r.node_name, MethodOf(r)>>
           m == InsertNode(nodes, r)
           D == {k \in DOMAIN m : m[k].received_at < Staleness}
<1>1. /\ IsMap(m, NodeKey, NodeState) /\ DOMAIN m = DOMAIN nodes \cup {k0}
      /\ m[k0] = NewNode(r) /\ \A k \in DOMAIN nodes \ {k0} : m[k] = nodes[k]
  BY InsertNodeIsMap, Zenon DEF TypeOK
<1>2. nodes' = Restrict(m, D)
  BY Zenon DEF Ingest, EvictStale
<1>3. D \in SUBSET DOMAIN m
  BY Zenon
<1>4. /\ IsMap(nodes', NodeKey, NodeState) /\ DOMAIN nodes' = D
      /\ \A k \in D : nodes'[k] = m[k]
  BY <1>1, <1>2, <1>3, RestrictIsMap
<1>5. NewNode(r).received_at = 0 /\ 0 < Staleness
  BY AgesAssumption DEF NewNode
<1>6. k0 \in D
  BY <1>1, <1>5, Zenon
<1> QED
  BY <1>1, <1>4, <1>6, Zenon

\* The pods after an ingest: the reported ones are new, any other one is as it
\* was, is not stale, and is of another node or another method.
LEMMA PodsAfterIngest ==
    ASSUME NEW r \in AgentReport, TypeOK, Ingest(r)
    PROVE  /\ IsMap(pods', PodKey, PodState)
           /\ \A k \in DOMAIN pods' :
                 \/ /\ k \in ReportedKeys(r) /\ pods'[k] = NewPod(r, k[1])
                 \/ /\ k \in DOMAIN pods /\ pods'[k] = pods[k]
                    /\ pods[k].received_at < Staleness
                    /\ NodeOf(k) # <<r.node_name, MethodOf(r)>>
           /\ \A k \in DOMAIN pods :
                 \/ k \in DOMAIN pods'
                 \/ pods[k].received_at >= Staleness
                 \/ NodeOf(k) = <<r.node_name, MethodOf(r)>>
<1> DEFINE K == {k \in DOMAIN pods : ~ /\ k[2] = MethodOf(r)
                                       /\ pods[k].node_name = r.node_name
                                       /\ k[1] \notin DOMAIN r.pods}
           kept == EvictUnreported(pods, r)
           m == InsertPods(kept, r)
           D == {k \in DOMAIN m : m[k].received_at < Staleness}
<1>0. IsMap(pods, PodKey, PodState)
  BY Zenon DEF TypeOK
<1>1. IsMap(kept, PodKey, PodState) /\ DOMAIN kept = K /\ \A k \in K : kept[k] = pods[k]
  BY <1>0, RestrictIsMap DEF EvictUnreported
<1>2. /\ IsMap(m, PodKey, PodState) /\ DOMAIN m = K \cup ReportedKeys(r)
      /\ \A k \in ReportedKeys(r) : m[k] = NewPod(r, k[1])
      /\ \A k \in K \ ReportedKeys(r) : m[k] = pods[k]
  BY <1>1, InsertPodsIsMap, Zenon
<1>3. pods' = Restrict(m, D)
  BY Zenon DEF Ingest, EvictStale
<1>4. D \in SUBSET DOMAIN m
  BY Zenon
<1>5. /\ IsMap(pods', PodKey, PodState) /\ DOMAIN pods' = D
      /\ \A k \in D : pods'[k] = m[k]
  BY <1>2, <1>3, <1>4, RestrictIsMap
<1>6. ASSUME NEW k \in DOMAIN pods, k \notin ReportedKeys(r)
      PROVE  k \in K <=> NodeOf(k) # <<r.node_name, MethodOf(r)>>
  <2>1. k[1] \in Uid /\ k[2] \in Slot /\ k = <<k[1], k[2]>>
    BY <1>0 DEF IsMap, PodKey
  <2>2. k[2] = MethodOf(r) => k[1] \notin DOMAIN r.pods
    BY <1>6, <2>1, Zenon DEF ReportedKeys
  <2> QED
    BY <2>1, <2>2, Zenon DEF NodeOf
<1>7. \A u : NewPod(r, u).received_at = 0
  BY Zenon DEF NewPod
<1>8. ReportedKeys(r) \subseteq D
  BY <1>2, <1>7, AgesAssumption
<1>9. ASSUME NEW k \in DOMAIN pods
      PROVE  \/ k \in D \/ pods[k].received_at >= Staleness
             \/ NodeOf(k) = <<r.node_name, MethodOf(r)>>
  <2>1. pods[k].received_at \in Nat
    BY <1>0 DEF IsMap, PodState, Age
  <2> QED
    BY <1>2, <1>6, <1>8, <2>1, AgesAssumption
<1>10. ASSUME NEW k \in D, k \notin ReportedKeys(r)
       PROVE  /\ k \in DOMAIN pods /\ m[k] = pods[k]
              /\ pods[k].received_at < Staleness
              /\ NodeOf(k) # <<r.node_name, MethodOf(r)>>
  BY <1>2, <1>6, <1>10, Zenon
<1> QED
  BY <1>2, <1>5, <1>9, <1>10, Zenon

\* The history after an ingest: samples within the retention window stay, and
\* the samples of the report that are within it are there.
LEMMA HistoryAfterIngest ==
    ASSUME NEW r \in AgentReport, TypeOK, Ingest(r)
    PROVE  /\ IsMap(history', Namespace, SUBSET Sample)
           /\ \A ns \in DOMAIN history : \A s \in history[ns] :
                 s[1] <= Retention => ns \in DOMAIN history' /\ s \in history'[ns]
           /\ \A u \in DOMAIN r.pods :
                 r.timestamp <= Retention =>
                    /\ r.pods[u].namespace \in DOMAIN history'
                    /\ <<r.timestamp, r.pods[u].total_uw>> \in history'[r.pods[u].namespace]
<1> DEFINE h == PushHistory(history, r)
           N == DOMAIN history \cup {r.pods[u].namespace : u \in DOMAIN r.pods}
           kept == [ns \in DOMAIN h |-> {s \in h[ns] : s[1] <= Retention}]
           D == {ns \in DOMAIN h : kept[ns] # {}}
<1>1. \A u \in DOMAIN r.pods :
         r.pods[u].namespace \in Namespace /\ r.pods[u].total_uw \in Power
  BY ReportFields, Zenon DEF IsMap, PodReport
<1>2. IsMap(history, Namespace, SUBSET Sample)
  BY Zenon DEF TypeOK
<1>3. DOMAIN h = N /\ N \subseteq Namespace
  BY <1>1, <1>2, Zenon DEF PushHistory, IsMap
<1>4. \A ns \in N : h[ns] = (IF ns \in DOMAIN history THEN history[ns] ELSE {})
                             \cup SamplesOf(r, ns)
  BY Zenon DEF PushHistory
<1>5. \A ns : SamplesOf(r, ns) \subseteq Sample
  BY <1>1, ReportFields DEF SamplesOf, Sample
<1>6. \A ns \in N : h[ns] \subseteq Sample
  BY <1>2, <1>4, <1>5, Zenon DEF IsMap
<1>7. \A u \in DOMAIN r.pods : <<r.timestamp, r.pods[u].total_uw>> \in h[r.pods[u].namespace]
  BY <1>4 DEF SamplesOf
<1>8. history' = [ns \in D |-> kept[ns]]
  BY Zenon DEF Ingest, TrimHistory, Restrict
<1> HIDE DEF h
<1>9. \A ns \in N : \A s \in h[ns] :
         s[1] <= Retention => ns \in DOMAIN history' /\ s \in history'[ns]
  BY <1>3, <1>8, Zenon
<1>10. IsMap(history', Namespace, SUBSET Sample)
  BY <1>3, <1>6, <1>8, Zenon DEF IsMap
<1>11. \A ns \in DOMAIN history : ns \in N /\ history[ns] \subseteq h[ns]
  BY <1>4, Zenon
<1>12. \A u \in DOMAIN r.pods : r.pods[u].namespace \in N
  BY Zenon
<1> QED
  BY <1>7, <1>9, <1>10, <1>11, <1>12, Zenon

-----------------------------------------------------------------------------
(* The inductive invariant.  Each conjunct is preserved with the help of   *)
(* TypeOK alone, but for HistoryCoversPods and OneReportPerNode the fact   *)
(* that a tick ages both sides of the relation alike is what matters.      *)

Inv == TypeOK /\ OneReportPerNode /\ HistoryCoversPods

\* A new aggregator is empty (ClusterAggregator::new).
LEMMA InitInv == Init => Inv
BY Zenon DEF Init, EmptyMap, Inv, TypeOK, IsMap, OneReportPerNode, HistoryCoversPods

\* ingest preserves the invariant.
LEMMA IngestInv ==
    ASSUME NEW r \in AgentReport, Inv, Ingest(r)
    PROVE  Inv'
<1> DEFINE k0 == <<r.node_name, MethodOf(r)>>
<1>0. TypeOK
  BY Zenon DEF Inv
<1>1. TypeOK'
  BY <1>0, NodesAfterIngest, PodsAfterIngest, HistoryAfterIngest, Zenon DEF TypeOK
<1>2. ASSUME NEW k \in ReportedKeys(r), pods'[k] = NewPod(r, k[1])
      PROVE  NodeOf(k)' = k0 /\ k[2] = MethodOf(r) /\ k[1] \in DOMAIN r.pods
  BY <1>2 DEF NodeOf, NewPod, ReportedKeys
<1>3. ASSUME NEW k \in DOMAIN pods, pods'[k] = pods[k]
      PROVE  NodeOf(k)' = NodeOf(k)
  BY <1>3, Zenon DEF NodeOf
<1>4. OneReportPerNode'
  <2> SUFFICES ASSUME NEW k \in DOMAIN pods'
               PROVE  /\ NodeOf(k)' \in DOMAIN nodes'
                      /\ nodes'[NodeOf(k)'].received_at = pods'[k].received_at
                      /\ nodes'[NodeOf(k)'].timestamp = pods'[k].timestamp
    BY Zenon DEF OneReportPerNode
  <2>1. CASE k \in ReportedKeys(r) /\ pods'[k] = NewPod(r, k[1])
    <3>1. NodeOf(k)' = k0
      BY <1>2, <2>1, Zenon
    <3>2. k0 \in DOMAIN nodes' /\ nodes'[k0] = NewNode(r)
      BY <1>0, NodesAfterIngest, Zenon
    <3> QED
      BY <2>1, <3>1, <3>2 DEF NewNode, NewPod
  <2>2. CASE /\ k \in DOMAIN pods /\ pods'[k] = pods[k]
             /\ pods[k].received_at < Staleness /\ NodeOf(k) # k0
    <3>1. /\ NodeOf(k) \in DOMAIN nodes
          /\ nodes[NodeOf(k)].received_at = pods[k].received_at
          /\ nodes[NodeOf(k)].timestamp = pods[k].timestamp
      BY <2>2, Zenon DEF Inv, OneReportPerNode
    <3>2. NodeOf(k) \in DOMAIN nodes' /\ nodes'[NodeOf(k)] = nodes[NodeOf(k)]
      BY <1>0, <2>2, <3>1, NodesAfterIngest, Zenon
    <3> QED
      BY <1>3, <2>2, <3>1, <3>2, Zenon
  <2> QED
    BY <1>0, <2>1, <2>2, PodsAfterIngest, Zenon
<1>6. HistoryCoversPods'
  <2> SUFFICES ASSUME NEW k \in DOMAIN pods', pods'[k].timestamp <= Retention
               PROVE  /\ pods'[k].namespace \in DOMAIN history'
                      /\ <<pods'[k].timestamp, pods'[k].total_uw>>
                             \in history'[pods'[k].namespace]
    BY Zenon DEF HistoryCoversPods
  <2>1. CASE k \in ReportedKeys(r) /\ pods'[k] = NewPod(r, k[1])
    BY <1>0, <1>2, <2>1, HistoryAfterIngest DEF NewPod
  <2>2. CASE k \in DOMAIN pods /\ pods'[k] = pods[k]
    <3>1. /\ pods[k].namespace \in DOMAIN history
          /\ <<pods[k].timestamp, pods[k].total_uw>> \in history[pods[k].namespace]
      BY <2>2, Zenon DEF Inv, HistoryCoversPods
    <3> QED
      BY <1>0, <2>2, <3>1, HistoryAfterIngest, Zenon
  <2> QED
    BY <1>0, <2>1, <2>2, PodsAfterIngest, Zenon
<1> QED
  BY <1>1, <1>4, <1>6, Zenon DEF Inv

\* evict_removed_nodes preserves the invariant.
LEMMA EvictRemovedNodesInv ==
    ASSUME NEW present \in SUBSET Node, Inv, EvictRemovedNodes(present)
    PROVE  Inv'
<1> DEFINE N == {k \in DOMAIN nodes : k[1] \in present}
           P == {k \in DOMAIN pods : pods[k].node_name \in present}
<1>0. IsMap(nodes, NodeKey, NodeState) /\ IsMap(pods, PodKey, PodState)
  BY Zenon DEF Inv, TypeOK
<1>1. IsMap(nodes', NodeKey, NodeState) /\ DOMAIN nodes' = N
      /\ \A k \in N : nodes'[k] = nodes[k]
  BY <1>0, RestrictIsMap DEF EvictRemovedNodes
<1>2. IsMap(pods', PodKey, PodState) /\ DOMAIN pods' = P
      /\ \A k \in P : pods'[k] = pods[k]
  BY <1>0, RestrictIsMap DEF EvictRemovedNodes
<1>3. history' = history
  BY Zenon DEF EvictRemovedNodes
<1>4. TypeOK'
  BY <1>1, <1>2, <1>3, Zenon DEF Inv, TypeOK
<1>5. ASSUME NEW k \in P
      PROVE  NodeOf(k)' = NodeOf(k) /\ NodeOf(k)[1] \in present
  BY <1>2, Zenon DEF NodeOf
<1>6. OneReportPerNode'
  <2> SUFFICES ASSUME NEW k \in P
               PROVE  /\ NodeOf(k)' \in N
                      /\ nodes'[NodeOf(k)'].received_at = pods'[k].received_at
                      /\ nodes'[NodeOf(k)'].timestamp = pods'[k].timestamp
    BY <1>1, <1>2, Zenon DEF OneReportPerNode
  <2>1. /\ NodeOf(k) \in DOMAIN nodes
        /\ nodes[NodeOf(k)].received_at = pods[k].received_at
        /\ nodes[NodeOf(k)].timestamp = pods[k].timestamp
    BY Zenon DEF Inv, OneReportPerNode
  <2>2. NodeOf(k) \in N
    BY <1>5, <2>1, Zenon
  <2> QED
    BY <1>1, <1>2, <1>5, <2>1, <2>2, Zenon
<1>8. HistoryCoversPods'
  BY <1>2, <1>3, Zenon DEF Inv, HistoryCoversPods
<1> QED
  BY <1>4, <1>6, <1>8, Zenon DEF Inv

\* Ageing preserves the invariant.
LEMMA TickInv == Inv /\ Tick => Inv'
<1> SUFFICES ASSUME Inv, Tick PROVE Inv'
  BY Zenon
<1>0. /\ IsMap(nodes, NodeKey, NodeState) /\ IsMap(pods, PodKey, PodState)
      /\ IsMap(history, Namespace, SUBSET Sample)
  BY Zenon DEF Inv, TypeOK
<1>1. /\ IsMap(nodes', NodeKey, NodeState) /\ DOMAIN nodes' = DOMAIN nodes
      /\ \A k \in DOMAIN nodes :
            /\ nodes'[k].metering_method = nodes[k].metering_method
            /\ nodes'[k].timestamp = Older(nodes[k].timestamp)
            /\ nodes'[k].received_at = Older(nodes[k].received_at)
  BY <1>0, AgedNodes, Zenon DEF Tick
<1>2. /\ IsMap(pods', PodKey, PodState) /\ DOMAIN pods' = DOMAIN pods
      /\ \A k \in DOMAIN pods :
            /\ pods'[k].metering_method = pods[k].metering_method
            /\ pods'[k].node_name = pods[k].node_name
            /\ pods'[k].namespace = pods[k].namespace
            /\ pods'[k].total_uw = pods[k].total_uw
            /\ pods'[k].timestamp = Older(pods[k].timestamp)
            /\ pods'[k].received_at = Older(pods[k].received_at)
  BY <1>0, AgedPods, Zenon DEF Tick
<1>3. /\ DOMAIN history' = DOMAIN history
      /\ \A ns \in DOMAIN history :
            history'[ns] = {<<Older(s[1]), s[2]>> : s \in history[ns]}
  BY Zenon DEF Tick
<1>4. IsMap(history', Namespace, SUBSET Sample)
  <2>1. \A s \in Sample : <<Older(s[1]), s[2]>> \in Sample
    BY OlderIsAge, Zenon DEF Sample
  <2>2. \A ns \in DOMAIN history : history'[ns] \subseteq Sample
    BY <1>0, <1>3, <2>1 DEF IsMap
  <2>3. history' \in [DOMAIN history -> SUBSET Sample]
    BY <2>2, Zenon DEF Tick
  <2> QED
    BY <1>0, <1>3, <2>3, Zenon DEF IsMap
<1>5. TypeOK'
  BY <1>1, <1>2, <1>4, Zenon DEF TypeOK
<1>6. OneReportPerNode'
  <2> SUFFICES ASSUME NEW k \in DOMAIN pods
               PROVE  /\ NodeOf(k)' \in DOMAIN nodes'
                      /\ nodes'[NodeOf(k)'].received_at = pods'[k].received_at
                      /\ nodes'[NodeOf(k)'].timestamp = pods'[k].timestamp
    BY <1>2, Zenon DEF OneReportPerNode
  <2>1. NodeOf(k)' = NodeOf(k)
    BY <1>2, Zenon DEF NodeOf
  <2>2. /\ NodeOf(k) \in DOMAIN nodes
        /\ nodes[NodeOf(k)].received_at = pods[k].received_at
        /\ nodes[NodeOf(k)].timestamp = pods[k].timestamp
    BY Zenon DEF Inv, OneReportPerNode
  <2> QED
    BY <1>1, <1>2, <2>1, <2>2
<1>8. HistoryCoversPods'
  <2> SUFFICES ASSUME NEW k \in DOMAIN pods, pods'[k].timestamp <= Retention
               PROVE  /\ pods'[k].namespace \in DOMAIN history'
                      /\ <<pods'[k].timestamp, pods'[k].total_uw>>
                             \in history'[pods'[k].namespace]
    BY <1>2, Zenon DEF HistoryCoversPods
  <2>1. pods[k].timestamp \in Age
    BY <1>0, Zenon DEF IsMap, PodState
  <2>2. pods[k].timestamp <= Retention
    BY <1>2, <2>1, OlderRetention, Zenon
  <2>3. /\ pods[k].namespace \in DOMAIN history
        /\ <<pods[k].timestamp, pods[k].total_uw>> \in history[pods[k].namespace]
    BY <2>2, Zenon DEF Inv, HistoryCoversPods
  <2> QED
    BY <1>2, <1>3, <2>3
<1> QED
  BY <1>5, <1>6, <1>8, Zenon DEF Inv

\* Every step of the aggregator preserves the inductive invariant.
LEMMA NextInv == Inv /\ [Next]_vars => Inv'
<1> SUFFICES ASSUME Inv, [Next]_vars PROVE Inv'
  BY Zenon
<1>1. CASE \E r \in AgentReport : Ingest(r)
  BY <1>1, IngestInv, Zenon
<1>2. CASE \E present \in SUBSET Node : EvictRemovedNodes(present)
  BY <1>2, EvictRemovedNodesInv, Zenon
<1>3. CASE Tick
  BY <1>3, TickInv, Zenon
<1>4. CASE UNCHANGED vars
  BY <1>4, Zenon DEF vars, Inv, TypeOK, OneReportPerNode, HistoryCoversPods, NodeOf
<1> QED
  BY <1>1, <1>2, <1>3, <1>4, Zenon DEF Next

\* The inductive invariant holds in every reachable state of the aggregator.
THEOREM InvHolds == Spec => []Inv
BY InitInv, NextInv, PTL DEF Spec

\* nodes, pods and history keep their types whatever is ingested or evicted.
THEOREM TypeCorrect == Spec => []TypeOK
BY InvHolds, PTL DEF Inv

\* What is shown of a node and of its pods always comes from one report,
\* however ingest, evict_stale and evict_removed_nodes interleave.
THEOREM OneReportPerNodeHolds == Spec => []OneReportPerNode
BY InvHolds, PTL DEF Inv

\* trim_history never drops the sample of a pod's current reading while it is
\* within the retention window.
THEOREM HistoryCoversPodsHolds == Spec => []HistoryCoversPods
BY InvHolds, PTL DEF Inv

\* A pod is lost only to staleness, to the removal of its node, or to a report
\* of its own node and method: slots and nodes are isolated from each other.
THEOREM PodLossHasCauseHolds == Spec => PodLossHasCause
<1> DEFINE Cause(k) == \/ k \in DOMAIN pods'
                       \/ pods[k].received_at >= Staleness
                       \/ NodeOf(k) \notin DOMAIN nodes'
                       \/ nodes'[NodeOf(k)].received_at = 0
<1>1. TypeOK /\ Next => \A k \in DOMAIN pods : Cause(k)
  <2> SUFFICES ASSUME TypeOK, Next, NEW k \in DOMAIN pods PROVE Cause(k)
    BY Zenon
  <2>1. ASSUME NEW r \in AgentReport, Ingest(r) PROVE Cause(k)
    <3> DEFINE k0 == <<r.node_name, MethodOf(r)>>
    <3>1. nodes'[k0] = NewNode(r)
      BY <2>1, NodesAfterIngest, Zenon
    <3>2. NodeOf(k) = k0 => nodes'[NodeOf(k)].received_at = 0
      BY <3>1 DEF NewNode
    <3> QED
      BY <2>1, <3>2, PodsAfterIngest, Zenon
  <2>2. ASSUME NEW present \in SUBSET Node, EvictRemovedNodes(present) PROVE Cause(k)
    <3>1. DOMAIN nodes' = {n \in DOMAIN nodes : n[1] \in present}
      BY <2>2, Zenon DEF EvictRemovedNodes, Restrict
    <3>2. DOMAIN pods' = {p \in DOMAIN pods : pods[p].node_name \in present}
      BY <2>2, Zenon DEF EvictRemovedNodes, Restrict
    <3> QED
      BY <3>1, <3>2, Zenon DEF NodeOf
  <2>3. CASE Tick
    BY <2>3, Zenon DEF Tick, Aged
  <2> QED
    BY <2>1, <2>2, <2>3, Zenon DEF Next
<1>2. TypeOK /\ [Next]_vars => [\A k \in DOMAIN pods : Cause(k)]_vars
  BY <1>1, Zenon
<1> QED
  BY <1>2, TypeCorrect, PTL DEF Spec, PodLossHasCause

-----------------------------------------------------------------------------
(* The controller between its agents and the cluster                       *)

\* What the tasks of the controller hold between two steps.
PendingOK ==
    /\ live \subseteq Node /\ up \subseteq Node /\ running \subseteq Uid
    /\ inFlight \subseteq AgentReport /\ scraped \subseteq AgentReport
    /\ listed \subseteq SUBSET Node

\* What the agents and the scraper put together is a report of the wire format.
LEMMA SentIsReport ==
    ASSUME PendingOK, NEW n \in Node, NEW m \in WireMethod, NEW r \in ReportsOf(n, m)
    PROVE  r \in AgentReport
<1>1. PodsOn(n) \in SUBSET Uid
  BY Zenon DEF PendingOK, PodsOn
<1>2. [PodsOn(n) -> PodReport] \subseteq Map(Uid, PodReport)
  BY <1>1, Zenon DEF Map
<1>3. 0 \in 0 .. MaxDelay
  BY AgesAssumption
<1> QED
  BY <1>2, <1>3, Zenon DEF ReportsOf, AgentReport

\* A report that is under way for longer, but not too long, is still a report.
LEMMA DelayedIsReport ==
    ASSUME NEW r \in AgentReport, r.timestamp < MaxDelay
    PROVE  Delayed(r) \in AgentReport
<1>1. r.timestamp + 1 \in 0 .. MaxDelay
  BY AgesAssumption DEF AgentReport
<1> QED
  BY <1>1, Zenon DEF AgentReport, Delayed

\* At the start nothing is under way.
LEMMA PendingInit == ControllerInit => PendingOK
BY Zenon DEF ControllerInit, PendingOK

\* Every step of the controller keeps well-formed what its tasks hold.
LEMMA PendingNext == PendingOK /\ [ControllerNext]_allVars => PendingOK'
<1> SUFFICES ASSUME PendingOK, [ControllerNext]_allVars PROVE PendingOK'
  BY Zenon
<1>1. ASSUME NEW n \in Node, NodeLeaves(n) \/ NodeJoins(n) \/ AgentStops(n) \/ AgentStarts(n)
      PROVE  PendingOK'
  BY <1>1, Zenon DEF PendingOK, NodeLeaves, NodeJoins, AgentStops, AgentStarts
<1>2. ASSUME NEW n \in Node, NEW r \in ReportsOf(n, ""), AgentSends(n, r)
      PROVE  PendingOK'
  <2>1. r \in AgentReport
    BY SentIsReport, Zenon DEF WireMethod
  <2> QED
    BY <1>2, <2>1, Zenon DEF PendingOK, AgentSends, envVars
<1>3. ASSUME NEW n \in Node, KeplerScrapes(n) PROVE PendingOK'
  <2>1. PICK r \in ReportsOf(n, "kepler") : scraped' = {r}
    BY <1>3, Zenon DEF KeplerScrapes
  <2>2. r \in AgentReport
    BY SentIsReport, Zenon DEF WireMethod
  <2> QED
    BY <1>3, <2>1, <2>2, Zenon DEF PendingOK, KeplerScrapes, envVars
<1>4. ASSUME NEW u \in Uid, PodEnds(u) PROVE PendingOK'
  BY <1>4, Zenon DEF PendingOK, PodEnds
<1>5. ASSUME NEW r \in inFlight, ReportLost(r) \/ ReportRejected(r) \/ ReportAccepted(r)
      PROVE  PendingOK'
  BY <1>5, Zenon DEF PendingOK, ReportLost, ReportRejected, ReportAccepted, envVars
<1>6. CASE KeplerIngests
  BY <1>6, Zenon DEF PendingOK, KeplerIngests, envVars
<1>7. CASE WatcherLists
  BY <1>7, Zenon DEF PendingOK, WatcherLists, envVars
<1>8. CASE WatcherEvicts
  BY <1>8, Zenon DEF PendingOK, WatcherEvicts, envVars
<1>9. CASE TimePasses
  <2>1. \A r \in inFlight \cup scraped : Delayed(r) \in AgentReport
    BY <1>9, DelayedIsReport, Zenon DEF PendingOK, TimePasses
  <2> QED
    BY <1>9, <2>1, Zenon DEF PendingOK, TimePasses, envVars
<1>10. CASE UNCHANGED allVars
  BY <1>10, Zenon DEF PendingOK, allVars
<1> QED
  BY <1>1, <1>2, <1>3, <1>4, <1>5, <1>6, <1>7, <1>8, <1>9, <1>10, Zenon DEF ControllerNext

\* A step of the controller is a step of the aggregator, or none.
LEMMA StepImplements == PendingOK /\ [ControllerNext]_allVars => [Next]_vars
<1> SUFFICES ASSUME PendingOK, [ControllerNext]_allVars PROVE [Next]_vars
  BY Zenon
<1>1. ASSUME NEW n \in Node, NodeLeaves(n) \/ NodeJoins(n) \/ AgentStops(n) \/ AgentStarts(n)
      PROVE  UNCHANGED vars
  BY <1>1, Zenon DEF NodeLeaves, NodeJoins, AgentStops, AgentStarts
<1>2. ASSUME NEW n \in Node, NEW r \in ReportsOf(n, ""), AgentSends(n, r)
      PROVE  UNCHANGED vars
  BY <1>2, Zenon DEF AgentSends
<1>3. ASSUME NEW n \in Node, KeplerScrapes(n) PROVE UNCHANGED vars
  BY <1>3, Zenon DEF KeplerScrapes
<1>4. ASSUME NEW u \in Uid, PodEnds(u) PROVE UNCHANGED vars
  BY <1>4, Zenon DEF PodEnds
<1>5. ASSUME NEW r \in inFlight, ReportLost(r) \/ ReportRejected(r) PROVE UNCHANGED vars
  BY <1>5, Zenon DEF ReportLost, ReportRejected
<1>6. ASSUME NEW r \in inFlight, ReportAccepted(r) PROVE Next
  BY <1>6, Zenon DEF PendingOK, ReportAccepted, Next
<1>7. CASE KeplerIngests
  BY <1>7, Zenon DEF PendingOK, KeplerIngests, Next
<1>8. CASE WatcherLists
  BY <1>8, Zenon DEF WatcherLists
<1>9. CASE WatcherEvicts
  BY <1>9, Zenon DEF PendingOK, WatcherEvicts, Next
<1>10. CASE TimePasses
  BY <1>10, Zenon DEF TimePasses, Next
<1>11. CASE UNCHANGED allVars
  BY <1>11, Zenon DEF allVars, vars
<1> QED
  BY <1>1, <1>2, <1>3, <1>4, <1>5, <1>6, <1>7, <1>8, <1>9, <1>10, <1>11, Zenon DEF ControllerNext

\* The controller, with its network, its scraper, its watcher and its clock,
\* implements the specification of the aggregator.
THEOREM ControllerImplementsAggregator == ControllerSpec => Spec
<1>1. ControllerInit => Init
  BY Zenon DEF ControllerInit
<1> QED
  BY <1>1, PendingInit, PendingNext, StepImplements, PTL DEF ControllerSpec, Spec

\* In the running controller, too, a node and its pods are shown from one
\* report, the slots do not mix and the history covers the current readings.
THEOREM ControllerKeepsInv == ControllerSpec => []Inv
BY ControllerImplementsAggregator, InvHolds, PTL

\* No step of the controller loses a pod without a cause: late, refused and lost
\* reports, stale node lists and Kepler scrapes included.
THEOREM ControllerPodLossHasCause == ControllerSpec => PodLossHasCause
BY ControllerImplementsAggregator, PodLossHasCauseHolds, PTL

-----------------------------------------------------------------------------
(* The views of the API                                                    *)

\* With the categories, what the views are computed from.
ViewInv == Inv /\ category \in [Namespace -> Category]

\* The power of the stored pods, as one function of their keys.
TotalUw == [k \in DOMAIN pods |-> pods[k].total_uw]

\* Finitely many pods are stored, each with a natural number as its power.
LEMMA PodsFinite ==
    ASSUME TypeOK
    PROVE  /\ IsFiniteSet(DOMAIN pods)
           /\ \A k \in DOMAIN pods : TotalUw[k] \in Nat
<1>1. IsFiniteSet(Slot)
  <2>1. IsFiniteSet({"keck"}) /\ IsFiniteSet({"kepler"})
    BY FS_Singleton, Zenon
  <2>2. Slot = {"keck"} \cup {"kepler"}
    BY Zenon DEF Slot
  <2> QED
    BY <2>1, <2>2, FS_Union, Zenon
<1>2. IsFiniteSet(PodKey)
  BY <1>1, UidAssumption, FS_Product, Zenon DEF PodKey
<1>3. DOMAIN pods \in SUBSET PodKey /\ pods \in [DOMAIN pods -> PodState]
  BY Zenon DEF TypeOK, IsMap
<1>4. IsFiniteSet(DOMAIN pods)
  BY <1>2, <1>3, FS_Subset, Zenon
<1>5. ASSUME NEW k \in DOMAIN pods PROVE TotalUw[k] \in Nat
  BY <1>3, PowerAssumption, Zenon DEF TotalUw, PodState
<1> QED
  BY <1>4, <1>5, Zenon

\* The power of some of the pods is a sum.
LEMMA TotalIsSum ==
    ASSUME TypeOK, NEW ks \in SUBSET DOMAIN pods
    PROVE  /\ TotalOf(ks) = SumFunctionOnSet(TotalUw, ks)
           /\ TotalOf(ks) \in Nat
           /\ IsFiniteSet(ks)
           /\ \A k \in ks : TotalUw[k] \in Nat
<1> DEFINE f == [k \in ks |-> pods[k].total_uw]
<1>1. IsFiniteSet(ks) /\ \A k \in ks : TotalUw[k] \in Nat
  BY PodsFinite, FS_Subset, Zenon
<1>2. TotalOf(ks) = SumFunctionOnSet(f, ks)
  BY Zenon DEF TotalOf, SumFunction
<1>3. \A k \in ks : f[k] = TotalUw[k]
  BY Zenon DEF TotalUw
<1>4. SumFunctionOnSet(f, ks) = SumFunctionOnSet(TotalUw, ks)
  <2> HIDE DEF f
  <2> QED
    BY <1>1, <1>3, SumCongruent, Zenon
<1>5. SumFunctionOnSet(TotalUw, ks) \in Nat
  BY <1>1, SumType, Zenon
<1> QED
  BY <1>1, <1>2, <1>4, <1>5, Zenon

\* The groups of any grouping that has a group for every pod add up to the
\* pods.
LEMMA GroupsAddUp ==
    ASSUME TypeOK, NEW ks \in SUBSET DOMAIN pods, NEW G, IsFiniteSet(G),
           NEW key, \A k \in ks : key[k] \in G
    PROVE  SumFunction([g \in G |-> TotalOf({k \in ks : key[k] = g})]) = TotalOf(ks)
<1> DEFINE h == [g \in G |-> TotalOf({k \in ks : key[k] = g})]
<1>1. IsFiniteSet(ks) /\ \A k \in ks : TotalUw[k] \in Int /\ key[k] \in G
  BY TotalIsSum
<1>2. ASSUME NEW g \in G
      PROVE  h[g] = SumFunctionOnSet(TotalUw, Fibre(ks, key, g))
  <2>1. Fibre(ks, key, g) \in SUBSET DOMAIN pods
    BY Zenon DEF Fibre
  <2>2. TotalOf(Fibre(ks, key, g)) = SumFunctionOnSet(TotalUw, Fibre(ks, key, g))
    BY <2>1, TotalIsSum, Zenon
  <2> QED
    BY <2>2, Zenon DEF Fibre
<1>3. SumFunctionOnSet(h, G) = SumFunctionOnSet(TotalUw, ks)
  <2>1. \A g \in G : h[g] = SumFunctionOnSet(TotalUw, Fibre(ks, key, g))
    BY <1>2, Zenon
  <2> HIDE DEF h
  <2> QED
    BY <1>1, <2>1, SumGroups
<1>4. SumFunction(h) = SumFunctionOnSet(h, G)
  BY Zenon DEF SumFunction
<1> QED
  BY <1>3, <1>4, TotalIsSum, Zenon

\* So does a table with a row for each key that occurs.
LEMMA RowsAddUp ==
    ASSUME TypeOK, NEW ks \in SUBSET DOMAIN pods, NEW key
    PROVE  SumFunction([g \in {key[k] : k \in ks} |-> TotalOf({k \in ks : key[k] = g})])
             = TotalOf(ks)
<1> DEFINE G == {key[k] : k \in ks}
<1>1. IsFiniteSet(ks)
  BY TotalIsSum, Zenon
<1>2. IsFiniteSet(G)
  <2> DEFINE F == [k \in ks |-> key[k]]
  <2>1. F \in Surjection(ks, G)
    BY Zenon DEF Surjection
  <2> QED
    BY <1>1, <2>1, FS_Surjection, Zenon
<1>3. \A k \in ks : key[k] \in G
  BY Zenon
<1> HIDE DEF G
<1>4. SumFunction([g \in G |-> TotalOf({k \in ks : key[k] = g})]) = TotalOf(ks)
  BY <1>2, <1>3, GroupsAddUp
<1> QED
  BY <1>4, Zenon DEF G

\* There are finitely many categories.
LEMMA CategoryFinite == IsFiniteSet(Category)
<1>1. /\ IsFiniteSet({"platform"}) /\ IsFiniteSet({"operator"}) /\ IsFiniteSet({"application"})
  BY FS_Singleton, Zenon
<1>2. Category = ({"platform"} \cup {"operator"}) \cup {"application"}
  BY Zenon DEF Category
<1> QED
  BY <1>1, <1>2, FS_Union, Zenon

\* The tables of each method add up to its pods, and the two methods to all of
\* them.
LEMMA ViewsAgreeFromInv == ViewInv => ViewsAgree
<1> SUFFICES ASSUME ViewInv PROVE ViewsAgree
  BY Zenon
<1>0. /\ TypeOK /\ category \in [Namespace -> Category]
      /\ \A k \in DOMAIN pods : /\ pods[k].namespace \in Namespace
                                /\ pods[k].metering_method \in Slot
  BY Zenon DEF ViewInv, Inv, TypeOK, IsMap, PodState
<1>1. \A s : PodsOfMethod(s) \in SUBSET DOMAIN pods
  BY Zenon DEF PodsOfMethod
<1>2. ASSUME NEW s \in Slot
      PROVE  SumFunction(category_power(s)) = TotalOf(PodsOfMethod(s))
  <2> DEFINE key == [k \in DOMAIN pods |-> category[pods[k].namespace]]
  <2>1. \A k \in PodsOfMethod(s) : key[k] \in Category
    BY <1>0, <1>1, Zenon
  <2>2. category_power(s)
          = [c \in Category |-> TotalOf({k \in PodsOfMethod(s) : key[k] = c})]
    <3>1. \A c \in Category : {k \in PodsOfMethod(s) : category[pods[k].namespace] = c}
                                = {k \in PodsOfMethod(s) : key[k] = c}
      BY <1>1, Zenon
    <3> QED
      BY <3>1, Zenon DEF category_power
  <2> HIDE DEF key
  <2>3. SumFunction([c \in Category |-> TotalOf({k \in PodsOfMethod(s) : key[k] = c})])
          = TotalOf(PodsOfMethod(s))
    BY <1>0, <1>1, <2>1, CategoryFinite, GroupsAddUp
  <2> QED
    BY <2>2, <2>3, Zenon
<1>3. ASSUME NEW s \in Slot
      PROVE  SumFunction(namespace_power(s)) = TotalOf(PodsOfMethod(s))
  <2> DEFINE ks == PodsOfMethod(s)
             key == [k \in DOMAIN pods |-> pods[k].namespace]
  <2>1. namespace_power(s) = [g \in {key[k] : k \in ks} |-> TotalOf({k \in ks : key[k] = g})]
    <3>1. {pods[k].namespace : k \in ks} = {key[k] : k \in ks}
      BY <1>1, Zenon
    <3>2. \A g : pods_in_namespace(g, s) = {k \in ks : key[k] = g}
      BY <1>1, Zenon DEF pods_in_namespace
    <3> QED
      BY <3>1, <3>2, Zenon DEF namespace_power
  <2>2. ks \in SUBSET DOMAIN pods
    BY <1>1, Zenon
  <2> HIDE DEF key, ks
  <2>3. SumFunction([g \in {key[k] : k \in ks} |-> TotalOf({k \in ks : key[k] = g})])
          = TotalOf(ks)
    BY <1>0, <2>2, RowsAddUp, Zenon
  <2> QED
    BY <2>1, <2>3, Zenon DEF ks
<1>4. TotalOf(PodsOfMethod("keck")) + TotalOf(PodsOfMethod("kepler")) = TotalOf(DOMAIN pods)
  <2>1. /\ PodsOfMethod("keck") \cup PodsOfMethod("kepler") = DOMAIN pods
        /\ PodsOfMethod("keck") \cap PodsOfMethod("kepler") = {}
    BY <1>0, Zenon DEF PodsOfMethod, MatchesMethod, Slot
  <2>2. \A k \in DOMAIN pods : TotalUw[k] \in Int
    BY <1>0, PodsFinite
  <2>3. /\ TotalOf(PodsOfMethod("keck")) = SumFunctionOnSet(TotalUw, PodsOfMethod("keck"))
        /\ TotalOf(PodsOfMethod("kepler")) = SumFunctionOnSet(TotalUw, PodsOfMethod("kepler"))
        /\ TotalOf(DOMAIN pods) = SumFunctionOnSet(TotalUw, DOMAIN pods)
        /\ IsFiniteSet(PodsOfMethod("keck")) /\ IsFiniteSet(PodsOfMethod("kepler"))
    BY <1>0, <1>1, TotalIsSum, Zenon
  <2>4. SumFunctionOnSet(TotalUw, PodsOfMethod("keck") \cup PodsOfMethod("kepler"))
          = SumFunctionOnSet(TotalUw, PodsOfMethod("keck"))
            + SumFunctionOnSet(TotalUw, PodsOfMethod("kepler"))
    BY <2>1, <2>2, <2>3, SumUnion, Zenon
  <2> QED
    BY <2>1, <2>3, <2>4, Zenon
<1> QED
  BY <1>2, <1>3, <1>4, Zenon DEF ViewsAgree

\* The pods a grouped query counts.
Shown(group_by, cats) ==
    {k \in DOMAIN pods : category[pods[k].namespace] \in cats /\ ~Skips(group_by, k)}

\* The groups of a query add up to the pods it counts.
LEMMA GroupTotal ==
    ASSUME TypeOK, NEW cats, NEW group_by
    PROVE  SumFunction(group_power(group_by, cats)) = TotalOf(Shown(group_by, cats))
<1> DEFINE key == Keys[group_by]
           ks == Shown(group_by, cats)
<1>1. ks \in SUBSET DOMAIN pods
  BY Zenon DEF Shown
<1>2. group_power(group_by, cats)
        = [g \in {key[k] : k \in ks} |-> TotalOf({k \in ks : key[k] = g})]
  BY Zenon DEF group_power, Shown
<1> HIDE DEF key, ks
<1>3. SumFunction([g \in {key[k] : k \in ks} |-> TotalOf({k \in ks : key[k] = g})])
        = TotalOf(ks)
  BY <1>1, RowsAddUp, Zenon
<1> QED
  BY <1>2, <1>3, Zenon DEF ks

\* No grouping loses a pod, the one by label aside, and none counts one twice.
LEMMA GroupsCompleteFromInv == ViewInv => GroupsComplete
<1> SUFFICES ASSUME ViewInv PROVE GroupsComplete
  BY Zenon
<1>0. /\ TypeOK /\ category \in [Namespace -> Category]
      /\ \A k \in DOMAIN pods : pods[k].namespace \in Namespace
  BY Zenon DEF ViewInv, Inv, TypeOK, IsMap, PodState
<1>1. \A cats : /\ Shown("application", cats) = Shown("namespace", cats)
                /\ Shown("workload", cats) = Shown("namespace", cats)
                /\ Shown("label", cats) \in SUBSET Shown("namespace", cats)
                /\ Shown("namespace", cats) \in SUBSET DOMAIN pods
  BY Zenon DEF Shown, Skips
<1>2. ASSUME NEW cats
      PROVE  TotalOf(Shown("label", cats)) <= TotalOf(Shown("namespace", cats))
  <2> DEFINE all == Shown("namespace", cats)
             some == Shown("label", cats)
  <2>1. all \in SUBSET DOMAIN pods /\ some \in SUBSET DOMAIN pods /\ some \in SUBSET all
    BY <1>1, Zenon
  <2> HIDE DEF all, some
  <2>2. /\ TotalOf(all) = SumFunctionOnSet(TotalUw, all)
        /\ TotalOf(some) = SumFunctionOnSet(TotalUw, some)
        /\ IsFiniteSet(all) /\ \A k \in all : TotalUw[k] \in Nat
    BY <1>0, <2>1, TotalIsSum, Zenon
  <2>3. SumFunctionOnSet(TotalUw, some) <= SumFunctionOnSet(TotalUw, all)
    BY <2>1, <2>2, SumSubset, Zenon
  <2> QED
    BY <2>2, <2>3, Zenon DEF all, some
<1>3. Shown("namespace", Category) = DOMAIN pods
  BY <1>0, Zenon DEF Shown, Skips
<1>4. \A group_by, cats :
        SumFunction(group_power(group_by, cats)) = TotalOf(Shown(group_by, cats))
  BY <1>0, GroupTotal, Zenon
<1> QED
  BY <1>1, <1>2, <1>3, <1>4 DEF GroupsComplete

\* The aggregator's invariant holds while categories change between the
\* ingests.
THEOREM ViewInvHolds == ViewSpec => []ViewInv
<1>1. ViewInit => ViewInv
  BY InitInv, Zenon DEF ViewInit, ViewInv, Category
<1>2. ViewInv /\ [ViewNext]_viewVars => ViewInv'
  BY NextInv, Zenon DEF ViewInv, ViewNext, viewVars, Reclassify
<1> QED
  BY <1>1, <1>2, PTL DEF ViewSpec

\* For any nodes, pods, reports and categories, the tiles, tables and groupings
\* of the controller's API (keck-controller/src/api/mod.rs) add up to the power
\* of the stored pods: no pod is left out, and none counted twice.
THEOREM PowerAddsUpHolds == ViewSpec => []PowerAddsUp
<1>1. ViewInv => PowerAddsUp
  BY ViewsAgreeFromInv, GroupsCompleteFromInv, Zenon DEF PowerAddsUp
<1> QED
  BY <1>1, ViewInvHolds, PTL

-----------------------------------------------------------------------------
(* Classification of namespaces                                            *)

\* The operator a namespace can be assigned to, or none.
Owners == ClusterOperator \cup {NoOwner}

\* One step of the loop over the operators.
NextOwner(ns, owner, co) ==
    IF ns \in related[co] \ Shared /\ BetterOwner(ns, owner, co) THEN co ELSE owner

\* A list of the operators has each of them.
LEMMA ListsCover ==
    ASSUME NEW items \in Lists
    PROVE  /\ Cardinality(ClusterOperator) \in Nat
           /\ items \in [1 .. Cardinality(ClusterOperator) -> ClusterOperator]
           /\ \A co \in ClusterOperator :
                \E i \in 1 .. Cardinality(ClusterOperator) : items[i] = co
<1>1. Cardinality(ClusterOperator) \in Nat
  BY ClassificationAssumption, FS_CardinalityType, Zenon
<1> QED
  BY <1>1, Zenon DEF Lists, Bijection, Injection, Surjection

\* The owner found is the end of a run of that loop.
LEMMA DiscoverySteps ==
    ASSUME NEW items \in Lists, NEW ns \in ClusterNs
    PROVE  LET n == Cardinality(ClusterOperator) IN
           \E own \in [0 .. n -> Owners] :
             /\ own[0] = NoOwner
             /\ \A k \in 1 .. n : own[k] = NextOwner(ns, own[k - 1], items[k])
             /\ discover_co_namespaces(items)[ns] = own[n]
<1> DEFINE n == Cardinality(ClusterOperator)
           D == 1 .. n
           A == Owners
           step == [p \in A \X D |-> NextOwner(ns, p[1], items[p[2]])]
           Is(h) == h = [s \in SUBSET D |-> IF s = {} THEN NoOwner
                                            ELSE NextOwner(ns, h[s \ {Top(s)}], items[Top(s)])]
           all == CHOOSE h : Is(h)
<1>1. n \in Nat /\ DOMAIN items = D /\ \A i \in D : items[i] \in ClusterOperator
  BY ListsCover, Zenon
<1> HIDE DEF n
<1>2. discover_co_namespaces(items)[ns] = all[D]
  BY <1>1, Zenon DEF discover_co_namespaces, MapThenFoldSet, NextOwner, Max, Top
<1>3. NoOwner \in A /\ step \in [A \X D -> A]
  <2>1. ASSUME NEW p \in A \X D PROVE NextOwner(ns, p[1], items[p[2]]) \in A
    BY <1>1, Zenon DEF NextOwner, Owners
  <2> QED
    BY <2>1, Zenon DEF Owners
<1>4. \A a \in A, k \in D : step[<<a, k>>] = NextOwner(ns, a, items[k])
  <2> HIDE DEF A, D
  <2> QED
    BY Zenon
<1> HIDE DEF step, A
<1>5. \E h : Is(h)
  <2>1. PICK h \in [SUBSET D -> A] :
          /\ IsScan(h, step, NoOwner, n)
          /\ \A s \in SUBSET D : s # {} => <<h[s \ {Top(s)}], Top(s)>> \in A \X D
    BY <1>1, <1>3, ScanExists, Zenon
  <2>2. \A s \in SUBSET D : s # {} =>
          step[<<h[s \ {Top(s)}], Top(s)>>] = NextOwner(ns, h[s \ {Top(s)}], items[Top(s)])
    BY <1>4, <2>1, Zenon
  <2>3. Is(h)
    BY <2>1, <2>2, Zenon DEF IsScan
  <2> QED
    BY <2>3, Zenon
<1>6. Is(all)
  <2> HIDE DEF Is
  <2> QED
    BY <1>5, Zenon
<1> HIDE DEF all
<1>7. all[{}] = NoOwner /\ \A s \in SUBSET D : s # {} =>
        all[s] = NextOwner(ns, all[s \ {Top(s)}], items[Top(s)])
  BY <1>6, Zenon
<1>8. ASSUME NEW s \in SUBSET D, s # {}, all[s \ {Top(s)}] \in A
      PROVE  all[s] = step[<<all[s \ {Top(s)}], Top(s)>>]
  <2>1. Top(s) \in D
    BY <1>1, <1>8, TopOfPrefix, Zenon
  <2>2. step[<<all[s \ {Top(s)}], Top(s)>>] = NextOwner(ns, all[s \ {Top(s)}], items[Top(s)])
    BY <1>4, <1>8, <2>1, Zenon
  <2> QED
    BY <1>7, <1>8, <2>2, Zenon
<1>9. PICK t \in [0 .. n -> A] : IsRun(t, step, NoOwner, n) /\ t[n] = all[D]
  <2>1. ScansFrom(all, step, NoOwner, n, A)
    BY <1>7, <1>8, Zenon DEF ScansFrom
  <2>2. n \in Nat
    BY <1>1, Zenon
  <2>3. Runs(step, NoOwner, n, A, all[1 .. n])
    BY <1>3, <2>1, <2>2, ScanRuns, Zenon
  <2> QED
    BY <2>3, Zenon DEF Runs
<1>10. \A k \in 1 .. n : t[k - 1] \in A
  BY <1>1, <1>9
<1>11. \A k \in 1 .. n : t[k] = NextOwner(ns, t[k - 1], items[k])
  BY <1>4, <1>9, <1>10, Zenon DEF IsRun
<1> QED
  BY <1>2, <1>9, <1>11, Zenon DEF IsRun, n, A

\* The owner found is related to the namespace; one is found when there is one;
\* and the only one whose name fits is preferred.
LEMMA NamedOwnerFound ==
    ASSUME NEW items \in Lists, NEW ns \in ClusterNs
    PROVE  LET owner == discover_co_namespaces(items)[ns] IN
           /\ owner \in TrueOwners(ns) \cup {NoOwner}
           /\ owner = NoOwner <=> TrueOwners(ns) = {}
           /\ \A co \in ClusterOperator :
                {c \in TrueOwners(ns) : <<ns, c>> \in NameFits} = {co} => owner = co
<1> DEFINE n == Cardinality(ClusterOperator)
<1>1. /\ n \in Nat /\ items \in [1 .. n -> ClusterOperator]
      /\ \A co \in ClusterOperator : \E i \in 1 .. n : items[i] = co
  BY ListsCover, Zenon
<1>2. PICK own \in [0 .. n -> Owners] :
             /\ own[0] = NoOwner
             /\ \A k \in 1 .. n : own[k] = NextOwner(ns, own[k - 1], items[k])
             /\ discover_co_namespaces(items)[ns] = own[n]
  BY DiscoverySteps, Zenon
<1> HIDE DEF n
<1> DEFINE Seen(k) == {items[j] : j \in 1 .. k}
           Right(k) ==
             /\ own[k] \in TrueOwners(ns) \cup {NoOwner}
             /\ own[k] = NoOwner => TrueOwners(ns) \cap Seen(k) = {}
             /\ \A co \in ClusterOperator \cap Seen(k) :
                  {c \in TrueOwners(ns) : <<ns, c>> \in NameFits} = {co} => own[k] = co
           Good == {k \in 0 .. n : Right(k)}
<1>3. 0 \in Good
  <2>1. Seen(0) = {}
    OBVIOUS
  <2> QED
    BY <1>1, <1>2, <2>1
<1>4. ASSUME NEW k \in 1 .. n, k - 1 \in Good PROVE k \in Good
  <2>1. /\ Right(k - 1) /\ k \in 0 .. n /\ items[k] \in ClusterOperator
        /\ own[k] = NextOwner(ns, own[k - 1], items[k])
    BY <1>1, <1>2, <1>4
  <2>2. Seen(k) = Seen(k - 1) \cup {items[k]}
    BY <1>1
  <2>3. items[k] \in TrueOwners(ns) <=> ns \in related[items[k]] \ Shared
    BY <2>1, Zenon DEF TrueOwners
  <2>4. NoOwner \notin ClusterOperator /\ TrueOwners(ns) \subseteq ClusterOperator
    BY ClassificationAssumption, Zenon DEF TrueOwners
  <2> DEFINE Named == {c \in TrueOwners(ns) : <<ns, c>> \in NameFits}
  <2> HIDE DEF Seen
  <2>5. own[k] \in TrueOwners(ns) \cup {NoOwner}
    BY <2>1, <2>3, Zenon DEF NextOwner
  <2>6. own[k] = NoOwner => TrueOwners(ns) \cap Seen(k) = {}
    BY <2>1, <2>2, <2>3, <2>4, Zenon DEF NextOwner, BetterOwner
  <2>7. ASSUME NEW co \in ClusterOperator \cap Seen(k), Named = {co}
        PROVE  own[k] = co
    <3>1. /\ co \in TrueOwners(ns) /\ <<ns, co>> \in NameFits
          /\ \A c \in TrueOwners(ns) : <<ns, c>> \in NameFits => c = co
      BY <2>7, Zenon
    <3>2. CASE items[k] = co
      BY <2>1, <2>3, <3>1, <3>2, Zenon DEF NextOwner, BetterOwner
    <3>3. CASE items[k] # co
      <4>1. co \in Seen(k - 1)
        BY <2>2, <3>3, Zenon
      <4>2. own[k - 1] = co
        BY <2>1, <2>7, <4>1, Zenon
      <4> QED
        BY <2>1, <2>3, <2>4, <3>1, <3>3, <4>2, Zenon DEF NextOwner, BetterOwner
    <3> QED
      BY <3>2, <3>3, Zenon
  <2> QED
    BY <2>1, <2>5, <2>6, <2>7, Zenon
<1>5. n \in Good
  <2> HIDE DEF Good
  <2>1. \A k \in 0 .. n : k \in Good
    BY <1>1, <1>3, <1>4, NaturalInduction, Zenon
  <2> QED
    BY <1>1, <2>1
<1>6. \A co \in ClusterOperator : co \in Seen(n)
  BY <1>1, Zenon
<1>7. Right(n)
  BY <1>5, Zenon
<1>8. TrueOwners(ns) \subseteq ClusterOperator /\ NoOwner \notin ClusterOperator
  BY ClassificationAssumption, Zenon DEF TrueOwners
<1> HIDE DEF Seen
<1> QED
  BY <1>2, <1>6, <1>7, <1>8, Zenon

\* For any operators, namespaces and names, and whatever order the API lists
\* the operators in, discover_co_namespaces
\* (keck-controller/src/application.rs) assigns a namespace that names exactly
\* one of its related operators to that one.
THEOREM NamedOwnerWinsHolds == ClsInit /\ [][ClsNext]_clsVars => []NamedOwnerWins
<1>1. NamedOwnerWins
  BY NamedOwnerFound, Zenon DEF NamedOwnerWins
<1> QED
  BY <1>1, PTL

=============================================================================
