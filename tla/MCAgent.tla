------------------------------ MODULE MCAgent -------------------------------
(* The parts of the agent side by side: one of them runs, the others stay  *)
(* as they start.  They share no state.                                    *)
EXTENDS AgentSources, Agent, Attribution, LocalStore, TLC

VARIABLE part    \* the part that runs in this behaviour

(* Power sources *)

Nothing == [power |-> FALSE, watts |-> FALSE, defs |-> {}, sensors |-> {}, reports |-> {}, psus |-> <<>>]

Zone(z, n, m) == [zone |-> z, socket |-> n, energy |-> TRUE, max |-> m]

\* Two sockets listed out of order, one with an unknown range, and a shunt.
Server ==
    [powercap |-> <<Zone("package", 1, 3), Zone("core", 0, 3), Zone("package", 0, 0)>>,
     hwmon |-> <<[component |-> "Cpu", enabled |-> FALSE, counter |-> FALSE, max |-> 0],
                 [component |-> "Cpu", enabled |-> TRUE, counter |-> FALSE, max |-> 0]>>,
     dcgm |-> <<>>, bmc |-> Nothing]

\* A memory counter, two GPUs (one of them listed twice) and a platform reading.
GpuServer ==
    [powercap |-> <<Zone("dram", 0, 3)>>, hwmon |-> <<>>,
     dcgm |-> <<[uuid |-> "a"], [uuid |-> "b"], [uuid |-> "a"]>>,
     bmc |-> [Nothing EXCEPT !.power = TRUE, !.watts = TRUE]]

Bmcs ==
    {[power |-> TRUE, watts |-> w, defs |-> d, sensors |-> s, reports |-> r, psus |-> <<{"Output"}, {"Output"}>>] :
        w \in BOOLEAN, d \in SUBSET {"TotalCPUPower", "TotalPciePower"},
        s \in SUBSET {"TotalCPUPower", "SystemBoardCPUUsage", Board, PsuSensor[1].Output, PsuSensor[2].Output},
        r \in SUBSET {"TotalCPUPower", "TotalPciePower"}}

\* A shunt that counts energy, whose range the agent reads with every reading.
Shunt == [powercap |-> <<>>, hwmon |-> <<[component |-> "Cpu", enabled |-> TRUE, counter |-> TRUE, max |-> 4]>>,
          dcgm |-> <<>>, bmc |-> Nothing]

MCHardware ==
    {Server, GpuServer, Shunt} \cup {[powercap |-> <<>>, hwmon |-> <<>>, dcgm |-> <<>>, bmc |-> b] : b \in Bmcs}

(* The process and its caches: two pods of a ReplicaSet and a bare pod *)

MCOwner == ("a" :> "rs") @@ ("b" :> "rs") @@ ("c" :> "none")
MCTop == "rs" :> "deploy"

(* Attribution: two sockets of two cores, two processes in containers and one outside *)

Places == {<<0, 1>>, <<1, 1>>, <<2, 1>>, <<1, 2>>, <<3, 2>>, <<2, 3>>}
MCTimes == UNION {[P -> {1, 3}] : P \in {P \in SUBSET Places : Cardinality(P) <= 3}}
MCFreq == {EmptyMap, (1 :> 2), (0 :> 1 @@ 1 :> 2 @@ 2 :> 3)}
MCCounters == {EmptyMap,
    (1 :> [instructions |-> 8, cycles |-> 4, misses |-> 2] @@ 3 :> [instructions |-> 1, cycles |-> 0, misses |-> 5]),
    (2 :> [instructions |-> 0, cycles |-> 3, misses |-> 3])}
MCObservations == [time : MCTimes, freq : MCFreq, counters : MCCounters]
MCEnergies == {[socket |-> (0 :> 7 @@ 1 :> 10), dram |-> 5, platform |-> {30}],
               [socket |-> (0 :> 0 @@ 1 :> 9), dram |-> 4, platform |-> {}]}
MCContainer == (1 :> [container |-> "c1", pod |-> "p", namespace |-> "ns"] @@
                2 :> [container |-> "c2", pod |-> "p", namespace |-> "ns"])

(* The store *)

MCNamespace == ("p" :> "n" @@ "q" :> "m")
MCPodLists == {<<>>, <<"p">>, <<"q", "p">>, <<"p", "q", "p">>}

MCInit ==
    /\ part \in {"sources", "process", "engine", "store"}
    /\ SourcesInit /\ (part # "sources" => hw = Server)
    /\ AgentInit /\ (part # "process" => ~api /\ ~controller /\ placed = {})
    /\ AttrInit /\ (part # "engine" => /\ energy = [socket |-> (0 :> 7 @@ 1 :> 10), dram |-> 5, platform |-> {30}]
                                       /\ obs = [time |-> EmptyMap, freq |-> EmptyMap, counters |-> EmptyMap])
    /\ StoreInit

MCNext ==
    /\ UNCHANGED part
    /\ \/ part = "sources" /\ SourcesNext /\ UNCHANGED <<agentVars, attrVars, storeVars>>
       \/ part = "process" /\ AgentNext /\ UNCHANGED <<sourceVars, attrVars, storeVars>>
       \/ part = "engine" /\ AttrNext /\ UNCHANGED <<sourceVars, agentVars, storeVars>>
       \/ part = "store" /\ StoreNext /\ UNCHANGED <<sourceVars, agentVars, attrVars>>

\* The agent's task runs and its calls return; the kubelet restarts a container
\* that exited.
MCSpec ==
    /\ MCInit /\ [][MCNext]_<<part, sourceVars, agentVars, attrVars, storeVars>>
    /\ WF_agentVars(part = "process" /\ Main)
    /\ WF_agentVars(part = "process" /\ pc = "exited" /\ Restart)
=============================================================================
