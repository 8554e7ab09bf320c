---------------------------- MODULE Attribution -----------------------------
(***************************************************************************)
(* The attribution engine of the agent: socket energy to cores, core       *)
(* energy to processes (attribution/engine.rs, model.rs), processes to     *)
(* containers, pods and namespaces (k8s/mod.rs).  The input of an interval *)
(* is enumerated by Init; Attribute and Enrich are the two calls that      *)
(* process it.                                                             *)
(*                                                                         *)
(* Energies are natural numbers.  A product of an energy with a ratio is   *)
(* rounded down, as the conversion to u64 does.  GPU energy, which only    *)
(* enters the component sum, is left out.                                  *)
(***************************************************************************)
EXTENDS Integers, FiniteSets, FiniteSetsExt, Maps

CONSTANTS
    NumCores, NumSockets,
    Interval,       \* seconds the input covers
    Observations,   \* what the interval saw (see IsObservation)
    Energies,       \* what the sensors measured (see IsEnergy)
    Container       \* pid -> [container, pod, namespace], for PIDs in containers

\* time: <<core, pid>> -> ns; freq: core -> average frequency.
IsObservation(o) ==
    /\ IsFiniteSet(DOMAIN o.time) /\ o.time \in [DOMAIN o.time -> Nat]
    /\ \A k \in DOMAIN o.time : k = <<k[1], k[2]>>
    /\ o.freq \in [DOMAIN o.freq -> Nat]
    /\ o.counters \in [DOMAIN o.counters -> [instructions : Nat, cycles : Nat, misses : Nat]]

\* platform: at most one number.
IsEnergy(e) ==
    /\ e.socket \in [0 .. NumSockets - 1 -> Nat] /\ e.dram \in Nat
    /\ e.platform \subseteq Nat

ASSUME AttributionAssumption ==
    /\ NumSockets \in Nat \ {0} /\ NumCores \in Nat /\ NumCores >= NumSockets
    /\ Interval \in Nat
    /\ \A o \in Observations : IsObservation(o)
    /\ \A e \in Energies : IsEnergy(e)

VARIABLES
    obs, energy, turn,
    core_energies, method,
    processes,        \* pid -> [cpu, memory]
    node,             \* [attributed, platform, component_sum, unaccounted, idle]
    uncontained, containers, pods, namespaces   \* after enrich: id -> [cpu, memory]

attrVars == <<obs, energy, turn, core_energies, method, processes, node,
              uncontained, containers, pods, namespaces>>

AttrInit ==
    /\ obs \in Observations /\ energy \in Energies /\ turn = "attribute"
    /\ core_energies = EmptyMap /\ method = "CpuTimeRatio" /\ processes = EmptyMap
    /\ node = [attributed |-> 0, platform |-> {}, component_sum |-> 0, unaccounted |-> 0, idle |-> 0]
    /\ uncontained = EmptyMap /\ containers = EmptyMap /\ pods = EmptyMap /\ namespaces = EmptyMap

Sum(f, S) == SumFunctionOnSet(f, S)
All(f) == Sum(f, DOMAIN f)
energy_to_power(e) == IF Interval = 0 THEN 0 ELSE e \div Interval
Product(f, S) == MapThenFoldSet(LAMBDA x, y : x * y, 1, LAMBDA k : f[k],
                                LAMBDA T : CHOOSE k \in T : TRUE, S)

-----------------------------------------------------------------------------
(* Sockets to cores                                                        *)

Core == 0 .. NumCores - 1
cores_per_socket == NumCores \div NumSockets
CoresOf(s) == s * cores_per_socket .. (s + 1) * cores_per_socket - 1

square(x) == x * x

pid_times(core) == {k \in DOMAIN obs.time : k[1] = core}
core_weight(core) == Sum(obs.time, pid_times(core)) * square(Get(obs.freq, core, 1))

\* By frequency^2 x busy time, evenly when nothing ran on the socket.  Cores
\* beyond NumSockets x cores_per_socket belong to no socket.
split_socket_to_cores ==
    [c \in 0 .. NumSockets * cores_per_socket - 1 |->
        LET s == c \div cores_per_socket
            total == All([d \in CoresOf(s) |-> core_weight(d)])
        IN  IF total = 0 THEN energy.socket[s] \div cores_per_socket
            ELSE (energy.socket[s] * core_weight(c)) \div total]

-----------------------------------------------------------------------------
(* Cores to processes                                                      *)

select_model(has_freq, has_counters) ==
    CASE has_freq /\ has_counters -> "FullModel"
      [] has_freq /\ ~has_counters -> "FrequencyWeighted"
      [] OTHER -> "CpuTimeRatio"

\* The core's counter, split by time.
counter_of(k, field) ==
    LET all == Sum(obs.time, pid_times(k[1])) IN
    IF k[1] \in DOMAIN obs.counters /\ all > 0
    THEN (obs.counters[k[1]][field] * obs.time[k]) \div all ELSE 0

\* 1 + 0.3 IPC + 1.5 misses/instructions as the fraction scaled / scale.
scale(k) == 10 * Max({1, counter_of(k, "cycles")}) * Max({1, counter_of(k, "instructions")})
scaled(k) ==
    LET i == counter_of(k, "instructions")  c == counter_of(k, "cycles") IN
    scale(k) + (IF c > 0 THEN 3 * i * Max({1, i}) ELSE 0)
             + (IF i > 0 THEN 15 * counter_of(k, "misses") * Max({1, c}) ELSE 0)

\* Weight of a process on a core; the fractions of one core over one denominator.
compute_weight(m, k) ==
    LET freq_factor == square(Get(obs.freq, k[1], 1)) IN
    CASE m = "FullModel" ->
            obs.time[k] * freq_factor * scaled(k)
            * Product([j \in pid_times(k[1]) |-> scale(j)], pid_times(k[1]) \ {k})
      [] m = "FrequencyWeighted" -> obs.time[k] * freq_factor
      [] m = "CpuTimeRatio" -> obs.time[k]

\* Mutant: a process that ran alone on some core gets the energy of all cores.
core_part_all(m, k) ==
    LET total == All([j \in pid_times(k[1]) |-> compute_weight(m, j)]) IN
    IF total = 0 THEN 0 ELSE (All(split_socket_to_cores) * compute_weight(m, k)) \div total

core_part(m, k) ==
    LET total == All([j \in pid_times(k[1]) |-> compute_weight(m, j)]) IN
    IF total = 0 THEN 0
    ELSE (Get(split_socket_to_cores, k[1], 0) * compute_weight(m, k)) \div total

\* Processes with an entry: those on a core that has energy and some weight.
Charged(m) ==
    {k \in DOMAIN obs.time : /\ k[1] \in Core /\ Get(split_socket_to_cores, k[1], 0) > 0
                             /\ \E j \in pid_times(k[1]) : compute_weight(m, j) > 0}

pid_misses(p) ==
    All([k \in {k \in DOMAIN obs.time : k[2] = p} |-> counter_of(k, "misses")])

\* By cache misses over all processes that ran; without misses by CPU energy.
attribute_memory(cpu, p) ==
    LET ran == {k[2] : k \in DOMAIN obs.time}
        misses == All([q \in ran |-> pid_misses(q)])
    IN  CASE misses > 0 -> (energy.dram * pid_misses(p)) \div misses
          [] misses = 0 /\ All(cpu) > 0 -> (energy.dram * cpu[p]) \div All(cpu)
          [] OTHER -> 0

Attribute ==
    LET m == select_model(DOMAIN obs.freq # {}, DOMAIN obs.counters # {})
        pids == {k[2] : k \in Charged(m)}
        cpu == [p \in pids |-> All([k \in {k \in Charged(m) : k[2] = p} |-> core_part(m, k)])]
    IN  /\ turn = "attribute" /\ turn' = "enrich"
        /\ method' = m /\ core_energies' = split_socket_to_cores
        /\ processes' = [p \in pids |->
                [cpu |-> energy_to_power(cpu[p]), memory |-> energy_to_power(attribute_memory(cpu, p))]]
        /\ LET cores == All(core_energies')
               idle == Max({0, cores - All(cpu)})
               component_sum == cores + energy.dram
           IN  node' = [attributed |-> energy_to_power(All(cpu) + idle),
                        platform |-> {energy_to_power(e) : e \in energy.platform},
                        component_sum |-> energy_to_power(component_sum),
                        unaccounted |-> IF energy.platform = {} THEN 0
                                        ELSE Max(energy.platform) - component_sum,
                        idle |-> energy_to_power(idle)]
        /\ uncontained' = EmptyMap /\ containers' = EmptyMap /\ pods' = EmptyMap /\ namespaces' = EmptyMap
        /\ UNCHANGED <<obs, energy>>

-----------------------------------------------------------------------------
(* Processes to containers, pods and namespaces                            *)

aggregate_power(items, S) ==
    [cpu |-> All([k \in S |-> items[k].cpu]), memory |-> All([k \in S |-> items[k].memory])]

\* Mutant: only the first process of a container counts.
RegroupFirst(items, group) ==
    LET keys == DOMAIN items \cap DOMAIN group IN
    [g \in {group[k] : k \in keys} |->
        aggregate_power(items, {CHOOSE k \in keys : group[k] = g})]

\* Sum the items of each group; items without a group are left out.
Regroup(items, group) ==
    LET keys == DOMAIN items \cap DOMAIN group IN
    [g \in {group[k] : k \in keys} |-> aggregate_power(items, {k \in keys : group[k] = g})]

\* The first process of a container, and the first container of a pod, say what
\* the group belongs to.
PodOf == [c \in {Container[p].container : p \in DOMAIN Container} |->
            Container[CHOOSE p \in DOMAIN Container : Container[p].container = c].pod]
NamespaceOf == [u \in {Container[p].pod : p \in DOMAIN Container} |->
                  Container[CHOOSE p \in DOMAIN Container : Container[p].pod = u].namespace]

enrich ==
    /\ turn = "enrich" /\ turn' = "attribute"
    /\ uncontained' = Restrict(processes, DOMAIN processes \ DOMAIN Container)
    /\ containers' = Regroup(processes, [p \in DOMAIN Container |-> Container[p].container])
    /\ pods' = Regroup(containers', PodOf)
    /\ namespaces' = Regroup(pods', NamespaceOf)
    /\ processes' = uncontained'
    /\ UNCHANGED <<obs, energy, core_energies, method, node>>

AttrNext == Attribute \/ enrich

-----------------------------------------------------------------------------
(* Properties                                                              *)

(* split_socket_to_cores neither creates socket energy nor loses more than *)
(* the rounding of one microjoule per core, busy socket or idle.           *)
CoresWithinSocket ==
    turn = "enrich" =>
        \A s \in 0 .. NumSockets - 1 :
            LET cores == Sum(core_energies, CoresOf(s)) IN
            cores <= energy.socket[s] /\ energy.socket[s] < cores + cores_per_socket

(* In the engine, which gets the energy of every socket, a process that    *)
(* ran on the cores of one socket only is never charged more than that     *)
(* socket used, whichever model is selected and whoever shared its cores.  *)
OneSocketProcess ==
    turn = "enrich" =>
        \A p \in DOMAIN processes, s \in 0 .. NumSockets - 1 :
            (\A k \in DOMAIN obs.time : k[2] = p => k[1] \in CoresOf(s))
                => processes[p].cpu * Interval <= energy.socket[s]

(* The processes together are charged at most what the cores and the DRAM  *)
(* used; the idle power is the rest of the cores, so the attributed total  *)
(* is the cores' energy.                                                   *)
ProcessesWithinMeasured ==
    turn = "enrich" =>
        LET all == aggregate_power(processes, DOMAIN processes) IN
        /\ all.cpu + node.idle <= energy_to_power(All(core_energies))
        /\ node.attributed = energy_to_power(All(core_energies))
        /\ all.memory <= energy_to_power(energy.dram)

(* The engine charges cores and processes within what was measured, at     *)
(* every level and with every model.                                       *)
EngineWithinMeasured == CoresWithinSocket /\ OneSocketProcess /\ ProcessesWithinMeasured

(* "Each level sums to the level above": enrich drops no process and counts *)
(* none twice on the way to containers, pods and namespaces.               *)
LevelsAddUp ==
    [][enrich =>
        LET before == aggregate_power(processes, DOMAIN processes)
            own == aggregate_power(uncontained', DOMAIN uncontained')
        IN  \A level \in {containers', pods', namespaces'} :
                LET all == aggregate_power(level, DOMAIN level) IN
                before = [cpu |-> own.cpu + all.cpu, memory |-> own.memory + all.memory]]_attrVars

=============================================================================
