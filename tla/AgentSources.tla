---------------------------- MODULE AgentSources ----------------------------
(***************************************************************************)
(* Power sources of a node: discovery at start (hardware/), then one       *)
(* reading of every source per interval, the energy deltas, and the best   *)
(* reading per component (keck-agent/src/main.rs).  Energy is in counter   *)
(* units.                                                                  *)
(***************************************************************************)
EXTENDS Redfish, FiniteSetsExt, Maps, TLC

CONSTANTS
    Hardware,   \* node hardware: [powercap, hwmon, dcgm : Seq(...), bmc : a BMC]
    MaxRate,    \* bound: energy a counter gains in an interval
    MaxSince,   \* bound: energy a counter gains between two successful reads
    PollInterval, \* the configured interval, in the unit of time of a power
    Watts       \* powers a sensor can show

VARIABLES
    hw, bmc,        \* the hardware at discovery, and the BMC as it is now
    sources,        \* discovered sources
    counter,        \* value of every energy counter
    since,          \* true energy since the last successful read
    prev_readings,  \* source -> last value read
    truth,          \* true energy behind the last delta (0 before a baseline)
    ranged,         \* counters whose range the last reading knew
    readings,       \* all_source_readings: [available, power] per source
    stage           \* "start", then "sleep" and "collect" alternate

sourceVars == <<hw, bmc, sources, counter, since, prev_readings, truth, ranged, readings, stage>>

-----------------------------------------------------------------------------
(* Discovery                                                               *)

Source(component, type, isCounter, max) ==
    [component |-> component, reading_type |-> type, counter |-> isCounter, max |-> max,
     method |-> "sysfs", metric |-> "", output |-> FALSE]

Mapped(s, Op(_)) == [i \in DOMAIN s |-> Op(s[i])]

\* Package zones (intel-rapl:N) with an energy counter, sorted by socket.
rapl_discover(zones) ==
    Mapped(SortSeq(SelectSeq(zones, LAMBDA z : z.zone = "package" /\ z.energy),
                   LAMBDA y, z : y.socket < z.socket),
           LAMBDA z : Source("Cpu", "Estimated", TRUE, z.max))

\* Sub-zones named dram, in directory order.
discover_dram(zones) ==
    Mapped(SelectSeq(zones, LAMBDA z : z.zone = "dram" /\ z.energy),
           LAMBDA z : Source("Memory", "Estimated", TRUE, z.max))

\* Sensors that are not disabled; classify_component gives the component.
hwmon_discover(sensors) ==
    Mapped(SelectSeq(sensors, LAMBDA s : s.enabled),
           LAMBDA s : Source(s.component, "Measured", s.counter, s.max))

\* One source per GPU UUID of this node in the exporter's answer.
gpu_discover(lines) ==
    LET first == {i \in DOMAIN lines : \A j \in 1 .. i - 1 : lines[j].uuid # lines[i].uuid}
    IN  [i \in 1 .. Cardinality(first) |-> Source("Gpu", "Measured", FALSE, 0)]

discover_sources(h) ==
    rapl_discover(h.powercap) \o discover_dram(h.powercap) \o hwmon_discover(h.hwmon)
        \o gpu_discover(h.dcgm) \o platform_discover(h.bmc)

Counters == {i \in DOMAIN sources : sources[i].counter}
Modulus(s) == IF s.max > 0 THEN s.max + 1 ELSE 4
Unread == [available |-> FALSE, power |-> 0]

Component == {"Cpu", "Memory", "Gpu", "Nic", "Storage", "Fan", "Platform"}

PowerSources ==
    [component : Component, reading_type : {"Measured", "Estimated", "Derived"}, counter : BOOLEAN,
     max : Nat, method : {"sysfs"} \cup ReadMethod, metric : {""} \cup MetricId, output : BOOLEAN]

\* Sources read from files of the node.
LocalSources == {s \in PowerSources : s.method = "sysfs"}

\* What the directory scans return are lists of such sources: ranges are parsed
\* as u64, and 0 stands for an unknown one.  A BMC has at most two PSUs here.
ASSUME SourcesAssumption ==
    /\ MaxRate \in Nat /\ Watts \subseteq Nat /\ PollInterval \in Nat
    /\ \A h \in Hardware :
          /\ rapl_discover(h.powercap) \in Seq(LocalSources)
          /\ discover_dram(h.powercap) \in Seq(LocalSources)
          /\ hwmon_discover(h.hwmon) \in Seq(LocalSources)
          /\ IsFiniteSet(DOMAIN h.dcgm)
          /\ Len(h.bmc.psus) \in 0 .. 2

SourcesInit ==
    /\ hw \in Hardware /\ bmc = hw.bmc
    /\ sources = discover_sources(hw)
    /\ counter = [i \in Counters |-> 0] /\ since = [i \in Counters |-> 0]
    /\ truth = [i \in Counters |-> 0] /\ ranged = {}
    /\ prev_readings = EmptyMap
    /\ readings = [i \in DOMAIN sources |-> Unread]
    /\ stage = "start"

-----------------------------------------------------------------------------
(* Readings                                                                *)

\* Mutant: the range is added to the new value, and the old one is forgotten.
DeltaWholeRange(prev, current, max) ==
    IF current >= prev THEN current - prev ELSE max + current

\* A counter shows 0 .. max and then 0 again; the code adds max - prev and the
\* current value.  Without a known range the current value is the delta.
Delta(prev, current, max) ==
    CASE current >= prev -> current - prev
      [] current < prev /\ max > 0 -> (max - prev) + current
      [] OTHER -> current

\* energy_to_power: a delta counts as used in one configured interval, however
\* many intervals it covers.
delta_to_power(delta) == IF PollInterval = 0 THEN 0 ELSE delta \div PollInterval

\* The interval passes: every counter advances, and the readings start afresh.
Elapse ==
    /\ stage = "sleep" /\ stage' = "collect"
    /\ \E gain \in [Counters -> 0 .. MaxRate] :
          /\ \A i \in Counters : since[i] + gain[i] <= MaxSince
          /\ since' = [i \in Counters |-> since[i] + gain[i]]
          /\ counter' = [i \in Counters |-> (counter[i] + gain[i]) % Modulus(sources[i])]
    /\ readings' = [i \in DOMAIN sources |-> Unread] /\ truth' = [i \in Counters |-> 0]
    /\ ranged' = {}
    /\ UNCHANGED <<hw, bmc, sources, prev_readings>>

\* The BMC loses or gains endpoints (telemetry switched off, a PSU pulled).
BmcChanges ==
    /\ stage = "sleep" /\ hw.bmc.power
    /\ bmc' \in {hw.bmc, [hw.bmc EXCEPT !.sensors = {}], [hw.bmc EXCEPT !.reports = {}]}
    /\ UNCHANGED <<hw, sources, counter, since, prev_readings, truth, ranged, readings, stage>>

Readable(i) == sources[i].method # "sysfs" => Answers(bmc, sources[i])

\* The read before the loop only sets the baselines.
InitialRead ==
    /\ stage = "start" /\ stage' = "sleep"
    /\ \E ok \in SUBSET Counters : prev_readings' = Restrict(counter, ok)
    /\ UNCHANGED <<hw, bmc, sources, counter, since, truth, ranged, readings>>

Reading(power) == [available |-> power > 0, power |-> power]

\* A RAPL zone's range is read at discovery, a hwmon counter's with every reading.
Reranged == {i \in Counters : sources[i].reading_type = "Measured"}

\* max_energy_uj of a reading: 0 when the range cannot be read.
max_energy(i, lost) == IF i \in lost THEN 0 ELSE sources[i].max

\* Read every source.  A failed read of a counter leaves its baseline alone; for
\* the others a failed read and a reading of 0 W have the same effect.
Collect ==
    /\ stage = "collect" /\ stage' = "sleep"
    /\ \E ok \in SUBSET Counters, lost \in SUBSET Reranged, watts \in [DOMAIN sources \ Counters -> Watts] :
          /\ \A i \in DOMAIN watts : ~Readable(i) => watts[i] = 0
          /\ readings' = [i \in DOMAIN sources |->
                LET delta == Delta(Get(prev_readings, i, counter[i]), counter[i], max_energy(i, lost))
                    power == CASE i \in ok -> delta_to_power(delta)
                               [] i \in Counters \ ok -> 0
                               [] OTHER -> watts[i]
                IN  Reading(power)]
          /\ prev_readings' = Extend(prev_readings, Restrict(counter, ok))
          /\ truth' = [i \in Counters |->
                         IF i \in ok \cap DOMAIN prev_readings THEN since[i] ELSE 0]
          /\ ranged' = {i \in Counters : max_energy(i, lost) > 0}
          /\ since' = [i \in Counters |-> IF i \in ok THEN 0 ELSE since[i]]
    /\ UNCHANGED <<hw, bmc, sources, counter>>

SourcesNext == InitialRead \/ Elapse \/ BmcChanges \/ Collect

-----------------------------------------------------------------------------
(* Selection: the sources are scanned in order, None is the empty set      *)

Rank(type) == CASE type = "Measured" -> 3 [] type = "Estimated" -> 2 [] type = "Derived" -> 1

\* Mutant: the last source wins whatever its kind.
is_better_last(component, old, new) == TRUE

\* A strictly better kind of reading, so the first of a kind stays; for the
\* platform the higher power.
is_better(component, old, new) ==
    \A i \in old : IF component = "Platform" THEN readings[new].power > readings[i].power
                   ELSE Rank(sources[new].reading_type) > Rank(sources[i].reading_type)

\* The loop over the sources in their order.
Best(component) ==
    MapThenFoldSet(LAMBDA i, best : IF sources[i].component = component /\ readings[i].available
                                       /\ is_better(component, best, i) THEN {i} ELSE best,
                   {}, LAMBDA i : i, LAMBDA S : Max(S), DOMAIN sources)

-----------------------------------------------------------------------------
(* Properties                                                              *)

\* The energy behind the powers computed from a counter is counted once: a delta
\* is never more than what was used since the last successful read, whatever
\* reads failed and however often the counter wrapped in between, and what the
\* division and one wrap of a known range cut off is less than a unit of power
\* and a unit of energy (the delta and energy_to_power in the loop).  It is a
\* statement on energy: the power shown after failed reads is that of several
\* intervals' energy used in one.
EnergyCountedOnce ==
    \A i \in Counters :
        /\ readings[i].power * PollInterval <= truth[i]
        /\ PollInterval > 0 /\ i \in ranged /\ truth[i] <= sources[i].max
              => (readings[i].power + 1) * PollInterval >= truth[i]

\* While the BMC stays as it was at discovery, every source discovered on it can
\* be read, PSU Total aside, which is added without looking at its reading:
\* the probes of discover() agree with the read methods it chooses.
DiscoveredReadable ==
    bmc = hw.bmc => \A i \in DOMAIN sources : sources[i].method = "PowerApi" \/ Readable(i)

\* For each component the loop reports one source that delivered power, of the
\* most accurate kind among those that did and the first of its kind, and reports
\* none only if none did; CPU package zones are ranked by socket whatever the
\* directory order.  Of the platform it reports the highest power.  A further
\* source of that kind, such as the second CPU package, is in no component.
BestReadings ==
    \A c \in Component :
        LET candidates == {i \in DOMAIN sources : sources[i].component = c /\ readings[i].power > 0}
        IN  /\ (Best(c) = {}) = (candidates = {})
            /\ \A i \in Best(c) : i \in candidates /\ \A j \in candidates :
                   IF c = "Platform" THEN readings[i].power >= readings[j].power
                   ELSE \/ Rank(sources[i].reading_type) > Rank(sources[j].reading_type)
                        \/ sources[i].reading_type = sources[j].reading_type /\ i <= j
=============================================================================
