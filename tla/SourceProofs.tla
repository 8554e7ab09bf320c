---------------------------- MODULE SourceProofs ----------------------------
(***************************************************************************)
(* The power sources of the agent and the readings it selects, for any     *)
(* hardware, any counters and any failures.                                *)
(***************************************************************************)
EXTENDS AgentSources, FoldProofs

-----------------------------------------------------------------------------
(* Discovery                                                               *)

\* The reading kept of a counter and the energy used since then lead to its
\* present value, up to whole laps of the counter.
SinceRead(i) ==
    /\ prev_readings[i] \in 0 .. Modulus(sources[i]) - 1
    /\ \E laps \in Nat : prev_readings[i] + since[i] = counter[i] + laps * Modulus(sources[i])

\* Sources that the BMC b answers when they are read: PSU Total and the sysfs
\* files aside.
FineSources(b) == {s \in PowerSources : s.method \in {"PowerApi", "sysfs"} \/ Answers(b, s)}

\* The probe of discover() that goes with a read method and a metric.
Probed(b, how, metric) ==
    \/ how = "PowerApi"
    \/ how = "SensorReading" /\ metric \in b.sensors
    \/ how = "SensorPercentage" /\ {metric, Board} \subseteq b.sensors
    \/ how = "TelemetryMetric" /\ metric \in b.reports

\* A source that passed the probe of its method can be read.
LEMMA RedfishSourceFine ==
    ASSUME NEW b, NEW component \in Component, NEW how \in ReadMethod, NEW metric \in MetricId,
           NEW output \in BOOLEAN, Probed(b, how, metric)
    PROVE  RedfishSource(component, how, metric, output) \in Seq(FineSources(b))
<1> DEFINE s == [component |-> component, reading_type |-> "Measured", counter |-> FALSE, max |-> 0,
                 method |-> how, metric |-> metric, output |-> output]
<1>1. RedfishSource(component, how, metric, output) = <<s>>
  BY Zenon DEF RedfishSource
<1>2. s \in PowerSources /\ s.method = how /\ s.metric = metric
  BY Zenon DEF PowerSources
<1> HIDE DEF s
<1>3. how = "PowerApi" \/ Answers(b, s)
  BY <1>2, Zenon DEF Answers, Probed
<1>4. s \in FineSources(b)
  BY <1>2, <1>3, Zenon DEF FineSources
<1> QED
  BY <1>1, <1>4

\* Every telemetry metric added can be read.
LEMMA TelemetryFine ==
    ASSUME NEW b, NEW metric \in MetricId, NEW component \in Component
    PROVE  try_telemetry_metric(b, metric, component) \in Seq(FineSources(b))
<1> DEFINE R(how) == RedfishSource(component, how, metric, FALSE)
           F == Seq(FineSources(b))
<1>1. metric \in b.sensors => R("SensorReading") \in F
  BY RedfishSourceFine, Zenon DEF Probed, ReadMethod
<1>2. metric \in b.reports => R("TelemetryMetric") \in F
  BY RedfishSourceFine, Zenon DEF Probed, ReadMethod
<1>3. <<>> \in F
  OBVIOUS
<1> HIDE DEF F
<1>4. try_telemetry_metric(b, metric, component) \in F
  BY <1>1, <1>2, <1>3, Zenon DEF try_telemetry_metric
<1> QED
  BY <1>4, Zenon DEF F

\* Every sensor in percent added can be read, the board's included.
LEMMA PercentageFine ==
    ASSUME NEW b, NEW sensor \in MetricId, NEW component \in Component
    PROVE  try_sensor_pct(b, sensor, component) \in Seq(FineSources(b))
<1> DEFINE F == Seq(FineSources(b))
<1>1. {sensor, Board} \subseteq b.sensors =>
         RedfishSource(component, "SensorPercentage", sensor, FALSE) \in F
  BY RedfishSourceFine, Zenon DEF Probed, ReadMethod
<1>2. <<>> \in F
  OBVIOUS
<1> HIDE DEF F
<1>3. try_sensor_pct(b, sensor, component) \in F
  BY <1>1, <1>2, Zenon DEF try_sensor_pct
<1> QED
  BY <1>3, Zenon DEF F

\* So can every PSU.
LEMMA PsuFine ==
    ASSUME NEW b, Len(b.psus) \in 0 .. 2
    PROVE  discover_psu_detail(b) \in Seq(FineSources(b))
<1> DEFINE n == Len(b.psus)
           one(i, side) ==
             IF side \in b.psus[i] /\ PsuSensor[i][side] \in b.sensors
             THEN RedfishSource("Platform", "SensorReading", PsuSensor[i][side], side = "Output")
             ELSE <<>>
           IsUpto(u) == u = [i \in 0 .. n |-> IF i = 0 THEN <<>>
                                              ELSE u[i - 1] \o one(i, "Input") \o one(i, "Output")]
           upto == CHOOSE u : IsUpto(u)
           F == Seq(FineSources(b))
<1>1. discover_psu_detail(b) = upto[n]
  BY Zenon DEF discover_psu_detail
<1>0. n \in 0 .. 2
  BY Zenon
<1> HIDE DEF n
<1>2. ASSUME NEW i \in {1, 2}, NEW side \in {"Input", "Output"}
      PROVE  one(i, side) \in F
  <2> DEFINE m == PsuSensor[i][side]
  <2>1. m \in MetricId
    BY DEF MetricId
  <2> HIDE DEF m
  <2>4. m \in b.sensors =>
          RedfishSource("Platform", "SensorReading", m, side = "Output") \in F
    BY <2>1, RedfishSourceFine, Zenon DEF Probed, ReadMethod, Component
  <2>5. <<>> \in F
    OBVIOUS
  <2> QED
    BY <2>4, <2>5, Zenon DEF m
<1> HIDE DEF one
<1> DEFINE first == <<>> \o one(1, "Input") \o one(1, "Output")
           second == first \o one(2, "Input") \o one(2, "Output")
           u == [i \in 0 .. n |-> IF i = 0 THEN <<>> ELSE IF i = 1 THEN first ELSE second]
<1>3. IsUpto(u)
  <2>1. ASSUME NEW i \in 0 .. n
        PROVE  u[i] = IF i = 0 THEN <<>> ELSE u[i - 1] \o one(i, "Input") \o one(i, "Output")
    <3>1. i = 0 \/ i = 1 \/ i = 2
      BY <1>0, <2>1
    <3>2. i # 0 => i - 1 \in 0 .. n
      BY <1>0, <2>1
    <3>3. CASE i = 0
      BY <2>1, <3>3, Zenon
    <3>4. CASE i = 1
      <4>1. u[i] = first /\ u[i - 1] = <<>>
        BY <2>1, <3>2, <3>4
      <4> QED
        BY <3>4, <4>1, Zenon
    <3>5. CASE i = 2
      <4>1. u[i] = second /\ u[i - 1] = first
        BY <2>1, <3>2, <3>5
      <4> HIDE DEF u
      <4> QED
        BY <3>5, <4>1
    <3> QED
      BY <3>1, <3>3, <3>4, <3>5, Zenon
  <2>2. DOMAIN u = 0 .. n /\ u = [i \in 0 .. n |-> u[i]]
    BY Zenon
  <2> HIDE DEF u, n
  <2> QED
    BY <2>1, <2>2, Zenon
<1>4. IsUpto(upto)
  <2> HIDE DEF IsUpto
  <2> QED
    BY <1>3, Zenon
<1>5. ASSUME NEW a \in F, NEW i \in {1, 2}
      PROVE  a \o one(i, "Input") \o one(i, "Output") \in F
  <2>1. \A x, y \in F : x \o y \in F
    OBVIOUS
  <2> HIDE DEF F
  <2> QED
    BY <1>2, <2>1, Zenon
<1>9. \A i \in 0 .. n : upto[i] = IF i = 0 THEN <<>>
                                  ELSE upto[i - 1] \o one(i, "Input") \o one(i, "Output")
  <2> HIDE DEF upto
  <2> QED
    BY <1>4, Zenon
<1>10. <<>> \in F
  OBVIOUS
<1> HIDE DEF F
<1>6. CASE n = 0
  <2> HIDE DEF upto
  <2>1. upto[0] = <<>>
    BY <1>6, <1>9
  <2> QED
    BY <1>1, <1>6, <1>10, <2>1, Zenon DEF F
<1>7. CASE n = 1
  <2> HIDE DEF upto
  <2>1. upto[0] = <<>> /\ upto[1] = upto[0] \o one(1, "Input") \o one(1, "Output")
    BY <1>7, <1>9
  <2> QED
    BY <1>1, <1>5, <1>7, <1>10, <2>1, Zenon DEF F
<1>8. CASE n = 2
  <2> HIDE DEF upto
  <2>1. /\ upto[0] = <<>> /\ upto[1] = upto[0] \o one(1, "Input") \o one(1, "Output")
        /\ upto[2] = upto[1] \o one(2, "Input") \o one(2, "Output")
    <3>1. 0 \in 0 .. n /\ 1 \in 0 .. n /\ 2 \in 0 .. n
      BY <1>8
    <3>2. 1 # 0 /\ 2 # 0 /\ 1 - 1 = 0 /\ 2 - 1 = 1
      OBVIOUS
    <3>3. upto[0] = <<>>
      BY <1>9, <3>1, Zenon
    <3>4. upto[1] = upto[1 - 1] \o one(1, "Input") \o one(1, "Output")
      BY <1>9, <3>1, <3>2, Zenon
    <3>5. upto[2] = upto[2 - 1] \o one(2, "Input") \o one(2, "Output")
      BY <1>9, <3>1, <3>2, Zenon
    <3> QED
      BY <3>2, <3>3, <3>4, <3>5, Zenon
  <2>2. upto[1] \in F
    BY <1>5, <1>10, <2>1, Zenon
  <2>3. upto[2] \in F
    BY <1>5, <2>1, <2>2, Zenon
  <2> QED
    BY <1>1, <1>8, <2>3, Zenon DEF F
<1> QED
  BY <1>0, <1>6, <1>7, <1>8

\* So can all that platform discovery adds.
LEMMA PlatformFine ==
    ASSUME NEW b, Len(b.psus) \in 0 .. 2
    PROVE  platform_discover(b) \in Seq(FineSources(b))
<1> DEFINE F == Seq(FineSources(b))
           telemetry(m, c) == try_telemetry_metric(b, m, c)
           pct(m, c) == try_sensor_pct(b, m, c)
           cpu == or_else(telemetry("TotalCPUPower", "Cpu"),
                          or_else(pct("SystemBoardCPUUsage", "Cpu"), telemetry("CPUPower", "Cpu")))
           memory == or_else(telemetry("TotalMemoryPower", "Memory"),
                             or_else(telemetry("DRAMPwr", "Memory"), pct("SystemBoardMEMUsage", "Memory")))
           fan == telemetry("TotalFanPower", "Fan")
           storage == telemetry("TotalStoragePower", "Storage")
           nic == or_else(pct("SystemBoardIOUsage", "Nic"), telemetry("TotalPciePower", "Nic"))
           system == pct("SystemBoardSYSUsage", "Platform")
           psus == discover_psu_detail(b)
           total == RedfishSource("Platform", "PowerApi", "PowerConsumedWatts", FALSE)
<1>1. \A m \in MetricId, c \in Component : telemetry(m, c) \in F /\ pct(m, c) \in F
  BY TelemetryFine, PercentageFine, Zenon
<1>2. \A x, y \in F : or_else(x, y) \in F
  BY Zenon DEF or_else
<1>3. cpu \in F /\ memory \in F /\ fan \in F /\ storage \in F /\ nic \in F /\ system \in F
  <2>1. /\ {"Cpu", "Memory", "Nic", "Storage", "Fan", "Platform"} \subseteq Component
        /\ {"TotalCPUPower", "CPUPower", "TotalMemoryPower", "DRAMPwr", "TotalFanPower",
            "TotalStoragePower", "TotalPciePower", "SystemBoardCPUUsage", "SystemBoardMEMUsage",
            "SystemBoardIOUsage", "SystemBoardSYSUsage"} \subseteq MetricId
    BY DEF Component, MetricId
  <2> HIDE DEF telemetry, pct, F
  <2> QED
    BY <1>1, <1>2, <2>1, Zenon
<1>4. psus \in F
  BY PsuFine, Zenon
<1>5. total \in F
  <2>1. "PowerConsumedWatts" \in MetricId /\ "PowerApi" \in ReadMethod /\ "Platform" \in Component
    BY DEF MetricId, ReadMethod, Component
  <2>2. Probed(b, "PowerApi", "PowerConsumedWatts")
    BY Zenon DEF Probed
  <2> QED
    BY <2>1, <2>2, RedfishSourceFine, Zenon
<1>6. platform_discover(b) = IF ~b.power THEN <<>>
        ELSE cpu \o memory \o fan \o storage \o nic \o system \o psus \o total
  BY Zenon DEF platform_discover
<1> HIDE DEF cpu, memory, fan, storage, nic, system, psus, total
<1>7. <<>> \in F /\ \A x, y \in F : x \o y \in F
  OBVIOUS
<1> HIDE DEF F
<1>8. cpu \o memory \o fan \o storage \o nic \o system \o psus \o total \in F
  BY <1>3, <1>4, <1>5, <1>7, Zenon
<1>9. platform_discover(b) \in F
  BY <1>6, <1>7, <1>8, Zenon
<1> QED
  BY <1>9, Zenon DEF F

\* So can all that is discovered on a node.
LEMMA DiscoveredFine ==
    ASSUME NEW h \in Hardware
    PROVE  discover_sources(h) \in Seq(FineSources(h.bmc))
<1> DEFINE F == Seq(FineSources(h.bmc))
           gpus == gpu_discover(h.dcgm)
           local == rapl_discover(h.powercap) \o discover_dram(h.powercap) \o hwmon_discover(h.hwmon)
<1>1. \A s \in Seq(LocalSources) : s \in F
  <2>1. LocalSources \subseteq FineSources(h.bmc)
    BY Zenon DEF LocalSources, FineSources
  <2> QED
    BY <2>1
<1>2. /\ rapl_discover(h.powercap) \in F /\ discover_dram(h.powercap) \in F
      /\ hwmon_discover(h.hwmon) \in F
  BY <1>1, SourcesAssumption, Zenon
<1>3. gpus \in F
  <2> DEFINE first == {i \in DOMAIN h.dcgm : \A j \in 1 .. i - 1 : h.dcgm[j].uuid # h.dcgm[i].uuid}
             s == Source("Gpu", "Measured", FALSE, 0)
  <2>1. IsFiniteSet(DOMAIN h.dcgm) /\ first \in SUBSET DOMAIN h.dcgm
    BY SourcesAssumption, Zenon
  <2>2. Cardinality(first) \in Nat
    <3> HIDE DEF first
    <3> QED
      BY <2>1, FS_Subset, FS_CardinalityType, Zenon
  <2>3. s \in LocalSources
    BY Zenon DEF Source, LocalSources, PowerSources, Component
  <2>4. gpus = [i \in 1 .. Cardinality(first) |-> s]
    BY Zenon DEF gpu_discover
  <2> HIDE DEF first, s
  <2>5. gpus \in Seq(LocalSources)
    BY <2>2, <2>3, <2>4
  <2> QED
    BY <1>1, <2>5, Zenon
<1>4. platform_discover(h.bmc) \in F
  BY PlatformFine, SourcesAssumption, Zenon
<1>5. discover_sources(h) = rapl_discover(h.powercap) \o discover_dram(h.powercap)
                              \o hwmon_discover(h.hwmon) \o gpus \o platform_discover(h.bmc)
  BY Zenon DEF discover_sources
<1>6. \A x, y \in F : x \o y \in F
  OBVIOUS
<1> HIDE DEF gpus, F
<1>7. discover_sources(h) \in F
  BY <1>2, <1>3, <1>4, <1>5, <1>6
<1> QED
  BY <1>7, Zenon DEF F

-----------------------------------------------------------------------------
(* Energy counters                                                         *)

\* A source is available in an interval when it delivered power.
ReadingsTyped ==
    /\ sources \in Seq(PowerSources) /\ DOMAIN readings = DOMAIN sources
    /\ \A i \in DOMAIN sources :
          readings[i].power \in Nat /\ (readings[i].available <=> readings[i].power > 0)

\* The inductive invariant behind EnergyCountedOnce: every kept reading
\* accounts for the energy used since it, over failed reads and wraps.
SourcesInv ==
    /\ ReadingsTyped
    /\ \A i \in DOMAIN sources : sources[i].max \in Nat
    /\ counter \in [Counters -> Nat] /\ since \in [Counters -> Nat]
    /\ \A i \in Counters : counter[i] < Modulus(sources[i])
    /\ stage = "start" => \A i \in Counters : since[i] = 0
    /\ DOMAIN prev_readings \subseteq Counters
    /\ \A i \in DOMAIN prev_readings : SinceRead(i)
    /\ EnergyCountedOnce

\* A counter wraps after the range its source states, or at a range the agent
\* does not know.
LEMMA ModulusRange ==
    ASSUME NEW s, s.max \in Nat
    PROVE  /\ Modulus(s) \in Nat \ {0}
           /\ s.max > 0 => Modulus(s) = s.max + 1
           /\ s.max = 0 => Modulus(s) = 4
BY DEF Modulus

\* Two laps or more are at least two full ranges.
LEMMA LapsArithmetic ==
    ASSUME NEW m \in Nat \ {0}, NEW laps \in Nat
    PROVE  laps = 0 \/ laps = 1 \/ laps * m >= 2 * m
<1>1. \A a, b \in Nat : a <= b => a * m <= b * m
  BY SMT
<1>2. 2 \in Nat /\ (laps >= 2 => 2 * m <= laps * m)
  BY <1>1, Zenon
<1> QED
  BY <1>2

\* The delta of two readings is what was used between them, less one unit when
\* the counter wrapped once, less more when it wrapped more often or its range
\* is not known, or not at this reading, and never more than what was used.
LEMMA DeltaIsConsumption ==
    ASSUME NEW s, s.max \in Nat, NEW prev \in Nat, NEW cur \in Nat, NEW used \in Nat,
           prev < Modulus(s), cur < Modulus(s), NEW laps \in Nat,
           prev + used = cur + laps * Modulus(s), NEW max \in {0, s.max}
    PROVE  LET delta == Delta(prev, cur, max) IN
           /\ delta \in Nat /\ delta <= used
           /\ max > 0 /\ used <= s.max => delta >= used - 1
<1> DEFINE m == Modulus(s)
           d == laps * m
<1>1. m \in Nat \ {0} /\ (s.max > 0 => m = s.max + 1) /\ (s.max = 0 => m = 4)
  BY ModulusRange, Zenon
<1> HIDE DEF m
<1>2. laps = 0 \/ laps = 1 \/ d >= 2 * m
  BY <1>1, LapsArithmetic, Zenon
<1>3. d \in Nat /\ (laps = 0 => d = 0) /\ (laps = 1 => d = m)
  BY <1>1, SMT
<1>4. prev < m /\ cur < m /\ prev + used = cur + d
  BY Zenon DEF m
<1> HIDE DEF d
<1>5. CASE cur >= prev
  <2>1. Delta(prev, cur, max) = cur - prev
    BY <1>5 DEF Delta
  <2> QED
    BY <1>1, <1>2, <1>3, <1>4, <1>5, <2>1
<1>6. CASE cur < prev /\ max > 0
  <2>1. Delta(prev, cur, max) = (max - prev) + cur /\ max = s.max
    BY <1>6 DEF Delta
  <2> QED
    BY <1>1, <1>2, <1>3, <1>4, <1>6, <2>1
<1>7. CASE cur < prev /\ max = 0
  <2>1. Delta(prev, cur, max) = cur
    BY <1>7 DEF Delta
  <2>2. laps # 0
    BY <1>3, <1>4, <1>7
  <2> QED
    BY <1>1, <1>2, <1>3, <1>4, <1>7, <2>1, <2>2
<1> QED
  BY <1>5, <1>6, <1>7

\* Dividing a delta by the interval rounds down by less than the interval.
LEMMA PowerOfDelta ==
    ASSUME NEW delta \in Nat
    PROVE  LET power == delta_to_power(delta) IN
           /\ power \in Nat /\ power * PollInterval <= delta
           /\ PollInterval > 0 => (power + 1) * PollInterval > delta
<1>1. CASE PollInterval = 0
  <2>1. delta_to_power(delta) = 0
    BY <1>1, Zenon DEF delta_to_power
  <2> QED
    BY <1>1, <2>1
<1>2. CASE PollInterval # 0
  <2>1. PICK d \in Nat \ {0} : d = PollInterval
    BY <1>2, SourcesAssumption
  <2>2. delta_to_power(delta) = delta \div d
    BY <1>2, <2>1, Zenon DEF delta_to_power
  <2>3. delta \div d \in Nat /\ (delta \div d) * d <= delta /\ ((delta \div d) + 1) * d > delta
    BY SMT
  <2> QED
    BY <2>1, <2>2, <2>3, Zenon
<1> QED
  BY <1>1, <1>2, Zenon

\* A counter that advances stays below its range and differs from its true sum
\* by whole laps.
LEMMA CounterAdvances ==
    ASSUME NEW m \in Nat \ {0}, NEW c \in Nat, NEW gain \in Nat
    PROVE  /\ (c + gain) % m \in Nat /\ (c + gain) % m < m
           /\ \E laps \in Nat : c + gain = ((c + gain) % m) + laps * m
<1>1. PICK n \in Nat : n = c + gain
  OBVIOUS
<1>2. n % m \in Nat /\ n % m < m /\ n \div m \in Nat /\ n = (n % m) + (n \div m) * m
  BY SMT
<1> QED
  BY <1>1, <1>2, Zenon

\* A source that was not read is not available.
LEMMA UnreadIsTyped == Unread.power \in Nat /\ (Unread.available <=> Unread.power > 0)
BY DEF Unread

\* A source that was read is available when its power is not 0.
LEMMA ReadingIsTyped ==
    ASSUME NEW p \in Nat
    PROVE  Reading(p).power \in Nat /\ (Reading(p).available <=> Reading(p).power > 0)
<1>1. Reading(p).power = p /\ Reading(p).available = (p > 0)
  BY Zenon DEF Reading
<1> QED
  BY <1>1, Zenon

\* The invariant holds after discovery.
LEMMA StartSources ==
    ASSUME SourcesInit
    PROVE  SourcesInv
<1>0. sources \in Seq(PowerSources) /\ \A i \in DOMAIN sources : sources[i] \in PowerSources
  <2>1. sources \in Seq(FineSources(hw.bmc))
    BY DiscoveredFine, Zenon DEF SourcesInit
  <2>2. FineSources(hw.bmc) \subseteq PowerSources
    BY Zenon DEF FineSources
  <2> QED
    BY <2>1, <2>2
<1>1. \A i \in DOMAIN sources : sources[i].max \in Nat
  BY <1>0, Zenon DEF PowerSources
<1>9. ReadingsTyped
  BY <1>0, UnreadIsTyped, Zenon DEF SourcesInit, ReadingsTyped
<1>2. \A i \in Counters : i \in DOMAIN sources /\ Modulus(sources[i]) > 0
  BY <1>1, ModulusRange DEF Counters
<1>3. DOMAIN prev_readings = {}
  BY Zenon DEF SourcesInit, EmptyMap
<1>4. EnergyCountedOnce
  <2>1. Unread.power * PollInterval <= 0
    BY SourcesAssumption DEF Unread
  <2> QED
    BY <1>2, <2>1, Zenon DEF SourcesInit, EnergyCountedOnce
<1> QED
  BY <1>1, <1>2, <1>3, <1>4, <1>9, Zenon DEF SourcesInit, SourcesInv

\* The first read of the counters keeps it.
LEMMA InitialReadKeeps ==
    ASSUME SourcesInv, InitialRead
    PROVE  SourcesInv'
<1>1. PICK ok \in SUBSET Counters : prev_readings' = Restrict(counter, ok)
  BY Zenon DEF InitialRead
<1>2. Counters' = Counters /\ UNCHANGED <<sources, counter, since, truth, ranged, readings>> /\ stage = "start"
  BY Zenon DEF InitialRead, Counters
<1>3. DOMAIN prev_readings' = ok /\ \A i \in ok : prev_readings'[i] = counter[i]
  BY <1>1, Zenon DEF Restrict
<1>4. EnergyCountedOnce'
  BY <1>2, Zenon DEF SourcesInv, EnergyCountedOnce
<1>5. ASSUME NEW i \in ok
      PROVE  SinceRead(i)'
  <2> DEFINE m == Modulus(sources[i])
  <2>1. m \in Nat \ {0} /\ counter[i] \in Nat /\ counter[i] < m /\ since[i] = 0
    BY <1>2, ModulusRange, Zenon DEF SourcesInv, Counters
  <2> HIDE DEF m
  <2>2. 0 \in Nat /\ 0 * m = 0
    BY <2>1
  <2>3. prev_readings'[i] \in 0 .. m - 1 /\ prev_readings'[i] + since[i] = counter[i] + 0 * m
    BY <1>3, <2>1, <2>2
  <2> QED
    BY <1>2, <2>2, <2>3, Zenon DEF SinceRead, m, Modulus
<1>6. (stage = "start")' = FALSE
  BY Zenon DEF InitialRead
<1> QED
  BY <1>1, <1>2, <1>3, <1>4, <1>5, <1>6, Zenon DEF SourcesInv, Modulus, ReadingsTyped

\* So does time passing, in which energy is used and the BMC may change.
LEMMA ElapseKeeps ==
    ASSUME SourcesInv, Elapse
    PROVE  SourcesInv'
<1>1. PICK gain \in [Counters -> 0 .. MaxRate] :
         /\ since' = [i \in Counters |-> since[i] + gain[i]]
         /\ counter' = [i \in Counters |-> (counter[i] + gain[i]) % Modulus(sources[i])]
  BY Zenon DEF Elapse
<1>2. Counters' = Counters /\ UNCHANGED <<sources, prev_readings>> /\ stage' = "collect"
  BY Zenon DEF Elapse, Counters
<1>3. ASSUME NEW i \in Counters
      PROVE  /\ since'[i] \in Nat /\ counter'[i] \in Nat /\ counter'[i] < Modulus(sources[i])
             /\ i \in DOMAIN prev_readings => SinceRead(i)'
  <2> DEFINE m == Modulus(sources[i])
  <2>1. /\ m \in Nat \ {0} /\ counter[i] \in Nat /\ since[i] \in Nat /\ gain[i] \in Nat
        /\ since'[i] = since[i] + gain[i] /\ counter'[i] = (counter[i] + gain[i]) % m
    BY <1>1, ModulusRange, SourcesAssumption DEF SourcesInv, Counters
  <2>2. ASSUME i \in DOMAIN prev_readings
        PROVE  prev_readings[i] \in 0 .. m - 1
               /\ \E laps \in Nat : prev_readings[i] + since[i] = counter[i] + laps * m
    BY <2>2, Zenon DEF SourcesInv, SinceRead
  <2>3. SinceRead(i)' <=> /\ prev_readings[i] \in 0 .. m - 1
                          /\ \E laps \in Nat : prev_readings[i] + since'[i] = counter'[i] + laps * m
    BY <1>2, Zenon DEF SinceRead, Modulus
  <2> HIDE DEF m
  <2>4. counter'[i] \in Nat /\ counter'[i] < m
        /\ \E laps \in Nat : counter[i] + gain[i] = counter'[i] + laps * m
    <3>1. \A n \in Nat \ {0}, c, g \in Nat :
             /\ (c + g) % n \in Nat /\ (c + g) % n < n
             /\ \E laps \in Nat : c + g = ((c + g) % n) + laps * n
      BY CounterAdvances, Zenon
    <3>2. /\ (counter[i] + gain[i]) % m \in Nat /\ (counter[i] + gain[i]) % m < m
          /\ \E laps \in Nat : counter[i] + gain[i] = ((counter[i] + gain[i]) % m) + laps * m
      BY <2>1, <3>1, Zenon
    <3> QED
      BY <2>1, <3>2, Zenon
  <2>5. ASSUME i \in DOMAIN prev_readings
        PROVE  SinceRead(i)'
    <3>1. PICK old \in Nat : prev_readings[i] + since[i] = counter[i] + old * m
      BY <2>2, <2>5, Zenon
    <3>2. PICK more \in Nat : counter[i] + gain[i] = counter'[i] + more * m
      BY <2>4, Zenon
    <3>3. (old + more) * m = old * m + more * m /\ old + more \in Nat
          /\ old * m \in Nat /\ more * m \in Nat
      BY <2>1
    <3>4. prev_readings[i] \in Int
      BY <2>1, <2>2, <2>5
    <3>5. \A p, q, c, d, u, g, k \in Int : k + u = c + p /\ c + g = d + q => k + (u + g) = d + (p + q)
      OBVIOUS
    <3>6. counter'[i] \in Nat
      BY <2>4, Zenon
    <3>7. prev_readings[i] + (since[i] + gain[i]) = counter'[i] + (old * m + more * m)
      <4>1. PICK p, q \in Int : p = old * m /\ q = more * m
        BY <3>3
      <4>2. PICK c, d, u, g, k \in Int :
               c = counter[i] /\ d = counter'[i] /\ u = since[i] /\ g = gain[i] /\ k = prev_readings[i]
        <5>1. counter[i] \in Int /\ since[i] \in Int /\ gain[i] \in Int
          BY <2>1
        <5>2. counter'[i] \in Int /\ prev_readings[i] \in Int
          BY <3>4, <3>6
        <5> QED
          BY <5>1, <5>2, Zenon
      <4>3. k + u = c + p /\ c + g = d + q
        BY <3>1, <3>2, <4>1, <4>2, Zenon
      <4>4. k + (u + g) = d + (p + q)
        BY <4>3, <3>5
      <4> QED
        BY <4>1, <4>2, <4>4, Zenon
    <3>8. prev_readings[i] + since'[i] = counter'[i] + (old + more) * m
      BY <2>1, <3>3, <3>7, Zenon
    <3> QED
      BY <2>2, <2>3, <2>5, <3>3, <3>8, Zenon
  <2> QED
    BY <2>1, <2>4, <2>5 DEF m
<1>4. EnergyCountedOnce'
  <2>1. \A i \in Counters : i \in DOMAIN sources
    BY Zenon DEF Counters
  <2>2. Unread.power * PollInterval <= 0
    BY SourcesAssumption DEF Unread
  <2>3. ranged' = {}
    BY Zenon DEF Elapse
  <2> QED
    BY <1>2, <2>1, <2>2, <2>3, Zenon DEF Elapse, EnergyCountedOnce
<1>5. DOMAIN since' = Counters /\ DOMAIN counter' = Counters
      /\ since' = [i \in Counters |-> since'[i]] /\ counter' = [i \in Counters |-> counter'[i]]
  BY <1>1, Zenon
<1>6. since' \in [Counters -> Nat] /\ counter' \in [Counters -> Nat]
  BY <1>3, <1>5, Zenon
<1>7. ReadingsTyped'
  BY <1>2, UnreadIsTyped, Zenon DEF Elapse, SourcesInv, ReadingsTyped
<1> QED
  BY <1>2, <1>3, <1>4, <1>6, <1>7, Zenon DEF SourcesInv, Modulus

\* So does an interval's collection, in which any read may fail.
LEMMA CollectKeeps ==
    ASSUME SourcesInv, Collect
    PROVE  SourcesInv'
<1>1. PICK ok \in SUBSET Counters, lost \in SUBSET Reranged,
           watts \in [DOMAIN sources \ Counters -> Watts] :
        /\ \A i \in DOMAIN watts : ~Readable(i) => watts[i] = 0
        /\ readings' = [i \in DOMAIN sources |->
                LET delta == Delta(Get(prev_readings, i, counter[i]), counter[i], max_energy(i, lost))
                    power == CASE i \in ok -> delta_to_power(delta)
                               [] i \in Counters \ ok -> 0
                               [] OTHER -> watts[i]
                IN  Reading(power)]
        /\ prev_readings' = Extend(prev_readings, Restrict(counter, ok))
        /\ truth' = [i \in Counters |->
                       IF i \in ok \cap DOMAIN prev_readings THEN since[i] ELSE 0]
        /\ ranged' = {i \in Counters : max_energy(i, lost) > 0}
        /\ since' = [i \in Counters |-> IF i \in ok THEN 0 ELSE since[i]]
  BY Zenon DEF Collect
<1>2. Counters' = Counters /\ UNCHANGED <<sources, counter>> /\ stage' = "sleep"
  BY Zenon DEF Collect, Counters
<1>3. /\ DOMAIN prev_readings' = DOMAIN prev_readings \cup ok
      /\ \A i \in ok : prev_readings'[i] = counter[i]
      /\ \A i \in DOMAIN prev_readings \ ok : prev_readings'[i] = prev_readings[i]
  BY <1>1, Zenon DEF Extend, Restrict
<1>4. since' \in [Counters -> Nat] /\ \A i \in Counters : since'[i] = IF i \in ok THEN 0 ELSE since[i]
  BY <1>1, Zenon DEF SourcesInv
<1>5. ASSUME NEW i \in DOMAIN prev_readings'
      PROVE  SinceRead(i)'
  <2> DEFINE m == Modulus(sources[i])
  <2>1. i \in Counters /\ m \in Nat \ {0} /\ counter[i] \in Nat /\ counter[i] < m
    BY <1>3, ModulusRange, Zenon DEF SourcesInv, Counters
  <2>2. SinceRead(i)' <=> /\ prev_readings'[i] \in 0 .. m - 1
                          /\ \E laps \in Nat : prev_readings'[i] + since'[i] = counter[i] + laps * m
    BY <1>2, Zenon DEF SinceRead, Modulus
  <2>3. CASE i \in ok
    <3> HIDE DEF m
    <3>1. 0 \in Nat /\ 0 * m = 0
      BY <2>1
    <3>2. prev_readings'[i] \in 0 .. m - 1 /\ prev_readings'[i] + since'[i] = counter[i] + 0 * m
      BY <1>3, <1>4, <2>1, <2>3, <3>1
    <3> QED
      BY <2>2, <3>1, <3>2, Zenon
  <2>4. CASE i \notin ok
    BY <1>3, <1>4, <2>1, <2>2, <2>4, Zenon DEF SourcesInv, SinceRead
  <2> QED
    BY <2>3, <2>4, Zenon
<1>9. ASSUME NEW i \in Counters
      PROVE  LET delta == Delta(Get(prev_readings, i, counter[i]), counter[i], max_energy(i, lost))
                 used == IF i \in DOMAIN prev_readings THEN since[i] ELSE 0
             IN  /\ delta \in Nat /\ used \in Nat /\ delta <= used
                 /\ max_energy(i, lost) > 0 /\ used <= sources[i].max => delta >= used - 1
  <2> DEFINE prev == Get(prev_readings, i, counter[i])
             delta == Delta(prev, counter[i], max_energy(i, lost))
             used == IF i \in DOMAIN prev_readings THEN since[i] ELSE 0
  <2>1. i \in DOMAIN sources /\ sources[i].max \in Nat /\ counter[i] \in Nat
        /\ counter[i] < Modulus(sources[i]) /\ since[i] \in Nat
    BY Zenon DEF SourcesInv, Counters
  <2>5. /\ prev \in Nat /\ prev < Modulus(sources[i]) /\ used \in Nat
        /\ \E laps \in Nat : prev + used = counter[i] + laps * Modulus(sources[i])
    <3>1. CASE i \in DOMAIN prev_readings
      <4>1. prev = prev_readings[i] /\ used = since[i] /\ SinceRead(i)
        BY <3>1, Zenon DEF Get, SourcesInv
      <4>2. Modulus(sources[i]) \in Nat
        BY <2>1, ModulusRange, Zenon
      <4> QED
        BY <2>1, <4>1, <4>2 DEF SinceRead
    <3>2. CASE i \notin DOMAIN prev_readings
      <4>1. prev = counter[i] /\ used = 0
        BY <3>2, Zenon DEF Get
      <4>2. 0 \in Nat /\ 0 * Modulus(sources[i]) = 0
        BY <2>1, ModulusRange
      <4> QED
        BY <2>1, <4>1, <4>2, Zenon
    <3> QED
      BY <3>1, <3>2, Zenon
  <2> HIDE DEF prev, used
  <2>7. max_energy(i, lost) \in {0, sources[i].max}
    BY Zenon DEF max_energy
  <2>6. /\ delta \in Nat /\ delta <= used
        /\ max_energy(i, lost) > 0 /\ used <= sources[i].max => delta >= used - 1
    BY <2>1, <2>5, <2>7, DeltaIsConsumption, Zenon
  <2> QED
    BY <2>5, <2>6, Zenon DEF prev, used
<1>6. ASSUME NEW i \in Counters
      PROVE  /\ readings'[i].power * PollInterval <= truth'[i]
             /\ PollInterval > 0 /\ i \in ranged' /\ truth'[i] <= sources[i].max
                   => (readings'[i].power + 1) * PollInterval >= truth'[i]
  <2> DEFINE prev == Get(prev_readings, i, counter[i])
             delta == Delta(prev, counter[i], max_energy(i, lost))
             used == IF i \in DOMAIN prev_readings THEN since[i] ELSE 0
  <2>1. i \in DOMAIN sources /\ sources[i].max \in Nat /\ counter[i] \in Nat
        /\ counter[i] < Modulus(sources[i]) /\ since[i] \in Nat
    BY Zenon DEF SourcesInv, Counters
  <2>2. readings'[i] = Reading(IF i \in ok THEN delta_to_power(delta) ELSE 0)
    BY <1>1, <2>1, Zenon
  <2>3. CASE i \in ok
    <3>0. readings'[i] = Reading(delta_to_power(delta)) /\ truth'[i] = used
      BY <1>1, <2>2, <2>3, Zenon
    <3>1. readings'[i].power = delta_to_power(delta) /\ truth'[i] = used
      <4> HIDE DEF delta, used
      <4> QED
        BY <3>0 DEF Reading
    <3>2. /\ delta \in Nat /\ used \in Nat /\ delta <= used
          /\ max_energy(i, lost) > 0 /\ used <= sources[i].max => delta >= used - 1
      BY <1>9, Zenon
    <3>3. i \in ranged' => max_energy(i, lost) > 0
      BY <1>1, Zenon
    <3> HIDE DEF used, delta
    <3>4. PICK p \in Nat, q \in Int, r \in Int :
            /\ p = delta_to_power(delta) /\ q = p * PollInterval /\ r = (p + 1) * PollInterval
            /\ q <= delta /\ (PollInterval > 0 => r > delta)
      <4>1. \A p \in Nat : p * PollInterval \in Int /\ (p + 1) * PollInterval \in Int
        BY SourcesAssumption
      <4> QED
        BY <3>2, <4>1, PowerOfDelta, Zenon
    <3>5. q <= used /\ (PollInterval > 0 /\ delta >= used - 1 => r >= used)
      BY <3>2, <3>4
    <3> QED
      BY <3>1, <3>2, <3>3, <3>4, <3>5, Zenon
  <2>4. CASE i \notin ok
    <3>0. readings'[i] = Reading(0) /\ truth'[i] = 0
      BY <1>1, <2>2, <2>4, Zenon
    <3>1. readings'[i].power = 0 /\ truth'[i] = 0
      BY <3>0 DEF Reading
    <3> QED
      BY <3>1, SourcesAssumption
  <2> QED
    BY <2>3, <2>4, Zenon
<1>8. ReadingsTyped'
  <2>1. ASSUME NEW i \in DOMAIN sources
        PROVE  \E p \in Nat : readings'[i] = Reading(p)
    <3>1. CASE i \in ok
      BY <1>1, <1>9, <3>1, PowerOfDelta, Zenon
    <3>2. CASE i \in Counters \ ok
      BY <1>1, <3>2, Zenon
    <3>3. CASE i \notin Counters
      <4>1. watts[i] \in Nat
        BY <3>3, SourcesAssumption, Zenon
      <4>2. readings'[i] = Reading(watts[i])
        BY <1>1, <3>3, Zenon
      <4> QED
        BY <4>1, <4>2, Zenon
    <3> QED
      BY <3>1, <3>2, <3>3, Zenon
  <2>2. DOMAIN readings' = DOMAIN sources
    BY <1>1, Zenon
  <2> QED
    BY <1>2, <2>1, <2>2, ReadingIsTyped, Zenon DEF SourcesInv, ReadingsTyped
<1>7. EnergyCountedOnce'
  BY <1>2, <1>6, Zenon DEF EnergyCountedOnce
<1> QED
  BY <1>2, <1>3, <1>4, <1>5, <1>7, <1>8, Zenon DEF SourcesInv, Modulus

\* SourcesInv holds in every state.
LEMMA SourcesInvHolds == SourcesInit /\ [][SourcesNext]_sourceVars => []SourcesInv
<1>1. ASSUME SourcesInv, BmcChanges \/ UNCHANGED sourceVars
      PROVE  SourcesInv'
  <2>1. UNCHANGED <<sources, counter, since, prev_readings, truth, ranged, readings, stage>>
    BY <1>1, Zenon DEF BmcChanges, sourceVars
  <2>2. Counters' = Counters /\ \A i : SinceRead(i)' <=> SinceRead(i)
    BY <2>1, Zenon DEF Counters, SinceRead, Modulus
  <2>3. EnergyCountedOnce' <=> EnergyCountedOnce
    BY <2>1, <2>2, Zenon DEF EnergyCountedOnce
  <2> QED
    BY <1>1, <2>1, <2>2, <2>3, Zenon DEF SourcesInv, Modulus, ReadingsTyped
<1>2. SourcesInv /\ [SourcesNext]_sourceVars => SourcesInv'
  BY <1>1, InitialReadKeeps, ElapseKeeps, CollectKeeps, Zenon DEF SourcesNext
<1> QED
  BY StartSources, <1>2, PTL

\* For any sources, ranges, failures and amounts of energy, the energy behind the
\* power the collection loop (keck-agent/src/main.rs, hardware/rapl.rs,
\* hardware/hwmon.rs) computes from a counter never exceeds the energy used since
\* the last successful read, and falls short of it by at most a unit of energy
\* and a rounded interval unless the counter lapped or its range was not known.
THEOREM EnergyCountedOnceHolds ==
    SourcesInit /\ [][SourcesNext]_sourceVars => []EnergyCountedOnce
<1>1. SourcesInv => EnergyCountedOnce
  BY Zenon DEF SourcesInv
<1> QED
  BY SourcesInvHolds, <1>1, PTL

\* For any hardware, every source discovered on the BMC (hardware/platform.rs)
\* can be read by the method chosen for it while the BMC stays as it was, PSU
\* Total aside.
THEOREM DiscoveredReadableHolds == SourcesInit /\ [][SourcesNext]_sourceVars => []DiscoveredReadable
<1> DEFINE Found == sources \in Seq(FineSources(hw.bmc))
<1>1. SourcesInit => Found
  BY DiscoveredFine, Zenon DEF SourcesInit
<1>2. Found /\ [SourcesNext]_sourceVars => Found'
  <2>1. [SourcesNext]_sourceVars => UNCHANGED <<sources, hw>>
    BY Zenon DEF SourcesNext, InitialRead, Elapse, BmcChanges, Collect, sourceVars
  <2>2. UNCHANGED <<sources, hw>> => FineSources(hw.bmc)' = FineSources(hw.bmc)
    BY Zenon DEF FineSources, Answers
  <2> QED
    BY <2>1, <2>2, Zenon
<1>3. Found => DiscoveredReadable
  <2> SUFFICES ASSUME Found, bmc = hw.bmc, NEW i \in DOMAIN sources
               PROVE  sources[i].method = "PowerApi" \/ Readable(i)
    BY Zenon DEF DiscoveredReadable
  <2>1. sources[i] \in FineSources(hw.bmc)
    OBVIOUS
  <2> QED
    BY <2>1, Zenon DEF FineSources, Readable
<1> QED
  BY <1>1, <1>2, <1>3, PTL

-----------------------------------------------------------------------------
(* Selection of the best reading                                           *)

\* One step of the loop that selects the best reading of a component.
NextBest(c, best, i) ==
    IF sources[i].component = c /\ readings[i].available /\ is_better(c, best, i) THEN {i} ELSE best

\* best is that loop, source by source.
Scan(c, best, n) ==
    /\ best \in [0 .. n -> SUBSET (1 .. n)] /\ best[0] = {} /\ Best(c) = best[n]
    /\ \A k \in 1 .. n : best[k] = NextBest(c, best[k - 1], k)

\* What the loop selects is the end of such a run.
LEMMA SelectionSteps ==
    ASSUME ReadingsTyped, NEW c
    PROVE  Len(sources) \in Nat /\ \E best : Scan(c, best, Len(sources))
<1> DEFINE n == Len(sources)
           D == 1 .. n
           A == SUBSET D
           step == [p \in A \X D |-> NextBest(c, p[1], p[2])]
           Is(h) == h = [s \in SUBSET D |-> IF s = {} THEN {}
                                            ELSE NextBest(c, h[s \ {Top(s)}], Top(s))]
           all == CHOOSE h : Is(h)
<1>1. n \in Nat /\ DOMAIN sources = D
  BY DEF ReadingsTyped
<1> HIDE DEF n
<1>2. Best(c) = all[D]
  BY <1>1, Zenon DEF Best, MapThenFoldSet, NextBest, Max, Top
<1>3. {} \in A /\ step \in [A \X D -> A]
  <2>1. ASSUME NEW p \in A \X D PROVE NextBest(c, p[1], p[2]) \in A
    BY <1>1, Zenon DEF NextBest
  <2> QED
    BY <2>1, Zenon DEF A
<1>4. \A a \in A, k \in D : step[<<a, k>>] = NextBest(c, a, k)
  <2> HIDE DEF A, D
  <2> QED
    BY Zenon
<1> HIDE DEF step, A
<1>5. \E h : Is(h)
  <2>1. PICK h \in [SUBSET D -> A] :
          /\ IsScan(h, step, {}, n)
          /\ \A s \in SUBSET D : s # {} => <<h[s \ {Top(s)}], Top(s)>> \in A \X D
    BY <1>1, <1>3, ScanExists, Zenon
  <2>2. \A s \in SUBSET D : s # {} =>
          step[<<h[s \ {Top(s)}], Top(s)>>] = NextBest(c, h[s \ {Top(s)}], Top(s))
    BY <1>4, <2>1, Zenon
  <2>3. Is(h)
    BY <2>1, <2>2, Zenon DEF IsScan
  <2> QED
    BY <2>3, Zenon
<1>6. Is(all)
  <2> HIDE DEF Is
  <2> QED
    BY <1>5, Zenon
<1> HIDE DEF all
<1>7. all[{}] = {} /\ \A s \in SUBSET D : s # {} =>
        all[s] = NextBest(c, all[s \ {Top(s)}], Top(s))
  BY <1>6, Zenon
<1>8. ASSUME NEW s \in SUBSET D, s # {}, all[s \ {Top(s)}] \in A
      PROVE  all[s] = step[<<all[s \ {Top(s)}], Top(s)>>]
  <2>1. Top(s) \in D
    BY <1>1, <1>8, TopOfPrefix, Zenon
  <2>2. step[<<all[s \ {Top(s)}], Top(s)>>] = NextBest(c, all[s \ {Top(s)}], Top(s))
    BY <1>4, <1>8, <2>1, Zenon
  <2> QED
    BY <1>7, <1>8, <2>2, Zenon
<1>9. PICK t \in [0 .. n -> A] : IsRun(t, step, {}, n) /\ t[n] = all[D]
  <2>1. ScansFrom(all, step, {}, n, A)
    BY <1>7, <1>8, Zenon DEF ScansFrom
  <2>2. n \in Nat
    BY <1>1, Zenon
  <2>3. Runs(step, {}, n, A, all[1 .. n])
    BY <1>3, <2>1, <2>2, ScanRuns, Zenon
  <2> QED
    BY <2>3, Zenon DEF Runs
<1>10. \A k \in 1 .. n : t[k - 1] \in A
  BY <1>1, <1>9
<1>11. \A k \in 1 .. n : t[k] = NextBest(c, t[k - 1], k)
  BY <1>4, <1>9, <1>10, Zenon DEF IsRun
<1>12. Scan(c, t, n)
  BY <1>2, <1>9, <1>11, Zenon DEF Scan, IsRun, A
<1> QED
  BY <1>1, <1>12, Zenon DEF n

\* The sources of a component that delivered power.
Candidates(c) == {i \in DOMAIN sources : sources[i].component = c /\ readings[i].power > 0}

\* No two kinds of reading have the same rank.
LEMMA RankOrder ==
    ASSUME NEW s \in {"Measured", "Estimated", "Derived"}, NEW t \in {"Measured", "Estimated", "Derived"}
    PROVE  /\ Rank(s) \in Nat /\ Rank(t) \in Nat
           /\ Rank(s) = Rank(t) => s = t
BY DEF Rank

\* Of a component other than the platform, the loop selects the first source of
\* the most accurate kind.
LEMMA BestOfKind ==
    ASSUME ReadingsTyped, NEW c, c # "Platform"
    PROVE  /\ Best(c) \subseteq Candidates(c)
           /\ Best(c) = {} \/ \E i \in Candidates(c) : Best(c) = {i}
           /\ Best(c) = {} => Candidates(c) = {}
           /\ \A i \in Best(c), j \in Candidates(c) :
                  \/ Rank(sources[i].reading_type) > Rank(sources[j].reading_type)
                  \/ sources[i].reading_type = sources[j].reading_type /\ i <= j
<1> DEFINE n == Len(sources)
           R(i) == Rank(sources[i].reading_type)
<1>1. PICK best : Scan(c, best, n)
  BY SelectionSteps, Zenon
<1>2. n \in Nat /\ DOMAIN sources = 1 .. n
  BY DEF ReadingsTyped
<1>0. \A i \in 1 .. n : sources[i].reading_type \in {"Measured", "Estimated", "Derived"}
  <2>1. \A i \in 1 .. n : sources[i] \in PowerSources
    BY <1>2 DEF ReadingsTyped
  <2> QED
    BY <2>1, Zenon DEF PowerSources
<1>3. \A i \in 1 .. n : R(i) \in Nat
  BY <1>0, RankOrder, Zenon
<1>4. \A i, j \in 1 .. n : R(i) = R(j) => sources[i].reading_type = sources[j].reading_type
  BY <1>0, RankOrder, Zenon
<1>5. \A i \in 1 .. n : i \in Candidates(c) <=> sources[i].component = c /\ readings[i].available
  BY <1>2, Zenon DEF ReadingsTyped, Candidates
<1>6. \A k \in 1 .. n, b \in SUBSET (1 .. n) :
         is_better(c, b, k) <=> \A i \in b : R(k) > R(i)
  BY Zenon DEF is_better
<1>7. /\ best \in [0 .. n -> SUBSET (1 .. n)] /\ best[0] = {} /\ Best(c) = best[n]
      /\ \A k \in 1 .. n : best[k] =
            IF k \in Candidates(c) /\ is_better(c, best[k - 1], k) THEN {k} ELSE best[k - 1]
  BY <1>1, <1>5, Zenon DEF Scan, NextBest
<1>8. Candidates(c) \subseteq 1 .. n
  BY <1>2, Zenon DEF Candidates
<1> HIDE DEF n, R
<1> DEFINE Right(k) ==
             \/ best[k] = {} /\ Candidates(c) \cap 1 .. k = {}
             \/ \E i \in Candidates(c) : best[k] = {i} /\ i <= k
                  /\ \A j \in Candidates(c) : j <= k => R(i) > R(j) \/ (R(i) = R(j) /\ i <= j)
           Good == {k \in 0 .. n : Right(k)}
<1>9. 0 \in Good
  BY <1>2, <1>7
<1>10. ASSUME NEW k \in 1 .. n, k - 1 \in Good PROVE k \in Good
  <2>1. k \in 0 .. n /\ k - 1 \in 0 .. n /\ Right(k - 1) /\ best[k - 1] \in SUBSET (1 .. n)
    BY <1>2, <1>7, <1>10
  <2>2. best[k] = IF k \in Candidates(c) /\ \A i \in best[k - 1] : R(k) > R(i) THEN {k} ELSE best[k - 1]
    BY <1>6, <1>7, <2>1, Zenon
  <2>3. CASE best[k - 1] = {} /\ Candidates(c) \cap 1 .. (k - 1) = {}
    <3>1. \A j \in Candidates(c) : j <= k => j = k
      BY <1>2, <1>8, <2>3
    <3>2. CASE k \in Candidates(c)
      <4>1. best[k] = {k} /\ k <= k /\ R(k) = R(k)
        BY <2>2, <2>3, <3>2
      <4>2. Right(k)
        BY <3>1, <3>2, <4>1, Zenon
      <4> QED
        BY <2>1, <4>2, Zenon
    <3>3. CASE k \notin Candidates(c)
      <4>1. best[k] = {} /\ Candidates(c) \cap 1 .. k = {}
        BY <1>2, <1>8, <2>2, <2>3, <3>1, <3>3
      <4> QED
        BY <2>1, <4>1, Zenon
    <3> QED
      BY <3>2, <3>3, Zenon
  <2>4. CASE \E i \in Candidates(c) : best[k - 1] = {i} /\ i <= k - 1
              /\ \A j \in Candidates(c) : j <= k - 1 => R(i) > R(j) \/ (R(i) = R(j) /\ i <= j)
    <3>1. PICK i \in Candidates(c) : best[k - 1] = {i} /\ i <= k - 1
              /\ \A j \in Candidates(c) : j <= k - 1 => R(i) > R(j) \/ (R(i) = R(j) /\ i <= j)
      BY <2>4, Zenon
    <3>2. /\ \A j \in Candidates(c) : j \in 1 .. n /\ j \in Nat /\ R(j) \in Nat
          /\ k \in Nat /\ R(k) \in Nat
      BY <1>2, <1>3, <1>8
    <3>3. \A j \in Candidates(c) : j <= k => j = k \/ j <= k - 1
      BY <3>2
    <3>4. CASE k \in Candidates(c) /\ R(k) > R(i)
      <4>1. best[k] = {k} /\ k <= k
        BY <2>2, <3>1, <3>2, <3>4
      <4>2. ASSUME NEW j \in Candidates(c), j <= k
            PROVE  R(k) > R(j) \/ (R(k) = R(j) /\ k <= j)
        BY <3>1, <3>2, <3>3, <3>4, <4>2
      <4>3. Right(k)
        BY <3>4, <4>1, <4>2, Zenon
      <4> QED
        BY <2>1, <4>3, Zenon
    <3>5. CASE ~(k \in Candidates(c) /\ R(k) > R(i))
      <4>1. best[k] = {i} /\ i <= k
        BY <2>2, <3>1, <3>2, <3>5
      <4>2. ASSUME NEW j \in Candidates(c), j <= k
            PROVE  R(i) > R(j) \/ (R(i) = R(j) /\ i <= j)
        BY <3>1, <3>2, <3>3, <3>5, <4>2
      <4>3. Right(k)
        BY <4>1, <4>2, Zenon
      <4> QED
        BY <2>1, <4>3, Zenon
    <3> QED
      BY <3>4, <3>5, Zenon
  <2> QED
    BY <2>1, <2>3, <2>4, Zenon
<1>11. Right(n)
  <2>1. \A k \in 0 .. n : k \in Good
    <3> HIDE DEF Good
    <3> QED
      BY <1>2, <1>9, <1>10, NaturalInduction, Zenon
  <2>2. n \in 0 .. n
    BY <1>2
  <2> QED
    BY <2>1, <2>2, Zenon
<1>12. \A j \in Candidates(c) : j <= n /\ j \in 1 .. n
  BY <1>2, <1>8
<1>13. CASE best[n] = {} /\ Candidates(c) \cap 1 .. n = {}
  BY <1>7, <1>8, <1>13, Zenon
<1>14. CASE \E i \in Candidates(c) : best[n] = {i} /\ i <= n
             /\ \A j \in Candidates(c) : j <= n => R(i) > R(j) \/ (R(i) = R(j) /\ i <= j)
  <2>1. PICK i \in Candidates(c) : best[n] = {i}
             /\ \A j \in Candidates(c) : j <= n => R(i) > R(j) \/ (R(i) = R(j) /\ i <= j)
    BY <1>14, Zenon
  <2>2. \A j \in Candidates(c) : R(i) > R(j) \/ (sources[i].reading_type = sources[j].reading_type /\ i <= j)
    BY <1>4, <1>12, <2>1, Zenon
  <2> QED
    BY <1>7, <2>1, <2>2, Zenon DEF R
<1> QED
  BY <1>11, <1>13, <1>14, Zenon

\* Of the platform it selects a source with the highest power.
LEMMA BestOfPlatform ==
    ASSUME ReadingsTyped
    PROVE  LET platform == Candidates("Platform") IN
           \/ Best("Platform") = {} /\ platform = {}
           \/ \E i \in platform : /\ Best("Platform") = {i}
                                  /\ \A j \in platform : readings[i].power >= readings[j].power
<1> DEFINE n == Len(sources)
           c == "Platform"
           P(i) == readings[i].power
<1>1. PICK best : Scan(c, best, n)
  BY SelectionSteps, Zenon
<1>2. n \in Nat /\ DOMAIN sources = 1 .. n
  BY DEF ReadingsTyped
<1>3. \A i \in 1 .. n : P(i) \in Nat
  BY <1>2, Zenon DEF ReadingsTyped
<1>5. \A i \in 1 .. n : i \in Candidates(c) <=> sources[i].component = c /\ readings[i].available
  BY <1>2, Zenon DEF ReadingsTyped, Candidates
<1>6. \A k \in 1 .. n, b \in SUBSET (1 .. n) :
         is_better(c, b, k) <=> \A i \in b : P(k) > P(i)
  BY Zenon DEF is_better
<1>7. /\ best \in [0 .. n -> SUBSET (1 .. n)] /\ best[0] = {} /\ Best(c) = best[n]
      /\ \A k \in 1 .. n : best[k] =
            IF k \in Candidates(c) /\ is_better(c, best[k - 1], k) THEN {k} ELSE best[k - 1]
  BY <1>1, <1>5, Zenon DEF Scan, NextBest
<1>8. Candidates(c) \subseteq 1 .. n
  BY <1>2, Zenon DEF Candidates
<1> HIDE DEF n, P, c
<1> DEFINE Right(k) ==
             \/ best[k] = {} /\ Candidates(c) \cap 1 .. k = {}
             \/ \E i \in Candidates(c) :
                  /\ best[k] = {i}
                  /\ \A j \in Candidates(c) : j <= k => P(i) >= P(j)
           Good == {k \in 0 .. n : Right(k)}
<1>9. 0 \in Good
  BY <1>2, <1>7
<1>10. ASSUME NEW k \in 1 .. n, k - 1 \in Good PROVE k \in Good
  <2>1. k \in 0 .. n /\ k - 1 \in 0 .. n /\ Right(k - 1) /\ best[k - 1] \in SUBSET (1 .. n)
    BY <1>2, <1>7, <1>10
  <2>2. best[k] = IF k \in Candidates(c) /\ \A i \in best[k - 1] : P(k) > P(i) THEN {k} ELSE best[k - 1]
    BY <1>6, <1>7, <2>1, Zenon
  <2>3. /\ \A j \in Candidates(c) : j \in 1 .. n /\ j \in Nat /\ P(j) \in Nat
        /\ k \in Nat /\ P(k) \in Nat
    BY <1>2, <1>3, <1>8
  <2>4. \A j \in Candidates(c) : j <= k => j = k \/ j <= k - 1
    BY <2>3
  <2>5. CASE best[k - 1] = {} /\ Candidates(c) \cap 1 .. (k - 1) = {}
    <3>1. \A j \in Candidates(c) : j <= k => j = k
      BY <1>2, <1>8, <2>5
    <3>2. CASE k \in Candidates(c)
      <4>1. best[k] = {k} /\ P(k) >= P(k)
        BY <2>2, <2>3, <2>5, <3>2
      <4>2. Right(k)
        BY <3>1, <3>2, <4>1, Zenon
      <4> QED
        BY <2>1, <4>2, Zenon
    <3>3. CASE k \notin Candidates(c)
      <4>1. best[k] = {} /\ Candidates(c) \cap 1 .. k = {}
        BY <1>2, <1>8, <2>2, <2>5, <3>1, <3>3
      <4> QED
        BY <2>1, <4>1, Zenon
    <3> QED
      BY <3>2, <3>3, Zenon
  <2>6. CASE \E i \in Candidates(c) : /\ best[k - 1] = {i}
                                      /\ \A j \in Candidates(c) : j <= k - 1 => P(i) >= P(j)
    <3>1. PICK i \in Candidates(c) : /\ best[k - 1] = {i}
                                     /\ \A j \in Candidates(c) : j <= k - 1 => P(i) >= P(j)
      BY <2>6, Zenon
    <3>2. CASE k \in Candidates(c) /\ P(k) > P(i)
      <4>1. best[k] = {k}
        BY <2>2, <3>1, <3>2, Zenon
      <4>2. ASSUME NEW j \in Candidates(c), j <= k
            PROVE  P(k) >= P(j)
        <5>1. P(i) \in Nat /\ P(j) \in Nat /\ P(k) \in Nat
          BY <2>3, Zenon
        <5>2. j = k \/ P(i) >= P(j)
          BY <2>4, <3>1, <4>2, Zenon
        <5> QED
          BY <3>2, <5>1, <5>2
      <4>3. Right(k)
        BY <3>2, <4>1, <4>2, Zenon
      <4> QED
        BY <2>1, <4>3, Zenon
    <3>3. CASE ~(k \in Candidates(c) /\ P(k) > P(i))
      <4>1. best[k] = {i}
        BY <2>2, <3>1, <3>3, Zenon
      <4>2. ASSUME NEW j \in Candidates(c), j <= k
            PROVE  P(i) >= P(j)
        BY <2>3, <2>4, <3>1, <3>3, <4>2
      <4>3. Right(k)
        BY <4>1, <4>2, Zenon
      <4> QED
        BY <2>1, <4>3, Zenon
    <3> QED
      BY <3>2, <3>3, Zenon
  <2> QED
    BY <2>1, <2>5, <2>6, Zenon
<1>11. Right(n)
  <2>1. \A k \in 0 .. n : k \in Good
    <3> HIDE DEF Good
    <3> QED
      BY <1>2, <1>9, <1>10, NaturalInduction, Zenon
  <2>2. n \in 0 .. n
    BY <1>2
  <2> QED
    BY <2>1, <2>2, Zenon
<1>12. \A j \in Candidates(c) : j <= n /\ j \in 1 .. n
  BY <1>2, <1>8
<1>13. \/ Best(c) = {} /\ Candidates(c) = {}
       \/ \E i \in Candidates(c) : Best(c) = {i} /\ \A j \in Candidates(c) : P(i) >= P(j)
  BY <1>7, <1>8, <1>11, <1>12, Zenon
<1> QED
  BY <1>13, Zenon DEF c, P

\* For any sources and failures, the collection loop (keck-agent/src/main.rs)
\* reports for each component the first source of the most accurate kind among
\* those that delivered power, and of the platform the highest reading.
THEOREM BestReadingsHolds == SourcesInit /\ [][SourcesNext]_sourceVars => []BestReadings
<1>1. ASSUME ReadingsTyped, NEW c \in Component
      PROVE  /\ (Best(c) = {}) = (Candidates(c) = {})
             /\ \A i \in Best(c) : i \in Candidates(c) /\ \A j \in Candidates(c) :
                   IF c = "Platform" THEN readings[i].power >= readings[j].power
                   ELSE \/ Rank(sources[i].reading_type) > Rank(sources[j].reading_type)
                        \/ sources[i].reading_type = sources[j].reading_type /\ i <= j
  <2>1. CASE c = "Platform"
    BY <1>1, <2>1, BestOfPlatform, Zenon
  <2>2. CASE c # "Platform"
    BY <1>1, <2>2, BestOfKind, Zenon
  <2> QED
    BY <2>1, <2>2, Zenon
<1>2. \A c : Candidates(c) = {i \in DOMAIN sources : sources[i].component = c /\ readings[i].power > 0}
  BY Zenon DEF Candidates
<1>3. SourcesInv => BestReadings
  BY <1>1, <1>2, Zenon DEF SourcesInv, BestReadings
<1> QED
  BY SourcesInvHolds, <1>3, PTL

=============================================================================
