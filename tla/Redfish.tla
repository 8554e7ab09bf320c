------------------------------ MODULE Redfish -------------------------------
(***************************************************************************)
(* Power sources of a BMC (keck-agent/src/hardware/platform.rs).  A BMC is *)
(* abstracted to the endpoints that answer with a number:                  *)
(*   power     GET .../Power succeeds                                      *)
(*   watts     its PowerControl has PowerConsumedWatts                     *)
(*   defs      metrics with a TelemetryService MetricDefinition            *)
(*   sensors   sensors with a Reading                                      *)
(*   reports   metrics with a value in some MetricReport                   *)
(*   psus      for each entry of PowerSupplies, the readings it has        *)
(***************************************************************************)
EXTENDS Integers, Sequences

Board == "SystemBoardPwrConsumption"

PsuSensor == <<[Input |-> "PSU.Slot.1_InputPower", Output |-> "PSU.Slot.1_OutputPower"],
               [Input |-> "PSU.Slot.2_InputPower", Output |-> "PSU.Slot.2_OutputPower"]>>

ReadMethod == {"SensorReading", "SensorPercentage", "PowerApi", "TelemetryMetric"}

MetricId ==
    {"TotalCPUPower", "CPUPower", "TotalMemoryPower", "DRAMPwr", "TotalFanPower", "TotalStoragePower",
     "TotalPciePower", "SystemBoardCPUUsage", "SystemBoardMEMUsage", "SystemBoardIOUsage",
     "SystemBoardSYSUsage", "PowerConsumedWatts"}
        \cup {PsuSensor[i][side] : i \in 1 .. 2, side \in {"Input", "Output"}}

RedfishSource(component, method, metric, output) ==
    <<[component |-> component, reading_type |-> "Measured", counter |-> FALSE, max |-> 0,
       method |-> method, metric |-> metric, output |-> output]>>

or_else(a, b) == IF a # <<>> THEN a ELSE b

\* read() finds its endpoint.  The answer to the Power API is parsed whatever
\* its status; telemetry falls back to the sensor of the same name.
Answers(bmc, s) ==
    CASE s.method = "SensorReading"    -> s.metric \in bmc.sensors
      [] s.method = "SensorPercentage" -> {s.metric, Board} \subseteq bmc.sensors
      [] s.method = "PowerApi"         -> bmc.watts
      [] s.method = "TelemetryMetric"  -> s.metric \in bmc.reports \cup bmc.sensors

\* Mutant: a metric with a definition is taken to have a value.
try_telemetry_metric_unverified(bmc, metric, component) ==
    IF metric \in bmc.defs THEN RedfishSource(component, "TelemetryMetric", metric, FALSE) ELSE <<>>

try_telemetry_metric(bmc, metric, component) ==
    CASE metric \notin bmc.defs    -> <<>>
      [] metric \in bmc.defs \cap bmc.sensors ->
             RedfishSource(component, "SensorReading", metric, FALSE)
      [] metric \in (bmc.defs \ bmc.sensors) \cap bmc.reports ->
             RedfishSource(component, "TelemetryMetric", metric, FALSE)
      [] OTHER -> <<>>

try_sensor_pct(bmc, sensor, component) ==
    IF {sensor, Board} \subseteq bmc.sensors
    THEN RedfishSource(component, "SensorPercentage", sensor, FALSE) ELSE <<>>

discover_psu_detail(bmc) ==
    LET one(i, side) ==
            IF side \in bmc.psus[i] /\ PsuSensor[i][side] \in bmc.sensors
            THEN RedfishSource("Platform", "SensorReading", PsuSensor[i][side], side = "Output")
            ELSE <<>>
        upto[i \in 0 .. Len(bmc.psus)] ==
            IF i = 0 THEN <<>> ELSE upto[i - 1] \o one(i, "Input") \o one(i, "Output")
    IN  upto[Len(bmc.psus)]

\* For each component the first way that works; PSU Total always.
platform_discover(bmc) ==
    LET telemetry(m, c) == try_telemetry_metric(bmc, m, c)
        pct(m, c) == try_sensor_pct(bmc, m, c)
    IN  IF ~bmc.power THEN <<>> ELSE
           or_else(telemetry("TotalCPUPower", "Cpu"),
                   or_else(pct("SystemBoardCPUUsage", "Cpu"), telemetry("CPUPower", "Cpu")))
        \o or_else(telemetry("TotalMemoryPower", "Memory"),
                   or_else(telemetry("DRAMPwr", "Memory"), pct("SystemBoardMEMUsage", "Memory")))
        \o telemetry("TotalFanPower", "Fan")
        \o telemetry("TotalStoragePower", "Storage")
        \o or_else(pct("SystemBoardIOUsage", "Nic"), telemetry("TotalPciePower", "Nic"))
        \o pct("SystemBoardSYSUsage", "Platform")
        \o discover_psu_detail(bmc)
        \o RedfishSource("Platform", "PowerApi", "PowerConsumedWatts", FALSE)
=============================================================================
