----------------------------- MODULE HwCounters -----------------------------
(***************************************************************************)
(* Per-core hardware counters read by the agent itself, which it does when *)
(* the eBPF programs have none (keck-agent/src/perf_counters.rs).  One     *)
(* counter stands for instructions, cycles and cache misses, which are     *)
(* opened, read and subtracted alike.                                      *)
(***************************************************************************)
EXTENDS Integers, FiniteSets, Maps

CONSTANTS
    HwCore,         \* cores that num_online_cpus finds: 0 .. n - 1
    MaxEvents,      \* bound: events of a core
    MaxFailures     \* bound: failed reads of a core

ASSUME HwAssumption == MaxEvents \in Nat /\ MaxFailures \in Nat

VARIABLES
    reader_state,       \* "opening", "open" or "failed"
    fds,                \* cores whose counters are open
    events,             \* core -> what its counter shows
    prev_counter,       \* core -> value of the last read
    deltas,             \* core -> sum of all deltas returned
    readFailures        \* core -> reads that failed

hwVars == <<reader_state, fds, events, prev_counter, deltas, readFailures>>

HwZero == [c \in HwCore |-> 0]

HwInit ==
    /\ reader_state = "opening" /\ fds = {}
    /\ events = HwZero /\ prev_counter = HwZero /\ deltas = HwZero /\ readFailures = HwZero

\* Cores are opened in order; one that fails closes those before it, and the
\* agent goes on without counters.
OpenCore ==
    /\ reader_state = "opening" /\ fds # HwCore
    /\ \/ fds' = fds \cup {Cardinality(fds)} /\ UNCHANGED reader_state
       \/ fds' = {} /\ reader_state' = "failed"
    /\ UNCHANGED <<events, prev_counter, deltas, readFailures>>

Opened ==
    /\ reader_state = "opening" /\ fds = HwCore /\ reader_state' = "open"
    /\ UNCHANGED <<fds, events, prev_counter, deltas, readFailures>>

\* An open counter counts.
Count(c) ==
    /\ c \in fds /\ events[c] < MaxEvents
    /\ events' = [events EXCEPT ![c] = @ + 1]
    /\ UNCHANGED <<reader_state, fds, prev_counter, deltas, readFailures>>

\* A read that fails counts as 0.
read_counter(c, failing) == IF c \in failing THEN 0 ELSE events[c]

\* Mutant: the value is returned instead of the difference.
DeltaAbsolute(c, value) == value

DeltaSince(c, value) == IF value >= prev_counter[c] THEN value - prev_counter[c] ELSE 0

read_deltas(failing) ==
    /\ reader_state = "open" /\ \A c \in failing : readFailures[c] < MaxFailures
    /\ deltas' = [c \in HwCore |-> deltas[c] + DeltaSince(c, read_counter(c, failing))]
    /\ prev_counter' = [c \in HwCore |-> read_counter(c, failing)]
    /\ readFailures' = [c \in HwCore |-> readFailures[c] + (IF c \in failing THEN 1 ELSE 0)]
    /\ UNCHANGED <<reader_state, fds, events>>

\* An interval without counters has no deltas.
NoReader == reader_state = "failed" /\ UNCHANGED hwVars

HwNext ==
    \/ NoReader \/ OpenCore \/ Opened \/ (\E c \in HwCore : Count(c))
    \/ \E failing \in SUBSET HwCore : read_deltas(failing)

HwSpec == HwInit /\ [][HwNext]_hwVars

-----------------------------------------------------------------------------
\* The deltas of all intervals together are the core's events, except that a
\* read that fails makes the next one return everything since the start: each
\* failure can count every event once more, and without one nothing is counted
\* twice.
DeltasBounded == \A c \in HwCore : deltas[c] <= events[c] * (1 + readFailures[c])
=============================================================================
