----------------------------- MODULE EbpfSched ------------------------------
(***************************************************************************)
(* CPU time, hardware counters and cgroups per PID: the sched_switch       *)
(* handler fills three BPF maps (keck-ebpf/src/main.rs) while the agent    *)
(* attaches the counters, drains two of the maps every interval and        *)
(* removes dead PIDs from the third (keck-agent/src/ebpf/mod.rs).          *)
(*                                                                         *)
(* A handler runs with the CPU to itself and is one step.  The agent walks *)
(* a map and then removes the keys it saw one system call at a time, so    *)
(* handlers run in between.  Updates of different keys commute, so the     *)
(* walk itself is one step.  Instructions, cycles and cache misses are     *)
(* read, subtracted and stored together: one counter stands for the three. *)
(***************************************************************************)
EXTENDS Integers, FiniteSets, Maps

CONSTANTS
    Cpu,         \* online CPUs (numbers)
    Pid,         \* thread ids other than 0
    Idle,        \* pid 0
    CgroupOf,    \* Pid \cup {Idle} -> cgroup
    MaxEntries,  \* MAX_PID_CPU_ENTRIES and its siblings
    MaxTime      \* bound: the clock stops here

ASSUME SchedAssumption ==
    /\ Cpu \subseteq Nat /\ Idle \notin Pid
    /\ MaxEntries \in Nat /\ MaxTime \in Nat

VARIABLES
    now, on,        \* the clock (0 is before boot) and the task on each CPU
    alive,          \* PIDs that exist
    count,          \* CPU -> its hardware counter, from perf_event_open on
    sched,          \* CPU_SCHED_STATE
    pid_cpu_time, pid_hw, pid_cgroup,   \* the BPF hash maps
    opened, pmc,    \* CPUs with a perf event; progress of attach_perf_to_bpf_maps
    pmc_enabled,    \* PMC_ENABLED[0]
    pc, taken,      \* drain: where it is, and what it read but has not removed
    dead,           \* cleanup_dead_pids: PIDs found dead, not yet removed
    ran, counted,   \* what really happened: time and counter events per key
    excess,         \* what the task on a CPU when PMC_ENABLED was written is charged for others
    times, counters \* what all snapshots so far add up to per key

world == <<now, on, alive, count, ran, counted>>
maps == <<sched, pid_cpu_time, pid_hw, pid_cgroup>>
perf == <<opened, pmc, pmc_enabled, excess>>
reader == <<pc, taken, dead, times, counters>>
schedVars == <<world, maps, perf, reader>>

PidCpuKey == Cpu \X Pid
CpuSchedState == [current_pid : Pid \cup {Idle}, start_time_ns : Nat, start_count : Nat]

SchedTypeOK ==
    /\ now \in Nat /\ on \in [Cpu -> Pid \cup {Idle}] /\ alive \subseteq Pid
    /\ count \in [Cpu -> Nat] /\ ran \in [PidCpuKey -> Nat] /\ counted \in [PidCpuKey -> Nat]
    /\ sched \in [Cpu -> CpuSchedState]
    /\ IsMap(pid_cpu_time, PidCpuKey, Nat) /\ IsMap(pid_hw, PidCpuKey, Nat)
    /\ DOMAIN pid_cgroup \subseteq Pid
    /\ opened \subseteq Cpu /\ pmc \in {"attaching", "active", "unavailable"}
    /\ pmc_enabled \in BOOLEAN /\ excess \in [PidCpuKey -> Int]
    /\ pc \in {"idle", "times", "counters"} /\ IsMap(taken, PidCpuKey, Nat)
    /\ dead \subseteq Pid
    /\ times \in [PidCpuKey -> Nat] /\ counters \in [PidCpuKey -> Nat]

-----------------------------------------------------------------------------
(* sched_switch                                                            *)

saturating_sub(a, b) == IF a >= b THEN a - b ELSE 0

Full(m) == Cardinality(DOMAIN m) >= MaxEntries

\* Mutant: the map makes room by dropping what it holds.
AccumulateEvicting(m, k, v) ==
    IF k \in DOMAIN m \/ ~Full(m) THEN Put(m, k, Get(m, k, 0) + v) ELSE [j \in {k} |-> v]

\* Add to the entry, or insert it; the insert into a full map fails unnoticed.
Accumulate(m, k, v) ==
    IF k \in DOMAIN m \/ ~Full(m) THEN Put(m, k, Get(m, k, 0) + v) ELSE m

\* The task that leaves is charged if the handler saw it come.
Observed(cpu) ==
    /\ sched[cpu].current_pid # Idle /\ sched[cpu].start_time_ns # 0
    /\ now > sched[cpu].start_time_ns

read_perf_counter(cpu) == IF cpu \in opened THEN count[cpu] ELSE 0

\* Mutant: the start values are never taken again.
EnterKeepingStart(cpu, next) ==
    [sched[cpu] EXCEPT !.current_pid = next, !.start_time_ns = now]

Enter(cpu, next) ==
    [current_pid |-> next, start_time_ns |-> now,
     start_count |-> IF pmc_enabled THEN read_perf_counter(cpu) ELSE sched[cpu].start_count]

WithCgroup(next, cgroup) ==
    IF next # Idle /\ (next \in DOMAIN pid_cgroup \/ ~Full(pid_cgroup))
    THEN Put(pid_cgroup, next, cgroup) ELSE pid_cgroup

\* Mutant: PID 0 is not looked at, so idle time goes to the task before.
sched_switch_idle(cpu, next) ==
    LET key == <<cpu, IF on[cpu] = Idle THEN CHOOSE p \in Pid : TRUE ELSE on[cpu]>>
    IN  /\ pid_cpu_time' = IF now > sched[cpu].start_time_ns
                           THEN Accumulate(pid_cpu_time, key, now - sched[cpu].start_time_ns)
                           ELSE pid_cpu_time
        /\ sched' = [sched EXCEPT ![cpu] = Enter(cpu, next)]
        /\ on' = [on EXCEPT ![cpu] = next]
        /\ UNCHANGED <<now, alive, count, ran, counted, pid_hw, pid_cgroup, perf, reader>>

\* The tracepoint fires before the switch: the current cgroup is that of the
\* task that leaves.
sched_switch(cpu, next) ==
    LET key == <<cpu, on[cpu]>>
        delta == saturating_sub(read_perf_counter(cpu), sched[cpu].start_count)
    IN  /\ next # on[cpu] /\ next \in alive \cup {Idle}
        /\ \A c \in Cpu \ {cpu} : on[c] = Idle \/ on[c] # next
        /\ pid_cpu_time' = IF Observed(cpu)
                           THEN Accumulate(pid_cpu_time, key, now - sched[cpu].start_time_ns)
                           ELSE pid_cpu_time
        /\ pid_hw' = IF Observed(cpu) /\ pmc_enabled /\ delta > 0
                     THEN Accumulate(pid_hw, key, delta) ELSE pid_hw
        /\ sched' = [sched EXCEPT ![cpu] = Enter(cpu, next)]
        /\ pid_cgroup' = WithCgroup(next, CgroupOf[on[cpu]])
        /\ on' = [on EXCEPT ![cpu] = next]
        /\ UNCHANGED <<now, alive, count, ran, counted, perf, reader>>

-----------------------------------------------------------------------------
(* The machine                                                             *)

Busy(cpu) == on[cpu] # Idle

TimePasses ==
    /\ now < MaxTime
    /\ now' = now + 1
    /\ ran' = [k \in PidCpuKey |-> IF on[k[1]] = k[2] THEN ran[k] + 1 ELSE ran[k]]
    /\ count' = [c \in Cpu |-> IF c \in opened /\ Busy(c) THEN count[c] + 1 ELSE count[c]]
    /\ counted' = [k \in PidCpuKey |->
                      IF k[1] \in opened /\ on[k[1]] = k[2] THEN counted[k] + 1 ELSE counted[k]]
    /\ UNCHANGED <<on, alive, maps, perf, reader>>

\* A PID ends off the CPU; its number may be used again.
PidEnds(p) ==
    /\ p \in alive /\ \A c \in Cpu : on[c] # p
    /\ alive' = alive \ {p}
    /\ UNCHANGED <<now, on, count, ran, counted, maps, perf, reader>>

PidStarts(p) ==
    /\ p \notin alive
    /\ alive' = alive \cup {p}
    /\ UNCHANGED <<now, on, count, ran, counted, maps, perf, reader>>

-----------------------------------------------------------------------------
(* attach_perf_to_bpf_maps, while sched_switch already runs                *)

\* CPUs are only counted, so the events are opened for 0 .. number - 1.
num_online_cpus == Cardinality(Cpu)

\* The raw system calls on a map (pin, BPF_OBJ_GET, update) succeed or fail.
bpf_map_update_raw == BOOLEAN

perf_event_open ==
    LET cpu == Cardinality(opened)
    IN  /\ pmc = "attaching" /\ cpu < num_online_cpus /\ cpu \in Cpu
        /\ opened' = opened \cup {cpu}
        /\ UNCHANGED <<world, maps, pmc, pmc_enabled, excess, reader>>

\* A CPU cannot be opened or set in its map, and what is open is closed again; or
\* the next map is not found, and it stays open.
AttachFails ==
    /\ pmc = "attaching" /\ Cardinality(opened) < num_online_cpus
    /\ opened' \in {{}, opened} /\ pmc' = "unavailable"
    /\ UNCHANGED <<world, maps, pmc_enabled, excess, reader>>

\* Whether the flag was written is not looked at.
EnablePmc ==
    /\ pmc = "attaching" /\ Cardinality(opened) = num_online_cpus
    /\ pmc' = "active" /\ pmc_enabled' \in bpf_map_update_raw
    /\ excess' = [k \in PidCpuKey |-> IF on[k[1]] = k[2] THEN count[k[1]] - counted[k] ELSE 0]
    /\ UNCHANGED <<world, maps, opened, reader>>

-----------------------------------------------------------------------------
(* drain and cleanup_dead_pids                                             *)

Plus(total, m) == [k \in PidCpuKey |-> total[k] + Get(m, k, 0)]

DrainTimes ==
    /\ pmc # "attaching" /\ pc = "idle" /\ dead = {}
    /\ taken' = pid_cpu_time /\ times' = Plus(times, pid_cpu_time) /\ pc' = "times"
    /\ UNCHANGED <<world, maps, perf, dead, counters>>

RemoveTime(k) ==
    /\ pc = "times" /\ k \in DOMAIN taken
    /\ taken' = Without(taken, k) /\ pid_cpu_time' = Without(pid_cpu_time, k)
    /\ UNCHANGED <<world, sched, pid_hw, pid_cgroup, perf, pc, dead, times, counters>>

DrainCounters ==
    /\ pc = "times" /\ taken = EmptyMap
    /\ pc' = "counters"
    /\ taken' = IF pmc = "active" THEN pid_hw ELSE EmptyMap
    /\ counters' = IF pmc = "active" THEN Plus(counters, pid_hw) ELSE counters
    /\ UNCHANGED <<world, maps, perf, dead, times>>

RemoveCounter(k) ==
    /\ pc = "counters" /\ k \in DOMAIN taken
    /\ taken' = Without(taken, k) /\ pid_hw' = Without(pid_hw, k)
    /\ UNCHANGED <<world, sched, pid_cpu_time, pid_cgroup, perf, pc, dead, times, counters>>

DrainDone ==
    /\ pc = "counters" /\ taken = EmptyMap
    /\ pc' = "idle"
    /\ UNCHANGED <<world, maps, perf, taken, dead, times, counters>>

cleanup_dead_pids ==
    /\ pmc # "attaching" /\ pc = "idle" /\ dead = {}
    /\ dead' = DOMAIN pid_cgroup \ alive
    /\ UNCHANGED <<world, maps, perf, pc, taken, times, counters>>

RemoveDead(p) ==
    /\ p \in dead
    /\ dead' = dead \ {p} /\ pid_cgroup' = Without(pid_cgroup, p)
    /\ UNCHANGED <<world, sched, pid_cpu_time, pid_hw, perf, pc, taken, times, counters>>

-----------------------------------------------------------------------------
Zero == [k \in PidCpuKey |-> 0]

SchedInit ==
    /\ now = 1 /\ on = [c \in Cpu |-> Idle] /\ alive = Pid
    /\ count = [c \in Cpu |-> 0] /\ ran = Zero /\ counted = Zero
    /\ sched = [c \in Cpu |-> [current_pid |-> Idle, start_time_ns |-> 0, start_count |-> 0]]
    /\ pid_cpu_time = EmptyMap /\ pid_hw = EmptyMap /\ pid_cgroup = EmptyMap
    /\ opened = {} /\ pmc = "attaching" /\ pmc_enabled = FALSE /\ excess = Zero
    /\ pc = "idle" /\ taken = EmptyMap /\ dead = {} /\ times = Zero /\ counters = Zero

SchedNext ==
    \/ \E cpu \in Cpu : \E next \in Pid \cup {Idle} : sched_switch(cpu, next)
    \/ TimePasses
    \/ \E p \in Pid : PidEnds(p) \/ PidStarts(p) \/ RemoveDead(p)
    \/ perf_event_open \/ AttachFails \/ EnablePmc
    \/ DrainTimes \/ DrainCounters \/ DrainDone \/ cleanup_dead_pids
    \/ \E k \in PidCpuKey : RemoveTime(k) \/ RemoveCounter(k)

SchedSpec == SchedInit /\ [][SchedNext]_schedVars

-----------------------------------------------------------------------------
(* Correctness                                                             *)

\* What drain has read of a map and has not removed yet is in both.
Reading(phase, k) == IF pc = phase THEN Get(taken, k, 0) ELSE 0

TimeCharged(k) == times[k] + Get(pid_cpu_time, k, 0) - Reading("times", k)
CountCharged(k) == counters[k] + Get(pid_hw, k, 0) - Reading("counters", k)

\* No nanosecond is charged twice or to another task: what the snapshots and
\* the map hold of a task on a CPU never exceeds the time the task ran there,
\* however switches, a running drain and reused PIDs interleave.
TimeNotOvercharged == \A k \in PidCpuKey : TimeCharged(k) <= ran[k]

\* The counters may be enabled while a task is on the CPU whose start values
\* were never read.  That task is then also charged with what the tasks before it
\* counted on that CPU since perf_event_open, once and no more than that; every
\* other task is charged its own work only, on every CPU and for ever.
CountsNotOvercharged ==
    \A k \in PidCpuKey : CountCharged(k) <= counted[k] + excess[k]

\* Charged time is lost only in the window of drain between reading an entry and
\* removing it, and only what was added in that window.
LossOnlyInDrain ==
    [][\A k \in PidCpuKey :
          \/ TimeCharged(k)' >= TimeCharged(k)
          \/ /\ pc = "times" /\ k \in DOMAIN taken
             /\ TimeCharged(k)' = times[k]]_schedVars

=============================================================================
