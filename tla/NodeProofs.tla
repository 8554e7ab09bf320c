----------------------------- MODULE NodeProofs -----------------------------
(***************************************************************************)
(* What the eBPF programs and the counters of the agent charge, for any    *)
(* number of CPUs, tasks, processes and map entries, and any interleaving  *)
(* of the handlers with the drain.                                         *)
(***************************************************************************)
EXTENDS EbpfSched, EbpfFreq, EbpfNet, HwCounters, FoldProofs

-----------------------------------------------------------------------------
(* Maps                                                                    *)

\* A missing entry counts as 0, so reading a map of numbers gives a number.
LEMMA GetIsNat ==
    ASSUME NEW m, NEW K, IsMap(m, K, Nat), NEW k
    PROVE  Get(m, k, 0) \in Nat
BY Zenon DEF IsMap, Get

\* Removing a key leaves the other entries alone.
LEMMA WithoutGet ==
    ASSUME NEW m, NEW K, IsMap(m, K, Nat), NEW k
    PROVE  /\ IsMap(Without(m, k), K, Nat)
           /\ \A j : Get(Without(m, k), j, 0) = IF j = k THEN 0 ELSE Get(m, j, 0)
BY Zenon DEF IsMap, Get, Without, Restrict

\* An accumulated slice is added in full or, when the map is full, not at all,
\* and no other entry changes.
LEMMA AccumulateGet ==
    ASSUME NEW m, IsMap(m, PidCpuKey, Nat), NEW k \in PidCpuKey, NEW v \in Nat
    PROVE  /\ IsMap(Accumulate(m, k, v), PidCpuKey, Nat)
           /\ Get(Accumulate(m, k, v), k, 0) \in {Get(m, k, 0), Get(m, k, 0) + v}
           /\ \A j : j # k => Get(Accumulate(m, k, v), j, 0) = Get(m, j, 0)
<1>1. Get(m, k, 0) \in Nat
  BY GetIsNat, Zenon
<1>2. CASE k \in DOMAIN m \/ ~Full(m)
  <2> DEFINE w == Get(m, k, 0) + v
  <2>1. Accumulate(m, k, v) = Put(m, k, w) /\ w \in Nat
    BY <1>1, <1>2 DEF Accumulate
  <2> HIDE DEF w
  <2>2. IsMap(Put(m, k, w), PidCpuKey, Nat)
    BY <2>1, Zenon DEF IsMap, Put
  <2>3. Get(Put(m, k, w), k, 0) = w /\ \A j : j # k => Get(Put(m, k, w), j, 0) = Get(m, j, 0)
    BY Zenon DEF Put, Get
  <2> QED
    BY <2>1, <2>2, <2>3, Zenon DEF w
<1>3. CASE ~(k \in DOMAIN m \/ ~Full(m))
  BY <1>3, Zenon DEF Accumulate
<1> QED
  BY <1>2, <1>3, Zenon

-----------------------------------------------------------------------------
(* Types                                                                   *)

\* The two things a handler adds to a map are numbers.
LEMMA SliceIsNat ==
    ASSUME SchedTypeOK, NEW cpu \in Cpu
    PROVE  /\ read_perf_counter(cpu) \in Nat
           /\ saturating_sub(read_perf_counter(cpu), sched[cpu].start_count) \in Nat
           /\ Observed(cpu) => now - sched[cpu].start_time_ns \in Nat
<1>1. sched[cpu].start_count \in Nat /\ sched[cpu].start_time_ns \in Nat /\ now \in Nat /\ count[cpu] \in Nat
  BY Zenon DEF SchedTypeOK, CpuSchedState
<1> QED
  BY <1>1 DEF read_perf_counter, saturating_sub, Observed

\* What a switch does to the maps.
LEMMA SwitchTypes ==
    ASSUME SchedTypeOK, NEW cpu \in Cpu, NEW next \in Pid \cup {Idle}, sched_switch(cpu, next),
           sched[cpu].current_pid = on[cpu]
    PROVE  SchedTypeOK'
<1> DEFINE key == <<cpu, on[cpu]>>
           delta == saturating_sub(read_perf_counter(cpu), sched[cpu].start_count)
<1>1. Observed(cpu) => key \in PidCpuKey
  BY Zenon DEF Observed, SchedTypeOK, PidCpuKey
<1>2. IsMap(pid_cpu_time', PidCpuKey, Nat)
  BY <1>1, SliceIsNat, AccumulateGet, Zenon DEF sched_switch, SchedTypeOK
<1>3. IsMap(pid_hw', PidCpuKey, Nat)
  BY <1>1, SliceIsNat, AccumulateGet, Zenon DEF sched_switch, SchedTypeOK
<1>4. DOMAIN pid_cgroup' \subseteq Pid
  BY Zenon DEF sched_switch, SchedTypeOK, WithCgroup, Put
<1>5. Enter(cpu, next) \in CpuSchedState
  BY SliceIsNat, Zenon DEF Enter, SchedTypeOK, CpuSchedState
<1>6. sched' \in [Cpu -> CpuSchedState] /\ on' \in [Cpu -> Pid \cup {Idle}]
  BY <1>5, Zenon DEF sched_switch, SchedTypeOK
<1> QED
  BY <1>2, <1>3, <1>4, <1>6, Zenon DEF sched_switch, SchedTypeOK, perf, reader

\* The task the handler remembers is the one on the CPU, and its slice began no
\* later than now.
Remembers ==
    \A c \in Cpu : sched[c].current_pid = on[c] /\ sched[c].start_time_ns <= now

\* Sums of a map per key are numbers.
LEMMA PlusTypes ==
    ASSUME NEW t \in [PidCpuKey -> Nat], NEW m, IsMap(m, PidCpuKey, Nat)
    PROVE  Plus(t, m) \in [PidCpuKey -> Nat]
BY GetIsNat DEF Plus

\* Types and Remembers are inductive together.
LEMMA SchedTypeNext ==
    SchedTypeOK /\ Remembers /\ [SchedNext]_schedVars => SchedTypeOK' /\ Remembers'
<1> SUFFICES ASSUME SchedTypeOK, Remembers, [SchedNext]_schedVars
             PROVE  SchedTypeOK' /\ Remembers'
  BY Zenon
<1> USE DEF world, maps, perf, reader
<1>1. ASSUME NEW cpu \in Cpu, NEW next \in Pid \cup {Idle}, sched_switch(cpu, next)
      PROVE  SchedTypeOK' /\ Remembers'
  <2>1. SchedTypeOK'
    BY <1>1, SwitchTypes, Zenon DEF Remembers
  <2>2. /\ sched' = [sched EXCEPT ![cpu] = Enter(cpu, next)]
        /\ on' = [on EXCEPT ![cpu] = next] /\ now' = now
    BY <1>1, Zenon DEF sched_switch
  <2>3. Enter(cpu, next).current_pid = next /\ Enter(cpu, next).start_time_ns = now
    BY Zenon DEF Enter
  <2> QED
    BY <2>1, <2>2, <2>3 DEF Remembers, SchedTypeOK
<1>2. CASE TimePasses
  <2>1. now' \in Nat /\ ran' \in [PidCpuKey -> Nat] /\ counted' \in [PidCpuKey -> Nat]
        /\ count' \in [Cpu -> Nat]
    BY <1>2 DEF TimePasses, SchedTypeOK
  <2>2. SchedTypeOK'
    BY <1>2, <2>1, Zenon DEF TimePasses, SchedTypeOK
  <2>3. \A c \in Cpu : sched[c].start_time_ns \in Nat
    BY Zenon DEF SchedTypeOK, CpuSchedState
  <2> QED
    BY <1>2, <2>2, <2>3 DEF TimePasses, Remembers, SchedTypeOK
<1>3. ASSUME NEW p \in Pid, PidEnds(p) \/ PidStarts(p) PROVE SchedTypeOK' /\ Remembers'
  BY <1>3, Zenon DEF PidEnds, PidStarts, SchedTypeOK, Remembers
<1>4. ASSUME NEW p \in Pid, RemoveDead(p) PROVE SchedTypeOK' /\ Remembers'
  BY <1>4, Zenon DEF RemoveDead, SchedTypeOK, Remembers, Without, Restrict
<1>5. CASE perf_event_open \/ AttachFails \/ EnablePmc
  <2>1. excess' \in [PidCpuKey -> Int]
    <3>1. \A k \in PidCpuKey : k[1] \in Cpu
      BY DEF PidCpuKey
    <3>2. \A k \in PidCpuKey : count[k[1]] - counted[k] \in Int
      BY <3>1 DEF SchedTypeOK
    <3>3. 0 \in Int
      OBVIOUS
    <3> QED
      BY <1>5, <3>2, <3>3, Zenon DEF perf_event_open, AttachFails, EnablePmc, SchedTypeOK
  <2> QED
    BY <1>5, <2>1, Zenon DEF perf_event_open, AttachFails, EnablePmc, bpf_map_update_raw,
           SchedTypeOK, Remembers
<1>6. CASE DrainTimes
  BY <1>6, PlusTypes, Zenon DEF DrainTimes, SchedTypeOK, Remembers
<1>7. CASE DrainCounters
  <2>1. IsMap(EmptyMap, PidCpuKey, Nat)
    BY Zenon DEF IsMap, EmptyMap
  <2> QED
    BY <1>7, <2>1, PlusTypes, Zenon DEF DrainCounters, SchedTypeOK, Remembers
<1>8. CASE DrainDone \/ cleanup_dead_pids
  BY <1>8, Zenon DEF DrainDone, cleanup_dead_pids, SchedTypeOK, Remembers
<1>9. ASSUME NEW k \in PidCpuKey, RemoveTime(k) PROVE SchedTypeOK' /\ Remembers'
  BY <1>9, WithoutGet, Zenon DEF RemoveTime, SchedTypeOK, Remembers
<1>10. ASSUME NEW k \in PidCpuKey, RemoveCounter(k) PROVE SchedTypeOK' /\ Remembers'
  BY <1>10, WithoutGet, Zenon DEF RemoveCounter, SchedTypeOK, Remembers
<1>11. CASE UNCHANGED schedVars
  BY <1>11, Zenon DEF schedVars, SchedTypeOK, Remembers
<1> QED
  BY <1>1, <1>2, <1>3, <1>4, <1>5, <1>6, <1>7, <1>8, <1>9, <1>10, <1>11, Zenon DEF SchedNext

-----------------------------------------------------------------------------
(* CPU time per task                                                       *)

\* What the running task has not been charged yet.
TimePending(k) == IF on[k[1]] = k[2] THEN now - sched[k[1]].start_time_ns ELSE 0

\* The time a task ran covers what it was charged and what is pending.  The
\* first conjunct is what remains when drain removes an entry.
TimeInv ==
    \A k \in PidCpuKey :
        /\ times[k] + TimePending(k) <= ran[k]
        /\ TimeCharged(k) + TimePending(k) <= ran[k]

\* Everything TimeInv compares is a number.
LEMMA TimeNumbers ==
    ASSUME SchedTypeOK, Remembers, NEW k \in PidCpuKey
    PROVE  /\ times[k] \in Nat /\ ran[k] \in Nat /\ now \in Nat
           /\ Get(pid_cpu_time, k, 0) \in Nat /\ Get(taken, k, 0) \in Nat
           /\ Reading("times", k) \in Nat /\ TimePending(k) \in Nat
           /\ k[1] \in Cpu /\ k[2] \in Pid /\ k = <<k[1], k[2]>>
<1>1. k[1] \in Cpu /\ k[2] \in Pid /\ k = <<k[1], k[2]>>
  BY DEF PidCpuKey
<1>2. Get(pid_cpu_time, k, 0) \in Nat /\ Get(taken, k, 0) \in Nat
  BY GetIsNat, Zenon DEF SchedTypeOK
<1>3. sched[k[1]].start_time_ns \in Nat /\ sched[k[1]].start_time_ns <= now
  BY <1>1, Zenon DEF SchedTypeOK, Remembers, CpuSchedState
<1> QED
  BY <1>1, <1>2, <1>3 DEF SchedTypeOK, Reading, TimePending

\* A switch turns pending time into charged time, or loses it.
LEMMA SwitchTime ==
    ASSUME SchedTypeOK, Remembers, TimeInv, NEW cpu \in Cpu, NEW next \in Pid \cup {Idle},
           sched_switch(cpu, next)
    PROVE  /\ TimeInv'
           /\ \A k \in PidCpuKey : TimeCharged(k)' >= TimeCharged(k)
<1> SUFFICES ASSUME NEW k \in PidCpuKey
             PROVE  /\ (times[k] + TimePending(k) <= ran[k])'
                    /\ (TimeCharged(k) + TimePending(k) <= ran[k])'
                    /\ TimeCharged(k)' >= TimeCharged(k)
  BY Zenon DEF TimeInv
<1> DEFINE key == <<cpu, on[cpu]>>
           slice == now - sched[cpu].start_time_ns
<1>1. /\ sched' = [sched EXCEPT ![cpu] = Enter(cpu, next)] /\ on' = [on EXCEPT ![cpu] = next]
      /\ UNCHANGED <<now, ran, times, pc, taken>> /\ next # on[cpu]
      /\ pid_cpu_time' = IF Observed(cpu) THEN Accumulate(pid_cpu_time, key, slice) ELSE pid_cpu_time
  BY Zenon DEF sched_switch, reader
<1>2. Reading("times", k)' = Reading("times", k)
  BY <1>1, Zenon DEF Reading
<1>3. CASE k[1] # cpu
  <2>1. k # key
    BY <1>3, TimeNumbers
  <2>2. Get(pid_cpu_time', k, 0) = Get(pid_cpu_time, k, 0)
    <3>1. CASE Observed(cpu)
      <4>1. key \in PidCpuKey /\ slice \in Nat
        BY <3>1, SliceIsNat, Zenon DEF Observed, Remembers, SchedTypeOK, PidCpuKey
      <4> HIDE DEF key, slice
      <4> QED
        BY <1>1, <2>1, <3>1, <4>1, AccumulateGet DEF SchedTypeOK
    <3> QED
      BY <1>1, <3>1, Zenon
  <2>3. TimePending(k)' = TimePending(k)
    BY <1>1, <1>3, TimeNumbers, Zenon DEF TimePending, SchedTypeOK
  <2> QED
    BY <1>1, <1>2, <2>2, <2>3, TimeNumbers DEF TimeInv, TimeCharged
<1>4. CASE k[1] = cpu
  <2>1. TimePending(k)' = 0
    <3>1. sched'[cpu].start_time_ns = now
      BY <1>1, Zenon DEF Enter, SchedTypeOK
    <3> QED
      BY <1>1, <1>4, <3>1, TimeNumbers DEF TimePending
  <2>2. CASE Observed(cpu) /\ on[cpu] = k[2]
    <3>1. k = key /\ slice = TimePending(k) /\ slice \in Nat
      BY <1>4, <2>2, TimeNumbers, Zenon DEF TimePending
    <3> HIDE DEF key, slice
    <3>2. Get(pid_cpu_time', k, 0) \in {Get(pid_cpu_time, k, 0), Get(pid_cpu_time, k, 0) + slice}
      BY <1>1, <2>2, <3>1, AccumulateGet, Zenon DEF SchedTypeOK
    <3> QED
      BY <1>1, <1>2, <2>1, <3>1, <3>2, TimeNumbers DEF TimeInv, TimeCharged
  <2>3. CASE ~(Observed(cpu) /\ on[cpu] = k[2])
    <3>1. Get(pid_cpu_time', k, 0) = Get(pid_cpu_time, k, 0)
      <4>1. CASE Observed(cpu)
        <5>1. key \in PidCpuKey /\ slice \in Nat
          BY <4>1, SliceIsNat, Zenon DEF Observed, Remembers, SchedTypeOK, PidCpuKey
        <5>2. k # key
          BY <2>3, <4>1, TimeNumbers
        <5> HIDE DEF key, slice
        <5> QED
          BY <1>1, <4>1, <5>1, <5>2, AccumulateGet DEF SchedTypeOK
      <4> QED
        BY <1>1, <4>1, Zenon
    <3> QED
      BY <1>1, <1>2, <2>1, <3>1, TimeNumbers DEF TimeInv, TimeCharged
  <2> QED
    BY <2>2, <2>3, Zenon
<1> QED
  BY <1>3, <1>4, Zenon

\* Steps that touch neither the clock nor the tasks nor the times leave TimeInv
\* and the charges alone.
LEMMA TimeUnchanged ==
    ASSUME SchedTypeOK, UNCHANGED <<now, on, sched, ran, times, pid_cpu_time>>,
           \A k \in PidCpuKey : Reading("times", k)' = Reading("times", k)
    PROVE  /\ TimeInv => TimeInv'
           /\ \A k \in PidCpuKey : TimeCharged(k)' = TimeCharged(k)
<1>1. \A k \in PidCpuKey : TimeCharged(k)' = TimeCharged(k) /\ TimePending(k)' = TimePending(k)
  BY Zenon DEF TimeCharged, TimePending
<1> QED
  BY <1>1, Zenon DEF TimeInv

\* The drain moves charges from the map to the snapshot, and a removal is the
\* only step that loses some.
LEMMA DrainTime ==
    ASSUME SchedTypeOK, Remembers, TimeInv,
           DrainTimes \/ \E r \in PidCpuKey : RemoveTime(r)
    PROVE  /\ TimeInv'
           /\ \A k \in PidCpuKey : \/ TimeCharged(k)' = TimeCharged(k)
                                   \/ /\ pc = "times" /\ k \in DOMAIN taken
                                      /\ TimeCharged(k)' = times[k]
<1> USE DEF world, maps, perf
<1>1. \A k \in PidCpuKey : TimePending(k)' = TimePending(k) /\ ran' = ran
  BY Zenon DEF DrainTimes, RemoveTime, TimePending
<1>2. CASE DrainTimes
  <2>1. ASSUME NEW k \in PidCpuKey
        PROVE  /\ TimeCharged(k)' = TimeCharged(k)
               /\ times'[k] = TimeCharged(k)
    <3>1. /\ times'[k] = times[k] + Get(pid_cpu_time, k, 0) /\ Reading("times", k) = 0
          /\ Reading("times", k)' = Get(pid_cpu_time, k, 0) /\ pid_cpu_time' = pid_cpu_time
      BY <1>2, Zenon DEF DrainTimes, Plus, Reading
    <3> QED
      BY <3>1, TimeNumbers DEF TimeCharged
  <2> QED
    BY <1>1, <2>1, Zenon DEF TimeInv
<1>3. ASSUME NEW r \in PidCpuKey, RemoveTime(r)
      PROVE  /\ TimeInv'
             /\ \A k \in PidCpuKey : \/ TimeCharged(k)' = TimeCharged(k)
                                     \/ /\ pc = "times" /\ k \in DOMAIN taken
                                        /\ TimeCharged(k)' = times[k]
  <2>1. ASSUME NEW k \in PidCpuKey
        PROVE  /\ times'[k] = times[k]
               /\ TimeCharged(k)' = IF k = r THEN times[k] ELSE TimeCharged(k)
    <3>1. /\ Get(pid_cpu_time', k, 0) = IF k = r THEN 0 ELSE Get(pid_cpu_time, k, 0)
          /\ Get(taken', k, 0) = IF k = r THEN 0 ELSE Get(taken, k, 0)
      BY <1>3, WithoutGet DEF RemoveTime, SchedTypeOK
    <3>2. pc = "times" /\ pc' = "times" /\ times' = times
      BY <1>3, Zenon DEF RemoveTime
    <3> QED
      BY <3>1, <3>2, TimeNumbers DEF TimeCharged, Reading
  <2>2. pc = "times" /\ r \in DOMAIN taken
    BY <1>3, Zenon DEF RemoveTime
  <2> QED
    BY <1>1, <2>1, <2>2, Zenon DEF TimeInv
<1> QED
  BY <1>2, <1>3, Zenon

\* What the other steps of the agent and the machine do to the times: nothing.
LEMMA TimeOthers ==
    ASSUME SchedTypeOK, Remembers, [SchedNext]_schedVars, ~TimePasses, ~DrainTimes,
           ~\E cpu \in Cpu : \E next \in Pid \cup {Idle} : sched_switch(cpu, next),
           ~\E r \in PidCpuKey : RemoveTime(r)
    PROVE  /\ TimeInv => TimeInv'
           /\ \A k \in PidCpuKey : TimeCharged(k)' = TimeCharged(k)
<1> USE DEF world, maps, perf, reader
<1>1. UNCHANGED <<now, on, sched, ran, times, pid_cpu_time>>
  BY Zenon DEF SchedNext, schedVars, PidEnds, PidStarts, RemoveDead, perf_event_open, AttachFails,
         EnablePmc, DrainCounters, DrainDone, cleanup_dead_pids, RemoveCounter
<1>2. ASSUME NEW k \in PidCpuKey PROVE Reading("times", k)' = Reading("times", k)
  <2>1. CASE DrainCounters
    BY <2>1, Zenon DEF DrainCounters, Reading, Get, EmptyMap
  <2>2. CASE DrainDone \/ \E r \in PidCpuKey : RemoveCounter(r)
    BY <2>2, Zenon DEF DrainDone, RemoveCounter, Reading
  <2>3. CASE UNCHANGED <<pc, taken>>
    BY <2>3, Zenon DEF Reading
  <2> QED
    BY <2>1, <2>2, <2>3, Zenon DEF SchedNext, schedVars, PidEnds, PidStarts, RemoveDead,
         perf_event_open, AttachFails, EnablePmc, cleanup_dead_pids
<1> QED
  BY <1>1, <1>2, TimeUnchanged, Zenon

\* While time passes, a task runs for as long as its pending time grows.
LEMMA TimePassesTime ==
    ASSUME SchedTypeOK, Remembers, TimeInv, TimePasses
    PROVE  /\ TimeInv'
           /\ \A k \in PidCpuKey : TimeCharged(k)' = TimeCharged(k)
<1> SUFFICES ASSUME NEW k \in PidCpuKey
             PROVE  /\ (times[k] + TimePending(k) <= ran[k])'
                    /\ (TimeCharged(k) + TimePending(k) <= ran[k])'
                    /\ TimeCharged(k)' = TimeCharged(k)
  BY Zenon DEF TimeInv
<1>1. UNCHANGED <<on, sched, times, pid_cpu_time, pc, taken>> /\ now' = now + 1
  BY Zenon DEF TimePasses, maps, perf, reader
<1>2. ran'[k] = IF on[k[1]] = k[2] THEN ran[k] + 1 ELSE ran[k]
  BY Zenon DEF TimePasses
<1>3. TimeCharged(k)' = TimeCharged(k) /\ TimeCharged(k) \in Int
  BY <1>1, TimeNumbers DEF TimeCharged, Reading
<1>4. sched[k[1]].start_time_ns \in Nat
  BY TimeNumbers, Zenon DEF SchedTypeOK, CpuSchedState
<1>5. TimePending(k)' = IF on[k[1]] = k[2] THEN TimePending(k) + 1 ELSE TimePending(k)
  BY <1>1, <1>4, TimeNumbers DEF TimePending
<1> QED
  BY <1>1, <1>2, <1>3, <1>5, TimeNumbers DEF TimeInv

\* TimeInv is inductive.
LEMMA TimeNext ==
    SchedTypeOK /\ Remembers /\ TimeInv /\ [SchedNext]_schedVars => TimeInv'
BY SwitchTime, DrainTime, TimeOthers, TimePassesTime, Zenon

\* At the start nothing ran and nothing is charged.
LEMMA SchedStart == SchedInit => SchedTypeOK /\ Remembers /\ TimeInv
<1> SUFFICES ASSUME SchedInit PROVE SchedTypeOK /\ Remembers /\ TimeInv
  BY Zenon
<1>1. IsMap(EmptyMap, PidCpuKey, Nat) /\ DOMAIN EmptyMap = {} /\ Zero \in [PidCpuKey -> Nat]
  BY Zenon DEF IsMap, EmptyMap, Zero
<1>0. Zero \in [PidCpuKey -> Int]
  BY DEF Zero
<1>2. SchedTypeOK
  BY <1>0, <1>1, Zenon DEF SchedInit, SchedTypeOK, CpuSchedState
<1>3. Remembers
  BY DEF SchedInit, Remembers
<1>4. \A k \in PidCpuKey : /\ times[k] = 0 /\ ran[k] = 0 /\ Get(pid_cpu_time, k, 0) = 0
                           /\ Reading("times", k) = 0
  BY <1>1, Zenon DEF SchedInit, Zero, Get, Reading
<1>5. \A k \in PidCpuKey : on[k[1]] # k[2]
  BY SchedAssumption, Zenon DEF SchedInit, PidCpuKey
<1> QED
  BY <1>2, <1>3, <1>4, <1>5 DEF TimeInv, TimeCharged, TimePending

\* The invariants of the time maps.
LEMMA SchedInvariant == SchedSpec => [](SchedTypeOK /\ Remembers /\ TimeInv)
BY SchedStart, SchedTypeNext, TimeNext, PTL DEF SchedSpec

\* The types of the maps and of what drain holds.
THEOREM SchedTypeCorrect == SchedSpec => []SchedTypeOK
BY SchedInvariant, PTL

\* A task is never charged for more than the time it ran on a CPU.
THEOREM TimeNotOverchargedHolds == SchedSpec => []TimeNotOvercharged
<1>1. SchedTypeOK /\ Remembers /\ TimeInv => TimeNotOvercharged
  <2> SUFFICES ASSUME SchedTypeOK, Remembers, TimeInv, NEW k \in PidCpuKey
               PROVE  TimeCharged(k) <= ran[k]
    BY Zenon DEF TimeNotOvercharged
  <2> QED
    BY TimeNumbers DEF TimeInv, TimeCharged
<1> QED
  BY <1>1, SchedInvariant, PTL

\* Charged time is lost only between the read and the removal of an entry.
THEOREM LossOnlyInDrainHolds == SchedSpec => LossOnlyInDrain
<1> DEFINE Loss ==
        \A k \in PidCpuKey :
          \/ TimeCharged(k)' >= TimeCharged(k)
          \/ /\ pc = "times" /\ k \in DOMAIN taken
             /\ TimeCharged(k)' = times[k]
<1>1. SchedTypeOK /\ Remembers /\ TimeInv /\ [SchedNext]_schedVars => [Loss]_schedVars
  <2> SUFFICES ASSUME SchedTypeOK, Remembers, TimeInv, SchedNext PROVE Loss
    BY Zenon
  <2>1. \A k \in PidCpuKey : TimeCharged(k) \in Int
    BY TimeNumbers DEF TimeCharged
  <2> QED
    BY <2>1, SwitchTime, DrainTime, TimeOthers, TimePassesTime
<1> QED
  BY <1>1, SchedInvariant, PTL DEF SchedSpec, LossOnlyInDrain

-----------------------------------------------------------------------------
(* CPU counters per task                                                   *)

\* What the running task would be charged if it left now.
CountPending(k) ==
    IF pmc_enabled /\ on[k[1]] = k[2]
    THEN saturating_sub(read_perf_counter(k[1]), sched[k[1]].start_count) ELSE 0

\* Nothing is counted before PMC_ENABLED is written, and afterwards the events
\* of a task cover its charges, with the excess of the task that was on the CPU
\* at that moment.
CountInv ==
    /\ pmc_enabled => pmc = "active"
    /\ ~pmc_enabled => /\ DOMAIN pid_hw = {} /\ \A k \in PidCpuKey : counters[k] = 0
                       /\ \A c \in Cpu : sched[c].start_count = 0
    /\ \A k \in PidCpuKey :
        /\ counters[k] + CountPending(k) <= counted[k] + excess[k]
        /\ CountCharged(k) + CountPending(k) <= counted[k] + excess[k]

\* Everything CountInv compares is a number.
LEMMA CountNumbers ==
    ASSUME SchedTypeOK, NEW k \in PidCpuKey
    PROVE  /\ counters[k] \in Nat /\ counted[k] \in Nat /\ excess[k] \in Int
           /\ Get(pid_hw, k, 0) \in Nat /\ Get(taken, k, 0) \in Nat
           /\ Reading("counters", k) \in Nat /\ CountPending(k) \in Nat
           /\ k[1] \in Cpu /\ k[2] \in Pid /\ k = <<k[1], k[2]>>
<1>1. k[1] \in Cpu /\ k[2] \in Pid /\ k = <<k[1], k[2]>>
  BY DEF PidCpuKey
<1>2. Get(pid_hw, k, 0) \in Nat /\ Get(taken, k, 0) \in Nat
  BY GetIsNat, Zenon DEF SchedTypeOK
<1>3. saturating_sub(read_perf_counter(k[1]), sched[k[1]].start_count) \in Nat
  BY <1>1, SliceIsNat, Zenon
<1> QED
  BY <1>1, <1>2, <1>3, Zenon DEF SchedTypeOK, Reading, CountPending

\* A switch charges at most what was pending, and the next task starts with
\* nothing pending.
LEMMA SwitchCount ==
    ASSUME SchedTypeOK, Remembers, CountInv, NEW cpu \in Cpu, NEW next \in Pid \cup {Idle},
           sched_switch(cpu, next)
    PROVE  CountInv'
<1> DEFINE key == <<cpu, on[cpu]>>
           delta == saturating_sub(read_perf_counter(cpu), sched[cpu].start_count)
<1>1. /\ sched' = [sched EXCEPT ![cpu] = Enter(cpu, next)] /\ on' = [on EXCEPT ![cpu] = next]
      /\ UNCHANGED <<count, counted, counters, pc, taken, pmc, pmc_enabled, opened, excess>>
      /\ next # on[cpu]
      /\ pid_hw' = IF Observed(cpu) /\ pmc_enabled /\ delta > 0
                   THEN Accumulate(pid_hw, key, delta) ELSE pid_hw
  BY Zenon DEF sched_switch, perf, reader
<1>2. delta \in Nat /\ (Observed(cpu) => key \in PidCpuKey)
  BY SliceIsNat, Zenon DEF Observed, Remembers, SchedTypeOK, PidCpuKey
<1>3. ~pmc_enabled => /\ DOMAIN pid_hw' = {} /\ \A c \in Cpu : sched'[c].start_count = 0
  BY <1>1, Zenon DEF CountInv, Enter, SchedTypeOK
<1>4. ASSUME NEW k \in PidCpuKey
      PROVE  /\ (counters[k] + CountPending(k) <= counted[k] + excess[k])'
             /\ (CountCharged(k) + CountPending(k) <= counted[k] + excess[k])'
  <2>1. Reading("counters", k)' = Reading("counters", k)
    BY <1>1, Zenon DEF Reading
  <2>2. \/ Get(pid_hw', k, 0) = Get(pid_hw, k, 0)
        \/ /\ k = key /\ pmc_enabled
           /\ Get(pid_hw', k, 0) = Get(pid_hw, k, 0) + delta
    <3> HIDE DEF key, delta
    <3>1. CASE Observed(cpu) /\ pmc_enabled /\ delta > 0
      BY <1>1, <1>2, <3>1, AccumulateGet DEF SchedTypeOK
    <3> QED
      BY <1>1, <3>1, Zenon
  <2>3. CASE k[1] # cpu
    <3>1. CountPending(k)' = CountPending(k)
      BY <1>1, <2>3, CountNumbers, Zenon DEF CountPending, SchedTypeOK, read_perf_counter
    <3>2. k # key
      BY <2>3, CountNumbers
    <3> QED
      BY <1>1, <2>1, <2>2, <3>1, <3>2, CountNumbers, Zenon DEF CountInv, CountCharged
  <2>4. CASE k[1] = cpu
    <3>1. CountPending(k)' = 0
      <4>1. pmc_enabled => sched'[cpu].start_count = read_perf_counter(cpu)
        BY <1>1, Zenon DEF Enter, SchedTypeOK
      <4>2. read_perf_counter(cpu)' = read_perf_counter(cpu) /\ read_perf_counter(cpu) \in Nat
        BY <1>1, SliceIsNat, Zenon DEF read_perf_counter
      <4> QED
        BY <1>1, <2>4, <4>1, <4>2 DEF CountPending, saturating_sub
    <3>2. k = key /\ pmc_enabled => delta = CountPending(k)
      BY <2>4 DEF CountPending
    <3>3. /\ counters[k] + CountPending(k) <= counted[k] + excess[k]
          /\ CountCharged(k) + CountPending(k) <= counted[k] + excess[k]
      BY Zenon DEF CountInv
    <3>4. UNCHANGED <<counters, counted, excess>>
      BY <1>1, Zenon
    <3> HIDE DEF delta, key
    <3>5. /\ CountCharged(k)' \in {CountCharged(k), CountCharged(k) + CountPending(k)}
          /\ CountCharged(k) \in Int
      BY <2>1, <2>2, <3>2, <3>4, CountNumbers DEF CountCharged
    <3> QED
      BY <3>1, <3>3, <3>4, <3>5, CountNumbers
  <2> QED
    BY <2>3, <2>4, Zenon
<1> QED
  BY <1>1, <1>3, <1>4, Zenon DEF CountInv

\* An event of an open counter belongs to the task on the CPU.
LEMMA TimePassesCount ==
    ASSUME SchedTypeOK, CountInv, TimePasses
    PROVE  CountInv'
<1>1. UNCHANGED <<on, sched, pid_hw, counters, pc, taken, pmc, pmc_enabled, opened, excess>>
  BY Zenon DEF TimePasses, maps, perf, reader
<1>2. ASSUME NEW k \in PidCpuKey
      PROVE  /\ (counters[k] + CountPending(k) <= counted[k] + excess[k])'
             /\ (CountCharged(k) + CountPending(k) <= counted[k] + excess[k])'
  <2> DEFINE mine == k[1] \in opened /\ on[k[1]] = k[2]
  <2>1. counted'[k] = IF mine THEN counted[k] + 1 ELSE counted[k]
    BY Zenon DEF TimePasses
  <2>2. count'[k[1]] = count[k[1]] \/ (count'[k[1]] = count[k[1]] + 1 /\ k[1] \in opened)
    BY CountNumbers, Zenon DEF TimePasses
  <2>3. count[k[1]] \in Nat /\ sched[k[1]].start_count \in Nat
    BY CountNumbers, Zenon DEF SchedTypeOK, CpuSchedState
  <2>4. CountPending(k)' \in {CountPending(k), CountPending(k) + (IF mine THEN 1 ELSE 0)}
    BY <1>1, <2>2, <2>3, SMTT(30) DEF CountPending, read_perf_counter, saturating_sub
  <2>5. CountCharged(k)' = CountCharged(k) /\ CountCharged(k) \in Int
    BY <1>1, CountNumbers DEF CountCharged, Reading
  <2>6. /\ counters[k] + CountPending(k) <= counted[k] + excess[k]
        /\ CountCharged(k) + CountPending(k) <= counted[k] + excess[k]
    BY Zenon DEF CountInv
  <2>7. UNCHANGED <<counters, excess>>
    BY <1>1, Zenon
  <2> HIDE DEF mine
  <2> QED
    BY <2>1, <2>4, <2>5, <2>6, <2>7, CountNumbers
<1> QED
  BY <1>1, <1>2, Zenon DEF CountInv

\* The drain of the counters, as that of the times.
LEMMA DrainCount ==
    ASSUME SchedTypeOK, CountInv, DrainCounters \/ \E r \in PidCpuKey : RemoveCounter(r)
    PROVE  CountInv'
<1> USE DEF world, maps, perf
<1>1. UNCHANGED <<on, sched, count, counted, pmc, pmc_enabled, opened, excess>>
  BY Zenon DEF DrainCounters, RemoveCounter
<1>2. \A k \in PidCpuKey : CountPending(k)' = CountPending(k)
  BY <1>1, Zenon DEF CountPending, read_perf_counter
<1>3. CASE DrainCounters
  <2>1. ASSUME NEW k \in PidCpuKey
        PROVE  /\ CountCharged(k)' = CountCharged(k)
               /\ counters'[k] \in {counters[k], CountCharged(k)}
               /\ ~pmc_enabled => counters'[k] = 0
    <3>1. Reading("counters", k) = 0 /\ pid_hw' = pid_hw
      BY <1>3, Zenon DEF DrainCounters, Reading
    <3>2. CASE pmc = "active"
      <4>1. /\ counters'[k] = counters[k] + Get(pid_hw, k, 0)
            /\ Reading("counters", k)' = Get(pid_hw, k, 0)
        BY <1>3, <3>2, Zenon DEF DrainCounters, Plus, Reading
      <4>2. ~pmc_enabled => Get(pid_hw, k, 0) = 0 /\ counters[k] = 0
        BY Zenon DEF CountInv, Get
      <4> QED
        BY <3>1, <4>1, <4>2, CountNumbers DEF CountCharged
    <3>3. CASE pmc # "active"
      <4>1. counters' = counters /\ Reading("counters", k)' = 0
        BY <1>3, <3>3, Zenon DEF DrainCounters, Reading, Get, EmptyMap
      <4> QED
        BY <3>1, <4>1, CountNumbers, Zenon DEF CountCharged, CountInv
    <3> QED
      BY <3>2, <3>3, Zenon
  <2>2. pid_hw' = pid_hw
    BY <1>3, Zenon DEF DrainCounters
  <2> QED
    BY <1>1, <1>2, <2>1, <2>2, Zenon DEF CountInv
<1>4. ASSUME NEW r \in PidCpuKey, RemoveCounter(r) PROVE CountInv'
  <2>1. ASSUME NEW k \in PidCpuKey
        PROVE  counters'[k] = counters[k] /\ CountCharged(k)' \in {counters[k], CountCharged(k)}
    <3>1. /\ Get(pid_hw', k, 0) = IF k = r THEN 0 ELSE Get(pid_hw, k, 0)
          /\ Get(taken', k, 0) = IF k = r THEN 0 ELSE Get(taken, k, 0)
      BY <1>4, WithoutGet DEF RemoveCounter, SchedTypeOK
    <3>2. pc = "counters" /\ pc' = "counters" /\ counters' = counters
      BY <1>4, Zenon DEF RemoveCounter
    <3> QED
      BY <3>1, <3>2, CountNumbers DEF CountCharged, Reading
  <2>2. DOMAIN pid_hw = {} => DOMAIN pid_hw' = {}
    BY <1>4, Zenon DEF RemoveCounter, Without, Restrict
  <2> QED
    BY <1>1, <1>2, <2>1, <2>2, Zenon DEF CountInv
<1> QED
  BY <1>3, <1>4, Zenon

\* Attaching: while counters are opened none is read; when the flag is written,
\* what a CPU counted for others so far is what the task on it is charged too much.
LEMMA AttachCount ==
    ASSUME SchedTypeOK, CountInv, perf_event_open \/ AttachFails \/ EnablePmc
    PROVE  CountInv'
<1>1. UNCHANGED <<on, sched, count, counted, pid_hw, counters, pc, taken>> /\ ~pmc_enabled
  BY DEF CountInv, perf_event_open, AttachFails, EnablePmc, world, maps, reader
<1>0. \/ excess' = excess /\ ~pmc_enabled'
      \/ /\ excess' = [k \in PidCpuKey |-> IF on[k[1]] = k[2] THEN count[k[1]] - counted[k] ELSE 0]
         /\ pmc' = "active"
  BY <1>1, Zenon DEF perf_event_open, AttachFails, EnablePmc
<1>2. ASSUME NEW k \in PidCpuKey
      PROVE  /\ (counters[k] + CountPending(k) <= counted[k] + excess[k])'
             /\ (CountCharged(k) + CountPending(k) <= counted[k] + excess[k])'
  <2>1. count[k[1]] \in Nat /\ sched[k[1]].start_count = 0 /\ counted[k] \in Nat
    BY <1>1, CountNumbers, Zenon DEF SchedTypeOK, CountInv
  <2>2. counters[k] = 0 /\ Get(pid_hw, k, 0) = 0
    BY <1>1, Zenon DEF CountInv, Get
  <2>3. CountCharged(k)' \in Int /\ CountCharged(k)' <= 0 /\ counters'[k] = 0
    BY <1>1, <2>2, CountNumbers DEF CountCharged, Reading
  <2>4. CASE excess' = excess /\ ~pmc_enabled'
    <3>1. CountPending(k)' = 0
      BY <2>4, Zenon DEF CountPending
    <3>2. 0 <= counted[k] + excess[k]
      <4>1. counters[k] + CountPending(k) <= counted[k] + excess[k] /\ CountPending(k) = 0
        BY <1>1, Zenon DEF CountInv, CountPending
      <4> QED
        BY <2>2, <4>1
    <3> QED
      BY <1>1, <2>3, <2>4, <3>1, <3>2, CountNumbers
  <2>5. CASE excess' = [j \in PidCpuKey |-> IF on[j[1]] = j[2] THEN count[j[1]] - counted[j] ELSE 0]
    <3>1. excess'[k] = IF on[k[1]] = k[2] THEN count[k[1]] - counted[k] ELSE 0
      BY <2>5, Zenon
    <3>2. CountPending(k)' \in Nat /\ CountPending(k)' <= counted[k] + excess'[k]
      BY <1>1, <2>1, <3>1 DEF CountPending, read_perf_counter, saturating_sub
    <3> QED
      BY <1>1, <2>1, <2>3, <3>1, <3>2
  <2> QED
    BY <1>0, <2>4, <2>5, Zenon
<1> QED
  BY <1>0, <1>1, <1>2, Zenon DEF CountInv

\* The other steps do nothing to the counters.
LEMMA CountOthers ==
    ASSUME SchedTypeOK, CountInv, [SchedNext]_schedVars, ~TimePasses, ~DrainCounters,
           ~perf_event_open, ~AttachFails, ~EnablePmc,
           ~\E cpu \in Cpu : \E next \in Pid \cup {Idle} : sched_switch(cpu, next),
           ~\E r \in PidCpuKey : RemoveCounter(r)
    PROVE  CountInv'
<1> USE DEF world, maps, perf, reader
<1>1. UNCHANGED <<on, sched, count, counted, counters, pid_hw, perf>>
  BY Zenon DEF SchedNext, schedVars, PidEnds, PidStarts, RemoveDead, DrainTimes, DrainDone,
         cleanup_dead_pids, RemoveTime
<1>2. ASSUME NEW k \in PidCpuKey PROVE Reading("counters", k)' = Reading("counters", k)
  <2>1. CASE DrainDone
    BY <2>1, Zenon DEF DrainDone, Reading, Get, EmptyMap
  <2>2. CASE DrainTimes \/ \E r \in PidCpuKey : RemoveTime(r)
    BY <2>2, Zenon DEF DrainTimes, RemoveTime, Reading
  <2>3. CASE UNCHANGED <<pc, taken>>
    BY <2>3, Zenon DEF Reading
  <2> QED
    BY <2>1, <2>2, <2>3, Zenon DEF SchedNext, schedVars, PidEnds, PidStarts, RemoveDead, cleanup_dead_pids
<1>3. \A k \in PidCpuKey : CountPending(k)' = CountPending(k) /\ CountCharged(k)' = CountCharged(k)
  BY <1>1, <1>2, Zenon DEF CountPending, CountCharged, read_perf_counter
<1> QED
  BY <1>1, <1>3, Zenon DEF CountInv

\* At the start nothing is counted.
LEMMA CountStart == SchedInit => CountInv
<1> SUFFICES ASSUME SchedInit PROVE CountInv
  BY Zenon
<1>1. \A k \in PidCpuKey : /\ counters[k] = 0 /\ counted[k] = 0 /\ excess[k] = 0
                           /\ CountPending(k) = 0 /\ CountCharged(k) = 0
  BY SMTT(30) DEF SchedInit, Zero, CountPending, CountCharged, Reading, Get, EmptyMap, PidCpuKey
<1> QED
  BY <1>1 DEF SchedInit, CountInv, EmptyMap

\* A task is charged no more events than it caused (handle_sched_switch in
\* keck-ebpf/src/main.rs), save the task that was on a CPU when the counters were
\* enabled, which is also charged what that CPU counted for others until then.
THEOREM CountsNotOverchargedHolds == SchedSpec => []CountsNotOvercharged
<1>1. SchedTypeOK /\ Remembers /\ CountInv /\ [SchedNext]_schedVars => CountInv'
  BY SwitchCount, TimePassesCount, DrainCount, AttachCount, CountOthers, Zenon
<1>2. SchedTypeOK /\ CountInv => CountsNotOvercharged
  <2> SUFFICES ASSUME SchedTypeOK, CountInv, NEW k \in PidCpuKey
               PROVE  CountCharged(k) <= counted[k] + excess[k]
    BY Zenon DEF CountsNotOvercharged
  <2> QED
    BY CountNumbers DEF CountInv, CountCharged
<1> QED
  BY <1>1, <1>2, CountStart, SchedInvariant, PTL DEF SchedSpec

-----------------------------------------------------------------------------
(* Hardware counters of the agent                                          *)

\* Each failed read can count every event of its core once more; the events
\* since the last read are still to come.
HwInv ==
    /\ events \in [HwCore -> Nat] /\ prev_counter \in [HwCore -> Nat]
    /\ deltas \in [HwCore -> Nat] /\ readFailures \in [HwCore -> Nat]
    /\ \A c \in HwCore : /\ prev_counter[c] <= events[c]
                         /\ deltas[c] <= events[c] * readFailures[c] + prev_counter[c]

\* One more factor.
LEMMA TimesOneMore ==
    \A a, b \in Nat : /\ a * b \in Nat /\ (a + 1) * b = a * b + b /\ a * (b + 1) = a * b + a
                      /\ a * (1 + b) = a * b + a
OBVIOUS

\* A read, with any of the cores failing.
LEMMA ReadKeeps ==
    ASSUME HwInv, NEW failing \in SUBSET HwCore, read_deltas(failing)
    PROVE  HwInv'
<1>1. ASSUME NEW c \in HwCore
      PROVE  /\ prev_counter'[c] \in Nat /\ deltas'[c] \in Nat /\ readFailures'[c] \in Nat
             /\ prev_counter'[c] <= events[c]
             /\ deltas'[c] <= events[c] * readFailures'[c] + prev_counter'[c]
  <2>1. /\ events[c] \in Nat /\ prev_counter[c] \in Nat /\ deltas[c] \in Nat /\ readFailures[c] \in Nat
        /\ prev_counter[c] <= events[c] /\ deltas[c] <= events[c] * readFailures[c] + prev_counter[c]
    BY Zenon DEF HwInv
  <2>2. /\ events[c] * readFailures[c] \in Nat
        /\ events[c] * (readFailures[c] + 1) = events[c] * readFailures[c] + events[c]
    BY <2>1, TimesOneMore, Zenon
  <2>3. CASE c \in failing
    <3>1. prev_counter'[c] = 0 /\ deltas'[c] = deltas[c] + DeltaSince(c, 0) /\ readFailures'[c] = readFailures[c] + 1
      BY <2>3, Zenon DEF read_deltas, read_counter
    <3>2. DeltaSince(c, 0) = 0
      BY <2>1 DEF DeltaSince
    <3> QED
      BY <2>1, <2>2, <3>1, <3>2
  <2>4. CASE c \notin failing
    <3>1. /\ prev_counter'[c] = events[c] /\ deltas'[c] = deltas[c] + (events[c] - prev_counter[c])
          /\ readFailures'[c] = readFailures[c]
      BY <2>1, <2>4 DEF read_deltas, read_counter, DeltaSince
    <3> QED
      BY <2>1, <2>2, <3>1
  <2> QED
    BY <2>3, <2>4, Zenon
<1>2. /\ DOMAIN prev_counter' = HwCore /\ DOMAIN deltas' = HwCore /\ DOMAIN readFailures' = HwCore
      /\ events' = events
      /\ prev_counter' = [c \in HwCore |-> prev_counter'[c]]
      /\ deltas' = [c \in HwCore |-> deltas'[c]]
      /\ readFailures' = [c \in HwCore |-> readFailures'[c]]
  BY Zenon DEF read_deltas
<1> QED
  BY <1>1, <1>2, Zenon DEF HwInv

\* An event more.
LEMMA CountKeeps ==
    ASSUME HwInv, NEW c \in HwCore, Count(c)
    PROVE  HwInv'
<1>1. events' = [events EXCEPT ![c] = @ + 1] /\ UNCHANGED <<prev_counter, deltas, readFailures>>
  BY Zenon DEF Count
<1>2. (events[c] + 1) * readFailures[c] = events[c] * readFailures[c] + readFailures[c]
      /\ events[c] * readFailures[c] \in Nat
  BY TimesOneMore DEF HwInv
<1>3. events'[c] = events[c] + 1 /\ events' \in [HwCore -> Nat]
  BY <1>1 DEF HwInv
<1>4. /\ prev_counter[c] <= events'[c]
      /\ deltas[c] <= events'[c] * readFailures[c] + prev_counter[c]
  BY <1>2, <1>3 DEF HwInv
<1> QED
  BY <1>1, <1>3, <1>4, Zenon DEF HwInv

\* The agent's counters never return more than the events of a core, once more
\* for every read that failed.
THEOREM DeltasBoundedHolds == HwSpec => []DeltasBounded
<1>1. HwInit => HwInv
  BY DEF HwInit, HwZero, HwInv
<1>2. HwInv /\ [HwNext]_hwVars => HwInv'
  <2> SUFFICES ASSUME HwInv, [HwNext]_hwVars PROVE HwInv'
    BY Zenon
  <2>1. CASE NoReader \/ OpenCore \/ Opened \/ UNCHANGED hwVars
    BY <2>1, Zenon DEF NoReader, OpenCore, Opened, hwVars, HwInv
  <2> QED
    BY <2>1, ReadKeeps, CountKeeps, Zenon DEF HwNext
<1>3. HwInv => DeltasBounded
  <2> SUFFICES ASSUME HwInv, NEW c \in HwCore
               PROVE  deltas[c] <= events[c] * (1 + readFailures[c])
    BY Zenon DEF DeltasBounded
  <2>1. /\ events[c] \in Nat /\ readFailures[c] \in Nat /\ deltas[c] \in Nat /\ prev_counter[c] \in Nat
        /\ prev_counter[c] <= events[c] /\ deltas[c] <= events[c] * readFailures[c] + prev_counter[c]
    BY Zenon DEF HwInv
  <2>2. events[c] * (1 + readFailures[c]) = events[c] * readFailures[c] + events[c]
        /\ events[c] * readFailures[c] \in Nat
    BY <2>1, TimesOneMore, Zenon
  <2> QED
    BY <2>1, <2>2
<1> QED
  BY <1>1, <1>2, <1>3, PTL DEF HwSpec

-----------------------------------------------------------------------------
(* Frequency residency                                                     *)

\* The maps of the frequency handler have their types.
FreqTypeOK ==
    /\ shared \in BOOLEAN /\ clock \in Nat /\ freq \in [FreqCpu -> Freq]
    /\ spent \in [CpuFreqKey -> Nat] /\ residency \in [CpuFreqKey -> Nat]
    /\ freq_state \in [FreqCpu -> SUBSET [khz : Freq, since : Nat]]
    /\ IsMap(cpu_freq_time, CpuFreqKey, Nat) /\ IsMap(freqTaken, CpuFreqKey, Nat)

\* With a policy per CPU the state names the CPU's own frequency.
StateIsOwn ==
    \A c \in FreqCpu : \A s \in freq_state[c] : s.khz = freq[c] /\ s.since <= clock

\* The last frequency event of a CPU.
StateOf(c) == CHOOSE s \in freq_state[c] : TRUE

\* Time at the present frequency that is not charged yet.
FreqPending(k) ==
    IF freq_state[k[1]] # {} /\ freq[k[1]] = k[2] THEN clock - StateOf(k[1]).since ELSE 0

\* The inductive invariant behind FreqNotOvercharged: what is charged, with
\* what the next event will charge, is within the time spent.
FreqInv ==
    /\ FreqTypeOK
    /\ ~shared => /\ StateIsOwn
                  /\ \A k \in CpuFreqKey : /\ residency[k] + FreqPending(k) <= spent[k]
                                           /\ FreqCharged(k) + FreqPending(k) <= spent[k]

\* Everything FreqInv compares is a number.
LEMMA FreqNumbers ==
    ASSUME FreqTypeOK, StateIsOwn, NEW k \in CpuFreqKey
    PROVE  /\ residency[k] \in Nat /\ spent[k] \in Nat /\ FreqPending(k) \in Nat /\ clock \in Nat
           /\ Get(cpu_freq_time, k, 0) \in Nat /\ Get(freqTaken, k, 0) \in Nat
           /\ k[1] \in FreqCpu /\ k[2] \in Freq /\ k = <<k[1], k[2]>>
<1>1. k[1] \in FreqCpu /\ k[2] \in Freq /\ k = <<k[1], k[2]>>
  BY DEF CpuFreqKey
<1>2. freq_state[k[1]] # {} => StateOf(k[1]) \in freq_state[k[1]]
  BY Zenon DEF StateOf
<1>3. freq_state[k[1]] # {} => StateOf(k[1]).since \in Nat /\ StateOf(k[1]).since <= clock
  BY <1>1, <1>2 DEF FreqTypeOK, StateIsOwn
<1> QED
  BY <1>1, <1>3, GetIsNat DEF FreqTypeOK, FreqPending

\* Charging adds the time to one key, or loses it when the map is full.
LEMMA ChargeGet ==
    ASSUME FreqTypeOK, NEW key \in CpuFreqKey, NEW e \in Int
    PROVE  /\ IsMap(ChargeFreq(key, e), CpuFreqKey, Nat)
           /\ \/ Get(ChargeFreq(key, e), key, 0) = Get(cpu_freq_time, key, 0)
              \/ e > 0 /\ Get(ChargeFreq(key, e), key, 0) = Get(cpu_freq_time, key, 0) + e
           /\ \A j : j # key => Get(ChargeFreq(key, e), j, 0) = Get(cpu_freq_time, j, 0)
<1> DEFINE w == Get(cpu_freq_time, key, 0) + e
           fits == e > 0 /\ (key \in DOMAIN cpu_freq_time \/ Cardinality(DOMAIN cpu_freq_time) < MaxFreqEntries)
<1>1. Get(cpu_freq_time, key, 0) \in Nat
  BY GetIsNat, Zenon DEF FreqTypeOK
<1>2. CASE fits
  <2>1. ChargeFreq(key, e) = Put(cpu_freq_time, key, w) /\ w \in Nat /\ e > 0
    BY <1>1, <1>2 DEF ChargeFreq
  <2> HIDE DEF w, fits
  <2>2. IsMap(Put(cpu_freq_time, key, w), CpuFreqKey, Nat)
    BY <2>1, Zenon DEF IsMap, Put, FreqTypeOK
  <2>3. Get(Put(cpu_freq_time, key, w), key, 0) = w
        /\ \A j : j # key => Get(Put(cpu_freq_time, key, w), j, 0) = Get(cpu_freq_time, j, 0)
    BY Zenon DEF Put, Get
  <2> QED
    BY <2>1, <2>2, <2>3, Zenon DEF w
<1>3. CASE ~fits
  BY <1>3, Zenon DEF ChargeFreq, FreqTypeOK
<1> QED
  BY <1>2, <1>3, Zenon

\* The handler keeps the types, shared policies included.
LEMMA FrequencyTypes ==
    ASSUME FreqTypeOK, NEW r \in FreqCpu, NEW c \in FreqCpu, NEW f \in Freq, cpu_frequency(r, c, f)
    PROVE  FreqTypeOK'
<1>1. IsMap(cpu_freq_time', CpuFreqKey, Nat)
  <2>1. CASE freq_state[r] = {}
    BY <2>1, Zenon DEF cpu_frequency, FreqTypeOK
  <2>2. CASE freq_state[r] # {}
    <3>1. cpu_freq_time' = ChargeFreq(<<c, StateOf(r).khz>>, clock - StateOf(r).since)
      BY <2>2, Zenon DEF cpu_frequency, StateOf
    <3>2. StateOf(r) \in [khz : Freq, since : Nat]
      BY <2>2, Zenon DEF StateOf, FreqTypeOK
    <3>3. <<c, StateOf(r).khz>> \in CpuFreqKey /\ clock - StateOf(r).since \in Int
      BY <3>2 DEF CpuFreqKey, FreqTypeOK
    <3> QED
      BY <3>1, <3>3, ChargeGet, Zenon
  <2> QED
    BY <2>1, <2>2, Zenon
<1>2. freq_state' \in [FreqCpu -> SUBSET [khz : Freq, since : Nat]] /\ freq' \in [FreqCpu -> Freq]
  BY DEF cpu_frequency, FreqTypeOK
<1> QED
  BY <1>1, <1>2, Zenon DEF cpu_frequency, FreqTypeOK

\* With a policy per CPU the handler charges what was pending.
LEMMA FrequencyKeeps ==
    ASSUME FreqInv, NEW r \in FreqCpu, NEW c \in FreqCpu, NEW f \in Freq, cpu_frequency(r, c, f)
    PROVE  FreqInv'
<1>1. FreqTypeOK'
  BY FrequencyTypes, Zenon DEF FreqInv
<1>2. ASSUME ~shared
      PROVE  /\ StateIsOwn'
             /\ \A k \in CpuFreqKey : /\ (residency[k] + FreqPending(k) <= spent[k])'
                                      /\ (FreqCharged(k) + FreqPending(k) <= spent[k])'
  <2>1. /\ r = c /\ freq' = [freq EXCEPT ![c] = f]
        /\ freq_state' = [freq_state EXCEPT ![c] = {[khz |-> f, since |-> clock]}]
        /\ UNCHANGED <<clock, spent, freqTaken, residency>>
    BY <1>2, Zenon DEF cpu_frequency
  <2>2. FreqTypeOK /\ StateIsOwn
    BY <1>2, Zenon DEF FreqInv
  <2>3. StateIsOwn'
    BY <2>1, <2>2 DEF StateIsOwn, FreqTypeOK
  <2>4. ASSUME NEW k \in CpuFreqKey
        PROVE  /\ (residency[k] + FreqPending(k) <= spent[k])'
               /\ (FreqCharged(k) + FreqPending(k) <= spent[k])'
    <3>1. /\ residency[k] + FreqPending(k) <= spent[k]
          /\ FreqCharged(k) + FreqPending(k) <= spent[k]
      BY <1>2, Zenon DEF FreqInv
    <3>2. FreqPending(k)' = IF k[1] = c THEN 0 ELSE FreqPending(k)
      <4>1. CASE k[1] = c
        <5>1. freq_state'[c] = {[khz |-> f, since |-> clock]}
          BY <2>1, <2>2, Zenon DEF FreqTypeOK
        <5>2. StateOf(k[1])' = [khz |-> f, since |-> clock]
          BY <4>1, <5>1, Zenon DEF StateOf
        <5>3. StateOf(k[1])'.since = clock /\ clock' = clock /\ clock - clock = 0
          BY <2>1, <2>2, <5>2 DEF FreqTypeOK
        <5> QED
          BY <4>1, <5>3, Zenon DEF FreqPending
      <4>2. CASE k[1] # c
        BY <2>1, <2>2, <4>2, FreqNumbers DEF FreqPending, StateOf, FreqTypeOK
      <4> QED
        BY <4>1, <4>2, Zenon
    <3>3. \/ Get(cpu_freq_time', k, 0) = Get(cpu_freq_time, k, 0)
          \/ /\ k[1] = c
             /\ Get(cpu_freq_time', k, 0) = Get(cpu_freq_time, k, 0) + FreqPending(k)
      <4>1. CASE freq_state[c] = {}
        BY <2>1, <4>1, Zenon DEF cpu_frequency
      <4>2. CASE freq_state[c] # {}
        <5> DEFINE key == <<c, StateOf(c).khz>>
                   e == clock - StateOf(c).since
        <5>1. cpu_freq_time' = ChargeFreq(key, e)
          BY <2>1, <4>2, Zenon DEF cpu_frequency, StateOf
        <5>2. StateOf(c) \in freq_state[c]
          BY <4>2, Zenon DEF StateOf
        <5>3. StateOf(c).khz = freq[c] /\ StateOf(c).since \in Nat
          BY <2>2, <5>2 DEF StateIsOwn, FreqTypeOK
        <5>4. key \in CpuFreqKey /\ e \in Int
          BY <2>2, <5>3 DEF CpuFreqKey, FreqTypeOK
        <5>5. k = key => k[1] = c /\ e = FreqPending(k)
          BY <4>2, <5>3 DEF FreqPending
        <5> HIDE DEF key, e
        <5> QED
          BY <2>2, <5>1, <5>4, <5>5, ChargeGet, Zenon
      <4> QED
        BY <4>1, <4>2, Zenon
    <3> QED
      BY <2>1, <2>2, <3>1, <3>2, <3>3, FreqNumbers DEF FreqCharged
  <2> QED
    BY <2>3, <2>4, Zenon
<1>3. shared' = shared
  BY Zenon DEF cpu_frequency
<1> QED
  BY <1>1, <1>2, <1>3, Zenon DEF FreqInv

\* While time passes a CPU spends it at its frequency.
LEMMA FreqTimeKeeps ==
    ASSUME FreqInv, FreqTimePasses
    PROVE  FreqInv'
<1>1. /\ clock' = clock + 1 /\ UNCHANGED <<shared, freq, freq_state, cpu_freq_time, freqTaken, residency>>
      /\ spent' = [k \in CpuFreqKey |-> IF freq[k[1]] = k[2] THEN spent[k] + 1 ELSE spent[k]]
  BY Zenon DEF FreqTimePasses
<1>2. FreqTypeOK'
  BY <1>1 DEF FreqInv, FreqTypeOK
<1>3. ASSUME ~shared, NEW k \in CpuFreqKey
      PROVE  /\ (residency[k] + FreqPending(k) <= spent[k])'
             /\ (FreqCharged(k) + FreqPending(k) <= spent[k])'
  <2>1. /\ FreqTypeOK /\ StateIsOwn
        /\ residency[k] + FreqPending(k) <= spent[k]
        /\ FreqCharged(k) + FreqPending(k) <= spent[k]
    BY <1>3, Zenon DEF FreqInv
  <2>2. StateOf(k[1])' = StateOf(k[1])
    BY <1>1, Zenon DEF StateOf
  <2>3. freq_state[k[1]] # {} => StateOf(k[1]).since \in Nat
    BY <2>1, FreqNumbers DEF StateOf, FreqTypeOK
  <2>4. /\ freq[k[1]] = k[2] => FreqPending(k)' \in {FreqPending(k), FreqPending(k) + 1}
        /\ freq[k[1]] # k[2] => FreqPending(k)' = FreqPending(k)
    BY <1>1, <2>1, <2>2, <2>3, FreqNumbers DEF FreqPending
  <2>5. FreqCharged(k)' = FreqCharged(k) /\ FreqCharged(k) \in Int
    BY <1>1, <2>1, FreqNumbers DEF FreqCharged
  <2>6. /\ residency'[k] = residency[k]
        /\ spent'[k] = IF freq[k[1]] = k[2] THEN spent[k] + 1 ELSE spent[k]
    BY <1>1, Zenon
  <2> QED
    BY <2>1, <2>4, <2>5, <2>6, FreqNumbers
<1>4. ~shared => StateIsOwn'
  BY <1>1 DEF FreqInv, StateIsOwn, FreqTypeOK
<1> QED
  BY <1>1, <1>2, <1>3, <1>4, Zenon DEF FreqInv

\* Drain moves the residency to the snapshot and removes what it read.
LEMMA FreqDrainKeeps ==
    ASSUME FreqInv, DrainFreq \/ \E r \in CpuFreqKey : RemoveFreq(r)
    PROVE  FreqInv'
<1> USE DEF freqMachine
<1>1. UNCHANGED <<shared, clock, freq, spent, freq_state>>
  BY Zenon DEF DrainFreq, RemoveFreq
<1>2. /\ StateIsOwn => StateIsOwn'
      /\ \A k \in CpuFreqKey : FreqPending(k)' = FreqPending(k)
  BY <1>1 DEF StateIsOwn, FreqPending, StateOf
<1>3. CASE DrainFreq
  <2>1. FreqTypeOK'
    BY <1>1, <1>3, GetIsNat DEF DrainFreq, FreqInv, FreqTypeOK
  <2>2. ASSUME ~shared, NEW k \in CpuFreqKey
        PROVE  residency'[k] = FreqCharged(k) /\ FreqCharged(k)' = FreqCharged(k)
    <3>1. /\ residency'[k] = residency[k] + Get(cpu_freq_time, k, 0) /\ Get(freqTaken, k, 0) = 0
          /\ freqTaken' = cpu_freq_time /\ cpu_freq_time' = cpu_freq_time
      BY <1>3, Zenon DEF DrainFreq, Get, EmptyMap
    <3>2. FreqTypeOK /\ StateIsOwn
      BY <2>2, Zenon DEF FreqInv
    <3> QED
      BY <3>1, <3>2, FreqNumbers DEF FreqCharged
  <2> QED
    BY <1>1, <1>2, <2>1, <2>2, Zenon DEF FreqInv
<1>4. ASSUME NEW r \in CpuFreqKey, RemoveFreq(r) PROVE FreqInv'
  <2>1. FreqTypeOK'
    BY <1>1, <1>4, WithoutGet, Zenon DEF RemoveFreq, FreqInv, FreqTypeOK
  <2>2. ASSUME ~shared, NEW k \in CpuFreqKey
        PROVE  residency'[k] = residency[k] /\ FreqCharged(k)' \in {residency[k], FreqCharged(k)}
    <3>1. /\ Get(cpu_freq_time', k, 0) = IF k = r THEN 0 ELSE Get(cpu_freq_time, k, 0)
          /\ Get(freqTaken', k, 0) = IF k = r THEN 0 ELSE Get(freqTaken, k, 0)
          /\ residency' = residency
      BY <1>4, WithoutGet DEF RemoveFreq, FreqInv, FreqTypeOK
    <3>2. FreqTypeOK /\ StateIsOwn
      BY <2>2, Zenon DEF FreqInv
    <3> QED
      BY <3>1, <3>2, FreqNumbers DEF FreqCharged
  <2> QED
    BY <1>1, <1>2, <2>1, <2>2, Zenon DEF FreqInv
<1> QED
  BY <1>3, <1>4, Zenon

\* With a frequency policy per CPU, no CPU is charged more time at a frequency
\* than it spent there.
THEOREM FreqNotOverchargedHolds == FreqSpec => []FreqNotOvercharged
<1>1. FreqInit => FreqInv
  <2> SUFFICES ASSUME FreqInit PROVE FreqInv
    BY Zenon
  <2>1. FreqTypeOK
    BY Zenon DEF FreqInit, FreqTypeOK, IsMap, EmptyMap
  <2>2. \A k \in CpuFreqKey : /\ residency[k] = 0 /\ spent[k] = 0
                              /\ FreqPending(k) = 0 /\ FreqCharged(k) = 0
    BY DEF FreqInit, FreqPending, FreqCharged, Get, EmptyMap, CpuFreqKey
  <2> QED
    BY <2>1, <2>2 DEF FreqInv, StateIsOwn, FreqInit
<1>2. FreqInv /\ [FreqNext]_freqVars => FreqInv'
  <2> SUFFICES ASSUME FreqInv, [FreqNext]_freqVars PROVE FreqInv'
    BY Zenon
  <2>1. CASE UNCHANGED freqVars
    BY <2>1, Zenon DEF freqVars, freqMachine, FreqInv, FreqTypeOK, StateIsOwn, FreqPending, StateOf, FreqCharged
  <2> QED
    BY <2>1, FrequencyKeeps, FreqTimeKeeps, FreqDrainKeeps, Zenon DEF FreqNext
<1>3. FreqInv => FreqNotOvercharged
  <2> SUFFICES ASSUME FreqInv, ~shared, NEW k \in CpuFreqKey PROVE FreqCharged(k) <= spent[k]
    BY Zenon DEF FreqNotOvercharged
  <2>1. FreqTypeOK /\ StateIsOwn /\ FreqCharged(k) + FreqPending(k) <= spent[k]
    BY Zenon DEF FreqInv
  <2> QED
    BY <2>1, FreqNumbers DEF FreqCharged
<1> QED
  BY <1>1, <1>2, <1>3, PTL DEF FreqSpec

-----------------------------------------------------------------------------
(* The residency of all CPUs                                               *)

\* When the CPU's charge goes on from: its last event, or the start.
SinceOf(c) == IF freq_state[c] = {} THEN 1 ELSE StateOf(c).since

\* The charge of every key, and the time every CPU has behind it.
ChargedUp == [k \in CpuFreqKey |-> FreqCharged(k)]
TimeBehind == [c \in FreqCpu |-> SinceOf(c) - 1]

\* The inductive invariant behind FreqTotalBounded: the charges of all CPUs are
\* within the time they had up to their last events, whichever CPU an event
\* names.
FreqTotalInv ==
    /\ FreqTypeOK
    /\ clock >= 1 /\ \A c \in FreqCpu : \A s \in freq_state[c] : s.since \in 1 .. clock
    /\ \A k \in CpuFreqKey : Get(freqTaken, k, 0) <= Get(cpu_freq_time, k, 0)
    /\ SumFunctionOnSet(ChargedUp, CpuFreqKey) <= SumFunctionOnSet(TimeBehind, FreqCpu)

\* There are finitely many CPUs and frequencies.
LEMMA FreqKeysFinite == IsFiniteSet(FreqCpu) /\ IsFiniteSet(CpuFreqKey)
BY FreqAssumption, FS_Product, Zenon DEF CpuFreqKey

\* Charges and times are numbers.
LEMMA FreqTotalNumbers ==
    ASSUME FreqTotalInv
    PROVE  /\ \A k \in CpuFreqKey : /\ residency[k] \in Nat /\ Get(cpu_freq_time, k, 0) \in Nat
                                    /\ Get(freqTaken, k, 0) \in Nat
                                    /\ ChargedUp[k] \in Int /\ ChargedUp[k] = FreqCharged(k)
           /\ \A c \in FreqCpu : /\ SinceOf(c) \in 1 .. clock /\ TimeBehind[c] = SinceOf(c) - 1
                                 /\ TimeBehind[c] \in Int
           /\ SumFunctionOnSet(ChargedUp, CpuFreqKey) \in Int
           /\ SumFunctionOnSet(TimeBehind, FreqCpu) \in Int
<1>1. ASSUME NEW k \in CpuFreqKey
      PROVE  /\ residency[k] \in Nat /\ Get(cpu_freq_time, k, 0) \in Nat
             /\ Get(freqTaken, k, 0) \in Nat
             /\ ChargedUp[k] \in Int /\ ChargedUp[k] = FreqCharged(k)
  <2>1. residency[k] \in Nat /\ Get(cpu_freq_time, k, 0) \in Nat /\ Get(freqTaken, k, 0) \in Nat
    BY GetIsNat, Zenon DEF FreqTotalInv, FreqTypeOK
  <2> QED
    BY <2>1 DEF ChargedUp, FreqCharged
<1>2. ASSUME NEW c \in FreqCpu
      PROVE  /\ SinceOf(c) \in 1 .. clock /\ TimeBehind[c] = SinceOf(c) - 1
             /\ TimeBehind[c] \in Int
  <2>1. SinceOf(c) \in 1 .. clock
    BY DEF SinceOf, StateOf, FreqTotalInv, FreqTypeOK
  <2> QED
    BY <2>1 DEF TimeBehind
<1>3. SumFunctionOnSet(ChargedUp, CpuFreqKey) \in Int
  BY <1>1, FreqKeysFinite, SumType, Zenon
<1>4. SumFunctionOnSet(TimeBehind, FreqCpu) \in Int
  BY <1>2, FreqKeysFinite, SumType, Zenon
<1> QED
  BY <1>1, <1>2, <1>3, <1>4, Zenon

\* An event charges one key with the time since the last event of the CPU it
\* names, and that CPU's time starts anew.
LEMMA FrequencyKeepsTotal ==
    ASSUME FreqTotalInv, NEW r \in FreqCpu, NEW c \in FreqCpu, NEW f \in Freq, cpu_frequency(r, c, f)
    PROVE  FreqTotalInv'
<1>0. FreqTypeOK
  BY Zenon DEF FreqTotalInv
<1>1. /\ freq_state' = [freq_state EXCEPT ![r] = {[khz |-> f, since |-> clock]}]
      /\ UNCHANGED <<clock, freqTaken, residency>>
  BY Zenon DEF cpu_frequency
<1>2. FreqTypeOK'
  BY FrequencyTypes, Zenon DEF FreqTotalInv
<1>3. (clock >= 1 /\ \A d \in FreqCpu : \A s \in freq_state[d] : s.since \in 1 .. clock)'
  BY <1>0, <1>1 DEF FreqTotalInv, FreqTypeOK
<1>4. \A d \in FreqCpu : SinceOf(d)' = IF d = r THEN clock ELSE SinceOf(d)
  <2>1. ASSUME NEW d \in FreqCpu, d # r PROVE SinceOf(d)' = SinceOf(d)
    BY <1>0, <1>1, <2>1 DEF SinceOf, StateOf, FreqTypeOK
  <2>2. SinceOf(r)' = clock
    <3>1. freq_state'[r] = {[khz |-> f, since |-> clock]}
      BY <1>0, <1>1, Zenon DEF FreqTypeOK
    <3>2. StateOf(r)' = [khz |-> f, since |-> clock]
      BY <3>1, Zenon DEF StateOf
    <3> QED
      BY <3>1, <3>2 DEF SinceOf
  <2> QED
    BY <2>1, <2>2, Zenon
<1>5. \E key \in CpuFreqKey : \E e \in Nat :
        /\ e <= clock - SinceOf(r)
        /\ Get(cpu_freq_time', key, 0) = Get(cpu_freq_time, key, 0) + e
        /\ \A k \in CpuFreqKey \ {key} : Get(cpu_freq_time', k, 0) = Get(cpu_freq_time, k, 0)
  <2>0. clock - SinceOf(r) \in Nat /\ clock \in Nat /\ SinceOf(r) \in Nat
    BY <1>0, FreqTotalNumbers DEF FreqTypeOK
  <2>1. CASE freq_state[r] = {}
    <3>1. cpu_freq_time' = cpu_freq_time
      BY <2>1, Zenon DEF cpu_frequency
    <3>2. <<c, f>> \in CpuFreqKey
      BY Zenon DEF CpuFreqKey
    <3>3. Get(cpu_freq_time, <<c, f>>, 0) \in Nat
      BY <3>2, FreqTotalNumbers, Zenon
    <3>4. Get(cpu_freq_time', <<c, f>>, 0) = Get(cpu_freq_time, <<c, f>>, 0) + 0
      BY <3>1, <3>3
    <3> QED
      BY <2>0, <3>1, <3>2, <3>4
  <2>2. CASE freq_state[r] # {}
    <3> DEFINE key == <<c, StateOf(r).khz>>
               e == clock - StateOf(r).since
    <3>1. cpu_freq_time' = ChargeFreq(key, e)
      BY <2>2, Zenon DEF cpu_frequency, StateOf
    <3>2. StateOf(r) \in [khz : Freq, since : Nat]
      BY <1>0, <2>2, Zenon DEF StateOf, FreqTypeOK
    <3>3. key \in CpuFreqKey /\ e = clock - SinceOf(r) /\ e \in Nat
      BY <2>0, <2>2, <3>2, Zenon DEF CpuFreqKey, SinceOf
    <3>4. Get(cpu_freq_time, key, 0) \in Nat
      BY <3>3, FreqTotalNumbers, Zenon
    <3> HIDE DEF key, e
    <3>5. /\ \/ Get(cpu_freq_time', key, 0) = Get(cpu_freq_time, key, 0)
             \/ Get(cpu_freq_time', key, 0) = Get(cpu_freq_time, key, 0) + e
          /\ \A k : k # key => Get(cpu_freq_time', k, 0) = Get(cpu_freq_time, k, 0)
      BY <1>0, <3>1, <3>3, ChargeGet
    <3>6. CASE Get(cpu_freq_time', key, 0) = Get(cpu_freq_time, key, 0)
      <4>1. Get(cpu_freq_time', key, 0) = Get(cpu_freq_time, key, 0) + 0 /\ 0 <= clock - SinceOf(r)
        BY <2>0, <3>4, <3>6
      <4> QED
        BY <3>3, <3>5, <4>1, Zenon
    <3>7. CASE Get(cpu_freq_time', key, 0) = Get(cpu_freq_time, key, 0) + e
      BY <2>0, <3>3, <3>5, <3>7
    <3> QED
      BY <3>5, <3>6, <3>7, Zenon
  <2> QED
    BY <2>1, <2>2, Zenon
<1>6. PICK key \in CpuFreqKey : \E e \in Nat :
        /\ e <= clock - SinceOf(r)
        /\ Get(cpu_freq_time', key, 0) = Get(cpu_freq_time, key, 0) + e
        /\ \A k \in CpuFreqKey \ {key} : Get(cpu_freq_time', k, 0) = Get(cpu_freq_time, k, 0)
  BY <1>5, Zenon
<1>7. PICK e \in Nat :
        /\ e <= clock - SinceOf(r)
        /\ Get(cpu_freq_time', key, 0) = Get(cpu_freq_time, key, 0) + e
        /\ \A k \in CpuFreqKey \ {key} : Get(cpu_freq_time', k, 0) = Get(cpu_freq_time, k, 0)
  BY <1>6, Zenon
<1>8. \A k \in CpuFreqKey : Get(freqTaken', k, 0) <= Get(cpu_freq_time', k, 0)
  <2>1. ASSUME NEW k \in CpuFreqKey PROVE Get(freqTaken', k, 0) <= Get(cpu_freq_time', k, 0)
    <3>1. Get(freqTaken', k, 0) <= Get(cpu_freq_time, k, 0)
      BY <1>1, Zenon DEF FreqTotalInv
    <3> QED
      BY <1>1, <1>7, <3>1, FreqTotalNumbers
  <2> QED
    BY <2>1, Zenon
<1>9. /\ \A k \in CpuFreqKey \ {key} : ChargedUp'[k] = ChargedUp[k]
      /\ ChargedUp'[key] = ChargedUp[key] + e
  <2>1. \A k \in CpuFreqKey : ChargedUp'[k] = FreqCharged(k)'
    BY Zenon DEF ChargedUp
  <2>2. ASSUME NEW k \in CpuFreqKey \ {key} PROVE ChargedUp'[k] = ChargedUp[k]
    BY <1>1, <1>7, <2>1, FreqTotalNumbers, Zenon DEF FreqCharged
  <2>3. ChargedUp'[key] = ChargedUp[key] + e
    BY <1>1, <1>7, <2>1, FreqTotalNumbers DEF FreqCharged
  <2> QED
    BY <2>2, <2>3, Zenon
<1>10. SumFunctionOnSet(ChargedUp', CpuFreqKey) = SumFunctionOnSet(ChargedUp, CpuFreqKey) + e
  <2>1. \A k \in CpuFreqKey : ChargedUp[k] \in Int /\ ChargedUp'[k] \in Int
    BY <1>9, FreqTotalNumbers
  <2>2. SumFunctionOnSet(ChargedUp', CpuFreqKey)
          = SumFunctionOnSet(ChargedUp, CpuFreqKey) + (ChargedUp'[key] - ChargedUp[key])
    <3>1. PICK g : g = ChargedUp'
      BY Zenon
    <3>2. /\ \A k \in CpuFreqKey : ChargedUp[k] \in Int /\ g[k] \in Int
          /\ \A k \in CpuFreqKey \ {key} : g[k] = ChargedUp[k]
      BY <1>9, <2>1, <3>1, Zenon
    <3>3. IsFiniteSet(CpuFreqKey) /\ key \in CpuFreqKey
      BY FreqKeysFinite, Zenon
    <3>4. SumFunctionOnSet(g, CpuFreqKey) = SumFunctionOnSet(ChargedUp, CpuFreqKey) + (g[key] - ChargedUp[key])
      BY <3>2, <3>3, SumUpdate
    <3> QED
      BY <3>1, <3>4, Zenon
  <2>3. ChargedUp'[key] - ChargedUp[key] = e
    BY <1>9, <2>1
  <2> QED
    BY <2>2, <2>3, Zenon
<1>11. SumFunctionOnSet(TimeBehind', FreqCpu)
         = SumFunctionOnSet(TimeBehind, FreqCpu) + (clock - SinceOf(r))
  <2>1. /\ \A d \in FreqCpu \ {r} : TimeBehind'[d] = TimeBehind[d]
        /\ TimeBehind'[r] = clock - 1
    BY <1>4, Zenon DEF TimeBehind
  <2>2. \A d \in FreqCpu : TimeBehind[d] \in Int /\ TimeBehind'[d] \in Int
    BY <1>0, <2>1, FreqTotalNumbers DEF FreqTypeOK
  <2>3. SumFunctionOnSet(TimeBehind', FreqCpu)
          = SumFunctionOnSet(TimeBehind, FreqCpu) + (TimeBehind'[r] - TimeBehind[r])
    <3>1. PICK g : g = TimeBehind'
      BY Zenon
    <3>2. /\ \A d \in FreqCpu : TimeBehind[d] \in Int /\ g[d] \in Int
          /\ \A d \in FreqCpu \ {r} : g[d] = TimeBehind[d]
      BY <2>1, <2>2, <3>1, Zenon
    <3>3. IsFiniteSet(FreqCpu) /\ r \in FreqCpu
      BY FreqKeysFinite, Zenon
    <3>4. SumFunctionOnSet(g, FreqCpu) = SumFunctionOnSet(TimeBehind, FreqCpu) + (g[r] - TimeBehind[r])
      BY <3>2, <3>3, SumUpdate
    <3> QED
      BY <3>1, <3>4, Zenon
  <2>4. TimeBehind'[r] - TimeBehind[r] = clock - SinceOf(r)
    BY <1>0, <2>1, FreqTotalNumbers DEF FreqTypeOK
  <2> QED
    BY <2>3, <2>4, Zenon
<1>12. SumFunctionOnSet(ChargedUp', CpuFreqKey) <= SumFunctionOnSet(TimeBehind', FreqCpu)
  <2>1. /\ SumFunctionOnSet(ChargedUp, CpuFreqKey) \in Int
        /\ SumFunctionOnSet(TimeBehind, FreqCpu) \in Int
        /\ clock - SinceOf(r) \in Int
        /\ SumFunctionOnSet(ChargedUp, CpuFreqKey) <= SumFunctionOnSet(TimeBehind, FreqCpu)
    BY <1>0, FreqTotalNumbers DEF FreqTotalInv, FreqTypeOK
  <2> QED
    BY <1>7, <1>10, <1>11, <2>1
<1> QED
  BY <1>2, <1>3, <1>8, <1>12, Zenon DEF FreqTotalInv

\* Reading and removing entries moves charges from the map to the agent and
\* adds none.
LEMMA FreqDrainKeepsTotal ==
    ASSUME FreqTotalInv, DrainFreq \/ \E k \in CpuFreqKey : RemoveFreq(k)
    PROVE  FreqTotalInv'
<1>0. FreqTypeOK
  BY Zenon DEF FreqTotalInv
<1>1. UNCHANGED <<shared, clock, freq, spent, freq_state>>
  BY Zenon DEF DrainFreq, RemoveFreq, freqMachine
<1>2. (clock >= 1 /\ \A d \in FreqCpu : \A s \in freq_state[d] : s.since \in 1 .. clock)'
  BY <1>1, Zenon DEF FreqTotalInv
<1>3. TimeBehind' = TimeBehind
  BY <1>1 DEF TimeBehind, SinceOf, StateOf
<1>4. /\ FreqTypeOK'
      /\ \A k \in CpuFreqKey : /\ Get(freqTaken', k, 0) <= Get(cpu_freq_time', k, 0)
                               /\ ChargedUp'[k] \in Int /\ ChargedUp'[k] <= ChargedUp[k]
  <2>0. \A k \in CpuFreqKey : ChargedUp'[k] = FreqCharged(k)'
    BY Zenon DEF ChargedUp
  <2>1. CASE DrainFreq
    <3>1. FreqTypeOK'
      BY <1>0, <1>1, <2>1, GetIsNat DEF DrainFreq, FreqTypeOK
    <3>2. ASSUME NEW k \in CpuFreqKey
          PROVE  /\ Get(freqTaken', k, 0) <= Get(cpu_freq_time', k, 0)
                 /\ ChargedUp'[k] \in Int /\ ChargedUp'[k] <= ChargedUp[k]
      <4>1. /\ residency'[k] = residency[k] + Get(cpu_freq_time, k, 0) /\ Get(freqTaken, k, 0) = 0
            /\ freqTaken' = cpu_freq_time /\ cpu_freq_time' = cpu_freq_time
        BY <2>1, Zenon DEF DrainFreq, Get, EmptyMap
      <4>2. FreqCharged(k)' = FreqCharged(k)
        BY <4>1, FreqTotalNumbers DEF FreqCharged
      <4> QED
        BY <2>0, <4>1, <4>2, FreqTotalNumbers
    <3> QED
      BY <3>1, <3>2, Zenon
  <2>2. ASSUME NEW r \in CpuFreqKey, RemoveFreq(r)
        PROVE  /\ FreqTypeOK'
               /\ \A k \in CpuFreqKey : /\ Get(freqTaken', k, 0) <= Get(cpu_freq_time', k, 0)
                                        /\ ChargedUp'[k] \in Int /\ ChargedUp'[k] <= ChargedUp[k]
    <3>1. FreqTypeOK'
      BY <1>0, <1>1, <2>2, WithoutGet, Zenon DEF RemoveFreq, FreqTypeOK
    <3>2. ASSUME NEW k \in CpuFreqKey
          PROVE  /\ Get(freqTaken', k, 0) <= Get(cpu_freq_time', k, 0)
                 /\ ChargedUp'[k] \in Int /\ ChargedUp'[k] <= ChargedUp[k]
      <4>1. /\ Get(cpu_freq_time', k, 0) = IF k = r THEN 0 ELSE Get(cpu_freq_time, k, 0)
            /\ Get(freqTaken', k, 0) = IF k = r THEN 0 ELSE Get(freqTaken, k, 0)
            /\ residency' = residency
        BY <1>0, <2>2, WithoutGet DEF RemoveFreq, FreqTypeOK
      <4>2. Get(freqTaken, k, 0) <= Get(cpu_freq_time, k, 0)
        BY Zenon DEF FreqTotalInv
      <4>3. FreqCharged(k)' = residency[k] + Get(cpu_freq_time', k, 0) - Get(freqTaken', k, 0)
        BY <4>1, Zenon DEF FreqCharged
      <4>4. FreqCharged(k) = residency[k] + Get(cpu_freq_time, k, 0) - Get(freqTaken, k, 0)
        BY Zenon DEF FreqCharged
      <4> QED
        BY <2>0, <4>1, <4>2, <4>3, <4>4, FreqTotalNumbers
    <3> QED
      BY <3>1, <3>2, Zenon
  <2> QED
    BY <2>1, <2>2, Zenon
<1>5. SumFunctionOnSet(ChargedUp', CpuFreqKey) <= SumFunctionOnSet(ChargedUp, CpuFreqKey)
      /\ SumFunctionOnSet(ChargedUp', CpuFreqKey) \in Int
  <2>1. PICK g : g = ChargedUp'
    BY Zenon
  <2>2. /\ \A k \in CpuFreqKey : g[k] \in Int /\ ChargedUp[k] \in Int /\ g[k] <= ChargedUp[k]
        /\ IsFiniteSet(CpuFreqKey)
    BY <1>4, <2>1, FreqKeysFinite, FreqTotalNumbers, Zenon
  <2>3. SumFunctionOnSet(g, CpuFreqKey) <= SumFunctionOnSet(ChargedUp, CpuFreqKey)
    BY <2>2, SumMonotone, Zenon
  <2>4. SumFunctionOnSet(g, CpuFreqKey) \in Int
    BY <2>2, SumType, Zenon
  <2> QED
    BY <2>1, <2>3, <2>4, Zenon
<1>6. SumFunctionOnSet(ChargedUp', CpuFreqKey) <= SumFunctionOnSet(TimeBehind', FreqCpu)
  <2>1. /\ SumFunctionOnSet(ChargedUp, CpuFreqKey) \in Int
        /\ SumFunctionOnSet(TimeBehind, FreqCpu) \in Int
        /\ SumFunctionOnSet(ChargedUp, CpuFreqKey) <= SumFunctionOnSet(TimeBehind, FreqCpu)
    BY FreqTotalNumbers, Zenon DEF FreqTotalInv
  <2> QED
    BY <1>3, <1>5, <2>1
<1> QED
  BY <1>2, <1>4, <1>6, Zenon DEF FreqTotalInv

\* Time passing charges nothing.
LEMMA FreqTimeKeepsTotal ==
    ASSUME FreqTotalInv, FreqTimePasses
    PROVE  FreqTotalInv'
<1>1. /\ clock' = clock + 1 /\ UNCHANGED <<shared, freq, freq_state, cpu_freq_time, freqTaken, residency>>
      /\ spent' = [k \in CpuFreqKey |-> IF freq[k[1]] = k[2] THEN spent[k] + 1 ELSE spent[k]]
  BY Zenon DEF FreqTimePasses
<1>2. FreqTypeOK'
  BY <1>1 DEF FreqTotalInv, FreqTypeOK
<1>3. (clock >= 1 /\ \A d \in FreqCpu : \A s \in freq_state[d] : s.since \in 1 .. clock)'
  BY <1>1 DEF FreqTotalInv, FreqTypeOK
<1>4. TimeBehind' = TimeBehind /\ ChargedUp' = ChargedUp
  BY <1>1 DEF TimeBehind, SinceOf, StateOf, ChargedUp, FreqCharged
<1> QED
  BY <1>1, <1>2, <1>3, <1>4, Zenon DEF FreqTotalInv

\* For any number of CPUs and frequencies, any interleaving of the handler's
\* steps with the drain, and also where CPUs share a policy, the residencies
\* cpu_frequency charges (keck-ebpf/src/main.rs) add up to at most the time all
\* CPUs had.
THEOREM FreqTotalBoundedHolds == FreqSpec => []FreqTotalBounded
<1>1. FreqInit => FreqTotalInv
  <2> SUFFICES ASSUME FreqInit PROVE FreqTotalInv
    BY Zenon
  <2>1. FreqTypeOK
    BY Zenon DEF FreqInit, FreqTypeOK, IsMap, EmptyMap
  <2>2. \A k \in CpuFreqKey : Get(freqTaken, k, 0) = 0 /\ Get(cpu_freq_time, k, 0) = 0 /\ ChargedUp[k] = 0
    BY DEF FreqInit, ChargedUp, FreqCharged, Get, EmptyMap
  <2>3. \A c \in FreqCpu : TimeBehind[c] = 0
    BY DEF FreqInit, TimeBehind, SinceOf
  <2>4. SumFunctionOnSet(ChargedUp, CpuFreqKey) = 0
    BY <2>2, FreqKeysFinite, SumZero, Zenon
  <2>5. SumFunctionOnSet(TimeBehind, FreqCpu) = 0
    BY <2>3, FreqKeysFinite, SumZero, Zenon
  <2>6. clock >= 1 /\ \A c \in FreqCpu : \A s \in freq_state[c] : s.since \in 1 .. clock
    BY DEF FreqInit
  <2>7. \A k \in CpuFreqKey : Get(freqTaken, k, 0) <= Get(cpu_freq_time, k, 0)
    BY <2>2
  <2> QED
    BY <2>1, <2>4, <2>5, <2>6, <2>7 DEF FreqTotalInv
<1>2. FreqTotalInv /\ [FreqNext]_freqVars => FreqTotalInv'
  <2> SUFFICES ASSUME FreqTotalInv, [FreqNext]_freqVars PROVE FreqTotalInv'
    BY Zenon
  <2>1. CASE UNCHANGED freqVars
    <3>1. UNCHANGED <<shared, clock, freq, spent, freq_state, cpu_freq_time, freqTaken, residency>>
      BY <2>1, Zenon DEF freqVars, freqMachine
    <3>2. TimeBehind' = TimeBehind /\ ChargedUp' = ChargedUp
      BY <3>1 DEF TimeBehind, SinceOf, StateOf, ChargedUp, FreqCharged
    <3> QED
      BY <3>1, <3>2, Zenon DEF FreqTotalInv, FreqTypeOK
  <2> QED
    BY <2>1, FrequencyKeepsTotal, FreqTimeKeepsTotal, FreqDrainKeepsTotal, Zenon DEF FreqNext
<1>3. FreqTotalInv => FreqTotalBounded
  <2> SUFFICES ASSUME FreqTotalInv PROVE FreqTotalBounded
    BY Zenon
  <2> DEFINE all == [c \in FreqCpu |-> clock - 1]
  <2>1. clock \in Nat
    BY Zenon DEF FreqTotalInv, FreqTypeOK
  <2>2. SumFunctionOnSet(all, FreqCpu) = (clock - 1) * Cardinality(FreqCpu)
    BY <2>1, FreqKeysFinite, SumConstant
  <2>3. SumFunctionOnSet(TimeBehind, FreqCpu) <= SumFunctionOnSet(all, FreqCpu)
    <3>1. \A c \in FreqCpu : TimeBehind[c] \in Int /\ all[c] \in Int /\ TimeBehind[c] <= all[c]
      BY <2>1, FreqTotalNumbers
    <3> HIDE DEF all
    <3> QED
      BY <3>1, FreqKeysFinite, SumMonotone, Zenon
  <2>4. SumFunction([k \in CpuFreqKey |-> FreqCharged(k)]) = SumFunctionOnSet(ChargedUp, CpuFreqKey)
    BY Zenon DEF SumFunction, ChargedUp
  <2>5. /\ SumFunctionOnSet(ChargedUp, CpuFreqKey) \in Int
        /\ SumFunctionOnSet(TimeBehind, FreqCpu) \in Int
        /\ SumFunctionOnSet(ChargedUp, CpuFreqKey) <= SumFunctionOnSet(TimeBehind, FreqCpu)
    BY FreqTotalNumbers, Zenon DEF FreqTotalInv
  <2>6. Cardinality(FreqCpu) \in Nat
    BY FreqKeysFinite, FS_CardinalityType, Zenon
  <2>7. (clock - 1) * Cardinality(FreqCpu) = Cardinality(FreqCpu) * (clock - 1)
        /\ (clock - 1) * Cardinality(FreqCpu) \in Int
    BY <2>1, <2>6
  <2> HIDE DEF all
  <2>8. SumFunctionOnSet(ChargedUp, CpuFreqKey) <= Cardinality(FreqCpu) * (clock - 1)
    BY <2>2, <2>3, <2>5, <2>7
  <2> QED
    BY <2>4, <2>8, Zenon DEF FreqTotalBounded
<1> QED
  BY <1>1, <1>2, <1>3, PTL DEF FreqSpec

-----------------------------------------------------------------------------
(* TCP bytes per process                                                   *)

\* A kprobe between its lookup and its update.
Probe == [pid : Tgid, dir : Direction, entry : {"none", "found", "gone"}, val : Nat]

\* The maps and the probes have their types.
NetTypeOK ==
    /\ bytes \in [Tgid -> [Direction -> Nat]] /\ netSum \in [Tgid -> [Direction -> Nat]]
    /\ IsMap(pid_net_bytes, Tgid, [Direction -> Nat]) /\ IsMap(netTaken, Tgid, [Direction -> Nat])
    /\ probe \in [NetCpu -> SUBSET Probe]
    /\ \A c \in NetCpu : \A s, t \in probe[c] : s = t
    /\ \A c \in NetCpu : \A s \in probe[c] : s.entry = "found" => s.pid \in DOMAIN pid_net_bytes

\* The CPUs with a probe that has counted its bytes and not stored them.
InFlight(p, d) == {c \in NetCpu : \E s \in probe[c] : s.pid = p /\ s.dir = d}
Owed(p, d) == Cardinality(InFlight(p, d))
Held(p, d) == Get(pid_net_bytes, p, NoBytes)[d]
Taken(p, d) == Get(netTaken, p, NoBytes)[d]

\* What the snapshots hold, what they would hold if the map were read now, and
\* what they would hold after the store of a probe that has loaded: each leaves
\* room for the probes in flight.
Found(c, p, d) == {s \in probe[c] : s.entry = "found" /\ s.pid = p /\ s.dir = d}
Balance(p, d) ==
    /\ netSum[p][d] + Owed(p, d) <= bytes[p][d]
    /\ netSum[p][d] + Held(p, d) - Taken(p, d) + Owed(p, d) <= bytes[p][d]
    /\ \A c \in NetCpu : \A s \in Found(c, p, d) :
          netSum[p][d] + s.val - Taken(p, d) + Owed(p, d) <= bytes[p][d]

\* The inductive invariant behind the network properties.
NetInv == NetTypeOK /\ \A p \in Tgid : \A d \in Direction : Balance(p, d)

\* An entry, or none, is a pair of byte counts.
LEMMA NetGet ==
    ASSUME NEW m, IsMap(m, Tgid, [Direction -> Nat]), NEW p \in Tgid
    PROVE  Get(m, p, NoBytes) \in [Direction -> Nat]
BY Zenon DEF IsMap, Get, NoBytes

\* The terms of the balance are numbers.
LEMMA NetNumbers ==
    ASSUME NetTypeOK, NEW p \in Tgid, NEW d \in Direction
    PROVE  /\ bytes[p][d] \in Nat /\ netSum[p][d] \in Nat /\ Held(p, d) \in Nat
           /\ Taken(p, d) \in Nat /\ Owed(p, d) \in Nat /\ IsFiniteSet(InFlight(p, d))
<1>1. IsFiniteSet(InFlight(p, d))
  BY NetAssumption, FS_Subset, Zenon DEF InFlight
<1>2. Owed(p, d) \in Nat
  BY <1>1, FS_CardinalityType, Zenon DEF Owed
<1>3. Held(p, d) \in Nat /\ Taken(p, d) \in Nat
  <2>1. IsMap(pid_net_bytes, Tgid, [Direction -> Nat]) /\ IsMap(netTaken, Tgid, [Direction -> Nat])
    BY Zenon DEF NetTypeOK
  <2>2. /\ Get(pid_net_bytes, p, NoBytes) \in [Direction -> Nat]
        /\ Get(netTaken, p, NoBytes) \in [Direction -> Nat]
    BY <2>1, NetGet, Zenon
  <2> QED
    BY <2>2, Zenon DEF Held, Taken
<1> QED
  BY <1>1, <1>2, <1>3, Zenon DEF NetTypeOK

\* A probe loads: its bytes are counted and it is in flight.
LEMMA LoadKeeps ==
    ASSUME NetInv, NEW c \in NetCpu, NEW p \in Tgid, NEW d \in Direction, ProbeLoads(c, p, d)
    PROVE  NetInv'
<1> DEFINE new == [pid |-> p, dir |-> d,
                   entry |-> IF p \in DOMAIN pid_net_bytes THEN "found" ELSE "none", val |-> Held(p, d)]
<1>1. /\ NetTypeOK /\ probe[c] = {} /\ probe' = [probe EXCEPT ![c] = {new}]
      /\ UNCHANGED <<pid_net_bytes, netTaken, netSum>>
      /\ bytes' = [bytes EXCEPT ![p][d] = @ + 1]
  BY Zenon DEF NetInv, ProbeLoads, Held
<1>2. new \in Probe /\ new.pid = p /\ new.dir = d /\ new.val = Held(p, d)
      /\ (new.entry = "found" => p \in DOMAIN pid_net_bytes)
  BY <1>1, NetNumbers, Zenon DEF Probe
<1> HIDE DEF new
<1>3. NetTypeOK'
  <2>1. probe' \in [NetCpu -> SUBSET Probe] /\ bytes' \in [Tgid -> [Direction -> Nat]]
    <3>1. probe' \in [NetCpu -> SUBSET Probe]
      BY <1>1, <1>2, Zenon DEF NetTypeOK
    <3>2. bytes' \in [Tgid -> [Direction -> Nat]]
      BY <1>1 DEF NetTypeOK
    <3> QED
      BY <3>1, <3>2, Zenon
  <2>2. \A x \in NetCpu : probe'[x] = IF x = c THEN {new} ELSE probe[x]
    BY <1>1, Zenon DEF NetTypeOK
  <2> QED
    BY <1>1, <1>2, <2>1, <2>2 DEF NetTypeOK
<1>4. \A x \in NetCpu : probe'[x] = IF x = c THEN {new} ELSE probe[x]
  BY <1>1, Zenon DEF NetTypeOK
<1>5. ASSUME NEW q \in Tgid, NEW e \in Direction PROVE Balance(q, e)'
  <2>1. /\ Held(q, e)' = Held(q, e) /\ Taken(q, e)' = Taken(q, e) /\ netSum'[q][e] = netSum[q][e]
    BY <1>1, Zenon DEF Held, Taken
  <2>2. Balance(q, e)
    BY Zenon DEF NetInv
  <2>3. /\ bytes[q][e] \in Nat /\ netSum[q][e] \in Nat /\ Held(q, e) \in Nat
        /\ Taken(q, e) \in Nat /\ Owed(q, e) \in Nat
    BY <1>1, NetNumbers, Zenon
  <2>4. CASE q = p /\ e = d
    <3>1. InFlight(q, e)' = InFlight(q, e) \cup {c} /\ c \notin InFlight(q, e)
      BY <1>1, <1>2, <1>4, <2>4 DEF InFlight
    <3>2. Owed(q, e)' = Owed(q, e) + 1
      <4>1. IsFiniteSet(InFlight(q, e))
        BY <1>1, NetNumbers, Zenon
      <4>2. Cardinality(InFlight(q, e) \cup {c}) = Cardinality(InFlight(q, e)) + 1
        BY <3>1, <4>1, FS_AddElement, Zenon
      <4> QED
        BY <3>1, <4>2, Zenon DEF Owed
    <3>3. bytes'[q][e] = bytes[q][e] + 1
      BY <1>1, <2>4, Zenon DEF NetTypeOK
    <3>4. ASSUME NEW x \in NetCpu, NEW s \in Found(x, q, e)'
          PROVE  (netSum[q][e] + s.val - Taken(q, e) + Owed(q, e) <= bytes[q][e])'
      <4>1. netSum[q][e] + s.val - Taken(q, e) + Owed(q, e) <= bytes[q][e] /\ s.val \in Nat
        <5>1. CASE x = c
          <6>1. s.val = Held(q, e)
            BY <1>2, <1>4, <2>4, <3>4, <5>1, Zenon DEF Found
          <6> QED
            BY <2>2, <2>3, <6>1, Zenon DEF Balance
        <5>2. CASE x # c
          <6>1. s \in Found(x, q, e) /\ s \in Probe
            BY <1>1, <1>4, <3>4, <5>2, Zenon DEF Found, NetTypeOK
          <6> QED
            BY <2>2, <6>1, Zenon DEF Balance, Probe
        <5> QED
          BY <5>1, <5>2, Zenon
      <4> QED
        BY <2>1, <2>3, <3>2, <3>3, <4>1
    <3>5. /\ (netSum[q][e] + Owed(q, e) <= bytes[q][e])'
          /\ (netSum[q][e] + Held(q, e) - Taken(q, e) + Owed(q, e) <= bytes[q][e])'
      <4>1. /\ netSum[q][e] + Owed(q, e) <= bytes[q][e]
            /\ netSum[q][e] + Held(q, e) - Taken(q, e) + Owed(q, e) <= bytes[q][e]
        BY <2>2, Zenon DEF Balance
      <4> QED
        BY <2>1, <2>3, <3>2, <3>3, <4>1
    <3> QED
      BY <3>4, <3>5, Zenon DEF Balance
  <2>5. CASE q # p \/ e # d
    <3>1. InFlight(q, e)' = InFlight(q, e)
      BY <1>1, <1>2, <1>4, <2>5 DEF InFlight
    <3>2. Owed(q, e)' = Owed(q, e) /\ bytes'[q][e] = bytes[q][e]
      BY <1>1, <2>5, <3>1, Zenon DEF Owed, NetTypeOK
    <3>3. \A x \in NetCpu : Found(x, q, e)' = Found(x, q, e)
      BY <1>1, <1>2, <1>4, <2>5 DEF Found
    <3> QED
      BY <2>1, <2>2, <3>2, <3>3, Zenon DEF Balance
  <2> QED
    BY <2>4, <2>5, Zenon
<1> QED
  BY <1>3, <1>5, Zenon DEF NetInv

\* What a store leaves in the map: the entry as it was, the loaded value and
\* one, or a new entry.
LEMMA StoredGet ==
    ASSUME NetTypeOK, NEW c \in NetCpu, NEW s \in probe[c], NEW m, m = Stored(s)
    PROVE  /\ IsMap(m, Tgid, [Direction -> Nat]) /\ DOMAIN pid_net_bytes \subseteq DOMAIN m
           /\ \A q \in Tgid : \A e \in Direction :
                 \/ Get(m, q, NoBytes)[e] = Held(q, e)
                 \/ /\ q = s.pid /\ e = s.dir /\ s.entry = "found"
                    /\ Get(m, q, NoBytes)[e] = s.val + 1
                 \/ q = s.pid /\ e = s.dir /\ Get(m, q, NoBytes)[e] = 1
                 \/ Get(m, q, NoBytes)[e] = 0
<1>1. /\ s \in Probe /\ s.pid \in Tgid /\ s.dir \in Direction /\ s.val \in Nat
      /\ s.entry \in {"none", "found", "gone"}
      /\ (s.entry = "found" => s.pid \in DOMAIN pid_net_bytes)
      /\ IsMap(pid_net_bytes, Tgid, [Direction -> Nat])
  BY DEF NetTypeOK, Probe
<1>2. CASE m = pid_net_bytes
  BY <1>1, <1>2, Zenon DEF Held
<1>3. CASE s.entry = "found" /\ m = [pid_net_bytes EXCEPT ![s.pid][s.dir] = s.val + 1]
  <2>1. s.val + 1 \in Nat
    BY <1>1
  <2>2. /\ DOMAIN m = DOMAIN pid_net_bytes
        /\ m[s.pid] = [pid_net_bytes[s.pid] EXCEPT ![s.dir] = s.val + 1]
        /\ \A q \in DOMAIN m : q # s.pid => m[q] = pid_net_bytes[q]
    BY <1>1, <1>3, Zenon DEF IsMap
  <2>3. m[s.pid] \in [Direction -> Nat] /\ m[s.pid][s.dir] = s.val + 1
        /\ \A e \in Direction : e # s.dir => m[s.pid][e] = pid_net_bytes[s.pid][e]
    BY <1>1, <1>3, <2>1, <2>2 DEF IsMap
  <2>4. IsMap(m, Tgid, [Direction -> Nat])
    BY <1>1, <1>3, <2>2, <2>3, Zenon DEF IsMap
  <2> QED
    BY <1>1, <1>3, <2>2, <2>3, <2>4, Zenon DEF Get, Held
<1>4. CASE m = Put(pid_net_bytes, s.pid, [NoBytes EXCEPT ![s.dir] = 1])
  <2> DEFINE one == [NoBytes EXCEPT ![s.dir] = 1]
  <2>1. one \in [Direction -> Nat] /\ \A e \in Direction : one[e] = IF e = s.dir THEN 1 ELSE 0
    BY <1>1, Zenon DEF NoBytes
  <2>2. m = Put(pid_net_bytes, s.pid, one)
    BY <1>4, Zenon
  <2> HIDE DEF one
  <2>3. /\ DOMAIN m = DOMAIN pid_net_bytes \cup {s.pid} /\ m[s.pid] = one
        /\ \A q \in DOMAIN m : q # s.pid => m[q] = pid_net_bytes[q]
    BY <2>2, Zenon DEF Put
  <2>4. IsMap(m, Tgid, [Direction -> Nat])
    BY <1>1, <2>1, <2>2, Zenon DEF IsMap, Put
  <2> QED
    BY <1>1, <2>1, <2>3, <2>4 DEF Get, Held
<1> QED
  BY <1>1, <1>2, <1>3, <1>4, Zenon DEF Stored

\* A probe stores: it is no longer in flight.
LEMMA NetStoreKeeps ==
    ASSUME NetInv, NEW c \in NetCpu, ProbeStores(c)
    PROVE  NetInv'
<1>1. /\ NetTypeOK /\ probe' = [probe EXCEPT ![c] = {}]
      /\ UNCHANGED <<bytes, netTaken, netSum>>
  BY Zenon DEF NetInv, ProbeStores
<1>2. PICK s \in probe[c] : pid_net_bytes' = Stored(s)
  BY Zenon DEF ProbeStores
<1>3. \A x \in NetCpu : probe'[x] = IF x = c THEN {} ELSE probe[x]
  BY <1>1, Zenon DEF NetTypeOK
<1>4. /\ IsMap(pid_net_bytes', Tgid, [Direction -> Nat])
      /\ DOMAIN pid_net_bytes \subseteq DOMAIN pid_net_bytes'
  BY <1>1, <1>2, StoredGet, Zenon
<1>5. NetTypeOK'
  <2>1. probe' \in [NetCpu -> SUBSET Probe]
    BY <1>1, Zenon DEF NetTypeOK
  <2> QED
    BY <1>1, <1>3, <1>4, <2>1 DEF NetTypeOK
<1>6. ASSUME NEW q \in Tgid, NEW e \in Direction PROVE Balance(q, e)'
  <2>1. Taken(q, e)' = Taken(q, e) /\ netSum'[q][e] = netSum[q][e] /\ bytes'[q][e] = bytes[q][e]
    BY <1>1, Zenon DEF Taken
  <2>2. \/ Held(q, e)' = Held(q, e)
        \/ q = s.pid /\ e = s.dir /\ s.entry = "found" /\ Held(q, e)' = s.val + 1
        \/ q = s.pid /\ e = s.dir /\ Held(q, e)' = 1
        \/ Held(q, e)' = 0
    <3>1. Held(q, e)' = Get(pid_net_bytes', q, NoBytes)[e]
      BY Zenon DEF Held
    <3> QED
      BY <1>1, <1>2, <3>1, StoredGet, Zenon
  <2>3. /\ netSum[q][e] + Owed(q, e) <= bytes[q][e]
        /\ netSum[q][e] + Held(q, e) - Taken(q, e) + Owed(q, e) <= bytes[q][e]
        /\ \A x \in NetCpu : \A t \in Found(x, q, e) :
              netSum[q][e] + t.val - Taken(q, e) + Owed(q, e) <= bytes[q][e]
    BY Zenon DEF NetInv, Balance
  <2>4. Owed(q, e)' = IF q = s.pid /\ e = s.dir THEN Owed(q, e) - 1 ELSE Owed(q, e)
    <3>1. CASE q = s.pid /\ e = s.dir
      <4>1. InFlight(q, e)' = InFlight(q, e) \ {c} /\ c \in InFlight(q, e)
        BY <1>2, <1>3, <3>1, Zenon DEF InFlight
      <4> QED
        <5>1. IsFiniteSet(InFlight(q, e))
          BY <1>1, NetNumbers, Zenon
        <5>2. Cardinality(InFlight(q, e) \ {c}) = Cardinality(InFlight(q, e)) - 1
          BY <4>1, <5>1, FS_RemoveElement, Zenon
        <5> QED
          BY <3>1, <4>1, <5>2, Zenon DEF Owed
    <3>2. CASE ~(q = s.pid /\ e = s.dir)
      <4>1. \A t \in probe[c] : t = s
        BY <1>1, <1>2, Zenon DEF NetTypeOK
      <4>2. InFlight(q, e)' = InFlight(q, e)
        BY <1>3, <3>2, <4>1, Zenon DEF InFlight
      <4> QED
        BY <3>2, <4>2, Zenon DEF Owed
    <3> QED
      BY <3>1, <3>2, Zenon
  <2>5. s.val \in Nat /\ (s.entry = "found" /\ q = s.pid /\ e = s.dir => s \in Found(c, q, e))
    BY <1>1, <1>2 DEF NetTypeOK, Probe, Found
  <2>6. /\ (netSum[q][e] + Owed(q, e) <= bytes[q][e])'
        /\ (netSum[q][e] + Held(q, e) - Taken(q, e) + Owed(q, e) <= bytes[q][e])'
    <3>1. /\ bytes[q][e] \in Nat /\ netSum[q][e] \in Nat /\ Held(q, e) \in Nat
          /\ Taken(q, e) \in Nat /\ Owed(q, e) \in Nat
      BY <1>1, NetNumbers, Zenon
    <3>2. netSum[q][e] + Owed(q, e)' <= bytes[q][e]
      BY <2>3, <2>4, <3>1, SMTT(30)
    <3>3. netSum[q][e] + Held(q, e)' - Taken(q, e) + Owed(q, e)' <= bytes[q][e]
      <4>1. CASE Held(q, e)' = Held(q, e) \/ Held(q, e)' = 0
        BY <2>3, <2>4, <3>1, <4>1, SMTT(30)
      <4>2. CASE q = s.pid /\ e = s.dir /\ s.entry = "found" /\ Held(q, e)' = s.val + 1
        <5>1. netSum[q][e] + s.val - Taken(q, e) + Owed(q, e) <= bytes[q][e] /\ s.val \in Nat
          BY <2>3, <2>5, <4>2, Zenon
        <5> QED
          BY <2>4, <3>1, <4>2, <5>1, SMTT(30)
      <4>3. CASE q = s.pid /\ e = s.dir /\ Held(q, e)' = 1
        BY <2>3, <2>4, <3>1, <4>3, SMTT(30)
      <4> QED
        BY <2>2, <4>1, <4>2, <4>3, Zenon
    <3> QED
      BY <2>1, <3>2, <3>3, Zenon
  <2>7. ASSUME NEW x \in NetCpu, NEW t \in Found(x, q, e)'
        PROVE  (netSum[q][e] + t.val - Taken(q, e) + Owed(q, e) <= bytes[q][e])'
    <3>1. t \in Found(x, q, e) /\ t.val \in Nat
      BY <1>1, <1>3, <2>7 DEF Found, NetTypeOK, Probe
    <3>2. netSum[q][e] + t.val - Taken(q, e) + Owed(q, e) <= bytes[q][e]
      BY <2>3, <3>1, Zenon
    <3>3. /\ bytes[q][e] \in Nat /\ netSum[q][e] \in Nat
          /\ Taken(q, e) \in Nat /\ Owed(q, e) \in Nat
      BY <1>1, NetNumbers, Zenon
    <3>4. netSum[q][e] + t.val - Taken(q, e) + Owed(q, e)' <= bytes[q][e]
      BY <2>4, <3>1, <3>2, <3>3
    <3> QED
      BY <2>1, <3>4, Zenon
  <2> QED
    BY <2>6, <2>7, Zenon DEF Balance
<1> QED
  BY <1>5, <1>6, Zenon DEF NetInv

\* Drain reads every entry into the snapshot.
LEMMA DrainNetKeeps ==
    ASSUME NetInv, DrainNet
    PROVE  NetInv'
<1>1. /\ NetTypeOK /\ netTaken = EmptyMap /\ netTaken' = pid_net_bytes
      /\ UNCHANGED <<bytes, probe, pid_net_bytes>>
      /\ \A q \in Tgid : \A e \in Direction : netSum'[q][e] = netSum[q][e] + Held(q, e)
  BY Zenon DEF NetInv, DrainNet, Held
<1>2. netSum' \in [Tgid -> [Direction -> Nat]]
  <2>1. \A q \in Tgid : \A e \in Direction : netSum[q][e] + Get(pid_net_bytes, q, NoBytes)[e] \in Nat
    BY <1>1, NetNumbers, SMTT(30) DEF Held
  <2> QED
    BY <2>1, Zenon DEF DrainNet
<1>3. NetTypeOK'
  BY <1>1, <1>2, Zenon DEF NetTypeOK
<1>4. ASSUME NEW q \in Tgid, NEW e \in Direction PROVE Balance(q, e)'
  <2>1. /\ Taken(q, e) = 0 /\ Taken(q, e)' = Held(q, e) /\ Held(q, e)' = Held(q, e)
        /\ Owed(q, e)' = Owed(q, e) /\ bytes'[q][e] = bytes[q][e]
    BY <1>1, Zenon DEF Taken, Held, Owed, InFlight, Get, EmptyMap, NoBytes
  <2>2. /\ netSum[q][e] + Owed(q, e) <= bytes[q][e]
        /\ netSum[q][e] + Held(q, e) - Taken(q, e) + Owed(q, e) <= bytes[q][e]
        /\ \A x \in NetCpu : \A t \in Found(x, q, e) :
              netSum[q][e] + t.val - Taken(q, e) + Owed(q, e) <= bytes[q][e]
    BY Zenon DEF NetInv, Balance
  <2>3. /\ bytes[q][e] \in Nat /\ netSum[q][e] \in Nat /\ Held(q, e) \in Nat /\ Owed(q, e) \in Nat
    BY <1>1, NetNumbers, Zenon
  <2>4. netSum'[q][e] = netSum[q][e] + Held(q, e)
    BY <1>1, Zenon
  <2>5. /\ (netSum[q][e] + Owed(q, e) <= bytes[q][e])'
        /\ (netSum[q][e] + Held(q, e) - Taken(q, e) + Owed(q, e) <= bytes[q][e])'
    <3>1. netSum[q][e] + Held(q, e) - 0 + Owed(q, e) <= bytes[q][e]
      BY <2>1, <2>2, Zenon
    <3>2. /\ netSum[q][e] + Held(q, e) + Owed(q, e) <= bytes[q][e]
          /\ netSum[q][e] + Held(q, e) + Held(q, e) - Held(q, e) + Owed(q, e) <= bytes[q][e]
      BY <2>3, <3>1
    <3> QED
      BY <2>1, <2>4, <3>2, Zenon
  <2>6. ASSUME NEW x \in NetCpu, NEW t \in Found(x, q, e)'
        PROVE  (netSum[q][e] + t.val - Taken(q, e) + Owed(q, e) <= bytes[q][e])'
    <3>1. t \in Found(x, q, e) /\ t.val \in Nat
      BY <1>1, <2>6, SMTT(30) DEF Found, NetTypeOK, Probe
    <3>2. netSum[q][e] + t.val - 0 + Owed(q, e) <= bytes[q][e]
      BY <2>1, <2>2, <3>1, Zenon
    <3>3. netSum[q][e] + Held(q, e) + t.val - Held(q, e) + Owed(q, e) <= bytes[q][e]
      BY <2>3, <3>1, <3>2
    <3> QED
      BY <2>1, <2>4, <3>3, Zenon
  <2> QED
    BY <2>5, <2>6, Zenon DEF Balance
<1> QED
  BY <1>3, <1>4, Zenon DEF NetInv

\* Drain removes an entry, and the probes that hold it lose their bytes.
LEMMA RemoveNetKeeps ==
    ASSUME NetInv, NEW p \in Tgid, RemoveNet(p)
    PROVE  NetInv'
<1> DEFINE After(s) == IF s.pid = p /\ s.entry = "found" THEN [s EXCEPT !.entry = "gone"] ELSE s
<1>1. /\ NetTypeOK /\ UNCHANGED <<bytes, netSum>>
      /\ netTaken' = Without(netTaken, p) /\ pid_net_bytes' = Without(pid_net_bytes, p)
      /\ probe' = [c \in NetCpu |-> {After(s) : s \in probe[c]}]
  BY Zenon DEF NetInv, RemoveNet
<1>2. \A s \in Probe : /\ After(s) \in Probe /\ After(s).pid = s.pid /\ After(s).dir = s.dir
                       /\ After(s).val = s.val
                       /\ (After(s).entry = "found" => s.entry = "found" /\ s.pid # p /\ After(s) = s)
  BY Zenon DEF Probe
<1>3. \A c \in NetCpu : probe'[c] = {After(s) : s \in probe[c]} /\ probe[c] \subseteq Probe
  BY <1>1, Zenon DEF NetTypeOK
<1>4. /\ DOMAIN pid_net_bytes' = DOMAIN pid_net_bytes \ {p} /\ DOMAIN netTaken' = DOMAIN netTaken \ {p}
      /\ \A q \in DOMAIN pid_net_bytes' : pid_net_bytes'[q] = pid_net_bytes[q]
      /\ \A q \in DOMAIN netTaken' : netTaken'[q] = netTaken[q]
      /\ IsMap(pid_net_bytes', Tgid, [Direction -> Nat]) /\ IsMap(netTaken', Tgid, [Direction -> Nat])
  BY <1>1, Zenon DEF NetTypeOK, Without, Restrict, IsMap
<1> HIDE DEF After
<1>5. NetTypeOK'
  <2>1. probe' \in [NetCpu -> SUBSET Probe]
    BY <1>1, <1>2, <1>3
  <2>2. \A c \in NetCpu : \A s, t \in probe'[c] : s = t
    BY <1>1, <1>3, SMTT(30) DEF NetTypeOK
  <2>3. \A c \in NetCpu : \A s \in probe'[c] : s.entry = "found" => s.pid \in DOMAIN pid_net_bytes'
    BY <1>1, <1>2, <1>3, <1>4, SMTT(30) DEF NetTypeOK
  <2> QED
    BY <1>1, <1>4, <2>1, <2>2, <2>3, Zenon DEF NetTypeOK
<1>6. ASSUME NEW q \in Tgid, NEW e \in Direction PROVE Balance(q, e)'
  <2>1. InFlight(q, e)' = InFlight(q, e)
    BY <1>2, <1>3 DEF InFlight
  <2>2. Owed(q, e)' = Owed(q, e) /\ bytes'[q][e] = bytes[q][e] /\ netSum'[q][e] = netSum[q][e]
    BY <1>1, <2>1, Zenon DEF Owed
  <2>3. /\ q # p => Held(q, e)' = Held(q, e) /\ Taken(q, e)' = Taken(q, e)
        /\ q = p => Held(q, e)' = 0 /\ Taken(q, e)' = 0
    BY <1>4, Zenon DEF Held, Taken, Get, NoBytes
  <2>4. \A c \in NetCpu : Found(c, q, e)' \subseteq Found(c, q, e) /\ (q = p => Found(c, q, e)' = {})
    BY <1>2, <1>3, SMTT(30) DEF Found
  <2>5. Balance(q, e)
    BY Zenon DEF NetInv
  <2>6. CASE q # p
    BY <2>2, <2>3, <2>4, <2>5, <2>6, Zenon DEF Balance
  <2>7. CASE q = p
    <3>1. netSum[q][e] + Owed(q, e) <= bytes[q][e]
      BY <2>5, Zenon DEF Balance
    <3>2. bytes[q][e] \in Nat /\ netSum[q][e] \in Nat /\ Owed(q, e) \in Nat
      BY <1>1, NetNumbers, Zenon
    <3>3. netSum[q][e] + 0 - 0 + Owed(q, e) <= bytes[q][e]
      BY <3>1, <3>2
    <3> QED
      BY <2>2, <2>3, <2>4, <2>7, <3>1, <3>3, Zenon DEF Balance
  <2> QED
    BY <2>6, <2>7, Zenon
<1> QED
  BY <1>5, <1>6, Zenon DEF NetInv

\* However probes on several CPUs interleave with each other and with drain, a
\* process is reported no more bytes in a direction than it moved.
THEOREM NetNotOverchargedHolds == NetSpec => []NetNotOvercharged
<1>1. NetInit => NetInv
  <2> SUFFICES ASSUME NetInit PROVE NetInv
    BY Zenon
  <2>1. NetTypeOK
    BY Zenon DEF NetInit, NetTypeOK, IsMap, EmptyMap, NoBytes
  <2>2. ASSUME NEW p \in Tgid, NEW d \in Direction PROVE Balance(p, d)
    <3>1. InFlight(p, d) = {} /\ \A c \in NetCpu : Found(c, p, d) = {}
      BY Zenon DEF NetInit, InFlight, Found
    <3>2. Owed(p, d) = 0 /\ Held(p, d) = 0 /\ Taken(p, d) = 0 /\ netSum[p][d] = 0 /\ bytes[p][d] = 0
      BY <3>1, FS_EmptySet, Zenon DEF NetInit, Owed, Held, Taken, Get, EmptyMap, NoBytes
    <3> QED
      BY <3>1, <3>2, SMTT(30) DEF Balance
  <2> QED
    BY <2>1, <2>2, Zenon DEF NetInv
<1>2. NetInv /\ [NetNext]_netVars => NetInv'
  <2> SUFFICES ASSUME NetInv, [NetNext]_netVars PROVE NetInv'
    BY Zenon
  <2>1. CASE UNCHANGED netVars
    <3>1. NetTypeOK'
      BY <2>1, Zenon DEF netVars, NetInv, NetTypeOK
    <3>2. ASSUME NEW p \in Tgid, NEW d \in Direction PROVE Balance(p, d)'
      <4>1. InFlight(p, d)' = InFlight(p, d) /\ \A c \in NetCpu : Found(c, p, d)' = Found(c, p, d)
        BY <2>1, Zenon DEF netVars, InFlight, Found
      <4>2. /\ Owed(p, d)' = Owed(p, d) /\ Held(p, d)' = Held(p, d) /\ Taken(p, d)' = Taken(p, d)
            /\ netSum' = netSum /\ bytes' = bytes
        BY <2>1, <4>1, Zenon DEF netVars, Owed, Held, Taken
      <4> QED
        BY <4>1, <4>2, Zenon DEF NetInv, Balance
    <3> QED
      BY <3>1, <3>2, Zenon DEF NetInv
  <2> QED
    BY <2>1, LoadKeeps, NetStoreKeeps, DrainNetKeeps, RemoveNetKeeps, Zenon DEF NetNext
<1>3. NetInv => NetNotOvercharged
  <2> SUFFICES ASSUME NetInv, NEW p \in Tgid, NEW d \in Direction
               PROVE  netSum[p][d] + Held(p, d) - Taken(p, d) <= bytes[p][d]
    BY Zenon DEF NetNotOvercharged, Held, Taken
  <2>1. NetTypeOK /\ netSum[p][d] + Held(p, d) - Taken(p, d) + Owed(p, d) <= bytes[p][d]
    BY Zenon DEF NetInv, Balance
  <2>2. /\ bytes[p][d] \in Nat /\ netSum[p][d] \in Nat /\ Held(p, d) \in Nat
        /\ Taken(p, d) \in Nat /\ Owed(p, d) \in Nat
    BY <2>1, NetNumbers, Zenon
  <2> QED
    BY <2>1, <2>2
<1> QED
  BY <1>1, <1>2, <1>3, PTL DEF NetSpec
=============================================================================
