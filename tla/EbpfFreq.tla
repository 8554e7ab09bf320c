------------------------------ MODULE EbpfFreq ------------------------------
(***************************************************************************)
(* Frequency residency per CPU: the cpu_frequency handler                  *)
(* (keck-ebpf/src/main.rs) and its part of drain.                          *)
(*                                                                         *)
(* CPU_FREQ_STATE is a per-CPU array, so the handler works on the state of *)
(* the CPU it runs on, while the key it charges names the CPU whose        *)
(* frequency changed.  The two are the same where every CPU has a          *)
(* frequency policy of its own; where CPUs share one, the CPU that makes   *)
(* the change reports it for all of them.                                  *)
(***************************************************************************)
EXTENDS Integers, FiniteSets, Maps

CONSTANTS
    FreqCpu, Freq,     \* CPUs; frequencies
    MaxFreqEntries,    \* MAX_CPU_FREQ_ENTRIES
    MaxFreqTime        \* bound: the clock stops here

ASSUME FreqAssumption ==
    /\ IsFiniteSet(FreqCpu) /\ IsFiniteSet(Freq)
    /\ MaxFreqEntries \in Nat /\ MaxFreqTime \in Nat

VARIABLES
    shared,                 \* CPUs share a frequency policy
    clock, freq, spent,     \* the clock, each CPU's frequency, real time at each
    freq_state,             \* CPU_FREQ_STATE: {} or {[khz, since]} per CPU
    cpu_freq_time,          \* CPU_FREQ_TIME
    freqTaken, residency    \* drain: read and not removed; sum of all snapshots

freqMachine == <<shared, clock, freq, spent>>
freqVars == <<freqMachine, freq_state, cpu_freq_time, freqTaken, residency>>

CpuFreqKey == FreqCpu \X Freq

FreqInit ==
    /\ shared \in BOOLEAN /\ clock = 1
    /\ freq \in [FreqCpu -> Freq] /\ spent = [k \in CpuFreqKey |-> 0]
    /\ freq_state = [c \in FreqCpu |-> {}]
    /\ cpu_freq_time = EmptyMap /\ freqTaken = EmptyMap
    /\ residency = [k \in CpuFreqKey |-> 0]

ChargeFreq(key, elapsed) ==
    IF elapsed > 0 /\ (key \in DOMAIN cpu_freq_time \/ Cardinality(DOMAIN cpu_freq_time) < MaxFreqEntries)
    THEN Put(cpu_freq_time, key, Get(cpu_freq_time, key, 0) + elapsed) ELSE cpu_freq_time

\* Mutant: the start of the new frequency is not recorded.
cpu_frequency_no_restart(runs_on, cpu_id, khz) ==
    /\ shared \/ runs_on = cpu_id
    /\ freq' = [freq EXCEPT ![cpu_id] = khz]
    /\ cpu_freq_time' =
          IF freq_state[runs_on] = {} THEN cpu_freq_time
          ELSE LET s == CHOOSE s \in freq_state[runs_on] : TRUE
               IN  ChargeFreq(<<cpu_id, s.khz>>, clock - s.since)
    /\ freq_state' = IF freq_state[runs_on] = {}
                     THEN [freq_state EXCEPT ![runs_on] = {[khz |-> khz, since |-> clock]}]
                     ELSE freq_state
    /\ UNCHANGED <<shared, clock, spent, freqTaken, residency>>

\* Mutant: the time is charged to the frequency that begins.
cpu_frequency_new(runs_on, cpu_id, khz) ==
    /\ shared \/ runs_on = cpu_id
    /\ freq' = [freq EXCEPT ![cpu_id] = khz]
    /\ cpu_freq_time' =
          IF freq_state[runs_on] = {} THEN cpu_freq_time
          ELSE LET s == CHOOSE s \in freq_state[runs_on] : TRUE
               IN  ChargeFreq(<<cpu_id, khz>>, clock - s.since)
    /\ freq_state' = [freq_state EXCEPT ![runs_on] = {[khz |-> khz, since |-> clock]}]
    /\ UNCHANGED <<shared, clock, spent, freqTaken, residency>>

cpu_frequency(runs_on, cpu_id, khz) ==
    /\ shared \/ runs_on = cpu_id
    /\ freq' = [freq EXCEPT ![cpu_id] = khz]
    /\ cpu_freq_time' =
          IF freq_state[runs_on] = {} THEN cpu_freq_time
          ELSE LET s == CHOOSE s \in freq_state[runs_on] : TRUE
               IN  ChargeFreq(<<cpu_id, s.khz>>, clock - s.since)
    /\ freq_state' = [freq_state EXCEPT ![runs_on] = {[khz |-> khz, since |-> clock]}]
    /\ UNCHANGED <<shared, clock, spent, freqTaken, residency>>

FreqTimePasses ==
    /\ clock < MaxFreqTime
    /\ clock' = clock + 1
    /\ spent' = [k \in CpuFreqKey |-> IF freq[k[1]] = k[2] THEN spent[k] + 1 ELSE spent[k]]
    /\ UNCHANGED <<shared, freq, freq_state, cpu_freq_time, freqTaken, residency>>

DrainFreq ==
    /\ freqTaken = EmptyMap
    /\ freqTaken' = cpu_freq_time
    /\ residency' = [k \in CpuFreqKey |-> residency[k] + Get(cpu_freq_time, k, 0)]
    /\ UNCHANGED <<freqMachine, freq_state, cpu_freq_time>>

RemoveFreq(k) ==
    /\ k \in DOMAIN freqTaken
    /\ freqTaken' = Without(freqTaken, k) /\ cpu_freq_time' = Without(cpu_freq_time, k)
    /\ UNCHANGED <<freqMachine, freq_state, residency>>

FreqNext ==
    \/ \E r, c \in FreqCpu : \E f \in Freq : cpu_frequency(r, c, f)
    \/ FreqTimePasses \/ DrainFreq
    \/ \E k \in CpuFreqKey : RemoveFreq(k)

FreqSpec == FreqInit /\ [][FreqNext]_freqVars

-----------------------------------------------------------------------------
FreqCharged(k) == residency[k] + Get(cpu_freq_time, k, 0) - Get(freqTaken, k, 0)

\* Where every CPU has its own policy, a CPU is never charged more time at a
\* frequency than it spent there, across handlers and a drain that interleave.
FreqNotOvercharged ==
    ~shared => \A k \in CpuFreqKey : FreqCharged(k) <= spent[k]

\* Where CPUs share a policy the time goes to the wrong CPU or frequency, but the
\* charges of all CPUs together stay within the time all CPUs had.
FreqTotalBounded ==
    SumFunction([k \in CpuFreqKey |-> FreqCharged(k)]) <= Cardinality(FreqCpu) * (clock - 1)
=============================================================================
