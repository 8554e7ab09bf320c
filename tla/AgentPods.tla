----------------------------- MODULE AgentPods ------------------------------
(***************************************************************************)
(* Per-pod power of one node (keck-agent/src/main.rs): in every interval   *)
(* the agent scans /proc and shares the node's power by what each process  *)
(* did since the last scan (enumerate_pods); replaces the CPU and memory   *)
(* shares by shares computed from the eBPF snapshot when the CPU reading   *)
(* is an estimate (enumerate_pods_ebpf_weighted); adds GPU power           *)
(* (add_gpu_power_to_pods); and now and then drops dead PIDs from its      *)
(* caches (cleanup_stale_pids).  Meanwhile processes run, end, and give    *)
(* their PID to a successor.                                               *)
(*                                                                         *)
(* Powers are natural numbers and a share is rounded down once, as the     *)
(* code does when it converts to u64.  Page faults are left out: their     *)
(* deltas are computed and not used.                                       *)
(***************************************************************************)
EXTENDS Integers, Sequences, FiniteSets, FiniteSetsExt, Maps

CONSTANTS
    ProcPid,
    Home,         \* PID -> where its processes can be: {uid}, or {} outside pods
    Cached,       \* pods in pod_cache: uid -> name within its namespace
    Pss,          \* values a process can have
    PssEvery,     \* 5: PSS is read again every so many intervals
    CleanEvery,   \* 30: caches are cleaned every so many intervals (a multiple of 5)
    Node,         \* node power [cpu, memory, storage, io]
    ReadCores,    \* cores of the package that Node.cpu is the reading of
    Llc,          \* total_llc_misses > 0
    Snapshots,    \* eBPF snapshots a drain can return
    GpuLines,     \* DCGM answers: sequences of [pod, uw]
    MaxTicks,     \* bounds, per PID: CPU ticks,
    MaxIo,        \* bytes
    MaxIoFailed   \* and failed reads of its io file

IsCount(m) == IsFiniteSet(DOMAIN m) /\ \A k \in DOMAIN m : m[k] \in Nat

\* A snapshot counts, and has a weight for every task it has a time of, or none.
IsSnapshot(s) ==
    /\ IsCount(s.time) /\ IsCount(s.weight) /\ IsCount(s.cycles) /\ IsCount(s.freq) /\ IsCount(s.net)
    /\ DOMAIN s.weight # {} => DOMAIN s.time \subseteq DOMAIN s.weight

\* A process is in one pod or in none.
ASSUME PodsAssumption ==
    /\ IsFiniteSet(ProcPid) /\ Pss \subseteq Nat
    /\ \A p \in ProcPid : \A pod \in Home[p] : pod = {} \/ \E u \in pod : pod = {u}
    /\ {Node.cpu, Node.memory, Node.storage, Node.io} \subseteq Nat
    /\ \A s \in Snapshots : IsSnapshot(s)
    /\ \A l \in GpuLines : l \in Seq({l[i] : i \in DOMAIN l}) /\ \A i \in DOMAIN l : l[i].uw \in Nat

VARIABLES
    procs,        \* PID -> [pod : {} or {uid}, ticks, io, pss]
    prev_cpu_ticks, prev_io_bytes, pss_cache, tick_count,
    pods,         \* the report's pods, a set of records
    snapshot,     \* what drain returned in this interval
    lines,        \* DCGM lines still to be added
    step,         \* the part of the interval the agent is in
    overridden,   \* eBPF shares replaced some of the /proc shares
    used, moved,  \* ticks and bytes of all processes that ever had this PID
    charged, ioCharged,   \* what all scans so far charged to the PID
    ioFailed      \* scans that could not read the io file of the PID

machine == <<procs, used, moved>>
caches == <<prev_cpu_ticks, prev_io_bytes, pss_cache, tick_count>>
ghosts == <<charged, ioCharged, ioFailed>>
interval == <<pods, snapshot, lines, step, overridden>>
podVars == <<machine, caches, ghosts, interval>>

\* No eBPF, or a drain that failed.
NoSnapshot == [time |-> EmptyMap, weight |-> EmptyMap, cycles |-> EmptyMap, freq |-> EmptyMap,
               net |-> EmptyMap]

PodsInit ==
    /\ procs = EmptyMap
    /\ prev_cpu_ticks = EmptyMap /\ prev_io_bytes = EmptyMap /\ pss_cache = EmptyMap
    /\ tick_count = 0 /\ pods = {} /\ lines = <<>> /\ step = "sleep" /\ overridden = FALSE
    /\ snapshot = NoSnapshot
    /\ used = [p \in ProcPid |-> 0] /\ moved = [p \in ProcPid |-> 0]
    /\ charged = [p \in ProcPid |-> 0] /\ ioCharged = [p \in ProcPid |-> 0]
    /\ ioFailed = [p \in ProcPid |-> 0]

-----------------------------------------------------------------------------
(* Processes, while the agent sleeps                                       *)

\* The PID's owner starts with its counters at zero, in a pod or on the host.
Start(p) ==
    /\ step = "sleep" /\ p \notin DOMAIN procs
    /\ \E pod \in Home[p], kb \in Pss :
          procs' = Put(procs, p, [pod |-> pod, ticks |-> 0, io |-> 0, pss |-> kb])
    /\ UNCHANGED <<used, moved, caches, ghosts, interval>>

Exit(p) ==
    /\ step = "sleep" /\ p \in DOMAIN procs
    /\ procs' = Without(procs, p)
    /\ UNCHANGED <<used, moved, caches, ghosts, interval>>

Run(p) ==
    /\ step = "sleep" /\ p \in DOMAIN procs
    /\ \/ /\ used[p] < MaxTicks[p]
          /\ procs' = [procs EXCEPT ![p].ticks = @ + 1] /\ used' = [used EXCEPT ![p] = @ + 1]
          /\ UNCHANGED moved
       \/ /\ moved[p] < MaxIo[p]
          /\ procs' = [procs EXCEPT ![p].io = @ + 1] /\ moved' = [moved EXCEPT ![p] = @ + 1]
          /\ UNCHANGED used
    /\ UNCHANGED <<caches, ghosts, interval>>

-----------------------------------------------------------------------------
(* enumerate_pods                                                          *)

\* Mutant: shares are rounded up.
ShareRoundedUp(power, part, total) ==
    IF total = 0 THEN 0 ELSE (power * part + total - 1) \div total

Share(power, part, total) == IF total = 0 THEN 0 ELSE (power * part) \div total

\* 60% by PSS and 40% by CPU when LLC misses were counted, otherwise by PSS.
MemoryShare(pss, allPss, cpu, allCpu) ==
    LET P == Max({1, allPss})  C == Max({1, allCpu}) IN
    IF Llc THEN (Node.memory * (6 * pss * C + 4 * cpu * P)) \div (10 * P * C)
    ELSE Share(Node.memory, pss, allPss)

Sum(f, S) == SumFunctionOnSet(f, S)

recalculate_total(pod) ==
    [pod EXCEPT !.total_uw = pod.cpu_uw + pod.memory_uw + pod.gpu_uw + pod.storage_uw + pod.io_uw]

\* Mutant: a PID seen for the first time is charged from zero.
DeltaFromZero(prev, p, current) == Max({0, current - Get(prev, p, 0)})

\* What a PID did since the last scan; nothing the first time it is seen.
DeltaOf(prev, p, current) == Max({0, current - Get(prev, p, current)})

\* Read again in every interval with refresh_pss, and the first time.
PssOf(p) ==
    IF tick_count % PssEvery = 0 THEN procs[p].pss ELSE Get(pss_cache, p, procs[p].pss)

\* The pod in the path of a process's cgroup: {uid}, or {} outside pods.
extract_pod_uid(p) == procs[p].pod

\* Bytes read and written; a file that cannot be read counts as 0.
read_io_bytes(p, failing) == IF p \in failing THEN 0 ELSE procs[p].io

\* pids: processes whose stat could be read; noCgroup: those whose cgroup file
\* was gone by then; noIo: those whose io file could not be read, which counts
\* as 0 bytes; net: bytes per PID from the snapshot.
enumerate_pods(pids, noCgroup, noIo, net) ==
    LET ticks == [p \in pids |-> DeltaOf(prev_cpu_ticks, p, procs[p].ticks)]
        io == [p \in pids |-> read_io_bytes(p, noIo)]
        bytes == [p \in pids |-> DeltaOf(prev_io_bytes, p, io[p])]
        pss == [p \in pids |-> PssOf(p)]
        inPod == {p \in pids \ noCgroup : extract_pod_uid(p) # {}}
        of(u) == {p \in inPod : u \in extract_pod_uid(p)}
        sent(S) == Sum([p \in S |-> Get(net, p, 0)], S)
        report(u) ==
            LET cpu == Sum(ticks, of(u)) IN
            recalculate_total(
              [pod_uid |-> u, cpu_uw |-> Share(Node.cpu, cpu, Sum(ticks, pids)),
               memory_uw |-> MemoryShare(Sum(pss, of(u)), Sum(pss, pids), cpu, Sum(ticks, pids)),
               storage_uw |-> Share(Node.storage, Sum(bytes, of(u)), Sum(bytes, pids)),
               io_uw |-> IF sent(inPod) > 0 THEN Share(Node.io, sent(of(u)), sent(inPod))
                         ELSE Share(Node.io, cpu, Sum(ticks, pids)),
               gpu_uw |-> 0, total_uw |-> 0])
    IN  /\ prev_cpu_ticks' = Extend(prev_cpu_ticks, [p \in pids |-> procs[p].ticks])
        /\ prev_io_bytes' = Extend(prev_io_bytes, io)
        /\ pss_cache' = Extend(pss_cache, pss)
        /\ pods' = {report(u) : u \in UNION {extract_pod_uid(p) : p \in inPod}}
        /\ charged' = [p \in ProcPid |-> charged[p] + Get(ticks, p, 0)]
        /\ ioCharged' = [p \in ProcPid |-> ioCharged[p] + Get(bytes, p, 0)]
        /\ ioFailed' = [p \in ProcPid |-> ioFailed[p] + (IF p \in noIo THEN 1 ELSE 0)]

\* When read_dir fails there are no pods, no cache is touched, and what the
\* drain returned has no pod to go to.
ScanFails ==
    /\ step = "sleep" /\ step' = "ebpf" /\ pods' = {}
    /\ UNCHANGED <<machine, caches, ghosts, snapshot, lines, overridden>>

\* The interval's work starts with the drain.
Scan ==
    /\ step = "sleep" /\ step' = "ebpf"
    /\ snapshot' \in {NoSnapshot} \cup Snapshots
    /\ \E pids \in SUBSET DOMAIN procs :
       \E noIo \in SUBSET pids, noCgroup \in SUBSET {p \in pids : procs[p].pod # {}} :
          /\ \A p \in noIo : ioFailed[p] < MaxIoFailed[p]
          /\ enumerate_pods(pids, noCgroup, noIo, snapshot'.net)
    /\ UNCHANGED <<machine, tick_count, lines, overridden>>

-----------------------------------------------------------------------------
(* enumerate_pods_ebpf_weighted                                            *)

Cpus(s) == {k[1] : k \in DOMAIN s.time}

On(s, c) == {k \in DOMAIN s.time : k[1] = c}

\* Weight of a core: its cycles, else frequency^2 x time, else the time of its
\* tasks.
core_weight(s) ==
    CASE DOMAIN s.cycles # {} -> s.cycles
      [] DOMAIN s.cycles = {} /\ DOMAIN s.freq # {} -> s.freq
      [] OTHER -> [c \in Cpus(s) |-> Sum(s.time, On(s, c))]

\* Weight of a task on a core: its time, scaled by its IPC and miss ratio when
\* the snapshot has per-PID counters (the scaled value is s.weight).
pid_weight(s) == IF DOMAIN s.weight # {} THEN s.weight ELSE s.time

\* Weight of all tasks of a core.
task_weight(s) == [c \in Cpus(s) |-> Sum(pid_weight(s), On(s, c))]

Loaded(s) == {c \in Cpus(s) : Get(core_weight(s), c, 0) > 0 /\ task_weight(s)[c] > 0}

\* Product of the task weights of some cores: the fractions of all pods have the
\* denominator total weight x Weights(s, Loaded(s)).
Weights(s, cores) ==
    MapThenFoldSet(LAMBDA x, y : x * y, 1, LAMBDA c : task_weight(s)[c],
                   LAMBDA T : CHOOSE c \in T : TRUE, cores)

\* Every core gets its part of the node's power and splits it over all tasks
\* that ran on it; the parts of tasks outside pods go to nobody.
pod_cpu_uw(s, pod_of, u) ==
    Sum([c \in Loaded(s) |-> Node.cpu * core_weight(s)[c] * Weights(s, Loaded(s) \ {c})
            * Sum(pid_weight(s), {k \in On(s, c) : u \in Get(pod_of, k[2], {})})],
        Loaded(s))

\* Tasks whose cgroup file can still be read, with their pods.
pid_pod(s, gone) ==
    [p \in {k[2] : k \in DOMAIN s.time} \cap (DOMAIN procs \ gone) |-> extract_pod_uid(p)]

\* uid -> [cpu, memory] for the pods of those tasks, or nothing when no core has
\* any weight.
enumerate_pods_ebpf_weighted(s, gone) ==
    LET pod_of == pid_pod(s, gone)
        uids == UNION Range(pod_of)
        of(u) == {p \in DOMAIN pod_of : u \in pod_of[p]}
        cpu == [u \in uids |-> pod_cpu_uw(s, pod_of, u)]
        all == Sum(core_weight(s), DOMAIN core_weight(s))
        pss == [p \in DOMAIN pod_of |-> IF pod_of[p] = {} THEN 0 ELSE procs[p].pss]
    IN  IF all = 0 THEN EmptyMap
        ELSE [u \in uids |->
                [cpu |-> cpu[u] \div (all * Weights(s, Loaded(s))),
                 memory |-> MemoryShare(Sum(pss, of(u)), Sum(pss, DOMAIN pss),
                                        cpu[u], Sum(cpu, uids))]]

OverrideOne(pod, new) ==
    IF pod.pod_uid \in DOMAIN new
    THEN recalculate_total([pod EXCEPT !.cpu_uw = new[pod.pod_uid].cpu,
                                       !.memory_uw = new[pod.pod_uid].memory])
    ELSE pod

\* Only for an estimated CPU reading and a snapshot with CPU times.  Pods of the
\* scan that the snapshot does not have keep the share the scan gave them.
Override ==
    /\ step = "ebpf" /\ step' = "gpu"
    /\ \E estimated \in BOOLEAN, gone \in SUBSET (DOMAIN procs \cap {k[2] : k \in DOMAIN snapshot.time}) :
       LET new == IF estimated /\ DOMAIN snapshot.time # {}
                  THEN enumerate_pods_ebpf_weighted(snapshot, gone) ELSE EmptyMap
       IN  /\ pods' = {OverrideOne(pod, new) : pod \in pods}
           /\ overridden' = (DOMAIN new # {})
    /\ \E answer \in {<<>>} \cup GpuLines : lines' = answer
    /\ UNCHANGED <<machine, caches, ghosts, snapshot>>

-----------------------------------------------------------------------------
(* add_gpu_power_to_pods, cleanup_stale_pids                               *)

\* The name a pod goes by: from pod_cache, or its own uid (u has no name).
NameOf(u) == IF u \in DOMAIN Cached THEN {Cached[u]} ELSE {}

WithGpu(pod, uw) == recalculate_total([pod EXCEPT !.gpu_uw = @ + uw])

GpuOnly(u) == [pod_uid |-> u, cpu_uw |-> 0, memory_uw |-> 0, storage_uw |-> 0, io_uw |-> 0,
               gpu_uw |-> 0, total_uw |-> 0]

\* To a pod of the report with this name, else to a cached pod with this name as
\* a new entry, else to nobody.
AddGpuLine(line) ==
    LET matching == {pod \in pods : line.pod \in NameOf(pod.pod_uid)}
        cached == {u \in DOMAIN Cached : Cached[u] = line.pod}
    IN  IF matching # {} THEN \E pod \in matching :
                                pods' = (pods \ {pod}) \cup {WithGpu(pod, line.uw)}
        ELSE IF cached # {} THEN \E u \in cached : pods' = pods \cup {WithGpu(GpuOnly(u), line.uw)}
        ELSE pods' = pods

AddGpu ==
    /\ step = "gpu" /\ lines # <<>>
    /\ AddGpuLine(Head(lines)) /\ lines' = Tail(lines)
    /\ UNCHANGED <<machine, caches, ghosts, snapshot, step, overridden>>

\* The PIDs in /proc, or none when it cannot be read.
cleanup_stale_pids(active) ==
    /\ prev_cpu_ticks' = Restrict(prev_cpu_ticks, active \cap DOMAIN prev_cpu_ticks)
    /\ prev_io_bytes' = Restrict(prev_io_bytes, active \cap DOMAIN prev_io_bytes)
    /\ pss_cache' = Restrict(pss_cache, active \cap DOMAIN pss_cache)

\* The report is sent and the interval ends.  Only the remainder of
\* tick_count matters.
Finish ==
    /\ step = "gpu" /\ lines = <<>> /\ step' = "sleep"
    /\ tick_count' = (tick_count + 1) % CleanEvery
    /\ IF tick_count' = 0
       THEN \E active \in {{}, DOMAIN procs} : cleanup_stale_pids(active)
       ELSE UNCHANGED <<prev_cpu_ticks, prev_io_bytes, pss_cache>>
    /\ pods' = {} /\ snapshot' = NoSnapshot /\ overridden' = FALSE
    /\ UNCHANGED <<machine, ghosts, lines>>

PodsNext ==
    \/ \E p \in ProcPid : Start(p) \/ Exit(p) \/ Run(p)
    \/ ScanFails \/ Scan \/ Override \/ AddGpu \/ Finish

-----------------------------------------------------------------------------
(* Properties                                                              *)

Total(field) == Sum([pod \in pods |-> pod[field]], pods)

\* Over any number of intervals the scans charge a PID no more CPU ticks than
\* the processes that had it used: reuse of the PID, unread files, and cleanups
\* that lose live PIDs only lose ticks.
TicksChargedOnce == \A p \in ProcPid : charged[p] <= used[p]

\* A failed read of /proc/PID/io resets the baseline to zero, so the next scan
\* charges all of the process's bytes again; each failure costs at most that.
IoOverchargeBounded == \A p \in ProcPid : ioCharged[p] <= moved[p] * (1 + ioFailed[p])

\* What the scans charge is bounded by what the processes did, over PID reuse,
\* failed reads and lost baselines.
ScansChargeOnce == TicksChargedOnce /\ IoOverchargeBounded

\* The pods of a report get no more of a component than the node has, except
\* that CPU and memory can be given twice when shares of the snapshot and shares
\* of the scan are mixed.
PodsWithinShares ==
    LET twice == IF overridden THEN 2 ELSE 1 IN
    /\ Total("cpu_uw") <= twice * Node.cpu
    /\ Total("memory_uw") <= twice * Node.memory
    /\ Total("storage_uw") <= Node.storage
    /\ Total("io_uw") <= Node.io

\* docs/power-attribution.md: "no energy is created or lost in the attribution":
\* the pods of a report together get no more CPU power than the node has.
NoEnergyCreated == Total("cpu_uw") <= Node.cpu

\* The comment on enumerate_pods_ebpf_weighted: "Cross-socket attribution is correct
\* (socket 0 energy goes only to processes that ran on socket 0 cores)".  The CPU
\* reading that is split is that of one package, so a pod whose processes only
\* ran on other cores should get none of it.
CrossSocketCorrect ==
    LET new == enumerate_pods_ebpf_weighted(snapshot, {})
        coresOf(u) == {k[1] : k \in {j \in DOMAIN snapshot.time : u \in Get(pid_pod(snapshot, {}), j[2], {})}}
    IN  \A u \in DOMAIN new : coresOf(u) \cap ReadCores = {} => new[u].cpu = 0

\* A report has at most one entry per pod, because a GPU pod is added only when
\* no entry goes by its name, and the controller keeps the last entry of a uid.
OneEntryPerPod ==
    \A a, b \in pods : a.pod_uid = b.pod_uid => a = b

\* The total of every entry is the sum of its parts, also after the CPU and
\* memory shares were replaced and GPU power was added.
TotalsAddUp == \A pod \in pods : recalculate_total(pod) = pod

\* After the scan, the override and the GPU lines, in whatever states they found
\* the caches, a report is consistent in itself and within what the node has, CPU
\* and memory within twice that when the shares of two sources are mixed.
SharesConsistent == PodsWithinShares /\ OneEntryPerPod /\ TotalsAddUp
=============================================================================
