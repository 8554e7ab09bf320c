----------------------------- MODULE PodProofs ------------------------------
(***************************************************************************)
(* The pods of the agent, for any number of processes, pods, cores and GPU *)
(* lines: what a scan of /proc charges, and the report that the scan, the  *)
(* eBPF weights and the GPU lines make up.                                 *)
(***************************************************************************)
EXTENDS AgentPods, FoldProofs

-----------------------------------------------------------------------------
(* Charges of the scans                                                    *)

\* What /proc shows of a process.
Process == [pod : UNION {Home[p] : p \in ProcPid}, ticks : Nat, io : Nat, pss : Pss]

\* What the next scan will charge process p with: its counter less the reading
\* kept of it.
Pending(prev, p, current) ==
    IF p \in DOMAIN prev /\ current > prev[p] THEN current - prev[p] ELSE 0

\* Nothing was charged to a process that it did not do; a failed read of its
\* I/O can charge the bytes before it once more.
Settled(p) ==
    charged[p] <= used[p] /\ ioCharged[p] <= moved[p] * (1 + ioFailed[p])

\* The same with what the next scan will charge added.
Covered(p) ==
    /\ charged[p] + Pending(prev_cpu_ticks, p, procs[p].ticks) <= used[p]
    /\ ioCharged[p] + Pending(prev_io_bytes, p, procs[p].io) <= moved[p] * (1 + ioFailed[p])
    /\ procs[p].io <= moved[p]

\* The maps of the scanner and the counters of the processes have their types.
ScanTypes ==
    /\ IsMap(procs, ProcPid, Process)
    /\ IsMap(prev_cpu_ticks, ProcPid, Nat) /\ IsMap(prev_io_bytes, ProcPid, Nat)
    /\ used \in [ProcPid -> Nat] /\ moved \in [ProcPid -> Nat]
    /\ charged \in [ProcPid -> Nat] /\ ioCharged \in [ProcPid -> Nat]
    /\ ioFailed \in [ProcPid -> Nat]

\* The inductive invariant behind ScansChargeOnce. Settled alone is not
\* inductive: what the scanner remembers of a running process has to bound what
\* it will charge next.
ScanInv ==
    /\ ScanTypes
    /\ \A p \in ProcPid : Settled(p)
    /\ \A p \in DOMAIN procs : Covered(p)

\* saturating_sub against the last reading charges what is pending, and nothing
\* for a process seen for the first time.
LEMMA DeltaIsPending ==
    ASSUME NEW prev, NEW p, NEW n \in Nat, p \in DOMAIN prev => prev[p] \in Nat
    PROVE  /\ DeltaOf(prev, p, n) \in Nat
           /\ DeltaOf(prev, p, n) = Pending(prev, p, n)
<1>1. ASSUME NEW a \in Int
      PROVE  Max({0, a}) = IF a > 0 THEN a ELSE 0
  <2> DEFINE t == IF a > 0 THEN a ELSE 0
  <2>1. t \in {0, a} /\ \A y \in {0, a} : t >= y
    OBVIOUS
  <2>2. \A x \in {0, a} : (\A y \in {0, a} : x >= y) => x = t
    BY SMT
  <2> HIDE DEF t
  <2> QED
    BY <2>1, <2>2, Zenon DEF Max, t
<1>2. n - Get(prev, p, n) \in Int
  BY DEF Get
<1>3. DeltaOf(prev, p, n) = IF n - Get(prev, p, n) > 0 THEN n - Get(prev, p, n) ELSE 0
  BY <1>1, <1>2, Zenon DEF DeltaOf
<1> QED
  BY <1>3 DEF Get, Pending

\* One more tick adds at most one to what is pending; a counter at zero has
\* nothing pending.
LEMMA PendingNat ==
    ASSUME NEW prev, IsMap(prev, ProcPid, Nat), NEW p, NEW n \in Nat
    PROVE  /\ Pending(prev, p, n) \in Nat
           /\ Pending(prev, p, n + 1) <= Pending(prev, p, n) + 1
           /\ Pending(prev, p, n) <= n
           /\ Pending(prev, p, 0) = 0
<1>1. p \in DOMAIN prev => prev[p] \in Nat
  BY Zenon DEF IsMap
<1> QED
  BY <1>1 DEF Pending

\* A new process, whose pid may be in the caches from an earlier one, keeps the
\* invariant.
LEMMA StartScan ==
    ASSUME ScanInv, NEW p \in ProcPid, Start(p)
    PROVE  ScanInv'
<1>1. PICK pod \in Home[p], kb \in Pss :
             procs' = Put(procs, p, [pod |-> pod, ticks |-> 0, io |-> 0, pss |-> kb])
  BY Zenon DEF Start
<1>2. UNCHANGED <<used, moved, caches, ghosts>>
  BY Zenon DEF Start
<1> DEFINE new == [pod |-> pod, ticks |-> 0, io |-> 0, pss |-> kb]
<1>3. new \in Process /\ new.ticks = 0 /\ new.io = 0
  BY Zenon DEF Process
<1> HIDE DEF new
<1>4. /\ DOMAIN procs' = DOMAIN procs \cup {p} /\ procs'[p] = new
      /\ \A q \in DOMAIN procs : q # p => procs'[q] = procs[q]
  BY <1>1, Zenon DEF Put, new
<1>5. ScanTypes'
  BY <1>1, <1>2, <1>3, Zenon DEF ScanInv, ScanTypes, IsMap, Put, caches, ghosts, new
<1>6. \A q \in ProcPid : Settled(q)'
  BY <1>2, Zenon DEF ScanInv, Settled, caches, ghosts
<1>7. ASSUME NEW q \in DOMAIN procs' PROVE Covered(q)'
  <2>1. CASE q = p
    <3>1. Pending(prev_cpu_ticks, p, 0) = 0 /\ Pending(prev_io_bytes, p, 0) = 0
      BY PendingNat, Zenon DEF ScanInv, ScanTypes
    <3>2. Settled(p) /\ charged[p] \in Nat /\ ioCharged[p] \in Nat /\ moved[p] \in Nat
      BY Zenon DEF ScanInv, ScanTypes
    <3> QED
      BY <1>2, <1>3, <1>4, <2>1, <3>1, <3>2 DEF Covered, Settled, Pending, caches, ghosts
  <2>2. CASE q # p
    BY <1>2, <1>4, <1>7, <2>2, Zenon DEF ScanInv, Covered, Pending, caches, ghosts
  <2> QED
    BY <2>1, <2>2, Zenon
<1> QED
  BY <1>5, <1>6, <1>7, Zenon DEF ScanInv

\* So does the end of a process.
LEMMA ExitScan ==
    ASSUME ScanInv, NEW p \in ProcPid, Exit(p)
    PROVE  ScanInv'
<1>1. /\ UNCHANGED <<used, moved, caches, ghosts>>
      /\ DOMAIN procs' \subseteq DOMAIN procs /\ \A q \in DOMAIN procs' : procs'[q] = procs[q]
      /\ procs' = [q \in DOMAIN procs' |-> procs[q]]
  BY Zenon DEF Exit, Without, Restrict
<1>2. ScanTypes'
  BY <1>1, Zenon DEF ScanInv, ScanTypes, IsMap, caches, ghosts
<1>3. \A q \in ProcPid : Settled(q)'
  BY <1>1, Zenon DEF ScanInv, Settled, caches, ghosts
<1>4. \A q \in DOMAIN procs' : Covered(q)'
  BY <1>1, Zenon DEF ScanInv, Covered, Pending, caches, ghosts
<1> QED
  BY <1>2, <1>3, <1>4, Zenon DEF ScanInv

\* So does a step of work of a process.
LEMMA RunScan ==
    ASSUME ScanInv, NEW p \in ProcPid, Run(p)
    PROVE  ScanInv'
<1> DEFINE old == procs[p]
<1>1. UNCHANGED <<caches, ghosts>> /\ p \in DOMAIN procs /\ old \in Process
  BY Zenon DEF Run, ScanInv, ScanTypes, IsMap
<1>2. /\ charged[p] \in Nat /\ ioCharged[p] \in Nat /\ ioFailed[p] \in Nat
      /\ used[p] \in Nat /\ moved[p] \in Nat /\ old.ticks \in Nat /\ old.io \in Nat
      /\ moved[p] * (1 + ioFailed[p]) \in Nat
      /\ (moved[p] + 1) * (1 + ioFailed[p]) >= moved[p] * (1 + ioFailed[p]) + 1
  <2>1. /\ charged[p] \in Nat /\ ioCharged[p] \in Nat /\ ioFailed[p] \in Nat
        /\ used[p] \in Nat /\ moved[p] \in Nat /\ old.ticks \in Nat /\ old.io \in Nat
    BY <1>1, Zenon DEF ScanInv, ScanTypes, Process
  <2>2. \A a, b \in Nat : /\ a * (1 + b) \in Nat
                           /\ (a + 1) * (1 + b) >= a * (1 + b) + 1
    <3>1. \A a, b \in Nat : a * (1 + b) \in Nat /\ (a + 1) * (1 + b) = a * (1 + b) + (1 + b)
      BY SMT
    <3> QED
      BY <3>1
  <2> HIDE DEF old
  <2> QED
    BY <2>1, <2>2, Zenon
<1>3. /\ Pending(prev_cpu_ticks, p, old.ticks) \in Nat /\ Pending(prev_io_bytes, p, old.io) \in Nat
      /\ Pending(prev_cpu_ticks, p, old.ticks + 1) \in Nat /\ Pending(prev_io_bytes, p, old.io + 1) \in Nat
      /\ Pending(prev_cpu_ticks, p, old.ticks + 1) <= Pending(prev_cpu_ticks, p, old.ticks) + 1
      /\ Pending(prev_io_bytes, p, old.io + 1) <= Pending(prev_io_bytes, p, old.io) + 1
  <2>1. IsMap(prev_cpu_ticks, ProcPid, Nat) /\ IsMap(prev_io_bytes, ProcPid, Nat)
    BY Zenon DEF ScanInv, ScanTypes
  <2>2. old.ticks + 1 \in Nat /\ old.io + 1 \in Nat
    BY <1>2
  <2> HIDE DEF old
  <2> QED
    BY <1>2, <2>1, <2>2, PendingNat, Zenon
<1>4. CASE /\ procs' = [procs EXCEPT ![p].ticks = @ + 1]
           /\ used' = [used EXCEPT ![p] = @ + 1] /\ UNCHANGED moved
  <2>1. /\ DOMAIN procs' = DOMAIN procs /\ \A q \in DOMAIN procs : q # p => procs'[q] = procs[q]
        /\ procs'[p].ticks = old.ticks + 1 /\ procs'[p].io = old.io /\ procs'[p] \in Process
        /\ procs' \in [DOMAIN procs -> Process]
    <3> DEFINE new == [old EXCEPT !.ticks = @ + 1]
    <3>1. procs' = [procs EXCEPT ![p] = new]
      BY <1>4, Zenon
    <3>2. new \in Process /\ new.ticks = old.ticks + 1 /\ new.io = old.io
      <4>1. \A r \in Process : /\ [r EXCEPT !.ticks = @ + 1] \in Process
                               /\ [r EXCEPT !.ticks = @ + 1].ticks = r.ticks + 1
                               /\ [r EXCEPT !.ticks = @ + 1].io = r.io
        BY DEF Process
      <4> QED
        BY <1>1, <4>1, Zenon
    <3>3. procs \in [DOMAIN procs -> Process]
      BY Zenon DEF ScanInv, ScanTypes, IsMap
    <3> HIDE DEF new, old
    <3> QED
      BY <1>1, <3>1, <3>2, <3>3, Zenon
  <2>2. used'[p] = used[p] + 1 /\ \A q \in ProcPid : q # p => used'[q] = used[q]
    BY <1>4, Zenon DEF ScanInv, ScanTypes
  <2>3. ScanTypes'
    BY <1>1, <1>4, <2>1 DEF ScanInv, ScanTypes, IsMap, caches, ghosts
  <2>4. \A q \in ProcPid : Settled(q)'
    BY <1>1, <1>2, <1>4, <2>2 DEF ScanInv, Settled, caches, ghosts
  <2>5. ASSUME NEW q \in DOMAIN procs' PROVE Covered(q)'
    <3>0. q \in ProcPid /\ q \in DOMAIN procs
      BY <2>1, Zenon DEF ScanInv, ScanTypes, IsMap
    <3>1. CASE q # p
      <4>1. Covered(q)
        BY <3>0, Zenon DEF ScanInv
      <4> QED
        BY <1>1, <1>4, <2>1, <2>2, <3>0, <3>1, <4>1, Zenon DEF Covered, Pending, caches, ghosts
    <3>2. CASE q = p
      <4>1. Covered(p)
        BY <1>1, Zenon DEF ScanInv
      <4>2. charged[p] + Pending(prev_cpu_ticks, p, old.ticks + 1) <= used[p] + 1
        BY <1>2, <1>3, <4>1 DEF Covered
      <4> QED
        BY <1>1, <1>4, <2>1, <2>2, <3>2, <4>1, <4>2, Zenon DEF Covered, Pending, caches, ghosts
    <3> QED
      BY <3>1, <3>2, Zenon
  <2> QED
    BY <2>3, <2>4, <2>5, Zenon DEF ScanInv
<1>5. CASE /\ procs' = [procs EXCEPT ![p].io = @ + 1]
           /\ moved' = [moved EXCEPT ![p] = @ + 1] /\ UNCHANGED used
  <2>1. /\ DOMAIN procs' = DOMAIN procs /\ \A q \in DOMAIN procs : q # p => procs'[q] = procs[q]
        /\ procs'[p].ticks = old.ticks /\ procs'[p].io = old.io + 1 /\ procs'[p] \in Process
        /\ procs' \in [DOMAIN procs -> Process]
    <3> DEFINE new == [old EXCEPT !.io = @ + 1]
    <3>1. procs' = [procs EXCEPT ![p] = new]
      BY <1>5, Zenon
    <3>2. new \in Process /\ new.io = old.io + 1 /\ new.ticks = old.ticks
      <4>1. \A r \in Process : /\ [r EXCEPT !.io = @ + 1] \in Process
                               /\ [r EXCEPT !.io = @ + 1].io = r.io + 1
                               /\ [r EXCEPT !.io = @ + 1].ticks = r.ticks
        BY DEF Process
      <4> QED
        BY <1>1, <4>1, Zenon
    <3>3. procs \in [DOMAIN procs -> Process]
      BY Zenon DEF ScanInv, ScanTypes, IsMap
    <3> HIDE DEF new, old
    <3> QED
      BY <1>1, <3>1, <3>2, <3>3, Zenon
  <2>2. moved'[p] = moved[p] + 1 /\ \A q \in ProcPid : q # p => moved'[q] = moved[q]
    BY <1>5, Zenon DEF ScanInv, ScanTypes
  <2>3. ScanTypes'
    BY <1>1, <1>5, <2>1 DEF ScanInv, ScanTypes, IsMap, caches, ghosts
  <2>4. ASSUME NEW q \in ProcPid PROVE Settled(q)'
    <3>1. Settled(q)
      BY Zenon DEF ScanInv
    <3>2. CASE q # p
      BY <1>1, <1>5, <2>2, <3>1, <3>2, Zenon DEF Settled, caches, ghosts
    <3>3. CASE q = p
      <4>1. ioCharged[p] <= (moved[p] + 1) * (1 + ioFailed[p])
        BY <1>2, <3>1, <3>3 DEF Settled
      <4> QED
        BY <1>1, <1>5, <2>2, <3>1, <3>3, <4>1, Zenon DEF Settled, caches, ghosts
    <3> QED
      BY <3>2, <3>3, Zenon
  <2>5. ASSUME NEW q \in DOMAIN procs' PROVE Covered(q)'
    <3>0. q \in ProcPid /\ q \in DOMAIN procs
      BY <2>1, Zenon DEF ScanInv, ScanTypes, IsMap
    <3>1. CASE q # p
      <4>1. Covered(q)
        BY <3>0, Zenon DEF ScanInv
      <4> QED
        BY <1>1, <1>5, <2>1, <2>2, <3>0, <3>1, <4>1, Zenon DEF Covered, Pending, caches, ghosts
    <3>2. CASE q = p
      <4>1. Covered(p)
        BY <1>1, Zenon DEF ScanInv
      <4>2. ioCharged[p] + Pending(prev_io_bytes, p, old.io + 1)
              <= (moved[p] + 1) * (1 + ioFailed[p])
        BY <1>2, <1>3, <4>1 DEF Covered
      <4>3. old.io + 1 <= moved[p] + 1
        BY <1>2, <4>1 DEF Covered
      <4> QED
        BY <1>1, <1>5, <2>1, <2>2, <3>2, <4>1, <4>2, <4>3, Zenon DEF Covered, Pending, caches, ghosts
    <3> QED
      BY <3>1, <3>2, Zenon
  <2> QED
    BY <2>3, <2>4, <2>5, Zenon DEF ScanInv
<1> QED
  BY <1>4, <1>5, Zenon DEF Run

\* A scan moves what was pending to what is charged and remembers the new
\* readings.
LEMMA EnumerateScan ==
    ASSUME ScanInv, NEW pids \in SUBSET DOMAIN procs, NEW noIo \in SUBSET pids, NEW noCgroup, NEW net,
           enumerate_pods(pids, noCgroup, noIo, net), UNCHANGED machine
    PROVE  ScanInv'
<1> DEFINE ticks == [p \in pids |-> DeltaOf(prev_cpu_ticks, p, procs[p].ticks)]
           io == [p \in pids |-> read_io_bytes(p, noIo)]
           bytes == [p \in pids |-> DeltaOf(prev_io_bytes, p, io[p])]
           seen == [p \in pids |-> procs[p].ticks]
<1>1. /\ prev_cpu_ticks' = Extend(prev_cpu_ticks, seen)
      /\ prev_io_bytes' = Extend(prev_io_bytes, io)
      /\ charged' = [p \in ProcPid |-> charged[p] + Get(ticks, p, 0)]
      /\ ioCharged' = [p \in ProcPid |-> ioCharged[p] + Get(bytes, p, 0)]
      /\ ioFailed' = [p \in ProcPid |-> ioFailed[p] + (IF p \in noIo THEN 1 ELSE 0)]
      /\ procs' = procs /\ used' = used /\ moved' = moved
  BY Zenon DEF enumerate_pods, machine
<1>2. /\ pids \subseteq ProcPid
      /\ \A p \in DOMAIN procs : p \in ProcPid /\ procs[p].ticks \in Nat /\ procs[p].io \in Nat
  BY Zenon DEF ScanInv, ScanTypes, IsMap, Process
<1>3. /\ \A p \in pids : /\ seen[p] = procs[p].ticks /\ seen[p] \in Nat /\ io[p] \in Nat
                          /\ io[p] = IF p \in noIo THEN 0 ELSE procs[p].io
      /\ \A p : p \in DOMAIN prev_cpu_ticks => prev_cpu_ticks[p] \in Nat
      /\ \A p : p \in DOMAIN prev_io_bytes => prev_io_bytes[p] \in Nat
      /\ DOMAIN seen = pids /\ DOMAIN io = pids
  BY <1>2, Zenon DEF read_io_bytes, ScanInv, ScanTypes, IsMap
<1>4. \A p \in pids : /\ ticks[p] = Pending(prev_cpu_ticks, p, procs[p].ticks) /\ ticks[p] \in Nat
                      /\ bytes[p] = Pending(prev_io_bytes, p, io[p]) /\ bytes[p] \in Nat
  <2> SUFFICES ASSUME NEW p \in pids
               PROVE  /\ ticks[p] = Pending(prev_cpu_ticks, p, procs[p].ticks) /\ ticks[p] \in Nat
                      /\ bytes[p] = Pending(prev_io_bytes, p, io[p]) /\ bytes[p] \in Nat
    BY Zenon
  <2>1. /\ DeltaOf(prev_cpu_ticks, p, procs[p].ticks) \in Nat
        /\ DeltaOf(prev_cpu_ticks, p, procs[p].ticks) = Pending(prev_cpu_ticks, p, procs[p].ticks)
    BY <1>2, <1>3, DeltaIsPending, Zenon
  <2>2. /\ DeltaOf(prev_io_bytes, p, io[p]) \in Nat
        /\ DeltaOf(prev_io_bytes, p, io[p]) = Pending(prev_io_bytes, p, io[p])
    <3> HIDE DEF io
    <3> QED
      BY <1>3, DeltaIsPending, Zenon
  <2> QED
    BY <2>1, <2>2, Zenon
<1>5. /\ \A p \in ProcPid : Get(ticks, p, 0) = IF p \in pids THEN ticks[p] ELSE 0
      /\ \A p \in ProcPid : Get(bytes, p, 0) = IF p \in pids THEN bytes[p] ELSE 0
  BY Zenon DEF Get
<1> HIDE DEF ticks, io, bytes, seen
<1>6. ScanTypes'
  <2>1. charged' \in [ProcPid -> Nat] /\ ioCharged' \in [ProcPid -> Nat] /\ ioFailed' \in [ProcPid -> Nat]
    BY <1>1, <1>4, <1>5 DEF ScanInv, ScanTypes
  <2>2. IsMap(prev_cpu_ticks', ProcPid, Nat) /\ IsMap(prev_io_bytes', ProcPid, Nat)
    BY <1>1, <1>2, <1>3, Zenon DEF ScanInv, ScanTypes, IsMap, Extend
  <2> QED
    BY <1>1, <2>1, <2>2, Zenon DEF ScanInv, ScanTypes
<1>7. ASSUME NEW p \in ProcPid
      PROVE  Settled(p)' /\ (p \in DOMAIN procs => Covered(p)')
  <2>0. /\ charged[p] \in Nat /\ ioCharged[p] \in Nat /\ ioFailed[p] \in Nat
        /\ used[p] \in Nat /\ moved[p] \in Nat /\ Settled(p)
        /\ p \in DOMAIN procs => Covered(p)
    BY Zenon DEF ScanInv, ScanTypes
  <2>1. CASE p \notin pids
    <3>1. charged'[p] = charged[p] /\ ioCharged'[p] = ioCharged[p] /\ ioFailed'[p] = ioFailed[p]
      BY <1>1, <1>5, <2>0, <2>1
    <3>2. /\ p \in DOMAIN prev_cpu_ticks' <=> p \in DOMAIN prev_cpu_ticks
          /\ p \in DOMAIN prev_cpu_ticks => prev_cpu_ticks'[p] = prev_cpu_ticks[p]
          /\ p \in DOMAIN prev_io_bytes' <=> p \in DOMAIN prev_io_bytes
          /\ p \in DOMAIN prev_io_bytes => prev_io_bytes'[p] = prev_io_bytes[p]
      BY <1>1, <1>3, <2>1, Zenon DEF Extend
    <3> QED
      BY <1>1, <2>0, <3>1, <3>2, Zenon DEF Settled, Covered, Pending
  <2>2. CASE p \in pids
    <3>0. Covered(p) /\ procs[p].ticks \in Nat /\ procs[p].io \in Nat
      BY <1>2, <2>0, <2>2, Zenon
    <3>1. /\ charged'[p] = charged[p] + Pending(prev_cpu_ticks, p, procs[p].ticks)
          /\ ioCharged'[p] = ioCharged[p] + Pending(prev_io_bytes, p, io[p])
      BY <1>1, <1>4, <1>5, <2>2, Zenon
    <3>2. /\ p \in DOMAIN prev_cpu_ticks' /\ prev_cpu_ticks'[p] = procs[p].ticks
          /\ p \in DOMAIN prev_io_bytes' /\ prev_io_bytes'[p] = io[p]
      BY <1>1, <1>3, <2>2, Zenon DEF Extend
    <3>3. Pending(prev_cpu_ticks', p, procs[p].ticks) = 0
      BY <3>0, <3>2 DEF Pending
    <3>4. charged'[p] <= used[p]
      BY <3>0, <3>1, Zenon DEF Covered
    <3>5. CASE p \notin noIo
      <4>1. io[p] = procs[p].io /\ ioFailed'[p] = ioFailed[p]
        BY <1>1, <1>3, <2>0, <2>2, <3>5
      <4>2. Pending(prev_io_bytes', p, procs[p].io) = 0
        BY <3>0, <3>2, <4>1 DEF Pending
      <4>3. ioCharged'[p] <= moved[p] * (1 + ioFailed'[p])
        BY <3>0, <3>1, <4>1, Zenon DEF Covered
      <4>4. charged'[p] \in Nat /\ ioCharged'[p] \in Nat
        BY <1>6, Zenon DEF ScanTypes
      <4> QED
        BY <1>1, <3>0, <3>3, <3>4, <4>2, <4>3, <4>4 DEF Settled, Covered
    <3>6. CASE p \in noIo
      <4>1. io[p] = 0 /\ ioFailed'[p] = ioFailed[p] + 1
        BY <1>1, <1>3, <2>2, <3>6, Zenon
      <4>2. Pending(prev_io_bytes, p, 0) = 0
        BY PendingNat, Zenon DEF ScanInv, ScanTypes
      <4>3. ioCharged'[p] = ioCharged[p]
        BY <2>0, <3>1, <4>1, <4>2
      <4>4. Pending(prev_io_bytes', p, procs[p].io) = procs[p].io
        BY <3>0, <3>2, <4>1 DEF Pending
      <4>5. moved[p] * (1 + ioFailed'[p]) = moved[p] * (1 + ioFailed[p]) + moved[p]
        <5>1. \A a, b \in Nat : a * (1 + (b + 1)) = a * (1 + b) + a
          BY SMT
        <5> QED
          BY <2>0, <4>1, <5>1
      <4>6. moved[p] * (1 + ioFailed[p]) \in Nat
        <5>1. \A a, b \in Nat : a * (1 + b) \in Nat
          BY SMT
        <5> QED
          BY <2>0, <5>1, Zenon
      <4>7. procs[p].io <= moved[p] /\ ioCharged[p] <= moved[p] * (1 + ioFailed[p])
        BY <2>0, <3>0, Zenon DEF Covered, Settled
      <4>8. /\ ioCharged'[p] <= moved[p] * (1 + ioFailed'[p])
            /\ ioCharged'[p] + Pending(prev_io_bytes', p, procs[p].io) <= moved[p] * (1 + ioFailed'[p])
        BY <2>0, <3>0, <4>3, <4>4, <4>5, <4>6, <4>7
      <4>9. charged'[p] \in Nat
        BY <1>6, Zenon DEF ScanTypes
      <4> QED
        BY <1>1, <3>3, <3>4, <4>7, <4>8, <4>9 DEF Settled, Covered
    <3> QED
      BY <3>5, <3>6, Zenon
  <2> QED
    BY <2>1, <2>2, Zenon
<1> QED
  BY <1>1, <1>2, <1>6, <1>7, Zenon DEF ScanInv

\* Forgetting the readings of processes that are gone charges nobody.
LEMMA CleanupScan ==
    ASSUME ScanInv, UNCHANGED <<machine, ghosts>>,
           \/ UNCHANGED <<prev_cpu_ticks, prev_io_bytes>>
           \/ \E active : cleanup_stale_pids(active)
    PROVE  ScanInv'
<1>1. /\ procs' = procs /\ used' = used /\ moved' = moved
      /\ charged' = charged /\ ioCharged' = ioCharged /\ ioFailed' = ioFailed
  BY Zenon DEF machine, ghosts
<1>2. /\ DOMAIN prev_cpu_ticks' \subseteq DOMAIN prev_cpu_ticks
      /\ prev_cpu_ticks' = [p \in DOMAIN prev_cpu_ticks' |-> prev_cpu_ticks[p]]
      /\ DOMAIN prev_io_bytes' \subseteq DOMAIN prev_io_bytes
      /\ prev_io_bytes' = [p \in DOMAIN prev_io_bytes' |-> prev_io_bytes[p]]
  BY Zenon DEF cleanup_stale_pids, Restrict, ScanInv, ScanTypes, IsMap
<1>3. ScanTypes'
  BY <1>1, <1>2, Zenon DEF ScanInv, ScanTypes, IsMap
<1>4. \A p \in ProcPid : Settled(p)'
  BY <1>1, Zenon DEF ScanInv, Settled
<1>5. ASSUME NEW p \in DOMAIN procs PROVE Covered(p)'
  <2>0. /\ Covered(p) /\ p \in ProcPid /\ Settled(p)
        /\ charged[p] \in Nat /\ ioCharged[p] \in Nat
        /\ procs[p].ticks \in Nat /\ procs[p].io \in Nat
    BY Zenon DEF ScanInv, ScanTypes, IsMap, Process
  <2>1. \/ Pending(prev_cpu_ticks', p, procs[p].ticks) = Pending(prev_cpu_ticks, p, procs[p].ticks)
        \/ Pending(prev_cpu_ticks', p, procs[p].ticks) = 0
    BY <1>2, Zenon DEF Pending
  <2>2. \/ Pending(prev_io_bytes', p, procs[p].io) = Pending(prev_io_bytes, p, procs[p].io)
        \/ Pending(prev_io_bytes', p, procs[p].io) = 0
    BY <1>2, Zenon DEF Pending
  <2> QED
    BY <1>1, <2>0, <2>1, <2>2 DEF Covered, Settled
<1> QED
  BY <1>1, <1>3, <1>4, <1>5, Zenon DEF ScanInv

\* ScanInv holds in every state.
LEMMA ScanInvHolds == PodsInit /\ [][PodsNext]_podVars => []ScanInv
<1>1. PodsInit => ScanInv
  <2> SUFFICES ASSUME PodsInit PROVE ScanInv
    BY Zenon
  <2>1. ScanTypes /\ DOMAIN procs = {}
    BY Zenon DEF PodsInit, ScanTypes, IsMap, EmptyMap
  <2>2. \A p \in ProcPid : Settled(p)
    BY DEF PodsInit, Settled
  <2> QED
    BY <2>1, <2>2, Zenon DEF ScanInv
<1>2. ScanInv /\ [PodsNext]_podVars => ScanInv'
  <2> SUFFICES ASSUME ScanInv, [PodsNext]_podVars PROVE ScanInv'
    BY Zenon
  <2>1. ASSUME NEW p \in ProcPid, Start(p) \/ Exit(p) \/ Run(p) PROVE ScanInv'
    BY <2>1, StartScan, ExitScan, RunScan, Zenon
  <2>2. CASE Scan
    <3>1. PICK pids \in SUBSET DOMAIN procs :
             \E noIo \in SUBSET pids, noCgroup \in SUBSET {p \in pids : procs[p].pod # {}} :
                enumerate_pods(pids, noCgroup, noIo, snapshot'.net)
      BY <2>2, Zenon DEF Scan
    <3>2. PICK noIo \in SUBSET pids, noCgroup \in SUBSET {p \in pids : procs[p].pod # {}} :
             enumerate_pods(pids, noCgroup, noIo, snapshot'.net)
      BY <3>1, Zenon
    <3>3. UNCHANGED machine
      BY <2>2, Zenon DEF Scan
    <3>4. PICK net : net = snapshot'.net
      BY Zenon
    <3>5. enumerate_pods(pids, noCgroup, noIo, net)
      BY <3>2, <3>4, Zenon
    <3> QED
      BY <3>3, <3>5, EnumerateScan, Zenon
  <2>3. CASE ScanFails \/ Override \/ AddGpu
    <3>1. UNCHANGED <<machine, ghosts>> /\ UNCHANGED <<prev_cpu_ticks, prev_io_bytes>>
      BY <2>3, Zenon DEF ScanFails, Override, AddGpu, caches
    <3> QED
      BY <3>1, CleanupScan, Zenon
  <2>4. CASE Finish
    <3>1. UNCHANGED <<machine, ghosts>>
      BY <2>4, Zenon DEF Finish
    <3>2. UNCHANGED <<prev_cpu_ticks, prev_io_bytes>> \/ \E active : cleanup_stale_pids(active)
      BY <2>4, Zenon DEF Finish
    <3> QED
      BY <3>1, <3>2, CleanupScan, Zenon
  <2>5. CASE UNCHANGED podVars
    <3>1. UNCHANGED <<machine, ghosts>> /\ UNCHANGED <<prev_cpu_ticks, prev_io_bytes>>
      BY <2>5, Zenon DEF podVars, caches
    <3> QED
      BY <3>1, CleanupScan, Zenon
  <2> QED
    BY <2>1, <2>2, <2>3, <2>4, <2>5, Zenon DEF PodsNext
<1> QED
  BY <1>1, <1>2, PTL

\* For any number of processes and scans, with pids reused, unreadable files
\* and cleanups in between, enumerate_pods (keck-agent/src/main.rs) never
\* charges a process with CPU time it did not use, and with I/O bytes at most
\* once more for each read that failed.
THEOREM ScansChargeOnceHolds == PodsInit /\ [][PodsNext]_podVars => []ScansChargeOnce
<1>1. ScanInv => ScansChargeOnce
  BY Zenon DEF ScanInv, Settled, ScansChargeOnce, TicksChargedOnce, IoOverchargeBounded
<1> QED
  BY <1>1, ScanInvHolds, PTL

-----------------------------------------------------------------------------
(* The report: sums over its entries                                       *)

\* max(1) of a natural is positive and no smaller than it.
LEMMA MaxOne ==
    ASSUME NEW a \in Nat
    PROVE  Max({1, a}) \in Nat \ {0} /\ Max({1, a}) >= a
<1> DEFINE t == IF a > 1 THEN a ELSE 1
<1>1. t \in {1, a} /\ \A y \in {1, a} : t >= y
  OBVIOUS
<1>2. \A x \in {1, a} : (\A y \in {1, a} : x >= y) => x = t
  BY SMT
<1> HIDE DEF t
<1>3. Max({1, a}) = t
  BY <1>1, <1>2, Zenon DEF Max
<1> QED
  BY <1>3 DEF t

\* The measured power of the node is given in natural numbers.
LEMMA NodeTypes == Node.cpu \in Nat /\ Node.memory \in Nat /\ Node.storage \in Nat /\ Node.io \in Nat
BY PodsAssumption, Zenon

\* Products of naturals are naturals.
LEMMA NatTimes == \A a, b \in Nat : a * b \in Nat
OBVIOUS

\* Shares of a power by weight add up to at most that power, when the total is
\* no smaller than the weights: a pod that is left out of the report leaves its
\* share undivided.
LEMMA SharesWithin ==
    ASSUME NEW S, IsFiniteSet(S), NEW power \in Nat, NEW w, \A x \in S : w[x] \in Nat,
           NEW total \in Nat, SumFunctionOnSet(w, S) <= total,
           NEW h, \A x \in S : h[x] = Share(power, w[x], total)
    PROVE  /\ \A x \in S : h[x] \in Nat
           /\ SumFunctionOnSet(h, S) \in Nat /\ SumFunctionOnSet(h, S) <= power
<1>1. CASE total = 0
  <2>1. \A x \in S : h[x] = 0
    BY <1>1, Zenon DEF Share
  <2>2. SumFunctionOnSet(h, S) = 0
    BY <2>1, SumZero, Zenon
  <2> QED
    BY <2>1, <2>2
<1>2. CASE total # 0
  <2> DEFINE f == [x \in S |-> power * w[x]]
  <2>1. \A x \in S : f[x] = power * w[x]
    BY Zenon
  <2>2. \A x \in S : f[x] \in Nat /\ w[x] \in Int
    BY <2>1, NatTimes
  <2> HIDE DEF f
  <2>3. \A x \in S : h[x] = f[x] \div total
    BY <1>2, <2>1, Zenon DEF Share
  <2>4. SumFunctionOnSet(f, S) = power * SumFunctionOnSet(w, S)
    BY <2>1, <2>2, SumScale
  <2>5. SumFunctionOnSet(w, S) \in Nat
    BY SumType, Zenon
  <2>6. \A a, b, c \in Nat : a <= b => c * a <= c * b
    BY SMT
  <2>7. SumFunctionOnSet(f, S) <= power * total
    BY <2>4, <2>5, <2>6, Zenon
  <2> QED
    BY <1>2, <2>2, <2>3, <2>7, SumOfQuotients, Zenon
<1> QED
  BY <1>1, <1>2, Zenon

\* The same for memory power, which falls back from resident memory to CPU
\* time.
LEMMA MemoryWithin ==
    ASSUME NEW S, IsFiniteSet(S), NEW pss, NEW cpu,
           \A x \in S : pss[x] \in Nat /\ cpu[x] \in Nat,
           NEW allPss \in Nat, NEW allCpu \in Nat,
           SumFunctionOnSet(pss, S) <= allPss, SumFunctionOnSet(cpu, S) <= allCpu,
           NEW h, \A x \in S : h[x] = MemoryShare(pss[x], allPss, cpu[x], allCpu)
    PROVE  /\ \A x \in S : h[x] \in Nat
           /\ SumFunctionOnSet(h, S) \in Nat /\ SumFunctionOnSet(h, S) <= Node.memory
<1>1. CASE ~Llc
  <2>1. \A x \in S : h[x] = Share(Node.memory, pss[x], allPss)
    BY <1>1, Zenon DEF MemoryShare
  <2> QED
    BY <2>1, SharesWithin, NodeTypes, Zenon
<1>2. CASE Llc
  <2>1. PICK P \in Nat \ {0}, C \in Nat \ {0} :
          P = Max({1, allPss}) /\ C = Max({1, allCpu}) /\ P >= allPss /\ C >= allCpu
    BY MaxOne, Zenon
  <2> DEFINE a == [x \in S |-> (6 * C) * pss[x]]
             b == [x \in S |-> (4 * P) * cpu[x]]
             w == [x \in S |-> a[x] + b[x]]
             D == 10 * P * C
  <2>2. \A x \in S : /\ a[x] = (6 * C) * pss[x] /\ b[x] = (4 * P) * cpu[x] /\ w[x] = a[x] + b[x]
    BY Zenon
  <2>3. 6 * C \in Nat /\ 4 * P \in Nat /\ D \in Nat \ {0}
    BY <2>1, SMT
  <2>4. \A x \in S : /\ a[x] \in Nat /\ b[x] \in Nat /\ w[x] \in Nat /\ w[x] = 6 * pss[x] * C + 4 * cpu[x] * P
    <3> SUFFICES ASSUME NEW x \in S
                 PROVE  /\ a[x] \in Nat /\ b[x] \in Nat /\ w[x] \in Nat
                        /\ w[x] = 6 * pss[x] * C + 4 * cpu[x] * P
      BY Zenon
    <3>1. PICK i \in Nat, j \in Nat : i = pss[x] /\ j = cpu[x]
      BY Zenon
    <3>2. (6 * C) * i \in Nat /\ (4 * P) * j \in Nat /\ (6 * C) * i = 6 * i * C /\ (4 * P) * j = 4 * j * P
      BY <2>1, SMT
    <3> HIDE DEF a, b, w
    <3> QED
      BY <2>2, <3>1, <3>2
  <2> HIDE DEF a, b, w
  <2>5. /\ SumFunctionOnSet(a, S) = (6 * C) * SumFunctionOnSet(pss, S)
        /\ SumFunctionOnSet(b, S) = (4 * P) * SumFunctionOnSet(cpu, S)
        /\ SumFunctionOnSet(w, S) = SumFunctionOnSet(a, S) + SumFunctionOnSet(b, S)
    <3>1. \A x \in S : pss[x] \in Int /\ cpu[x] \in Int /\ a[x] \in Int /\ b[x] \in Int
      BY <2>4
    <3>2. SumFunctionOnSet(a, S) = (6 * C) * SumFunctionOnSet(pss, S)
      <4>1. \A x \in S : pss[x] \in Int /\ a[x] = (6 * C) * pss[x]
        BY <2>2, <3>1, Zenon
      <4>2. PICK k \in Int : k = 6 * C
        BY <2>3
      <4>3. \A x \in S : pss[x] \in Int /\ a[x] = k * pss[x]
        BY <4>1, <4>2, Zenon
      <4>4. SumFunctionOnSet(a, S) = k * SumFunctionOnSet(pss, S)
        BY <4>3, SumScale, Zenon
      <4> QED
        BY <4>2, <4>4, Zenon
    <3>3. SumFunctionOnSet(b, S) = (4 * P) * SumFunctionOnSet(cpu, S)
      <4>2. PICK k \in Int : k = 4 * P
        BY <2>3
      <4>3. \A x \in S : cpu[x] \in Int /\ b[x] = k * cpu[x]
        BY <2>2, <3>1, <4>2, Zenon
      <4>4. SumFunctionOnSet(b, S) = k * SumFunctionOnSet(cpu, S)
        BY <4>3, SumScale, Zenon
      <4> QED
        BY <4>2, <4>4, Zenon
    <3>4. SumFunctionOnSet(w, S) = SumFunctionOnSet(a, S) + SumFunctionOnSet(b, S)
      BY <2>2, <3>1, SumPlus, Zenon
    <3> QED
      BY <3>2, <3>3, <3>4, Zenon
  <2>6. SumFunctionOnSet(w, S) <= D
    <3>1. PICK i \in Nat, j \in Nat : i = SumFunctionOnSet(pss, S) /\ j = SumFunctionOnSet(cpu, S)
      BY SumType, Zenon
    <3>2. i <= P /\ j <= C
      BY <2>1, <3>1
    <3>3. \A m, n, k \in Nat : m <= n => k * m <= k * n /\ k * m \in Nat /\ k * n \in Nat
      BY SMT
    <3>4. (6 * C) * i <= (6 * C) * P /\ (4 * P) * j <= (4 * P) * C
          /\ (6 * C) * i \in Nat /\ (6 * C) * P \in Nat /\ (4 * P) * j \in Nat /\ (4 * P) * C \in Nat
      BY <2>1, <2>3, <3>2, <3>3, Zenon
    <3>5. (6 * C) * P + (4 * P) * C = D
      BY <2>1, SMT
    <3> HIDE DEF D
    <3> QED
      BY <2>5, <3>1, <3>4, <3>5
  <2>7. \A x \in S : h[x] = Share(Node.memory, w[x], D)
    <3> SUFFICES ASSUME NEW x \in S PROVE h[x] = Share(Node.memory, w[x], D)
      BY Zenon
    <3>1. h[x] = (Node.memory * (6 * pss[x] * C + 4 * cpu[x] * P)) \div (10 * P * C)
      BY <1>2, <2>1, Zenon DEF MemoryShare
    <3>2. D # 0
      BY <2>3, Zenon
    <3> QED
      BY <2>4, <3>1, <3>2, Zenon DEF Share
  <2>8. D \in Nat
    BY <2>3, Zenon
  <2> HIDE DEF D
  <2> QED
    BY <2>4, <2>6, <2>7, <2>8, SharesWithin, NodeTypes, Zenon
<1> QED
  BY <1>1, <1>2, Zenon

\* The uids of pods that can be reported: of some process's cgroup, or of the
\* pod cache.
Uid == (UNION (UNION {Home[p] : p \in ProcPid})) \cup (DOMAIN Cached)

\* An entry of the report.
PodRecord == [pod_uid : Uid, cpu_uw : Nat, memory_uw : Nat, storage_uw : Nat, io_uw : Nat,
              gpu_uw : Nat, total_uw : Nat]

\* The sum of one field over the entries of a report.
FieldSum(P, field) == SumFunctionOnSet([pod \in P |-> pod[field]], P)

\* Each kind of power of the pods is within the node's; CPU and memory up to k
\* times, storage and I/O always once.
WithinShares(P, k) ==
    /\ FieldSum(P, "cpu_uw") <= k * Node.cpu /\ FieldSum(P, "memory_uw") <= k * Node.memory
    /\ FieldSum(P, "storage_uw") <= Node.storage /\ FieldSum(P, "io_uw") <= Node.io

\* A report with one entry per pod, totals that are the sums of their parts,
\* and powers within k times the node's.
PodsFine(P, k) ==
    /\ P \subseteq PodRecord /\ IsFiniteSet(P)
    /\ \A a, b \in P : a.pod_uid = b.pod_uid => a = b
    /\ \A pod \in P : recalculate_total(pod) = pod
    /\ WithinShares(P, k)

\* recalculate_total changes the total and nothing else, and doing it again
\* changes nothing.
LEMMA TotalFine ==
    ASSUME NEW pod \in PodRecord
    PROVE  LET new == recalculate_total(pod) IN
           /\ new \in PodRecord /\ recalculate_total(new) = new
           /\ new.pod_uid = pod.pod_uid /\ new.cpu_uw = pod.cpu_uw /\ new.memory_uw = pod.memory_uw
           /\ new.storage_uw = pod.storage_uw /\ new.io_uw = pod.io_uw /\ new.gpu_uw = pod.gpu_uw
<1>1. /\ pod.cpu_uw \in Nat /\ pod.memory_uw \in Nat /\ pod.gpu_uw \in Nat
      /\ pod.storage_uw \in Nat /\ pod.io_uw \in Nat
  BY Zenon DEF PodRecord
<1>2. PICK t \in Nat : t = pod.cpu_uw + pod.memory_uw + pod.gpu_uw + pod.storage_uw + pod.io_uw
  BY <1>1
<1> DEFINE new == [pod EXCEPT !.total_uw = t]
<1>3. recalculate_total(pod) = new
  BY <1>2, Zenon DEF recalculate_total
<1>4. /\ new \in PodRecord /\ new.total_uw = t
      /\ new.pod_uid = pod.pod_uid /\ new.cpu_uw = pod.cpu_uw /\ new.memory_uw = pod.memory_uw
      /\ new.storage_uw = pod.storage_uw /\ new.io_uw = pod.io_uw /\ new.gpu_uw = pod.gpu_uw
  BY Zenon DEF PodRecord
<1> HIDE DEF new
<1>5. recalculate_total(new) = [new EXCEPT !.total_uw = t]
  BY <1>2, <1>4, Zenon DEF recalculate_total
<1>6. [new EXCEPT !.total_uw = t] = new
  BY <1>4, Zenon DEF PodRecord
<1> QED
  BY <1>3, <1>4, <1>5, <1>6, Zenon

\* The entries of P, listed by uid.
Indexed(P, rep, U) == P = {rep[u] : u \in U} /\ \A u \in U : rep[u].pod_uid = u

\* h is the given field of the entries, by uid.
Reads(h, rep, field, U) == \A u \in U : h[u] = rep[u][field] /\ h[u] \in Int

\* With one entry per uid, a sum over the entries is a sum over the uids.
LEMMA SumByUid ==
    ASSUME NEW U, IsFiniteSet(U), NEW rep, NEW P, Indexed(P, rep, U),
           NEW field, NEW h, Reads(h, rep, field, U)
    PROVE  FieldSum(P, field) = SumFunctionOnSet(h, U) /\ IsFiniteSet(P)
<1> DEFINE f == [pod \in P |-> pod[field]]
           key == [pod \in P |-> pod.pod_uid]
<1>0. P = {rep[u] : u \in U} /\ \A u \in U : rep[u].pod_uid = u
  BY Zenon DEF Indexed
<1>1. IsFiniteSet(P)
  <2>1. IsFiniteSet({rep[u] : u \in U})
    BY ImageFinite, Zenon
  <2> QED
    BY <1>0, <2>1, Zenon DEF Reads
<1>2. ASSUME NEW pod \in P PROVE f[pod] \in Int /\ key[pod] \in U /\ rep[key[pod]] = pod
  <2>1. PICK u \in U : pod = rep[u]
    BY <1>0, Zenon
  <2> QED
    BY <1>0, <2>1, Zenon DEF Reads
<1>3. \A u \in U : rep[u] \in P /\ key[rep[u]] = u /\ h[u] = f[rep[u]]
  BY <1>0, Zenon DEF Reads
<1>4. FieldSum(P, field) = SumFunctionOnSet(f, P)
  BY Zenon DEF FieldSum
<1> HIDE DEF f, key
<1>5. SumFunctionOnSet(h, U) = SumFunctionOnSet(f, P)
  <2>1. \A pod \in P : f[pod] \in Int /\ key[pod] \in U /\ rep[key[pod]] = pod
    BY <1>2, Zenon
  <2>2. \A u \in U : rep[u] \in P /\ key[rep[u]] = u /\ h[u] = f[rep[u]]
    BY <1>3, Zenon
  <2> QED
    BY <1>1, <2>1, <2>2, SumReindex
<1> QED
  BY <1>1, <1>4, <1>5, Zenon

\* pod is the entry of u, with an up-to-date total and the given powers.
EntryOf(pod, u, cpu, memory, storage, io) ==
    /\ pod \in PodRecord /\ pod.pod_uid = u /\ recalculate_total(pod) = pod
    /\ cpu = pod.cpu_uw /\ memory = pod.memory_uw /\ storage = pod.storage_uw /\ io = pod.io_uw

\* The powers, as functions of the uid, are within k times the node's.
SumsWithin(cpu, memory, storage, io, U, k) ==
    /\ SumFunctionOnSet(cpu, U) <= k * Node.cpu /\ SumFunctionOnSet(memory, U) <= k * Node.memory
    /\ SumFunctionOnSet(storage, U) <= Node.storage /\ SumFunctionOnSet(io, U) <= Node.io

\* A report put together from an entry for each uid is fine when the sums over
\* the uids are.
LEMMA ReportedFine ==
    ASSUME NEW U, IsFiniteSet(U), NEW k \in Nat,
           NEW rep, NEW cpu, NEW memory, NEW storage, NEW io,
           \A u \in U : EntryOf(rep[u], u, cpu[u], memory[u], storage[u], io[u]),
           SumsWithin(cpu, memory, storage, io, U, k), NEW P, P = {rep[u] : u \in U}
    PROVE  PodsFine(P, k)
<1>0. \A u \in U : /\ rep[u] \in PodRecord /\ rep[u].pod_uid = u /\ recalculate_total(rep[u]) = rep[u]
                   /\ cpu[u] = rep[u].cpu_uw /\ memory[u] = rep[u].memory_uw
                   /\ storage[u] = rep[u].storage_uw /\ io[u] = rep[u].io_uw
  BY Zenon DEF EntryOf
<1>1. Indexed(P, rep, U)
  BY <1>0, Zenon DEF Indexed
<1>2. /\ Reads(cpu, rep, "cpu_uw", U) /\ Reads(memory, rep, "memory_uw", U)
      /\ Reads(storage, rep, "storage_uw", U) /\ Reads(io, rep, "io_uw", U)
  BY <1>0 DEF PodRecord, Reads
<1>3. /\ FieldSum(P, "cpu_uw") = SumFunctionOnSet(cpu, U)
      /\ FieldSum(P, "memory_uw") = SumFunctionOnSet(memory, U)
      /\ FieldSum(P, "storage_uw") = SumFunctionOnSet(storage, U)
      /\ FieldSum(P, "io_uw") = SumFunctionOnSet(io, U)
      /\ IsFiniteSet(P)
  BY <1>1, <1>2, SumByUid
<1>4. P \subseteq PodRecord /\ \A pod \in P : recalculate_total(pod) = pod
  BY <1>0
<1>5. \A a, b \in P : a.pod_uid = b.pod_uid => a = b
  BY <1>0
<1> QED
  BY <1>3, <1>4, <1>5, Zenon DEF PodsFine, WithinShares, SumsWithin

-----------------------------------------------------------------------------
(* The /proc scan                                                          *)

\* A process is in at most one pod.
LEMMA PodOf ==
    ASSUME ScanInv, NEW p \in DOMAIN procs
    PROVE  /\ \A u, v \in procs[p].pod : u = v
           /\ IsFiniteSet(procs[p].pod) /\ procs[p].pod \subseteq Uid
           /\ procs[p].pss \in Nat /\ p \in ProcPid
<1>1. p \in ProcPid /\ procs[p] \in Process
  BY Zenon DEF ScanInv, ScanTypes, IsMap
<1>2. procs[p].pss \in Nat
  BY <1>1, PodsAssumption, Zenon DEF Process
<1>3. PICK q \in ProcPid : procs[p].pod \in Home[q]
  BY <1>1, Zenon DEF Process
<1>4. procs[p].pod = {} \/ \E u \in procs[p].pod : procs[p].pod = {u}
  BY <1>3, PodsAssumption, Zenon
<1>5. procs[p].pod \subseteq Uid
  BY <1>3, Zenon DEF Uid
<1>6. IsFiniteSet(procs[p].pod)
  <2>1. PICK pod : pod = procs[p].pod
    BY Zenon
  <2>2. CASE pod = {}
    BY <2>1, <2>2, FS_EmptySet, Zenon
  <2>3. ASSUME NEW u, pod = {u} PROVE IsFiniteSet(pod)
    BY <2>3, FS_Singleton, Zenon
  <2> QED
    BY <1>4, <2>1, <2>2, <2>3, Zenon
<1> QED
  BY <1>1, <1>2, <1>4, <1>5, <1>6, Zenon

\* The processes of T that are in pod u.
PartOf(T, pod, u) == {x \in T : u \in pod[x]}

\* The entry pushed for a pod.
Entry(u, cpu, memory, storage, io) ==
    recalculate_total([pod_uid |-> u, cpu_uw |-> cpu, memory_uw |-> memory, storage_uw |-> storage,
                       io_uw |-> io, gpu_uw |-> 0, total_uw |-> 0])

\* It is an entry of the report, and its total is up to date.
LEMMA EntryFine ==
    ASSUME NEW u \in Uid, NEW cpu \in Nat, NEW memory \in Nat, NEW storage \in Nat, NEW io \in Nat
    PROVE  EntryOf(Entry(u, cpu, memory, storage, io), u, cpu, memory, storage, io)
<1> DEFINE raw == [pod_uid |-> u, cpu_uw |-> cpu, memory_uw |-> memory, storage_uw |-> storage,
                   io_uw |-> io, gpu_uw |-> 0, total_uw |-> 0]
<1>1. /\ raw \in PodRecord /\ raw.pod_uid = u /\ cpu = raw.cpu_uw /\ memory = raw.memory_uw
      /\ storage = raw.storage_uw /\ io = raw.io_uw
  BY Zenon DEF PodRecord
<1>2. Entry(u, cpu, memory, storage, io) = recalculate_total(raw)
  BY Zenon DEF Entry
<1> HIDE DEF raw
<1> QED
  BY <1>1, <1>2, TotalFine DEF EntryOf

\* The counters of the processes a pod was charged with add up, over all pods,
\* to at most those of all processes scanned.
LEMMA PartsWithin ==
    ASSUME NEW S, IsFiniteSet(S), NEW T \in SUBSET S, NEW f, \A x \in S : f[x] \in Nat,
           NEW pod, \A x \in S : \A u, v \in pod[x] : u = v,
           NEW U, IsFiniteSet(U),
           NEW h, \A u \in U : h[u] = SumFunctionOnSet(f, PartOf(T, pod, u))
    PROVE  /\ \A u \in U : h[u] \in Nat
           /\ SumFunctionOnSet(h, U) <= SumFunctionOnSet(f, S)
<1>1. IsFiniteSet(T)
  BY FS_Subset, Zenon
<1>2. (\A x \in T : f[x] \in Nat) /\ \A x \in T : \A u, v \in pod[x] : u = v
  BY Zenon
<1>3. /\ \A u \in U : h[u] \in Nat
      /\ SumFunctionOnSet(h, U) <= SumFunctionOnSet(f, T)
  <2>1. \A u \in U : h[u] = SumFunctionOnSet(f, {x \in T : u \in pod[x]})
    BY Zenon DEF PartOf
  <2> QED
    BY <1>1, <1>2, <2>1, SumOfParts, Zenon
<1>4. SumFunctionOnSet(f, T) <= SumFunctionOnSet(f, S)
  BY SumSubset, Zenon
<1>5. SumFunctionOnSet(h, U) \in Nat /\ SumFunctionOnSet(f, T) \in Nat /\ SumFunctionOnSet(f, S) \in Nat
  BY <1>1, <1>2, <1>3, SumType, Zenon
<1> QED
  BY <1>3, <1>4, <1>5

\* A drained snapshot is a snapshot.
LEMMA SnapshotCounts ==
    ASSUME NEW s, s \in {NoSnapshot} \cup Snapshots
    PROVE  IsSnapshot(s)
<1>1. IsSnapshot(NoSnapshot)
  BY FS_EmptySet, Zenon DEF IsSnapshot, NoSnapshot, IsCount, EmptyMap
<1> QED
  BY <1>1, PodsAssumption, Zenon

\* The report of a scan is fine: each pod's share is taken of a total over all
\* processes, of which the pods are disjoint parts.
LEMMA ScanReportFine ==
    ASSUME ScanInv, IsMap(pss_cache, ProcPid, Nat),
           NEW pids \in SUBSET DOMAIN procs, NEW noIo, NEW noCgroup, NEW net, IsCount(net),
           enumerate_pods(pids, noCgroup, noIo, net)
    PROVE  PodsFine(pods', 1) /\ IsMap(pss_cache', ProcPid, Nat)
<1> DEFINE ticks == [p \in pids |-> DeltaOf(prev_cpu_ticks, p, procs[p].ticks)]
           io == [p \in pids |-> read_io_bytes(p, noIo)]
           bytes == [p \in pids |-> DeltaOf(prev_io_bytes, p, io[p])]
           pss == [p \in pids |-> PssOf(p)]
           inPod == {p \in pids \ noCgroup : extract_pod_uid(p) # {}}
           of(u) == {p \in inPod : u \in extract_pod_uid(p)}
           got == [p \in pids |-> Get(net, p, 0)]
           sent(S) == Sum([p \in S |-> Get(net, p, 0)], S)
           U == UNION {extract_pod_uid(p) : p \in inPod}
           cpu == [u \in U |-> Sum(ticks, of(u))]
           mem == [u \in U |-> Sum(pss, of(u))]
           dsk == [u \in U |-> Sum(bytes, of(u))]
           snt == [u \in U |-> sent(of(u))]
           cpuW == [u \in U |-> Share(Node.cpu, cpu[u], Sum(ticks, pids))]
           memW == [u \in U |-> MemoryShare(mem[u], Sum(pss, pids), cpu[u], Sum(ticks, pids))]
           dskW == [u \in U |-> Share(Node.storage, dsk[u], Sum(bytes, pids))]
           ioW == [u \in U |-> IF sent(inPod) > 0 THEN Share(Node.io, snt[u], sent(inPod))
                               ELSE Share(Node.io, cpu[u], Sum(ticks, pids))]
           rep == [u \in U |-> Entry(u, cpuW[u], memW[u], dskW[u], ioW[u])]
           pod == [p \in pids |-> extract_pod_uid(p)]
<1>1. pods' = {rep[u] : u \in U} /\ pss_cache' = Extend(pss_cache, pss)
  BY DEF enumerate_pods, Entry
<1>2. /\ pids \subseteq ProcPid /\ IsFiniteSet(pids)
      /\ \A p \in pids : /\ pod[p] = procs[p].pod /\ \A u, v \in pod[p] : u = v
                         /\ IsFiniteSet(pod[p]) /\ pod[p] \subseteq Uid /\ procs[p].pss \in Nat
  <2>1. \A p \in pids : p \in DOMAIN procs
    BY Zenon
  <2>2. pids \subseteq ProcPid
    BY <2>1, PodOf, Zenon
  <2>3. IsFiniteSet(pids)
    BY <2>2, PodsAssumption, FS_Subset, Zenon
  <2>4. \A p \in pids : pod[p] = procs[p].pod
    BY Zenon DEF extract_pod_uid
  <2> HIDE DEF pod
  <2> QED
    BY <2>1, <2>2, <2>3, <2>4, PodOf, Zenon
<1>3. \A p \in pids : pss[p] \in Nat /\ got[p] \in Nat
  <2>1. \A p \in pids : PssOf(p) \in Nat
    BY <1>2, Zenon DEF PssOf, Get, IsMap
  <2>2. \A p \in pids : Get(net, p, 0) \in Nat
    BY Zenon DEF Get, IsCount
  <2> QED
    BY <2>1, <2>2, Zenon
<1>4. \A p \in pids : ticks[p] \in Nat /\ bytes[p] \in Nat
  <2>1. \A p \in pids : procs[p].ticks \in Nat /\ procs[p].io \in Nat
    BY Zenon DEF ScanInv, ScanTypes, IsMap, Process
  <2>2. \A p \in pids : io[p] \in Nat
    BY <2>1, Zenon DEF read_io_bytes
  <2>3. \A p : /\ p \in DOMAIN prev_cpu_ticks => prev_cpu_ticks[p] \in Nat
               /\ p \in DOMAIN prev_io_bytes => prev_io_bytes[p] \in Nat
    BY Zenon DEF ScanInv, ScanTypes, IsMap
  <2>4. \A p \in pids : DeltaOf(prev_cpu_ticks, p, procs[p].ticks) \in Nat
    BY <2>1, <2>3, DeltaIsPending, Zenon
  <2>5. \A p \in pids : DeltaOf(prev_io_bytes, p, io[p]) \in Nat
    <3> HIDE DEF io
    <3> QED
      BY <2>2, <2>3, DeltaIsPending, Zenon
  <2> QED
    BY <2>4, <2>5, Zenon
<1>5. inPod \in SUBSET pids /\ U \subseteq Uid /\ IsFiniteSet(inPod) /\ IsFiniteSet(U)
  <2>1. inPod \in SUBSET pids
    BY Zenon
  <2>2. IsFiniteSet(inPod)
    BY <1>2, <2>1, FS_Subset, Zenon
  <2>3. U = UNION {pod[p] : p \in inPod}
    BY Zenon
  <2> HIDE DEF inPod, U, pod
  <2>4. IsFiniteSet({pod[p] : p \in inPod})
    BY <2>2, ImageFinite, Zenon
  <2>5. \A q \in {pod[p] : p \in inPod} : IsFiniteSet(q)
    BY <1>2, <2>1, Zenon
  <2>6. IsFiniteSet(UNION {pod[p] : p \in inPod})
    BY <2>4, <2>5, FS_UNION, Zenon
  <2> QED
    BY <1>2, <2>1, <2>2, <2>3, <2>6, Zenon
<1>6. \A u \in U : /\ cpu[u] = SumFunctionOnSet(ticks, PartOf(inPod, pod, u))
                   /\ mem[u] = SumFunctionOnSet(pss, PartOf(inPod, pod, u))
                   /\ dsk[u] = SumFunctionOnSet(bytes, PartOf(inPod, pod, u))
  <2> SUFFICES ASSUME NEW u \in U
               PROVE  /\ cpu[u] = SumFunctionOnSet(ticks, PartOf(inPod, pod, u))
                      /\ mem[u] = SumFunctionOnSet(pss, PartOf(inPod, pod, u))
                      /\ dsk[u] = SumFunctionOnSet(bytes, PartOf(inPod, pod, u))
    BY Zenon
  <2>1. of(u) = PartOf(inPod, pod, u)
    BY Zenon DEF PartOf
  <2>2. cpu[u] = Sum(ticks, of(u)) /\ mem[u] = Sum(pss, of(u)) /\ dsk[u] = Sum(bytes, of(u))
    BY Zenon
  <2> HIDE DEF of, inPod, pod, ticks, pss, bytes, cpu, mem, dsk
  <2> QED
    BY <2>1, <2>2, Zenon DEF Sum
<1>7. /\ \A u \in U : snt[u] = SumFunctionOnSet(got, PartOf(inPod, pod, u))
      /\ sent(inPod) = SumFunctionOnSet(got, inPod)
  <2>1. ASSUME NEW S \in SUBSET inPod PROVE sent(S) = SumFunctionOnSet(got, S)
    <3>1. IsFiniteSet(S)
      BY <1>5, FS_Subset, Zenon
    <3>2. \A p \in S : got[p] = [q \in S |-> Get(net, q, 0)][p]
      BY Zenon
    <3> HIDE DEF got
    <3> QED
      BY <3>1, <3>2, SumCongruent, Zenon DEF Sum
  <2>2. \A u \in U : of(u) \in SUBSET inPod /\ of(u) = PartOf(inPod, pod, u) /\ snt[u] = sent(of(u))
    BY Zenon DEF PartOf
  <2>3. inPod \in SUBSET inPod
    BY Zenon
  <2> HIDE DEF of, inPod, pod, got, snt, sent, U
  <2> QED
    BY <2>1, <2>2, <2>3, Zenon
<1>8. /\ \A u \in U : /\ cpuW[u] = Share(Node.cpu, cpu[u], Sum(ticks, pids))
                      /\ memW[u] = MemoryShare(mem[u], Sum(pss, pids), cpu[u], Sum(ticks, pids))
                      /\ dskW[u] = Share(Node.storage, dsk[u], Sum(bytes, pids))
                      /\ ioW[u] = IF sent(inPod) > 0 THEN Share(Node.io, snt[u], sent(inPod))
                                  ELSE Share(Node.io, cpu[u], Sum(ticks, pids))
  BY Zenon
<1>8a. \A u \in U : rep[u] = Entry(u, cpuW[u], memW[u], dskW[u], ioW[u])
  <2> HIDE DEF cpuW, memW, dskW, ioW, U
  <2> QED
    BY Zenon
<1>9. IsMap(pss_cache', ProcPid, Nat)
  <2>1. DOMAIN pss = pids
    BY Zenon
  <2> HIDE DEF pss
  <2> QED
    BY <1>1, <1>2, <1>3, <2>1, Zenon DEF IsMap, Extend
<1> HIDE DEF ticks, io, bytes, pss, inPod, got, sent, U, cpu, mem, dsk, snt, cpuW, memW, dskW, ioW, rep, pod, of
<1>10. /\ \A u \in U : cpu[u] \in Nat
       /\ SumFunctionOnSet(cpu, U) <= SumFunctionOnSet(ticks, pids)
  <2>1. \A p \in pids : ticks[p] \in Nat
    BY <1>4, Zenon
  <2>2. \A p \in pids : \A u, v \in pod[p] : u = v
    BY <1>2, Zenon
  <2>3. \A u \in U : cpu[u] = SumFunctionOnSet(ticks, PartOf(inPod, pod, u))
    BY <1>6, Zenon
  <2>4. IsFiniteSet(pids) /\ inPod \in SUBSET pids /\ IsFiniteSet(U)
    BY <1>2, <1>5, Zenon
  <2> QED
    BY <2>1, <2>2, <2>3, <2>4, PartsWithin, Zenon
<1>11. /\ \A u \in U : mem[u] \in Nat
       /\ SumFunctionOnSet(mem, U) <= SumFunctionOnSet(pss, pids)
  <2>1. \A p \in pids : pss[p] \in Nat
    BY <1>3, Zenon
  <2>2. \A p \in pids : \A u, v \in pod[p] : u = v
    BY <1>2, Zenon
  <2>3. \A u \in U : mem[u] = SumFunctionOnSet(pss, PartOf(inPod, pod, u))
    BY <1>6, Zenon
  <2>4. IsFiniteSet(pids) /\ inPod \in SUBSET pids /\ IsFiniteSet(U)
    BY <1>2, <1>5, Zenon
  <2> QED
    BY <2>1, <2>2, <2>3, <2>4, PartsWithin, Zenon
<1>12. /\ \A u \in U : dsk[u] \in Nat
       /\ SumFunctionOnSet(dsk, U) <= SumFunctionOnSet(bytes, pids)
  <2>1. \A p \in pids : bytes[p] \in Nat
    BY <1>4, Zenon
  <2>2. \A p \in pids : \A u, v \in pod[p] : u = v
    BY <1>2, Zenon
  <2>3. \A u \in U : dsk[u] = SumFunctionOnSet(bytes, PartOf(inPod, pod, u))
    BY <1>6, Zenon
  <2>4. IsFiniteSet(pids) /\ inPod \in SUBSET pids /\ IsFiniteSet(U)
    BY <1>2, <1>5, Zenon
  <2> QED
    BY <2>1, <2>2, <2>3, <2>4, PartsWithin, Zenon
<1>13. /\ \A u \in U : snt[u] \in Nat
       /\ SumFunctionOnSet(snt, U) <= SumFunctionOnSet(got, inPod)
  <2>1. (\A p \in inPod : got[p] \in Nat) /\ inPod \in SUBSET inPod /\ \A p \in inPod : \A u, v \in pod[p] : u = v
    BY <1>2, <1>3, <1>5, Zenon
  <2> QED
    BY <1>5, <1>7, <2>1, PartsWithin, Zenon
<1>14. /\ SumFunctionOnSet(ticks, pids) \in Nat /\ SumFunctionOnSet(pss, pids) \in Nat
       /\ SumFunctionOnSet(bytes, pids) \in Nat /\ SumFunctionOnSet(got, inPod) \in Nat
  BY <1>2, <1>3, <1>4, <1>5, SumType, Zenon
<1>15. PICK T \in Nat, P \in Nat, B \in Nat, G \in Nat :
          /\ T = SumFunctionOnSet(ticks, pids) /\ P = SumFunctionOnSet(pss, pids)
          /\ B = SumFunctionOnSet(bytes, pids) /\ G = SumFunctionOnSet(got, inPod)
  BY <1>14, Zenon
<1>16. /\ SumFunctionOnSet(cpu, U) <= T /\ SumFunctionOnSet(mem, U) <= P
       /\ SumFunctionOnSet(dsk, U) <= B /\ SumFunctionOnSet(snt, U) <= G
  BY <1>10, <1>11, <1>12, <1>13, <1>15, Zenon
<1>17. \A u \in U : /\ cpuW[u] = Share(Node.cpu, cpu[u], T)
                    /\ memW[u] = MemoryShare(mem[u], P, cpu[u], T)
                    /\ dskW[u] = Share(Node.storage, dsk[u], B)
                    /\ ioW[u] = IF G > 0 THEN Share(Node.io, snt[u], G)
                                ELSE Share(Node.io, cpu[u], T)
  BY <1>7, <1>8, <1>15, Zenon DEF Sum
<1>18. (\A u \in U : cpuW[u] \in Nat) /\ SumFunctionOnSet(cpuW, U) <= Node.cpu
  BY <1>5, <1>10, <1>16, <1>17, SharesWithin, NodeTypes
<1>19. (\A u \in U : dskW[u] \in Nat) /\ SumFunctionOnSet(dskW, U) <= Node.storage
  BY <1>5, <1>12, <1>16, <1>17, SharesWithin, NodeTypes
<1>20. (\A u \in U : memW[u] \in Nat) /\ SumFunctionOnSet(memW, U) <= Node.memory
  <2>1. \A u \in U : mem[u] \in Nat /\ cpu[u] \in Nat
    BY <1>10, <1>11, Zenon
  <2>2. \A u \in U : memW[u] = MemoryShare(mem[u], P, cpu[u], T)
    BY <1>17, Zenon
  <2> QED
    BY <1>5, <1>16, <2>1, <2>2, MemoryWithin
<1>21. (\A u \in U : ioW[u] \in Nat) /\ SumFunctionOnSet(ioW, U) <= Node.io
  <2>1. CASE G > 0
    <3>1. \A u \in U : ioW[u] = Share(Node.io, snt[u], G)
      BY <1>17, <2>1, Zenon
    <3> QED
      BY <1>5, <1>13, <1>16, <3>1, SharesWithin, NodeTypes
  <2>2. CASE ~(G > 0)
    <3>1. \A u \in U : ioW[u] = Share(Node.io, cpu[u], T)
      BY <1>17, <2>2, Zenon
    <3> QED
      BY <1>5, <1>10, <1>16, <3>1, SharesWithin, NodeTypes
  <2> QED
    BY <2>1, <2>2, Zenon
<1>22. ASSUME NEW u \in U
       PROVE  EntryOf(rep[u], u, cpuW[u], memW[u], dskW[u], ioW[u])
  <2>0. u \in Uid /\ cpuW[u] \in Nat /\ memW[u] \in Nat /\ dskW[u] \in Nat /\ ioW[u] \in Nat
    BY <1>5, <1>18, <1>19, <1>20, <1>21, Zenon
  <2>1. rep[u] = Entry(u, cpuW[u], memW[u], dskW[u], ioW[u])
    BY <1>8a, Zenon
  <2> QED
    BY <2>0, <2>1, EntryFine
<1>23. PodsFine(pods', 1)
  <2>1. SumsWithin(cpuW, memW, dskW, ioW, U, 1)
    BY <1>18, <1>19, <1>20, <1>21, NodeTypes DEF SumsWithin
  <2>2. PICK R : R = {rep[u] : u \in U}
    BY Zenon
  <2>3. PodsFine(R, 1)
    BY <1>5, <1>22, <2>1, <2>2, ReportedFine, Zenon
  <2> QED
    BY <1>1, <2>2, <2>3, Zenon
<1> QED
  BY <1>9, <1>23, Zenon

-----------------------------------------------------------------------------
(* The eBPF weights                                                        *)

\* Products of more naturals are naturals.
LEMMA FourTimes ==
    ASSUME NEW a \in Nat, NEW b \in Nat, NEW c \in Nat, NEW d \in Nat
    PROVE  a * b * c * d \in Nat /\ a * b * c \in Nat
<1>1. a * b \in Nat
  BY NatTimes, Zenon
<1>2. PICK ab \in Nat : ab = a * b
  BY <1>1, Zenon
<1>3. ab * c \in Nat
  BY NatTimes, Zenon
<1>4. PICK abc \in Nat : abc = ab * c
  BY <1>3, Zenon
<1> QED
  BY <1>2, <1>4, NatTimes, Zenon

\* cpu[u] is the part of power that pod u gets over the cores of L, each core
\* by its weight cw and within a core by the part of the weight tw its tasks
\* have, over the common denominator of all the cores.
Spread(cpu, m, power, cw, tw, part, U, L) ==
    /\ \A c \in L : /\ cw[c] \in Nat /\ tw[c] \in Nat
                    /\ SumFunctionOnSet(ColumnOf(part, U, c), U) <= tw[c]
    /\ \A u \in U : \A c \in L : part[u][c] \in Nat
    /\ \A u \in U : \A c \in L : m[u][c] = power * cw[c] * Prod(tw, L \ {c}) * part[u][c]
    /\ \A u \in U : cpu[u] = SumFunctionOnSet(m[u], L)

\* Over all pods and cores this gives away at most power: a double sum that is
\* swapped, bounded core by core, and swapped back.
LEMMA CoresSplit ==
    ASSUME NEW U, IsFiniteSet(U), NEW L, IsFiniteSet(L), NEW power \in Nat, NEW cw, NEW tw,
           NEW part, NEW m, NEW cpu, Spread(cpu, m, power, cw, tw, part, U, L),
           NEW all \in Nat, SumFunctionOnSet(cw, L) <= all
    PROVE  /\ \A u \in U : cpu[u] \in Nat
           /\ SumFunctionOnSet(cpu, U) <= power * (all * Prod(tw, L))
<1> USE DEF Spread
<1>1. ASSUME NEW c \in L PROVE Prod(tw, L \ {c}) \in Nat
  <2>1. IsFiniteSet(L \ {c}) /\ \A x \in L \ {c} : tw[x] \in Nat
    BY FS_Subset, Zenon
  <2> QED
    BY <2>1, ProdType, Zenon
<1>2. \A u \in U : \A c \in L : m[u][c] \in Nat
  <2> SUFFICES ASSUME NEW u \in U, NEW c \in L PROVE m[u][c] \in Nat
    BY Zenon
  <2>1. cw[c] \in Nat /\ Prod(tw, L \ {c}) \in Nat /\ part[u][c] \in Nat
    BY <1>1, Zenon
  <2>2. power * cw[c] * Prod(tw, L \ {c}) * part[u][c] \in Nat
    BY <2>1, FourTimes, Zenon
  <2> QED
    BY <2>2, Zenon
<1>3. \A u \in U : cpu[u] \in Nat
  BY <1>2, SumType, Zenon
<1> DEFINE byC == [c \in L |-> SumFunctionOnSet(ColumnOf(m, U, c), U)]
           cap == [c \in L |-> (power * Prod(tw, L)) * cw[c]]
<1>4. SumFunctionOnSet(cpu, U) = SumFunctionOnSet(byC, L)
  <2>1. \A u \in U : \A c \in L : m[u][c] \in Int
    BY <1>2
  <2>2. \A c \in L : byC[c] = SumFunctionOnSet(ColumnOf(m, U, c), U)
    BY Zenon
  <2> HIDE DEF byC
  <2>3. Margins(m, U, L, cpu, byC)
    BY <2>1, <2>2, Zenon DEF Margins
  <2> QED
    BY <2>3, SumSwap
<1>5. Prod(tw, L) \in Nat
  BY ProdType, Zenon
<1>6. ASSUME NEW c \in L PROVE byC[c] \in Nat /\ cap[c] \in Nat /\ byC[c] <= cap[c]
  <2> DEFINE column == ColumnOf(m, U, c)
             parts == ColumnOf(part, U, c)
  <2>1. PICK k \in Nat : k = power * cw[c] * Prod(tw, L \ {c})
    <3>1. cw[c] \in Nat /\ Prod(tw, L \ {c}) \in Nat /\ 0 \in Nat
      BY <1>1, Zenon
    <3> QED
      BY <3>1, FourTimes, Zenon
  <2>2. \A u \in U : parts[u] \in Nat /\ parts[u] \in Int /\ column[u] = k * parts[u] /\ column[u] \in Nat
    BY <1>2, <2>1 DEF ColumnOf
  <2>3. byC[c] = SumFunctionOnSet(column, U) /\ SumFunctionOnSet(parts, U) <= tw[c]
    BY Zenon
  <2>4. cap[c] = (power * Prod(tw, L)) * cw[c]
    BY Zenon
  <2> HIDE DEF column, parts, byC, cap
  <2>5. SumFunctionOnSet(column, U) = k * SumFunctionOnSet(parts, U)
    <3>1. \A u \in U : parts[u] \in Int /\ column[u] = k * parts[u]
      BY <2>2, Zenon
    <3>2. k \in Int
      OBVIOUS
    <3> QED
      BY <3>1, <3>2, SumScale, Zenon
  <2>6. SumFunctionOnSet(column, U) \in Nat /\ SumFunctionOnSet(parts, U) \in Nat
    BY <2>2, SumType, Zenon
  <2>7. PICK r \in Nat, q \in Nat, t \in Nat, w \in Nat :
          r = SumFunctionOnSet(parts, U) /\ q = Prod(tw, L \ {c}) /\ t = tw[c] /\ w = cw[c]
    BY <1>1, <2>6, Zenon
  <2>8. Prod(tw, L) = t * q
    BY <2>7, ProdRemove, Zenon
  <2>9. k * r <= k * t
    <3>1. \A x, y, z \in Nat : x <= y => z * x <= z * y
      BY SMT
    <3> QED
      BY <2>3, <2>7, <3>1, Zenon
  <2>10. (power * w * q) * t = (power * (t * q)) * w /\ (power * (t * q)) * w \in Nat
    BY SMT
  <2> QED
    BY <2>1, <2>3, <2>4, <2>5, <2>6, <2>7, <2>8, <2>9, <2>10, Zenon
<1>7. SumFunctionOnSet(byC, L) <= SumFunctionOnSet(cap, L)
  <2>1. \A c \in L : byC[c] \in Int /\ cap[c] \in Int /\ byC[c] <= cap[c]
    BY <1>6
  <2> HIDE DEF byC, cap
  <2> QED
    BY <2>1, SumMonotone, Zenon
<1>8. /\ SumFunctionOnSet(cap, L) = (power * Prod(tw, L)) * SumFunctionOnSet(cw, L)
      /\ SumFunctionOnSet(cw, L) \in Nat
  <2>1. PICK k \in Int : k = power * Prod(tw, L)
    BY <1>5, NatTimes
  <2>2. \A c \in L : cw[c] \in Int /\ cap[c] = k * cw[c]
    BY <2>1
  <2> HIDE DEF cap
  <2>3. SumFunctionOnSet(cap, L) = k * SumFunctionOnSet(cw, L)
    BY <2>2, SumScale, Zenon
  <2> QED
    BY <2>1, <2>3, SumType, Zenon
<1> HIDE DEF byC, cap
<1>9. PICK q \in Nat, r \in Nat : q = Prod(tw, L) /\ r = SumFunctionOnSet(cw, L)
  BY <1>5, <1>8, Zenon
<1>10. (power * q) * r <= power * (all * q)
  <2>1. r <= all
    BY <1>9, Zenon
  <2>2. \A x, y, z \in Nat : x <= y => z * x <= z * y
    BY SMT
  <2>3. (power * q) * r <= (power * q) * all
    BY <2>1, <2>2, NatTimes, Zenon
  <2>4. (power * q) * all = power * (all * q)
    BY SMT
  <2> QED
    BY <2>3, <2>4, Zenon
<1>11. SumFunctionOnSet(cpu, U) <= (power * q) * r
  BY <1>4, <1>7, <1>8, <1>9, Zenon
<1>12. SumFunctionOnSet(cpu, U) \in Nat /\ (power * q) * r \in Nat /\ power * (all * q) \in Nat
  <2>1. SumFunctionOnSet(cpu, U) \in Nat
    BY <1>3, SumType, Zenon
  <2> QED
    BY <2>1, NatTimes, Zenon
<1> QED
  BY <1>3, <1>9, <1>10, <1>11, <1>12

\* The common denominator is the product of the cores' task weights.
LEMMA WeightsIsProd == \A s, cores : Weights(s, cores) = Prod(task_weight(s), cores)
BY Zenon DEF Weights, MapThenFoldSet, Prod, IsProd, Pick

\* The weights of a snapshot are natural numbers, and there are finitely many.
LEMMA SnapshotWeights ==
    ASSUME NEW s, IsSnapshot(s)
    PROVE  /\ IsFiniteSet(DOMAIN s.time) /\ IsFiniteSet(Cpus(s))
           /\ \A c : IsFiniteSet(On(s, c))
           /\ \A k \in DOMAIN s.time : pid_weight(s)[k] \in Nat
           /\ \A c \in Cpus(s) : task_weight(s)[c] \in Nat
           /\ IsCount(core_weight(s))
<1>1. IsFiniteSet(DOMAIN s.time) /\ \A k \in DOMAIN s.time : s.time[k] \in Nat
  BY Zenon DEF IsSnapshot, IsCount
<1>2. IsFiniteSet(Cpus(s))
  <2> DEFINE first == [k \in DOMAIN s.time |-> k[1]]
  <2>1. Cpus(s) = {first[k] : k \in DOMAIN s.time}
    BY Zenon DEF Cpus
  <2> HIDE DEF first
  <2> QED
    BY <1>1, <2>1, ImageFinite
<1>3. \A c : IsFiniteSet(On(s, c)) /\ On(s, c) \subseteq DOMAIN s.time
  BY <1>1, FS_Subset, Zenon DEF On
<1>4. \A k \in DOMAIN s.time : pid_weight(s)[k] \in Nat
  BY <1>1, Zenon DEF pid_weight, IsSnapshot, IsCount
<1>5. ASSUME NEW c PROVE /\ SumFunctionOnSet(s.time, On(s, c)) \in Nat
                         /\ SumFunctionOnSet(pid_weight(s), On(s, c)) \in Nat
  <2>1. IsFiniteSet(On(s, c))
    BY <1>3, Zenon
  <2>2. \A k \in On(s, c) : s.time[k] \in Nat /\ pid_weight(s)[k] \in Nat
    BY <1>1, <1>3, <1>4, Zenon
  <2> QED
    BY <2>1, <2>2, SumType, Zenon
<1>6. \A c \in Cpus(s) : task_weight(s)[c] \in Nat
  BY <1>5, Zenon DEF task_weight, Sum
<1>7. IsCount(core_weight(s))
  <2>1. CASE DOMAIN s.cycles # {}
    BY <2>1, Zenon DEF core_weight, IsSnapshot
  <2>2. CASE DOMAIN s.cycles = {} /\ DOMAIN s.freq # {}
    BY <2>2, Zenon DEF core_weight, IsSnapshot
  <2>3. CASE DOMAIN s.cycles = {} /\ DOMAIN s.freq = {}
    <3>1. core_weight(s) = [c \in Cpus(s) |-> Sum(s.time, On(s, c))]
      BY <2>3, Zenon DEF core_weight
    <3> QED
      BY <1>2, <1>5, <3>1, Zenon DEF IsCount, Sum
  <2> QED
    BY <2>1, <2>2, <2>3, Zenon
<1> QED
  BY <1>1, <1>2, <1>3, <1>4, <1>6, <1>7, Zenon

\* The cores with tasks are among the cores with a weight, so their weight is
\* at most that of all cores.
LEMMA LoadedCores ==
    ASSUME NEW s, IsSnapshot(s)
    PROVE  /\ IsFiniteSet(Loaded(s))
           /\ \A c \in Loaded(s) : /\ c \in Cpus(s) /\ c \in DOMAIN core_weight(s)
                                   /\ core_weight(s)[c] \in Nat /\ task_weight(s)[c] \in Nat \ {0}
           /\ SumFunctionOnSet(core_weight(s), DOMAIN core_weight(s)) \in Nat
           /\ SumFunctionOnSet(core_weight(s), Loaded(s))
                <= SumFunctionOnSet(core_weight(s), DOMAIN core_weight(s))
<1>1. PICK cw, tw : cw = core_weight(s) /\ tw = task_weight(s)
  BY Zenon
<1>2. /\ IsFiniteSet(DOMAIN cw) /\ \A c \in DOMAIN cw : cw[c] \in Nat
      /\ IsFiniteSet(Cpus(s)) /\ \A c \in Cpus(s) : tw[c] \in Nat
  BY <1>1, SnapshotWeights, Zenon DEF IsCount
<1>3. Loaded(s) = {c \in Cpus(s) : Get(cw, c, 0) > 0 /\ tw[c] > 0}
  BY <1>1, Zenon DEF Loaded
<1>4. ASSUME NEW c \in Loaded(s)
      PROVE  c \in Cpus(s) /\ c \in DOMAIN cw /\ cw[c] \in Nat /\ tw[c] \in Nat \ {0}
  <2>1. c \in Cpus(s) /\ Get(cw, c, 0) > 0 /\ tw[c] > 0
    BY <1>3, Zenon
  <2>2. c \in DOMAIN cw
    BY <2>1 DEF Get
  <2> QED
    BY <1>2, <2>1, <2>2
<1>5. IsFiniteSet(Loaded(s))
  <2>1. Loaded(s) \subseteq Cpus(s)
    BY <1>4, Zenon
  <2> QED
    BY <1>2, <2>1, FS_Subset, Zenon
<1>6. Loaded(s) \in SUBSET DOMAIN cw
  BY <1>4, Zenon
<1>7. SumFunctionOnSet(cw, DOMAIN cw) \in Nat
  BY <1>2, SumType, Zenon
<1>8. SumFunctionOnSet(cw, Loaded(s)) <= SumFunctionOnSet(cw, DOMAIN cw)
  BY <1>2, <1>6, SumSubset, Zenon
<1> QED
  BY <1>1, <1>4, <1>5, <1>7, <1>8, Zenon

\* The CPU power enumerate_pods_ebpf_weighted gives to all pods is at most the
\* node's.
LEMMA EbpfCpu ==
    ASSUME NEW s, IsSnapshot(s), NEW pod_of, NEW U, IsFiniteSet(U),
           \A p \in DOMAIN pod_of : \A u, v \in pod_of[p] : u = v,
           NEW cpu, \A u \in U : cpu[u] = pod_cpu_uw(s, pod_of, u),
           NEW all, all = SumFunctionOnSet(core_weight(s), DOMAIN core_weight(s))
    PROVE  /\ \A u \in U : cpu[u] \in Nat
           /\ SumFunctionOnSet(cpu, U) <= Node.cpu * (all * Weights(s, Loaded(s)))
           /\ Weights(s, Loaded(s)) \in Nat \ {0}
<1>1. PICK cw, tw, pw, L :
         cw = core_weight(s) /\ tw = task_weight(s) /\ pw = pid_weight(s) /\ L = Loaded(s)
  BY Zenon
<1>2. /\ IsFiniteSet(L) /\ \A c \in L : c \in Cpus(s) /\ cw[c] \in Nat /\ tw[c] \in Nat \ {0}
      /\ all \in Nat /\ SumFunctionOnSet(cw, L) <= all
  BY <1>1, LoadedCores, Zenon
<1> DEFINE task(c) == [k \in On(s, c) |-> Get(pod_of, k[2], {})]
           part == [u \in U |-> [c \in L |-> SumFunctionOnSet(pw, PartOf(On(s, c), task(c), u))]]
           m == [u \in U |-> [c \in L |-> Node.cpu * cw[c] * Prod(tw, L \ {c}) * part[u][c]]]
<1>3. ASSUME NEW c \in L
      PROVE  /\ \A u \in U : part[u][c] \in Nat
             /\ SumFunctionOnSet(ColumnOf(part, U, c), U) <= tw[c]
  <2>1. IsFiniteSet(On(s, c)) /\ \A k \in On(s, c) : pw[k] \in Nat
    BY <1>1, SnapshotWeights, Zenon DEF On
  <2>2. PICK pod : pod = task(c)
    BY Zenon
  <2>3. \A k \in On(s, c) : \A u, v \in pod[k] : u = v
    BY <2>2 DEF Get
  <2>4. tw[c] = SumFunctionOnSet(pw, On(s, c))
    BY <1>1, <1>2, Zenon DEF task_weight, Sum
  <2>5. \A u \in U : ColumnOf(part, U, c)[u] = SumFunctionOnSet(pw, PartOf(On(s, c), pod, u))
    BY <2>2, Zenon DEF ColumnOf
  <2>6. \A u \in U : ColumnOf(part, U, c)[u] = part[u][c]
    BY Zenon DEF ColumnOf
  <2>7. PICK h : h = ColumnOf(part, U, c)
    BY Zenon
  <2> HIDE DEF part, task, m
  <2>8. On(s, c) \in SUBSET On(s, c) /\ \A u \in U : h[u] = SumFunctionOnSet(pw, PartOf(On(s, c), pod, u))
    BY <2>5, <2>7, Zenon
  <2>9. (\A u \in U : h[u] \in Nat) /\ SumFunctionOnSet(h, U) <= SumFunctionOnSet(pw, On(s, c))
    BY <2>1, <2>3, <2>8, PartsWithin, Zenon
  <2> QED
    BY <2>4, <2>6, <2>7, <2>9, Zenon
<1>4. \A u \in U : \A c \in L : m[u][c] = Node.cpu * cw[c] * Prod(tw, L \ {c}) * part[u][c]
  <2> HIDE DEF part
  <2> QED
    BY Zenon
<1>5. ASSUME NEW u \in U PROVE cpu[u] = SumFunctionOnSet(m[u], L)
  <2> DEFINE g == [c \in L |-> Node.cpu * cw[c] * Weights(s, L \ {c})
                      * Sum(pw, {k \in On(s, c) : u \in Get(pod_of, k[2], {})})]
  <2>1. cpu[u] = SumFunctionOnSet(g, L)
    BY <1>1, Zenon DEF pod_cpu_uw, Sum
  <2>2. \A c \in L : m[u][c] = g[c]
    <3> SUFFICES ASSUME NEW c \in L PROVE m[u][c] = g[c]
      BY Zenon
    <3>1. {k \in On(s, c) : u \in Get(pod_of, k[2], {})} = PartOf(On(s, c), task(c), u)
      BY Zenon DEF PartOf
    <3>2. part[u][c] = Sum(pw, {k \in On(s, c) : u \in Get(pod_of, k[2], {})})
      BY <3>1, Zenon DEF Sum
    <3>3. Weights(s, L \ {c}) = Prod(tw, L \ {c})
      BY <1>1, WeightsIsProd, Zenon
    <3>4. g[c] = Node.cpu * cw[c] * Weights(s, L \ {c})
                   * Sum(pw, {k \in On(s, c) : u \in Get(pod_of, k[2], {})})
      BY Zenon
    <3> HIDE DEF m, part, task, g
    <3> QED
      BY <1>4, <3>2, <3>3, <3>4, Zenon
  <2> HIDE DEF m, part, g
  <2> QED
    BY <1>2, <2>1, <2>2, SumCongruent, Zenon
<1> HIDE DEF m, part
<1>6. /\ \A u \in U : cpu[u] \in Nat
      /\ SumFunctionOnSet(cpu, U) <= Node.cpu * (all * Prod(tw, L))
  <2>1. \A c \in L : cw[c] \in Nat /\ tw[c] \in Nat
    BY <1>2, Zenon
  <2>2. \A u \in U : \A c \in L : part[u][c] \in Nat
    BY <1>3, Zenon
  <2>3. \A c \in L : SumFunctionOnSet(ColumnOf(part, U, c), U) <= tw[c]
    BY <1>3, Zenon
  <2>4. PICK power \in Nat : power = Node.cpu
    BY NodeTypes, Zenon
  <2>5. Spread(cpu, m, power, cw, tw, part, U, L)
    BY <1>4, <1>5, <2>1, <2>2, <2>3, <2>4, Zenon DEF Spread
  <2>7. /\ \A u \in U : cpu[u] \in Nat
        /\ SumFunctionOnSet(cpu, U) <= power * (all * Prod(tw, L))
    BY <1>2, <2>5, CoresSplit, Zenon
  <2> QED
    BY <2>4, <2>7, Zenon
<1>7. Prod(tw, L) \in Nat \ {0}
  BY <1>2, ProdPositive, Zenon
<1> QED
  BY <1>1, <1>6, <1>7, WeightsIsProd, Zenon

\* What replaces powers in the report is itself within the node's power.
NewFine(new) ==
    /\ IsFiniteSet(DOMAIN new) /\ DOMAIN new \subseteq Uid
    /\ \A u \in DOMAIN new : new[u].cpu \in Nat /\ new[u].memory \in Nat
    /\ SumFunctionOnSet([u \in DOMAIN new |-> new[u].cpu], DOMAIN new) <= Node.cpu
    /\ SumFunctionOnSet([u \in DOMAIN new |-> new[u].memory], DOMAIN new) <= Node.memory

\* Replacing nothing is.
LEMMA EmptyFine == NewFine(EmptyMap)
<1>1. DOMAIN EmptyMap = {}
  BY Zenon DEF EmptyMap
<1> QED
  BY <1>1, FS_EmptySet, SumEmpty, NodeTypes DEF NewFine

\* The tasks of a snapshot that are still in /proc are in at most one pod each.
LEMMA TasksOf ==
    ASSUME ScanInv, NEW s, NEW gone, NEW pod_of, pod_of = pid_pod(s, gone)
    PROVE  /\ IsFiniteSet(DOMAIN pod_of) /\ IsFiniteSet(UNION Range(pod_of))
           /\ UNION Range(pod_of) \subseteq Uid
           /\ \A p \in DOMAIN pod_of : p \in DOMAIN procs /\ procs[p].pss \in Nat
           /\ \A p \in DOMAIN pod_of : \A u, v \in pod_of[p] : u = v
<1>1. \A p \in DOMAIN pod_of : p \in DOMAIN procs /\ pod_of[p] = procs[p].pod
  BY Zenon DEF pid_pod, extract_pod_uid
<1>2. \A p \in DOMAIN pod_of : /\ \A u, v \in pod_of[p] : u = v
                               /\ IsFiniteSet(pod_of[p]) /\ pod_of[p] \subseteq Uid
                               /\ procs[p].pss \in Nat /\ p \in ProcPid
  BY <1>1, PodOf
<1>3. IsFiniteSet(DOMAIN pod_of)
  <2>1. DOMAIN pod_of \subseteq ProcPid
    BY <1>2, Zenon
  <2> QED
    BY <2>1, PodsAssumption, FS_Subset, Zenon
<1>4. Range(pod_of) = {pod_of[p] : p \in DOMAIN pod_of}
  BY Zenon DEF Range
<1>5. IsFiniteSet(Range(pod_of)) /\ \A q \in Range(pod_of) : IsFiniteSet(q)
  BY <1>2, <1>3, <1>4, ImageFinite
<1>6. IsFiniteSet(UNION Range(pod_of))
  BY <1>5, FS_UNION, Zenon
<1>7. UNION Range(pod_of) \subseteq Uid
  BY <1>2, <1>4
<1> QED
  BY <1>1, <1>2, <1>3, <1>6, <1>7, Zenon

\* What the eBPF path computes is within the node's power.
LEMMA EbpfFine ==
    ASSUME ScanInv, NEW s, IsSnapshot(s), NEW gone
    PROVE  NewFine(enumerate_pods_ebpf_weighted(s, gone))
<1>1. PICK pod_of : pod_of = pid_pod(s, gone)
  BY Zenon
<1>2. PICK U : U = UNION Range(pod_of)
  BY Zenon
<1>3. /\ IsFiniteSet(DOMAIN pod_of) /\ IsFiniteSet(U) /\ U \subseteq Uid
      /\ \A p \in DOMAIN pod_of : p \in DOMAIN procs /\ procs[p].pss \in Nat
      /\ \A p \in DOMAIN pod_of : \A u, v \in pod_of[p] : u = v
  BY <1>1, <1>2, TasksOf, Zenon
<1> DEFINE cpu == [u \in U |-> pod_cpu_uw(s, pod_of, u)]
           pss == [p \in DOMAIN pod_of |-> IF pod_of[p] = {} THEN 0 ELSE procs[p].pss]
           mem == [u \in U |-> SumFunctionOnSet(pss, PartOf(DOMAIN pod_of, pod_of, u))]
<1>4. PICK all \in Nat, W \in Nat \ {0} :
         /\ all = SumFunctionOnSet(core_weight(s), DOMAIN core_weight(s)) /\ W = Weights(s, Loaded(s))
         /\ \A u \in U : cpu[u] \in Nat
         /\ SumFunctionOnSet(cpu, U) <= Node.cpu * (all * W)
  <2>1. SumFunctionOnSet(core_weight(s), DOMAIN core_weight(s)) \in Nat
    BY LoadedCores, Zenon
  <2>2. PICK all \in Nat : all = SumFunctionOnSet(core_weight(s), DOMAIN core_weight(s))
    BY <2>1, Zenon
  <2>3. \A u \in U : cpu[u] = pod_cpu_uw(s, pod_of, u)
    BY Zenon
  <2> HIDE DEF cpu
  <2>4. /\ \A u \in U : cpu[u] \in Nat
        /\ SumFunctionOnSet(cpu, U) <= Node.cpu * (all * Weights(s, Loaded(s)))
        /\ Weights(s, Loaded(s)) \in Nat \ {0}
    BY <1>3, <2>2, <2>3, EbpfCpu
  <2> QED
    BY <2>2, <2>4, Zenon
<1>5. CASE all = 0
  <2>1. enumerate_pods_ebpf_weighted(s, gone) = EmptyMap
    BY <1>4, <1>5, Zenon DEF enumerate_pods_ebpf_weighted, Sum
  <2> QED
    BY <2>1, EmptyFine, Zenon
<1>6. CASE all # 0
  <2> DEFINE C == SumFunctionOnSet(cpu, U)
             M == SumFunctionOnSet(pss, DOMAIN pss)
             cpuW == [u \in U |-> cpu[u] \div (all * W)]
             memW == [u \in U |-> MemoryShare(mem[u], M, cpu[u], C)]
  <2>1. enumerate_pods_ebpf_weighted(s, gone) = [u \in U |-> [cpu |-> cpuW[u], memory |-> memW[u]]]
    <3>1. \A u : {p \in DOMAIN pod_of : u \in pod_of[p]} = PartOf(DOMAIN pod_of, pod_of, u)
      BY Zenon DEF PartOf
    <3> QED
      BY <1>1, <1>2, <1>4, <1>6, <3>1, Zenon DEF enumerate_pods_ebpf_weighted, Sum
  <2>2. \A u \in U : cpuW[u] = cpu[u] \div (all * W) /\ memW[u] = MemoryShare(mem[u], M, cpu[u], C)
    BY Zenon
  <2>3. /\ \A p \in DOMAIN pod_of : pss[p] \in Nat
        /\ DOMAIN pss = DOMAIN pod_of
        /\ \A u \in U : mem[u] = SumFunctionOnSet(pss, PartOf(DOMAIN pod_of, pod_of, u))
    BY <1>3, Zenon
  <2> HIDE DEF cpu, pss, mem, cpuW, memW
  <2>4. (\A u \in U : cpuW[u] \in Nat) /\ SumFunctionOnSet(cpuW, U) <= Node.cpu
    <3>1. all * W \in Nat \ {0}
      <4>1. \A a, b \in Nat \ {0} : a * b \in Nat \ {0}
        BY SMT
      <4> QED
        BY <1>4, <1>6, <4>1, Zenon
    <3>2. PICK d \in Nat \ {0} : d = all * W
      BY <3>1, Zenon
    <3>3. \A u \in U : cpuW[u] = cpu[u] \div d
      BY <2>2, <3>2, Zenon
    <3>4. SumFunctionOnSet(cpu, U) <= Node.cpu * d /\ \A u \in U : cpu[u] \in Nat
      BY <1>4, <3>2, Zenon
    <3> QED
      BY <1>3, <3>3, <3>4, SumOfQuotients, NodeTypes, Zenon
  <2>5. /\ \A u \in U : mem[u] \in Nat
        /\ SumFunctionOnSet(mem, U) <= SumFunctionOnSet(pss, DOMAIN pod_of)
    <3>1. DOMAIN pod_of \in SUBSET DOMAIN pod_of
      BY Zenon
    <3>2. \A p \in DOMAIN pod_of : pss[p] \in Nat
      BY <2>3, Zenon
    <3>3. \A u \in U : mem[u] = SumFunctionOnSet(pss, PartOf(DOMAIN pod_of, pod_of, u))
      BY <2>3, Zenon
    <3> QED
      BY <1>3, <3>1, <3>2, <3>3, PartsWithin, Zenon
  <2>6. (\A u \in U : memW[u] \in Nat) /\ SumFunctionOnSet(memW, U) <= Node.memory
    <3>1. C \in Nat /\ M \in Nat
      BY <1>3, <1>4, <2>3, SumType, Zenon
    <3>2. SumFunctionOnSet(mem, U) <= M /\ SumFunctionOnSet(cpu, U) <= C
      BY <2>3, <2>5, <3>1
    <3>3. \A u \in U : mem[u] \in Nat /\ cpu[u] \in Nat
      BY <1>4, <2>5, Zenon
    <3>4. \A u \in U : memW[u] = MemoryShare(mem[u], M, cpu[u], C)
      BY <2>2, Zenon
    <3>5. IsFiniteSet(U)
      BY <1>3, Zenon
    <3> HIDE DEF C, M
    <3> QED
      BY <3>1, <3>2, <3>3, <3>4, <3>5, MemoryWithin
  <2>7. PICK new : new = [u \in U |-> [cpu |-> cpuW[u], memory |-> memW[u]]]
    BY Zenon
  <2>8. DOMAIN new = U /\ \A u \in U : new[u].cpu = cpuW[u] /\ new[u].memory = memW[u]
    BY <2>7, Zenon
  <2>9. /\ SumFunctionOnSet([u \in U |-> new[u].cpu], U) = SumFunctionOnSet(cpuW, U)
        /\ SumFunctionOnSet([u \in U |-> new[u].memory], U) = SumFunctionOnSet(memW, U)
    <3> DEFINE a == [u \in U |-> new[u].cpu]
               b == [u \in U |-> new[u].memory]
    <3>1. \A u \in U : a[u] = cpuW[u] /\ b[u] = memW[u]
      BY <2>8, Zenon
    <3> HIDE DEF a, b
    <3>2. SumFunctionOnSet(a, U) = SumFunctionOnSet(cpuW, U) /\ SumFunctionOnSet(b, U) = SumFunctionOnSet(memW, U)
      BY <1>3, <3>1, SumCongruent, Zenon
    <3> QED
      BY <3>2, Zenon DEF a, b
  <2>10. NewFine(new)
    BY <1>3, <2>4, <2>6, <2>8, <2>9, Zenon DEF NewFine
  <2> QED
    BY <2>1, <2>7, <2>10, Zenon
<1> QED
  BY <1>5, <1>6, Zenon

-----------------------------------------------------------------------------
(* The override                                                            *)

\* Overriding an entry changes its CPU and memory power, when the pod is in the
\* snapshot, and its total.
LEMMA OverrideOneFine ==
    ASSUME NEW new, NewFine(new), NEW pod \in PodRecord, recalculate_total(pod) = pod
    PROVE  LET o == OverrideOne(pod, new) IN
           /\ o \in PodRecord /\ o.pod_uid = pod.pod_uid /\ recalculate_total(o) = o
           /\ o.storage_uw = pod.storage_uw /\ o.io_uw = pod.io_uw
           /\ o.cpu_uw = IF pod.pod_uid \in DOMAIN new THEN new[pod.pod_uid].cpu ELSE pod.cpu_uw
           /\ o.memory_uw = IF pod.pod_uid \in DOMAIN new THEN new[pod.pod_uid].memory ELSE pod.memory_uw
<1>1. CASE pod.pod_uid \notin DOMAIN new
  BY <1>1, Zenon DEF OverrideOne
<1>2. CASE pod.pod_uid \in DOMAIN new
  <2>1. PICK c \in Nat, m \in Nat : c = new[pod.pod_uid].cpu /\ m = new[pod.pod_uid].memory
    BY <1>2, Zenon DEF NewFine
  <2> DEFINE raw == [pod EXCEPT !.cpu_uw = c, !.memory_uw = m]
  <2>2. OverrideOne(pod, new) = recalculate_total(raw)
    BY <1>2, <2>1, Zenon DEF OverrideOne
  <2>3. /\ raw \in PodRecord /\ raw.pod_uid = pod.pod_uid /\ raw.cpu_uw = c /\ raw.memory_uw = m
        /\ raw.storage_uw = pod.storage_uw /\ raw.io_uw = pod.io_uw
    BY Zenon DEF PodRecord
  <2> HIDE DEF raw
  <2> QED
    BY <1>2, <2>1, <2>2, <2>3, TotalFine
<1> QED
  BY <1>1, <1>2, Zenon

\* Values of which some are replaced, the old and the new ones each summing up
\* to at most n, sum up to at most 2 n.
LEMMA OldAndNew ==
    ASSUME NEW U, IsFiniteSet(U), NEW V, IsFiniteSet(V), NEW old, NEW new, NEW n \in Nat,
           \A u \in U : old[u] \in Nat, \A u \in V : new[u] \in Nat,
           SumFunctionOnSet(old, U) <= n, SumFunctionOnSet(new, V) <= n,
           NEW h, \A u \in U : h[u] = IF u \in V THEN new[u] ELSE old[u]
    PROVE  SumFunctionOnSet(h, U) <= 2 * n
<1> DEFINE A == U \cap V
           B == U \ V
<1>1. /\ A \in SUBSET V /\ B \in SUBSET U /\ A \cap B = {} /\ A \cup B = U
      /\ \A u \in A : h[u] = new[u] /\ h[u] \in Nat
      /\ \A u \in B : h[u] = old[u] /\ h[u] \in Nat
      /\ \A u \in A \cup B : h[u] \in Int
  OBVIOUS
<1>2. IsFiniteSet(A) /\ IsFiniteSet(B)
  BY FS_Subset, Zenon
<1> HIDE DEF A, B
<1>3. SumFunctionOnSet(h, A \cup B) = SumFunctionOnSet(h, A) + SumFunctionOnSet(h, B)
  BY <1>1, <1>2, SumUnion, Zenon
<1>4. SumFunctionOnSet(h, A) = SumFunctionOnSet(new, A) /\ SumFunctionOnSet(h, B) = SumFunctionOnSet(old, B)
  BY <1>1, <1>2, SumCongruent, Zenon
<1>5. SumFunctionOnSet(new, A) <= SumFunctionOnSet(new, V)
  BY <1>1, SumSubset, Zenon
<1>6. SumFunctionOnSet(old, B) <= SumFunctionOnSet(old, U)
  BY <1>1, SumSubset, Zenon
<1>7. /\ SumFunctionOnSet(h, A) \in Nat /\ SumFunctionOnSet(h, B) \in Nat
      /\ SumFunctionOnSet(new, V) \in Nat /\ SumFunctionOnSet(old, U) \in Nat
  BY <1>1, <1>2, SumType, Zenon
<1>8. SumFunctionOnSet(h, U) = SumFunctionOnSet(h, A) + SumFunctionOnSet(h, B)
  BY <1>1, <1>3, Zenon
<1> QED
  BY <1>4, <1>5, <1>6, <1>7, <1>8

\* A report with one entry per uid can be listed by uid.
LEMMA UidIndex ==
    ASSUME NEW P, IsFiniteSet(P), \A a, b \in P : a.pod_uid = b.pod_uid => a = b
    PROVE  \E U, rep : /\ IsFiniteSet(U) /\ Indexed(P, rep, U)
                       /\ \A u \in U : rep[u] \in P /\ rep[u].pod_uid = u
<1> DEFINE key == [pod \in P |-> pod.pod_uid]
           U == {key[pod] : pod \in P}
           rep == [u \in U |-> CHOOSE pod \in P : pod.pod_uid = u]
<1>1. ASSUME NEW u \in U PROVE rep[u] \in P /\ rep[u].pod_uid = u
  <2>1. \E pod \in P : pod.pod_uid = u
    BY Zenon
  <2>2. rep[u] = CHOOSE pod \in P : pod.pod_uid = u
    BY Zenon
  <2> HIDE DEF rep, U
  <2> QED
    BY <2>1, <2>2, Zenon
<1>2. ASSUME NEW pod \in P PROVE pod.pod_uid \in U
  BY Zenon
<1>3. IsFiniteSet(U)
  <2> HIDE DEF key
  <2> QED
    BY ImageFinite, Zenon
<1> HIDE DEF rep, U
<1>4. ASSUME NEW pod \in P PROVE rep[pod.pod_uid] = pod
  BY <1>1, <1>2, Zenon
<1>5. P = {rep[u] : u \in U}
  <2>1. ASSUME NEW pod \in P PROVE pod \in {rep[u] : u \in U}
    BY <1>2, <1>4, Zenon
  <2>2. ASSUME NEW pod \in {rep[u] : u \in U} PROVE pod \in P
    BY <1>1
  <2> QED
    BY <2>1, <2>2, Zenon
<1>6. Indexed(P, rep, U)
  BY <1>1, <1>5, Zenon DEF Indexed
<1> QED
  BY <1>1, <1>3, <1>6, Zenon

\* The same, with the powers as functions of the uid.
EntriesOf(P, rep, U, k, cpu, memory, storage, io) ==
    /\ IsFiniteSet(U) /\ P = {rep[u] : u \in U}
    /\ \A u \in U : EntryOf(rep[u], u, cpu[u], memory[u], storage[u], io[u])
    /\ SumsWithin(cpu, memory, storage, io, U, k)

\* A fine report can be listed so.
LEMMA FineEntries ==
    ASSUME NEW P, NEW k, PodsFine(P, k)
    PROVE  \E U, rep : EntriesOf(P, rep, U, k, [u \in U |-> rep[u].cpu_uw], [u \in U |-> rep[u].memory_uw],
                                [u \in U |-> rep[u].storage_uw], [u \in U |-> rep[u].io_uw])
<1>0. /\ IsFiniteSet(P) /\ \A a, b \in P : a.pod_uid = b.pod_uid => a = b
      /\ P \subseteq PodRecord /\ \A pod \in P : recalculate_total(pod) = pod
      /\ WithinShares(P, k)
  BY Zenon DEF PodsFine
<1>1. PICK U, rep : /\ IsFiniteSet(U) /\ Indexed(P, rep, U)
                    /\ \A u \in U : rep[u] \in P /\ rep[u].pod_uid = u
  BY <1>0, UidIndex, Zenon
<1> DEFINE cpu == [u \in U |-> rep[u].cpu_uw]
           memory == [u \in U |-> rep[u].memory_uw]
           storage == [u \in U |-> rep[u].storage_uw]
           io == [u \in U |-> rep[u].io_uw]
<1>2. ASSUME NEW u \in U PROVE EntryOf(rep[u], u, cpu[u], memory[u], storage[u], io[u])
  <2>1. PICK pod \in P : pod = rep[u] /\ pod.pod_uid = u
    BY <1>1, Zenon
  <2>2. pod \in PodRecord /\ recalculate_total(pod) = pod
    BY <1>0, Zenon
  <2> QED
    BY <2>1, <2>2, Zenon DEF EntryOf
<1>3. /\ Reads(cpu, rep, "cpu_uw", U) /\ Reads(memory, rep, "memory_uw", U)
      /\ Reads(storage, rep, "storage_uw", U) /\ Reads(io, rep, "io_uw", U)
  <2> SUFFICES ASSUME NEW u \in U
               PROVE  /\ cpu[u] = rep[u]["cpu_uw"] /\ cpu[u] \in Int
                      /\ memory[u] = rep[u]["memory_uw"] /\ memory[u] \in Int
                      /\ storage[u] = rep[u]["storage_uw"] /\ storage[u] \in Int
                      /\ io[u] = rep[u]["io_uw"] /\ io[u] \in Int
    BY Zenon DEF Reads
  <2>1. rep[u] \in PodRecord
    BY <1>0, <1>1, Zenon
  <2> QED
    BY <2>1 DEF PodRecord
<1> HIDE DEF cpu, memory, storage, io
<1>4. /\ FieldSum(P, "cpu_uw") = SumFunctionOnSet(cpu, U)
      /\ FieldSum(P, "memory_uw") = SumFunctionOnSet(memory, U)
      /\ FieldSum(P, "storage_uw") = SumFunctionOnSet(storage, U)
      /\ FieldSum(P, "io_uw") = SumFunctionOnSet(io, U)
  BY <1>1, <1>3, SumByUid
<1>5. SumsWithin(cpu, memory, storage, io, U, k)
  BY <1>0, <1>4, Zenon DEF WithinShares, SumsWithin
<1>6. EntriesOf(P, rep, U, k, cpu, memory, storage, io)
  BY <1>1, <1>2, <1>5, Zenon DEF EntriesOf, Indexed
<1> QED
  BY <1>6, Zenon DEF cpu, memory, storage, io

\* A report that can be listed so is fine.
LEMMA EntriesFine ==
    ASSUME NEW P, NEW rep, NEW U, NEW k \in Nat, NEW cpu, NEW memory, NEW storage, NEW io,
           EntriesOf(P, rep, U, k, cpu, memory, storage, io)
    PROVE  PodsFine(P, k)
BY ReportedFine, Zenon DEF EntriesOf

\* The override keeps a fine report fine, with CPU and memory within twice the
\* node's: pods the snapshot does not know keep the power of the scan.
LEMMA OverrideFine ==
    ASSUME NEW P, PodsFine(P, 1), NEW new, NewFine(new), DOMAIN new # {},
           NEW Q, Q = {OverrideOne(pod, new) : pod \in P}
    PROVE  PodsFine(Q, 2)
<1>1. PICK U, rep : EntriesOf(P, rep, U, 1, [u \in U |-> rep[u].cpu_uw], [u \in U |-> rep[u].memory_uw],
                              [u \in U |-> rep[u].storage_uw], [u \in U |-> rep[u].io_uw])
  BY FineEntries, Zenon
<1> DEFINE cpu == [u \in U |-> rep[u].cpu_uw]
           memory == [u \in U |-> rep[u].memory_uw]
           storage == [u \in U |-> rep[u].storage_uw]
           io == [u \in U |-> rep[u].io_uw]
           V == DOMAIN new
           newCpu == [u \in V |-> new[u].cpu]
           newMem == [u \in V |-> new[u].memory]
           over == [u \in U |-> OverrideOne(rep[u], new)]
           cpu2 == [u \in U |-> IF u \in V THEN newCpu[u] ELSE cpu[u]]
           mem2 == [u \in U |-> IF u \in V THEN newMem[u] ELSE memory[u]]
<1>2. /\ IsFiniteSet(U) /\ P = {rep[u] : u \in U} /\ SumsWithin(cpu, memory, storage, io, U, 1)
      /\ \A u \in U : EntryOf(rep[u], u, cpu[u], memory[u], storage[u], io[u])
  BY <1>1, Zenon DEF EntriesOf
<1>3. Q = {over[u] : u \in U}
  BY <1>2, Zenon
<1>4. ASSUME NEW u \in U
      PROVE  /\ EntryOf(over[u], u, cpu2[u], mem2[u], storage[u], io[u])
             /\ cpu[u] \in Nat /\ memory[u] \in Nat
  <2>1. PICK pod \in PodRecord : /\ pod = rep[u] /\ pod.pod_uid = u /\ recalculate_total(pod) = pod
                                 /\ cpu[u] = pod.cpu_uw /\ memory[u] = pod.memory_uw
                                 /\ storage[u] = pod.storage_uw /\ io[u] = pod.io_uw
    BY <1>2, Zenon DEF EntryOf
  <2>2. PICK o : o = OverrideOne(pod, new)
    BY Zenon
  <2>3. /\ o \in PodRecord /\ o.pod_uid = u /\ recalculate_total(o) = o
        /\ o.storage_uw = pod.storage_uw /\ o.io_uw = pod.io_uw
        /\ o.cpu_uw = IF u \in V THEN new[u].cpu ELSE pod.cpu_uw
        /\ o.memory_uw = IF u \in V THEN new[u].memory ELSE pod.memory_uw
    BY <2>1, <2>2, OverrideOneFine
  <2>4. over[u] = o
    BY <2>1, <2>2, Zenon
  <2>5. cpu2[u] = o.cpu_uw /\ mem2[u] = o.memory_uw
    BY <2>1, <2>3, Zenon
  <2>6. cpu[u] \in Nat /\ memory[u] \in Nat
    BY <2>1, Zenon DEF PodRecord
  <2> HIDE DEF over, cpu2, mem2, cpu, memory, storage, io
  <2> QED
    BY <2>1, <2>3, <2>4, <2>5, <2>6, Zenon DEF EntryOf
<1>5. /\ IsFiniteSet(V) /\ \A u \in V : newCpu[u] \in Nat /\ newMem[u] \in Nat
      /\ SumFunctionOnSet(newCpu, V) <= Node.cpu /\ SumFunctionOnSet(newMem, V) <= Node.memory
  BY Zenon DEF NewFine
<1>6. /\ \A u \in U : cpu2[u] = IF u \in V THEN newCpu[u] ELSE cpu[u]
      /\ \A u \in U : mem2[u] = IF u \in V THEN newMem[u] ELSE memory[u]
  BY Zenon
<1> HIDE DEF over, cpu2, mem2, cpu, memory, storage, io, newCpu, newMem, V
<1>7. /\ SumFunctionOnSet(cpu, U) <= Node.cpu /\ SumFunctionOnSet(memory, U) <= Node.memory
      /\ SumFunctionOnSet(storage, U) <= Node.storage /\ SumFunctionOnSet(io, U) <= Node.io
  BY <1>2, NodeTypes DEF SumsWithin
<1>8. SumFunctionOnSet(cpu2, U) <= 2 * Node.cpu
  <2>1. \A u \in U : cpu[u] \in Nat
    BY <1>4, Zenon
  <2>2. \A u \in V : newCpu[u] \in Nat
    BY <1>5, Zenon
  <2> QED
    BY <1>2, <1>5, <1>6, <1>7, <2>1, <2>2, OldAndNew, NodeTypes
<1>9. SumFunctionOnSet(mem2, U) <= 2 * Node.memory
  <2>1. \A u \in U : memory[u] \in Nat
    BY <1>4, Zenon
  <2>2. \A u \in V : newMem[u] \in Nat
    BY <1>5, Zenon
  <2> QED
    BY <1>2, <1>5, <1>6, <1>7, <2>1, <2>2, OldAndNew, NodeTypes
<1>10. EntriesOf(Q, over, U, 2, cpu2, mem2, storage, io)
  BY <1>2, <1>3, <1>4, <1>7, <1>8, <1>9, Zenon DEF EntriesOf, SumsWithin
<1> QED
  BY <1>10, EntriesFine, Zenon

-----------------------------------------------------------------------------
(* The GPU lines                                                           *)

\* Adding GPU power leaves the other powers alone and brings the total up to
\* date.
LEMMA WithGpuFine ==
    ASSUME NEW pod \in PodRecord, NEW uw \in Nat
    PROVE  EntryOf(WithGpu(pod, uw), pod.pod_uid, pod.cpu_uw, pod.memory_uw, pod.storage_uw, pod.io_uw)
<1>1. PICK g \in Nat : g = pod.gpu_uw + uw
  BY DEF PodRecord
<1> DEFINE raw == [pod EXCEPT !.gpu_uw = g]
<1>2. WithGpu(pod, uw) = recalculate_total(raw)
  BY <1>1, Zenon DEF WithGpu
<1>3. /\ raw \in PodRecord /\ raw.pod_uid = pod.pod_uid /\ raw.cpu_uw = pod.cpu_uw
      /\ raw.memory_uw = pod.memory_uw /\ raw.storage_uw = pod.storage_uw /\ raw.io_uw = pod.io_uw
  BY Zenon DEF PodRecord
<1> HIDE DEF raw
<1> QED
  BY <1>2, <1>3, TotalFine DEF EntryOf

\* A report in which one pod's entry gets GPU power stays fine.
LEMMA GpuReplaces ==
    ASSUME NEW P, NEW k \in Nat, PodsFine(P, k), NEW old \in P, NEW uw \in Nat,
           NEW Q, Q = (P \ {old}) \cup {WithGpu(old, uw)}
    PROVE  PodsFine(Q, k)
<1>1. PICK U, rep : EntriesOf(P, rep, U, k, [u \in U |-> rep[u].cpu_uw], [u \in U |-> rep[u].memory_uw],
                              [u \in U |-> rep[u].storage_uw], [u \in U |-> rep[u].io_uw])
  BY FineEntries, Zenon
<1>2. PICK cpu, memory, storage, io :
         /\ EntriesOf(P, rep, U, k, cpu, memory, storage, io)
         /\ \A u \in U : /\ cpu[u] = rep[u].cpu_uw /\ memory[u] = rep[u].memory_uw
                         /\ storage[u] = rep[u].storage_uw /\ io[u] = rep[u].io_uw
  BY <1>1
<1>3. /\ IsFiniteSet(U) /\ P = {rep[u] : u \in U} /\ SumsWithin(cpu, memory, storage, io, U, k)
      /\ \A u \in U : EntryOf(rep[u], u, cpu[u], memory[u], storage[u], io[u])
  BY <1>2, Zenon DEF EntriesOf
<1>4. PICK v \in U : old = rep[v]
  BY <1>3, Zenon
<1>5. old \in PodRecord /\ old.pod_uid = v
  BY <1>3, <1>4, Zenon DEF EntryOf
<1>6. PICK new : new = WithGpu(old, uw)
  BY Zenon
<1>7. EntryOf(new, v, cpu[v], memory[v], storage[v], io[v])
  BY <1>2, <1>4, <1>5, <1>6, WithGpuFine, Zenon
<1> DEFINE next == [u \in U |-> IF u = v THEN new ELSE rep[u]]
<1>8. \A u \in U : next[u] = IF u = v THEN new ELSE rep[u]
  BY Zenon
<1> HIDE DEF next
<1>9. \A u \in U : u # v => rep[u] # old
  BY <1>3, <1>5, Zenon DEF EntryOf
<1>10. Q = {next[u] : u \in U}
  <2>1. ASSUME NEW x \in Q PROVE x \in {next[u] : u \in U}
    BY <1>3, <1>4, <1>6, <1>8, Zenon
  <2>2. ASSUME NEW u \in U PROVE next[u] \in Q
    <3>1. CASE u = v
      BY <1>6, <1>8, <3>1, Zenon
    <3>2. CASE u # v
      BY <1>3, <1>8, <1>9, <3>2, Zenon
    <3> QED
      BY <3>1, <3>2, Zenon
  <2> QED
    BY <2>1, <2>2, Zenon
<1>11. \A u \in U : EntryOf(next[u], u, cpu[u], memory[u], storage[u], io[u])
  BY <1>3, <1>7, <1>8, Zenon
<1>12. EntriesOf(Q, next, U, k, cpu, memory, storage, io)
  BY <1>3, <1>10, <1>11, Zenon DEF EntriesOf
<1> QED
  BY <1>12, EntriesFine, Zenon

\* An entry of 0 does not change a sum.
LEMMA ZeroAdds ==
    ASSUME NEW U, IsFiniteSet(U), NEW v, v \notin U, NEW f, \A u \in U : f[u] \in Int,
           NEW g, \A u \in U : g[u] = f[u], g[v] = 0
    PROVE  SumFunctionOnSet(g, U \cup {v}) = SumFunctionOnSet(f, U)
<1>1. \A u \in U \cup {v} : g[u] \in Int
  OBVIOUS
<1>2. SumFunctionOnSet(g, U \cup {v}) = g[v] + SumFunctionOnSet(g, U)
  BY <1>1, SumAdd, Zenon
<1>3. SumFunctionOnSet(g, U) = SumFunctionOnSet(f, U)
  BY SumCongruent, Zenon
<1>4. SumFunctionOnSet(f, U) \in Int
  BY SumType, Zenon
<1> QED
  BY <1>2, <1>3, <1>4

\* A report with one more pod, which has GPU power only, stays fine.
LEMMA GpuAdds ==
    ASSUME NEW P, NEW k \in Nat, PodsFine(P, k), NEW v \in Uid, \A pod \in P : pod.pod_uid # v,
           NEW uw \in Nat, NEW Q, Q = P \cup {WithGpu(GpuOnly(v), uw)}
    PROVE  PodsFine(Q, k)
<1>1. PICK U, rep : EntriesOf(P, rep, U, k, [u \in U |-> rep[u].cpu_uw], [u \in U |-> rep[u].memory_uw],
                              [u \in U |-> rep[u].storage_uw], [u \in U |-> rep[u].io_uw])
  BY FineEntries, Zenon
<1>2. PICK cpu, memory, storage, io : EntriesOf(P, rep, U, k, cpu, memory, storage, io)
  BY <1>1, Zenon
<1>3. /\ IsFiniteSet(U) /\ P = {rep[u] : u \in U} /\ SumsWithin(cpu, memory, storage, io, U, k)
      /\ \A u \in U : EntryOf(rep[u], u, cpu[u], memory[u], storage[u], io[u])
  BY <1>2, Zenon DEF EntriesOf
<1>4. v \notin U
  BY <1>3, Zenon DEF EntryOf
<1>5. PICK new : new = WithGpu(GpuOnly(v), uw)
  BY Zenon
<1>6. EntryOf(new, v, 0, 0, 0, 0)
  <2>1. PICK only : only = GpuOnly(v)
    BY Zenon
  <2>2. /\ only \in PodRecord /\ only.pod_uid = v /\ only.cpu_uw = 0 /\ only.memory_uw = 0
        /\ only.storage_uw = 0 /\ only.io_uw = 0
    BY <2>1, Zenon DEF PodRecord, GpuOnly
  <2>3. EntryOf(WithGpu(only, uw), only.pod_uid, only.cpu_uw, only.memory_uw, only.storage_uw, only.io_uw)
    BY <2>2, WithGpuFine, Zenon
  <2> QED
    BY <1>5, <2>1, <2>2, <2>3, Zenon
<1> DEFINE X == U \cup {v}
           next == [u \in X |-> IF u = v THEN new ELSE rep[u]]
           cpu2 == [u \in X |-> IF u = v THEN 0 ELSE cpu[u]]
           mem2 == [u \in X |-> IF u = v THEN 0 ELSE memory[u]]
           dsk2 == [u \in X |-> IF u = v THEN 0 ELSE storage[u]]
           io2 == [u \in X |-> IF u = v THEN 0 ELSE io[u]]
<1>7. /\ \A u \in U : /\ next[u] = rep[u] /\ cpu2[u] = cpu[u] /\ mem2[u] = memory[u]
                      /\ dsk2[u] = storage[u] /\ io2[u] = io[u]
      /\ next[v] = new /\ cpu2[v] = 0 /\ mem2[v] = 0 /\ dsk2[v] = 0 /\ io2[v] = 0
  BY <1>4, Zenon
<1>8. \A u \in U : cpu[u] \in Int /\ memory[u] \in Int /\ storage[u] \in Int /\ io[u] \in Int
  BY <1>3 DEF EntryOf, PodRecord
<1> HIDE DEF next, cpu2, mem2, dsk2, io2
<1>9. /\ SumFunctionOnSet(cpu2, X) = SumFunctionOnSet(cpu, U)
      /\ SumFunctionOnSet(mem2, X) = SumFunctionOnSet(memory, U)
      /\ SumFunctionOnSet(dsk2, X) = SumFunctionOnSet(storage, U)
      /\ SumFunctionOnSet(io2, X) = SumFunctionOnSet(io, U)
  <2>0. /\ (\A u \in U : cpu[u] \in Int) /\ (\A u \in U : memory[u] \in Int)
        /\ (\A u \in U : storage[u] \in Int) /\ (\A u \in U : io[u] \in Int)
        /\ (\A u \in U : cpu2[u] = cpu[u]) /\ (\A u \in U : mem2[u] = memory[u])
        /\ (\A u \in U : dsk2[u] = storage[u]) /\ (\A u \in U : io2[u] = io[u])
        /\ cpu2[v] = 0 /\ mem2[v] = 0 /\ dsk2[v] = 0 /\ io2[v] = 0 /\ IsFiniteSet(U)
    BY <1>3, <1>7, <1>8, Zenon
  <2>1. SumFunctionOnSet(cpu2, X) = SumFunctionOnSet(cpu, U)
    BY <1>4, <2>0, ZeroAdds, SMT
  <2>2. SumFunctionOnSet(mem2, X) = SumFunctionOnSet(memory, U)
    BY <1>4, <2>0, ZeroAdds, SMT
  <2>3. SumFunctionOnSet(dsk2, X) = SumFunctionOnSet(storage, U)
    BY <1>4, <2>0, ZeroAdds, SMT
  <2>4. SumFunctionOnSet(io2, X) = SumFunctionOnSet(io, U)
    BY <1>4, <2>0, ZeroAdds, SMT
  <2> QED
    BY <2>1, <2>2, <2>3, <2>4, Zenon
<1>10. SumsWithin(cpu2, mem2, dsk2, io2, X, k)
  BY <1>3, <1>9, Zenon DEF SumsWithin
<1>11. \A u \in X : EntryOf(next[u], u, cpu2[u], mem2[u], dsk2[u], io2[u])
  BY <1>3, <1>6, <1>7, Zenon
<1>12. Q = {next[u] : u \in X}
  <2>1. ASSUME NEW x \in Q PROVE x \in {next[u] : u \in X}
    BY <1>3, <1>5, <1>7
  <2>2. ASSUME NEW u \in X PROVE next[u] \in Q
    BY <1>3, <1>5, <1>7, Zenon
  <2> QED
    BY <2>1, <2>2, Zenon
<1>13. IsFiniteSet(X)
  BY <1>3, FS_AddElement, Zenon
<1> HIDE DEF X
<1>14. EntriesOf(Q, next, X, k, cpu2, mem2, dsk2, io2)
  BY <1>10, <1>11, <1>12, <1>13, Zenon DEF EntriesOf
<1> QED
  BY <1>14, EntriesFine, Zenon

-----------------------------------------------------------------------------
(* The report of a round                                                   *)

\* A line of nvidia-smi.
GpuLine == UNION {{l[i] : i \in DOMAIN l} : l \in GpuLines}

\* How many times the node's power the report may hold: twice once the override
\* was applied.
Twice == IF overridden THEN 2 ELSE 1

\* The inductive invariant behind SharesConsistent: the report is fine between
\* any two steps of the collection loop, and the override is applied once per
\* round.
ReportInv ==
    /\ IsMap(pss_cache, ProcPid, Nat) /\ snapshot \in {NoSnapshot} \cup Snapshots
    /\ lines \in Seq(GpuLine)
    /\ step \in {"sleep", "ebpf"} => overridden = FALSE
    /\ PodsFine(pods, Twice)

\* The empty report is fine.
LEMMA NoPodsFine == PodsFine({}, 1)
<1>1. /\ FieldSum({}, "cpu_uw") = 0 /\ FieldSum({}, "memory_uw") = 0
      /\ FieldSum({}, "storage_uw") = 0 /\ FieldSum({}, "io_uw") = 0
  BY SumEmpty, Zenon DEF FieldSum
<1> QED
  BY <1>1, FS_EmptySet, NodeTypes DEF PodsFine, WithinShares

\* nvidia-smi answers with a sequence of lines, or not at all.
LEMMA AnswersAreLines ==
    ASSUME NEW answer \in {<<>>} \cup GpuLines
    PROVE  answer \in Seq(GpuLine)
<1>1. CASE answer = <<>>
  BY <1>1
<1>2. CASE answer \in GpuLines
  <2>1. answer \in Seq({answer[i] : i \in DOMAIN answer})
    BY <1>2, PodsAssumption, Zenon
  <2>2. \A i \in DOMAIN answer : answer[i] \in GpuLine
    BY <1>2 DEF GpuLine
  <2>3. PICK n \in Nat : answer \in [1 .. n -> {answer[i] : i \in DOMAIN answer}]
    BY <2>1
  <2>4. answer \in [1 .. n -> GpuLine]
    BY <2>2, <2>3, Zenon
  <2> QED
    BY <2>4
<1> QED
  BY <1>1, <1>2, Zenon

\* The /proc scan leaves a fine report.
LEMMA ScanReport ==
    ASSUME ScanInv, ReportInv, Scan
    PROVE  ReportInv'
<1>1. PICK pids \in SUBSET DOMAIN procs :
         \E noIo \in SUBSET pids, noCgroup \in SUBSET {p \in pids : procs[p].pod # {}} :
            enumerate_pods(pids, noCgroup, noIo, snapshot'.net)
  BY Zenon DEF Scan
<1>2. PICK noIo, noCgroup : enumerate_pods(pids, noCgroup, noIo, snapshot'.net)
  BY <1>1, Zenon
<1>3. /\ snapshot' \in {NoSnapshot} \cup Snapshots /\ step = "sleep" /\ step' = "ebpf"
      /\ UNCHANGED <<lines, overridden>>
  BY Zenon DEF Scan
<1>4. PICK net : net = snapshot'.net
  BY Zenon
<1>5. IsCount(net)
  BY <1>3, <1>4, SnapshotCounts, Zenon DEF IsSnapshot
<1>6. enumerate_pods(pids, noCgroup, noIo, net)
  BY <1>2, <1>4, Zenon
<1>7. PodsFine(pods', 1) /\ IsMap(pss_cache', ProcPid, Nat)
  BY <1>5, <1>6, ScanReportFine, Zenon DEF ReportInv
<1> QED
  BY <1>3, <1>7, Zenon DEF ReportInv, Twice

\* The eBPF override leaves a fine report.
LEMMA OverrideReport ==
    ASSUME ScanInv, ReportInv, Override
    PROVE  ReportInv'
<1>1. PICK estimated \in BOOLEAN, gone \in SUBSET (DOMAIN procs \cap {k[2] : k \in DOMAIN snapshot.time}) :
         LET new == IF estimated /\ DOMAIN snapshot.time # {}
                    THEN enumerate_pods_ebpf_weighted(snapshot, gone) ELSE EmptyMap
         IN  pods' = {OverrideOne(pod, new) : pod \in pods} /\ overridden' = (DOMAIN new # {})
  BY Zenon DEF Override
<1>2. PICK new : /\ new = enumerate_pods_ebpf_weighted(snapshot, gone) \/ new = EmptyMap
                 /\ pods' = {OverrideOne(pod, new) : pod \in pods}
                 /\ overridden' = (DOMAIN new # {})
  BY <1>1, Zenon
<1>3. NewFine(new)
  <2>1. IsSnapshot(snapshot)
    BY SnapshotCounts, Zenon DEF ReportInv
  <2> QED
    BY <1>2, <2>1, EbpfFine, EmptyFine, Zenon
<1>4. PodsFine(pods, 1)
  BY Zenon DEF Override, ReportInv, Twice
<1>5. PodsFine(pods', Twice')
  <2>1. CASE DOMAIN new = {}
    <3>1. \A pod \in pods : OverrideOne(pod, new) = pod
      BY <2>1, Zenon DEF OverrideOne
    <3>2. pods' = pods
      BY <1>2, <3>1, Zenon
    <3>3. Twice' = 1
      BY <1>2, <2>1, Zenon DEF Twice
    <3> QED
      BY <1>4, <3>2, <3>3, Zenon
  <2>2. CASE DOMAIN new # {}
    <3>1. Twice' = 2
      BY <1>2, <2>2, Zenon DEF Twice
    <3>2. PodsFine(pods', 2)
      BY <1>2, <1>3, <1>4, <2>2, OverrideFine
    <3> QED
      BY <3>1, <3>2, Zenon
  <2> QED
    BY <2>1, <2>2, Zenon
<1>6. /\ step' = "gpu" /\ UNCHANGED <<pss_cache, snapshot>>
      /\ \E answer \in {<<>>} \cup GpuLines : lines' = answer
  BY Zenon DEF Override, caches
<1>7. lines' \in Seq(GpuLine)
  BY <1>6, AnswersAreLines, Zenon
<1> QED
  BY <1>5, <1>6, <1>7, Zenon DEF ReportInv

\* Each GPU line leaves a fine report.
LEMMA GpuReport ==
    ASSUME ReportInv, AddGpu
    PROVE  ReportInv'
<1>1. /\ step = "gpu" /\ step' = step /\ lines # <<>> /\ lines' = Tail(lines)
      /\ AddGpuLine(Head(lines)) /\ UNCHANGED <<pss_cache, snapshot, overridden>>
  BY Zenon DEF AddGpu, caches
<1>2. lines' \in Seq(GpuLine) /\ Head(lines) \in GpuLine
  BY <1>1 DEF ReportInv
<1>3. PICK line : line = Head(lines) /\ line.uw \in Nat
  <2>1. PICK line \in GpuLine : line = Head(lines)
    BY <1>2, Zenon
  <2>2. PICK l \in GpuLines : line \in {l[i] : i \in DOMAIN l}
    BY Zenon DEF GpuLine
  <2>3. line.uw \in Nat
    BY <2>2, PodsAssumption, Zenon
  <2> QED
    BY <2>1, <2>3, Zenon
<1>4. PICK k \in Nat : k = Twice /\ Twice' = k
  BY <1>1 DEF Twice
<1>5. PodsFine(pods, k)
  BY <1>4, Zenon DEF ReportInv
<1> DEFINE matching == {pod \in pods : line.pod \in NameOf(pod.pod_uid)}
           cached == {u \in DOMAIN Cached : Cached[u] = line.pod}
<1>6. PodsFine(pods', k)
  <2>1. CASE matching # {}
    <3>1. PICK pod \in pods : pods' = (pods \ {pod}) \cup {WithGpu(pod, line.uw)}
      BY <1>1, <1>3, <2>1, Zenon DEF AddGpuLine
    <3> QED
      BY <1>3, <1>5, <3>1, GpuReplaces, Zenon
  <2>2. CASE matching = {} /\ cached # {}
    <3>1. PICK u \in cached : pods' = pods \cup {WithGpu(GpuOnly(u), line.uw)}
      BY <1>1, <1>3, <2>2, Zenon DEF AddGpuLine
    <3>2. u \in Uid
      <4>1. u \in DOMAIN Cached
        BY Zenon
      <4> QED
        BY <4>1, Zenon DEF Uid
    <3>3. \A pod \in pods : pod.pod_uid # u
      BY <2>2, Zenon DEF NameOf
    <3> QED
      BY <1>3, <1>5, <3>1, <3>2, <3>3, GpuAdds, Zenon
  <2>3. CASE matching = {} /\ cached = {}
    <3>1. pods' = pods
      BY <1>1, <1>3, <2>3, Zenon DEF AddGpuLine
    <3> QED
      BY <1>5, <3>1, Zenon
  <2> QED
    BY <2>1, <2>2, <2>3, Zenon
<1> QED
  BY <1>1, <1>2, <1>4, <1>6, Zenon DEF ReportInv

\* ReportInv holds in every state.
LEMMA ReportInvHolds == PodsInit /\ [][PodsNext]_podVars => []ReportInv
<1>1. PodsInit => ReportInv
  <2> SUFFICES ASSUME PodsInit PROVE ReportInv
    BY Zenon
  <2>1. IsMap(pss_cache, ProcPid, Nat)
    BY Zenon DEF PodsInit, IsMap, EmptyMap
  <2>2. Twice = 1 /\ pods = {} /\ overridden = FALSE /\ snapshot = NoSnapshot
    BY Zenon DEF PodsInit, Twice
  <2>3. lines \in Seq(GpuLine)
    BY DEF PodsInit
  <2> QED
    BY <2>1, <2>2, <2>3, NoPodsFine, Zenon DEF ReportInv
<1>2. ScanInv /\ ReportInv /\ [PodsNext]_podVars => ReportInv'
  <2> SUFFICES ASSUME ScanInv, ReportInv, [PodsNext]_podVars PROVE ReportInv'
    BY Zenon
  <2>1. ASSUME NEW p \in ProcPid, Start(p) \/ Exit(p) \/ Run(p) PROVE ReportInv'
    <3>1. UNCHANGED <<caches, interval>>
      BY <2>1, Zenon DEF Start, Exit, Run
    <3> QED
      BY <3>1, Zenon DEF ReportInv, Twice, caches, interval
  <2>2. CASE ScanFails
    BY <2>2, NoPodsFine, Zenon DEF ScanFails, ReportInv, Twice, caches
  <2>3. CASE Scan
    BY <2>3, ScanReport, Zenon
  <2>4. CASE Override
    BY <2>4, OverrideReport, Zenon
  <2>5. CASE AddGpu
    BY <2>5, GpuReport, Zenon
  <2>6. CASE Finish
    <3>1. /\ step' = "sleep" /\ pods' = {} /\ snapshot' = NoSnapshot /\ overridden' = FALSE
          /\ lines' = lines
          /\ \/ UNCHANGED pss_cache
             \/ \E active : pss_cache' = Restrict(pss_cache, active \cap DOMAIN pss_cache)
      BY <2>6, Zenon DEF Finish, cleanup_stale_pids
    <3>2. IsMap(pss_cache', ProcPid, Nat)
      <4>1. CASE UNCHANGED pss_cache
        BY <4>1, Zenon DEF ReportInv
      <4>2. ASSUME NEW active, pss_cache' = Restrict(pss_cache, active \cap DOMAIN pss_cache)
            PROVE  IsMap(pss_cache', ProcPid, Nat)
        BY <4>2, Zenon DEF ReportInv, IsMap, Restrict
      <4> QED
        BY <3>1, <4>1, <4>2, Zenon
    <3> QED
      BY <3>1, <3>2, NoPodsFine, Zenon DEF ReportInv, Twice
  <2>7. CASE UNCHANGED podVars
    BY <2>7, Zenon DEF podVars, ReportInv, Twice, caches, interval
  <2> QED
    BY <2>1, <2>2, <2>3, <2>4, <2>5, <2>6, <2>7, Zenon DEF PodsNext
<1> QED
  BY <1>1, <1>2, ScanInvHolds, PTL

\* For any node, processes, pods, snapshots and GPU lines, the report the loop
\* of keck-agent/src/main.rs puts together has one entry per pod, each with a
\* total that is the sum of its parts, and gives away no more than the node's
\* power, or twice its CPU and memory power once the eBPF weights have replaced
\* part of the shares of the scan.
THEOREM SharesConsistentHolds == PodsInit /\ [][PodsNext]_podVars => []SharesConsistent
<1>1. ReportInv => SharesConsistent
  <2> SUFFICES ASSUME ReportInv PROVE SharesConsistent
    BY Zenon
  <2>1. PodsFine(pods, Twice)
    BY Zenon DEF ReportInv
  <2>2. OneEntryPerPod /\ TotalsAddUp
    BY <2>1, Zenon DEF PodsFine, OneEntryPerPod, TotalsAddUp
  <2>3. \A field : Total(field) = FieldSum(pods, field)
    BY Zenon DEF Total, FieldSum, Sum
  <2>4. PodsWithinShares
    BY <2>1, <2>3, Zenon DEF PodsFine, WithinShares, PodsWithinShares, Twice
  <2> QED
    BY <2>2, <2>4, Zenon DEF SharesConsistent
<1> QED
  BY <1>1, ReportInvHolds, PTL

=============================================================================
