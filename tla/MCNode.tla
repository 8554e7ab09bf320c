------------------------------- MODULE MCNode -------------------------------
(* What happens on a node, side by side: the three groups of BPF maps, the *)
(* agent's own counters and the per-pod shares have no variable in common, *)
(* so Init chooses the one that moves.                                     *)
EXTENDS EbpfSched, EbpfFreq, EbpfNet, HwCounters, AgentPods, TLC

VARIABLE part    \* the part that runs in this behaviour

Cgroups == [p \in Pid \cup {Idle} |-> p]

(* Shares: two processes that may be in one pod; both pods go by one name.  *)
(* Snapshots are of two CPUs, with and without counters.                   *)

Snap(t, w, c, f, n) == [time |-> t, weight |-> w, cycles |-> c, freq |-> f, net |-> n]
MCSnapshots ==
    {Snap((<<0, 1>> :> 2) @@ (<<1, 2>> :> 1), EmptyMap, EmptyMap, EmptyMap, 1 :> 1),
     Snap((<<0, 1>> :> 1) @@ (<<0, 2>> :> 1), (<<0, 1>> :> 3) @@ (<<0, 2>> :> 1), EmptyMap,
          (0 :> 2) @@ (1 :> 1), EmptyMap)}
MCGpuLines == {<<[pod |-> "a", uw |-> 1], [pod |-> "a", uw |-> 2]>>}
MCCached == ("u1" :> "a") @@ ("u2" :> "a")
MCPower == [cpu |-> 5, memory |-> 4, storage |-> 2, io |-> 2]
MCHome == (1 :> {{"u1"}}) @@ (2 :> {{"u1"}, {"u2"}})
MCTicks == (1 :> 1) @@ (2 :> 1)
MCIo == (1 :> 1) @@ (2 :> 0)

MCInit ==
    /\ part \in {"sched", "freq", "net", "perf", "pods"}
    /\ SchedInit /\ FreqInit /\ NetInit /\ HwInit /\ PodsInit
    /\ part = "freq" \/ (shared = FALSE /\ \A c \in FreqCpu : freq[c] = CHOOSE f \in Freq : TRUE)
    /\ part = "net" \/ attached = {}

MCNext ==
    /\ UNCHANGED part
    /\ \/ part = "sched" /\ SchedNext /\ UNCHANGED <<freqVars, netVars, hwVars, podVars>>
       \/ part = "freq" /\ FreqNext /\ UNCHANGED <<schedVars, netVars, hwVars, podVars>>
       \/ part = "net" /\ NetNext /\ UNCHANGED <<schedVars, freqVars, hwVars, podVars>>
       \/ part = "perf" /\ HwNext /\ UNCHANGED <<schedVars, freqVars, netVars, podVars>>
       \/ part = "pods" /\ PodsNext /\ UNCHANGED <<schedVars, freqVars, netVars, hwVars>>

MCSpec == MCInit /\ [][MCNext]_<<part, schedVars, freqVars, netVars, hwVars, podVars>>
=============================================================================
