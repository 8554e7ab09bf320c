------------------------------ MODULE EbpfNet -------------------------------
(***************************************************************************)
(* TCP bytes per process: the probes on tcp_sendmsg and tcp_recvmsg        *)
(* (keck-ebpf/src/main.rs) and their part of drain.                        *)
(*                                                                         *)
(* The key is the process, and threads of one process run on several CPUs: *)
(* two probes may look up and add to one entry at the same time.  The add  *)
(* is not atomic, so a probe is two steps, the load and the store.  The    *)
(* kernel is taken not to give a deleted element to another key while a    *)
(* probe holds a pointer to it.                                            *)
(***************************************************************************)
EXTENDS Integers, FiniteSets, Maps

CONSTANTS
    NetCpu, Tgid,      \* CPUs; process ids
    MaxNetEntries,     \* MAX_PID_NET_ENTRIES
    MaxBytes           \* bound: bytes of a process in one direction

ASSUME NetAssumption == IsFiniteSet(NetCpu) /\ MaxNetEntries \in Nat /\ MaxBytes \in Nat

Direction == {"tx", "rx"}

VARIABLES
    attached,          \* the probes that could be attached
    bytes,             \* bytes that passed an attached probe, per process and direction
    probe,             \* CPU -> {} or {a probe between its load and its store}
    pid_net_bytes,     \* PID_NET_BYTES
    netTaken, netSum   \* drain: read and not removed; sum of all snapshots

netVars == <<attached, bytes, probe, pid_net_bytes, netTaken, netSum>>

NoBytes == [d \in Direction |-> 0]

NetInit ==
    /\ attached \in SUBSET Direction
    /\ bytes = [p \in Tgid |-> NoBytes]
    /\ probe = [c \in NetCpu |-> {}]
    /\ pid_net_bytes = EmptyMap /\ netTaken = EmptyMap
    /\ netSum = [p \in Tgid |-> NoBytes]

\* tcp_sendmsg counts the bytes asked for, tcp_recvmsg those received.
ProbeLoads(cpu, p, d) ==
    /\ d \in attached /\ probe[cpu] = {} /\ bytes[p][d] < MaxBytes
    /\ bytes' = [bytes EXCEPT ![p][d] = @ + 1]
    /\ probe' = [probe EXCEPT ![cpu] =
          {[pid |-> p, dir |-> d, entry |-> IF p \in DOMAIN pid_net_bytes THEN "found" ELSE "none",
            val |-> Get(pid_net_bytes, p, NoBytes)[d]]}]
    /\ UNCHANGED <<attached, pid_net_bytes, netTaken, netSum>>

\* Mutant: the insert adds to what another CPU inserted meanwhile, and counts
\* the bytes of the other direction as well.
StoredBothWays(s) ==
    IF s.entry = "gone" THEN pid_net_bytes
    ELSE IF s.entry = "none" /\ Cardinality(DOMAIN pid_net_bytes) >= MaxNetEntries
            /\ s.pid \notin DOMAIN pid_net_bytes THEN pid_net_bytes
    ELSE Put(pid_net_bytes, s.pid, [d \in Direction |-> s.val + 1])

\* An entry that drain removed meanwhile takes the bytes with it; an insert
\* replaces what another CPU inserted meanwhile.
Stored(s) ==
    CASE s.entry = "gone" -> pid_net_bytes
      [] s.entry = "found" -> [pid_net_bytes EXCEPT ![s.pid][s.dir] = s.val + 1]
      [] OTHER -> IF s.pid \in DOMAIN pid_net_bytes \/ Cardinality(DOMAIN pid_net_bytes) < MaxNetEntries
                  THEN Put(pid_net_bytes, s.pid, [NoBytes EXCEPT ![s.dir] = 1])
                  ELSE pid_net_bytes

ProbeStores(cpu) ==
    /\ \E s \in probe[cpu] : pid_net_bytes' = Stored(s)
    /\ probe' = [probe EXCEPT ![cpu] = {}]
    /\ UNCHANGED <<attached, bytes, netTaken, netSum>>

DrainNet ==
    /\ netTaken = EmptyMap
    /\ netTaken' = pid_net_bytes
    /\ netSum' = [p \in Tgid |-> [d \in Direction |->
                     netSum[p][d] + Get(pid_net_bytes, p, NoBytes)[d]]]
    /\ UNCHANGED <<attached, bytes, probe, pid_net_bytes>>

RemoveNet(p) ==
    /\ p \in DOMAIN netTaken
    /\ netTaken' = Without(netTaken, p) /\ pid_net_bytes' = Without(pid_net_bytes, p)
    /\ probe' = [c \in NetCpu |->
          {IF s.pid = p /\ s.entry = "found" THEN [s EXCEPT !.entry = "gone"] ELSE s : s \in probe[c]}]
    /\ UNCHANGED <<attached, bytes, netSum>>

NetNext ==
    \/ \E c \in NetCpu : ProbeStores(c) \/ \E p \in Tgid : \E d \in Direction : ProbeLoads(c, p, d)
    \/ DrainNet
    \/ \E p \in Tgid : RemoveNet(p)

NetSpec == NetInit /\ [][NetNext]_netVars

-----------------------------------------------------------------------------
\* Probes that race with each other and with drain lose bytes and never invent
\* any: a process is reported no more bytes in a direction than it moved.
NetNotOvercharged ==
    \A p \in Tgid : \A d \in Direction :
        netSum[p][d] + Get(pid_net_bytes, p, NoBytes)[d] - Get(netTaken, p, NoBytes)[d] <= bytes[p][d]
=============================================================================
