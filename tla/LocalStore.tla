----------------------------- MODULE LocalStore -----------------------------
(***************************************************************************)
(* The agent's local store (store/mod.rs): a ring of snapshots, a ring of  *)
(* pod summaries, and the outbox of summaries that wait to be reported.    *)
(* The sender that drains the outbox is not in the repository; it is       *)
(* modelled from the contract of drain_outbox and requeue ("Put summaries  *)
(* back in outbox if upstream send failed"), holds one batch at a time,    *)
(* and runs beside the pushes.  A send that fails may have reached the     *)
(* controller.  A snapshot and its summaries, stamped a moment apart, have *)
(* one time.                                                               *)
(***************************************************************************)
EXTENDS Integers, Rings

CONSTANTS
    Pod, Namespace,        \* pods and the namespace of each, [Pod -> STRING]
    detail_capacity, summary_capacity,
    PodLists,              \* the pods of a snapshot: sequences over Pod
    MaxPushes,             \* bound on the number of snapshots
    MaxDelivered           \* bound: an answer is lost only up to this many deliveries

ASSUME StoreAssumption ==
    /\ detail_capacity \in Nat \ {0} /\ summary_capacity \in Nat \ {0}
    /\ PodLists \subseteq Seq(Pod) /\ MaxPushes \in Nat /\ MaxDelivered \in Nat

VARIABLES
    detail_ring,     \* <<[time, pods]>>
    summary_ring,    \* <<[time, pod]>>
    outbox,
    batch,           \* what the sender holds: at most one drained sequence
    delivered,       \* what the controller got
    history          \* every snapshot pushed

storeVars == <<detail_ring, summary_ring, outbox, batch, delivered, history>>

StoreInit ==
    /\ detail_ring = <<>> /\ summary_ring = <<>> /\ outbox = <<>>
    /\ batch = {} /\ delivered = <<>> /\ history = <<>>

Summaries(snapshot) ==
    [i \in DOMAIN snapshot.pods |-> [time |-> snapshot.time, pod |-> snapshot.pods[i]]]

PushBounded(ring, x, capacity) ==
    Append(IF Len(ring) >= capacity THEN Tail(ring) ELSE ring, x)

StoreSummaries(new) ==
    FoldLeft(LAMBDA ring, s : PushBounded(ring, s, summary_capacity), summary_ring, new)

push(snapshot) ==
    /\ detail_ring' = PushBounded(detail_ring, snapshot, detail_capacity)
    /\ summary_ring' = StoreSummaries(Summaries(snapshot))
    /\ outbox' = outbox \o Summaries(snapshot)
    /\ history' = Append(history, snapshot)
    /\ UNCHANGED <<batch, delivered>>

drain_outbox ==
    /\ batch = {} /\ batch' = {outbox} /\ outbox' = <<>>
    /\ UNCHANGED <<detail_ring, summary_ring, delivered, history>>

\* Mutant: the batch is put behind the summaries pushed meanwhile.
requeue_behind(summaries) == outbox' = outbox \o summaries

\* push_front of the summaries, last one first.
requeue(summaries) == outbox' = summaries \o outbox

SendFails ==
    /\ \E summaries \in batch : requeue(summaries)
    /\ batch' = {}
    /\ UNCHANGED <<detail_ring, summary_ring, delivered, history>>

\* The controller gets the batch, and its answer does not come in time.
AnswerLost ==
    /\ Len(delivered) < MaxDelivered
    /\ \E summaries \in batch : requeue(summaries) /\ delivered' = delivered \o summaries
    /\ batch' = {}
    /\ UNCHANGED <<detail_ring, summary_ring, history>>

SendSucceeds ==
    /\ \E summaries \in batch : delivered' = delivered \o summaries
    /\ batch' = {}
    /\ UNCHANGED <<detail_ring, summary_ring, outbox, history>>

\* Two snapshots may carry the same instant.
Push ==
    /\ Len(history) < MaxPushes
    /\ \E pods \in PodLists, later \in {0, 1} :
        LET last == IF history = <<>> THEN 0 ELSE Last(history).time IN
        push([time |-> last + later, pods |-> pods])

StoreNext == Push \/ drain_outbox \/ SendFails \/ AnswerLost \/ SendSucceeds

StoreSpec == StoreInit /\ [][StoreNext]_storeVars

-----------------------------------------------------------------------------
(* Queries                                                                 *)

take_while(ring, since) ==
    LET newest == Reverse(ring)
        n == CHOOSE n \in 0 .. Len(ring) :
                /\ \A i \in 1 .. n : newest[i].time >= since
                /\ n < Len(ring) => newest[n + 1].time < since
    IN  SubSeq(newest, 1, n)

filter(entries, wanted) ==
    FoldLeft(LAMBDA kept, e : IF e \in wanted THEN Append(kept, e) ELSE kept, <<>>, entries)

OfNamespace(namespace) == {s \in Range(summary_ring) : Namespace[s.pod] = namespace}

\* Mutant: the search starts at the oldest entry.
query_namespace_pods_oldest(namespace, since) ==
    filter(Reverse(take_while(Reverse(summary_ring), since)), OfNamespace(namespace))

query_namespace_pods(namespace, since) ==
    filter(take_while(summary_ring, since), OfNamespace(namespace))

\* The snapshots whose containers of the pod are listed.
query_pod_processes(pod, since) ==
    filter(take_while(detail_ring, since),
           {s \in Range(detail_ring) : \E i \in DOMAIN s.pods : s.pods[i] = pod})

latest == IF detail_ring = <<>> THEN {} ELSE {Last(detail_ring)}

-----------------------------------------------------------------------------
(* Properties                                                              *)

Newest(s, n) == SubSeq(s, IF Len(s) > n THEN Len(s) - n + 1 ELSE 1, Len(s))
AllSummaries == FoldLeft(LAMBDA all, s : all \o Summaries(s), <<>>, history)

(* Both rings always hold exactly the newest entries pushed, up to their   *)
(* capacity, in order, also when one snapshot brings more summaries than   *)
(* the ring can hold; so latest is the last snapshot pushed.               *)
RingsHoldNewest ==
    /\ detail_ring = Newest(history, detail_capacity)
    /\ summary_ring = Newest(AllSummaries, summary_capacity)
    /\ latest = IF history = <<>> THEN {} ELSE {Last(history)}

(* A query that stops at the first entry older than the cutoff finds every *)
(* retained entry of the namespace or pod that is recent enough: the rings *)
(* are in the order of time.                                               *)
QueriesComplete ==
    \A since \in 0 .. MaxPushes :
        /\ \A ns \in {Namespace[p] : p \in Pod} :
            Range(query_namespace_pods(ns, since)) =
                {s \in Range(summary_ring) : s.time >= since /\ Namespace[s.pod] = ns}
        /\ \A p \in Pod :
            Range(query_pod_processes(p, since)) =
                {s \in Range(detail_ring) : s.time >= since /\ p \in Range(s.pods)}

(* The store answers from the newest entries and misses none of them.      *)
StoreComplete == RingsHoldNewest /\ QueriesComplete

(* Behind drains, failed sends and pushes in between, the store is a queue *)
(* that loses no summary and delivers them in order, some of them again    *)
(* when an answer is lost.                                                 *)
Waiting == (IF batch = {} THEN <<>> ELSE CHOOSE b \in batch : TRUE) \o outbox
Promise == INSTANCE Outbox WITH queue <- Waiting, sent <- delivered
ImplementsOutbox == Promise!OutboxSpec

=============================================================================
