------------------------------- MODULE Outbox -------------------------------
(***************************************************************************)
(* What the agent's store promises about the summaries it reports: a queue *)
(* from which some of the oldest summaries are delivered at a time.  A     *)
(* summary leaves the queue only by being delivered, in the order it was   *)
(* produced, and comes again, with its neighbours, if nobody heard that it *)
(* arrived.                                                                *)
(***************************************************************************)
EXTENDS Integers, Sequences

VARIABLES queue, sent

OutboxInit == queue = <<>> /\ sent = <<>>

\* New summaries go behind the ones that wait.
Produce ==
    /\ Len(queue') >= Len(queue) /\ SubSeq(queue', 1, Len(queue)) = queue
    /\ UNCHANGED sent

\* The n oldest are delivered together, and leave the queue if the answer comes.
Deliver == \E n \in 0 .. Len(queue) :
    /\ sent' = sent \o SubSeq(queue, 1, n)
    /\ queue' \in {queue, SubSeq(queue, n + 1, Len(queue))}

OutboxSpec == OutboxInit /\ [][Produce \/ Deliver]_<<queue, sent>>
=============================================================================
