----------------------------- MODULE StoreProofs ----------------------------
(***************************************************************************)
(* What the local store of an agent keeps, answers and hands to the        *)
(* sender, for every capacity, any pushes, and every interleaving of the   *)
(* pushes with the sender.                                                 *)
(***************************************************************************)
EXTENDS LocalStore, FoldProofs, SequenceTheorems

-----------------------------------------------------------------------------
(* The store implements the outbox it promises                             *)

\* A summary.
Item == [time : Nat, pod : Pod]
\* A snapshot that is pushed.
Snapshot == [time : Nat, pods : Seq(Pod)]

\* What the sender holds, once it holds something.
Held == IF batch = {} THEN <<>> ELSE CHOOSE b \in batch : TRUE

\* What the store and the sender hold are sequences of summaries.
StoreInv ==
    /\ outbox \in Seq(Item) /\ delivered \in Seq(Item)
    /\ history \in Seq(Snapshot)
    /\ batch = {} \/ \E b \in Seq(Item) : batch = {b}

\* The summaries of a snapshot are a sequence of summaries.
LEMMA SummariesIsSeq ==
    ASSUME NEW s \in Snapshot
    PROVE  Summaries(s) \in Seq(Item)
<1> DEFINE L == Len(s.pods)
<1>1. s.pods \in Seq(Pod) /\ s.time \in Nat
    BY Zenon DEF Snapshot
<1>2. DOMAIN s.pods = 1 .. L /\ L \in Nat /\ \A i \in 1 .. L : s.pods[i] \in Pod
    BY <1>1
<1>3. Summaries(s) = [i \in 1 .. L |-> [time |-> s.time, pod |-> s.pods[i]]]
    BY <1>2, Zenon DEF Summaries
<1>4. \A i \in 1 .. L : [time |-> s.time, pod |-> s.pods[i]] \in Item
    BY <1>1, <1>2, Zenon DEF Item
<1> HIDE DEF L
<1> QED  BY <1>2, <1>3, <1>4, IsASeq

\* A snapshot pushed with a time that is not earlier is a snapshot.
LEMMA PushedIsSnapshot ==
    ASSUME StoreInv, NEW pods \in PodLists, NEW later \in {0, 1}
    PROVE  [time |-> (IF history = <<>> THEN 0 ELSE Last(history).time) + later,
            pods |-> pods] \in Snapshot
<1>1. history # <<>> => Last(history) \in Snapshot
    BY DEF StoreInv, Last
<1> QED  BY <1>1, StoreAssumption DEF Snapshot

\* push_front of the batch, and the drain, leave the sequences sequences.
LEMMA StoreInvInductive == StoreInv /\ [StoreNext]_storeVars => StoreInv'
<1> SUFFICES ASSUME StoreInv, [StoreNext]_storeVars PROVE StoreInv'
    BY Zenon
<1>1. CASE Push
    <2>1. PICK pods \in PodLists, later \in {0, 1} :
            push([time |-> (IF history = <<>> THEN 0 ELSE Last(history).time) + later,
                  pods |-> pods])
        BY <1>1, Zenon DEF Push
    <2> DEFINE s == [time |-> (IF history = <<>> THEN 0 ELSE Last(history).time) + later,
                     pods |-> pods]
    <2>2. s \in Snapshot  BY PushedIsSnapshot, Zenon
    <2>3. Summaries(s) \in Seq(Item)  BY <2>2, SummariesIsSeq, Zenon
    <2>4. /\ outbox' = outbox \o Summaries(s) /\ history' = Append(history, s)
          /\ UNCHANGED <<batch, delivered>>
        BY <2>1, Zenon DEF push
    <2> HIDE DEF s
    <2> QED  BY <2>2, <2>3, <2>4, ConcatProperties, AppendProperties, Zenon DEF StoreInv
<1>2. CASE drain_outbox
    BY <1>2 DEF drain_outbox, StoreInv
<1>3. CASE SendFails
    BY <1>3, ConcatProperties DEF SendFails, requeue, StoreInv
<1>4. CASE SendSucceeds
    BY <1>4, ConcatProperties DEF SendSucceeds, StoreInv
<1>5. CASE AnswerLost
    BY <1>5, ConcatProperties DEF AnswerLost, requeue, StoreInv
<1>6. CASE UNCHANGED storeVars
    BY <1>6, Zenon DEF storeVars, StoreInv
<1> QED  BY <1>1, <1>2, <1>3, <1>4, <1>5, <1>6, Zenon DEF StoreNext

\* A push is a Produce of the outbox, also while a batch is under way.
LEMMA PushProduces == ASSUME StoreInv, Push PROVE Promise!Produce
<1>1. PICK pods \in PodLists, later \in {0, 1} :
        push([time |-> (IF history = <<>> THEN 0 ELSE Last(history).time) + later,
              pods |-> pods])
    BY Zenon DEF Push
<1> DEFINE s == [time |-> (IF history = <<>> THEN 0 ELSE Last(history).time) + later,
                 pods |-> pods]
           b == Summaries(s)
<1>2. b \in Seq(Item)  BY PushedIsSnapshot, SummariesIsSeq, Zenon
<1>3. outbox' = outbox \o b /\ UNCHANGED <<batch, delivered>>  BY <1>1, Zenon DEF push
<1>4. Held \in Seq(Item) /\ outbox \in Seq(Item)  BY DEF StoreInv, Held
<1>5. Waiting = Held \o outbox /\ Waiting' = Held \o (outbox \o b)
    BY <1>3 DEF Waiting, Held
<1> HIDE DEF b, Held, Waiting
<1>6. Waiting \in Seq(Item) /\ Waiting' = Waiting \o b
    BY <1>2, <1>4, <1>5, ConcatAssociative, ConcatProperties, SMTT(30)
<1>7. Len(Waiting') >= Len(Waiting) /\ SubSeq(Waiting', 1, Len(Waiting)) = Waiting
    BY <1>2, <1>6, SubSeqOfConcat1, SubSeqFull, ConcatProperties, LenProperties
<1> QED  BY <1>3, <1>7, Zenon DEF Promise!Produce

\* A drain and a failed send move summaries between the outbox and the
\* sender and change neither what waits, nor its order.
LEMMA MovesStutter ==
    ASSUME StoreInv, drain_outbox \/ SendFails
    PROVE  Waiting' = Waiting /\ delivered' = delivered
<1>1. CASE drain_outbox
    <2>1. Waiting = <<>> \o outbox /\ Waiting' = outbox \o <<>> /\ delivered' = delivered
        BY <1>1, Zenon DEF drain_outbox, Waiting
    <2> QED  BY <2>1, ConcatEmptySeq, Zenon DEF StoreInv
<1>2. CASE SendFails
    <2>1. PICK b \in Seq(Item) : batch = {b}  BY <1>2, Zenon DEF SendFails, StoreInv
    <2>2. outbox' = b \o outbox /\ batch' = {} /\ delivered' = delivered
        BY <1>2, <2>1, Zenon DEF SendFails, requeue
    <2>3. Waiting = b \o outbox /\ Waiting' = <<>> \o (b \o outbox)
        BY <2>1, <2>2, Zenon DEF Waiting
    <2>4. b \o outbox \in Seq(Item)  BY <2>1, ConcatProperties, Zenon DEF StoreInv
    <2> QED  BY <2>2, <2>3, <2>4, ConcatEmptySeq, Zenon
<1> QED  BY <1>1, <1>2, Zenon

\* A send that reaches the controller delivers the batch, the oldest of what
\* waits; the batch waits on if the answer is lost.
LEMMA SendDelivers == ASSUME StoreInv, SendSucceeds \/ AnswerLost PROVE Promise!Deliver
<1>1. PICK b \in Seq(Item) : batch = {b}  BY Zenon DEF SendSucceeds, AnswerLost, StoreInv
<1>2. /\ delivered' = delivered \o b /\ batch' = {}
      /\ outbox' = outbox \/ outbox' = b \o outbox
    BY <1>1, Zenon DEF SendSucceeds, AnswerLost, requeue
<1>3. Waiting = b \o outbox /\ Waiting' = <<>> \o outbox'  BY <1>1, <1>2, Zenon DEF Waiting
<1>4. outbox \in Seq(Item) /\ b \o outbox \in Seq(Item)
    BY <1>1, ConcatProperties, Zenon DEF StoreInv
<1>5. Waiting' = outbox \/ Waiting' = Waiting  BY <1>2, <1>3, <1>4, ConcatEmptySeq, Zenon
<1>6. Waiting \in Seq(Item) /\ Len(Waiting) = Len(b) + Len(outbox)
      /\ Len(b) \in 0 .. Len(Waiting)
    BY <1>1, <1>3, <1>4, ConcatProperties, LenProperties
<1>7. SubSeq(Waiting, 1, Len(b)) = b
    BY <1>1, <1>3, <1>4, SubSeqOfConcat1, SubSeqFull, LenProperties, ConcatProperties
<1>8. SubSeq(Waiting, Len(b) + 1, Len(Waiting)) = outbox
    <2>1. SubSeq(Waiting, Len(b) + 1, Len(b) + Len(outbox)) = SubSeq(outbox, 1, Len(outbox))
        BY <1>1, <1>3, <1>4, SubSeqOfConcat2, LenProperties, ConcatProperties
    <2> QED  BY <2>1, <1>4, <1>6, SubSeqFull, Zenon
<1> HIDE DEF Waiting
<1>9. /\ delivered' = delivered \o SubSeq(Waiting, 1, Len(b))
      /\ Waiting' \in {Waiting, SubSeq(Waiting, Len(b) + 1, Len(Waiting))}
    BY <1>2, <1>5, <1>7, <1>8, Zenon
<1> QED  BY <1>6, <1>9, Zenon DEF Promise!Deliver

\* The store implements the queue of summaries: whatever fails, heard or unheard,
\* and whenever snapshots are pushed, a summary leaves the outbox only by being
\* delivered, and in order.
THEOREM StoreImplementsOutbox == StoreSpec => ImplementsOutbox
<1>1. StoreInit => StoreInv  BY EmptySeq, Zenon DEF StoreInit, StoreInv
<1>2. StoreInit => Promise!OutboxInit
    BY ConcatEmptySeq, EmptySeq, Zenon DEF StoreInit, Promise!OutboxInit, Waiting
<1>3. StoreInv /\ [StoreNext]_storeVars =>
        [Promise!Produce \/ Promise!Deliver]_<<Waiting, delivered>>
    <2> SUFFICES ASSUME StoreInv, [StoreNext]_storeVars
                 PROVE  [Promise!Produce \/ Promise!Deliver]_<<Waiting, delivered>>
        BY Zenon
    <2>1. CASE UNCHANGED storeVars  BY <2>1 DEF storeVars, Waiting
    <2> QED  BY <2>1, PushProduces, MovesStutter, SendDelivers, Zenon DEF StoreNext
<1> QED  BY <1>1, <1>2, <1>3, StoreInvInductive, PTL DEF StoreSpec, ImplementsOutbox, Promise!OutboxSpec

-----------------------------------------------------------------------------
(* The loops of the store                                                  *)

\* One step of the filter of a query.
NextKept(kept, e, wanted) == IF e \in wanted THEN Append(kept, e) ELSE kept

\* kept is that filter, entry by entry.
FilterTable(kept, entries, wanted, X) ==
    /\ kept \in [0 .. Len(entries) -> Seq(X)] /\ kept[0] = <<>>
    /\ filter(entries, wanted) = kept[Len(entries)]
    /\ \A k \in 1 .. Len(entries) : kept[k] = NextKept(kept[k - 1], entries[k], wanted)

\* What the filter leaves is the end of such a run.
LEMMA FilterRuns ==
    ASSUME NEW X, NEW entries \in Seq(X), NEW wanted
    PROVE  \E kept : FilterTable(kept, entries, wanted, X)
<1> DEFINE n == Len(entries)
           D == 1 .. n
           A == Seq(X)
           step == [p \in A \X D |-> NextKept(p[1], entries[p[2]], wanted)]
           Is(h) == h = [s \in SUBSET D |-> IF s = {} THEN <<>>
                                            ELSE NextKept(h[s \ {Top(s)}], entries[Top(s)], wanted)]
           all == CHOOSE h : Is(h)
<1>1. n \in Nat /\ DOMAIN entries = D /\ \A i \in D : entries[i] \in X
  OBVIOUS
<1> HIDE DEF n
<1>2. filter(entries, wanted) = all[D]
  BY <1>1, Zenon DEF filter, FoldLeft, MapThenFoldSet, NextKept, Max, Top
<1>3. <<>> \in A /\ step \in [A \X D -> A]
  <2>1. ASSUME NEW p \in A \X D PROVE NextKept(p[1], entries[p[2]], wanted) \in A
    <3>1. p[1] \in A /\ entries[p[2]] \in X
      BY <1>1, Zenon
    <3> QED
      BY <3>1 DEF NextKept
  <2> QED
    BY <2>1
<1>4. \A a \in A, k \in D : step[<<a, k>>] = NextKept(a, entries[k], wanted)
  <2> HIDE DEF A, D
  <2> QED
    BY Zenon
<1> HIDE DEF step, A
<1>5. \E h : Is(h)
  <2>1. PICK h \in [SUBSET D -> A] :
          /\ IsScan(h, step, <<>>, n)
          /\ \A s \in SUBSET D : s # {} => <<h[s \ {Top(s)}], Top(s)>> \in A \X D
    BY <1>1, <1>3, ScanExists, Zenon
  <2>2. \A s \in SUBSET D : s # {} =>
          step[<<h[s \ {Top(s)}], Top(s)>>] = NextKept(h[s \ {Top(s)}], entries[Top(s)], wanted)
    BY <1>4, <2>1, Zenon
  <2>3. Is(h)
    BY <2>1, <2>2, Zenon DEF IsScan
  <2> QED
    BY <2>3, Zenon
<1>6. Is(all)
  <2> HIDE DEF Is
  <2> QED
    BY <1>5, Zenon
<1> HIDE DEF all
<1>7. all[{}] = <<>> /\ \A s \in SUBSET D : s # {} =>
        all[s] = NextKept(all[s \ {Top(s)}], entries[Top(s)], wanted)
  BY <1>6, Zenon
<1>8. ASSUME NEW s \in SUBSET D, s # {}, all[s \ {Top(s)}] \in A
      PROVE  all[s] = step[<<all[s \ {Top(s)}], Top(s)>>]
  <2>1. Top(s) \in D
    BY <1>1, <1>8, TopOfPrefix, Zenon
  <2>2. step[<<all[s \ {Top(s)}], Top(s)>>] = NextKept(all[s \ {Top(s)}], entries[Top(s)], wanted)
    BY <1>4, <1>8, <2>1, Zenon
  <2> QED
    BY <1>7, <1>8, <2>2, Zenon
<1>9. PICK t \in [0 .. n -> A] : IsRun(t, step, <<>>, n) /\ t[n] = all[D]
  <2>1. ScansFrom(all, step, <<>>, n, A)
    BY <1>7, <1>8, Zenon DEF ScansFrom
  <2>2. n \in Nat
    BY <1>1, Zenon
  <2>3. Runs(step, <<>>, n, A, all[1 .. n])
    BY <1>3, <2>1, <2>2, ScanRuns, Zenon
  <2> QED
    BY <2>3, Zenon DEF Runs
<1>10. \A k \in 1 .. n : t[k - 1] \in A
  BY <1>1, <1>9
<1>11. \A k \in 1 .. n : t[k] = NextKept(t[k - 1], entries[k], wanted)
  BY <1>4, <1>9, <1>10, Zenon DEF IsRun
<1>12. FilterTable(t, entries, wanted, X)
  BY <1>2, <1>9, <1>11, Zenon DEF FilterTable, IsRun, n, A
<1> QED
  BY <1>12, Zenon

\* One step of the loop that stores the summaries of a snapshot.
NextStored(ring, x) == PushBounded(ring, x, summary_capacity)

\* Pushing onto a bounded ring gives a sequence of entries.
LEMMA PushedIsSeq ==
    ASSUME NEW X, NEW ring \in Seq(X), NEW x \in X, NEW c \in Nat \ {0}
    PROVE  PushBounded(ring, x, c) \in Seq(X)
<1>1. Len(ring) >= c => Tail(ring) \in Seq(X)
  OBVIOUS
<1> QED
  BY <1>1, AppendProperties, Zenon DEF PushBounded

\* rings is that loop, summary by summary.
StoredTable(rings, entries) ==
    /\ rings \in [0 .. Len(entries) -> Seq(Item)] /\ rings[0] = summary_ring
    /\ StoreSummaries(entries) = rings[Len(entries)]
    /\ \A k \in 1 .. Len(entries) : rings[k] = NextStored(rings[k - 1], entries[k])

\* What the loop stores is the end of such a run.
LEMMA StoreRuns ==
    ASSUME summary_ring \in Seq(Item), NEW entries \in Seq(Item)
    PROVE  \E rings : StoredTable(rings, entries)
<1> DEFINE n == Len(entries)
           D == 1 .. n
           A == Seq(Item)
           step == [p \in A \X D |-> NextStored(p[1], entries[p[2]])]
           Is(h) == h = [s \in SUBSET D |-> IF s = {} THEN summary_ring
                                            ELSE NextStored(h[s \ {Top(s)}], entries[Top(s)])]
           all == CHOOSE h : Is(h)
<1>1. n \in Nat /\ DOMAIN entries = D /\ \A i \in D : entries[i] \in Item
  OBVIOUS
<1> HIDE DEF n
<1>2. StoreSummaries(entries) = all[D]
  BY <1>1, Zenon DEF StoreSummaries, FoldLeft, MapThenFoldSet, NextStored, Max, Top
<1>3. summary_ring \in A /\ step \in [A \X D -> A]
  <2>1. ASSUME NEW p \in A \X D PROVE NextStored(p[1], entries[p[2]]) \in A
    <3>1. p[1] \in A /\ entries[p[2]] \in Item
      BY <1>1, Zenon
    <3> QED
      BY <3>1, PushedIsSeq, StoreAssumption, Zenon DEF NextStored
  <2> QED
    BY <2>1, Zenon
<1>4. \A a \in A, k \in D : step[<<a, k>>] = NextStored(a, entries[k])
  <2> HIDE DEF A, D
  <2> QED
    BY Zenon
<1> HIDE DEF step, A
<1>5. \E h : Is(h)
  <2>1. PICK h \in [SUBSET D -> A] :
          /\ IsScan(h, step, summary_ring, n)
          /\ \A s \in SUBSET D : s # {} => <<h[s \ {Top(s)}], Top(s)>> \in A \X D
    BY <1>1, <1>3, ScanExists, Zenon
  <2>2. \A s \in SUBSET D : s # {} =>
          step[<<h[s \ {Top(s)}], Top(s)>>] = NextStored(h[s \ {Top(s)}], entries[Top(s)])
    BY <1>4, <2>1, Zenon
  <2>3. Is(h)
    BY <2>1, <2>2, Zenon DEF IsScan
  <2> QED
    BY <2>3, Zenon
<1>6. Is(all)
  <2> HIDE DEF Is
  <2> QED
    BY <1>5, Zenon
<1> HIDE DEF all
<1>7. all[{}] = summary_ring /\ \A s \in SUBSET D : s # {} =>
        all[s] = NextStored(all[s \ {Top(s)}], entries[Top(s)])
  BY <1>6, Zenon
<1>8. ASSUME NEW s \in SUBSET D, s # {}, all[s \ {Top(s)}] \in A
      PROVE  all[s] = step[<<all[s \ {Top(s)}], Top(s)>>]
  <2>1. Top(s) \in D
    BY <1>1, <1>8, TopOfPrefix, Zenon
  <2>2. step[<<all[s \ {Top(s)}], Top(s)>>] = NextStored(all[s \ {Top(s)}], entries[Top(s)])
    BY <1>4, <1>8, <2>1, Zenon
  <2> QED
    BY <1>7, <1>8, <2>2, Zenon
<1>9. PICK t \in [0 .. n -> A] : IsRun(t, step, summary_ring, n) /\ t[n] = all[D]
  <2>1. ScansFrom(all, step, summary_ring, n, A)
    BY <1>7, <1>8, Zenon DEF ScansFrom
  <2>2. n \in Nat
    BY <1>1, Zenon
  <2>3. Runs(step, summary_ring, n, A, all[1 .. n])
    BY <1>3, <2>1, <2>2, ScanRuns, Zenon
  <2> QED
    BY <2>3, Zenon DEF Runs
<1>10. \A k \in 1 .. n : t[k - 1] \in A
  BY <1>1, <1>9
<1>11. \A k \in 1 .. n : t[k] = NextStored(t[k - 1], entries[k])
  BY <1>4, <1>9, <1>10, Zenon DEF IsRun
<1>12. StoredTable(t, entries)
  BY <1>2, <1>9, <1>11, Zenon DEF StoredTable, IsRun, n, A
<1> QED
  BY <1>12, Zenon

\* The summaries of all the snapshots.
Flat(entries) == FoldLeft(LAMBDA all, s : all \o Summaries(s), <<>>, entries)

\* One snapshot more.
NextAll(all, s) == all \o Summaries(s)

\* done is their concatenation, snapshot by snapshot.
AllTable(done, entries) ==
    /\ done \in [0 .. Len(entries) -> Seq(Item)] /\ done[0] = <<>>
    /\ Flat(entries) = done[Len(entries)]
    /\ \A k \in 1 .. Len(entries) : done[k] = NextAll(done[k - 1], entries[k])

\* All summaries are the end of such a run.
LEMMA AllRuns ==
    ASSUME NEW entries \in Seq(Snapshot)
    PROVE  \E done : AllTable(done, entries)
<1> DEFINE n == Len(entries)
           D == 1 .. n
           A == Seq(Item)
           step == [p \in A \X D |-> NextAll(p[1], entries[p[2]])]
           Is(h) == h = [s \in SUBSET D |-> IF s = {} THEN <<>>
                                            ELSE NextAll(h[s \ {Top(s)}], entries[Top(s)])]
           all == CHOOSE h : Is(h)
<1>1. n \in Nat /\ DOMAIN entries = D /\ \A i \in D : entries[i] \in Snapshot
  OBVIOUS
<1> HIDE DEF n
<1>2. Flat(entries) = all[D]
  BY <1>1, Zenon DEF Flat, FoldLeft, MapThenFoldSet, NextAll, Max, Top
<1>3. <<>> \in A /\ step \in [A \X D -> A]
  <2>1. ASSUME NEW p \in A \X D PROVE NextAll(p[1], entries[p[2]]) \in A
    <3>1. p[1] \in A /\ entries[p[2]] \in Snapshot
      BY <1>1, Zenon
    <3>2. Summaries(entries[p[2]]) \in Seq(Item)
      BY <3>1, SummariesIsSeq, Zenon
    <3> QED
      BY <3>1, <3>2, ConcatProperties, Zenon DEF NextAll
  <2> QED
    BY <2>1
<1>4. \A a \in A, k \in D : step[<<a, k>>] = NextAll(a, entries[k])
  <2> HIDE DEF A, D
  <2> QED
    BY Zenon
<1> HIDE DEF step, A
<1>5. \E h : Is(h)
  <2>1. PICK h \in [SUBSET D -> A] :
          /\ IsScan(h, step, <<>>, n)
          /\ \A s \in SUBSET D : s # {} => <<h[s \ {Top(s)}], Top(s)>> \in A \X D
    BY <1>1, <1>3, ScanExists, Zenon
  <2>2. \A s \in SUBSET D : s # {} =>
          step[<<h[s \ {Top(s)}], Top(s)>>] = NextAll(h[s \ {Top(s)}], entries[Top(s)])
    BY <1>4, <2>1, Zenon
  <2>3. Is(h)
    BY <2>1, <2>2, Zenon DEF IsScan
  <2> QED
    BY <2>3, Zenon
<1>6. Is(all)
  <2> HIDE DEF Is
  <2> QED
    BY <1>5, Zenon
<1> HIDE DEF all
<1>7. all[{}] = <<>> /\ \A s \in SUBSET D : s # {} =>
        all[s] = NextAll(all[s \ {Top(s)}], entries[Top(s)])
  BY <1>6, Zenon
<1>8. ASSUME NEW s \in SUBSET D, s # {}, all[s \ {Top(s)}] \in A
      PROVE  all[s] = step[<<all[s \ {Top(s)}], Top(s)>>]
  <2>1. Top(s) \in D
    BY <1>1, <1>8, TopOfPrefix, Zenon
  <2>2. step[<<all[s \ {Top(s)}], Top(s)>>] = NextAll(all[s \ {Top(s)}], entries[Top(s)])
    BY <1>4, <1>8, <2>1, Zenon
  <2> QED
    BY <1>7, <1>8, <2>2, Zenon
<1>9. PICK t \in [0 .. n -> A] : IsRun(t, step, <<>>, n) /\ t[n] = all[D]
  <2>1. ScansFrom(all, step, <<>>, n, A)
    BY <1>7, <1>8, Zenon DEF ScansFrom
  <2>2. n \in Nat
    BY <1>1, Zenon
  <2>3. Runs(step, <<>>, n, A, all[1 .. n])
    BY <1>3, <2>1, <2>2, ScanRuns, Zenon
  <2> QED
    BY <2>3, Zenon DEF Runs
<1>10. \A k \in 1 .. n : t[k - 1] \in A
  BY <1>1, <1>9
<1>11. \A k \in 1 .. n : t[k] = NextAll(t[k - 1], entries[k])
  BY <1>4, <1>9, <1>10, Zenon DEF IsRun
<1>12. AllTable(t, entries)
  BY <1>2, <1>9, <1>11, Zenon DEF AllTable, IsRun, n, A
<1> QED
  BY <1>12, Zenon


-----------------------------------------------------------------------------
(* What they compute                                                       *)

\* One entry more.
LEMMA RangeAppend ==
    ASSUME NEW X, NEW s \in Seq(X), NEW e \in X
    PROVE  Range(Append(s, e)) = Range(s) \cup {e}
<1>1. DOMAIN Append(s, e) = 1 .. Len(s) + 1 /\ DOMAIN s = 1 .. Len(s) /\ Len(s) \in Nat
  OBVIOUS
<1>2. Append(s, e)[Len(s) + 1] = e /\ \A i \in 1 .. Len(s) : Append(s, e)[i] = s[i]
  OBVIOUS
<1>3. ASSUME NEW x \in Range(Append(s, e)) PROVE x \in Range(s) \cup {e}
  <2>1. PICK i \in 1 .. Len(s) + 1 : x = Append(s, e)[i]
    BY <1>1, Zenon DEF Range
  <2>2. i \in 1 .. Len(s) \/ i = Len(s) + 1
    BY <1>1
  <2> QED
    BY <1>1, <1>2, <2>1, <2>2, Zenon DEF Range
<1>4. ASSUME NEW x \in Range(s) PROVE x \in Range(Append(s, e))
  <2>1. PICK i \in 1 .. Len(s) : x = s[i]
    BY <1>1, Zenon DEF Range
  <2>2. i \in 1 .. Len(s) + 1
    BY <1>1
  <2> QED
    BY <1>1, <1>2, <2>1, <2>2, Zenon DEF Range
<1>5. e \in Range(Append(s, e))
  <2>1. Len(s) + 1 \in 1 .. Len(s) + 1
    BY <1>1
  <2> QED
    BY <1>1, <1>2, <2>1, Zenon DEF Range
<1> QED
  BY <1>3, <1>4, <1>5, Zenon

\* A filter leaves exactly the entries wanted.
LEMMA FilterKeeps ==
    ASSUME NEW X, NEW entries \in Seq(X), NEW wanted
    PROVE  Range(filter(entries, wanted)) = {e \in Range(entries) : e \in wanted}
<1> DEFINE n == Len(entries)
<1>0. PICK kept : FilterTable(kept, entries, wanted, X)
  BY FilterRuns, Zenon
<1>1. /\ kept \in [0 .. n -> Seq(X)] /\ kept[0] = <<>> /\ filter(entries, wanted) = kept[n]
      /\ \A k \in 1 .. n : kept[k] = NextKept(kept[k - 1], entries[k], wanted)
  BY <1>0, Zenon DEF FilterTable
<1>2. n \in Nat /\ DOMAIN entries = 1 .. n /\ \A i \in 1 .. n : entries[i] \in X
  OBVIOUS
<1> HIDE DEF n
<1> DEFINE Upto(k) == {e \in {entries[i] : i \in 1 .. k} : e \in wanted}
           Good == {k \in 0 .. n : Range(kept[k]) = Upto(k)}
<1>3. 0 \in Good
  <2>1. Range(<<>>) = {} /\ Upto(0) = {} /\ 0 \in 0 .. n
    BY <1>2 DEF Range
  <2> QED
    BY <1>1, <2>1, Zenon
<1>4. ASSUME NEW k \in 1 .. n, k - 1 \in Good PROVE k \in Good
  <2>0. k \in 0 .. n /\ k - 1 \in 0 .. n
    BY <1>2
  <2>1. kept[k - 1] \in Seq(X) /\ entries[k] \in X /\ k \in 0 .. n /\ k - 1 \in 0 .. n
    BY <1>1, <1>2, <2>0, Zenon
  <2>2. kept[k] = IF entries[k] \in wanted THEN Append(kept[k - 1], entries[k]) ELSE kept[k - 1]
    BY <1>1, Zenon DEF NextKept
  <2>3. Range(kept[k - 1]) = Upto(k - 1)
    BY <1>4, Zenon
  <2>4. 1 .. k = (1 .. (k - 1)) \cup {k}
    BY <1>2
  <2>5. Upto(k) = IF entries[k] \in wanted THEN Upto(k - 1) \cup {entries[k]} ELSE Upto(k - 1)
    BY <2>4, Zenon
  <2> HIDE DEF Upto
  <2>6. CASE entries[k] \in wanted
    <3>1. Range(kept[k]) = Range(kept[k - 1]) \cup {entries[k]}
      BY <2>1, <2>2, <2>6, RangeAppend
    <3> QED
      BY <2>1, <2>3, <2>5, <2>6, <3>1, Zenon
  <2>7. CASE entries[k] \notin wanted
    BY <2>1, <2>2, <2>3, <2>5, <2>7, Zenon
  <2> QED
    BY <2>6, <2>7, Zenon
<1>5. n \in Good
  <2> HIDE DEF Good
  <2>1. \A k \in 0 .. n : k \in Good
    BY <1>2, <1>3, <1>4, NaturalInduction, Zenon
  <2> QED
    BY <1>2, <2>1
<1> QED
  BY <1>1, <1>2, <1>5, Zenon DEF Range

\* One snapshot more adds its summaries at the end.
LEMMA FlatAppend ==
    ASSUME NEW h \in Seq(Snapshot), NEW s \in Snapshot
    PROVE  /\ Flat(h) \in Seq(Item) /\ Flat(<<>>) = <<>>
           /\ Flat(Append(h, s)) = Flat(h) \o Summaries(s)
<1> DEFINE n == Len(h)
           g == Append(h, s)
<1>1. g \in Seq(Snapshot) /\ Len(g) = n + 1 /\ g[n + 1] = s /\ n \in Nat
      /\ \A k \in 1 .. n : g[k] = h[k]
  OBVIOUS
<1> HIDE DEF n, g
<1>2a. PICK a : AllTable(a, h)
  BY AllRuns, Zenon
<1>2. /\ a \in [0 .. n -> Seq(Item)] /\ a[0] = <<>> /\ Flat(h) = a[n]
      /\ \A k \in 1 .. n : a[k] = NextAll(a[k - 1], h[k])
  BY <1>2a, Zenon DEF AllTable, n
<1>3a. PICK b : AllTable(b, g)
  BY <1>1, AllRuns, Zenon
<1>3. /\ b[0] = <<>> /\ Flat(g) = b[n + 1]
      /\ \A k \in 1 .. n + 1 : b[k] = NextAll(b[k - 1], g[k])
  BY <1>1, <1>3a, Zenon DEF AllTable
<1> DEFINE Good == {k \in 0 .. n : a[k] = b[k]}
<1>4. 0 \in Good
  BY <1>1, <1>2, <1>3
<1>5. ASSUME NEW k \in 1 .. n, k - 1 \in Good PROVE k \in Good
  <2>1. k \in 1 .. n + 1 /\ k \in 0 .. n
    BY <1>1
  <2> QED
    BY <1>1, <1>2, <1>3, <1>5, <2>1, Zenon
<1>6. n \in Good
  <2> HIDE DEF Good
  <2>1. \A k \in 0 .. n : k \in Good
    BY <1>1, <1>4, <1>5, NaturalInduction, Zenon
  <2> QED
    BY <1>1, <2>1
<1>7. Flat(g) = Flat(h) \o Summaries(s)
  <2>1. n + 1 \in 1 .. n + 1 /\ (n + 1) - 1 = n
    BY <1>1
  <2>2. b[n + 1] = NextAll(b[n], s)
    BY <1>1, <1>3, <2>1, Zenon
  <2> QED
    BY <1>2, <1>3, <1>6, <2>2, Zenon DEF NextAll
<1>8. Flat(<<>>) = <<>>
  <2>1. PICK d : AllTable(d, <<>>)
    BY AllRuns, EmptySeq, Zenon
  <2> QED
    BY <2>1, EmptySeq, Zenon DEF AllTable
<1>9. n \in 0 .. n
  BY <1>1
<1> QED
  BY <1>2, <1>7, <1>8, <1>9, Zenon DEF g

\* How many entries are older than the newest n.
Skipped(s, n) == IF Len(s) > n THEN Len(s) - n ELSE 0

\* The newest n entries, one by one.
LEMMA NewestIs ==
    ASSUME NEW X, NEW s \in Seq(X), NEW n \in Nat
    PROVE  /\ Newest(s, n) \in Seq(X) /\ Skipped(s, n) \in 0 .. Len(s)
           /\ Len(Newest(s, n)) = Len(s) - Skipped(s, n)
           /\ \A i \in 1 .. Len(s) - Skipped(s, n) : Newest(s, n)[i] = s[i + Skipped(s, n)]
<1> DEFINE m == Skipped(s, n) + 1
<1>1. Skipped(s, n) \in 0 .. Len(s) /\ m \in 1 .. Len(s) + 1 /\ Len(s) \in Nat
  BY DEF Skipped
<1>2. Newest(s, n) = SubSeq(s, m, Len(s))
  BY DEF Newest, Skipped
<1> HIDE DEF m
<1>3. /\ SubSeq(s, m, Len(s)) \in Seq(X) /\ Len(SubSeq(s, m, Len(s))) = Len(s) - m + 1
      /\ \A i \in 1 .. Len(s) - m + 1 : SubSeq(s, m, Len(s))[i] = s[m + i - 1]
  BY <1>1
<1> QED
  BY <1>1, <1>2, <1>3 DEF m

\* Pushing onto a full ring, which drops its oldest entry, leaves the newest
\* entries.
LEMMA PushedIsNewest ==
    ASSUME NEW X, NEW s \in Seq(X), NEW x \in X, NEW c \in Nat \ {0}
    PROVE  PushBounded(Newest(s, c), x, c) = Newest(Append(s, x), c)
<1> DEFINE r == Newest(s, c)
           a == Append(s, x)
           q == Newest(a, c)
           p == PushBounded(r, x, c)
           k == Skipped(s, c)
           l == Skipped(a, c)
<1>1. /\ r \in Seq(X) /\ k \in 0 .. Len(s) /\ Len(r) = Len(s) - k
      /\ \A i \in 1 .. Len(s) - k : r[i] = s[i + k]
  BY NewestIs, Zenon
<1>2. a \in Seq(X) /\ Len(a) = Len(s) + 1 /\ a[Len(s) + 1] = x /\ Len(s) \in Nat
      /\ \A i \in 1 .. Len(s) : a[i] = s[i]
  OBVIOUS
<1> HIDE DEF a
<1>3. /\ q \in Seq(X) /\ l \in 0 .. Len(a) /\ Len(q) = Len(a) - l
      /\ \A i \in 1 .. Len(a) - l : q[i] = a[i + l]
  BY <1>2, NewestIs, Zenon
<1>4. l = IF Len(r) >= c THEN k + 1 ELSE k
  BY <1>1, <1>2 DEF Skipped
<1>5. k = 0 \/ Len(r) = c
  BY <1>1, <1>2 DEF Skipped
<1> HIDE DEF r, q, k, l
<1>6. p \in Seq(X) /\ Len(p) = Len(q) /\ \A i \in 1 .. Len(q) : p[i] = q[i]
  <2>1. CASE Len(r) >= c
    <3>1. /\ Tail(r) \in Seq(X) /\ Len(Tail(r)) = Len(r) - 1
          /\ \A i \in 1 .. Len(r) - 1 : Tail(r)[i] = r[i + 1]
      BY <1>1, <2>1
    <3>2. PICK u \in Seq(X) : u = Tail(r)
      BY <3>1, Zenon
    <3>3. p = Append(u, x)
      BY <2>1, <3>2, Zenon DEF PushBounded
    <3>4. p \in Seq(X) /\ Len(p) = Len(r) /\ p[Len(r)] = x /\ \A i \in 1 .. Len(r) - 1 : p[i] = r[i + 1]
      <4> HIDE DEF p
      <4> QED
        BY <1>1, <3>1, <3>2, <3>3
    <3> HIDE DEF p
    <3>5. Len(q) = Len(r) /\ l = k + 1 /\ Len(r) \in Nat
      BY <1>1, <1>2, <1>3, <1>4, <2>1
    <3>6. ASSUME NEW i \in 1 .. Len(q) PROVE p[i] = q[i]
      <4>1. CASE i = Len(r)
        <5>1. i \in 1 .. Len(a) - l /\ i + l = Len(s) + 1
          BY <1>1, <1>2, <1>3, <3>5, <4>1
        <5> QED
          BY <1>2, <1>3, <3>4, <4>1, <5>1, Zenon
      <4>2. CASE i < Len(r)
        <5>1. i \in 1 .. Len(r) - 1 /\ i + 1 \in 1 .. Len(s) - k /\ (i + 1) + k \in 1 .. Len(s)
              /\ i \in 1 .. Len(a) - l /\ i + l = (i + 1) + k
          BY <1>1, <1>2, <1>3, <3>5, <4>2
        <5>2. p[i] = r[i + 1] /\ r[i + 1] = s[(i + 1) + k]
          BY <1>1, <3>4, <5>1, Zenon
        <5>3. q[i] = a[i + l] /\ a[(i + 1) + k] = s[(i + 1) + k]
          BY <1>2, <1>3, <5>1, Zenon
        <5> QED
          BY <5>1, <5>2, <5>3, Zenon
      <4>3. i = Len(r) \/ i < Len(r)
        BY <3>5
      <4> QED
        BY <4>1, <4>2, <4>3, Zenon
    <3> QED
      BY <3>4, <3>5, <3>6, Zenon
  <2>2. CASE Len(r) < c
    <3>1. k = 0 /\ l = 0
      BY <1>1, <1>4, <1>5, <2>2
    <3>2. p = Append(r, x)
      BY <1>1, <2>2 DEF PushBounded
    <3> HIDE DEF p
    <3>3. p \in Seq(X) /\ Len(p) = Len(s) + 1 /\ p[Len(s) + 1] = x /\ \A i \in 1 .. Len(s) : p[i] = r[i]
      BY <1>1, <1>2, <3>1, <3>2
    <3>4. Len(p) = Len(q)
      BY <1>2, <1>3, <3>1, <3>3
    <3>5. ASSUME NEW i \in 1 .. Len(q) PROVE p[i] = q[i]
      <4>1. i \in 1 .. Len(a) - l /\ i + l = i /\ (i = Len(s) + 1 \/ i \in 1 .. Len(s) - k)
        BY <1>1, <1>2, <1>3, <3>1
      <4>2. q[i] = a[i]
        BY <1>3, <4>1, Zenon
      <4>3. CASE i = Len(s) + 1
        BY <1>2, <3>3, <4>2, <4>3, Zenon
      <4>4. CASE i \in 1 .. Len(s) - k
        <5>1. i \in 1 .. Len(s) /\ i + k = i
          BY <1>2, <3>1, <4>4
        <5> QED
          BY <1>1, <1>2, <3>3, <4>2, <4>4, <5>1, Zenon
      <4> QED
        BY <4>1, <4>3, <4>4, Zenon
    <3> QED
      BY <3>3, <3>4, <3>5, Zenon
  <2> QED
    BY <1>1, <2>1, <2>2
<1> HIDE DEF p
<1>7. p = q
  BY <1>3, <1>6, SeqEqual, Zenon
<1> QED
  BY <1>7, Zenon DEF p, q, r, a

\* So does storing the summaries of a snapshot one after the other, also when
\* there are more of them than the ring can hold.
LEMMA StoredAreNewest ==
    ASSUME NEW all \in Seq(Item), summary_ring = Newest(all, summary_capacity),
           NEW entries \in Seq(Item)
    PROVE  StoreSummaries(entries) = Newest(all \o entries, summary_capacity)
<1> DEFINE n == Len(entries)
           upto(k) == all \o SubSeq(entries, 1, k)
<1>0. summary_capacity \in Nat \ {0}
  BY StoreAssumption, Zenon
<1>1. summary_ring \in Seq(Item)
  BY <1>0, NewestIs, Zenon
<1>2a. PICK rings : StoredTable(rings, entries)
  BY <1>1, StoreRuns, Zenon
<1>2. /\ rings[0] = summary_ring /\ StoreSummaries(entries) = rings[n]
      /\ \A k \in 1 .. n : rings[k] = PushBounded(rings[k - 1], entries[k], summary_capacity)
  BY <1>2a, Zenon DEF StoredTable, NextStored
<1>3. n \in Nat /\ \A k \in 1 .. n : entries[k] \in Item
  OBVIOUS
<1>4. \A k \in 0 .. n : upto(k) \in Seq(Item)
  OBVIOUS
<1>5. \A k \in 1 .. n : upto(k) = Append(upto(k - 1), entries[k])
  <2> SUFFICES ASSUME NEW k \in 1 .. n PROVE upto(k) = Append(upto(k - 1), entries[k])
    BY Zenon
  <2>1. SubSeq(entries, 1, k) = Append(SubSeq(entries, 1, k - 1), entries[k])
    OBVIOUS
  <2>2. SubSeq(entries, 1, k - 1) \in Seq(Item) /\ entries[k] \in Item
    BY <1>3
  <2>3. PICK u \in Seq(Item), e \in Item : u = SubSeq(entries, 1, k - 1) /\ e = entries[k]
    BY <2>2, Zenon
  <2>4. all \o Append(u, e) = Append(all \o u, e)
    OBVIOUS
  <2> QED
    BY <2>1, <2>3, <2>4, Zenon
<1>6. upto(0) = all /\ upto(n) = all \o entries
  OBVIOUS
<1> HIDE DEF upto, n
<1> DEFINE Good == {k \in 0 .. n : rings[k] = Newest(upto(k), summary_capacity)}
<1>7. 0 \in Good
  BY <1>2, <1>3, <1>6
<1>8. ASSUME NEW k \in 1 .. n, k - 1 \in Good PROVE k \in Good
  <2>1. k \in 0 .. n /\ k - 1 \in 0 .. n /\ upto(k - 1) \in Seq(Item)
    BY <1>3, <1>4
  <2>2. PushBounded(Newest(upto(k - 1), summary_capacity), entries[k], summary_capacity)
          = Newest(Append(upto(k - 1), entries[k]), summary_capacity)
    BY <1>0, <1>3, <2>1, PushedIsNewest, Zenon
  <2> QED
    BY <1>2, <1>5, <1>8, <2>1, <2>2, Zenon
<1>9. n \in Good
  <2> HIDE DEF Good
  <2>1. \A k \in 0 .. n : k \in Good
    BY <1>3, <1>7, <1>8, NaturalInduction, Zenon
  <2> QED
    BY <1>3, <2>1
<1> QED
  BY <1>2, <1>6, <1>9, Zenon

\* The entries are in the order of time.
InOrder(s) == \A i, j \in 1 .. Len(s) : i <= j => s[i].time <= s[j].time

\* The newest entries are in order when all are.
LEMMA NewestInOrder ==
    ASSUME NEW X, NEW s \in Seq(X), NEW n \in Nat, InOrder(s)
    PROVE  InOrder(Newest(s, n))
<1> DEFINE r == Newest(s, n)
           k == Skipped(s, n)
<1>0. Len(s) \in Nat
  OBVIOUS
<1>1. /\ r \in Seq(X) /\ k \in 0 .. Len(s) /\ Len(r) = Len(s) - k
      /\ \A i \in 1 .. Len(s) - k : r[i] = s[i + k]
  BY NewestIs, Zenon
<1> HIDE DEF r, k
<1>2. ASSUME NEW i \in 1 .. Len(r), NEW j \in 1 .. Len(r), i <= j
      PROVE  r[i].time <= r[j].time
  <2>1. i + k \in 1 .. Len(s) /\ j + k \in 1 .. Len(s) /\ i + k <= j + k
    BY <1>0, <1>1, <1>2
  <2>2. s[i + k].time <= s[j + k].time
    BY <2>1, Zenon DEF InOrder
  <2>3. r[i] = s[i + k] /\ r[j] = s[j + k]
    BY <1>0, <1>1, Zenon
  <2> QED
    BY <2>2, <2>3, Zenon
<1>3. InOrder(r)
  BY <1>2, Zenon DEF InOrder
<1> QED
  BY <1>3, Zenon DEF r

\* A search from the newest entry that stops at the first one that is too old
\* finds every entry recent enough, when the entries are in order.
LEMMA TakesRecent ==
    ASSUME NEW X, NEW ring \in Seq(X), \A x \in X : x.time \in Nat, InOrder(ring), NEW since \in Nat
    PROVE  /\ take_while(ring, since) \in Seq(X)
           /\ Range(take_while(ring, since)) = {e \in Range(ring) : e.time >= since}
<1> DEFINE newest == Reverse(ring)
           L == Len(ring)
           Stops(n) == /\ \A i \in 1 .. n : newest[i].time >= since
                       /\ n < L => newest[n + 1].time < since
           n == CHOOSE n \in 0 .. L : Stops(n)
<1>0. L \in Nat /\ DOMAIN ring = 1 .. L /\ \A i \in 1 .. L : ring[i] \in X
  OBVIOUS
<1>1. L \in Nat /\ DOMAIN ring = 1 .. L /\ \A i \in 1 .. L : ring[i] \in X /\ ring[i].time \in Nat
  <2> HIDE DEF L
  <2> QED
    BY <1>0, Zenon
<1>2. /\ newest \in Seq(X) /\ Len(newest) = L /\ DOMAIN newest = 1 .. L
      /\ \A i \in 1 .. L : newest[i] = ring[(L - i) + 1]
  <2>1. newest = [i \in 1 .. L |-> ring[(L - i) + 1]]
    BY DEF Reverse
  <2>2. \A i \in 1 .. L : (L - i) + 1 \in 1 .. L
    BY <1>1
  <2>3. newest \in [1 .. L -> X]
    <3>1. \A i \in 1 .. L : ring[(L - i) + 1] \in X
      BY <1>1, <2>2, Zenon
    <3> HIDE DEF newest, L
    <3> QED
      BY <2>1, <3>1, Zenon
  <2>4. newest \in Seq(X) /\ Len(newest) = L
    <3> HIDE DEF newest, L
    <3> QED
      BY <1>1, <2>3, SeqDef, LenProperties
  <2> QED
    BY <2>1, <2>3, <2>4, Zenon
<1> HIDE DEF newest, L
<1>3. \E m \in 0 .. L : Stops(m)
  <2> DEFINE T == {i \in 1 .. L : newest[i].time < since}
  <2>1. \A i \in 1 .. L : newest[i].time \in Nat
    BY <1>1, <1>2
  <2>2. CASE T = {}
    <3>1. Stops(L)
      BY <1>1, <2>1, <2>2
    <3> QED
      BY <1>1, <3>1
  <2>3. CASE T # {}
    <3>1. PICK t \in T : \A u \in T : t <= u
      <4>1. T \in SUBSET Nat
        OBVIOUS
      <4> HIDE DEF T
      <4> QED
        BY <2>3, <4>1, LeastNatural, Zenon
    <3>2. t - 1 \in 0 .. L /\ (t - 1) + 1 = t
      BY <1>1
    <3>3. \A i \in 1 .. (t - 1) : newest[i].time >= since
      BY <1>1, <2>1, <3>1
    <3>4. Stops(t - 1)
      BY <3>1, <3>2, <3>3, Zenon
    <3> QED
      BY <3>2, <3>4, Zenon
  <2> QED
    BY <2>2, <2>3, Zenon
<1>4. n \in 0 .. L /\ Stops(n)
  <2> HIDE DEF Stops
  <2> QED
    BY <1>3, Zenon
<1>5. take_while(ring, since) = SubSeq(newest, 1, n)
  BY Zenon DEF take_while, newest, L
<1> HIDE DEF n
<1>6. /\ SubSeq(newest, 1, n) \in Seq(X) /\ Len(SubSeq(newest, 1, n)) = n
      /\ DOMAIN SubSeq(newest, 1, n) = 1 .. n
      /\ \A i \in 1 .. n : SubSeq(newest, 1, n)[i] = newest[i]
  BY <1>2, <1>4
<1>7. Range(take_while(ring, since)) = {newest[i] : i \in 1 .. n}
  BY <1>5, <1>6, Zenon DEF Range
<1>8. ASSUME NEW i \in 1 .. n
      PROVE  newest[i] \in Range(ring) /\ newest[i].time >= since
  <2>1. i \in 1 .. L /\ (L - i) + 1 \in 1 .. L
    BY <1>1, <1>4
  <2> QED
    BY <1>1, <1>2, <1>4, <2>1, Zenon DEF Range
<1>9. ASSUME NEW e \in Range(ring), e.time >= since
      PROVE  e \in {newest[i] : i \in 1 .. n}
  <2>1. PICK j \in 1 .. L : e = ring[j]
    BY <1>1, Zenon DEF Range
  <2>2. (L - j) + 1 \in 1 .. L /\ newest[(L - j) + 1] = ring[j]
    BY <1>1, <1>2
  <2>3. (L - j) + 1 <= n
    <3> SUFFICES ASSUME (L - j) + 1 > n PROVE FALSE
      BY <1>1, <1>4
    <3>1. n + 1 \in 1 .. L /\ n < L /\ (L - (n + 1)) + 1 \in 1 .. L /\ j <= (L - (n + 1)) + 1
      BY <1>1, <1>4
    <3>2. newest[n + 1].time < since /\ newest[n + 1] = ring[(L - (n + 1)) + 1]
      BY <1>2, <1>4, <3>1, Zenon
    <3>3. ring[j].time <= ring[(L - (n + 1)) + 1].time
      BY <3>1, Zenon DEF InOrder, L
    <3> QED
      BY <1>1, <1>9, <2>1, <3>1, <3>2, <3>3
  <2> QED
    BY <1>4, <2>1, <2>2, <2>3
<1> QED
  BY <1>5, <1>6, <1>7, <1>8, <1>9, Zenon

\* An entry that is not older than the last keeps the order.
LEMMA AppendInOrder ==
    ASSUME NEW X, NEW h \in Seq(X), NEW x \in X, \A y \in X : y.time \in Nat, InOrder(h),
           h # <<>> => Last(h).time <= x.time
    PROVE  InOrder(Append(h, x))
<1> DEFINE g == Append(h, x)
           n == Len(h)
<1>1. n \in Nat /\ Len(g) = n + 1 /\ g[n + 1] = x /\ \A i \in 1 .. n : g[i] = h[i] /\ h[i] \in X
  OBVIOUS
<1>2. \A i \in 1 .. n : h[i].time <= x.time
  <2> SUFFICES ASSUME NEW i \in 1 .. n PROVE h[i].time <= x.time
    BY Zenon
  <2>1. n \in 1 .. n /\ i <= n /\ h # <<>>
    OBVIOUS
  <2>2. h[i].time <= h[n].time /\ h[n].time <= x.time
    BY <2>1, Zenon DEF InOrder, Last
  <2>3. h[i].time \in Nat /\ h[n].time \in Nat /\ x.time \in Nat
    BY <1>1, <2>1, Zenon
  <2> QED
    BY <2>2, <2>3
<1>3. ASSUME NEW i \in 1 .. n + 1, NEW j \in 1 .. n + 1, i <= j PROVE g[i].time <= g[j].time
  <2>1. CASE j \in 1 .. n
    <3>1. i \in 1 .. n
      BY <1>3, <2>1
    <3>2. h[i].time <= h[j].time
      BY <1>3, <2>1, <3>1, Zenon DEF InOrder
    <3> QED
      BY <1>1, <2>1, <3>1, <3>2, Zenon
  <2>2. CASE j = n + 1
    <3>1. CASE i \in 1 .. n
      BY <1>1, <1>2, <2>2, <3>1, Zenon
    <3>2. CASE i = n + 1
      BY <1>1, <2>2, <3>2
    <3> QED
      BY <1>1, <3>1, <3>2
  <2> QED
    BY <1>1, <2>1, <2>2
<1> QED
  BY <1>1, <1>3, Zenon DEF InOrder

\* The summaries of a new snapshot keep the order.
LEMMA SummariesInOrder ==
    ASSUME NEW all \in Seq(Item), InOrder(all), NEW s \in Snapshot,
           \A i \in 1 .. Len(all) : all[i].time <= s.time
    PROVE  LET both == all \o Summaries(s) IN
           /\ both \in Seq(Item) /\ InOrder(both)
           /\ \A i \in 1 .. Len(both) : both[i].time <= s.time
<1> DEFINE new == Summaries(s)
           n == Len(all)
           m == Len(new)
           both == all \o new
<1>1. new \in Seq(Item)
  BY SummariesIsSeq, Zenon
<1>2. \A i \in 1 .. m : new[i].time = s.time
  <2>1. DOMAIN new = DOMAIN s.pods
    BY Zenon DEF Summaries
  <2>2. DOMAIN new = 1 .. m
    <3> HIDE DEF new
    <3> QED
      BY <1>1
  <2> QED
    BY <2>1, <2>2, Zenon DEF Summaries
<1>3. s.time \in Nat
  BY Zenon DEF Snapshot
<1> HIDE DEF new
<1>4. /\ both \in Seq(Item) /\ Len(both) = n + m /\ n \in Nat /\ m \in Nat
      /\ \A i \in 1 .. n : both[i] = all[i]
  BY <1>1
<1>5. \A i \in 1 .. m : both[n + i] = new[i]
  BY <1>1
<1>6. \A i \in 1 .. n : all[i].time \in Nat
  <2>1. \A i \in 1 .. n : all[i] \in Item
    OBVIOUS
  <2> HIDE DEF n
  <2> QED
    BY <2>1, Zenon DEF Item
<1> HIDE DEF n, m, both
<1>7. ASSUME NEW i \in 1 .. n + m, i \notin 1 .. n PROVE both[i].time = s.time
  <2>1. i - n \in 1 .. m /\ n + (i - n) = i
    BY <1>4, <1>7
  <2> QED
    BY <1>2, <1>5, <2>1, Zenon
<1>8. \A i \in 1 .. n : both[i].time <= s.time /\ both[i].time \in Nat
  BY <1>4, <1>6, Zenon DEF n
<1>9. \A i \in 1 .. n + m : both[i].time <= s.time /\ both[i].time \in Nat
  BY <1>3, <1>7, <1>8
<1>10. ASSUME NEW i \in 1 .. n + m, NEW j \in 1 .. n + m, i <= j
       PROVE  both[i].time <= both[j].time
  <2>1. CASE j \in 1 .. n
    <3>1. i \in 1 .. n
      BY <1>4, <1>10, <2>1
    <3>2. all[i].time <= all[j].time
      BY <1>10, <2>1, <3>1, Zenon DEF InOrder, n
    <3> QED
      BY <1>4, <2>1, <3>1, <3>2, Zenon
  <2>2. CASE j \notin 1 .. n
    BY <1>7, <1>9, <2>2, Zenon
  <2> QED
    BY <2>1, <2>2, Zenon
<1> QED
  BY <1>4, <1>9, <1>10, Zenon DEF InOrder, both, new

-----------------------------------------------------------------------------
(* The rings and the queries                                               *)

\* The inductive invariant behind StoreComplete: everything pushed is in the
\* order of time, and the rings hold the newest of it.
RingsInv ==
    /\ StoreInv
    /\ InOrder(history) /\ InOrder(Flat(history))
    /\ \A i \in 1 .. Len(Flat(history)) : history # <<>> /\ Flat(history)[i].time <= Last(history).time
    /\ detail_ring = Newest(history, detail_capacity)
    /\ summary_ring = Newest(Flat(history), summary_capacity)

\* The summaries of the history are those the property speaks of.
LEMMA FlatIsAll == AllSummaries = Flat(history)
BY Zenon DEF AllSummaries, Flat

\* A push keeps the invariant.
LEMMA PushKeepsRings ==
    ASSUME RingsInv, Push
    PROVE  RingsInv'
<1>1. PICK pods \in PodLists, later \in {0, 1} :
        push([time |-> (IF history = <<>> THEN 0 ELSE Last(history).time) + later, pods |-> pods])
  BY Zenon DEF Push
<1> DEFINE s == [time |-> (IF history = <<>> THEN 0 ELSE Last(history).time) + later, pods |-> pods]
           all == Flat(history)
           c == detail_capacity
<1>2. StoreInv /\ history \in Seq(Snapshot)
  BY Zenon DEF RingsInv, StoreInv
<1>3. s \in Snapshot
  BY <1>2, PushedIsSnapshot, Zenon
<1>4. history # <<>> => Last(history).time \in Nat /\ Last(history).time <= s.time
  <2>1. history # <<>> => Last(history) \in Snapshot
    BY <1>2 DEF Last
  <2> QED
    BY <2>1 DEF Snapshot
<1>5. /\ detail_ring' = PushBounded(detail_ring, s, c)
      /\ summary_ring' = StoreSummaries(Summaries(s))
      /\ history' = Append(history, s)
  BY <1>1, Zenon DEF push
<1> HIDE DEF s
<1>6. StoreInv'
  BY <1>2, StoreInvInductive, Zenon DEF StoreNext
<1>7. /\ all \in Seq(Item) /\ Flat(history') = all \o Summaries(s)
      /\ Summaries(s) \in Seq(Item)
  BY <1>2, <1>3, <1>5, FlatAppend, SummariesIsSeq, Zenon
<1>8. \A y \in Snapshot : y.time \in Nat
  BY Zenon DEF Snapshot
<1>9. InOrder(history')
  BY <1>2, <1>3, <1>4, <1>5, <1>8, AppendInOrder, Zenon DEF RingsInv
<1>10. history' # <<>> /\ Last(history') = s
  BY <1>2, <1>3, <1>5 DEF Last
<1>11. \A i \in 1 .. Len(all) : all[i].time <= s.time
  <2> SUFFICES ASSUME NEW i \in 1 .. Len(all) PROVE all[i].time <= s.time
    BY Zenon
  <2>1. history # <<>> /\ all[i].time <= Last(history).time
    BY Zenon DEF RingsInv
  <2>2. all[i].time \in Nat
    <3>1. all[i] \in Item
      <4> HIDE DEF all
      <4> QED
        BY <1>7
    <3> QED
      BY <3>1, Zenon DEF Item
  <2> QED
    BY <1>3, <1>4, <1>8, <2>1, <2>2
<1>12. InOrder(all)
  BY Zenon DEF RingsInv
<1>13. detail_ring' = Newest(history', c)
  BY <1>2, <1>3, <1>5, PushedIsNewest, StoreAssumption, Zenon DEF RingsInv
<1>14. summary_ring' = Newest(Flat(history'), summary_capacity)
  <2>1. summary_ring = Newest(all, summary_capacity)
    BY Zenon DEF RingsInv
  <2> HIDE DEF all
  <2> QED
    BY <1>5, <1>7, <2>1, StoredAreNewest, Zenon
<1> HIDE DEF all
<1>15. LET both == all \o Summaries(s) IN
       InOrder(both) /\ \A i \in 1 .. Len(both) : both[i].time <= s.time
  BY <1>3, <1>7, <1>11, <1>12, SummariesInOrder, Zenon
<1> QED
  BY <1>6, <1>7, <1>9, <1>10, <1>13, <1>14, <1>15, Zenon DEF RingsInv

\* RingsInv holds in every state.
LEMMA RingsInvHolds == StoreSpec => []RingsInv
<1>1. StoreInit => RingsInv
  <2> SUFFICES ASSUME StoreInit PROVE RingsInv
    BY Zenon
  <2>1. StoreInv
    BY EmptySeq, Zenon DEF StoreInit, StoreInv
  <2>2. Flat(history) = <<>> /\ history = <<>> /\ detail_ring = <<>> /\ summary_ring = <<>>
    <3>1. Flat(<<>>) = <<>>
      <4>1. [time |-> 0, pods |-> <<>>] \in Snapshot
        BY DEF Snapshot
      <4> QED
        BY <4>1, EmptySeq, FlatAppend, Zenon
    <3> QED
      BY <3>1, Zenon DEF StoreInit
  <2>3. \A n \in Nat : Newest(<<>>, n) = <<>>
    BY DEF Newest
  <2>4. InOrder(<<>>) /\ Len(<<>>) = 0
    BY DEF InOrder
  <2> QED
    BY <2>1, <2>2, <2>3, <2>4, StoreAssumption DEF RingsInv
<1>2. RingsInv /\ [StoreNext]_storeVars => RingsInv'
  <2> SUFFICES ASSUME RingsInv, [StoreNext]_storeVars PROVE RingsInv'
    BY Zenon
  <2>1. StoreInv'
    BY StoreInvInductive, Zenon DEF RingsInv
  <2>2. CASE Push
    BY <2>2, PushKeepsRings, Zenon
  <2>3. CASE UNCHANGED <<detail_ring, summary_ring, history>>
    BY <2>1, <2>3, Zenon DEF RingsInv
  <2> QED
    BY <2>2, <2>3, Zenon DEF StoreNext, drain_outbox, SendFails, AnswerLost, SendSucceeds, storeVars
<1> QED
  BY <1>1, <1>2, PTL DEF StoreSpec

\* The rings hold the newest entries.
LEMMA RingsNewest ==
    ASSUME RingsInv
    PROVE  RingsHoldNewest
<1> DEFINE c == detail_capacity
<1>1. history \in Seq(Snapshot) /\ c \in Nat \ {0} /\ detail_ring = Newest(history, c)
  BY StoreAssumption, Zenon DEF RingsInv, StoreInv
<1>2. /\ detail_ring \in Seq(Snapshot) /\ Skipped(history, c) \in 0 .. Len(history)
      /\ Len(detail_ring) = Len(history) - Skipped(history, c)
      /\ \A i \in 1 .. Len(history) - Skipped(history, c) : detail_ring[i] = history[i + Skipped(history, c)]
  BY <1>1, NewestIs, Zenon
<1>3. latest = IF history = <<>> THEN {} ELSE {Last(history)}
  <2>1. CASE history = <<>>
    <3>1. Len(detail_ring) = 0
      BY <1>1, <1>2, <2>1
    <3>2. detail_ring = <<>>
      BY <1>2, <3>1
    <3> QED
      BY <2>1, <3>2, Zenon DEF latest
  <2>2. CASE history # <<>>
    <3>1. Len(history) \in Nat \ {0}
      BY <1>1, <2>2
    <3>2. Skipped(history, c) < Len(history) /\ Len(detail_ring) \in 1 .. Len(history) - Skipped(history, c)
      BY <1>1, <1>2, <3>1 DEF Skipped
    <3>3. detail_ring[Len(detail_ring)] = history[Len(history)]
      BY <1>2, <3>1, <3>2
    <3>4. detail_ring # <<>>
      BY <3>2
    <3> QED
      BY <2>2, <3>3, <3>4, Zenon DEF latest, Last
  <2> QED
    BY <2>1, <2>2, Zenon
<1> QED
  BY <1>3, FlatIsAll, Zenon DEF RingsInv, RingsHoldNewest

\* The queries find every entry they should.
LEMMA QueriesAreComplete ==
    ASSUME RingsInv
    PROVE  QueriesComplete
<1>1. /\ history \in Seq(Snapshot) /\ Flat(history) \in Seq(Item)
      /\ detail_capacity \in Nat /\ summary_capacity \in Nat
  <2>1. history \in Seq(Snapshot) /\ [time |-> 0, pods |-> <<>>] \in Snapshot
    BY DEF RingsInv, StoreInv, Snapshot
  <2> QED
    BY <2>1, FlatAppend, StoreAssumption, Zenon
<1>2. /\ detail_ring \in Seq(Snapshot) /\ InOrder(detail_ring)
      /\ summary_ring \in Seq(Item) /\ InOrder(summary_ring)
  BY <1>1, NewestIs, NewestInOrder, Zenon DEF RingsInv
<1>3. (\A x \in Snapshot : x.time \in Nat) /\ \A x \in Item : x.time \in Nat
  BY Zenon DEF Snapshot, Item
<1> SUFFICES ASSUME NEW since \in 0 .. MaxPushes
             PROVE  /\ \A ns \in {Namespace[p] : p \in Pod} :
                          Range(query_namespace_pods(ns, since)) =
                            {s \in Range(summary_ring) : s.time >= since /\ Namespace[s.pod] = ns}
                    /\ \A p \in Pod :
                          Range(query_pod_processes(p, since)) =
                            {s \in Range(detail_ring) : s.time >= since /\ p \in Range(s.pods)}
  BY Zenon DEF QueriesComplete
<1>4. since \in Nat
  BY StoreAssumption
<1>5. ASSUME NEW ns
      PROVE  Range(query_namespace_pods(ns, since)) =
               {s \in Range(summary_ring) : s.time >= since /\ Namespace[s.pod] = ns}
  <2> DEFINE within == take_while(summary_ring, since)
             wanted == OfNamespace(ns)
  <2>1. within \in Seq(Item) /\ Range(within) = {e \in Range(summary_ring) : e.time >= since}
    BY <1>2, <1>3, <1>4, TakesRecent, Zenon
  <2>2. query_namespace_pods(ns, since) = filter(within, wanted)
    BY Zenon DEF query_namespace_pods
  <2> HIDE DEF within, wanted
  <2>3. Range(filter(within, wanted)) = {e \in Range(within) : e \in wanted}
    BY <2>1, FilterKeeps, Zenon
  <2> QED
    BY <2>1, <2>2, <2>3, Zenon DEF wanted, OfNamespace
<1>6. ASSUME NEW p
      PROVE  Range(query_pod_processes(p, since)) =
               {s \in Range(detail_ring) : s.time >= since /\ p \in Range(s.pods)}
  <2> DEFINE within == take_while(detail_ring, since)
             wanted == {s \in Range(detail_ring) : \E i \in DOMAIN s.pods : s.pods[i] = p}
  <2>1. within \in Seq(Snapshot) /\ Range(within) = {e \in Range(detail_ring) : e.time >= since}
    BY <1>2, <1>3, <1>4, TakesRecent
  <2>2. query_pod_processes(p, since) = filter(within, wanted)
    BY Zenon DEF query_pod_processes
  <2>3. wanted = {s \in Range(detail_ring) : p \in Range(s.pods)}
    BY Zenon DEF Range
  <2> HIDE DEF within, wanted
  <2>4. Range(filter(within, wanted)) = {e \in Range(within) : e \in wanted}
    BY <2>1, FilterKeeps, Zenon
  <2> QED
    BY <2>1, <2>2, <2>3, <2>4, Zenon
<1> QED
  BY <1>5, <1>6, Zenon

\* For every capacity and every sequence of pushes, whatever the sender does
\* meanwhile, the rings of LocalStore (keck-agent/src/store/mod.rs) hold the
\* newest entries pushed, and a query that stops at the first entry older than
\* the cutoff misses none.
THEOREM StoreCompleteHolds == StoreSpec => []StoreComplete
<1>1. RingsInv => StoreComplete
  BY RingsNewest, QueriesAreComplete, Zenon DEF StoreComplete
<1> QED
  BY <1>1, RingsInvHolds, PTL
=============================================================================
