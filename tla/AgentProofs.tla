----------------------------- MODULE AgentProofs ----------------------------
(***************************************************************************)
(* Whom the agent takes its pods for and what its engine attributes to them,*)
(* for any number of pods, ReplicaSets, sockets, cores and processes, any  *)
(* observations, outages and restarts.                                     *)
(***************************************************************************)
EXTENDS Agent, Attribution, FoldProofs

-----------------------------------------------------------------------------
(* The caches                                                              *)

\* What the caches are in the middle of a refresh, too: the part of the listing
\* that is resolved, each pod under the cached workload of its ReplicaSet, which
\* is the true one unless its lookup failed.
CacheInv ==
    /\ todo \subseteq listed /\ listed \subseteq PodUid /\ placed \subseteq PodUid
    /\ DOMAIN pod_cache = IF pc = "resolve" THEN listed \ todo ELSE listed
    /\ \A u \in DOMAIN pod_cache : OwnerOf[u] \in Replica =>
          OwnerOf[u] \in DOMAIN owner_cache /\ pod_cache[u] = owner_cache[OwnerOf[u]]
    /\ \A r \in DOMAIN owner_cache :
          TopOf[r] # None /\ r \notin failed => owner_cache[r] = TopOf[r]

\* One pod of a listing is filed under the cached workload of its ReplicaSet,
\* and what was cached before stays (resolve_owner).
LEMMA ResolveKeeps ==
    ASSUME CacheInv, NEW u \in PodUid, resolve_owner(u)
    PROVE  /\ CacheInv'
           /\ \A r \in DOMAIN owner_cache :
                 r \in DOMAIN owner_cache' /\ owner_cache'[r] = owner_cache[r]
<1> DEFINE o == OwnerOf[u]
<1>1. /\ pc = "resolve" /\ u \in todo /\ todo' = todo \ {u}
      /\ UNCHANGED <<pc, listed, placed>>
  BY Zenon DEF resolve_owner, env
<1>2. o \in Replica => o # None
  BY AgentAssumption, Zenon
<1>3. /\ DOMAIN pod_cache' = DOMAIN pod_cache \cup {u}
      /\ \A v \in DOMAIN pod_cache \ {u} : pod_cache'[v] = pod_cache[v]
      /\ o # None => pod_cache'[u] = Get(owner_cache', o, o)
  BY Zenon DEF resolve_owner, Put
<1>4. CASE NeedsLookup(o)
  <2>1. o \in Replica /\ o \notin DOMAIN owner_cache
    BY <1>4, Zenon DEF NeedsLookup
  <2>2. /\ DOMAIN owner_cache' = DOMAIN owner_cache \cup {o}
        /\ \A r \in DOMAIN owner_cache : owner_cache'[r] = owner_cache[r]
        /\ resolve_intermediate_owner(o) # {} => owner_cache'[o] = TopOf[o]
        /\ failed' = IF resolve_intermediate_owner(o) = {} THEN failed \cup {o} ELSE failed
    BY <1>4, <2>1, Zenon DEF resolve_owner, CacheOwner, Put
  <2>3. pod_cache'[u] = owner_cache'[o]
    BY <1>2, <1>3, <2>1, <2>2, Zenon DEF Get
  <2> QED
    BY <1>1, <1>3, <2>1, <2>2, <2>3, Zenon DEF CacheInv
<1>5. CASE ~NeedsLookup(o)
  <2>1. owner_cache' = owner_cache /\ failed' = failed
    BY <1>5, Zenon DEF resolve_owner
  <2>2. o \in Replica => o \in DOMAIN owner_cache /\ pod_cache'[u] = owner_cache'[o]
    BY <1>2, <1>3, <1>5, <2>1, Zenon DEF NeedsLookup, Get
  <2> QED
    BY <1>1, <1>3, <2>1, <2>2, Zenon DEF CacheInv
<1> QED
  BY <1>4, <1>5, Zenon

\* At the start the caches are empty.
LEMMA CacheInit == AgentInit => CacheInv
BY Zenon DEF AgentInit, CacheInv, EmptyMap

\* Every step of the agent and of its surroundings keeps the caches as described.
LEMMA CacheNext == CacheInv /\ [AgentNext]_agentVars => CacheInv'
<1> SUFFICES ASSUME CacheInv, [AgentNext]_agentVars PROVE CacheInv'
  BY Zenon
<1>1. CASE UNCHANGED agentVars
  BY <1>1, Zenon DEF CacheInv, agentVars, env, k8s
<1>2. CASE Outage
  BY <1>2, Zenon DEF CacheInv, Outage, k8s
<1>3. CASE PodsChange
  BY <1>3, Zenon DEF CacheInv, PodsChange, k8s
<1>4. CASE Restart
  BY <1>4, Zenon DEF CacheInv, Restart, Fresh, EmptyMap, env
<1>5. CASE Connect \/ ConnectFails
  BY <1>5, Zenon DEF CacheInv, Connect, ConnectFails, env, k8s
<1>6. CASE ListFails
  BY <1>6, Zenon DEF CacheInv, ListFails, Refreshed, env
<1>7. CASE List
  BY <1>7, Zenon DEF CacheInv, List, EmptyMap, env
<1>8. CASE \E u \in PodUid : resolve_owner(u)
  BY <1>8, ResolveKeeps, Zenon
<1>9. CASE RefreshDone
  BY <1>9, Zenon DEF CacheInv, RefreshDone, Refreshed, env
<1>10. CASE Sleep
  BY <1>10, Zenon DEF CacheInv, Sleep, env
<1>11. CASE ReportAccepted \/ ReportUnanswered \/ ReportFails
  BY <1>11, Zenon DEF CacheInv, ReportAccepted, ReportUnanswered, ReportFails, env, k8s
<1> QED
  BY <1>1, <1>2, <1>3, <1>4, <1>5, <1>6, <1>7, <1>8, <1>9, <1>10, <1>11, Zenon DEF AgentNext, Main

\* CacheInv holds in every state of the agent.
LEMMA CacheInvariant == AgentSpec => []CacheInv
BY CacheInit, CacheNext, PTL DEF AgentSpec

\* A failed listing never empties the pod cache and never mixes two listings.
THEOREM CacheIsAListingHolds == AgentSpec => []CacheIsAListing
<1>1. CacheInv => CacheIsAListing
  BY Zenon DEF CacheInv, CacheIsAListing
<1> QED
  BY <1>1, CacheInvariant, PTL

\* Pods of one ReplicaSet always have the same workload, whatever happens
\* between their lookups.
THEOREM SameOwnerSameWorkloadHolds == AgentSpec => []SameOwnerSameWorkload
<1>1. CacheInv => SameOwnerSameWorkload
  BY Zenon DEF CacheInv, SameOwnerSameWorkload
<1> QED
  BY <1>1, CacheInvariant, PTL

\* Only a failed lookup of its own ReplicaSet files a pod under a wrong workload.
THEOREM WrongOnlyAfterFailureHolds == AgentSpec => []WrongOnlyAfterFailure
<1>1. CacheInv => WrongOnlyAfterFailure
  BY Zenon DEF CacheInv, WrongOnlyAfterFailure
<1> QED
  BY <1>1, CacheInvariant, PTL

\* The workload of a ReplicaSet does not change while the process lives.
THEOREM OwnerNeverFlipsHolds == AgentSpec => OwnerNeverFlips
<1> DEFINE Keeps == pc' # "connect" => \A r \in DOMAIN owner_cache :
                       r \in DOMAIN owner_cache' /\ owner_cache'[r] = owner_cache[r]
<1>1. CacheInv /\ [AgentNext]_agentVars => [Keeps]_agentVars
  <2> SUFFICES ASSUME CacheInv, AgentNext PROVE Keeps
    BY Zenon
  <2>1. CASE \E u \in PodUid : resolve_owner(u)
    BY <2>1, ResolveKeeps, Zenon
  <2>2. CASE Restart
    BY <2>2, Zenon DEF Restart, Fresh
  <2>3. ASSUME AgentNext, ~Restart, ~\E u \in PodUid : resolve_owner(u)
        PROVE  owner_cache' = owner_cache
    BY <2>3, Zenon DEF AgentNext, Main, Outage, PodsChange, Connect, ConnectFails, ListFails, List,
                RefreshDone, Sleep, ReportAccepted, ReportUnanswered, ReportFails, k8s
  <2> QED
    BY <2>1, <2>2, <2>3, Zenon
<1> QED
  BY <1>1, CacheInvariant, PTL DEF AgentSpec, OwnerNeverFlips

-----------------------------------------------------------------------------
(* Attribution: the levels of enrich                                       *)

\* Powers of finitely many processes, containers, pods or namespaces.
IsPower(items) ==
    /\ IsFiniteSet(DOMAIN items)
    /\ \A k \in DOMAIN items : items[k].cpu \in Nat /\ items[k].memory \in Nat

\* Sums of naturals per group are naturals and add up.
LEMMA FibresAddUp ==
    ASSUME NEW S, IsFiniteSet(S), NEW f, \A k \in S : f[k] \in Nat, NEW key,
           NEW G, IsFiniteSet(G), \A k \in S : key[k] \in G,
           NEW h, \A g \in G : h[g] = SumFunctionOnSet(f, Fibre(S, key, g))
    PROVE  /\ \A g \in G : h[g] \in Nat
           /\ SumFunctionOnSet(h, G) = SumFunctionOnSet(f, S)
<1>1. ASSUME NEW g \in G
      PROVE  h[g] \in Nat
  <2>1. Fibre(S, key, g) \in SUBSET S
    BY Zenon DEF Fibre
  <2>2. IsFiniteSet(Fibre(S, key, g)) /\ \A k \in Fibre(S, key, g) : f[k] \in Nat
    BY <2>1, FS_Subset, Zenon
  <2> QED
    BY <2>2, SumType, Zenon
<1>2. \A k \in S : f[k] \in Int /\ key[k] \in G
  OBVIOUS
<1> QED
  BY <1>1, <1>2, SumGroups

\* The levels of enrich keep the power of what they group.
LEMMA RegroupAddsUp ==
    ASSUME NEW items, IsPower(items), NEW group
    PROVE  LET keys == DOMAIN items \cap DOMAIN group
               groups == Regroup(items, group)
           IN  /\ IsPower(groups)
               /\ DOMAIN groups = {group[k] : k \in keys}
               /\ aggregate_power(groups, DOMAIN groups) = aggregate_power(items, keys)
<1> DEFINE keys == DOMAIN items \cap DOMAIN group
           G == {group[k] : k \in keys}
           groups == Regroup(items, group)
           cpu == [k \in keys |-> items[k].cpu]
           memory == [k \in keys |-> items[k].memory]
           gcpu == [g \in G |-> groups[g].cpu]
           gmemory == [g \in G |-> groups[g].memory]
<1>1. DOMAIN groups = G
  BY Zenon DEF Regroup
<1>2. IsFiniteSet(keys) /\ \A k \in keys : items[k].cpu \in Nat /\ items[k].memory \in Nat
  BY FS_Subset, Zenon DEF IsPower
<1>3. ASSUME NEW g \in G
      PROVE  /\ gcpu[g] = SumFunctionOnSet(cpu, Fibre(keys, group, g))
             /\ gmemory[g] = SumFunctionOnSet(memory, Fibre(keys, group, g))
  <2> DEFINE F == Fibre(keys, group, g)
             fcpu == [k \in F |-> items[k].cpu]
             fmemory == [k \in F |-> items[k].memory]
  <2>1. /\ groups[g].cpu = SumFunctionOnSet(fcpu, F)
        /\ groups[g].memory = SumFunctionOnSet(fmemory, F)
    BY Zenon DEF Regroup, aggregate_power, Fibre, All, Sum
  <2>2. F \in SUBSET keys
    BY Zenon DEF Fibre
  <2>3. IsFiniteSet(F)
    BY <1>2, <2>2, FS_Subset, Zenon
  <2>4. \A k \in F : fcpu[k] = cpu[k] /\ fmemory[k] = memory[k]
    BY <2>2, Zenon
  <2>5. gcpu[g] = groups[g].cpu /\ gmemory[g] = groups[g].memory
    BY Zenon
  <2> HIDE DEF keys, groups, cpu, memory, gcpu, gmemory, F, fcpu, fmemory
  <2>6. SumFunctionOnSet(fcpu, F) = SumFunctionOnSet(cpu, F)
    BY <2>3, <2>4, SumCongruent, Zenon
  <2>7. SumFunctionOnSet(fmemory, F) = SumFunctionOnSet(memory, F)
    BY <2>3, <2>4, SumCongruent, Zenon
  <2> QED
    BY <2>1, <2>5, <2>6, <2>7, Zenon DEF F
<1>4. IsFiniteSet(G) /\ \A k \in keys : group[k] \in G
  BY <1>2, ImageFinite, Zenon
<1>5. \A k \in keys : cpu[k] \in Nat /\ memory[k] \in Nat
  BY <1>2, Zenon
<1> HIDE DEF keys, groups, G
<1>6. /\ \A g \in G : gcpu[g] \in Nat
      /\ Sum(gcpu, G) = Sum(cpu, keys)
  <2> HIDE DEF cpu, gcpu, memory, gmemory
  <2>1. IsFiniteSet(keys) /\ \A k \in keys : cpu[k] \in Nat
    BY <1>2, <1>5, Zenon
  <2>2. \A g \in G : gcpu[g] = SumFunctionOnSet(cpu, Fibre(keys, group, g))
    BY <1>3, Zenon
  <2>3. /\ \A g \in G : gcpu[g] \in Nat
        /\ SumFunctionOnSet(gcpu, G) = SumFunctionOnSet(cpu, keys)
    BY <1>4, <2>1, <2>2, FibresAddUp
  <2> QED
    BY <2>3, Zenon DEF Sum
<1>7. /\ \A g \in G : gmemory[g] \in Nat
      /\ Sum(gmemory, G) = Sum(memory, keys)
  <2> HIDE DEF cpu, gcpu, memory, gmemory
  <2>1. IsFiniteSet(keys) /\ \A k \in keys : memory[k] \in Nat
    BY <1>2, <1>5, Zenon
  <2>2. \A g \in G : gmemory[g] = SumFunctionOnSet(memory, Fibre(keys, group, g))
    BY <1>3, Zenon
  <2>3. /\ \A g \in G : gmemory[g] \in Nat
        /\ SumFunctionOnSet(gmemory, G) = SumFunctionOnSet(memory, keys)
    BY <1>4, <2>1, <2>2, FibresAddUp
  <2> QED
    BY <2>3, Zenon DEF Sum
<1>8. IsPower(groups)
  BY <1>1, <1>4, <1>6, <1>7, Zenon DEF IsPower
<1>9. /\ aggregate_power(groups, G) = [cpu |-> Sum(gcpu, G), memory |-> Sum(gmemory, G)]
      /\ aggregate_power(items, keys) = [cpu |-> Sum(cpu, keys), memory |-> Sum(memory, keys)]
  BY Zenon DEF aggregate_power, All
<1> HIDE DEF G, cpu, memory, gcpu, gmemory
<1> QED
  BY <1>1, <1>6, <1>7, <1>8, <1>9, Zenon DEF G, groups, keys

\* What is grouped and what is left add up to the whole.
LEMMA SplitAddsUp ==
    ASSUME NEW items, IsPower(items), NEW T
    PROVE  LET rest == Restrict(items, DOMAIN items \ T)
               own == aggregate_power(rest, DOMAIN rest)
               all == aggregate_power(items, DOMAIN items \cap T)
           IN  /\ IsPower(rest)
               /\ aggregate_power(items, DOMAIN items)
                    = [cpu |-> own.cpu + all.cpu, memory |-> own.memory + all.memory]
<1> DEFINE D == DOMAIN items
           A == D \ T
           B == D \cap T
           rest == Restrict(items, A)
           cpu == [k \in D |-> items[k].cpu]
           memory == [k \in D |-> items[k].memory]
<1>1. IsFiniteSet(D) /\ \A k \in D : cpu[k] \in Nat /\ memory[k] \in Nat
  BY Zenon DEF IsPower
<1>2. A \in SUBSET D /\ B \in SUBSET D /\ A \cap B = {} /\ A \cup B = D
  BY Zenon
<1>3. IsFiniteSet(A) /\ IsFiniteSet(B)
  <2> HIDE DEF A, B, D
  <2> QED
    BY <1>1, <1>2, FS_Subset, Zenon
<1>4. DOMAIN rest = A /\ \A k \in A : rest[k] = items[k]
  BY Zenon DEF Restrict
<1>5. IsPower(rest)
  BY <1>3, <1>4, Zenon DEF IsPower
<1>6. ASSUME NEW S \in SUBSET D, IsFiniteSet(S), NEW it, \A k \in S : it[k] = items[k]
      PROVE  aggregate_power(it, S)
               = [cpu |-> SumFunctionOnSet(cpu, S), memory |-> SumFunctionOnSet(memory, S)]
  <2> DEFINE c == [k \in S |-> it[k].cpu]
             m == [k \in S |-> it[k].memory]
  <2>1. aggregate_power(it, S) = [cpu |-> SumFunctionOnSet(c, S), memory |-> SumFunctionOnSet(m, S)]
    BY Zenon DEF aggregate_power, All, Sum
  <2>2. \A k \in S : c[k] = cpu[k] /\ m[k] = memory[k]
    BY <1>6, Zenon
  <2> HIDE DEF c, m, cpu, memory
  <2>3. SumFunctionOnSet(c, S) = SumFunctionOnSet(cpu, S)
    BY <1>6, <2>2, SumCongruent, Zenon
  <2>4. SumFunctionOnSet(m, S) = SumFunctionOnSet(memory, S)
    BY <1>6, <2>2, SumCongruent, Zenon
  <2> QED
    BY <2>1, <2>3, <2>4, Zenon
<1>7. /\ SumFunctionOnSet(cpu, D) = SumFunctionOnSet(cpu, A) + SumFunctionOnSet(cpu, B)
      /\ SumFunctionOnSet(memory, D) = SumFunctionOnSet(memory, A) + SumFunctionOnSet(memory, B)
  <2>1. \A k \in A \cup B : cpu[k] \in Int
    BY <1>1, <1>2
  <2>2. \A k \in A \cup B : memory[k] \in Int
    BY <1>1, <1>2
  <2> HIDE DEF A, B, D, cpu, memory
  <2>3. SumFunctionOnSet(cpu, A \cup B) = SumFunctionOnSet(cpu, A) + SumFunctionOnSet(cpu, B)
    BY <1>2, <1>3, <2>1, SumUnion, Zenon
  <2>4. SumFunctionOnSet(memory, A \cup B) = SumFunctionOnSet(memory, A) + SumFunctionOnSet(memory, B)
    BY <1>2, <1>3, <2>2, SumUnion, Zenon
  <2> QED
    BY <1>2, <2>3, <2>4, Zenon
<1> HIDE DEF cpu, memory, rest
<1>8. aggregate_power(items, D)
        = [cpu |-> SumFunctionOnSet(cpu, D), memory |-> SumFunctionOnSet(memory, D)]
  BY <1>1, <1>6, Zenon
<1>9. aggregate_power(rest, A)
        = [cpu |-> SumFunctionOnSet(cpu, A), memory |-> SumFunctionOnSet(memory, A)]
  BY <1>2, <1>3, <1>4, <1>6, Zenon
<1>10. aggregate_power(items, B)
        = [cpu |-> SumFunctionOnSet(cpu, B), memory |-> SumFunctionOnSet(memory, B)]
  BY <1>2, <1>3, <1>6, Zenon
<1> QED
  BY <1>4, <1>5, <1>7, <1>8, <1>9, <1>10 DEF rest

\* Each level of enrich, with what has no container, adds up to the processes.
LEMMA EnrichAddsUp ==
    ASSUME IsPower(processes), enrich
    PROVE  /\ IsPower(processes')
           /\ LET before == aggregate_power(processes, DOMAIN processes)
                  own == aggregate_power(uncontained', DOMAIN uncontained')
              IN  \A level \in {containers', pods', namespaces'} :
                    LET all == aggregate_power(level, DOMAIN level) IN
                    before = [cpu |-> own.cpu + all.cpu, memory |-> own.memory + all.memory]
<1> DEFINE D == DOMAIN processes
           C == [p \in DOMAIN Container |-> Container[p].container]
           inside == D \cap DOMAIN Container
           total == aggregate_power(processes, inside)
<1>1. /\ containers' = Regroup(processes, C)
      /\ pods' = Regroup(containers', PodOf)
      /\ namespaces' = Regroup(pods', NamespaceOf)
      /\ uncontained' = Restrict(processes, D \ DOMAIN Container)
      /\ processes' = uncontained'
  BY Zenon DEF enrich
<1>2. /\ IsPower(uncontained')
      /\ aggregate_power(processes, D)
           = [cpu |-> aggregate_power(uncontained', DOMAIN uncontained').cpu + total.cpu,
              memory |-> aggregate_power(uncontained', DOMAIN uncontained').memory + total.memory]
  BY <1>1, SplitAddsUp, Zenon
<1>3. /\ IsPower(containers') /\ DOMAIN containers' = {C[p] : p \in inside}
      /\ aggregate_power(containers', DOMAIN containers') = total
  <2>1. DOMAIN C = DOMAIN Container
    BY Zenon
  <2> HIDE DEF C
  <2> QED
    BY <1>1, <2>1, RegroupAddsUp, Zenon
<1>4. /\ IsPower(pods') /\ DOMAIN pods' = {PodOf[c] : c \in DOMAIN containers'}
      /\ aggregate_power(pods', DOMAIN pods') = total
  <2>1. DOMAIN containers' \cap DOMAIN PodOf = DOMAIN containers'
    BY <1>3, Zenon DEF PodOf
  <2>2. PICK items : items = containers'
    BY Zenon
  <2>3. IsPower(items) /\ DOMAIN items \cap DOMAIN PodOf = DOMAIN items
    BY <1>3, <2>1, <2>2, Zenon
  <2>4. LET groups == Regroup(items, PodOf)
        IN  /\ IsPower(groups) /\ DOMAIN groups = {PodOf[c] : c \in DOMAIN items}
            /\ aggregate_power(groups, DOMAIN groups) = aggregate_power(items, DOMAIN items)
    BY <2>3, RegroupAddsUp, Zenon
  <2> QED
    BY <1>1, <1>3, <2>2, <2>4, Zenon
<1>5. aggregate_power(namespaces', DOMAIN namespaces') = total
  <2>1. DOMAIN containers' \subseteq {Container[p].container : p \in DOMAIN Container}
    BY <1>3, Zenon
  <2>2. \A c \in DOMAIN containers' : PodOf[c] \in {Container[p].pod : p \in DOMAIN Container}
    BY <2>1, Zenon DEF PodOf
  <2>3. DOMAIN pods' \cap DOMAIN NamespaceOf = DOMAIN pods'
    BY <1>4, <2>2, Zenon DEF NamespaceOf
  <2>4. PICK items : items = pods'
    BY Zenon
  <2>5. IsPower(items) /\ DOMAIN items \cap DOMAIN NamespaceOf = DOMAIN items
    BY <1>4, <2>3, <2>4, Zenon
  <2>6. LET groups == Regroup(items, NamespaceOf)
        IN  aggregate_power(groups, DOMAIN groups) = aggregate_power(items, DOMAIN items)
    BY <2>5, RegroupAddsUp, Zenon
  <2> QED
    BY <1>1, <1>4, <2>4, <2>6, Zenon
<1> QED
  BY <1>1, <1>2, <1>3, <1>4, <1>5, Zenon

-----------------------------------------------------------------------------
(* Attribution: weights                                                    *)

\* An interval's observations and energies.
Input == obs \in Observations /\ energy \in Energies

\* The attribution models.
Model == {"FullModel", "FrequencyWeighted", "CpuTimeRatio"}

\* Arithmetic on naturals that the weights need.
LEMMA NatArithmetic ==
    /\ \A a, b \in Nat : a * b \in Nat /\ a + b \in Nat
    /\ \A a \in Nat, b \in Nat \ {0} : a \div b \in Nat
    /\ \A a \in Nat : Max({1, a}) \in Nat
    /\ \A a \in Int : Max({0, a}) = IF a >= 0 THEN a ELSE 0
<1>1. \A a, b \in Nat : a * b \in Nat /\ a + b \in Nat
  BY SMT
<1>2. \A a \in Nat, b \in Nat \ {0} : a \div b \in Nat
  BY SMT
<1>3. ASSUME NEW a \in Int, NEW b \in Nat
      PROVE  Max({b, a}) = IF a >= b THEN a ELSE b
  <2> DEFINE t == IF a >= b THEN a ELSE b
  <2>1. t \in {b, a} /\ \A y \in {b, a} : t >= y
    OBVIOUS
  <2>2. \A x \in {b, a} : (\A y \in {b, a} : x >= y) => x = t
    BY SMT
  <2> HIDE DEF t
  <2> QED
    BY <2>1, <2>2, Zenon DEF Max, t
<1> QED
  BY <1>1, <1>2, <1>3

\* What an interval brings is given in natural numbers.
LEMMA InputTypes ==
    ASSUME Input
    PROVE  /\ IsFiniteSet(DOMAIN obs.time) /\ \A k \in DOMAIN obs.time : obs.time[k] \in Nat
           /\ \A k \in DOMAIN obs.time : k = <<k[1], k[2]>>
           /\ \A c : Get(obs.freq, c, 1) \in Nat
           /\ \A c \in DOMAIN obs.counters, f \in {"instructions", "cycles", "misses"} :
                obs.counters[c][f] \in Nat
           /\ \A s \in 0 .. NumSockets - 1 : energy.socket[s] \in Nat
           /\ energy.dram \in Nat
<1>1. IsObservation(obs) /\ IsEnergy(energy)
  BY AttributionAssumption, Zenon DEF Input
<1>2. \A c \in DOMAIN obs.counters, f \in {"instructions", "cycles", "misses"} :
         obs.counters[c][f] \in Nat
  BY <1>1, Zenon DEF IsObservation
<1>3. \A c : Get(obs.freq, c, 1) \in Nat
  BY <1>1, Zenon DEF IsObservation, Get
<1> QED
  BY <1>1, <1>2, <1>3, Zenon DEF IsObservation, IsEnergy

\* The time all tasks ran on a core is a natural number.
LEMMA PidTimes ==
    ASSUME Input, NEW c
    PROVE  /\ pid_times(c) \in SUBSET DOMAIN obs.time /\ IsFiniteSet(pid_times(c))
           /\ Sum(obs.time, pid_times(c)) \in Nat
<1>1. pid_times(c) \in SUBSET DOMAIN obs.time
  BY Zenon DEF pid_times
<1>2. IsFiniteSet(pid_times(c)) /\ \A k \in pid_times(c) : obs.time[k] \in Nat
  BY <1>1, InputTypes, FS_Subset, Zenon
<1>3. SumFunctionOnSet(obs.time, pid_times(c)) \in Nat
  BY <1>2, SumType, Zenon
<1> QED
  BY <1>1, <1>2, <1>3, Zenon DEF Sum

\* So is the weight of a core.
LEMMA CoreWeightNat ==
    ASSUME Input, NEW c
    PROVE  core_weight(c) \in Nat
BY PidTimes, InputTypes, NatArithmetic, Zenon DEF core_weight, square

\* So is a counter of the core a task ran on.
LEMMA CounterNat ==
    ASSUME Input, NEW k \in DOMAIN obs.time, NEW f \in {"instructions", "cycles", "misses"}
    PROVE  counter_of(k, f) \in Nat
<1> DEFINE all == Sum(obs.time, pid_times(k[1]))
<1>1. CASE k[1] \in DOMAIN obs.counters /\ all > 0
  <2>1. obs.counters[k[1]][f] \in Nat /\ obs.time[k] \in Nat /\ all \in Nat \ {0}
    BY <1>1, InputTypes, PidTimes
  <2>2. (obs.counters[k[1]][f] * obs.time[k]) \div all \in Nat
    <3> HIDE DEF all
    <3> QED
      BY <2>1, NatArithmetic, Zenon
  <2> QED
    BY <1>1, <2>2, Zenon DEF counter_of
<1>2. CASE ~(k[1] \in DOMAIN obs.counters /\ all > 0)
  BY <1>2, Zenon DEF counter_of
<1> QED
  BY <1>1, <1>2, Zenon

\* So are the factors that bring the models' terms to a common denominator.
LEMMA ScaleNat ==
    ASSUME Input, NEW k \in DOMAIN obs.time
    PROVE  scale(k) \in Nat /\ scaled(k) \in Nat
<1> DEFINE i == counter_of(k, "instructions")
           c == counter_of(k, "cycles")
           x == counter_of(k, "misses")
<1>1. i \in Nat /\ c \in Nat /\ x \in Nat
  BY CounterNat, Zenon
<1>2. /\ scale(k) = 10 * Max({1, c}) * Max({1, i})
      /\ scaled(k) = scale(k) + (IF c > 0 THEN 3 * i * Max({1, i}) ELSE 0)
                               + (IF i > 0 THEN 15 * x * Max({1, c}) ELSE 0)
  BY Zenon DEF scale, scaled
<1> HIDE DEF i, c, x
<1>3. Max({1, c}) \in Nat /\ Max({1, i}) \in Nat
  BY <1>1, NatArithmetic, Zenon
<1>4. /\ 10 * Max({1, c}) * Max({1, i}) \in Nat
      /\ 3 * i * Max({1, i}) \in Nat /\ 15 * x * Max({1, c}) \in Nat
  BY <1>1, <1>3, NatArithmetic, Zenon
<1> QED
  BY <1>2, <1>4

\* The common denominator is a product.
LEMMA ProductIsProd == \A f, S : Product(f, S) = Prod(f, S)
BY Zenon DEF Product, MapThenFoldSet, Prod, IsProd, Pick

\* The weight of a task is a natural number in every model.
LEMMA WeightNat ==
    ASSUME Input, NEW k \in DOMAIN obs.time, NEW m \in Model
    PROVE  compute_weight(m, k) \in Nat
<1> DEFINE on == pid_times(k[1])
           scales == [j \in on |-> scale(j)]
           ff == square(Get(obs.freq, k[1], 1))
<1>1. ff \in Nat /\ obs.time[k] \in Nat
  BY InputTypes, NatArithmetic, Zenon DEF square
<1>2. Product(scales, on \ {k}) \in Nat
  <2>1. IsFiniteSet(on) /\ on \in SUBSET DOMAIN obs.time
    BY PidTimes, Zenon
  <2>2. \A j \in on \ {k} : scales[j] \in Nat
    BY <2>1, ScaleNat, Zenon
  <2> HIDE DEF on, scales
  <2>3. IsFiniteSet(on \ {k})
    BY <2>1, FS_Subset, Zenon
  <2>4. Prod(scales, on \ {k}) \in Nat
    BY <2>2, <2>3, ProdType, Zenon
  <2> QED
    BY <2>4, ProductIsProd, Zenon
<1>3. CASE m = "FullModel"
  <2>1. compute_weight(m, k) = obs.time[k] * ff * scaled(k) * Product(scales, on \ {k})
    BY <1>3, Zenon DEF compute_weight
  <2>2. scaled(k) \in Nat
    BY ScaleNat, Zenon
  <2> HIDE DEF ff, on, scales
  <2> QED
    BY <1>1, <1>2, <2>1, <2>2, NatArithmetic
<1>4. CASE m = "FrequencyWeighted"
  <2>1. compute_weight(m, k) = obs.time[k] * ff
    BY <1>4, Zenon DEF compute_weight
  <2> HIDE DEF ff
  <2> QED
    BY <1>1, <2>1, NatArithmetic, Zenon
<1>5. CASE m = "CpuTimeRatio"
  BY <1>1, <1>5, Zenon DEF compute_weight
<1> QED
  BY <1>3, <1>4, <1>5, Zenon DEF Model

-----------------------------------------------------------------------------
(* Attribution: sockets, cores and processes                               *)

\* Every socket has the same number of cores, and every core is in one socket.
LEMMA CoreNumbers ==
    /\ cores_per_socket \in Nat \ {0}
    /\ \A s \in 0 .. NumSockets - 1 :
         /\ IsFiniteSet(CoresOf(s)) /\ Cardinality(CoresOf(s)) = cores_per_socket
         /\ \A c \in CoresOf(s) : /\ c \in 0 .. NumSockets * cores_per_socket - 1
                                  /\ c \div cores_per_socket = s
    /\ \A c \in 0 .. NumSockets * cores_per_socket - 1 :
         \E s \in 0 .. NumSockets - 1 : c \in CoresOf(s)
<1> DEFINE n == cores_per_socket
<1>1. n \in Nat \ {0}
  <2>1. \A a \in Nat, b \in Nat \ {0} : a >= b => a \div b \in Nat \ {0}
    BY SMT
  <2> QED
    BY <2>1, AttributionAssumption, Zenon DEF cores_per_socket
<1> HIDE DEF n
<1>2. NumSockets \in Nat \ {0}
  BY AttributionAssumption, Zenon
<1>3. ASSUME NEW s \in 0 .. NumSockets - 1
      PROVE  /\ IsFiniteSet(CoresOf(s)) /\ Cardinality(CoresOf(s)) = n
             /\ \A c \in CoresOf(s) : c \in 0 .. NumSockets * n - 1 /\ c \div n = s
  <2>0. s \in Nat /\ s + 1 \in Nat /\ s + 1 <= NumSockets
    BY <1>2
  <2>1. s * n \in Nat /\ (s + 1) * n = s * n + n /\ (s + 1) * n <= NumSockets * n
    <3>1. \A a, b, c \in Nat : a <= b => a * c <= b * c
      BY SMT
    <3>2. \A a, c \in Nat : (a + 1) * c = a * c + c /\ a * c \in Nat
      BY SMT
    <3> QED
      BY <1>1, <1>2, <2>0, <3>1, <3>2, Zenon
  <2>2. CoresOf(s) = s * n .. (s * n + n - 1)
    <3>1. CoresOf(s) = s * n .. ((s + 1) * n - 1)
      BY Zenon DEF CoresOf, n
    <3> QED
      BY <1>1, <2>0, <2>1, <3>1
  <2>3. IsFiniteSet(CoresOf(s)) /\ Cardinality(CoresOf(s)) = n
    <3>1. PICK a \in Nat : a = s * n
      BY <2>1, Zenon
    <3>2. IsFiniteSet(a .. (a + n - 1)) /\ Cardinality(a .. (a + n - 1)) = n
      BY <1>1, <3>1, FS_Interval, SMT
    <3> QED
      BY <2>2, <3>1, <3>2, Zenon
  <2>4. ASSUME NEW c \in CoresOf(s)
        PROVE  c \in 0 .. NumSockets * n - 1 /\ c \div n = s
    <3>1. c \in Nat /\ s * n <= c /\ c < s * n + n
      BY <1>1, <2>1, <2>2
    <3>2. NumSockets * n \in Nat
      BY <1>1, <1>2, NatArithmetic, Zenon
    <3>3. ASSUME NEW a \in Nat, NEW q \in Nat, NEW d \in Nat \ {0}, q * d <= a, a < q * d + d
          PROVE  a \div d = q
      <4>1. PICK r \in Nat : a \div d = r /\ r * d <= a /\ a < r * d + d
        <5>1. a \div d \in Nat /\ (a \div d) * d <= a /\ a < (a \div d) * d + d
          BY SMT
        <5> QED
          BY <5>1, Zenon
      <4>2. \A x, y \in Nat : x < y => x * d + d <= y * d
        <5>1. \A x, y \in Nat : x <= y => x * d <= y * d
          BY SMT
        <5>2. \A x \in Nat : (x + 1) * d = x * d + d
          BY SMT
        <5> QED
          BY <5>1, <5>2
      <4>3. q * d \in Nat /\ r * d \in Nat
        BY NatArithmetic, Zenon
      <4>4. ~(q < r) /\ ~(r < q)
        BY <3>3, <4>1, <4>2, <4>3
      <4> QED
        BY <4>1, <4>4
    <3>4. c \div n = s
      BY <1>1, <2>0, <3>1, <3>3, Zenon
    <3> QED
      BY <1>1, <1>2, <2>0, <2>1, <3>1, <3>2, <3>4
  <2> QED
    BY <2>3, <2>4, Zenon
<1>4. ASSUME NEW c \in 0 .. NumSockets * n - 1
      PROVE  \E s \in 0 .. NumSockets - 1 : c \in CoresOf(s)
  <2> DEFINE s == c \div n
  <2>0. NumSockets * n \in Nat
    BY <1>1, <1>2, NatArithmetic, Zenon
  <2>1. c \in Nat /\ c < NumSockets * n
    BY <2>0
  <2>2. s \in Nat /\ s * n <= c /\ c < s * n + n
    <3>1. \A a \in Nat, d \in Nat \ {0} :
            a \div d \in Nat /\ (a \div d) * d <= a /\ a < (a \div d) * d + d
      BY SMT
    <3> QED
      BY <1>1, <2>1, <3>1, Zenon
  <2> HIDE DEF s
  <2>3. s * n \in Nat /\ (s + 1) * n = s * n + n
    <3>1. \A a, b \in Nat : (a + 1) * b = a * b + b /\ a * b \in Nat
      BY SMT
    <3> QED
      BY <1>1, <2>2, <3>1, Zenon
  <2>4. s < NumSockets
    <3>1. \A a, b, d \in Nat : b <= a => b * d <= a * d
      BY SMT
    <3>2. NumSockets <= s => NumSockets * n <= s * n
      BY <1>1, <1>2, <2>2, <3>1, Zenon
    <3> QED
      BY <1>2, <2>0, <2>1, <2>2, <2>3, <3>2
  <2>5. s \in 0 .. NumSockets - 1
    BY <1>2, <2>2, <2>4
  <2>6. CoresOf(s) = s * n .. (s * n + n - 1)
    <3>1. CoresOf(s) = s * n .. ((s + 1) * n - 1)
      BY Zenon DEF CoresOf, n
    <3> QED
      BY <1>1, <2>2, <2>3, <3>1
  <2>7. c \in CoresOf(s)
    BY <1>1, <2>1, <2>2, <2>3, <2>6
  <2> QED
    BY <2>5, <2>7, Zenon
<1> QED
  BY <1>1, <1>3, <1>4, Zenon DEF n

\* The cores of a socket get its energy, less rounding.
LEMMA SplitWithinSocket ==
    ASSUME Input, NEW s \in 0 .. NumSockets - 1
    PROVE  LET cores == Sum(split_socket_to_cores, CoresOf(s)) IN
           /\ \A c \in CoresOf(s) : split_socket_to_cores[c] \in Nat
           /\ cores \in Nat /\ cores <= energy.socket[s]
           /\ energy.socket[s] < cores + cores_per_socket
<1> DEFINE n == cores_per_socket
           C == CoresOf(s)
           w == [d \in C |-> core_weight(d)]
           e == energy.socket[s]
           split == split_socket_to_cores
<1>1. /\ n \in Nat \ {0} /\ IsFiniteSet(C) /\ Cardinality(C) = n /\ e \in Nat
      /\ \A c \in C : c \in 0 .. NumSockets * n - 1 /\ c \div n = s
  BY CoreNumbers, InputTypes, Zenon
<1>2. \A c \in C : w[c] \in Nat
  BY CoreWeightNat, Zenon
<1>3. \A c \in C : split[c] = IF All(w) = 0 THEN e \div n ELSE (e * w[c]) \div All(w)
  BY <1>1, Zenon DEF split_socket_to_cores
<1>4. All(w) = SumFunctionOnSet(w, C)
  BY Zenon DEF All, Sum
<1> HIDE DEF n, C, w, e, split
<1>5. All(w) \in Nat
  BY <1>1, <1>2, <1>4, SumType, Zenon
<1>6. CASE All(w) = 0
  <2> DEFINE q == e \div n
  <2>1. q \in Nat /\ q * n <= e /\ e < q * n + n
    <3>1. \A a \in Nat, d \in Nat \ {0} :
            a \div d \in Nat /\ (a \div d) * d <= a /\ a < (a \div d) * d + d
      BY SMT
    <3> QED
      BY <1>1, <3>1, Zenon
  <2>2. \A c \in C : split[c] = q
    BY <1>3, <1>6, Zenon
  <2> HIDE DEF q
  <2>3. SumFunctionOnSet(split, C) = q * n
    <3>1. q \in Int /\ IsFiniteSet(C)
      BY <1>1, <2>1
    <3>2. SumFunctionOnSet(split, C) = q * Cardinality(C)
      BY <2>2, <3>1, SumConstant, Zenon
    <3> QED
      BY <1>1, <3>2, Zenon
  <2>4. q * n \in Nat
    BY <1>1, <2>1, NatArithmetic, Zenon
  <2> QED
    BY <2>1, <2>2, <2>3, <2>4, Zenon DEF Sum, split, C, e, n
<1>7. CASE All(w) # 0
  <2>1. SumFunctionOnSet(w, C) > 0 /\ \A c \in C : split[c] = (e * w[c]) \div SumFunctionOnSet(w, C)
    BY <1>3, <1>4, <1>5, <1>7
  <2>2. /\ \A c \in C : split[c] \in Nat
        /\ SumFunctionOnSet(split, C) \in Nat
        /\ SumFunctionOnSet(split, C) <= e
        /\ e < SumFunctionOnSet(split, C) + Cardinality(C)
    BY <1>1, <1>2, <2>1, SumOfShares, Zenon
  <2> QED
    BY <1>1, <2>2, Zenon DEF Sum, split, C, e, n
<1> QED
  BY <1>6, <1>7, Zenon

\* The energy of every core is a natural number, and 0 for a core outside the
\* sockets.
LEMMA SplitNat ==
    ASSUME Input
    PROVE  /\ DOMAIN split_socket_to_cores = 0 .. NumSockets * cores_per_socket - 1
           /\ IsFiniteSet(DOMAIN split_socket_to_cores)
           /\ \A c \in DOMAIN split_socket_to_cores : split_socket_to_cores[c] \in Nat
           /\ \A c : Get(split_socket_to_cores, c, 0) \in Nat
<1>1. DOMAIN split_socket_to_cores = 0 .. NumSockets * cores_per_socket - 1
  BY Zenon DEF split_socket_to_cores
<1>2. NumSockets * cores_per_socket \in Nat
  BY AttributionAssumption, CoreNumbers, NatArithmetic, Zenon
<1>3. IsFiniteSet(0 .. NumSockets * cores_per_socket - 1)
  <2>1. PICK n \in Nat : n = NumSockets * cores_per_socket
    BY <1>2, Zenon
  <2>2. IsFiniteSet(0 .. n - 1)
    BY <2>1, FS_Interval, SMT
  <2> QED
    BY <2>1, <2>2, Zenon
<1>4. \A c \in DOMAIN split_socket_to_cores : split_socket_to_cores[c] \in Nat
  BY <1>1, CoreNumbers, SplitWithinSocket, Zenon
<1> QED
  BY <1>1, <1>3, <1>4, Zenon DEF Get

\* What each task on each core is charged with.
Parts(m) == [k \in DOMAIN obs.time |-> core_part(m, k)]

\* The tasks of a core are charged with at most its energy.
LEMMA PartsWithinCore ==
    ASSUME Input, NEW m \in Model, NEW c
    PROVE  /\ \A k \in pid_times(c) : Parts(m)[k] \in Nat
           /\ \A k \in pid_times(c) : Parts(m)[k] <= Get(split_socket_to_cores, c, 0)
           /\ \A T \in SUBSET pid_times(c) :
                SumFunctionOnSet(Parts(m), T) <= Get(split_socket_to_cores, c, 0)
<1> DEFINE S == pid_times(c)
           w == [j \in S |-> compute_weight(m, j)]
           e == Get(split_socket_to_cores, c, 0)
           h == Parts(m)
<1>1. IsFiniteSet(S) /\ S \in SUBSET DOMAIN obs.time /\ e \in Nat /\ \A k \in S : k[1] = c
  BY PidTimes, SplitNat, Zenon DEF pid_times
<1>2. \A k \in S : w[k] \in Nat
  BY <1>1, WeightNat, Zenon
<1>3. \A k \in S : h[k] = IF All(w) = 0 THEN 0 ELSE (e * w[k]) \div All(w)
  BY <1>1, Zenon DEF Parts, core_part
<1>4. All(w) = SumFunctionOnSet(w, S)
  BY Zenon DEF All, Sum
<1> HIDE DEF S, w, e, h
<1>5. All(w) \in Nat
  BY <1>1, <1>2, <1>4, SumType, Zenon
<1>6. (\A k \in S : h[k] \in Nat) /\ SumFunctionOnSet(h, S) <= e
  <2>1. CASE All(w) = 0
    <3>1. \A k \in S : h[k] = 0
      BY <1>3, <2>1, Zenon
    <3>2. SumFunctionOnSet(h, S) = 0
      BY <1>1, <3>1, SumZero, Zenon
    <3> QED
      BY <1>1, <3>1, <3>2
  <2>2. CASE All(w) # 0
    <3>1. SumFunctionOnSet(w, S) > 0 /\ \A k \in S : h[k] = (e * w[k]) \div SumFunctionOnSet(w, S)
      BY <1>3, <1>4, <1>5, <2>2
    <3> QED
      BY <1>1, <1>2, <3>1, SumOfShares
  <2> QED
    BY <2>1, <2>2, Zenon
<1>7. ASSUME NEW T \in SUBSET S
      PROVE  SumFunctionOnSet(h, T) <= e
  <2>1. IsFiniteSet(T)
    BY <1>1, FS_Subset, Zenon
  <2>2. SumFunctionOnSet(h, T) \in Nat
    BY <1>6, <2>1, SumType, Zenon
  <2>3. SumFunctionOnSet(h, S) \in Nat
    BY <1>1, <1>6, SumType, Zenon
  <2>4. SumFunctionOnSet(h, T) <= SumFunctionOnSet(h, S)
    BY <1>1, <1>6, SumSubset, Zenon
  <2> QED
    BY <1>1, <1>6, <2>2, <2>3, <2>4
<1>8. ASSUME NEW k \in S
      PROVE  h[k] <= e
  <2>1. {k} \in SUBSET S /\ IsFiniteSet({k}) /\ {k} \ {k} = {}
    BY FS_Singleton, Zenon
  <2>2. SumFunctionOnSet(h, {k}) = h[k] + SumFunctionOnSet(h, {k} \ {k})
    <3>1. \A y \in {k} : h[y] \in Int
      BY <1>6
    <3> QED
      BY <2>1, <3>1, SumRemove, Zenon
  <2>3. SumFunctionOnSet(h, {k}) = h[k]
    BY <1>6, <2>1, <2>2, SumEmpty
  <2> QED
    BY <1>7, <2>1, <2>3, Zenon
<1> QED
  BY <1>6, <1>7, <1>8, Zenon DEF S, e, h

\* The processes that are charged.
Pids(m) == {k[2] : k \in Charged(m)}

\* What each of them is charged with, over all cores.
Cpu(m) ==
    [p \in Pids(m) |-> All([k \in {k \in Charged(m) : k[2] = p} |-> core_part(m, k)])]

\* The charges are natural numbers, and there are finitely many.
LEMMA ChargedParts ==
    ASSUME Input, NEW m \in Model
    PROVE  /\ IsFiniteSet(Charged(m)) /\ Charged(m) \in SUBSET DOMAIN obs.time
           /\ IsFiniteSet(Pids(m))
           /\ \A k \in Charged(m) : Parts(m)[k] \in Nat
<1>1. IsFiniteSet(Charged(m)) /\ Charged(m) \in SUBSET DOMAIN obs.time
  BY InputTypes, FS_Subset, Zenon DEF Charged
<1>2. \A k \in Charged(m) : Parts(m)[k] \in Nat
  <2>1. \A k \in Charged(m) : k \in pid_times(k[1])
    BY <1>1, Zenon DEF pid_times
  <2> QED
    BY <2>1, PartsWithinCore, Zenon
<1>3. IsFiniteSet(Pids(m))
  <2> DEFINE K == Charged(m)
             f == [k \in K |-> k[2]]
  <2>1. f \in Surjection(K, Pids(m))
    BY Zenon DEF Surjection, Pids
  <2> HIDE DEF f, K
  <2>2. IsFiniteSet(K)
    BY <1>1, Zenon DEF K
  <2> QED
    BY <2>1, <2>2, FS_Surjection, Zenon
<1> QED
  BY <1>1, <1>2, <1>3, Zenon

\* Summed by process, the charges are the same.
LEMMA CpuIsParts ==
    ASSUME Input, NEW m \in Model
    PROVE  /\ \A p \in Pids(m) :
                /\ Cpu(m)[p] = SumFunctionOnSet(Parts(m), {k \in Charged(m) : k[2] = p})
                /\ Cpu(m)[p] \in Nat
           /\ All(Cpu(m)) = SumFunctionOnSet(Parts(m), Charged(m))
           /\ All(Cpu(m)) \in Nat
<1> DEFINE K == Charged(m)
           P == Parts(m)
           pid == [k \in K |-> k[2]]
           cpu == Cpu(m)
           G == Pids(m)
<1>1. IsFiniteSet(K) /\ IsFiniteSet(G) /\ K \in SUBSET DOMAIN obs.time /\ \A k \in K : P[k] \in Nat
  BY ChargedParts, Zenon
<1>2. ASSUME NEW p \in G
      PROVE  cpu[p] = SumFunctionOnSet(P, {k \in K : k[2] = p})
  <2> DEFINE F == {k \in K : k[2] = p}
             f == [k \in F |-> core_part(m, k)]
  <2>1. cpu[p] = SumFunctionOnSet(f, F)
    BY Zenon DEF Cpu, All, Sum
  <2>2. \A k \in F : f[k] = P[k]
    BY <1>1, Zenon DEF Parts
  <2>3. IsFiniteSet(F)
    BY <1>1, FS_Subset, Zenon
  <2> HIDE DEF f, F, P, K, cpu, G
  <2>4. SumFunctionOnSet(f, F) = SumFunctionOnSet(P, F)
    BY <2>2, <2>3, SumCongruent, Zenon
  <2> QED
    BY <2>1, <2>4, Zenon DEF F
<1>3. \A p \in G : Fibre(K, pid, p) = {k \in K : k[2] = p}
  BY Zenon DEF Fibre
<1>4. \A p \in G : cpu[p] = SumFunctionOnSet(P, Fibre(K, pid, p))
  BY <1>2, <1>3, Zenon
<1>5. \A k \in K : pid[k] \in G
  BY Zenon DEF Pids
<1>6. All(cpu) = SumFunctionOnSet(cpu, G)
  BY Zenon DEF All, Sum, Cpu
<1> HIDE DEF K, P, pid, cpu, G
<1>7. /\ \A p \in G : cpu[p] \in Nat
      /\ SumFunctionOnSet(cpu, G) = SumFunctionOnSet(P, K)
  BY <1>1, <1>4, <1>5, FibresAddUp
<1>8. SumFunctionOnSet(P, K) \in Nat
  BY <1>1, SumType, Zenon
<1> QED
  BY <1>2, <1>6, <1>7, <1>8, Zenon DEF K, P, cpu, G

\* The processes are charged with at most the energy of the cores.
LEMMA CpuWithinCores ==
    ASSUME Input, NEW m \in Model
    PROVE  All(Cpu(m)) <= All(split_socket_to_cores) /\ All(split_socket_to_cores) \in Nat
<1> DEFINE K == Charged(m)
           P == Parts(m)
           split == split_socket_to_cores
           D == DOMAIN split
           core == [k \in K |-> k[1]]
           h == [c \in D |-> SumFunctionOnSet(P, Fibre(K, core, c))]
<1>1. IsFiniteSet(K) /\ K \in SUBSET DOMAIN obs.time /\ \A k \in K : P[k] \in Nat
  BY ChargedParts, Zenon
<1>2. IsFiniteSet(D) /\ \A c \in D : split[c] \in Nat
  BY SplitNat, Zenon
<1>3. \A k \in K : core[k] \in D
  <2>1. ASSUME NEW k \in K PROVE k[1] \in D
    <3>1. Get(split, k[1], 0) > 0
      BY Zenon DEF Charged
    <3> QED
      BY <3>1 DEF Get
  <2> QED
    BY <2>1, Zenon
<1>4. ASSUME NEW c \in D
      PROVE  h[c] <= split[c]
  <2>1. Fibre(K, core, c) \in SUBSET pid_times(c)
    BY <1>1, Zenon DEF Fibre, pid_times
  <2>2. SumFunctionOnSet(P, Fibre(K, core, c)) <= Get(split, c, 0)
    BY <2>1, PartsWithinCore, Zenon
  <2>3. Get(split, c, 0) = split[c] /\ h[c] = SumFunctionOnSet(P, Fibre(K, core, c))
    BY Zenon DEF Get
  <2> HIDE DEF h, split, P, K, core
  <2> QED
    BY <2>2, <2>3, Zenon
<1>5. \A c \in D : h[c] = SumFunctionOnSet(P, Fibre(K, core, c))
  BY Zenon
<1>6. All(split) = SumFunctionOnSet(split, D)
  BY Zenon DEF All, Sum
<1> HIDE DEF K, P, split, D, core, h
<1>7. /\ \A c \in D : h[c] \in Nat
      /\ SumFunctionOnSet(h, D) = SumFunctionOnSet(P, K)
  BY <1>1, <1>2, <1>3, <1>5, FibresAddUp
<1>8. SumFunctionOnSet(h, D) <= SumFunctionOnSet(split, D)
  <2>1. \A c \in D : h[c] \in Int /\ split[c] \in Int /\ h[c] <= split[c]
    BY <1>2, <1>4, <1>7
  <2> QED
    BY <1>2, <2>1, SumMonotone, Zenon
<1>9. SumFunctionOnSet(split, D) \in Nat
  BY <1>2, SumType, Zenon
<1>10. All(Cpu(m)) = SumFunctionOnSet(P, K)
  BY CpuIsParts, Zenon DEF P, K
<1> QED
  BY <1>6, <1>7, <1>8, <1>9, <1>10, Zenon DEF split

-----------------------------------------------------------------------------
(* Attribution: power                                                      *)

\* Energy becomes power by a division that rounds down; so the powers of parts
\* are at most the power of the whole.
LEMMA PowerArithmetic ==
    /\ \A a \in Nat : energy_to_power(a) \in Nat /\ energy_to_power(a) * Interval <= a
    /\ \A a, b \in Nat : a <= b => energy_to_power(a) <= energy_to_power(b)
    /\ \A a, b \in Nat : energy_to_power(a) + energy_to_power(b) <= energy_to_power(a + b)
<1>1. CASE Interval = 0
  <2>1. \A a : energy_to_power(a) = 0
    BY <1>1, Zenon DEF energy_to_power
  <2> QED
    BY <1>1, <2>1
<1>2. CASE Interval # 0
  <2>0. PICK d \in Nat \ {0} : d = Interval
    BY <1>2, AttributionAssumption, Zenon
  <2>1. \A a : energy_to_power(a) = a \div d
    BY <1>2, <2>0, Zenon DEF energy_to_power
  <2>2. \A a \in Nat : a \div d \in Nat /\ (a \div d) * d <= a
    BY SMT
  <2>3. ASSUME NEW q \in Nat, NEW a \in Nat, q * d <= a
        PROVE  q <= a \div d
    <3>1. PICK r \in Nat : a \div d = r /\ a < r * d + d
      <4>1. a \div d \in Nat /\ a < (a \div d) * d + d
        BY SMT
      <4> QED
        BY <4>1, Zenon
    <3>2. r < q => r * d + d <= q * d
      <4>1. \A x, y \in Nat : x <= y => x * d <= y * d
        BY SMT
      <4>2. (r + 1) * d = r * d + d
        BY SMT
      <4> QED
        BY <4>1, <4>2
    <3>3. r * d \in Nat /\ q * d \in Nat
      BY NatArithmetic, Zenon
    <3> QED
      BY <2>3, <3>1, <3>2, <3>3
  <2>4. ASSUME NEW a \in Nat, NEW b \in Nat
        PROVE  /\ a <= b => a \div d <= b \div d
               /\ a \div d + b \div d <= (a + b) \div d
    <3>1. PICK q, r \in Nat : q = a \div d /\ r = b \div d /\ q * d <= a /\ r * d <= b
      BY <2>2, Zenon
    <3>2. q * d \in Nat /\ r * d \in Nat /\ (q + r) * d = q * d + r * d
      BY NatArithmetic, SMT
    <3>3. a <= b => q * d <= b
      BY <3>1, <3>2
    <3>4. (q + r) * d <= a + b /\ q + r \in Nat /\ a + b \in Nat
      BY <3>1, <3>2
    <3>5. q + r <= (a + b) \div d
      BY <2>3, <3>4, Zenon
    <3>6. a <= b => q <= b \div d
      BY <2>3, <3>3, Zenon
    <3> QED
      BY <3>1, <3>5, <3>6, Zenon
  <2> QED
    BY <2>0, <2>1, <2>2, <2>4, Zenon
<1> QED
  BY <1>1, <1>2, Zenon

\* The same for any number of parts.
LEMMA PowersAddUp ==
    ASSUME NEW S, IsFiniteSet(S), NEW f, \A x \in S : f[x] \in Nat,
           NEW h, \A x \in S : h[x] = energy_to_power(f[x])
    PROVE  /\ \A x \in S : h[x] \in Nat
           /\ SumFunctionOnSet(h, S) \in Nat
           /\ SumFunctionOnSet(h, S) <= energy_to_power(SumFunctionOnSet(f, S))
<1>1. \A x \in S : h[x] \in Nat
  BY PowerArithmetic, Zenon
<1> DEFINE Good == {T \in SUBSET S :
                      SumFunctionOnSet(h, T) <= energy_to_power(SumFunctionOnSet(f, T))}
<1>2. {} \in Good
  <2>1. energy_to_power(0) \in Nat
    BY PowerArithmetic, Zenon
  <2> QED
    BY <2>1, SumEmpty
<1>3. ASSUME NEW T \in SUBSET S, NEW x \in T, T \ {x} \in Good
      PROVE  T \in Good
  <2> DEFINE R == T \ {x}
  <2>1. /\ IsFiniteSet(T) /\ IsFiniteSet(R) /\ R \in SUBSET S /\ x \in S
        /\ \A y \in T : f[y] \in Int /\ h[y] \in Int
        /\ \A y \in R : f[y] \in Nat /\ h[y] \in Nat
    BY <1>1, FS_Subset
  <2>2. SumFunctionOnSet(f, T) = f[x] + SumFunctionOnSet(f, T \ {x})
    BY <2>1, SumRemove, Zenon
  <2>3. SumFunctionOnSet(h, T) = h[x] + SumFunctionOnSet(h, T \ {x})
    BY <2>1, SumRemove, Zenon
  <2>4. SumFunctionOnSet(h, R) <= energy_to_power(SumFunctionOnSet(f, R))
    BY <1>3, Zenon
  <2> HIDE DEF R
  <2>5. PICK a \in Nat, b \in Nat : a = SumFunctionOnSet(f, R) /\ b = SumFunctionOnSet(h, R)
    BY <2>1, SumType, Zenon
  <2>6. energy_to_power(f[x]) + energy_to_power(a) <= energy_to_power(f[x] + a)
    BY <2>1, PowerArithmetic, Zenon
  <2>7. /\ energy_to_power(f[x]) \in Nat /\ energy_to_power(a) \in Nat
        /\ energy_to_power(f[x] + a) \in Nat
    <3>1. f[x] + a \in Nat
      BY <2>1
    <3> QED
      BY <2>1, <3>1, PowerArithmetic, Zenon
  <2>8. b <= energy_to_power(a)
    BY <2>4, <2>5, Zenon
  <2>9. SumFunctionOnSet(f, T) = f[x] + a /\ SumFunctionOnSet(h, T) = h[x] + b
    BY <2>2, <2>3, <2>5, Zenon DEF R
  <2>10. h[x] = energy_to_power(f[x])
    BY <2>1, Zenon
  <2>11. h[x] + b <= energy_to_power(f[x] + a)
    BY <2>5, <2>6, <2>7, <2>8, <2>10
  <2> QED
    BY <2>9, <2>11, Zenon
<1>4. S \in Good
  <2> HIDE DEF Good
  <2> QED
    BY <1>2, <1>3, SubsetInduction, Zenon
<1>5. SumFunctionOnSet(h, S) \in Nat
  BY <1>1, SumType, Zenon
<1> QED
  BY <1>1, <1>4, <1>5, Zenon

\* The processes are charged with at most the energy of the memory.
LEMMA MemoryWithinDram ==
    ASSUME Input, NEW m \in Model
    PROVE  LET mem == [p \in Pids(m) |-> attribute_memory(Cpu(m), p)] IN
           /\ \A p \in Pids(m) : mem[p] \in Nat
           /\ SumFunctionOnSet(mem, Pids(m)) \in Nat
           /\ SumFunctionOnSet(mem, Pids(m)) <= energy.dram
<1> DEFINE G == Pids(m)
           cpu == Cpu(m)
           mem == [p \in G |-> attribute_memory(cpu, p)]
           ran == {k[2] : k \in DOMAIN obs.time}
           w == [q \in ran |-> pid_misses(q)]
           dram == energy.dram
<1>1. /\ dram \in Nat /\ IsFiniteSet(G) /\ G \in SUBSET ran
      /\ All(cpu) \in Nat /\ \A p \in G : cpu[p] \in Nat
  BY InputTypes, ChargedParts, CpuIsParts, Zenon DEF Pids
<1>2. IsFiniteSet(ran)
  <2> DEFINE f == [k \in DOMAIN obs.time |-> k[2]]
  <2>1. f \in Surjection(DOMAIN obs.time, ran)
    BY Zenon DEF Surjection
  <2> HIDE DEF f, ran
  <2> QED
    BY <2>1, InputTypes, FS_Surjection, Zenon
<1>3. \A q \in ran : w[q] \in Nat
  <2>1. ASSUME NEW q \in ran PROVE pid_misses(q) \in Nat
    <3> DEFINE K == {k \in DOMAIN obs.time : k[2] = q}
               f == [k \in K |-> counter_of(k, "misses")]
    <3>1. pid_misses(q) = SumFunctionOnSet(f, K)
      BY Zenon DEF pid_misses, All, Sum
    <3>2. \A k \in K : f[k] \in Nat
      BY CounterNat, Zenon
    <3>3. IsFiniteSet(K)
      BY InputTypes, FS_Subset, Zenon
    <3> HIDE DEF f, K
    <3> QED
      BY <3>1, <3>2, <3>3, SumType, Zenon
  <2> QED
    BY <2>1, Zenon
<1>4. All(w) = SumFunctionOnSet(w, ran) /\ All(cpu) = SumFunctionOnSet(cpu, G)
  BY Zenon DEF All, Sum, Cpu
<1>5. \A p \in G : mem[p] = CASE All(w) > 0 -> (dram * w[p]) \div All(w)
                              [] All(w) = 0 /\ All(cpu) > 0 -> (dram * cpu[p]) \div All(cpu)
                              [] OTHER -> 0
  BY <1>1, Zenon DEF attribute_memory
<1> HIDE DEF G, cpu, mem, ran, w, dram
<1>6. All(w) \in Nat
  BY <1>2, <1>3, <1>4, SumType, Zenon
<1>7. (\A p \in G : mem[p] \in Nat) /\ SumFunctionOnSet(mem, G) <= dram
  <2>1. CASE All(w) > 0
    <3> DEFINE h == [q \in ran |-> (dram * w[q]) \div SumFunctionOnSet(w, ran)]
    <3>1. \A q \in ran : h[q] = (dram * w[q]) \div SumFunctionOnSet(w, ran)
      BY Zenon
    <3>2. SumFunctionOnSet(w, ran) > 0
      BY <1>4, <2>1, Zenon
    <3>3. \A p \in G : mem[p] = h[p]
      BY <1>1, <1>4, <1>5, <2>1
    <3> HIDE DEF h
    <3>4. /\ \A q \in ran : h[q] \in Nat
          /\ SumFunctionOnSet(h, ran) \in Nat
          /\ SumFunctionOnSet(h, ran) <= dram
      BY <1>1, <1>2, <1>3, <3>1, <3>2, SumOfShares, Zenon
    <3>5. SumFunctionOnSet(h, G) <= SumFunctionOnSet(h, ran)
      BY <1>1, <1>2, <3>4, SumSubset, Zenon
    <3>6. SumFunctionOnSet(mem, G) = SumFunctionOnSet(h, G)
      BY <1>1, <3>3, SumCongruent, Zenon
    <3>7. \A p \in G : mem[p] \in Nat
      BY <1>1, <3>3, <3>4, Zenon
    <3>8. SumFunctionOnSet(mem, G) \in Nat
      BY <1>1, <3>7, SumType, Zenon
    <3> QED
      BY <1>1, <3>4, <3>5, <3>6, <3>7, <3>8
  <2>2. CASE All(w) = 0 /\ All(cpu) > 0
    <3>1. \A p \in G : mem[p] = (dram * cpu[p]) \div SumFunctionOnSet(cpu, G)
      BY <1>4, <1>5, <2>2
    <3>2. SumFunctionOnSet(cpu, G) > 0
      BY <1>4, <2>2, Zenon
    <3> QED
      BY <1>1, <3>1, <3>2, SumOfShares, Zenon
  <2>3. CASE All(w) = 0 /\ ~(All(cpu) > 0)
    <3>1. \A p \in G : mem[p] = 0
      BY <1>5, <2>3
    <3>2. SumFunctionOnSet(mem, G) = 0
      BY <1>1, <3>1, SumZero, Zenon
    <3> QED
      BY <1>1, <3>1, <3>2
  <2> QED
    BY <1>6, <2>1, <2>2, <2>3
<1>8. SumFunctionOnSet(mem, G) \in Nat
  BY <1>1, <1>7, SumType, Zenon
<1> QED
  BY <1>7, <1>8, Zenon DEF mem, G, cpu, dram

\* A process that ran on one socket is charged with at most that socket's
\* energy.
LEMMA OneSocketCpu ==
    ASSUME Input, NEW m \in Model, NEW p \in Pids(m), NEW s \in 0 .. NumSockets - 1,
           \A k \in DOMAIN obs.time : k[2] = p => k[1] \in CoresOf(s)
    PROVE  Cpu(m)[p] <= energy.socket[s]
<1> DEFINE F == {k \in Charged(m) : k[2] = p}
           P == Parts(m)
           C == CoresOf(s)
           split == split_socket_to_cores
           core == [k \in F |-> k[1]]
           h == [c \in C |-> SumFunctionOnSet(P, Fibre(F, core, c))]
<1>1. IsFiniteSet(F) /\ F \in SUBSET DOMAIN obs.time /\ \A k \in F : P[k] \in Nat
  BY ChargedParts, FS_Subset, Zenon
<1>2. \A k \in F : core[k] \in C
  BY <1>1, Zenon
<1>3. /\ IsFiniteSet(C) /\ \A c \in C : split[c] \in Nat /\ c \in DOMAIN split
  BY CoreNumbers, SplitWithinSocket, SplitNat, Zenon
<1>4. /\ SumFunctionOnSet(split, C) \in Nat /\ SumFunctionOnSet(split, C) <= energy.socket[s]
      /\ energy.socket[s] \in Nat
  BY SplitWithinSocket, InputTypes, Zenon DEF Sum
<1>5. ASSUME NEW c \in C
      PROVE  h[c] <= split[c]
  <2>1. Fibre(F, core, c) \in SUBSET pid_times(c)
    BY <1>1, Zenon DEF Fibre, pid_times
  <2>2. SumFunctionOnSet(P, Fibre(F, core, c)) <= Get(split, c, 0)
    BY <2>1, PartsWithinCore, Zenon
  <2>3. Get(split, c, 0) = split[c] /\ h[c] = SumFunctionOnSet(P, Fibre(F, core, c))
    BY <1>3, Zenon DEF Get
  <2> HIDE DEF h, split, P, F, core
  <2> QED
    BY <2>2, <2>3, Zenon
<1>6. \A c \in C : h[c] = SumFunctionOnSet(P, Fibre(F, core, c))
  BY Zenon
<1>7. Cpu(m)[p] = SumFunctionOnSet(P, F)
  BY CpuIsParts, Zenon
<1> HIDE DEF F, P, C, split, core, h
<1>8. /\ \A c \in C : h[c] \in Nat
      /\ SumFunctionOnSet(h, C) = SumFunctionOnSet(P, F)
  BY <1>1, <1>2, <1>3, <1>6, FibresAddUp
<1>9. SumFunctionOnSet(h, C) <= SumFunctionOnSet(split, C)
  <2>1. \A c \in C : h[c] \in Int /\ split[c] \in Int /\ h[c] <= split[c]
    BY <1>3, <1>5, <1>8
  <2> QED
    BY <1>3, <2>1, SumMonotone, Zenon
<1>10. SumFunctionOnSet(h, C) \in Nat
  BY <1>3, <1>8, SumType, Zenon
<1> QED
  BY <1>4, <1>7, <1>8, <1>9, <1>10

\* The power reported of processes is at most the power of what they are
\* charged with.
LEMMA PowerFields ==
    ASSUME NEW S, IsFiniteSet(S), NEW c, NEW m,
           \A x \in S : c[x] \in Nat /\ m[x] \in Nat,
           NEW items, items = [x \in S |-> [cpu |-> energy_to_power(c[x]),
                                            memory |-> energy_to_power(m[x])]]
    PROVE  /\ IsPower(items)
           /\ aggregate_power(items, DOMAIN items).cpu \in Nat
           /\ aggregate_power(items, DOMAIN items).cpu <= energy_to_power(SumFunctionOnSet(c, S))
           /\ aggregate_power(items, DOMAIN items).memory \in Nat
           /\ aggregate_power(items, DOMAIN items).memory <= energy_to_power(SumFunctionOnSet(m, S))
<1> DEFINE cpus == [x \in S |-> items[x].cpu]
           mems == [x \in S |-> items[x].memory]
<1>1. DOMAIN items = S
  BY Zenon
<1>2. \A x \in S : cpus[x] = energy_to_power(c[x]) /\ mems[x] = energy_to_power(m[x])
  BY Zenon
<1>3. aggregate_power(items, DOMAIN items)
        = [cpu |-> SumFunctionOnSet(cpus, S), memory |-> SumFunctionOnSet(mems, S)]
  BY <1>1, Zenon DEF aggregate_power, All, Sum
<1>4. \A x \in S : items[x].cpu = cpus[x] /\ items[x].memory = mems[x]
  BY Zenon
<1> HIDE DEF cpus, mems
<1>5. /\ \A x \in S : cpus[x] \in Nat
      /\ SumFunctionOnSet(cpus, S) \in Nat
      /\ SumFunctionOnSet(cpus, S) <= energy_to_power(SumFunctionOnSet(c, S))
  BY <1>2, PowersAddUp, Zenon
<1>6. /\ \A x \in S : mems[x] \in Nat
      /\ SumFunctionOnSet(mems, S) \in Nat
      /\ SumFunctionOnSet(mems, S) <= energy_to_power(SumFunctionOnSet(m, S))
  BY <1>2, PowersAddUp, Zenon
<1>7. IsPower(items)
  BY <1>1, <1>4, <1>5, <1>6, Zenon DEF IsPower
<1> QED
  BY <1>3, <1>5, <1>6, <1>7

\* So the engine's result is within what was measured.
LEMMA AttributeWithin ==
    ASSUME Input, Attribute
    PROVE  IsPower(processes') /\ EngineWithinMeasured'
<1> DEFINE m == select_model(DOMAIN obs.freq # {}, DOMAIN obs.counters # {})
           G == Pids(m)
           cpu == Cpu(m)
           mem == [p \in G |-> attribute_memory(cpu, p)]
           split == split_socket_to_cores
           idle == Max({0, All(split) - All(cpu)})
<1>1. m \in Model
  BY Zenon DEF select_model, Model
<1>2. /\ turn' = "enrich" /\ obs' = obs /\ energy' = energy /\ core_energies' = split
      /\ processes' = [p \in G |-> [cpu |-> energy_to_power(cpu[p]),
                                     memory |-> energy_to_power(mem[p])]]
      /\ node'.attributed = energy_to_power(All(cpu) + idle)
      /\ node'.idle = energy_to_power(idle)
  BY Zenon DEF Attribute, Pids, Cpu
<1>3. /\ IsFiniteSet(G) /\ \A p \in G : cpu[p] \in Nat /\ mem[p] \in Nat
      /\ SumFunctionOnSet(cpu, G) = All(cpu) /\ All(cpu) \in Nat
      /\ SumFunctionOnSet(mem, G) \in Nat /\ SumFunctionOnSet(mem, G) <= energy.dram
  <2>1. SumFunctionOnSet(cpu, G) = All(cpu)
    BY Zenon DEF All, Sum, Cpu
  <2> HIDE DEF m
  <2> QED
    BY <1>1, <2>1, ChargedParts, CpuIsParts, MemoryWithinDram, Zenon
<1>4. All(cpu) <= All(split) /\ All(split) \in Nat
  <2> HIDE DEF m
  <2> QED
    BY <1>1, CpuWithinCores, Zenon
<1>5. idle \in Nat /\ All(cpu) + idle = All(split)
  <2>1. PICK a \in Nat, b \in Nat : a = All(cpu) /\ b = All(split)
    BY <1>3, <1>4, Zenon
  <2>2. Max({0, b - a}) = b - a
    <3>1. b - a \in Int /\ b - a >= 0
      BY <1>4, <2>1
    <3> QED
      BY <3>1, NatArithmetic, Zenon
  <2> QED
    BY <1>4, <2>1, <2>2
<1>6. CoresWithinSocket'
  <2>1. \A s \in 0 .. NumSockets - 1 :
          /\ Sum(split, CoresOf(s)) <= energy.socket[s]
          /\ energy.socket[s] < Sum(split, CoresOf(s)) + cores_per_socket
    BY SplitWithinSocket, Zenon
  <2> HIDE DEF split
  <2> QED
    BY <1>2, <2>1, Zenon DEF CoresWithinSocket
<1> HIDE DEF m, G, mem, split, idle
<1>7. OneSocketProcess'
  <2>1. ASSUME NEW p \in G, NEW s \in 0 .. NumSockets - 1,
               \A k \in DOMAIN obs.time : k[2] = p => k[1] \in CoresOf(s)
        PROVE  energy_to_power(cpu[p]) * Interval <= energy.socket[s]
    <3>1. cpu[p] <= energy.socket[s]
      BY <1>1, <2>1, OneSocketCpu, Zenon DEF G
    <3>2. energy.socket[s] \in Nat /\ cpu[p] \in Nat
      BY <1>3, InputTypes, Zenon
    <3>3. energy_to_power(cpu[p]) * Interval <= cpu[p] /\ energy_to_power(cpu[p]) * Interval \in Nat
      <4>1. energy_to_power(cpu[p]) \in Nat /\ Interval \in Nat
        BY <3>2, PowerArithmetic, AttributionAssumption, Zenon
      <4> QED
        BY <3>2, <4>1, PowerArithmetic, NatArithmetic, Zenon
    <3> HIDE DEF cpu
    <3> QED
      BY <3>1, <3>2, <3>3
  <2>2. DOMAIN processes' = G /\ \A p \in G : processes'[p].cpu = energy_to_power(cpu[p])
    BY <1>2, Zenon
  <2> HIDE DEF cpu
  <2> QED
    BY <1>2, <2>1, <2>2, Zenon DEF OneSocketProcess
<1> HIDE DEF cpu
<1>8. PICK items : items = processes'
  BY Zenon
<1>9. /\ IsPower(items)
      /\ aggregate_power(items, DOMAIN items).cpu \in Nat
      /\ aggregate_power(items, DOMAIN items).cpu <= energy_to_power(SumFunctionOnSet(cpu, G))
      /\ aggregate_power(items, DOMAIN items).memory \in Nat
      /\ aggregate_power(items, DOMAIN items).memory <= energy_to_power(SumFunctionOnSet(mem, G))
  <2>1. items = [p \in G |-> [cpu |-> energy_to_power(cpu[p]), memory |-> energy_to_power(mem[p])]]
    BY <1>2, <1>8, Zenon
  <2>2. IsFiniteSet(G) /\ \A p \in G : cpu[p] \in Nat /\ mem[p] \in Nat
    BY <1>3, Zenon
  <2> QED
    BY <2>1, <2>2, PowerFields, Zenon
<1>10. ProcessesWithinMeasured'
  <2> DEFINE all == aggregate_power(items, DOMAIN items)
  <2>1. all.cpu + energy_to_power(idle) <= energy_to_power(All(split))
    <3>1. energy_to_power(All(cpu)) + energy_to_power(idle) <= energy_to_power(All(cpu) + idle)
      BY <1>3, <1>5, PowerArithmetic, Zenon
    <3>2. /\ energy_to_power(All(cpu)) \in Nat /\ energy_to_power(idle) \in Nat
          /\ energy_to_power(All(split)) \in Nat
      BY <1>3, <1>4, <1>5, PowerArithmetic, Zenon
    <3>3. all.cpu \in Nat /\ all.cpu <= energy_to_power(All(cpu))
      BY <1>3, <1>9, Zenon
    <3> HIDE DEF all
    <3> QED
      BY <1>5, <3>1, <3>2, <3>3
  <2>2. all.memory <= energy_to_power(energy.dram)
    <3>1. energy.dram \in Nat
      BY InputTypes, Zenon
    <3>2. energy_to_power(SumFunctionOnSet(mem, G)) <= energy_to_power(energy.dram)
      BY <1>3, <3>1, PowerArithmetic, Zenon
    <3>3. energy_to_power(SumFunctionOnSet(mem, G)) \in Nat /\ energy_to_power(energy.dram) \in Nat
      BY <1>3, <3>1, PowerArithmetic, Zenon
    <3>4. all.memory \in Nat /\ all.memory <= energy_to_power(SumFunctionOnSet(mem, G))
      BY <1>9, Zenon
    <3> HIDE DEF all
    <3> QED
      BY <3>2, <3>3, <3>4
  <2> QED
    BY <1>2, <1>5, <1>8, <2>1, <2>2, Zenon DEF ProcessesWithinMeasured
<1> QED
  BY <1>6, <1>7, <1>8, <1>9, <1>10, Zenon DEF EngineWithinMeasured

\* The inductive invariant: the engine's input, its result and what was
\* measured.
AttrInv == Input /\ IsPower(processes) /\ EngineWithinMeasured

\* AttrInv holds in every state.
LEMMA AttrInvHolds == AttrInit /\ [][AttrNext]_attrVars => []AttrInv
<1>1. AttrInit => AttrInv
  <2> SUFFICES ASSUME AttrInit PROVE AttrInv
    BY Zenon
  <2>1. IsPower(processes)
    BY FS_EmptySet, Zenon DEF AttrInit, IsPower, EmptyMap
  <2>2. Input /\ turn # "enrich"
    BY Zenon DEF AttrInit, Input
  <2> QED
    BY <2>1, <2>2, Zenon DEF AttrInv, EngineWithinMeasured, CoresWithinSocket, OneSocketProcess,
                      ProcessesWithinMeasured
<1>2. AttrInv /\ [AttrNext]_attrVars => AttrInv'
  <2> SUFFICES ASSUME AttrInv, [AttrNext]_attrVars PROVE AttrInv'
    BY Zenon
  <2>1. CASE Attribute
    <3>1. Input'
      BY <2>1, Zenon DEF AttrInv, Input, Attribute
    <3> QED
      BY <2>1, <3>1, AttributeWithin, Zenon DEF AttrInv
  <2>2. CASE enrich
    <3>1. Input' /\ turn' # "enrich"
      BY <2>2, Zenon DEF AttrInv, Input, enrich
    <3>2. IsPower(processes')
      BY <2>2, EnrichAddsUp, Zenon DEF AttrInv
    <3> QED
      BY <3>1, <3>2, Zenon DEF AttrInv, EngineWithinMeasured, CoresWithinSocket, OneSocketProcess,
                        ProcessesWithinMeasured
  <2>3. CASE UNCHANGED attrVars
    BY <2>3, Zenon DEF attrVars, AttrInv, Input, EngineWithinMeasured, CoresWithinSocket,
                OneSocketProcess, ProcessesWithinMeasured
  <2> QED
    BY <2>1, <2>2, <2>3, Zenon DEF AttrNext
<1> QED
  BY <1>1, <1>2, PTL

\* For any number of sockets, cores and processes, any observations and each of
\* the models, the attribution engine (keck-agent/src/attribution/engine.rs)
\* charges the cores of a socket within its energy, a process that stayed on
\* one socket within that socket's, and all processes within the energy of the
\* cores and of the memory.
THEOREM EngineWithinMeasuredHolds ==
    AttrInit /\ [][AttrNext]_attrVars => []EngineWithinMeasured
<1>1. AttrInv => EngineWithinMeasured
  BY Zenon DEF AttrInv
<1> QED
  BY <1>1, AttrInvHolds, PTL

\* enrich (keck-agent/src/k8s/mod.rs) drops no power and counts none twice:
\* with what runs outside containers, each of containers, pods and namespaces
\* adds up to the processes.
THEOREM LevelsAddUpHolds == AttrInit /\ [][AttrNext]_attrVars => LevelsAddUp
<1>1. AttrInv /\ [AttrNext]_attrVars =>
        [enrich =>
          LET before == aggregate_power(processes, DOMAIN processes)
              own == aggregate_power(uncontained', DOMAIN uncontained')
          IN  \A level \in {containers', pods', namespaces'} :
                LET all == aggregate_power(level, DOMAIN level) IN
                before = [cpu |-> own.cpu + all.cpu, memory |-> own.memory + all.memory]]_attrVars
  BY EnrichAddsUp, Zenon DEF AttrInv
<1> QED
  BY <1>1, AttrInvHolds, PTL DEF LevelsAddUp

=============================================================================
