----------------------------- MODULE KeckProofs -----------------------------
(***************************************************************************)
(* Proof that the reconciler leaves no child behind, as long as the reads  *)
(* of the cluster-scoped children do not fail (when they do, it does: see  *)
(* the finding on cleanupResources).                                       *)
(*                                                                         *)
(* The argument: a call creates children only after its resource has the   *)
(* finalizer, which only a cleanup of that resource removes, as its last   *)
(* step and from an up-to-date copy; by then each cluster-scoped child is  *)
(* gone and the namespace is going or gone, with what is in it.            *)
(***************************************************************************)
EXTENDS KeckCluster, SequenceTheorems, TLAPS

\* The call still has to delete, or create, c.
Remaining(w, c) == \E i \in 1 .. Len(w.todo) : w.todo[i] = c

\* What a call that deletes has still to do: unfinalize is last, and children
\* that exist are still ahead.
Cleaning(w) ==
    /\ \A i \in 1 .. Len(w.todo) :
           /\ w.todo[i] \in Child \cup {"unfinalize"}
           /\ w.todo[i] = "unfinalize" <=> i = Len(w.todo)
    /\ "role" \in objs => Remaining(w, "role")
    /\ "binding" \in objs => Remaining(w, "binding")
    /\ "ns" \in objs => terminating \/ Remaining(w, "ns")

\* A call that installs never removes the finalizer, and does nothing else until
\* the resource has it.
Installing(w) ==
    /\ \A i \in 1 .. Len(w.todo) : w.todo[i] # "unfinalize"
    /\ IF w.copy.finalizer
       THEN w.name \in DOMAIN cr /\ cr[w.name].finalizer
       ELSE w.todo # <<>> => Head(w.todo) = "finalizer"

\* What a call of reconcile under way knows and has still to do.
CallOK(w) ==
    /\ w.fresh /\ w.todo # <<>> =>
           /\ w.name \in DOMAIN cr
           /\ cr[w.name].finalizer = w.copy.finalizer
           /\ cr[w.name].deleting = w.copy.deleting
    /\ w.copy.deleting => IF w.copy.finalizer THEN Cleaning(w) ELSE w.todo = <<>>
    /\ ~w.copy.deleting => Installing(w)

\* The inductive invariant behind ChildrenHaveOwner.
OwnerInv ==
    /\ KeckTypeOK
    /\ ChildrenHaveOwner
    /\ objs \ ClusterScoped # {} => "ns" \in objs
    /\ \A w \in work : CallOK(w)

-----------------------------------------------------------------------------
\* The children that the ensure... functions of Reconcile create.
LEMMA ChildIs ==
    Child = {"ns", "sa-agent", "sa-controller", "secret", "role", "binding", "ds",
             "nginx", "deploy", "svc", "monitor", "netpol", "pdb"}
<1> DEFINE S == {"ns", "sa-agent", "sa-controller", "secret", "role", "binding", "ds",
                 "nginx", "deploy", "svc", "monitor", "netpol", "pdb"}
<1>1. Child = {EnsureOrder[i] : i \in 1 .. 13}
  BY DEF Child, Range, EnsureOrder
<1>2. ASSUME NEW i \in 1 .. 13 PROVE EnsureOrder[i] \in S
  BY DEF EnsureOrder
<1>3. /\ EnsureOrder[1] = "ns" /\ EnsureOrder[2] = "sa-agent" /\ EnsureOrder[3] = "sa-controller"
      /\ EnsureOrder[4] = "secret" /\ EnsureOrder[5] = "role" /\ EnsureOrder[6] = "binding"
      /\ EnsureOrder[7] = "ds" /\ EnsureOrder[8] = "nginx" /\ EnsureOrder[9] = "deploy"
      /\ EnsureOrder[10] = "svc" /\ EnsureOrder[11] = "monitor" /\ EnsureOrder[12] = "netpol"
      /\ EnsureOrder[13] = "pdb"
  BY Zenon DEF EnsureOrder
<1>4. ASSUME NEW c \in S PROVE c \in {EnsureOrder[i] : i \in 1 .. 13}
  BY <1>3
<1> QED
  BY <1>1, <1>2, <1>4, SMTT(30)

\* The elements of a concatenation are those of its parts.
LEMMA PartsOfConcat ==
    ASSUME NEW S, NEW s \in Seq(S), NEW t \in Seq(S)
    PROVE  /\ Len(s \o t) = Len(s) + Len(t)
           /\ \A i \in 1 .. Len(s) : (s \o t)[i] = s[i]
           /\ \A j \in 1 .. Len(t) : (s \o t)[Len(s) + j] = t[j]
  OBVIOUS

\* A sequence keeps its first element when another is appended to it.
LEMMA FirstOfConcat ==
    ASSUME NEW S, NEW s \in Seq(S), NEW t \in Seq(S), Len(s) >= 1
    PROVE  Len(s \o t) >= 1 /\ (s \o t)[1] = s[1]
  BY ConcatProperties

\* The steps of an installing call are calls of ensure..., the finalizer first
\* where the resource lacks it.
LEMMA TodoInstalls ==
    ASSUME NEW r \in Resource, ~r.deleting
    PROVE  /\ Todo(r) \in Seq(Step \ {"unfinalize"})
           /\ ~r.finalizer => Todo(r) # <<>> /\ Head(Todo(r)) = "finalizer"
<1> DEFINE T == Step \ {"unfinalize"}
           a == IF r.finalizer THEN <<>> ELSE <<"finalizer">>
           b == IF r.phase = "" THEN <<"installing">> ELSE <<>>
<1>0. Child \subseteq T /\ "finalizer" \in T /\ "installing" \in T /\ "status" \in T
  BY ChildIs, Zenon DEF Step
<1>1. EnsureOrder \in Seq(Child) /\ Seq(Child) \subseteq Seq(T) /\ <<"status">> \in Seq(T)
  <2>1. EnsureOrder \in Seq(Child)
    BY ChildIs DEF EnsureOrder
  <2> HIDE DEF T
  <2> QED
    BY <1>0, <2>1
<1>2. a \in Seq(T) /\ b \in Seq(T)
  <2> HIDE DEF T
  <2>1. <<>> \in Seq(T) /\ <<"finalizer">> \in Seq(T) /\ <<"installing">> \in Seq(T)
    BY <1>0
  <2>2. a \in {<<>>, <<"finalizer">>} /\ b \in {<<>>, <<"installing">>}
    BY Zenon
  <2> QED
    BY <2>1, <2>2, Zenon
<1>3. Todo(r) = a \o b \o EnsureOrder \o <<"status">>
  BY Zenon DEF Todo
<1>4. a \o b \in Seq(T) /\ a \o b \o EnsureOrder \in Seq(T)
  <2> HIDE DEF T, a, b
  <2>1. EnsureOrder \in Seq(T)
    BY <1>1, Zenon
  <2>2. a \o b \in Seq(T)
    BY <1>2, ConcatProperties, Zenon
  <2> QED
    BY <2>1, <2>2, ConcatProperties, Zenon
<1>5. Todo(r) \in Seq(T)
  <2> HIDE DEF T, a, b
  <2> QED
    BY <1>1, <1>3, <1>4, ConcatProperties, Zenon
<1>6. ASSUME ~r.finalizer PROVE Todo(r) # <<>> /\ Head(Todo(r)) = "finalizer"
  <2>1. a = <<"finalizer">>
    BY <1>6, Zenon
  <2>2. Len(a) >= 1 /\ a[1] = "finalizer"
    BY <2>1
  <2> HIDE DEF T, a, b
  <2>3. Len(a \o b) >= 1 /\ (a \o b)[1] = "finalizer"
    BY <1>2, <2>2, FirstOfConcat, Zenon
  <2>4. Len(a \o b \o EnsureOrder) >= 1 /\ (a \o b \o EnsureOrder)[1] = "finalizer"
    BY <1>1, <1>4, <2>3, FirstOfConcat, Zenon
  <2>5. Len(Todo(r)) >= 1 /\ Todo(r)[1] = "finalizer"
    BY <1>1, <1>3, <1>4, <2>4, FirstOfConcat
  <2> QED
    BY <1>5, <2>5
<1> QED
  BY <1>5, <1>6, Zenon

\* A cleanup goes through the cluster-scoped children and the namespace, and
\* removes the finalizer last.
LEMMA TodoCleans ==
    ASSUME NEW r \in Resource, r.deleting, r.finalizer
    PROVE  /\ Todo(r) \in Seq(Step) /\ Len(Todo(r)) = 9
           /\ Todo(r)[5] = "binding" /\ Todo(r)[6] = "role" /\ Todo(r)[8] = "ns"
           /\ \A i \in 1 .. 9 : /\ Todo(r)[i] \in Child \cup {"unfinalize"}
                                /\ Todo(r)[i] = "unfinalize" <=> i = 9
<1>1. CleanupOrder \in Seq(Child) /\ Len(CleanupOrder) = 8
  BY ChildIs DEF CleanupOrder
<1>2. "unfinalize" \notin Child
  BY ChildIs, Zenon
<1>3. Todo(r) = CleanupOrder \o <<"unfinalize">>
  BY Zenon DEF Todo
<1>4. Todo(r) \in Seq(Step)
  BY <1>1, <1>3 DEF Step
<1>5. Len(Todo(r)) = 9 /\ Todo(r)[9] = "unfinalize"
      /\ \A i \in 1 .. 8 : Todo(r)[i] = CleanupOrder[i]
  <2> DEFINE U == <<"unfinalize">>
             S == {"unfinalize"} \cup Child
  <2>1. U \in Seq(S) /\ Len(U) = 1 /\ U[1] = "unfinalize"
    OBVIOUS
  <2>2. CleanupOrder \in Seq(S) /\ Todo(r) = CleanupOrder \o U
    BY <1>1, <1>3
  <2> HIDE DEF U, S
  <2>3. /\ Len(CleanupOrder \o U) = Len(CleanupOrder) + Len(U)
        /\ \A i \in 1 .. Len(CleanupOrder) : (CleanupOrder \o U)[i] = CleanupOrder[i]
        /\ \A j \in 1 .. Len(U) : (CleanupOrder \o U)[Len(CleanupOrder) + j] = U[j]
    BY <2>1, <2>2, PartsOfConcat, SMTT(30)
  <2>4. Len(CleanupOrder) + Len(U) = 9 /\ Len(CleanupOrder) + 1 = 9 /\ 1 \in 1 .. Len(U)
    BY <1>1, <2>1
  <2> QED
    BY <1>1, <2>1, <2>2, <2>3, <2>4, Zenon
<1>6. \A i \in 1 .. 8 : CleanupOrder[i] \in Child
  BY <1>1, ElementOfSeq, Zenon
<1>7. CleanupOrder[5] = "binding" /\ CleanupOrder[6] = "role" /\ CleanupOrder[8] = "ns"
  BY Zenon DEF CleanupOrder
<1>8. \A i \in 1 .. 9 : i \in 1 .. 8 \/ i = 9
  OBVIOUS
<1> QED
  BY <1>2, <1>4, <1>5, <1>6, <1>7, <1>8

-----------------------------------------------------------------------------
(* The step of a call: Advanced drops the head of what is to be done.      *)

\* The call after a step is the same call with one thing less to do.
LEMMA AdvancedIs ==
    ASSUME NEW w \in Call, w.todo # <<>>
    PROVE  /\ Advanced(w) \in Call
           /\ Advanced(w).name = w.name /\ Advanced(w).copy = w.copy /\ Advanced(w).fresh = w.fresh
           /\ Len(w.todo) >= 1 /\ Head(w.todo) = w.todo[1] /\ Head(w.todo) \in Step
           /\ Len(Advanced(w).todo) = Len(w.todo) - 1
           /\ \A i \in 1 .. Len(w.todo) - 1 : Advanced(w).todo[i] = w.todo[i + 1]
<1>1. w.todo \in Seq(Step) /\ Advanced(w).todo = Tail(w.todo)
  BY Zenon DEF Call, Advanced
<1>2. Tail(w.todo) \in Seq(Step) /\ Len(Tail(w.todo)) = Len(w.todo) - 1
      /\ \A i \in 1 .. Len(w.todo) - 1 : Tail(w.todo)[i] = w.todo[i + 1]
  BY <1>1, HeadTailProperties, Zenon
<1>3. Len(w.todo) >= 1 /\ Head(w.todo) = w.todo[1] /\ Head(w.todo) \in Step
  BY <1>1
<1>4. Advanced(w) \in Call
      /\ Advanced(w).name = w.name /\ Advanced(w).copy = w.copy /\ Advanced(w).fresh = w.fresh
  BY <1>2, Zenon DEF Call, Advanced
<1> QED
  BY <1>1, <1>2, <1>3, <1>4, Zenon

\* A step for one child leaves the others to do.
LEMMA RemainingAdvanced ==
    ASSUME NEW w \in Call, w.todo # <<>>, NEW c, Head(w.todo) # c, Remaining(w, c)
    PROVE  Remaining(Advanced(w), c)
<1>1. PICK i \in 1 .. Len(w.todo) : w.todo[i] = c
  BY Zenon DEF Remaining
<1>2. i # 1 /\ Len(w.todo) \in Nat
  BY <1>1, AdvancedIs DEF Call
<1>3. i - 1 \in 1 .. Len(w.todo) - 1 /\ (i - 1) + 1 = i
  BY <1>2
<1>4. Advanced(w).todo[i - 1] = c
  BY <1>1, <1>3, AdvancedIs, Zenon
<1> QED
  BY <1>3, <1>4, AdvancedIs, Zenon DEF Remaining

\* A step of an installing call past the finalizer, whatever it does to the
\* children, leaves a good call.
LEMMA InstallAdvances ==
    ASSUME NEW w \in Call, CallOK(w), ~w.copy.deleting,
           w.todo # <<>>, Head(w.todo) # "finalizer", cr' = cr
    PROVE  CallOK(Advanced(w))'
<1>1. w.copy.finalizer /\ w.name \in DOMAIN cr /\ cr[w.name].finalizer
  BY Zenon DEF CallOK, Installing
<1>2. \A i \in 1 .. Len(Advanced(w).todo) : Advanced(w).todo[i] # "unfinalize"
  <2>1. Len(w.todo) \in Nat
    BY DEF Call
  <2>2. \A i \in 1 .. Len(w.todo) - 1 : i + 1 \in 1 .. Len(w.todo)
    BY <2>1
  <2> QED
    BY <2>2, AdvancedIs DEF CallOK, Installing
<1>3. Installing(Advanced(w))'
  BY <1>1, <1>2, AdvancedIs, Zenon DEF Installing
<1> QED
  BY <1>3, AdvancedIs, Zenon DEF CallOK

\* A step of a cleanup that deals with its child leaves a good call.
LEMMA CleanupAdvances ==
    ASSUME NEW w \in Call, CallOK(w), w.copy.deleting, NEW c \in Child, At(w, c),
           cr' = cr, objs' \subseteq objs, terminating => terminating',
           c \in {"role", "binding"} => c \notin objs',
           c = "ns" => "ns" \notin objs' \/ terminating'
    PROVE  CallOK(Advanced(w))'
<1>1. w.todo # <<>> /\ Head(w.todo) = c
  BY Zenon DEF At
<1>2. w.copy.finalizer /\ Cleaning(w)
  BY <1>1, Zenon DEF CallOK
<1>3. Len(w.todo) \in Nat
  BY DEF Call
<1>4. \A i \in 1 .. Len(Advanced(w).todo) :
          /\ Advanced(w).todo[i] \in Child \cup {"unfinalize"}
          /\ Advanced(w).todo[i] = "unfinalize" <=> i = Len(Advanced(w).todo)
  <2> TAKE i \in 1 .. Len(Advanced(w).todo)
  <2>1. Len(Advanced(w).todo) = Len(w.todo) - 1 /\ i + 1 \in 1 .. Len(w.todo)
        /\ Advanced(w).todo[i] = w.todo[i + 1]
    BY <1>1, <1>3, AdvancedIs, SMTT(30)
  <2>2. i + 1 = Len(w.todo) <=> i = Len(Advanced(w).todo)
    BY <1>3, <2>1
  <2> QED
    BY <1>2, <2>1, <2>2, Zenon DEF Cleaning
<1>5. ASSUME NEW d \in {"role", "binding"}, d \in objs' PROVE Remaining(Advanced(w), d)
  BY <1>1, <1>2, <1>5, RemainingAdvanced, Zenon DEF Cleaning
<1>6. ASSUME "ns" \in objs' PROVE terminating' \/ Remaining(Advanced(w), "ns")
  BY <1>1, <1>2, <1>6, RemainingAdvanced, Zenon DEF Cleaning
<1>7. Cleaning(Advanced(w))'
  BY <1>4, <1>5, <1>6, Zenon DEF Cleaning, Remaining
<1> QED
  BY <1>1, <1>2, <1>7, AdvancedIs, Zenon DEF CallOK

-----------------------------------------------------------------------------
(* The calls under way stay good.                                          *)

\* A write of the resource by a call that has, or adds, its finalizer.
LEMMA WriteAdvances ==
    ASSUME NEW w \in Call, CallOK(w), ~w.copy.deleting, w.todo # <<>>, w.fresh,
           NEW new \in Resource, new.finalizer, ~new.deleting,
           cr' = [cr EXCEPT ![w.name] = new]
    PROVE  /\ [Advanced(w) EXCEPT !.copy = new] \in Call
           /\ CallOK([Advanced(w) EXCEPT !.copy = new])'
<1> DEFINE v == [Advanced(w) EXCEPT !.copy = new]
<1>0. Advanced(w) \in Call /\ Advanced(w).name = w.name
  BY AdvancedIs, Zenon
<1>1. v \in Call /\ v.name = w.name /\ v.copy = new /\ v.todo = Advanced(w).todo
  BY <1>0, Zenon DEF Call
<1> HIDE DEF v
<1>2. w.name \in DOMAIN cr
  BY Zenon DEF CallOK
<1>3. w.name \in DOMAIN cr' /\ cr'[w.name] = new
  BY <1>2, Zenon
<1>4. \A i \in 1 .. Len(v.todo) : v.todo[i] # "unfinalize"
  <2>1. Len(w.todo) \in Nat
    BY DEF Call
  <2>2. \A i \in 1 .. Len(w.todo) - 1 : i + 1 \in 1 .. Len(w.todo)
    BY <2>1
  <2>3. \A i \in 1 .. Len(w.todo) : w.todo[i] # "unfinalize"
    BY Zenon DEF CallOK, Installing
  <2>4. \A i \in 1 .. Len(w.todo) - 1 : Advanced(w).todo[i] = w.todo[i + 1]
    BY AdvancedIs, Zenon
  <2>5. \A i \in 1 .. Len(w.todo) - 1 : Advanced(w).todo[i] # "unfinalize"
    BY <2>2, <2>3, <2>4, Zenon
  <2>6. Len(Advanced(w).todo) = Len(w.todo) - 1
    BY AdvancedIs, Zenon
  <2> QED
    BY <1>1, <2>5, <2>6, Zenon
<1>5. Installing(v)'
  BY <1>1, <1>3, <1>4, Zenon DEF Installing
<1>6. CallOK(v)'
  BY <1>1, <1>3, <1>5, Zenon DEF CallOK
<1> QED
  BY <1>1, <1>6, Zenon DEF v

\* Only a call that installs meets the steps that write the resource.
LEMMA WriterInstalls ==
    ASSUME NEW w \in Call, CallOK(w), w.todo # <<>>,
           Head(w.todo) \in {"finalizer", "installing", "status"}
    PROVE  ~w.copy.deleting
<1>1. Head(w.todo) \notin Child \cup {"unfinalize"}
  BY ChildIs, Zenon
<1>2. Len(w.todo) \in Nat /\ 1 \in 1 .. Len(w.todo) /\ w.todo[1] = Head(w.todo)
  BY AdvancedIs DEF Call
<1> QED
  BY <1>1, <1>2, Zenon DEF CallOK, Cleaning

\* Whatever users do to a resource, the call under way for it is out of date, and
\* a finalizer that is there stays.
LEMMA UserLeavesCalls ==
    ASSUME NEW n, NEW w \in Call, CallOK(w), UNCHANGED clusterVars,
           \A m \in DOMAIN cr : m # n => m \in DOMAIN cr' /\ cr'[m] = cr[m],
           n \in DOMAIN cr /\ cr[n].finalizer => n \in DOMAIN cr' /\ cr'[n].finalizer
    PROVE  /\ [w EXCEPT !.fresh = @ /\ w.name # n] \in Call
           /\ CallOK([w EXCEPT !.fresh = @ /\ w.name # n])'
<1> DEFINE v == [w EXCEPT !.fresh = @ /\ w.name # n]
<1>1. v \in Call /\ v.name = w.name /\ v.copy = w.copy /\ v.todo = w.todo
      /\ (v.fresh => w.fresh /\ w.name # n)
  BY Zenon DEF Call
<1> HIDE DEF v
<1>2. Installing(w) => Installing(v)'
  BY <1>1, Zenon DEF Installing
<1>3. Cleaning(w) => Cleaning(v)'
  BY <1>1 DEF Cleaning, Remaining, clusterVars
<1>4. CallOK(v)'
  BY <1>1, <1>2, <1>3, Zenon DEF CallOK
<1> QED
  BY <1>1, <1>4, Zenon DEF v

\* The environment only takes children away.
LEMMA LossLeavesCalls ==
    ASSUME NEW w \in Call, CallOK(w), cr' = cr, objs' \subseteq objs,
           "ns" \in objs' /\ terminating => terminating'
    PROVE  CallOK(w)'
<1>1. Installing(w) => Installing(w)'
  BY Zenon DEF Installing
<1>2. Cleaning(w) => Cleaning(w)'
  BY Zenon DEF Cleaning, Remaining
<1> QED
  BY <1>1, <1>2, Zenon DEF CallOK

\* A call that begins with a cleanup has everything ahead of it.
LEMMA BeginsOK ==
    ASSUME NEW n \in DOMAIN cr, n \in Cluster, cr[n] \in Resource, cr' = cr, UNCHANGED clusterVars,
           NEW w, w = [name |-> n, copy |-> cr[n], fresh |-> TRUE, todo |-> Todo(cr[n])]
    PROVE  w \in Call /\ CallOK(w)'
<1>1. w.name = n /\ w.copy = cr[n] /\ w.todo = Todo(cr[n])
  BY Zenon
<1>2. cr[n].deleting \in BOOLEAN /\ cr[n].finalizer \in BOOLEAN
  BY Zenon DEF Resource
<1>3. CASE ~cr[n].deleting
  <2>1. Todo(cr[n]) \in Seq(Step \ {"unfinalize"}) /\ Todo(cr[n]) \in Seq(Step)
    BY <1>3, TodoInstalls
  <2>2. \A i \in 1 .. Len(Todo(cr[n])) : Todo(cr[n])[i] # "unfinalize"
    BY <2>1, ElementOfSeq
  <2>3. w \in Call
    BY <2>1, Zenon DEF Call
  <2>4. Installing(w)'
    BY <1>1, <1>3, <2>2, TodoInstalls, Zenon DEF Installing
  <2> QED
    BY <1>1, <1>3, <2>3, <2>4, Zenon DEF CallOK
<1>4. CASE cr[n].deleting /\ cr[n].finalizer
  <2>1. w \in Call
    BY <1>4, TodoCleans, Zenon DEF Call
  <2>2. /\ Len(w.todo) = 9 /\ w.todo[5] = "binding" /\ w.todo[6] = "role" /\ w.todo[8] = "ns"
        /\ \A i \in 1 .. 9 : w.todo[i] \in Child \cup {"unfinalize"} /\ (w.todo[i] = "unfinalize" <=> i = 9)
    BY <1>4, TodoCleans, Zenon
  <2>3. 5 \in 1 .. 9 /\ 6 \in 1 .. 9 /\ 8 \in 1 .. 9
    OBVIOUS
  <2>4. Remaining(w, "binding") /\ Remaining(w, "role") /\ Remaining(w, "ns")
    BY <2>2, <2>3, Zenon DEF Remaining
  <2>5. Cleaning(w)'
    <3>1. \A i \in 1 .. Len(w.todo) : /\ w.todo[i] \in Child \cup {"unfinalize"}
                                      /\ w.todo[i] = "unfinalize" <=> i = Len(w.todo)
      BY <2>2, Zenon
    <3> QED
      BY <2>4, <3>1, Zenon DEF Cleaning, Remaining
  <2> QED
    BY <1>1, <1>4, <2>1, <2>5, Zenon DEF CallOK
<1>5. CASE cr[n].deleting /\ ~cr[n].finalizer
  <2>1. Todo(cr[n]) = <<>>
    BY <1>5, Zenon DEF Todo
  <2>2. w \in Call
    BY <2>1 DEF Call
  <2> QED
    BY <1>1, <1>5, <2>1, <2>2, Zenon DEF CallOK
<1> QED
  BY <1>2, <1>3, <1>4, <1>5, Zenon

\* updateStatus changes the status only.
LEMMA StatusIs ==
    ASSUME NEW r \in Resource
    PROVE  /\ Status(r) \in Resource
           /\ Status(r).finalizer = r.finalizer /\ Status(r).deleting = r.deleting
<1> DEFINE a == IF "ds" \in objs THEN "ds" \in ready ELSE r.agentReady
           b == IF "deploy" \in objs THEN "deploy" \in ready ELSE r.controllerReady
           p == IF a /\ b THEN "Running" ELSE "Installing"
<1>1. a \in BOOLEAN /\ b \in BOOLEAN
  <2>1. r.agentReady \in BOOLEAN /\ r.controllerReady \in BOOLEAN
    BY Zenon DEF Resource
  <2>2. ASSUME NEW P \in BOOLEAN, NEW Q \in BOOLEAN, NEW x \in BOOLEAN PROVE (IF P THEN Q ELSE x) \in BOOLEAN
    BY Zenon
  <2>3. ("ds" \in objs) \in BOOLEAN /\ ("ds" \in ready) \in BOOLEAN
        /\ ("deploy" \in objs) \in BOOLEAN /\ ("deploy" \in ready) \in BOOLEAN
    OBVIOUS
  <2> QED
    BY <2>1, <2>2, <2>3, Zenon
<1>2. p \in Phase
  BY Zenon DEF Phase
<1>3. Status(r) = [r EXCEPT !.agentReady = a, !.controllerReady = b, !.phase = p]
  BY Zenon DEF Status
<1> HIDE DEF a, b, p
<1>4. /\ [r EXCEPT !.agentReady = a, !.controllerReady = b, !.phase = p] \in Resource
      /\ [r EXCEPT !.agentReady = a, !.controllerReady = b, !.phase = p].finalizer = r.finalizer
      /\ [r EXCEPT !.agentReady = a, !.controllerReady = b, !.phase = p].deleting = r.deleting
  BY <1>1, <1>2 DEF Resource
<1> QED
  BY <1>3, <1>4, Zenon

\* Where a call stands after a step it took itself, when every Get of a
\* cluster-scoped child succeeds.
LEMMA ProgressOK ==
    ASSUME ReadFaults \cap ClusterScoped = {}, OwnerInv, NEW w \in work, Progress(w)
    PROVE  \A v \in work' : v \in Call /\ CallOK(v)'
<1>1. w \in Call /\ CallOK(w)
  BY Zenon DEF OwnerInv, KeckTypeOK
<1>2. ASSUME NEW c, At(w, c) PROVE w.todo # <<>> /\ Head(w.todo) = c
  BY <1>2, Zenon DEF At
<1>3. ASSUME NEW c \in Child, Ensured(w, c) PROVE \A v \in work' : v \in Call /\ CallOK(v)'
  <2>1. ~w.copy.deleting /\ At(w, c) /\ cr' = cr /\ work' = {Advanced(w)}
    BY <1>3, Zenon DEF Ensured
  <2>2. c # "finalizer"
    BY ChildIs, Zenon
  <2> QED
    BY <1>1, <1>2, <2>1, <2>2, AdvancedIs, InstallAdvances, Zenon
<1>4. ASSUME NEW c \in Child, Cleaned(w, c) PROVE \A v \in work' : v \in Call /\ CallOK(v)'
  <2>1. w.copy.deleting /\ At(w, c) /\ cr' = cr /\ work' = {Advanced(w)}
    BY <1>4, Zenon DEF Cleaned
  <2>2. /\ objs' \subseteq objs /\ (terminating => terminating')
        /\ c \in {"role", "binding"} => c \notin objs'
        /\ c = "ns" => "ns" \notin objs' \/ terminating'
    BY <1>4, Zenon DEF Cleaned
  <2> QED
    BY <1>1, <1>2, <2>1, <2>2, AdvancedIs, CleanupAdvances, Zenon
<1>5. ASSUME NEW c \in Child, EnsureFails(w, c) PROVE \A v \in work' : v \in Call /\ CallOK(v)'
  <2>1. ~w.copy.deleting /\ At(w, c) /\ cr' = cr /\ work' \subseteq {Advanced(w)}
    BY <1>5, Zenon DEF EnsureFails, Skip, Abort
  <2>2. c # "finalizer"
    BY ChildIs, Zenon
  <2> QED
    BY <1>1, <1>2, <2>1, <2>2, AdvancedIs, InstallAdvances, Zenon
<1>6. ASSUME NEW c \in Child, CleanupFails(w, c) PROVE \A v \in work' : v \in Call /\ CallOK(v)'
  <2>1. w.copy.deleting /\ At(w, c) /\ (Abort(w) \/ (c \in ReadFaults /\ Skip(w)))
    BY <1>6, Zenon DEF CleanupFails
  <2>2. CASE Abort(w)
    BY <2>2, Zenon DEF Abort
  <2>3. CASE c \in ReadFaults /\ Skip(w)
    <3>1. cr' = cr /\ objs' = objs /\ terminating' = terminating /\ work' = {Advanced(w)}
      BY <2>3, Zenon DEF Skip, clusterVars
    <3>2. c \notin {"role", "binding", "ns"}
      BY <2>3, Zenon DEF ClusterScoped
    <3> QED
      BY <1>1, <1>2, <2>1, <3>1, <3>2, AdvancedIs, CleanupAdvances, Zenon
  <2> QED
    BY <2>1, <2>2, <2>3, Zenon
<1>7. ASSUME NEW new \in Resource, new.finalizer, ~new.deleting, NEW rest, Write(w, new, rest),
             w.fresh, w.todo # <<>>, Head(w.todo) \in {"finalizer", "installing", "status"}
      PROVE  \A v \in work' : v \in Call /\ CallOK(v)'
  <2>1. cr' = [cr EXCEPT ![w.name] = new] /\ work' = {[Advanced(w) EXCEPT !.copy = new]}
    BY <1>7, Zenon DEF Write
  <2>2. ~w.copy.deleting
    BY <1>1, <1>7, WriterInstalls, Zenon
  <2> QED
    BY <1>1, <1>7, <2>1, <2>2, WriteAdvances, Zenon
<1>8. ASSUME Abort(w) PROVE \A v \in work' : v \in Call /\ CallOK(v)'
  BY <1>8, Zenon DEF Abort
<1>9. CASE AddFinalizer(w)
  <2>1. ~w.copy.deleting
    BY <1>1, <1>2, <1>9, WriterInstalls, Zenon DEF AddFinalizer
  <2>2. [w.copy EXCEPT !.finalizer = TRUE] \in Resource
        /\ [w.copy EXCEPT !.finalizer = TRUE].finalizer
        /\ ~[w.copy EXCEPT !.finalizer = TRUE].deleting
    BY <1>1, <2>1, Zenon DEF Call, Resource
  <2> QED
    BY <1>2, <1>7, <1>8, <1>9, <2>2, Zenon DEF AddFinalizer
<1>10. CASE RemoveFinalizer(w)
  <2>1. CASE Abort(w)
    BY <1>8, <2>1, Zenon
  <2>2. CASE w.fresh /\ work' = {Advanced(w)} /\ UNCHANGED clusterVars
    <3>1. w.todo # <<>> /\ w.todo[1] = "unfinalize" /\ Len(w.todo) \in Nat /\ 1 \in 1 .. Len(w.todo)
      BY <1>1, <1>2, <1>10, AdvancedIs DEF RemoveFinalizer, Call
    <3>2. w.copy.deleting /\ w.copy.finalizer /\ Cleaning(w)
      BY <1>1, <3>1, Zenon DEF CallOK, Installing
    <3>3. Len(w.todo) = 1
      BY <3>1, <3>2, Zenon DEF Cleaning
    <3>4. \A c \in {"role", "binding", "ns"} : ~Remaining(w, c)
      BY <3>1, <3>3 DEF Remaining
    <3>5. Advanced(w) \in Call /\ Advanced(w).copy = w.copy /\ Len(Advanced(w).todo) = 0
      <4>1. Advanced(w) \in Call /\ Advanced(w).copy = w.copy
            /\ Len(Advanced(w).todo) = Len(w.todo) - 1
        BY <1>1, <3>1, AdvancedIs, Zenon
      <4> QED
        BY <3>3, <4>1
    <3>6. Advanced(w).todo = <<>>
      BY <3>5 DEF Call
    <3>7. Cleaning(Advanced(w))'
      BY <2>2, <3>2, <3>4, <3>5 DEF Cleaning, Remaining, clusterVars
    <3> QED
      BY <2>2, <3>2, <3>5, <3>6, <3>7, Zenon DEF CallOK
  <2> QED
    BY <1>10, <2>1, <2>2, Zenon DEF RemoveFinalizer
<1>11. ASSUME w.todo # <<>>, Head(w.todo) \in {"installing", "status"}
       PROVE  ~w.copy.deleting /\ w.copy.finalizer /\ w.copy \in Resource
  BY <1>1, <1>11, WriterInstalls, Zenon DEF CallOK, Installing, Call
<1>12. CASE MarkInstalling(w)
  <2> DEFINE new == [w.copy EXCEPT !.phase = "Installing"]
  <2>1. w.todo # <<>> /\ Head(w.todo) = "installing"
    BY <1>2, <1>12, Zenon DEF MarkInstalling
  <2>2. new \in Resource /\ new.finalizer /\ ~new.deleting
        /\ new.finalizer = w.copy.finalizer /\ new.deleting = w.copy.deleting
    BY <1>11, <2>1, Zenon DEF Resource, Phase
  <2>3. CASE w.fresh /\ Write(w, new, {w.name})
    BY <1>7, <2>1, <2>2, <2>3, Zenon
  <2>4. CASE work' = {[Advanced(w) EXCEPT !.copy = new]} /\ cr' = cr
    <3> DEFINE v == [Advanced(w) EXCEPT !.copy = new]
    <3>1. CallOK(Advanced(w))' /\ Advanced(w) \in Call /\ Advanced(w).copy = w.copy
      BY <1>1, <1>11, <2>1, <2>4, AdvancedIs, InstallAdvances, Zenon
    <3> HIDE DEF new
    <3>2. v \in Call /\ v.copy = new /\ v.name = Advanced(w).name
          /\ v.todo = Advanced(w).todo /\ v.fresh = Advanced(w).fresh
      BY <2>2, <3>1, Zenon DEF Call
    <3> HIDE DEF v
    <3>3. Installing(v)'
      BY <1>11, <2>1, <2>2, <3>1, <3>2, Zenon DEF CallOK, Installing
    <3>4. CallOK(v)'
      <4>1. ~v.copy.deleting /\ v.copy.finalizer = Advanced(w).copy.finalizer
            /\ v.copy.deleting = Advanced(w).copy.deleting
        BY <2>2, <3>1, <3>2, Zenon
      <4> QED
        BY <3>1, <3>2, <3>3, <4>1, Zenon DEF CallOK
    <3> QED
      BY <2>4, <3>2, <3>4, Zenon DEF v
  <2> QED
    BY <1>12, <2>3, <2>4, Zenon DEF MarkInstalling
<1>13. CASE updateStatus(w)
  <2>1. w.todo # <<>> /\ Head(w.todo) = "status"
    BY <1>2, <1>13, Zenon DEF updateStatus
  <2>2. Status(w.copy) \in Resource /\ Status(w.copy).finalizer /\ ~Status(w.copy).deleting
    BY <1>11, <2>1, StatusIs, Zenon
  <2>3. CASE Skip(w)
    BY <1>1, <1>11, <2>1, <2>3, AdvancedIs, InstallAdvances, Zenon DEF Skip
  <2>4. CASE w.fresh /\ \E rest : Write(w, Status(w.copy), rest)
    BY <1>7, <2>1, <2>2, <2>4, Zenon
  <2> QED
    BY <1>13, <2>3, <2>4, Zenon DEF updateStatus
<1>14. CASE Return(w)
  BY <1>14, Zenon DEF Return
<1> QED
  BY <1>3, <1>4, <1>5, <1>6, <1>9, <1>10, <1>12, <1>13, <1>14, Zenon DEF Progress

\* Users, each in one step: what a change leaves of the resources.
LEMMA UserKeepsFinalizers ==
    ASSUME NEW n, KeckTypeOK,
           \/ \E s \in SpecVersion : UserCreates(n, s) \/ UserEdits(n, s)
           \/ UserDeletes(n)
    PROVE  /\ work' = Outdated(n) /\ UNCHANGED clusterVars
           /\ \A m \in DOMAIN cr : m # n => m \in DOMAIN cr' /\ cr'[m] = cr[m]
           /\ n \in DOMAIN cr /\ cr[n].finalizer => n \in DOMAIN cr' /\ cr'[n].finalizer
<1>1. CASE \E s \in SpecVersion : UserCreates(n, s)
  BY <1>1, Zenon DEF UserCreates, Edited
<1>2. CASE \E s \in SpecVersion : UserEdits(n, s)
  BY <1>2, Zenon DEF UserEdits, Edited, KeckTypeOK, Resource
<1>3. CASE UserDeletes(n)
  BY <1>3, Zenon DEF UserDeletes, Edited, KeckTypeOK, Resource, Restrict
<1> QED
  BY <1>1, <1>2, <1>3, Zenon

\* Every step leaves good calls.
LEMMA CallsStep ==
    ASSUME ReadFaults \cap ClusterScoped = {}, OwnerInv, KeckNext
    PROVE  \A v \in work' : v \in Call /\ CallOK(v)'
<1>1. \A w \in work : w \in Call /\ CallOK(w)
  BY Zenon DEF OwnerInv, KeckTypeOK
<1>2. ASSUME NEW n \in Cluster, Begin(n) PROVE \A v \in work' : v \in Call /\ CallOK(v)'
  <2> SUFFICES ASSUME NEW v \in work' PROVE v \in Call /\ CallOK(v)'
    BY Zenon
  <2>1. n \in DOMAIN cr /\ cr' = cr /\ UNCHANGED clusterVars
        /\ v = [name |-> n, copy |-> cr[n], fresh |-> TRUE, todo |-> Todo(cr[n])]
    BY <1>2, Zenon DEF Begin
  <2>2. cr[n] \in Resource
    BY <2>1, Zenon DEF OwnerInv, KeckTypeOK
  <2> QED
    BY <2>1, <2>2, BeginsOK, Zenon
<1>3. ASSUME NEW w \in work, Progress(w) PROVE \A v \in work' : v \in Call /\ CallOK(v)'
  BY <1>3, ProgressOK, Zenon
<1>4. ASSUME NEW n, \/ \E s \in SpecVersion : UserCreates(n, s) \/ UserEdits(n, s)
                    \/ UserDeletes(n)
      PROVE  \A v \in work' : v \in Call /\ CallOK(v)'
  <2>1. /\ work' = Outdated(n) /\ UNCHANGED clusterVars
        /\ \A m \in DOMAIN cr : m # n => m \in DOMAIN cr' /\ cr'[m] = cr[m]
        /\ n \in DOMAIN cr /\ cr[n].finalizer => n \in DOMAIN cr' /\ cr'[n].finalizer
    BY <1>4, UserKeepsFinalizers, Zenon DEF OwnerInv
  <2>2. \A v \in work' : \E w \in work : v = [w EXCEPT !.fresh = @ /\ w.name # n]
    BY <2>1, Zenon DEF Outdated
  <2> QED
    BY <1>1, <2>1, <2>2, UserLeavesCalls
<1>5. ASSUME work' = work, cr' = cr, objs' \subseteq objs,
             "ns" \in objs' /\ terminating => terminating'
      PROVE  \A v \in work' : v \in Call /\ CallOK(v)'
  BY <1>1, <1>5, LossLeavesCalls, Zenon
<1>6. ASSUME NEW c \in Watched, PodsChange(c) PROVE \A v \in work' : v \in Call /\ CallOK(v)'
  BY <1>5, <1>6, Zenon DEF PodsChange
<1>7. ASSUME NEW c \in Child, ChildRemoved(c) \/ NamespaceDrops(c)
      PROVE  \A v \in work' : v \in Call /\ CallOK(v)'
  BY <1>5, <1>7, Zenon DEF ChildRemoved, NamespaceDrops, Gone
<1>8. CASE NamespaceGone
  BY <1>5, <1>8, Zenon DEF NamespaceGone, Gone
<1>9. CASE OperatorDrops \/ OperatorRestarts
  BY <1>9, Zenon DEF OperatorDrops, OperatorRestarts
<1>10. CASE Resync
  BY <1>5, <1>10, Zenon DEF Resync, clusterVars
<1> QED
  BY <1>2, <1>3, <1>4, <1>6, <1>7, <1>8, <1>9, <1>10, Zenon DEF KeckNext

-----------------------------------------------------------------------------
(* Children have an owner.                                                 *)

\* A child without an owner cannot come about: the last finalizer goes only
\* when nothing is left that it protects.
LEMMA OwnedStep ==
    ASSUME OwnerInv, KeckNext
    PROVE  ChildrenHaveOwner' /\ (objs' \ ClusterScoped # {} => "ns" \in objs')
<1> DEFINE Owned == \E n \in DOMAIN cr : cr[n].finalizer
<1>1. \A w \in work : w \in Call /\ CallOK(w)
  BY Zenon DEF OwnerInv, KeckTypeOK
<1>2. ChildrenHaveOwner /\ (objs \ ClusterScoped # {} => "ns" \in objs)
  BY Zenon DEF OwnerInv
<1>3. ASSUME objs' \subseteq objs, Owned => Owned',
             \A c \in objs' \ ClusterScoped : "ns" \in objs' /\ (terminating => terminating')
      PROVE  ChildrenHaveOwner' /\ (objs' \ ClusterScoped # {} => "ns" \in objs')
  <2>1. ASSUME NEW c \in objs' \ {"ns"} PROVE Owned' \/ (terminating' /\ c \notin ClusterScoped)
    BY <1>2, <1>3, Zenon DEF ChildrenHaveOwner
  <2>2. ChildrenHaveOwner'
    BY <2>1, Zenon DEF ChildrenHaveOwner
  <2> QED
    BY <1>3, <2>2, Zenon
<1>4. ASSUME cr' = cr, UNCHANGED clusterVars
      PROVE  ChildrenHaveOwner' /\ (objs' \ ClusterScoped # {} => "ns" \in objs')
  BY <1>2, <1>3, <1>4, Zenon DEF clusterVars
<1>5. ASSUME NEW w \in work, NEW new \in Resource, NEW rest, Write(w, new, rest),
             w.fresh, w.todo # <<>>, w.copy.finalizer => new.finalizer
      PROVE  ChildrenHaveOwner' /\ (objs' \ ClusterScoped # {} => "ns" \in objs')
  <2>1. w.name \in DOMAIN cr /\ cr[w.name].finalizer = w.copy.finalizer
    BY <1>1, <1>5, Zenon DEF CallOK
  <2>2. cr' = [cr EXCEPT ![w.name] = new] /\ UNCHANGED clusterVars
    BY <1>5, Zenon DEF Write
  <2>3. Owned => Owned'
    BY <1>5, <2>1, <2>2, Zenon
  <2> QED
    BY <1>2, <1>3, <2>2, <2>3, Zenon DEF clusterVars
<1>6. ASSUME NEW w \in work, Progress(w)
      PROVE  ChildrenHaveOwner' /\ (objs' \ ClusterScoped # {} => "ns" \in objs')
  <2>1. ASSUME NEW c \in Child, Ensured(w, c)
        PROVE  ChildrenHaveOwner' /\ (objs' \ ClusterScoped # {} => "ns" \in objs')
    <3>1. c # "finalizer" /\ w.todo # <<>> /\ Head(w.todo) = c /\ ~w.copy.deleting
      BY <2>1, ChildIs, Zenon DEF Ensured, At
    <3>2. Owned
      BY <1>1, <3>1, Zenon DEF CallOK, Installing
    <3>3. cr' = cr /\ objs' = objs \cup {c} /\ (c \in objs \/ Creatable(c))
      BY <2>1, Zenon DEF Ensured
    <3>4. ChildrenHaveOwner'
      BY <3>2, <3>3, Zenon DEF ChildrenHaveOwner
    <3>5. objs' \ ClusterScoped # {} => "ns" \in objs'
      BY <1>2, <3>3, Zenon DEF Creatable
    <3> QED
      BY <3>4, <3>5, Zenon
  <2>2. ASSUME NEW c \in Child, Cleaned(w, c)
        PROVE  ChildrenHaveOwner' /\ (objs' \ ClusterScoped # {} => "ns" \in objs')
    <3>1. cr' = cr /\ objs' \subseteq objs /\ ("ns" \in objs => "ns" \in objs')
          /\ (terminating => terminating')
      BY <2>2, Zenon DEF Cleaned
    <3> QED
      BY <1>2, <1>3, <3>1, Zenon
  <2>3. ASSUME NEW c \in Child, EnsureFails(w, c) \/ CleanupFails(w, c)
        PROVE  ChildrenHaveOwner' /\ (objs' \ ClusterScoped # {} => "ns" \in objs')
    BY <1>4, <2>3, Zenon DEF EnsureFails, CleanupFails, Skip, Abort
  <2>4. CASE AddFinalizer(w)
    <3>1. [w.copy EXCEPT !.finalizer = TRUE] \in Resource
          /\ [w.copy EXCEPT !.finalizer = TRUE].finalizer
      BY <1>1, Zenon DEF Call, Resource
    <3> QED
      BY <1>4, <1>5, <2>4, <3>1, Zenon DEF AddFinalizer, At, Abort
  <2>5. CASE RemoveFinalizer(w)
    <3>1. CASE Abort(w)
      BY <1>4, <3>1, Zenon DEF Abort
    <3>2. CASE UNCHANGED clusterVars
      <4>1. w.todo # <<>> /\ w.todo[1] = "unfinalize" /\ Len(w.todo) \in Nat /\ 1 \in 1 .. Len(w.todo)
        BY <1>1, <2>5, AdvancedIs DEF RemoveFinalizer, At, Call
      <4>2. Cleaning(w)
        BY <1>1, <4>1, Zenon DEF CallOK, Installing
      <4>3. Len(w.todo) = 1
        BY <4>1, <4>2, Zenon DEF Cleaning
      <4>4. \A c \in {"role", "binding", "ns"} : ~Remaining(w, c)
        BY <4>1, <4>3 DEF Remaining
      <4>5. "role" \notin objs /\ "binding" \notin objs /\ ("ns" \in objs => terminating)
        BY <4>2, <4>4, Zenon DEF Cleaning
      <4>6. ChildrenHaveOwner'
        BY <1>2, <3>2, <4>5, Zenon DEF ChildrenHaveOwner, ClusterScoped, clusterVars
      <4> QED
        BY <1>2, <3>2, <4>6, Zenon DEF clusterVars
    <3> QED
      BY <2>5, <3>1, <3>2, Zenon DEF RemoveFinalizer
  <2>6. CASE MarkInstalling(w)
    <3>1. [w.copy EXCEPT !.phase = "Installing"] \in Resource
          /\ [w.copy EXCEPT !.phase = "Installing"].finalizer = w.copy.finalizer
      BY <1>1, Zenon DEF Call, Resource, Phase
    <3> QED
      BY <1>4, <1>5, <2>6, <3>1, Zenon DEF MarkInstalling, At
  <2>7. CASE updateStatus(w)
    <3>1. Status(w.copy) \in Resource /\ Status(w.copy).finalizer = w.copy.finalizer
      BY <1>1, StatusIs, Zenon DEF Call
    <3> QED
      BY <1>4, <1>5, <2>7, <3>1, Zenon DEF updateStatus, At, Skip
  <2>8. CASE Return(w)
    BY <1>4, <2>8, Zenon DEF Return
  <2> QED
    BY <1>6, <2>1, <2>2, <2>3, <2>4, <2>5, <2>6, <2>7, <2>8, Zenon DEF Progress
<1>7. ASSUME NEW n, \/ \E s \in SpecVersion : UserCreates(n, s) \/ UserEdits(n, s)
                    \/ UserDeletes(n)
      PROVE  ChildrenHaveOwner' /\ (objs' \ ClusterScoped # {} => "ns" \in objs')
  <2>1. /\ UNCHANGED clusterVars
        /\ \A m \in DOMAIN cr : m # n => m \in DOMAIN cr' /\ cr'[m] = cr[m]
        /\ n \in DOMAIN cr /\ cr[n].finalizer => n \in DOMAIN cr' /\ cr'[n].finalizer
    BY <1>7, UserKeepsFinalizers DEF OwnerInv
  <2>2. Owned => Owned'
    BY <2>1, Zenon
  <2> QED
    BY <1>2, <1>3, <2>1, <2>2, Zenon DEF clusterVars
<1>8. ASSUME NEW c \in Child, ChildRemoved(c) \/ NamespaceDrops(c)
      PROVE  ChildrenHaveOwner' /\ (objs' \ ClusterScoped # {} => "ns" \in objs')
  <2>1. c # "ns" /\ cr' = cr /\ objs' = objs \ {c} /\ terminating' = terminating
    BY <1>8, Zenon DEF ChildRemoved, NamespaceDrops, Gone, ClusterScoped
  <2> QED
    BY <1>2, <1>3, <2>1, Zenon
<1>9. CASE NamespaceGone
  <2>1. objs' = objs \ {"ns"} /\ objs \subseteq ClusterScoped /\ cr' = cr
    BY <1>9, Zenon DEF NamespaceGone, Gone
  <2> QED
    BY <1>3, <2>1, Zenon
<1>10. ASSUME NEW c \in Watched, PodsChange(c)
       PROVE  ChildrenHaveOwner' /\ (objs' \ ClusterScoped # {} => "ns" \in objs')
  BY <1>2, <1>3, <1>10, Zenon DEF PodsChange
<1>11. ASSUME NEW n \in Cluster, Begin(n)
       PROVE  ChildrenHaveOwner' /\ (objs' \ ClusterScoped # {} => "ns" \in objs')
  BY <1>4, <1>11, Zenon DEF Begin
<1>12. CASE OperatorDrops \/ OperatorRestarts \/ Resync
  BY <1>4, <1>12, Zenon DEF OperatorDrops, OperatorRestarts, Resync
<1> QED
  BY <1>6, <1>7, <1>8, <1>9, <1>10, <1>11, <1>12, Zenon DEF KeckNext

-----------------------------------------------------------------------------
(* Types.                                                                  *)

\* The resources keep their types.
LEMMA ResourcesTyped ==
    ASSUME KeckTypeOK, KeckNext
    PROVE  DOMAIN cr' \subseteq Cluster /\ \A n \in DOMAIN cr' : cr'[n] \in Resource
<1>1. DOMAIN cr \subseteq Cluster /\ \A n \in DOMAIN cr : cr[n] \in Resource
  BY Zenon DEF KeckTypeOK
<1>2. \A w \in work : w \in Call
  BY Zenon DEF KeckTypeOK
<1>3. ASSUME cr' = cr PROVE DOMAIN cr' \subseteq Cluster /\ \A n \in DOMAIN cr' : cr'[n] \in Resource
  BY <1>1, <1>3, Zenon
<1>4. ASSUME NEW w \in work, NEW new \in Resource, cr' = [cr EXCEPT ![w.name] = new]
      PROVE  DOMAIN cr' \subseteq Cluster /\ \A n \in DOMAIN cr' : cr'[n] \in Resource
  BY <1>1, <1>4, Zenon
<1>5. ASSUME NEW w \in work, Progress(w)
      PROVE  DOMAIN cr' \subseteq Cluster /\ \A n \in DOMAIN cr' : cr'[n] \in Resource
  <2>1. w.copy \in Resource
    BY <1>2, Zenon DEF Call
  <2>2. CASE \E c \in Child : Ensured(w, c) \/ Cleaned(w, c) \/ EnsureFails(w, c) \/ CleanupFails(w, c)
    BY <1>3, <2>2, Zenon DEF Ensured, Cleaned, EnsureFails, CleanupFails, Skip, Abort
  <2>3. CASE AddFinalizer(w)
    <3>1. [w.copy EXCEPT !.finalizer = TRUE] \in Resource
      BY <2>1, Zenon DEF Resource
    <3> QED
      BY <1>3, <1>4, <2>3, <3>1, Zenon DEF AddFinalizer, Write, Abort
  <2>4. CASE RemoveFinalizer(w)
    BY <1>1, <1>3, <2>4, Zenon DEF RemoveFinalizer, Abort, Restrict
  <2>5. CASE MarkInstalling(w)
    <3>1. [w.copy EXCEPT !.phase = "Installing"] \in Resource
      BY <2>1, Zenon DEF Resource, Phase
    <3> QED
      BY <1>3, <1>4, <2>5, <3>1, Zenon DEF MarkInstalling, Write
  <2>6. CASE updateStatus(w)
    <3>1. Status(w.copy) \in Resource
      BY <2>1, StatusIs, Zenon
    <3> QED
      BY <1>3, <1>4, <2>6, <3>1, Zenon DEF updateStatus, Write, Skip
  <2>7. CASE Return(w)
    BY <1>3, <2>7, Zenon DEF Return
  <2> QED
    BY <1>5, <2>2, <2>3, <2>4, <2>5, <2>6, <2>7, Zenon DEF Progress
<1>6. ASSUME NEW n \in Cluster, NEW s \in SpecVersion, UserCreates(n, s)
      PROVE  DOMAIN cr' \subseteq Cluster /\ \A m \in DOMAIN cr' : cr'[m] \in Resource
  <2>1. [spec |-> s, deleting |-> FALSE, finalizer |-> FALSE, phase |-> "",
         agentReady |-> FALSE, controllerReady |-> FALSE] \in Resource
    BY Zenon DEF Resource, Phase
  <2> QED
    BY <1>1, <1>6, <2>1, Zenon DEF UserCreates
<1>7. ASSUME NEW n \in Cluster, NEW s \in SpecVersion, UserEdits(n, s)
      PROVE  DOMAIN cr' \subseteq Cluster /\ \A m \in DOMAIN cr' : cr'[m] \in Resource
  BY <1>1, <1>7, Zenon DEF UserEdits, Resource
<1>8. ASSUME NEW n \in Cluster, UserDeletes(n)
      PROVE  DOMAIN cr' \subseteq Cluster /\ \A m \in DOMAIN cr' : cr'[m] \in Resource
  BY <1>1, <1>8 DEF UserDeletes, Resource, Restrict
<1>9. ASSUME NEW n \in Cluster, Begin(n)
      PROVE  DOMAIN cr' \subseteq Cluster /\ \A m \in DOMAIN cr' : cr'[m] \in Resource
  BY <1>3, <1>9, Zenon DEF Begin
<1>10. CASE \/ \E c \in Watched : PodsChange(c)
            \/ \E c \in Child : ChildRemoved(c) \/ NamespaceDrops(c)
            \/ NamespaceGone \/ OperatorDrops \/ OperatorRestarts \/ Resync
  BY <1>3, <1>10, Zenon DEF PodsChange, ChildRemoved, NamespaceDrops, Gone, NamespaceGone,
                     OperatorDrops, OperatorRestarts, Resync
<1> QED
  BY <1>5, <1>6, <1>7, <1>8, <1>9, <1>10, Zenon DEF KeckNext

\* So do the calls under way.
LEMMA CallsTyped ==
    ASSUME KeckTypeOK, KeckNext
    PROVE  \A v \in work' : v \in Call
<1>1. \A w \in work : w \in Call
  BY Zenon DEF KeckTypeOK
<1>2. ASSUME NEW n \in Cluster, Begin(n), NEW v \in work' PROVE v \in Call
  <2>1. n \in DOMAIN cr /\ cr' = cr /\ UNCHANGED clusterVars
        /\ v = [name |-> n, copy |-> cr[n], fresh |-> TRUE, todo |-> Todo(cr[n])]
    BY <1>2, Zenon DEF Begin
  <2>2. cr[n] \in Resource
    BY <2>1, Zenon DEF KeckTypeOK
  <2> QED
    BY <2>1, <2>2, BeginsOK, Zenon
<1>3. ASSUME NEW w \in work, Progress(w) PROVE \A v \in work' : v \in Call
  <2>1. w.copy \in Resource
    BY <1>1, Zenon DEF Call
  <2>2. ASSUME w.todo # <<>>, NEW new \in Resource
        PROVE  Advanced(w) \in Call /\ [Advanced(w) EXCEPT !.copy = new] \in Call
    <3>1. Advanced(w) \in Call
      BY <1>1, <2>2, AdvancedIs, Zenon
    <3> QED
      BY <3>1, Zenon DEF Call
  <2>3. CASE \E c \in Child : Ensured(w, c) \/ Cleaned(w, c) \/ EnsureFails(w, c) \/ CleanupFails(w, c)
    <3>1. w.todo # <<>> /\ work' \subseteq {Advanced(w)}
      BY <2>3, Zenon DEF Ensured, Cleaned, EnsureFails, CleanupFails, At, Skip, Abort
    <3> QED
      BY <2>1, <2>2, <3>1, Zenon
  <2>4. CASE AddFinalizer(w)
    <3>1. [w.copy EXCEPT !.finalizer = TRUE] \in Resource
      BY <2>1, Zenon DEF Resource
    <3> QED
      BY <2>2, <2>4, <3>1, Zenon DEF AddFinalizer, At, Write, Abort
  <2>5. CASE RemoveFinalizer(w) \/ Return(w)
    BY <2>1, <2>2, <2>5, Zenon DEF RemoveFinalizer, Return, At, Abort
  <2>6. CASE MarkInstalling(w)
    <3>1. [w.copy EXCEPT !.phase = "Installing"] \in Resource
      BY <2>1, Zenon DEF Resource, Phase
    <3> QED
      BY <2>2, <2>6, <3>1, Zenon DEF MarkInstalling, At, Write
  <2>7. CASE updateStatus(w)
    <3>1. Status(w.copy) \in Resource
      BY <2>1, StatusIs, Zenon
    <3> QED
      BY <2>2, <2>7, <3>1, Zenon DEF updateStatus, At, Write, Skip
  <2> QED
    BY <1>3, <2>3, <2>4, <2>5, <2>6, <2>7, Zenon DEF Progress
<1>4. ASSUME NEW n, work' = Outdated(n) PROVE \A v \in work' : v \in Call
  <2>1. \A w \in work : [w EXCEPT !.fresh = @ /\ w.name # n] \in Call
    BY <1>1, Zenon DEF Call
  <2> QED
    BY <1>4, <2>1, Zenon DEF Outdated
<1>5. ASSUME NEW n \in Cluster,
             \/ \E s \in SpecVersion : UserCreates(n, s) \/ UserEdits(n, s)
             \/ UserDeletes(n)
      PROVE  \A v \in work' : v \in Call
  BY <1>4, <1>5, Zenon DEF UserCreates, UserEdits, UserDeletes, Edited
<1>6. CASE \/ \E c \in Watched : PodsChange(c)
           \/ \E c \in Child : ChildRemoved(c) \/ NamespaceDrops(c)
           \/ NamespaceGone \/ OperatorDrops \/ OperatorRestarts \/ Resync
  BY <1>1, <1>6, Zenon DEF PodsChange, ChildRemoved, NamespaceDrops, Gone, NamespaceGone,
                    OperatorDrops, OperatorRestarts, Resync
<1> QED
  BY <1>2, <1>3, <1>5, <1>6, Zenon DEF KeckNext

\* There is one worker.
LEMMA OneCall ==
    ASSUME KeckTypeOK, KeckNext
    PROVE  \A v, w \in work' : v = w
<1>1. \A v, w \in work : v = w
  BY Zenon DEF KeckTypeOK
<1>2. ASSUME NEW n \in Cluster, Begin(n) PROVE \A v, w \in work' : v = w
  BY <1>2, Zenon DEF Begin
<1>3. ASSUME NEW w \in work, Progress(w) PROVE \A u, v \in work' : u = v
  <2>1. ASSUME \E new, rest : Write(w, new, rest)
        PROVE  \A u, v \in work' : u = v
    BY <2>1, Zenon DEF Write
  <2>2. CASE \E c \in Child : Ensured(w, c) \/ Cleaned(w, c) \/ EnsureFails(w, c) \/ CleanupFails(w, c)
    BY <2>2, Zenon DEF Ensured, Cleaned, EnsureFails, CleanupFails, Skip, Abort
  <2>3. CASE AddFinalizer(w) \/ RemoveFinalizer(w)
    BY <2>1, <2>3, Zenon DEF AddFinalizer, RemoveFinalizer, Abort
  <2>4. CASE MarkInstalling(w) \/ updateStatus(w) \/ Return(w)
    BY <2>1, <2>4, Zenon DEF MarkInstalling, updateStatus, Skip, Return
  <2> QED
    BY <1>3, <2>2, <2>3, <2>4, Zenon DEF Progress
<1>4. ASSUME NEW n, work' = Outdated(n) PROVE \A v, w \in work' : v = w
  BY <1>1, <1>4 DEF Outdated
<1>5. ASSUME NEW n \in Cluster,
             \/ \E s \in SpecVersion : UserCreates(n, s) \/ UserEdits(n, s)
             \/ UserDeletes(n)
      PROVE  \A v, w \in work' : v = w
  BY <1>4, <1>5, Zenon DEF UserCreates, UserEdits, UserDeletes, Edited
<1>6. CASE \/ \E c \in Watched : PodsChange(c)
           \/ \E c \in Child : ChildRemoved(c) \/ NamespaceDrops(c)
           \/ NamespaceGone \/ OperatorDrops \/ OperatorRestarts \/ Resync
  BY <1>1, <1>6, Zenon DEF PodsChange, ChildRemoved, NamespaceDrops, Gone, NamespaceGone,
                    OperatorDrops, OperatorRestarts, Resync
<1> QED
  BY <1>2, <1>3, <1>5, <1>6, Zenon DEF KeckNext

\* The children and the namespace keep their types.
LEMMA ClusterTyped ==
    ASSUME KeckTypeOK, KeckNext
    PROVE  /\ objs' \subseteq Child /\ applied' \in [Watched -> SpecVersion]
           /\ ready' \subseteq objs' \cap Watched /\ terminating' \in BOOLEAN
           /\ terminating' => "ns" \in objs'
<1> DEFINE Typed == /\ objs \subseteq Child /\ applied \in [Watched -> SpecVersion]
                    /\ ready \subseteq objs \cap Watched /\ terminating \in BOOLEAN
                    /\ terminating => "ns" \in objs
<1> SUFFICES Typed'
  BY Zenon
<1>1. Typed
  BY Zenon DEF KeckTypeOK
<1>2. \A w \in work : w \in Call
  BY Zenon DEF KeckTypeOK
<1>3. ASSUME UNCHANGED clusterVars PROVE Typed'
  BY <1>1, <1>3, Zenon DEF clusterVars
<1>4. ASSUME NEW w \in work, NEW c \in Child, Ensured(w, c) PROVE Typed'
  <2>1. w.copy.spec \in SpecVersion
    BY <1>2, Zenon DEF Call, Resource
  <2>2. applied' \in [Watched -> SpecVersion]
    BY <1>1, <1>4, <2>1, Zenon DEF Ensured, AgentDaemonSet, ControllerDeployment
  <2> QED
    BY <1>1, <1>4, <2>2, Zenon DEF Ensured
<1>5. ASSUME NEW w \in work, NEW c \in Child, Cleaned(w, c) PROVE Typed'
  BY <1>1, <1>5, Zenon DEF Cleaned
<1>6. ASSUME NEW w \in work, Progress(w) PROVE Typed'
  <2>1. CASE \E c \in Child : EnsureFails(w, c) \/ CleanupFails(w, c)
    BY <1>3, <2>1, Zenon DEF EnsureFails, CleanupFails, Skip, Abort
  <2>2. CASE AddFinalizer(w) \/ RemoveFinalizer(w)
    BY <1>3, <2>2, Zenon DEF AddFinalizer, RemoveFinalizer, Write, Abort
  <2>3. CASE MarkInstalling(w) \/ updateStatus(w) \/ Return(w)
    BY <1>3, <2>3, Zenon DEF MarkInstalling, updateStatus, Write, Skip, Return
  <2> QED
    BY <1>4, <1>5, <1>6, <2>1, <2>2, <2>3, Zenon DEF Progress
<1>7. ASSUME NEW c \in Watched, PodsChange(c) PROVE Typed'
  BY <1>1, <1>7, Zenon DEF PodsChange
<1>8. ASSUME NEW c \in Child, ChildRemoved(c) \/ NamespaceDrops(c) PROVE Typed'
  BY <1>1, <1>8 DEF ChildRemoved, NamespaceDrops, Gone, ClusterScoped
<1>9. CASE NamespaceGone
  BY <1>1, <1>9, Zenon DEF NamespaceGone, Gone, Watched
<1>10. CASE \/ \E n \in Cluster : Begin(n) \/ UserDeletes(n)
            \/ \E n \in Cluster, s \in SpecVersion : UserCreates(n, s) \/ UserEdits(n, s)
            \/ OperatorDrops \/ OperatorRestarts \/ Resync
  BY <1>3, <1>10, Zenon DEF Begin, UserDeletes, UserCreates, UserEdits, Edited,
                     OperatorDrops, OperatorRestarts, Resync
<1> QED
  BY <1>6, <1>7, <1>8, <1>9, <1>10, Zenon DEF KeckNext

\* The operator and its queue keep their types, and an operator that is gone
\* works on nothing.
LEMMA OperatorTyped ==
    ASSUME KeckTypeOK, KeckNext
    PROVE  /\ operator' \in Place \cup {"gone"} /\ queue' \subseteq Cluster
           /\ operator' = "gone" => work' = {} /\ queue' = {}
<1>1. /\ operator \in Place \cup {"gone"} /\ queue \subseteq Cluster
      /\ operator = "gone" => work = {} /\ queue = {}
  BY Zenon DEF KeckTypeOK, up
<1>2. DOMAIN cr \subseteq Cluster /\ \A w \in work : w.name \in Cluster
  BY Zenon DEF KeckTypeOK, Call
<1>3. ASSUME NEW names, names \subseteq Cluster, Enqueue(names), operator' = operator,
             work = {} => work' = {}
      PROVE  /\ operator' \in Place \cup {"gone"} /\ queue' \subseteq Cluster
             /\ operator' = "gone" => work' = {} /\ queue' = {}
  BY <1>1, <1>3, Zenon DEF Enqueue, up
<1>4. ASSUME NEW c, EnqueueFor(c), operator' = operator, work = {} => work' = {}
      PROVE  /\ operator' \in Place \cup {"gone"} /\ queue' \subseteq Cluster
             /\ operator' = "gone" => work' = {} /\ queue' = {}
  BY <1>2, <1>3, <1>4, Zenon DEF EnqueueFor
<1>5. ASSUME NEW w \in work, Progress(w)
      PROVE  /\ operator' \in Place \cup {"gone"} /\ queue' \subseteq Cluster
             /\ operator' = "gone" => work' = {} /\ queue' = {}
  <2>1. operator # "gone" /\ w.name \in Cluster
    BY <1>1, <1>2, Zenon
  <2>2. ASSUME operator' = operator, queue' \subseteq queue \cup Cluster
        PROVE  /\ operator' \in Place \cup {"gone"} /\ queue' \subseteq Cluster
               /\ operator' = "gone" => work' = {} /\ queue' = {}
    BY <1>1, <2>1, <2>2, Zenon
  <2>3. ASSUME NEW names, names \subseteq Cluster, Enqueue(names)
        PROVE  queue' \subseteq queue \cup Cluster
    BY <2>3, Zenon DEF Enqueue
  <2>4. CASE \E c \in Child : Ensured(w, c) \/ Cleaned(w, c)
    <3>1. PICK c \in Child : Ensured(w, c) \/ Cleaned(w, c)
      BY <2>4, Zenon
    <3>2. operator' = operator /\ (queue' = queue \/ EnqueueFor(c))
      BY <3>1, Zenon DEF Ensured, Cleaned
    <3> QED
      BY <1>2, <2>2, <2>3, <3>2, Zenon DEF EnqueueFor
  <2>5. CASE \E c \in Child : EnsureFails(w, c) \/ CleanupFails(w, c)
    BY <2>1, <2>2, <2>5, Zenon DEF EnsureFails, CleanupFails, Skip, Abort
  <2>6. CASE AddFinalizer(w) \/ RemoveFinalizer(w)
    BY <2>1, <2>2, <2>3, <2>6, Zenon DEF AddFinalizer, RemoveFinalizer, Write, Abort
  <2>7. CASE MarkInstalling(w) \/ Return(w)
    BY <2>1, <2>2, <2>3, <2>7, Zenon DEF MarkInstalling, Write, Return
  <2>8. CASE updateStatus(w)
    <3>1. operator' = operator /\ (queue' = queue \/ Enqueue({w.name}) \/ Enqueue({}))
      BY <2>8, Zenon DEF updateStatus, Write, Skip
    <3> QED
      BY <2>1, <2>2, <2>3, <3>1, Zenon
  <2> QED
    BY <1>5, <2>4, <2>5, <2>6, <2>7, <2>8, Zenon DEF Progress
<1>6. ASSUME NEW n \in Cluster, Edited(n)
      PROVE  /\ operator' \in Place \cup {"gone"} /\ queue' \subseteq Cluster
             /\ operator' = "gone" => work' = {} /\ queue' = {}
  <2>1. Enqueue({n}) /\ operator' = operator /\ (work = {} => work' = {})
    BY <1>6, Zenon DEF Edited, Outdated
  <2> QED
    BY <1>3, <2>1, Zenon
<1>7. CASE \/ \E n \in Cluster, s \in SpecVersion : UserCreates(n, s) \/ UserEdits(n, s)
           \/ \E n \in Cluster : UserDeletes(n)
  BY <1>6, <1>7, Zenon DEF UserCreates, UserEdits, UserDeletes
<1>8. CASE \/ \E c \in Watched : PodsChange(c)
           \/ \E c \in Child : ChildRemoved(c) \/ NamespaceDrops(c)
           \/ NamespaceGone
  BY <1>4, <1>8, Zenon DEF PodsChange, ChildRemoved, NamespaceDrops, NamespaceGone, Gone
<1>9. CASE OperatorDrops \/ OperatorRestarts
  BY <1>1, <1>2, <1>9, Zenon DEF OperatorDrops, OperatorRestarts, up
<1>10. CASE Resync
  BY <1>2, <1>3, <1>10, Zenon DEF Resync
<1>11. ASSUME NEW n \in Cluster, Begin(n)
       PROVE  /\ operator' \in Place \cup {"gone"} /\ queue' \subseteq Cluster
              /\ operator' = "gone" => work' = {} /\ queue' = {}
  BY <1>1, <1>11, Zenon DEF Begin, up
<1> QED
  BY <1>5, <1>7, <1>8, <1>9, <1>10, <1>11, Zenon DEF KeckNext

\* The bounds of the model are kept.
LEMMA BoundsTyped ==
    ASSUME KeckTypeOK, KeckNext
    PROVE  edits' \in 0 .. MaxEdits /\ faults' \in 0 .. MaxFaults
<1>1. edits \in 0 .. MaxEdits /\ faults \in 0 .. MaxFaults /\ MaxEdits \in Nat /\ MaxFaults \in Nat
  BY KeckClusterAssumption, Zenon DEF KeckTypeOK
<1>2. CASE UNCHANGED bounds \/ Fault
  BY <1>1, <1>2 DEF bounds, Fault
<1>3. ASSUME NEW n, Edited(n) PROVE edits' \in 0 .. MaxEdits /\ faults' \in 0 .. MaxFaults
  BY <1>1, <1>3 DEF Edited
<1>4. ASSUME NEW w \in work, Progress(w) PROVE UNCHANGED bounds \/ Fault
  <2>1. CASE \E c \in Child : \/ Ensured(w, c) \/ Cleaned(w, c)
                              \/ EnsureFails(w, c) \/ CleanupFails(w, c)
    BY <2>1, Zenon DEF Ensured, Cleaned, EnsureFails, CleanupFails
  <2>2. CASE AddFinalizer(w) \/ RemoveFinalizer(w)
    BY <2>2, Zenon DEF AddFinalizer, RemoveFinalizer, Write
  <2>3. CASE MarkInstalling(w) \/ updateStatus(w) \/ Return(w)
    BY <2>3, Zenon DEF MarkInstalling, updateStatus, Write, Return
  <2> QED
    BY <1>4, <2>1, <2>2, <2>3, Zenon DEF Progress
<1>5. CASE \/ \E n \in Cluster, s \in SpecVersion : UserCreates(n, s) \/ UserEdits(n, s)
           \/ \E n \in Cluster : UserDeletes(n)
  BY <1>3, <1>5, Zenon DEF UserCreates, UserEdits, UserDeletes
<1>6. CASE \/ \E n \in Cluster : Begin(n)
           \/ \E c \in Watched : PodsChange(c)
           \/ \E c \in Child : ChildRemoved(c) \/ NamespaceDrops(c)
           \/ NamespaceGone \/ OperatorDrops \/ OperatorRestarts \/ Resync
  BY <1>2, <1>6, Zenon DEF Begin, PodsChange, ChildRemoved, NamespaceDrops, NamespaceGone,
                    OperatorDrops, OperatorRestarts, Resync
<1> QED
  BY <1>2, <1>4, <1>5, <1>6, Zenon DEF KeckNext

-----------------------------------------------------------------------------
\* At the start there are no resources and no calls.
LEMMA StartTyped ==
    ASSUME KeckInit
    PROVE  KeckTypeOK /\ DOMAIN cr = {} /\ objs \subseteq {"ns"} /\ work = {}
<1>1. cr = EmptyMap /\ DOMAIN cr = {} /\ objs \subseteq {"ns"} /\ work = {} /\ queue = {}
      /\ operator \in Place /\ ready = {} /\ terminating = FALSE /\ edits = 0 /\ faults = 0
  BY Zenon DEF KeckInit, EmptyMap, Installed
<1>2. applied \in [Watched -> SpecVersion]
  BY KeckClusterAssumption, Zenon DEF KeckInit
<1>3. operator # "gone"
  BY <1>1, KeckClusterAssumption, Zenon
<1>4. edits \in 0 .. MaxEdits /\ faults \in 0 .. MaxFaults
  BY <1>1, KeckClusterAssumption
<1>5. objs \subseteq Child
  BY <1>1, ChildIs, Zenon
<1> QED
  BY <1>1, <1>2, <1>3, <1>4, <1>5, Zenon DEF KeckTypeOK, up

\* Every step keeps the types, whatever fails.
LEMMA TypesStep ==
    ASSUME KeckTypeOK, [KeckNext]_kvars
    PROVE  KeckTypeOK'
<1>1. CASE KeckNext
  BY <1>1, CallsTyped, OneCall, ResourcesTyped, ClusterTyped, OperatorTyped, BoundsTyped, Zenon
     DEF KeckTypeOK, up
<1>2. CASE UNCHANGED kvars
  BY <1>2, Zenon DEF kvars, clusterVars, bounds, KeckTypeOK, up
<1> QED
  BY <1>1, <1>2, Zenon

\* Types of the resources, the children and the worker of the reconciler
\* (keckcluster_controller.go), for any resources, any faults, reads of the
\* cluster-scoped children included, and any place of the operator: there is one
\* call at a time, ready pods have their workload, a namespace that is going is
\* there, and an operator that is gone has no work.
THEOREM KeckTypeCorrect == KeckSpec => []KeckTypeOK
<1>1. KeckInit => KeckTypeOK
  BY StartTyped, Zenon
<1>2. KeckTypeOK /\ [KeckNext]_kvars => KeckTypeOK'
  BY TypesStep, Zenon
<1> QED
  BY <1>1, <1>2, PTL DEF KeckSpec

\* The invariant holds in every reachable state.
LEMMA OwnerInvHolds ==
    ASSUME ReadFaults \cap ClusterScoped = {}
    PROVE  KeckSpec => []OwnerInv
<1>1. KeckInit => OwnerInv
  BY StartTyped, Zenon DEF OwnerInv, ChildrenHaveOwner, ClusterScoped
<1>2. OwnerInv /\ [KeckNext]_kvars => OwnerInv'
  <2> SUFFICES ASSUME OwnerInv, [KeckNext]_kvars PROVE OwnerInv'
    BY Zenon
  <2>1. KeckTypeOK'
    BY TypesStep, Zenon DEF OwnerInv
  <2>2. CASE KeckNext
    BY <2>1, <2>2, CallsStep, OwnedStep, Zenon DEF OwnerInv
  <2>3. CASE UNCHANGED kvars
    BY <2>1, <2>3, Zenon DEF kvars, clusterVars, OwnerInv, ChildrenHaveOwner,
                CallOK, Installing, Cleaning, Remaining
  <2> QED
    BY <2>2, <2>3, Zenon
<1> QED
  BY <1>1, <1>2, PTL DEF KeckSpec

\* cleanupResources and the finalizer leave no child without an owner, for any
\* number of resources that share the children, wherever the operator runs,
\* whatever writes fail and whenever it restarts, if the reads of the
\* cluster-scoped children succeed.
THEOREM ChildrenHaveOwnerHolds ==
    ASSUME ReadFaults \cap ClusterScoped = {}
    PROVE  KeckSpec => []ChildrenHaveOwner
<1>1. OwnerInv => ChildrenHaveOwner
  BY Zenon DEF OwnerInv
<1> QED
  BY <1>1, OwnerInvHolds, PTL
=============================================================================
