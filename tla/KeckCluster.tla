---------------------------- MODULE KeckCluster -----------------------------
(***************************************************************************)
(* The operator's reconciler for KeckCluster resources                     *)
(* (keck-operator/controllers/keckcluster_controller.go).                  *)
(*                                                                         *)
(* One worker takes the name of a KeckCluster from a queue, reads the      *)
(* resource, and goes through the ensure... functions, or through          *)
(* cleanupResources, one child and one API call after the other.  Between  *)
(* two calls users edit the resource, pods become ready, the namespace     *)
(* goes down, calls fail and the operator restarts.                        *)
(***************************************************************************)
EXTENDS Sequences, Integers, Maps

CONSTANTS
    Cluster,         \* names of KeckCluster resources (cluster-scoped)
    SpecVersion,     \* values of their spec
    ReadFaults,      \* steps whose Get may fail
    WriteFaults,     \* steps whose Create, Update or Delete may fail
    Refused,         \* best-effort children the cluster never accepts: no CRD, or no right to create
    Place,           \* where the operator may be installed: inside keck-system, outside
    MaxEdits,        \* bound: changes of the resources by users
    MaxFaults        \* bound: failed calls, restarts and children removed by others

VARIABLES
    cr,           \* name -> KeckCluster resource
    objs,         \* the children that exist
    applied,      \* the spec the DaemonSet and the Deployment were written from
    ready,        \* those of the two whose pods are ready
    terminating,  \* the namespace has a deletion timestamp
    operator,     \* where the operator runs, "gone" when it does not
    queue,        \* names to be reconciled
    work,         \* {the Reconcile call under way}
    edits, faults

clusterVars == <<objs, applied, ready, terminating>>
bounds == <<edits, faults>>
kvars == <<cr, clusterVars, operator, queue, work, bounds>>

-----------------------------------------------------------------------------
up == operator # "gone"

Watched == {"ds", "deploy"}
ClusterScoped == {"ns", "role", "binding"}
BestEffort == {"monitor", "netpol", "pdb"}

ASSUME KeckClusterAssumption ==
    /\ Place \subseteq {"inside", "outside"} /\ SpecVersion # {} /\ Refused \subseteq BestEffort
    /\ MaxEdits \in Nat /\ MaxFaults \in Nat

\* The order of Reconcile, and the reverse order of cleanupResources, which
\* leaves the other children to the deletion of the namespace.
EnsureOrder ==
    <<"ns", "sa-agent", "sa-controller", "secret", "role", "binding", "ds",
      "nginx", "deploy", "svc", "monitor", "netpol", "pdb">>

\* Mutant: the namespace is left behind.
CleanupOrderKeepsNamespace ==
    <<"svc", "deploy", "ds", "secret", "binding", "role", "sa-agent">>

CleanupOrder ==
    <<"svc", "deploy", "ds", "secret", "binding", "role", "sa-agent", "ns">>

Child == Range(EnsureOrder)
Step == Child \cup {"finalizer", "installing", "status", "unfinalize"}
Phase == {"", "Installing", "Running"}

Resource ==
    [spec : SpecVersion, deleting : BOOLEAN, finalizer : BOOLEAN, phase : Phase,
     agentReady : BOOLEAN, controllerReady : BOOLEAN]

\* copy is the resource as the call read it (and changed it since); it is fresh
\* as long as nobody else changed the resource.
Call == [name : Cluster, copy : Resource, fresh : BOOLEAN, todo : Seq(Step)]

KeckTypeOK ==
    /\ DOMAIN cr \subseteq Cluster /\ \A n \in DOMAIN cr : cr[n] \in Resource
    /\ objs \subseteq Child /\ applied \in [Watched -> SpecVersion]
    /\ ready \subseteq objs \cap Watched /\ terminating \in BOOLEAN
    /\ operator \in Place \cup {"gone"} /\ queue \subseteq Cluster
    /\ \A w \in work : w \in Call /\ \A v \in work : v = w
    /\ edits \in 0 .. MaxEdits /\ faults \in 0 .. MaxFaults
    /\ terminating => "ns" \in objs
    /\ ~up => work = {} /\ queue = {}

-----------------------------------------------------------------------------
(* The queue.  Changes of a resource enqueue its name, changes of the      *)
(* DaemonSet and the Deployment enqueue every resource.                    *)

Enqueue(names) == queue' = IF up THEN queue \cup names ELSE queue

EnqueueFor(c) == Enqueue(IF c \in Watched THEN DOMAIN cr ELSE {})

\* Mutant: nothing is left to do once the phase is Running.
TodoOnce(r) ==
    IF r.deleting
    THEN IF r.finalizer THEN CleanupOrder \o <<"unfinalize">> ELSE <<>>
    ELSE IF r.phase = "Running" THEN <<>>
    ELSE (IF r.finalizer THEN <<>> ELSE <<"finalizer">>) \o EnsureOrder \o <<"status">>

\* What a call does, given the resource it read.
Todo(r) ==
    IF r.deleting
    THEN IF r.finalizer THEN CleanupOrder \o <<"unfinalize">> ELSE <<>>
    ELSE (IF r.finalizer THEN <<>> ELSE <<"finalizer">>)
         \o (IF r.phase = "" THEN <<"installing">> ELSE <<>>)
         \o EnsureOrder \o <<"status">>

\* A resource that is gone needs nothing.
Begin(n) ==
    /\ up /\ work = {} /\ n \in queue
    /\ queue' = queue \ {n}
    /\ work' = {[name |-> n, copy |-> cr[m], fresh |-> TRUE, todo |-> Todo(cr[m])] :
                    m \in {n} \cap DOMAIN cr}
    /\ UNCHANGED <<cr, clusterVars, operator, bounds>>

At(w, step) == w.todo # <<>> /\ Head(w.todo) = step

Advanced(w) == [w EXCEPT !.todo = Tail(@)]

\* An error is returned: the name is put back.
Abort(w) ==
    /\ work' = {} /\ queue' = queue \cup {w.name}
    /\ UNCHANGED <<cr, clusterVars, operator>>

\* An error is logged or ignored.
Skip(w) ==
    /\ work' = {Advanced(w)}
    /\ UNCHANGED <<cr, clusterVars, operator, queue>>

Fault == faults < MaxFaults /\ faults' = faults + 1 /\ UNCHANGED edits

Return(w) ==
    /\ w.todo = <<>>
    /\ work' = {}
    /\ UNCHANGED <<cr, clusterVars, operator, queue, bounds>>

-----------------------------------------------------------------------------
(* ensureNamespace ... ensurePDB                                           *)

\* The API server refuses to create in a namespace that is missing or on its
\* way out, and always what it does not know or the operator's role does not list.
Creatable(c) ==
    /\ c \notin Refused
    /\ c \in ClusterScoped \/ ("ns" \in objs /\ ~terminating)

\* The two workloads are built from the spec of the copy and from nothing else.
AgentDaemonSet(r) == r.spec
ControllerDeployment(r) == r.spec

\* Mutant: what exists is not updated.
EnsuredNoUpdate(w, c) ==
    /\ At(w, c) /\ ~w.copy.deleting
    /\ c \in objs \/ Creatable(c)
    /\ objs' = objs \cup {c}
    /\ applied' = [d \in Watched |->
                      IF d = c /\ c \notin objs THEN w.copy.spec ELSE applied[d]]
    /\ IF c \in objs THEN UNCHANGED queue ELSE EnqueueFor(c)
    /\ work' = {Advanced(w)}
    /\ UNCHANGED <<cr, ready, terminating, operator, bounds>>

Ensured(w, c) ==
    /\ At(w, c) /\ ~w.copy.deleting
    /\ c \in objs \/ Creatable(c)
    /\ objs' = objs \cup {c}
    /\ applied' = CASE c = "ds" -> [applied EXCEPT !["ds"] = AgentDaemonSet(w.copy)]
                    [] c = "deploy" -> [applied EXCEPT !["deploy"] = ControllerDeployment(w.copy)]
                    [] OTHER -> applied
    /\ IF c \in objs /\ applied' = applied THEN UNCHANGED queue ELSE EnqueueFor(c)
    /\ work' = {Advanced(w)}
    /\ UNCHANGED <<cr, ready, terminating, operator, bounds>>

\* Create is refused, or one of the calls fails.  ensureRBAC goes on when it
\* cannot read the ClusterRole, Reconcile when a best-effort child fails.
EnsureFails(w, c) ==
    /\ At(w, c) /\ ~w.copy.deleting
    /\ \/ /\ c \notin objs /\ ~Creatable(c)
          /\ IF c \in BestEffort THEN Skip(w) ELSE Abort(w)
          /\ UNCHANGED bounds
       \/ /\ c \in WriteFaults /\ Fault
          /\ IF c \in BestEffort THEN Skip(w) ELSE Abort(w)
       \/ /\ c \in ReadFaults /\ Fault
          /\ IF c \in BestEffort \cup {"role"} THEN Skip(w) ELSE Abort(w)

-----------------------------------------------------------------------------
(* cleanupResources                                                        *)

Cleaned(w, c) ==
    /\ At(w, c) /\ w.copy.deleting
    /\ objs' = IF c = "ns" THEN objs ELSE objs \ {c}
    /\ terminating' = (terminating \/ (c = "ns" /\ c \in objs))
    /\ ready' = ready \ {c}
    /\ IF c \in objs THEN EnqueueFor(c) ELSE UNCHANGED queue
    /\ work' = {Advanced(w)}
    /\ UNCHANGED <<cr, applied, operator, bounds>>

\* Mutant: a failed Delete is ignored like a failed Get.
CleanupFailsQuietly(w, c) ==
    /\ At(w, c) /\ w.copy.deleting
    /\ c \in (objs \cap WriteFaults) \cup ReadFaults /\ Fault /\ Skip(w)

\* A Get that fails is taken for a child that is not there.
CleanupFails(w, c) ==
    /\ At(w, c) /\ w.copy.deleting
    /\ \/ c \in objs \cap WriteFaults /\ Fault /\ Abort(w)
       \/ c \in ReadFaults /\ Fault /\ Skip(w)

-----------------------------------------------------------------------------
(* Updates of the resource.  An update of a copy that is out of date is a  *)
(* conflict.  A status update that changes nothing, the second in          *)
(* lastUpdated included, is no event.                                      *)

Write(w, new, rest) ==
    /\ cr' = [cr EXCEPT ![w.name] = new]
    /\ work' = {[Advanced(w) EXCEPT !.copy = new]}
    /\ Enqueue(rest)
    /\ UNCHANGED <<clusterVars, operator, bounds>>

AddFinalizer(w) ==
    /\ At(w, "finalizer")
    /\ \/ w.fresh /\ Write(w, [w.copy EXCEPT !.finalizer = TRUE], {w.name})
       \/ ~w.fresh /\ Abort(w) /\ UNCHANGED bounds
       \/ "finalizer" \in WriteFaults /\ Fault /\ Abort(w)

RemoveFinalizer(w) ==
    /\ At(w, "unfinalize")
    /\ \/ /\ w.fresh
          /\ cr' = Restrict(cr, DOMAIN cr \ {w.name})
          /\ work' = {Advanced(w)} /\ Enqueue({w.name})
          /\ UNCHANGED <<clusterVars, operator, bounds>>
       \/ ~w.fresh /\ Abort(w) /\ UNCHANGED bounds
       \/ "unfinalize" \in WriteFaults /\ Fault /\ Abort(w)

MarkInstalling(w) ==
    /\ At(w, "installing")
    /\ LET new == [w.copy EXCEPT !.phase = "Installing"]
       IN  \/ w.fresh /\ Write(w, new, {w.name})
           \/ /\ \/ ~w.fresh /\ UNCHANGED bounds
                 \/ "installing" \in WriteFaults /\ Fault
              /\ work' = {[Advanced(w) EXCEPT !.copy = new]}
              /\ UNCHANGED <<cr, clusterVars, operator, queue>>

\* Mutant: the phase is left alone once it is Running.
StatusOnce(r) ==
    [r EXCEPT !.agentReady = IF "ds" \in objs THEN "ds" \in ready ELSE @,
              !.controllerReady = IF "deploy" \in objs THEN "deploy" \in ready ELSE @,
              !.phase = IF ready = Watched THEN "Running" ELSE @]

\* The counts of a child that is not found are left as they are.
Status(r) ==
    LET agent == IF "ds" \in objs THEN "ds" \in ready ELSE r.agentReady
        controller == IF "deploy" \in objs THEN "deploy" \in ready ELSE r.controllerReady
    IN  [r EXCEPT !.agentReady = agent, !.controllerReady = controller,
                  !.phase = IF agent /\ controller THEN "Running" ELSE "Installing"]

updateStatus(w) ==
    /\ At(w, "status")
    /\ \/ /\ w.fresh
          /\ \E newSecond \in BOOLEAN :
                 Write(w, Status(w.copy),
                       IF newSecond \/ Status(w.copy) # cr[w.name] THEN {w.name} ELSE {})
       \/ ~w.fresh /\ Skip(w) /\ UNCHANGED bounds
       \/ "status" \in WriteFaults /\ Fault /\ Skip(w)

-----------------------------------------------------------------------------
(* Users, pods, the namespace, and the operator's own life                 *)

\* A call under way for the resource no longer has its latest version.
Outdated(n) == {[w EXCEPT !.fresh = @ /\ w.name # n] : w \in work}

Edited(n) ==
    /\ edits < MaxEdits /\ edits' = edits + 1
    /\ Enqueue({n}) /\ work' = Outdated(n)
    /\ UNCHANGED <<clusterVars, operator, faults>>

UserCreates(n, s) ==
    /\ n \notin DOMAIN cr
    /\ cr' = [m \in DOMAIN cr \cup {n} |->
                 IF m \in DOMAIN cr THEN cr[m]
                 ELSE [spec |-> s, deleting |-> FALSE, finalizer |-> FALSE, phase |-> "",
                       agentReady |-> FALSE, controllerReady |-> FALSE]]
    /\ Edited(n)

UserEdits(n, s) ==
    /\ n \in DOMAIN cr /\ s # cr[n].spec
    /\ cr' = [cr EXCEPT ![n].spec = s]
    /\ Edited(n)

\* Without a finalizer the resource is gone at once.
UserDeletes(n) ==
    /\ n \in DOMAIN cr /\ ~cr[n].deleting
    /\ cr' = IF cr[n].finalizer THEN [cr EXCEPT ![n].deleting = TRUE]
             ELSE Restrict(cr, DOMAIN cr \ {n})
    /\ Edited(n)

PodsChange(c) ==
    /\ c \in objs
    /\ ready' = IF c \in ready THEN ready \ {c} ELSE ready \cup {c}
    /\ EnqueueFor(c)
    /\ UNCHANGED <<cr, objs, applied, terminating, operator, work, bounds>>

Gone(c) ==
    /\ objs' = objs \ {c} /\ ready' = ready \ {c}
    /\ EnqueueFor(c)
    /\ UNCHANGED <<cr, applied, operator, work>>

ChildRemoved(c) ==
    /\ c \in objs \ {"ns"} /\ Gone(c) /\ Fault /\ UNCHANGED terminating

NamespaceDrops(c) ==
    /\ terminating /\ c \in objs \ ClusterScoped
    /\ Gone(c) /\ UNCHANGED <<terminating, bounds>>

NamespaceGone ==
    /\ terminating /\ objs \subseteq ClusterScoped /\ operator # "inside"
    /\ Gone("ns") /\ terminating' = FALSE /\ UNCHANGED bounds

OperatorDrops ==
    /\ operator = "inside" /\ terminating
    /\ operator' = "gone" /\ work' = {} /\ queue' = {}
    /\ UNCHANGED <<cr, clusterVars, bounds>>

\* The operator crashes and starts again: it lists all resources.
OperatorRestarts ==
    /\ up /\ Fault
    /\ work' = {} /\ queue' = DOMAIN cr
    /\ UNCHANGED <<cr, clusterVars, operator>>

\* The periodic resync of controller-runtime's cache.
Resync ==
    /\ up /\ Enqueue(DOMAIN cr)
    /\ UNCHANGED <<cr, clusterVars, operator, work, bounds>>

-----------------------------------------------------------------------------

\* The namespace is there when the operator was installed into it.
Installed == IF operator = "inside" THEN {"ns"} ELSE {}

KeckInit ==
    /\ cr = EmptyMap
    /\ operator \in Place /\ objs = Installed
    /\ applied \in [Watched -> {CHOOSE s \in SpecVersion : TRUE}]
    /\ ready = {} /\ terminating = FALSE
    /\ queue = {} /\ work = {} /\ edits = 0 /\ faults = 0

\* One call of the worker that succeeds, or its return.
Progress(w) ==
    \/ \E c \in Child : Ensured(w, c) \/ Cleaned(w, c)
    \/ \E c \in Child : EnsureFails(w, c) \/ CleanupFails(w, c)
    \/ AddFinalizer(w) \/ RemoveFinalizer(w) \/ MarkInstalling(w) \/ updateStatus(w)
    \/ Return(w)

KeckNext ==
    \/ \E n \in Cluster : Begin(n)
    \/ \E w \in work : Progress(w)
    \/ \E n \in Cluster, s \in SpecVersion : UserCreates(n, s) \/ UserEdits(n, s)
    \/ \E n \in Cluster : UserDeletes(n)
    \/ \E c \in Watched : PodsChange(c)
    \/ \E c \in Child : ChildRemoved(c) \/ NamespaceDrops(c)
    \/ NamespaceGone \/ OperatorDrops \/ OperatorRestarts \/ Resync

\* The worker goes on and takes every name in turn (the queue is first in,
\* first out), the namespace controller finishes, and the cache resyncs.
KeckFairness ==
    /\ \A n \in Cluster : SF_kvars(Begin(n))
    /\ WF_kvars(\E w \in work : Progress(w))
    /\ WF_kvars(\E c \in Child : NamespaceDrops(c))
    /\ WF_kvars(NamespaceGone) /\ WF_kvars(OperatorDrops) /\ WF_kvars(Resync)

KeckSpec == KeckInit /\ [][KeckNext]_kvars /\ KeckFairness

-----------------------------------------------------------------------------
(* Correctness                                                             *)

Wanted(n) == n \in DOMAIN cr /\ ~cr[n].deleting

\* While the operator lives: in its own namespace a cleanup ends it.
Served(n) == Wanted(n) /\ up

\* "cleanupResources deletes all child resources created by the operator": a
\* child exists only while a resource with the finalizer does, or while the
\* deletion of the namespace is about to take it.
ChildrenHaveOwner ==
    \A c \in objs \ {"ns"} :
        \/ \E n \in DOMAIN cr : cr[n].finalizer
        \/ terminating /\ c \notin ClusterScoped

\* A resource that stays gets all children that the cluster accepts, in a
\* namespace that stays, although best-effort children may be refused for ever,
\* other calls fail, the operator restarts, others remove children, and the
\* deletion of an earlier resource takes the namespace down under it.
InstallCompletes ==
    \A n \in Cluster : <>[]Served(n) => <>[](Child \ Refused \subseteq objs /\ ~terminating)

\* With one resource, the DaemonSet and the Deployment come to have its last spec.
SpecApplied ==
    \A n \in Cluster :
        <>[](Served(n) /\ DOMAIN cr = {n}) =>
            <>[](\A c \in Watched : n \in DOMAIN cr /\ applied[c] = cr[n].spec)

PhaseOf(n) == IF n \in DOMAIN cr THEN cr[n].phase ELSE ""

\* The phase follows the pods: it settles on Running when the agents and the
\* controller are ready for good, and on Installing when they are not.
PhaseFollowsPods ==
    \A n \in Cluster :
        <>[]Served(n) =>
            /\ <>[](ready = Watched) => <>[](PhaseOf(n) = "Running")
            /\ <>[](ready # Watched) => <>[](PhaseOf(n) = "Installing")

\* When every resource is deleted, they all go, and so do all children, if the
\* operator does not run in the namespace that it deletes.
DeletionCompletes ==
    [](operator = "outside") /\ <>[](\A n \in Cluster : ~Wanted(n))
        => <>[](DOMAIN cr = {} /\ objs = {})

\* "operator cleans up child resources via finalizer": the same, wherever the
\* operator runs (a namespace that it was installed into may stay).
FinalizerCleansUp ==
    <>[](\A n \in Cluster : ~Wanted(n)) => <>[](DOMAIN cr = {} /\ objs \subseteq Installed)
=============================================================================
