--------------------------- MODULE Classification ---------------------------
(***************************************************************************)
(* The classification watcher (keck-controller/src/application.rs): every  *)
(* 30 s it lists the ClusterOperators, then the OLM Subscriptions, and     *)
(* replaces the shared ClassificationData.  The cluster may change between *)
(* the two lists, and each list may fail on its own.                       *)
(***************************************************************************)
EXTENDS FiniteSetsExt

CONSTANTS
    ClusterNs,
    ClusterOperator,
    NameFits,        \* {<<ns, co>> : the name of co is part of the name of ns} (the
                     \* second test of the code, with '-' as '_', adds none: the
                     \* name of a namespace has no '_')
    Shared,          \* openshift-config, openshift-config-managed
    MaxChanges       \* bound: changes of the cluster

NoOwner == "no owner"

ASSUME ClassificationAssumption ==
    /\ IsFiniteSet(ClusterOperator) /\ NoOwner \notin ClusterOperator
    /\ NameFits \subseteq ClusterNs \X ClusterOperator /\ Shared \subseteq ClusterNs
    /\ MaxChanges \in Nat

VARIABLES
    related,   \* ClusterOperator -> namespaces among its relatedObjects
    subs,      \* namespaces that have a Subscription
    changes,
    found,     \* {co_namespaces} between the two lists
    failed,    \* the last list of the API failed
    cls        \* the shared ClassificationData

clusterVars == <<related, subs, changes>>
clsVars == <<clusterVars, found, failed, cls>>

-----------------------------------------------------------------------------
NoCos == [ns \in ClusterNs |-> NoOwner]

\* Mutant: the first operator listed keeps the namespace.
BetterOwnerFirst(ns, owner, co) == owner = NoOwner

\* Whether co takes the namespace over from the owner found so far.
BetterOwner(ns, owner, co) ==
    \/ owner = NoOwner
    \/ <<ns, co>> \in NameFits /\ <<ns, owner>> \notin NameFits

\* The orders the API can list the operators in.
Lists == Bijection(1 .. Cardinality(ClusterOperator), ClusterOperator)

\* discover_co_namespaces on the items of a list, in the order they came.
discover_co_namespaces(items) ==
    [ns \in ClusterNs |->
        MapThenFoldSet(LAMBDA co, owner :
                           IF ns \in related[co] \ Shared /\ BetterOwner(ns, owner, co) THEN co ELSE owner,
                       NoOwner, LAMBDA i : items[i], LAMBDA S : Max(S), DOMAIN items)]

\* Mutant: what is found is added to what the pass before it found.
ListCosMerging ==
    /\ found = {}
    /\ \E items \in Lists :
           LET new == discover_co_namespaces(items)
           IN  found' = {[ns \in ClusterNs |-> IF new[ns] # NoOwner THEN new[ns]
                                              ELSE cls.co_namespaces[ns]]}
    /\ failed' = FALSE
    /\ UNCHANGED <<clusterVars, cls>>

ListCos ==
    /\ found = {}
    /\ \E items \in Lists : found' = {discover_co_namespaces(items)}
    /\ failed' = FALSE
    /\ UNCHANGED <<clusterVars, cls>>

\* A failed list is an empty one.
ListCosFails ==
    /\ found = {}
    /\ found' = {NoCos}
    /\ failed' = TRUE
    /\ UNCHANGED <<clusterVars, cls>>

Publish(cos, subscribed) ==
    [co_namespaces |-> cos,
     operator_namespaces |-> {ns \in subscribed : cos[ns] = NoOwner}]

\* The second list, with the write of the shared data that follows it.
ListSubs ==
    /\ \E cos \in found : cls' = Publish(cos, subs)
    /\ found' = {}
    /\ failed' = FALSE
    /\ UNCHANGED clusterVars

ListSubsFails ==
    /\ \E cos \in found : cls' = Publish(cos, {})
    /\ found' = {}
    /\ failed' = TRUE
    /\ UNCHANGED clusterVars

-----------------------------------------------------------------------------
(* The cluster: operators and subscriptions come and go.                   *)

ClusterChanges ==
    /\ changes < MaxChanges
    /\ changes' = changes + 1
    /\ \/ related' \in [ClusterOperator -> SUBSET ClusterNs] /\ UNCHANGED subs
       \/ subs' \in SUBSET ClusterNs /\ UNCHANGED related
    /\ UNCHANGED <<found, failed, cls>>

ClsInit ==
    /\ related \in [ClusterOperator -> SUBSET ClusterNs] /\ subs \in SUBSET ClusterNs
    /\ changes = 0
    /\ found = {} /\ failed = FALSE /\ cls = Publish(NoCos, {})

ClsNext == ListCos \/ ListCosFails \/ ListSubs \/ ListSubsFails \/ ClusterChanges

-----------------------------------------------------------------------------
classify(ns) ==
    CASE cls.co_namespaces[ns] # NoOwner -> "platform"
      [] ns \in cls.operator_namespaces -> "operator"
      [] OTHER -> "application"

TrueOwners(ns) == {co \in ClusterOperator : ns \in related[co] \ Shared}

TrueCategory(ns) ==
    CASE TrueOwners(ns) # {} -> "platform"
      [] ns \in subs -> "operator"
      [] OTHER -> "application"

\* Whatever order the API lists the operators in, a namespace that names exactly
\* one of the operators related to it goes to that one.
NamedOwnerWins ==
    \A items \in Lists, ns \in ClusterNs, co \in ClusterOperator :
        {c \in TrueOwners(ns) : <<ns, c>> \in NameFits} = {co} =>
            discover_co_namespaces(items)[ns] = co

\* Once no list fails any more (<>[](~failed)), every namespace settles in its true category with an
\* operator that is really related to it.
ClassificationConverges ==
    <>[](\A ns \in ClusterNs :
            /\ classify(ns) = TrueCategory(ns)
            /\ cls.co_namespaces[ns] # NoOwner => cls.co_namespaces[ns] \in TrueOwners(ns))
=============================================================================
