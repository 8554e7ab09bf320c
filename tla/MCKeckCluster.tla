--------------------------- MODULE MCKeckCluster ----------------------------
(* Instances of KeckCluster for TLC.  Init chooses what is explored: one     *)
(* resource whose spec is edited while calls fail; or two resources that     *)
(* share the children, with the operator inside or outside the namespace     *)
(* that a deletion takes down, while no call fails.                          *)
EXTENDS KeckCluster

CONSTANTS k1, k2

VARIABLE part

EveryStep == Step
NamespacedChildren == Child \ ClusterScoped

MCInit == KeckInit /\ part \in {"faults", "shared"} /\ (part = "faults" => operator = "outside")

MCNext ==
    /\ KeckNext /\ UNCHANGED part
    /\ IF part = "faults" THEN DOMAIN cr' \subseteq {k1}
       ELSE faults' = 0 /\ \A n \in DOMAIN cr' : cr'[n].spec = 1

MCSpec == MCInit /\ [][MCNext]_<<kvars, part>> /\ KeckFairness

\* All of it at once, for small constants.
WholeInit == KeckInit /\ part = "shared"
WholeSpec == WholeInit /\ [][KeckNext /\ UNCHANGED part]_<<kvars, part>> /\ KeckFairness
=============================================================================
