-------------------------------- MODULE Maps --------------------------------
(***************************************************************************)
(* Hash maps as partial functions: retain is Restrict, insert is Put, and  *)
(* extend is Extend.                                                       *)
(***************************************************************************)
EXTENDS Functions

Map(K, V) == UNION {[D -> V] : D \in SUBSET K}

IsMap(m, K, V) == DOMAIN m \subseteq K /\ m \in [DOMAIN m -> V]

EmptyMap == [k \in {} |-> k]

Extend(m, new) ==
    [k \in DOMAIN m \cup DOMAIN new |-> IF k \in DOMAIN new THEN new[k] ELSE m[k]]

Put(m, k, v) == [j \in DOMAIN m \cup {k} |-> IF j = k THEN v ELSE m[j]]

Get(m, k, default) == IF k \in DOMAIN m THEN m[k] ELSE default

Without(m, k) == Restrict(m, DOMAIN m \ {k})
=============================================================================
