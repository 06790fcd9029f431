------------------------- MODULE MCDeleteOverrides --------------------------
(* DeleteOverrides with symmetric keys and values; every variant but the     *)
(* control deletes one key, the same or another.                             *)
EXTENDS DeleteOverrides, TLC

MCOffered == {v \in Variants : \A i \in 2..NumVariants : Cardinality(DOMAIN v[i]) = 1}

DataSymmetry == Permutations(Keys) \cup Permutations(Values)
=============================================================================
