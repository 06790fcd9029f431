------------------------- MODULE MCConfigResolution -------------------------
(* ConfigResolution with a dimension, a remote and a local cohort of it, two variants. *)
EXTENDS ConfigResolution, TLC

CONSTANTS A, R, L, x, y, f, g, k1, k2

MCPosition == VariantIds :> 0 @@ L :> 1 @@ R :> 2 @@ A :> 3

\* The remote cohort R of A has a local cohort L.
MCBase == R :> A @@ L :> R

MCSchema == L :> ({1} :> 1)

\* Two contexts of equal weight, for each of two variants, and one of a higher weight.
MCConditions == {A :> 1, L :> 1 @@ VariantIds :> 1, L :> 1 @@ VariantIds :> 2}

\* k1 has objects with two fields as well as an atom for values.
MCValues == k1 :> {x, f :> x, g :> y} @@ k2 :> {x}

MCDefault == k1 :> (f :> y) @@ k2 :> y

MCQueries ==
  {q \in UNION {[N -> {{1}, {2}, {1, 2}}] : N \in SUBSET {VariantIds, A, R, L}} :
     /\ VariantIds \in DOMAIN q => q[VariantIds] = {1, 2}
     /\ A \in DOMAIN q => q[A] = {1}
     /\ R \in DOMAIN q => q[R] # {1, 2}
     /\ L \in DOMAIN q => q[L] = {1}}
=============================================================================
