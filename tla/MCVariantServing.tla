-------------------------- MODULE MCVariantServing --------------------------
(* Two experiments, one of two variants and one of three. *)
EXTENDS VariantServing, TLC

CONSTANTS e1, e2, c1

MCVariants == e1 :> 2 @@ e2 :> 3
MCContext == e1 :> {c1} @@ e2 :> {}
MCGroupContexts == {{}, {c1}}
GroupSymmetry == Permutations(GroupIds)
=============================================================================
