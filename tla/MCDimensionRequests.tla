------------------------ MODULE MCDimensionRequests -------------------------
(* DimensionRequests with variantIds and three more dimensions. *)
EXTENDS DimensionRequests

CONSTANTS a, b, c

MCNames == {VariantIds, a, b, c}

\* A context of the experiments names variantIds.
MCConditions == {{a}, {a, b}, {b, c}, {VariantIds, c}}
=============================================================================
