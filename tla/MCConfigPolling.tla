-------------------------- MODULE MCConfigPolling ---------------------------
(* A client that polls while a few requests change the configuration. *)
EXTENDS ConfigPolling, TLC

CONSTANTS c1, c2, k1, v0, v1, v2

MCStart == k1 :> v0 @@ c1 :> (k1 :> v1) @@ c2 :> (k1 :> v1)

\* Changes to different rows, and bulk requests that lock the same rows in
\* opposite orders.
MCRequests ==
  LET replace(c) == [op |-> "replace", row |-> c, override |-> (k1 :> v2)]
      put(c)     == [op |-> "put", row |-> c, override |-> (k1 :> v2)]
  IN {<<[op |-> "update", row |-> k1, value |-> v1]>>, <<replace(c1), put(c2)>>, <<put(c2), replace(c1)>>}
=============================================================================
