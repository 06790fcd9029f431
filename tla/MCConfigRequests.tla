-------------------------- MODULE MCConfigRequests --------------------------
(* Small instances of ConfigRequests. *)
EXTENDS ConfigRequests, TLC

CONSTANTS c1, c2, k1, k2, v0, v1, v2

put(c, o)     == [op |-> "put", row |-> c, override |-> o]
replace(c, o) == [op |-> "replace", row |-> c, override |-> o]
delete(c)     == [op |-> "delete", row |-> c]
move(c, d)    == [op |-> "move", row |-> c, to |-> d]
create(k, v)  == [op |-> "create", row |-> k, value |-> v]
update(k, v)  == [op |-> "update", row |-> k, value |-> v]
remove(k)     == [op |-> "remove", row |-> k]

\* Two keys with a default value, and a context that overrides one of them.
MCStart == k1 :> v0 @@ k2 :> v0 @@ c1 :> (k1 :> v1)

\* Every operation on its own, and bulk requests of two operations.
MCRequests ==
  {<<put(c, k :> v)>> : c \in {c1, c2}, k \in {k1, k2}, v \in {v1, v2}}
  \cup {<<replace(c1, k2 :> v1)>>, <<delete(c1)>>, <<delete(c2)>>, <<move(c1, c2)>>, <<move(c2, c1)>>}
  \cup {<<create(k2, v2)>>, <<update(k1, v2)>>, <<remove(k1)>>, <<remove(k2)>>}
  \cup {<<put(c2, k1 :> v2), delete(c1)>>, <<put(c1, k2 :> v2), replace(c2, k1 :> v1)>>,
        <<move(c1, c2), put(c2, k2 :> v1)>>}
=============================================================================
