--------------------------- MODULE DimensionList ----------------------------
(***************************************************************************)
(* What the dimensions of a workspace promise, without positions, shifts   *)
(* or graphs: they are a list that begins with variantIds, to which a      *)
(* dimension is added at an index, in which it is moved to an index and    *)
(* from which it is removed, such that a cohort always comes before the    *)
(* dimension it is computed from.                                          *)
(***************************************************************************)
EXTENDS SequencesExt, Integers

CONSTANTS Names, VariantIds, None

VARIABLES order,   \* the dimensions by position
          base     \* dimension -> the one it is computed from, or None

listVars == <<order, base>>

Listed == {order[i] : i \in DOMAIN order}

Without(n) == RemoveAt(order, CHOOSE i \in DOMAIN order : order[i] = n)

WellOrdered(o, bs) ==
  /\ Head(o) = VariantIds
  /\ \A j \in DOMAIN o : bs[o[j]] # None => \E k \in DOMAIN o : k > j /\ o[k] = bs[o[j]]

Init == order = <<VariantIds>> /\ base = [d \in {VariantIds} |-> None]

Add(n, i, b) ==
  /\ n \notin Listed
  /\ i \in 1 .. Len(order) + 1
  /\ order' = InsertAt(order, i, n)
  /\ base' = [d \in Listed \cup {n} |-> IF d = n THEN b ELSE base[d]]
  /\ WellOrdered(order', base')

Relocate(n, i) ==
  /\ n \in Listed
  /\ i \in 1 .. Len(order)
  /\ order' = InsertAt(Without(n), i, n)
  /\ UNCHANGED base
  /\ WellOrdered(order', base')

\* Nothing is computed from a dimension that is removed.
Drop(n) ==
  /\ n \in Listed \ {VariantIds}
  /\ order' = Without(n)
  /\ base' = [d \in Listed \ {n} |-> base[d]]
  /\ WellOrdered(order', base')

Next ==
  \E n \in Names :
    \/ \E i \in 1 .. Len(order) + 1, b \in Names \cup {None} : Add(n, i, b)
    \/ \E i \in 1 .. Len(order) : Relocate(n, i)
    \/ Drop(n)

Spec == Init /\ [][Next]_listVars
=============================================================================
