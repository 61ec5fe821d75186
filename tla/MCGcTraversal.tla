--------------------------- MODULE MCGcTraversal ---------------------------
(***************************************************************************)
(* Small heaps for GcTraversal: every graph with at most MaxSlots slots, in *)
(* which a zval is a scalar or an array (any sequence of zvals) or an object*)
(* zval (its one store object), and an object has any sequence of zvals as  *)
(* its properties.                                                         *)
(***************************************************************************)
EXTENDS GcTraversal, TLC

CONSTANTS z1, z2, z3, o1, MaxElems, MaxSlots

Zvals3 == {z1, z2, z3}
Zvals2 == {z1, z2}

SeqsUpTo(S, k) == UNION {[1..i -> S] : i \in 0..k}
NumSlots(h) == Cardinality(Slots(h))

Contents == SeqsUpTo(Zvals, MaxElems) \cup {<<o>> : o \in Objs}
SmallHeaps ==
    {h \in [Nodes -> Contents] :
        /\ \A o \in Objs : \A i \in DOMAIN h[o] : h[o][i] \in Zvals
        /\ \A g \in Globals : \A i \in DOMAIN h[g] : h[g][i] \in Zvals
        /\ NumSlots(h) <= MaxSlots}

ZvalSymmetry == Permutations(Zvals \ Globals)
=============================================================================
