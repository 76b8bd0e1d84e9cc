---------------------------- MODULE MCWarehouse ----------------------------
(***************************************************************************)
(* Small instances of Warehouse for TLC.                                   *)
(***************************************************************************)
EXTENDS Warehouse, TLC

Rec(k, d, g) == [key |-> k, day |-> d, groups |-> g]

\* A record of a day so old that a window below it wraps, and one written again:
\* first without a group, then for another day, inside the window of the first,
\* with two.
Records == {Rec("k1", 1, {"a"}), Rec("k2", 5, {}), Rec("k2", 3, {"a", "b"})}

\* Runs of the archiver are interchangeable.
Symmetry == Permutations(Archiver)
=============================================================================
