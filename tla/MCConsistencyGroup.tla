------------------------- MODULE MCConsistencyGroup -------------------------
(* An instance of ConsistencyGroup for TLC. *)
EXTENDS ConsistencyGroup

CONSTANTS g1, v1, v2, s1, t1, t2, i1, n1, n2
=============================================================================
