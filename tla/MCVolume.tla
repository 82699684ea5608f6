------------------------------ MODULE MCVolume ------------------------------
(* Instances of Volume for TLC. *)
EXTENDS Volume, TLC

CONSTANTS v1, i1, i2, b1, s1, s2, s3

Symmetry == Permutations(Instances) \cup Permutations(Slots)

EveryRequest == Kinds \cup {"deleteBackup"}
=============================================================================
