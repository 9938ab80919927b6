---------------------------- MODULE MCStateBackup ----------------------------
(* Instances of StateBackup for TLC.                                       *)
EXTENDS StateBackup, TLC

CONSTANTS i1, i2

ImportSymmetry == Permutations(Imports)
=============================================================================
