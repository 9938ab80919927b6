---------------------------- MODULE MCImportStore ----------------------------
(* Instances of ImportStore for TLC.                                       *)
EXTENDS ImportStore

CONSTANTS i1, i2, s1, s2

\* An import of two files, and one of a single file.
TwoAndOne == [i \in Imports |-> IF i = i1 THEN {s1, s2} ELSE {s1}]
=============================================================================
