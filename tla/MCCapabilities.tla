--------------------------- MODULE MCCapabilities ---------------------------
(* Instance of Capabilities for TLC.                                       *)
EXTENDS Capabilities, TLC

CONSTANTS v1, c1, c2

Symmetry == Permutations(Clients)
=============================================================================
