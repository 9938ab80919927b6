------------------------------ MODULE MCWebRuns ------------------------------
(* Instances of WebRuns for TLC.                                           *)
EXTENDS WebRuns, TLC

CONSTANTS s1, s2, q1, q2, b1, b2, c1, c2

Symmetry == Permutations(Sessions) \cup Permutations(Requests) \cup Permutations(Bodies)
                \cup Permutations(Clients)
=============================================================================
