----------------------------- MODULE MCWriteRun -----------------------------
(* Instances of WriteRun for TLC.                                          *)
EXTENDS WriteRun, TLC

\* The content of every call differs from that of every other.
Contents == Runs \X Calls

CallSymmetry == Permutations(Calls) \cup Permutations(Approvals)
RunSymmetry == Permutations(Runs) \cup Permutations(Approvals)
=============================================================================
