---------------------------- MODULE MCRunJournal ----------------------------
(* Instance of RunJournal for TLC: any caller, any order of operations.    *)
EXTENDS RunJournal, TLC

Symmetry == Permutations(Runs) \cup Permutations(Calls) \cup Permutations(Approvals)
=============================================================================
