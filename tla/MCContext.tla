------------------------------ MODULE MCContext ------------------------------
(* Instances of Context for TLC.                                           *)
EXTENDS Context
=============================================================================
