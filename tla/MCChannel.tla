------------------------------ MODULE MCChannel ------------------------------
(* Instances of Channel for TLC.                                           *)
EXTENDS Channel

CONSTANTS m1, m2, m3, m4

\* Two requests, a command and a malformed message.
Kind == [m \in Msgs |-> CASE m \in {m1, m2} -> "run" [] m = m3 -> "command" [] m = m4 -> "reject"]
=============================================================================
