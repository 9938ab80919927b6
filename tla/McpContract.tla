------------------------------ MODULE McpContract ------------------------------
(***************************************************************************)
(* What a run is promised about an MCP server: it is started once and does *)
(* not outlive the connection; a call is asked once and told once; and a   *)
(* success is told only of a call that the server itself has answered.     *)
(***************************************************************************)
CONSTANT Calls

VARIABLES server,    \* its process: "none", "live" or "gone"
          told,      \* told[k] of each call: "new", "asked", "ok", "error" or "stopped"
          answered   \* the calls that the server answered

connection == <<server, told, answered>>

McpContractInit == server = "none" /\ told = [k \in Calls |-> "new"] /\ answered = {}

Start == server = "none" /\ server' = "live" /\ UNCHANGED <<told, answered>>

Answer ==
    /\ server = "live"
    /\ \E k \in Calls : answered' = answered \cup {k}
    /\ UNCHANGED <<server, told>>

Told(k, answer) == told' = [told EXCEPT ![k] = answer] /\ UNCHANGED answered

Ask(k) == told[k] = "new" /\ Told(k, "asked") /\ UNCHANGED server

\* Whoever gives a call up stops the server with it.
Tell(k) ==
    /\ told[k] = "asked"
    /\ \/ k \in answered /\ Told(k, "ok") /\ UNCHANGED server
       \/ Told(k, "error") /\ UNCHANGED server
       \/ Told(k, "stopped") /\ server' = "gone"

Stop == server = "live" /\ server' = "gone" /\ UNCHANGED <<told, answered>>

McpContractNext == Start \/ Answer \/ Stop \/ \E k \in Calls : Ask(k) \/ Tell(k)

Settles ==
    /\ \A k \in Calls : (told[k] = "asked") ~> (told[k] # "asked")
    /\ (server = "live") ~> (server = "gone")

McpContractSafety == McpContractInit /\ [][McpContractNext]_connection

McpContractSpec == McpContractSafety /\ Settles
=============================================================================
