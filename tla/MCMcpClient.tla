----------------------------- MODULE MCMcpClient -----------------------------
(* Instance of McpClient for TLC.                                          *)
EXTENDS McpClient
=============================================================================
