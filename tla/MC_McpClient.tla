---------------------------- MODULE MC_McpClient ----------------------------
(***************************************************************************)
(* Instances of McpClient for TLC.                                         *)
(***************************************************************************)
EXTENDS McpClient
=============================================================================
