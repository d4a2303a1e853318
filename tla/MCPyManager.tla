---- MODULE MCPyManager ----
(* An instance of PyManager for TLC. *)
EXTENDS PyManager, TLC

====
