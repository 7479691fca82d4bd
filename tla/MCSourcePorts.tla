---------------------------- MODULE MCSourcePorts ----------------------------
(* Instance of SourcePorts for TLC. *)
EXTENDS SourcePorts
============================================================================
