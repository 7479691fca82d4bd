---------------------------- MODULE MCReplayCalls ----------------------------
(* Instance of ReplayCalls for TLC. *)
EXTENDS ReplayCalls
============================================================================
