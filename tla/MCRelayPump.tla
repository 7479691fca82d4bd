---------------------------- MODULE MCRelayPump ----------------------------
(* Instance of RelayPump for TLC. *)
EXTENDS RelayPump
============================================================================
