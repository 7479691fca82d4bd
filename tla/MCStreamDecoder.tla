-------------------------- MODULE MCStreamDecoder --------------------------
(* Instance of StreamDecoder for TLC. *)
EXTENDS StreamDecoder
============================================================================
