---------------------------- MODULE MCCaptureLog ----------------------------
(* Instance of CaptureLog for TLC. *)
EXTENDS CaptureLog
============================================================================
