-------------------------- MODULE MCCaptureSession --------------------------
(* Instance of CaptureSession for TLC. *)
EXTENDS CaptureSession, TLC

Symmetry == Permutations(Procs) \cup Permutations(Calls)
============================================================================
