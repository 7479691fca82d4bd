------------------------------ MODULE MCUiLog ------------------------------
(* Instance of UiLog for TLC. *)
EXTENDS UiLog, TLC

\* A file with an id twice, and one that is not in the order of its ids.
MCFileIds == {<<1, 1>>, <<2, 1>>}

Symmetry == Permutations(Requests)
============================================================================
