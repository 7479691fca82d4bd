--------------------------- MODULE MCNatRedirect ---------------------------
(* Instance of NatRedirect for TLC.  Liveness admits no symmetry, so the    *)
(* instance fixes what symmetry would: the first connection's ports, and    *)
(* that the second one dials the other camera port (two connections to one  *)
(* camera port cannot be confused by the table).                            *)
EXTENDS NatRedirect

CONSTANTS c1, c2, p1, d1, d2

MCInit == Init /\ port[c1] = p1 /\ dst[c1] = d1 /\ dst[c2] = d2

MCSpec == MCInit /\ [][Next]_vars /\ Fairness
============================================================================
