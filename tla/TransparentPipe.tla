-------------------------- MODULE TransparentPipe --------------------------
(***************************************************************************)
(* What the relay promises for one direction of an intercepted connection  *)
(* (relay.py: "pump bytes both ways without modification"): the sink sees  *)
(* the source's bytes in order, and the end of the stream after the last   *)
(* of them.  Only when a peer was reset may the stream end early.          *)
(***************************************************************************)
EXTENDS Naturals, Sequences

VARIABLES
    sent,       \* how many bytes the source has written; they are 1, 2, ...
    closed,     \* the source has ended its stream
    delivered,  \* the bytes the sink has received
    eof,        \* the sink has seen the end of the stream
    broken      \* one of the two peers was reset

vars == <<sent, closed, delivered, eof, broken>>

Init == /\ sent = 0 /\ closed = FALSE
        /\ delivered = << >> /\ eof = FALSE
        /\ broken = FALSE

Write == /\ ~closed
         /\ sent' = sent + 1
         /\ UNCHANGED <<closed, delivered, eof, broken>>

Close == /\ closed' = TRUE
         /\ UNCHANGED <<sent, delivered, eof, broken>>

\* The next byte; nothing comes after the end of the stream.
Deliver == /\ ~eof
           /\ Len(delivered) < sent
           /\ delivered' = Append(delivered, Len(delivered) + 1)
           /\ UNCHANGED <<sent, closed, eof, broken>>

End == /\ ~eof
       /\ broken \/ (closed /\ Len(delivered) = sent)
       /\ eof' = TRUE
       /\ UNCHANGED <<sent, closed, delivered, broken>>

Break == /\ broken' = TRUE
         /\ UNCHANGED <<sent, closed, delivered, eof>>

Next == Write \/ Close \/ Deliver \/ End \/ Break

\* As long as no peer is reset, what was written arrives, and so does the end.
Live == /\ WF_vars(~broken /\ Deliver)
        /\ WF_vars(~broken /\ End)

\* Nothing is lost, changed or made up on the way.
Faithful == Init /\ [][Next]_vars

Spec == Faithful /\ Live
============================================================================
