----------------------------- MODULE RelayPump -----------------------------
(***************************************************************************)
(* One intercepted connection inside the relay (relay.py): _handle from    *)
(* its open_connection on, and the two _pump tasks it gathers.  The event  *)
(* loop runs one task at a time, so what a pump does between two awaits    *)
(* (read returns, tee, write) is one step.                                 *)
(*                                                                         *)
(* The peers and their TCP are the environment: a peer writes bytes, ends  *)
(* its stream, or is reset.  asyncio is modelled from how _pump uses it: a *)
(* reader of a reset socket raises whatever it has buffered, a drain raises*)
(* once the writer's socket is reset, write_eof follows the buffered data. *)
(***************************************************************************)
EXTENDS Naturals, Sequences, SequencesExt

CONSTANTS
    MaxRequest, \* bound: bytes the client writes
    MaxReply,   \* bound: bytes the camera writes
    ReadSize,   \* reader.read(65536): bytes taken at most at once
    HighWater   \* the write buffer above which drain() waits

ASSUME PumpAssumption ==
    /\ MaxRequest \in Nat /\ MaxReply \in Nat
    /\ ReadSize \in Nat \ {0} /\ HighWater \in Nat

VARIABLES
    phase,      \* of _handle: connecting, relaying, closed
    pc,         \* of each pump: read, drain, done
    sent,       \* bytes written by the source of each direction: 1, 2, ...
    closed,     \* the source has ended its stream
    inbox,      \* StreamReader buffer (and the network before it)
    outbox,     \* transport write buffer (and the network behind it)
    eofOut,     \* write_eof or close was called on the writer
    delivered,  \* bytes the sink has received
    eof,        \* the sink has seen the end of the stream
    lost,       \* peers whose connection was reset
    teed,       \* bytes given to the decoder, per direction
    cause,      \* for each byte sent: bytes its sender had received by then
    context     \* for each byte teed: bytes of the other direction teed by then

netVars   == <<sent, closed, cause>>
pumpVars  == <<phase, pc, inbox, eofOut, teed, context>>
sinkVars  == <<outbox, delivered, eof>>
vars      == <<phase, pc, sent, closed, inbox, outbox, eofOut, delivered, eof,
               lost, teed, cause, context>>

Dirs      == {"c2s", "s2c"}
Peers     == {"client", "camera"}
Source(d) == IF d = "c2s" THEN "client" ELSE "camera"
Sink(d)   == IF d = "c2s" THEN "camera" ELSE "client"
MaxBytes(d) == IF d = "c2s" THEN MaxRequest ELSE MaxReply
Other(d)  == IF d = "c2s" THEN "s2c" ELSE "c2s"

Init ==
    /\ phase = "connecting"
    /\ pc = [d \in Dirs |-> "read"]
    /\ sent = [d \in Dirs |-> 0]
    /\ closed = [d \in Dirs |-> FALSE]
    /\ inbox = [d \in Dirs |-> << >>]
    /\ outbox = [d \in Dirs |-> << >>]
    /\ eofOut = [d \in Dirs |-> FALSE]
    /\ delivered = [d \in Dirs |-> << >>]
    /\ eof = [d \in Dirs |-> FALSE]
    /\ lost = {}
    /\ teed = [d \in Dirs |-> << >>]
    /\ cause = [d \in Dirs |-> << >>]
    /\ context = [d \in Dirs |-> << >>]

----------------------------------------------------------------------------
(* The peers.  The camera exists for the relay once it is connected.        *)

Reachable(p) == p \notin lost /\ (p = "camera" => phase # "connecting")

PeerWrite(d) ==
    /\ Reachable(Source(d))
    /\ ~closed[d] /\ sent[d] < MaxBytes(d)
    /\ sent' = [sent EXCEPT ![d] = @ + 1]
    /\ inbox' = [inbox EXCEPT ![d] = Append(@, sent[d] + 1)]
    /\ cause' = [cause EXCEPT ![d] = Append(@, Len(delivered[Other(d)]))]
    /\ UNCHANGED <<phase, pc, closed, eofOut, sinkVars, lost, teed, context>>

PeerClose(d) ==
    /\ Reachable(Source(d))
    /\ ~closed[d]
    /\ closed' = [closed EXCEPT ![d] = TRUE]
    /\ UNCHANGED <<pumpVars, sent, cause, sinkVars, lost>>

\* A reset also loses what was on its way to the peer.
PeerReset(p) ==
    /\ Reachable(p)
    /\ lost' = lost \cup {p}
    /\ outbox' = [d \in Dirs |-> IF Sink(d) = p THEN << >> ELSE outbox[d]]
    /\ UNCHANGED <<pumpVars, netVars, delivered, eof>>

\* The transport hands one byte, then the end of the stream, to the sink.
Flush(d) ==
    /\ outbox[d] # << >>
    /\ delivered' = [delivered EXCEPT ![d] = Append(@, Head(outbox[d]))]
    /\ outbox' = [outbox EXCEPT ![d] = Tail(@)]
    /\ UNCHANGED <<pumpVars, netVars, eof, lost>>

FlushEof(d) ==
    /\ outbox[d] = << >> /\ eofOut[d] /\ ~eof[d]
    /\ Sink(d) \notin lost
    /\ eof' = [eof EXCEPT ![d] = TRUE]
    /\ UNCHANGED <<pumpVars, netVars, outbox, delivered, lost>>

----------------------------------------------------------------------------
(* _handle around the pumps.                                                *)

ConnectOk ==
    /\ phase = "connecting"
    /\ phase' = "relaying"
    /\ UNCHANGED <<pc, inbox, eofOut, teed, context, netVars, sinkVars, lost>>

\* There is no camera; the client's writer is closed without a pump running.
ConnectFail ==
    /\ phase = "connecting"
    /\ phase' = "closed"
    /\ lost' = lost \cup {"camera"}
    /\ eofOut' = [eofOut EXCEPT !["s2c"] = TRUE]
    /\ UNCHANGED <<pc, inbox, teed, context, netVars, sinkVars>>

\* gather returns when both pumps have.  Closing the writers still flushes
\* them, and both streams were ended by the pumps.
Finish ==
    /\ phase = "relaying"
    /\ \A d \in Dirs : pc[d] = "done"
    /\ phase' = "closed"
    /\ UNCHANGED <<pc, inbox, eofOut, teed, context, netVars, sinkVars, lost>>

----------------------------------------------------------------------------
(* _pump.                                                                   *)

Pumping(d) == phase = "relaying" /\ pc[d] # "done"

\* Mutants: the decoder misses the last byte of what was read; an exception of
\* the decoder leaves the loop before the write.
TeeShort(d, data) ==
    LET got == SubSeq(data, 1, Len(data) - 1)
    IN /\ teed' = [teed EXCEPT ![d] = @ \o got]
       /\ context' = [context EXCEPT ![d] =
             @ \o [i \in 1..Len(got) |-> Len(teed[Other(d)])]]
PassOnUnguarded(d, data) ==
    \/ /\ outbox' = [outbox EXCEPT ![d] = IF Sink(d) \in lost THEN @ ELSE @ \o data]
       /\ pc' = [pc EXCEPT ![d] = "drain"]
       /\ UNCHANGED eofOut
    \/ /\ pc' = [pc EXCEPT ![d] = "done"]
       /\ eofOut' = [eofOut EXCEPT ![d] = TRUE]
       /\ UNCHANGED outbox

\* The decoder is called with the data.
Tee(d, data) ==
    /\ teed' = [teed EXCEPT ![d] = @ \o data]
    /\ context' = [context EXCEPT ![d] = @ \o [i \in 1..Len(data) |-> Len(teed[Other(d)])]]

\* Whether or not it raised, the data is written; a reset transport drops it.
PassOn(d, data) ==
    /\ outbox' = [outbox EXCEPT ![d] = IF Sink(d) \in lost THEN @ ELSE @ \o data]
    /\ pc' = [pc EXCEPT ![d] = "drain"]
    /\ UNCHANGED eofOut

\* read returns data: tee, then write, with no await in between.
Forward(d) ==
    /\ Pumping(d) /\ pc[d] = "read"
    /\ Source(d) \notin lost /\ inbox[d] # << >>
    /\ LET n == IF Len(inbox[d]) < ReadSize THEN Len(inbox[d]) ELSE ReadSize
       IN /\ Tee(d, SubSeq(inbox[d], 1, n))
          /\ PassOn(d, SubSeq(inbox[d], 1, n))
          /\ inbox' = [inbox EXCEPT ![d] = SubSeq(@, n + 1, Len(@))]
    /\ UNCHANGED <<phase, netVars, delivered, eof, lost>>

\* drain returns once the buffer is low.
Drained(d) ==
    /\ Pumping(d) /\ pc[d] = "drain"
    /\ Sink(d) \notin lost /\ Len(outbox[d]) <= HighWater
    /\ pc' = [pc EXCEPT ![d] = "read"]
    /\ UNCHANGED <<phase, inbox, eofOut, teed, context, netVars, sinkVars, lost>>

\* Mutant: an exception of read is not caught.
PumpEndsOnEof(d) ==
    \/ pc[d] = "read" /\ inbox[d] = << >> /\ closed[d]
    \/ pc[d] = "drain" /\ Sink(d) \in lost

\* End of stream, or an exception of read or drain: `finally` ends the other
\* side's stream, which fails silently on a reset socket.
PumpEnds(d) ==
    \/ pc[d] = "read" /\ Source(d) \in lost
    \/ pc[d] = "read" /\ inbox[d] = << >> /\ closed[d]
    \/ pc[d] = "drain" /\ Sink(d) \in lost

\* Mutant: `finally` forgets the stream.
WriteEofNot(d) == UNCHANGED eofOut

WriteEof(d) == eofOut' = [eofOut EXCEPT ![d] = TRUE]

EndPump(d) ==
    /\ Pumping(d) /\ PumpEnds(d)
    /\ pc' = [pc EXCEPT ![d] = "done"]
    /\ WriteEof(d)
    /\ UNCHANGED <<phase, inbox, teed, context, netVars, sinkVars, lost>>

----------------------------------------------------------------------------
Pump(d) == Forward(d) \/ Drained(d) \/ EndPump(d)
Handle  == ConnectOk \/ ConnectFail \/ Finish
Network(d) == Flush(d) \/ FlushEof(d)

Next ==
    \/ \E d \in Dirs : PeerWrite(d) \/ PeerClose(d) \/ Network(d) \/ Pump(d)
    \/ \E p \in Peers : PeerReset(p)
    \/ Handle

Spec == Init /\ [][Next]_vars

\* The event loop runs every task that is ready, open_connection is under a
\* timeout, and a peer that is not reset reads what it is sent.  Peers need
\* not write, close or be reset.
Fairness ==
    /\ WF_vars(Handle)
    /\ \A d \in Dirs : WF_vars(Pump(d)) /\ WF_vars(Network(d))

LiveSpec == Spec /\ Fairness

----------------------------------------------------------------------------
(* Properties.                                                              *)

TypeOK ==
    /\ phase \in {"connecting", "relaying", "closed"}
    /\ pc \in [Dirs -> {"read", "drain", "done"}]
    /\ sent \in [Dirs -> Nat] /\ \A d \in Dirs : sent[d] <= MaxBytes(d)
    /\ closed \in [Dirs -> BOOLEAN] /\ eofOut \in [Dirs -> BOOLEAN]
    /\ eof \in [Dirs -> BOOLEAN]
    /\ inbox \in [Dirs -> Seq(Nat)] /\ outbox \in [Dirs -> Seq(Nat)]
    /\ delivered \in [Dirs -> Seq(Nat)] /\ teed \in [Dirs -> Seq(Nat)]
    /\ cause \in [Dirs -> Seq(Nat)] /\ context \in [Dirs -> Seq(Nat)]
    /\ lost \subseteq Peers

\* Each direction is the transparent pipe of TransparentPipe: in order,
\* unmodified, complete, and ended only after the last byte.
C2S == INSTANCE TransparentPipe WITH sent <- sent["c2s"], closed <- closed["c2s"],
          delivered <- delivered["c2s"], eof <- eof["c2s"], broken <- lost # {}
S2C == INSTANCE TransparentPipe WITH sent <- sent["s2c"], closed <- closed["s2c"],
          delivered <- delivered["s2c"], eof <- eof["s2c"], broken <- lost # {}

Transparent == C2S!Spec /\ S2C!Spec

\* The decoder never sees a byte before one it may be an answer to: whatever a
\* peer had received when it sent byte i was teed before byte i.
CauseBeforeEffect ==
    \A d \in Dirs : \A i \in 1..Len(teed[d]) : cause[d][i] <= context[d][i]

\* Once both streams have ended, one way or the other, the task ends: it is
\* not kept by a pump waiting for a peer that is gone.
Over(d) == closed[d] \/ Source(d) \in lost

HandlerEnds == (\A d \in Dirs : Over(d)) ~> phase = "closed"
============================================================================
