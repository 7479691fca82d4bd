---------------------------- MODULE RelayProofs ----------------------------
(***************************************************************************)
(* Proofs about one connection of the relay, for any number of bytes, any  *)
(* read size and any high-water mark (RelayPump): its two pumps are two    *)
(* faithful pipes, and the decoder sees a byte after the bytes it may be   *)
(* an answer to.  And about the ports that connections come from, for any  *)
(* tasks, range of ports and number of tries (SourcePorts).                *)
(***************************************************************************)
EXTENDS RelayPump, SourcePorts, FiniteSetTheorems, SequenceTheorems, TLAPS

\* The context of the bytes of one read: the same number for each.
LEMMA SameForAll ==
    ASSUME NEW n \in Nat, NEW c \in Nat
    PROVE  /\ [i \in 1..n |-> c] \in Seq(Nat)
           /\ Len([i \in 1..n |-> c]) = n
           /\ \A j \in 1..n : [i \in 1..n |-> c][j] = c
  OBVIOUS

\* A read takes at least one byte, and at most all of them.
LEMMA ReadLength ==
    ASSUME NEW s \in Seq(Nat), s # << >>
    PROVE  /\ Len(s) \in Nat \ {0}
           /\ (IF Len(s) < ReadSize THEN Len(s) ELSE ReadSize) \in 1..Len(s)
<1>1. Len(s) \in Nat \ {0}
  BY EmptySeq
<1>2. ReadSize \in Nat \ {0}
  BY PumpAssumption
<1>. QED  BY <1>1, <1>2

\* What a read takes off the buffer, and what it leaves.
LEMMA Splitting ==
    ASSUME NEW s \in Seq(Nat), NEW n \in 1..Len(s)
    PROVE  /\ SubSeq(s, 1, n) \in Seq(Nat) /\ Len(SubSeq(s, 1, n)) = n
           /\ \A i \in 1..n : SubSeq(s, 1, n)[i] = s[i]
           /\ SubSeq(s, n + 1, Len(s)) \in Seq(Nat)
           /\ Len(SubSeq(s, n + 1, Len(s))) = Len(s) - n
           /\ \A i \in 1..(Len(s) - n) : SubSeq(s, n + 1, Len(s))[i] = s[n + i]
<1> DEFINE l == Len(s)
           m == n + 1
<1>1. /\ l \in Nat /\ n \in Nat /\ m \in Nat /\ m = n + 1 /\ 1 <= n /\ n <= l
      /\ \A i \in 1..l : s[i] \in Nat
  BY LenProperties, ElementOfSeq
<1> HIDE DEF l, m
<1>2. /\ SubSeq(s, 1, n) \in Seq(Nat)
      /\ Len(SubSeq(s, 1, n)) = IF 1 <= n THEN n - 1 + 1 ELSE 0
      /\ \A i \in 1..(n - 1 + 1) : SubSeq(s, 1, n)[i] = s[1 + i - 1]
  <2>1. 1 \in Int /\ n \in Int /\ \A i \in 1..n : s[i] \in Nat
    BY <1>1
  <2>. QED  BY <2>1, SubSeqProperties
<1>3. /\ SubSeq(s, m, l) \in Seq(Nat)
      /\ Len(SubSeq(s, m, l)) = IF m <= l THEN l - m + 1 ELSE 0
      /\ \A i \in 1..(l - m + 1) : SubSeq(s, m, l)[i] = s[m + i - 1]
  <2>1. m \in Int /\ l \in Int /\ \A i \in m..l : s[i] \in Nat
    BY <1>1
  <2>. QED  BY <2>1, SubSeqProperties
<1>4. Len(SubSeq(s, 1, n)) = n /\ \A i \in 1..n : SubSeq(s, 1, n)[i] = s[i]
  BY <1>1, <1>2
<1>5. Len(SubSeq(s, m, l)) = l - n /\ \A i \in 1..(l - n) : SubSeq(s, m, l)[i] = s[n + i]
  <2>1. l - n = (IF m <= l THEN l - m + 1 ELSE 0)
    BY <1>1
  <2>2. \A i \in 1..(l - n) : i \in 1..(l - m + 1) /\ m + i - 1 = n + i
    BY <1>1
  <2>. QED  BY <2>1, <2>2, <1>3
<1>. QED  BY <1>2, <1>3, <1>4, <1>5 DEF l, m

----------------------------------------------------------------------------
(* Types.                                                                   *)

LEMMA DirFacts ==
       \A d \in Dirs : /\ Other(d) \in Dirs /\ Other(d) # d /\ Other(Other(d)) = d
                       /\ Source(d) \in Peers /\ Sink(d) \in Peers
                       /\ MaxBytes(d) \in Nat
  BY PumpAssumption DEF Dirs, Other, Source, Sink, Peers, MaxBytes

LEMMA EnvironmentKeepsTypes ==
    ASSUME TypeOK, NEW d \in Dirs, PeerWrite(d) \/ PeerClose(d) \/ Network(d)
    PROVE  TypeOK'
<1> USE DEF TypeOK, netVars, pumpVars, sinkVars
<1>1. CASE PeerWrite(d)
  <2>1. sent[d] + 1 \in Nat /\ sent[d] + 1 <= MaxBytes(d)
    <3>1. sent[d] \in Nat /\ MaxBytes(d) \in Nat /\ sent[d] < MaxBytes(d)
      BY <1>1, DirFacts DEF PeerWrite
    <3> HIDE DEF TypeOK
    <3>. QED  BY <3>1
  <2>2. Append(inbox[d], sent[d] + 1) \in Seq(Nat)
    BY <2>1
  <2>3. Len(delivered[Other(d)]) \in Nat
    BY DirFacts, LenProperties
  <2>4. Append(cause[d], Len(delivered[Other(d)])) \in Seq(Nat)
    BY <2>3
  <2>5. /\ sent' \in [Dirs -> Nat] /\ \A e \in Dirs : sent'[e] <= MaxBytes(e)
        /\ inbox' \in [Dirs -> Seq(Nat)] /\ cause' \in [Dirs -> Seq(Nat)]
    BY <1>1, <2>1, <2>2, <2>4 DEF PeerWrite
  <2>. QED  BY <1>1, <2>5 DEF PeerWrite
<1>2. CASE PeerClose(d)
  BY <1>2 DEF PeerClose
<1>3. CASE Flush(d)
  <2>1. Head(outbox[d]) \in Nat /\ Tail(outbox[d]) \in Seq(Nat)
    BY <1>3, HeadTailProperties DEF Flush
  <2>2. Append(delivered[d], Head(outbox[d])) \in Seq(Nat)
    <3>1. delivered[d] \in Seq(Nat)
      OBVIOUS
    <3>. QED  BY <2>1, <3>1, AppendProperties
  <2>. QED  BY <1>3, <2>1, <2>2 DEF Flush
<1>4. CASE FlushEof(d)
  BY <1>4 DEF FlushEof
<1>. QED  BY <1>1, <1>2, <1>3, <1>4 DEF Network

LEMMA PumpKeepsTypes ==
    ASSUME TypeOK, NEW d \in Dirs, Pump(d)
    PROVE  TypeOK'
<1> USE DEF TypeOK, netVars, pumpVars, sinkVars
<1>1. CASE Forward(d)
  <2> DEFINE n == IF Len(inbox[d]) < ReadSize THEN Len(inbox[d]) ELSE ReadSize
             got == SubSeq(inbox[d], 1, n)
             ctx == [i \in 1..Len(got) |-> Len(teed[Other(d)])]
  <2>1. inbox[d] \in Seq(Nat) /\ inbox[d] # << >>
    BY <1>1 DEF Forward
  <2>2. got \in Seq(Nat) /\ SubSeq(inbox[d], n + 1, Len(inbox[d])) \in Seq(Nat)
    BY <2>1, ReadLength, Splitting
  <2>3. ctx \in Seq(Nat)
    <3>1. Len(got) \in Nat /\ Len(teed[Other(d)]) \in Nat
      BY <2>2, DirFacts, LenProperties
    <3>. QED  BY <3>1, SameForAll
  <2>4. /\ teed[d] \o got \in Seq(Nat) /\ context[d] \o ctx \in Seq(Nat)
        /\ outbox[d] \o got \in Seq(Nat)
    BY <2>2, <2>3, ConcatProperties
  <2>5. /\ teed' = [teed EXCEPT ![d] = @ \o got]
        /\ context' = [context EXCEPT ![d] = @ \o ctx]
        /\ outbox' = [outbox EXCEPT ![d] = IF Sink(d) \in lost THEN @ ELSE @ \o got]
        /\ inbox' = [inbox EXCEPT ![d] = SubSeq(@, n + 1, Len(@))]
        /\ pc' = [pc EXCEPT ![d] = "drain"]
        /\ UNCHANGED <<phase, netVars, delivered, eof, eofOut, lost>>
    BY <1>1 DEF Forward, Tee, PassOn
  <2> HIDE DEF n, got, ctx
  <2>. QED  BY <2>2, <2>4, <2>5
<1>2. CASE Drained(d)
  BY <1>2 DEF Drained
<1>3. CASE EndPump(d)
  BY <1>3 DEF EndPump, WriteEof
<1>. QED  BY <1>1, <1>2, <1>3 DEF Pump

LEMMA HandlerKeepsTypes ==
    ASSUME TypeOK, Handle \/ (\E p \in Peers : PeerReset(p))
    PROVE  TypeOK'
<1> USE DEF TypeOK, netVars, pumpVars, sinkVars
<1>1. CASE ConnectOk
  BY <1>1 DEF ConnectOk
<1>2. CASE ConnectFail
  BY <1>2 DEF ConnectFail, Peers
<1>3. CASE Finish
  BY <1>3 DEF Finish
<1>4. ASSUME NEW p \in Peers, PeerReset(p) PROVE TypeOK'
  <2>1. << >> \in Seq(Nat)
    OBVIOUS
  <2>2. outbox' \in [Dirs -> Seq(Nat)]
    BY <1>4, <2>1 DEF PeerReset
  <2>. QED  BY <1>4, <2>2 DEF PeerReset
<1>. QED  BY <1>1, <1>2, <1>3, <1>4 DEF Handle

LEMMA InitTypes == ASSUME Init PROVE TypeOK
<1>1. << >> \in Seq(Nat)
  OBVIOUS
<1>. QED  BY <1>1, DirFacts DEF Init, TypeOK

\* Types of a connection's two pumps (relay.py: _handle, _pump), for any number
\* of bytes and any read size.
THEOREM TypeCorrect == Spec => []TypeOK
<1>1. Init => TypeOK
  BY InitTypes
<1>2. TypeOK /\ [Next]_vars => TypeOK'
  <2> SUFFICES ASSUME TypeOK, [Next]_vars PROVE TypeOK'
    OBVIOUS
  <2>1. CASE UNCHANGED vars
    BY <2>1 DEF vars, TypeOK
  <2>2. CASE Next
    BY <2>2, EnvironmentKeepsTypes, PumpKeepsTypes, HandlerKeepsTypes DEF Next
  <2>. QED  BY <2>1, <2>2
<1>. QED  BY <1>1, <1>2, PTL DEF Spec

----------------------------------------------------------------------------
(* Each direction is a faithful pipe.                                       *)

\* Where the n bytes of a direction are: delivered, then the write buffer, then
\* the reader's, without a gap as long as the sink is up.
InOrder(n, in, tee, out, del, up) ==
    /\ Len(tee) + Len(in) = n
    /\ \A i \in 1..Len(in) : in[i] = Len(tee) + i
    /\ Len(del) + Len(out) <= Len(tee)
    /\ \A i \in 1..Len(out) : out[i] = Len(del) + i
    /\ ~up => out = << >>
    /\ up => Len(del) + Len(out) = Len(tee)

Chain(d) == InOrder(sent[d], inbox[d], teed[d], outbox[d], delivered[d], Sink(d) \notin lost)

\* A stream is ended behind its last byte: the pump is over, and nothing is on
\* its way to the sink once it has seen the end.
Ended(d) ==
    /\ phase = "connecting" => outbox[d] = << >> /\ pc[d] # "done"
    /\ eofOut[d] => pc[d] = "done" \/ phase = "closed"
    /\ eofOut[d] /\ lost = {} => closed[d] /\ inbox[d] = << >>
    /\ eof[d] => eofOut[d] /\ outbox[d] = << >>

\* The steps of a chain: the source writes, the sink receives, the pump reads
\* and passes on, the sink goes down.
LEMMA WriteInOrder ==
    ASSUME NEW n \in Nat, NEW in \in Seq(Nat), NEW tee \in Seq(Nat), NEW out, NEW del,
           NEW up, InOrder(n, in, tee, out, del, up)
    PROVE  InOrder(n + 1, Append(in, n + 1), tee, out, del, up)
<1>1. /\ Len(Append(in, n + 1)) = Len(in) + 1
      /\ \A i \in 1..Len(in) : Append(in, n + 1)[i] = in[i]
      /\ Append(in, n + 1)[Len(in) + 1] = n + 1
  BY AppendProperties
<1>2. Len(tee) \in Nat /\ Len(in) \in Nat
  BY LenProperties
<1>3. ASSUME NEW i \in 1..(Len(in) + 1) PROVE Append(in, n + 1)[i] = Len(tee) + i
  <2>1. CASE i \in 1..Len(in)
    BY <2>1, <1>1 DEF InOrder
  <2>2. CASE i = Len(in) + 1
    BY <2>2, <1>1, <1>2 DEF InOrder
  <2>. QED  BY <2>1, <2>2, <1>2
<1>. QED  BY <1>1, <1>2, <1>3 DEF InOrder

LEMMA DeliverInOrder ==
    ASSUME NEW n \in Nat, NEW in \in Seq(Nat), NEW tee \in Seq(Nat), NEW out \in Seq(Nat),
           NEW del \in Seq(Nat), NEW up \in BOOLEAN, InOrder(n, in, tee, out, del, up),
           out # << >>
    PROVE  /\ Head(out) = Len(del) + 1 /\ Len(del) < n
           /\ InOrder(n, in, tee, Tail(out), Append(del, Head(out)), up)
<1>1. /\ Len(out) \in Nat \ {0} /\ Len(del) \in Nat /\ Len(tee) \in Nat
      /\ Len(in) \in Nat
  BY EmptySeq, LenProperties
<1>2. /\ Len(Tail(out)) = Len(out) - 1 /\ Head(out) \in Nat /\ Head(out) = out[1]
      /\ \A i \in 1..Len(Tail(out)) : Tail(out)[i] = out[i + 1]
  BY HeadTailProperties
<1>3. Head(out) = Len(del) + 1
  BY <1>1, <1>2 DEF InOrder
<1>4. Len(Append(del, Head(out))) = Len(del) + 1
  BY <1>2, AppendProperties
<1>5. \A i \in 1..Len(Tail(out)) : Tail(out)[i] = Len(del) + 1 + i
  BY <1>1, <1>2 DEF InOrder
<1>6. up
  BY DEF InOrder
<1>. QED  BY <1>1, <1>2, <1>3, <1>4, <1>5, <1>6 DEF InOrder

LEMMA ForwardInOrder ==
    ASSUME NEW n \in Nat, NEW in \in Seq(Nat), NEW tee \in Seq(Nat), NEW out \in Seq(Nat),
           NEW del \in Seq(Nat), NEW up \in BOOLEAN, InOrder(n, in, tee, out, del, up),
           NEW k \in 1..Len(in)
    PROVE  InOrder(n, SubSeq(in, k + 1, Len(in)), tee \o SubSeq(in, 1, k),
                   IF up THEN out \o SubSeq(in, 1, k) ELSE out, del, up)
<1> DEFINE got == SubSeq(in, 1, k)
           rest == SubSeq(in, k + 1, Len(in))
           t == Len(tee)
           l == Len(in)
           o == Len(out)
           m == Len(del)
<1>1. /\ got \in Seq(Nat) /\ Len(got) = k /\ \A i \in 1..k : got[i] = in[i]
      /\ rest \in Seq(Nat) /\ Len(rest) = l - k
      /\ \A i \in 1..(l - k) : rest[i] = in[k + i]
  BY Splitting
<1>2. /\ t \in Nat /\ l \in Nat /\ o \in Nat /\ m \in Nat
      /\ k \in Nat /\ k \in 1..l
  BY LenProperties
<1>3. /\ t + l = n /\ m + o <= t
      /\ \A i \in 1..l : in[i] = t + i
      /\ \A i \in 1..o : out[i] = m + i
  BY DEF InOrder
<1>3a. /\ up => m + o = t
       /\ ~up => out = << >>
  BY DEF InOrder
<1> HIDE DEF got, rest
<1>4. Len(tee \o got) = t + k
  BY <1>1, ConcatProperties
<1>5. /\ Len(out \o got) = o + k
      /\ \A i \in 1..(o + k) : (out \o got)[i] = IF i <= o THEN out[i] ELSE got[i - o]
  BY <1>1, ConcatProperties
<1> HIDE DEF t, l, o, m
<1>6. \A i \in 1..(l - k) : rest[i] = t + k + i
  <2>1. \A i \in 1..(l - k) : k + i \in 1..l /\ t + (k + i) = t + k + i
    BY <1>2
  <2>. QED  BY <2>1, <1>1, <1>3
<1>7. ASSUME up, NEW i \in 1..(o + k)
      PROVE  (out \o got)[i] = m + i
  <2>1. CASE i <= o
    <3>1. i \in 1..o
      BY <2>1, <1>2
    <3>. QED  BY <3>1, <2>1, <1>3, <1>5
  <2>2. CASE i > o
    <3>1. i - o \in 1..k /\ i - o \in 1..l /\ ~(i <= o)
      BY <2>2, <1>2
    <3>2. (out \o got)[i] = t + (i - o)
      BY <3>1, <1>1, <1>3, <1>5
    <3>3. t + (i - o) = m + i
      <4>1. m + o = t
        BY <1>3a, <1>7, Zenon
      <4>2. i \in Int
        BY <1>2
      <4>. QED  BY <4>1, <4>2, <1>2
    <3>. QED  BY <3>2, <3>3
  <2>3. i <= o \/ i > o
    BY <1>2
  <2>. QED  BY <2>1, <2>2, <2>3
<1>8. t + k + (l - k) = n /\ m + o <= t + k
  BY <1>2, <1>3
<1>8a. (m + o = t) => m + (o + k) = t + k /\ m + (o + k) <= t + k
  BY <1>2
<1>9. CASE up
  <2>1. m + (o + k) = t + k /\ m + (o + k) <= t + k
    BY <1>9, <1>3a, <1>8a, Zenon
  <2>2. InOrder(n, rest, tee \o got, out \o got, del, TRUE)
    BY <1>9, <2>1, <1>1, <1>4, <1>5, <1>6, <1>7, <1>8 DEF InOrder, t, l, o, m
  <2>3. up = TRUE
    BY <1>9
  <2>. QED  BY <2>2, <2>3 DEF got, rest
<1>10. CASE ~up
  <2>1. out = << >>
    BY <1>10, <1>3a, Zenon
  <2>2. InOrder(n, rest, tee \o got, out, del, FALSE)
    BY <2>1, <1>1, <1>3, <1>4, <1>6, <1>8 DEF InOrder, t, l, o, m
  <2>3. up = FALSE
    BY <1>10
  <2>. QED  BY <2>2, <2>3 DEF got, rest
<1>. QED  BY <1>9, <1>10

LEMMA DownInOrder ==
    ASSUME NEW n, NEW in, NEW tee \in Seq(Nat), NEW out \in Seq(Nat),
           NEW del \in Seq(Nat), NEW up, InOrder(n, in, tee, out, del, up)
    PROVE  InOrder(n, in, tee, << >>, del, FALSE)
<1>1. /\ Len(out) \in Nat /\ Len(del) \in Nat /\ Len(tee) \in Nat
      /\ Len(<< >>) = 0
  BY LenProperties
<1>. QED  BY <1>1 DEF InOrder

----------------------------------------------------------------------------
(* The actions keep the chains.                                             *)

\* The sequences of a direction, and their lengths, are well typed.
LEMMA DirTypes ==
    ASSUME TypeOK, NEW d \in Dirs
    PROVE  /\ inbox[d] \in Seq(Nat) /\ outbox[d] \in Seq(Nat)
           /\ delivered[d] \in Seq(Nat) /\ teed[d] \in Seq(Nat)
           /\ cause[d] \in Seq(Nat) /\ context[d] \in Seq(Nat)
           /\ Len(delivered[d]) \in Nat /\ Len(teed[d]) \in Nat
           /\ sent[d] \in Nat
<1>1. /\ inbox[d] \in Seq(Nat) /\ outbox[d] \in Seq(Nat)
      /\ delivered[d] \in Seq(Nat) /\ teed[d] \in Seq(Nat)
      /\ cause[d] \in Seq(Nat) /\ context[d] \in Seq(Nat)
      /\ sent[d] \in Nat
  BY DEF TypeOK
<1>. QED  BY <1>1, LenProperties

\* What reading k bytes and passing them on does.
Forwarded(d, k) ==
    LET got == SubSeq(inbox[d], 1, k)
    IN /\ inbox' = [inbox EXCEPT ![d] = SubSeq(@, k + 1, Len(@))]
       /\ teed' = [teed EXCEPT ![d] = @ \o got]
       /\ context' = [context EXCEPT ![d] =
             @ \o [i \in 1..Len(got) |-> Len(teed[Other(d)])]]
       /\ outbox' = [outbox EXCEPT ![d] = IF Sink(d) \in lost THEN @ ELSE @ \o got]

LEMMA ForwardStep ==
    ASSUME TypeOK, NEW d \in Dirs, Forward(d)
    PROVE  /\ \E k \in 1..Len(inbox[d]) : Forwarded(d, k)
           /\ phase = "relaying" /\ pc[d] = "read" /\ pc' = [pc EXCEPT ![d] = "drain"]
           /\ UNCHANGED <<phase, sent, closed, cause, delivered, eof, eofOut, lost>>
<1> DEFINE k == IF Len(inbox[d]) < ReadSize THEN Len(inbox[d]) ELSE ReadSize
<1>1. k \in 1..Len(inbox[d])
  BY DirTypes, ReadLength DEF Forward
<1>2. Forwarded(d, k)
  BY DEF Forward, Forwarded, Tee, PassOn
<1>. QED  BY <1>1, <1>2 DEF Forward, Pumping, PassOn, netVars

LEMMA EnvironmentKeepsChains ==
    ASSUME TypeOK, NEW d \in Dirs, NEW e \in Dirs, Chain(e),
           PeerWrite(d) \/ PeerClose(d) \/ Network(d)
    PROVE  Chain(e)'
<1> USE DirTypes DEF Chain, netVars, pumpVars, sinkVars
<1>1. CASE PeerWrite(d)
  <2>1. CASE d = e
    <3>1. /\ sent'[e] = sent[e] + 1 /\ inbox'[e] = Append(inbox[e], sent[e] + 1)
          /\ UNCHANGED <<teed, outbox, delivered, lost>>
      BY <1>1, <2>1 DEF PeerWrite, TypeOK
    <3>. QED  BY <3>1, WriteInOrder
  <2>2. CASE d # e
    BY <1>1, <2>2 DEF PeerWrite, TypeOK
  <2>. QED  BY <2>1, <2>2
<1>2. CASE PeerClose(d)
  BY <1>2 DEF PeerClose
<1>3. CASE Flush(d)
  <2>1. CASE d = e
    <3>1. /\ outbox[e] # << >> /\ outbox'[e] = Tail(outbox[e])
          /\ delivered'[e] = Append(delivered[e], Head(outbox[e]))
          /\ UNCHANGED <<sent, inbox, teed, lost>>
      BY <1>3, <2>1 DEF Flush, TypeOK
    <3>2. (Sink(e) \notin lost) \in BOOLEAN
      OBVIOUS
    <3>3. InOrder(sent[e], inbox[e], teed[e], Tail(outbox[e]),
                  Append(delivered[e], Head(outbox[e])), Sink(e) \notin lost)
      BY <3>1, <3>2, DeliverInOrder
    <3>. QED  BY <3>1, <3>3
  <2>2. CASE d # e
    BY <1>3, <2>2 DEF Flush, TypeOK
  <2>. QED  BY <2>1, <2>2
<1>4. CASE FlushEof(d)
  BY <1>4 DEF FlushEof
<1>. QED  BY <1>1, <1>2, <1>3, <1>4 DEF Network

LEMMA PumpKeepsChains ==
    ASSUME TypeOK, NEW d \in Dirs, NEW e \in Dirs, Chain(e), Pump(d)
    PROVE  Chain(e)'
<1> USE DirTypes DEF Chain, netVars, pumpVars, sinkVars
<1>1. CASE Forward(d)
  <2>1. PICK k \in 1..Len(inbox[d]) : Forwarded(d, k)
    BY <1>1, ForwardStep
  <2>2. UNCHANGED <<sent, delivered, lost>>
    BY <1>1, ForwardStep
  <2>3. CASE d = e
    <3>1. /\ inbox'[e] = SubSeq(inbox[e], k + 1, Len(inbox[e]))
          /\ teed'[e] = teed[e] \o SubSeq(inbox[e], 1, k)
          /\ outbox'[e] = IF Sink(e) \notin lost THEN outbox[e] \o SubSeq(inbox[e], 1, k)
                          ELSE outbox[e]
      BY <2>1, <2>3 DEF Forwarded, TypeOK
    <3>2. (Sink(e) \notin lost) \in BOOLEAN /\ k \in 1..Len(inbox[e])
      BY <2>3
    <3>3. InOrder(sent[e], SubSeq(inbox[e], k + 1, Len(inbox[e])),
                  teed[e] \o SubSeq(inbox[e], 1, k),
                  IF Sink(e) \notin lost THEN outbox[e] \o SubSeq(inbox[e], 1, k)
                  ELSE outbox[e], delivered[e], Sink(e) \notin lost)
      BY <3>2, ForwardInOrder
    <3>. QED  BY <2>2, <3>1, <3>3
  <2>4. CASE d # e
    BY <2>1, <2>2, <2>4 DEF Forwarded, TypeOK
  <2>. QED  BY <2>3, <2>4
<1>2. CASE Drained(d)
  BY <1>2 DEF Drained
<1>3. CASE EndPump(d)
  BY <1>3 DEF EndPump
<1>. QED  BY <1>1, <1>2, <1>3 DEF Pump

LEMMA HandlerKeepsChains ==
    ASSUME TypeOK, NEW e \in Dirs, Chain(e), phase = "connecting" => outbox[e] = << >>,
           Handle \/ (\E p \in Peers : PeerReset(p))
    PROVE  Chain(e)'
<1> USE DirTypes DEF Chain, netVars, pumpVars, sinkVars
<1>1. CASE ConnectOk
  BY <1>1 DEF ConnectOk
<1>2. CASE Finish
  BY <1>2 DEF Finish
<1>3. CASE ConnectFail
  <2>1. CASE Sink(e) \in lost
    BY <1>3, <2>1 DEF ConnectFail
  <2>2. CASE Sink(e) \notin lost
    <3>1. InOrder(sent[e], inbox[e], teed[e], << >>, delivered[e], FALSE)
      BY DownInOrder
    <3>2. outbox'[e] = outbox[e] /\ outbox[e] = << >>
      BY <1>3 DEF ConnectFail
    <3>. QED  BY <1>3, <3>1, <3>2 DEF ConnectFail
  <2>. QED  BY <2>1, <2>2
<1>4. ASSUME NEW p \in Peers, PeerReset(p) PROVE Chain(e)'
  <2>1. UNCHANGED <<sent, inbox, teed, delivered>> /\ lost' = lost \cup {p}
    BY <1>4 DEF PeerReset
  <2>2. CASE Sink(e) = p
    <3>1. outbox'[e] = << >> /\ (Sink(e) \notin lost') = FALSE
      BY <1>4, <2>2 DEF PeerReset
    <3>2. InOrder(sent[e], inbox[e], teed[e], << >>, delivered[e], FALSE)
      BY DownInOrder
    <3>. QED  BY <2>1, <3>1, <3>2
  <2>3. CASE Sink(e) # p
    <3>1. outbox'[e] = outbox[e] /\ (Sink(e) \notin lost') = (Sink(e) \notin lost)
      BY <1>4, <2>3 DEF PeerReset
    <3>. QED  BY <2>1, <3>1
  <2>. QED  BY <2>2, <2>3
<1>. QED  BY <1>1, <1>2, <1>3, <1>4 DEF Handle

----------------------------------------------------------------------------
(* The actions keep the ends.                                               *)

LEMMA EnvironmentKeepsEnds ==
    ASSUME TypeOK, NEW d \in Dirs, NEW e \in Dirs, Ended(e),
           PeerWrite(d) \/ PeerClose(d) \/ Network(d)
    PROVE  Ended(e)'
<1> USE DEF Ended, TypeOK, netVars, pumpVars, sinkVars
<1>1. CASE PeerWrite(d)
  BY <1>1 DEF PeerWrite
<1>2. CASE PeerClose(d)
  BY <1>2 DEF PeerClose
<1>3. CASE Flush(d)
  BY <1>3 DEF Flush
<1>4. CASE FlushEof(d)
  BY <1>4 DEF FlushEof
<1>. QED  BY <1>1, <1>2, <1>3, <1>4 DEF Network

LEMMA PumpKeepsEnds ==
    ASSUME TypeOK, NEW d \in Dirs, NEW e \in Dirs, Ended(e), Pump(d)
    PROVE  Ended(e)'
<1> USE DEF Ended, TypeOK, netVars, pumpVars, sinkVars
<1>1. CASE Forward(d)
  <2>1. PICK k \in 1..Len(inbox[d]) : Forwarded(d, k)
    BY <1>1, ForwardStep
  <2>2. /\ phase = "relaying" /\ pc[d] = "read" /\ pc' = [pc EXCEPT ![d] = "drain"]
        /\ UNCHANGED <<phase, closed, eof, eofOut, lost>>
    BY <1>1, ForwardStep
  <2>. QED  BY <2>1, <2>2 DEF Forwarded
<1>2. CASE Drained(d)
  BY <1>2 DEF Drained, Pumping
<1>3. CASE EndPump(d)
  BY <1>3, DirFacts DEF EndPump, Pumping, PumpEnds, WriteEof
<1>. QED  BY <1>1, <1>2, <1>3 DEF Pump

LEMMA HandlerKeepsEnds ==
    ASSUME TypeOK, NEW e \in Dirs, Ended(e), Handle \/ (\E p \in Peers : PeerReset(p))
    PROVE  Ended(e)'
<1> USE DEF Ended, TypeOK, netVars, pumpVars, sinkVars
<1>1. CASE ConnectOk
  BY <1>1 DEF ConnectOk
<1>2. CASE ConnectFail
  BY <1>2 DEF ConnectFail
<1>3. CASE Finish
  BY <1>3 DEF Finish
<1>4. ASSUME NEW p \in Peers, PeerReset(p) PROVE Ended(e)'
  BY <1>4 DEF PeerReset
<1>. QED  BY <1>1, <1>2, <1>3, <1>4 DEF Handle

----------------------------------------------------------------------------
(* The refinement.                                                          *)

Pipe(d) == INSTANCE TransparentPipe WITH sent <- sent[d], closed <- closed[d],
              delivered <- delivered[d], eof <- eof[d], broken <- lost # {}

LEMMA InitPipe == ASSUME Init, NEW d \in Dirs PROVE Chain(d) /\ Ended(d) /\ Pipe(d)!Init
<1>1. Len(<< >>) = 0
  OBVIOUS
<1>. QED  BY <1>1 DEF Init, Chain, InOrder, Ended, Pipe!Init

\* A peer's and its network's steps are the pipe's own; in the other pipe
\* nothing happens.
LEMMA EnvironmentIsPiped ==
    ASSUME TypeOK, NEW d \in Dirs, NEW e \in Dirs, Chain(e), Ended(e),
           PeerWrite(d) \/ PeerClose(d) \/ Network(d)
    PROVE  Pipe(e)!Next \/ UNCHANGED Pipe(e)!vars
<1> USE DEF TypeOK, netVars, pumpVars, sinkVars, Pipe!Next, Pipe!vars
<1>1. CASE PeerWrite(d)
  BY <1>1 DEF PeerWrite, Pipe!Write
<1>2. CASE PeerClose(d)
  BY <1>2 DEF PeerClose, Pipe!Close
<1>3. CASE Flush(d)
  <2>1. CASE d = e
    <3>1. outbox[e] # << >>
      BY <1>3, <2>1 DEF Flush
    <3>2. (Sink(e) \notin lost) \in BOOLEAN
      OBVIOUS
    <3>3. Head(outbox[e]) = Len(delivered[e]) + 1 /\ Len(delivered[e]) < sent[e]
      BY <3>1, <3>2, DirTypes, DeliverInOrder DEF Chain
    <3>4. ~eof[e]
      BY <3>1 DEF Ended
    <3>. QED  BY <1>3, <2>1, <3>3, <3>4 DEF Flush, Pipe!Deliver
  <2>2. CASE d # e
    BY <1>3, <2>2 DEF Flush
  <2>. QED  BY <2>1, <2>2
<1>4. CASE FlushEof(d)
  <2>1. CASE d = e
    <3>1. outbox[e] = << >> /\ eofOut[e] /\ ~eof[e] /\ Sink(e) \notin lost
      BY <1>4, <2>1 DEF FlushEof
    <3>2. lost = {} => closed[e] /\ Len(delivered[e]) = sent[e]
      <4>1. Len(<< >>) = 0
        OBVIOUS
      <4>2. lost = {} => closed[e] /\ inbox[e] = << >>
        BY <3>1 DEF Ended
      <4>3. inbox[e] = << >> => Len(delivered[e]) = sent[e]
        BY <3>1, <4>1, DirTypes DEF Chain, InOrder
      <4>. QED  BY <4>2, <4>3
    <3>. QED  BY <1>4, <2>1, <3>1, <3>2 DEF FlushEof, Pipe!End
  <2>2. CASE d # e
    BY <1>4, <2>2 DEF FlushEof
  <2>. QED  BY <2>1, <2>2
<1>. QED  BY <1>1, <1>2, <1>3, <1>4 DEF Network

\* The pumps' own steps change nothing that the pipe shows.
LEMMA PumpIsPiped ==
    ASSUME TypeOK, NEW d \in Dirs, NEW e \in Dirs, Pump(d)
    PROVE  UNCHANGED Pipe(e)!vars
<1> USE DEF netVars, pumpVars, sinkVars, Pipe!vars
<1>1. CASE Forward(d)
  BY <1>1, ForwardStep
<1>2. CASE Drained(d)
  BY <1>2 DEF Drained
<1>3. CASE EndPump(d)
  BY <1>3 DEF EndPump
<1>. QED  BY <1>1, <1>2, <1>3 DEF Pump

\* A reset, or a camera that does not answer, breaks both pipes.
LEMMA HandlerIsPiped ==
    ASSUME NEW e \in Dirs, Handle \/ (\E p \in Peers : PeerReset(p))
    PROVE  Pipe(e)!Next \/ UNCHANGED Pipe(e)!vars
<1> USE DEF netVars, pumpVars, sinkVars, Pipe!Next, Pipe!vars
<1>1. CASE ConnectOk
  BY <1>1 DEF ConnectOk
<1>2. CASE ConnectFail
  BY <1>2 DEF ConnectFail, Pipe!Break
<1>3. CASE Finish
  BY <1>3 DEF Finish
<1>4. ASSUME NEW p \in Peers, PeerReset(p) PROVE Pipe(e)!Next
  BY <1>4 DEF PeerReset, Pipe!Break
<1>. QED  BY <1>1, <1>2, <1>3, <1>4 DEF Handle

PipeInv == TypeOK /\ \A d \in Dirs : Chain(d) /\ Ended(d)

LEMMA PipeStep ==
    ASSUME PipeInv, [Next]_vars
    PROVE  PipeInv' /\ \A d \in Dirs : Pipe(d)!Next \/ UNCHANGED Pipe(d)!vars
<1>1. CASE UNCHANGED vars
  BY <1>1 DEF vars, PipeInv, TypeOK, Chain, Ended, Pipe!vars
<1>2. ASSUME NEW d \in Dirs, PeerWrite(d) \/ PeerClose(d) \/ Network(d)
      PROVE  PipeInv' /\ \A e \in Dirs : Pipe(e)!Next \/ UNCHANGED Pipe(e)!vars
  BY <1>2, EnvironmentKeepsTypes, EnvironmentKeepsChains, EnvironmentKeepsEnds,
     EnvironmentIsPiped DEF PipeInv
<1>3. ASSUME NEW d \in Dirs, Pump(d)
      PROVE  PipeInv' /\ \A e \in Dirs : Pipe(e)!Next \/ UNCHANGED Pipe(e)!vars
  BY <1>3, PumpKeepsTypes, PumpKeepsChains, PumpKeepsEnds, PumpIsPiped DEF PipeInv
<1>4. CASE Handle \/ (\E p \in Peers : PeerReset(p))
  <2>1. TypeOK'
    BY <1>4, HandlerKeepsTypes DEF PipeInv
  <2>2. \A e \in Dirs : Chain(e)' /\ Ended(e)'
    BY <1>4, HandlerKeepsChains, HandlerKeepsEnds DEF PipeInv, Ended
  <2>. QED  BY <1>4, <2>1, <2>2, HandlerIsPiped DEF PipeInv
<1>. QED  BY <1>1, <1>2, <1>3, <1>4 DEF Next

LEMMA PipeInvariant == Spec => []PipeInv
<1>1. Init => PipeInv
  BY InitTypes, InitPipe DEF PipeInv
<1>2. PipeInv /\ [Next]_vars => PipeInv'
  BY PipeStep
<1>. QED  BY <1>1, <1>2, PTL DEF Spec

\* Each direction of a connection implements a faithful pipe (relay.py's "pump
\* bytes both ways without modification"): bytes arrive unchanged and in
\* order, and unless a peer is reset the end comes after the last of them.
\* The pipe's liveness, the other half of Transparent, is left to TLC.
THEOREM PumpsAreFaithful == Spec => C2S!Faithful /\ S2C!Faithful
<1>1. "c2s" \in Dirs /\ "s2c" \in Dirs
  BY DEF Dirs
<1>2. Init => C2S!Init /\ S2C!Init
  BY <1>1, InitPipe DEF Pipe!Init, C2S!Init, S2C!Init
<1>3. PipeInv /\ [Next]_vars => [C2S!Next]_(C2S!vars) /\ [S2C!Next]_(S2C!vars)
  <2> SUFFICES ASSUME PipeInv, [Next]_vars
               PROVE  [C2S!Next]_(C2S!vars) /\ [S2C!Next]_(S2C!vars)
    OBVIOUS
  <2>1. /\ Pipe("c2s")!Next \/ UNCHANGED Pipe("c2s")!vars
        /\ Pipe("s2c")!Next \/ UNCHANGED Pipe("s2c")!vars
    BY <1>1, PipeStep
  <2>. QED  BY <2>1 DEF Pipe!Next, Pipe!Write, Pipe!Close, Pipe!Deliver, Pipe!End,
            Pipe!Break, Pipe!vars, C2S!Next, C2S!Write, C2S!Close, C2S!Deliver,
            C2S!End, C2S!Break, C2S!vars, S2C!Next, S2C!Write, S2C!Close,
            S2C!Deliver, S2C!End, S2C!Break, S2C!vars
<1>. QED  BY <1>2, <1>3, PipeInvariant, PTL DEF Spec, C2S!Faithful, S2C!Faithful

----------------------------------------------------------------------------
(* What the decoder sees first.                                             *)

\* Of n bytes sent with these causes, the ones teed so far have these contexts;
\* m bytes of the other direction have been teed.
CausesFirst(n, cau, ctx, m) ==
    /\ Len(cau) = n
    /\ \A i \in 1..Len(cau) : cau[i] <= m
    /\ \A i \in 1..Len(ctx) : cau[i] <= ctx[i]

Caused(d) == /\ Len(context[d]) = Len(teed[d])
             /\ CausesFirst(sent[d], cause[d], context[d], Len(teed[Other(d)]))

LEMMA CauseOfWrite ==
    ASSUME NEW n \in Nat, NEW cau \in Seq(Nat), NEW ctx \in Seq(Nat), NEW m \in Nat,
           NEW c \in Nat, c <= m, Len(ctx) <= n, CausesFirst(n, cau, ctx, m)
    PROVE  CausesFirst(n + 1, Append(cau, c), ctx, m)
<1>1. /\ Len(Append(cau, c)) = Len(cau) + 1
      /\ \A i \in 1..Len(cau) : Append(cau, c)[i] = cau[i]
      /\ Append(cau, c)[Len(cau) + 1] = c
  BY AppendProperties
<1>2. Len(cau) = n /\ Len(ctx) \in Nat
  BY LenProperties DEF CausesFirst
<1>3. ASSUME NEW i \in 1..(n + 1) PROVE Append(cau, c)[i] <= m
  <2>1. CASE i \in 1..n
    BY <2>1, <1>1, <1>2 DEF CausesFirst
  <2>2. CASE i = n + 1
    <3>1. Append(cau, c)[i] = c
      BY <2>2, <1>1, <1>2
    <3>. QED  BY <3>1
  <2>3. i \in 1..n \/ i = n + 1
    OBVIOUS
  <2>. QED  BY <2>1, <2>2, <2>3
<1>4. ASSUME NEW i \in 1..Len(ctx) PROVE Append(cau, c)[i] <= ctx[i]
  <2>1. i \in 1..n
    BY <1>2
  <2>. QED  BY <2>1, <1>1, <1>2 DEF CausesFirst
<1>. QED  BY <1>1, <1>2, <1>3, <1>4 DEF CausesFirst

LEMMA CauseOfTee ==
    ASSUME NEW n \in Nat, NEW cau \in Seq(Nat), NEW ctx \in Seq(Nat), NEW m \in Nat,
           NEW k \in Nat, Len(ctx) + k <= n, CausesFirst(n, cau, ctx, m)
    PROVE  /\ Len(ctx \o [i \in 1..k |-> m]) = Len(ctx) + k
           /\ CausesFirst(n, cau, ctx \o [i \in 1..k |-> m], m)
<1> DEFINE new == [i \in 1..k |-> m]
           l == Len(ctx)
<1>1. new \in Seq(Nat) /\ Len(new) = k /\ \A j \in 1..k : new[j] = m
  BY SameForAll
<1> HIDE DEF new
<1>2. /\ Len(ctx \o new) = l + k
      /\ \A i \in 1..(l + k) : (ctx \o new)[i] = IF i <= l THEN ctx[i] ELSE new[i - l]
  BY <1>1, ConcatProperties
<1>3. l \in Nat /\ Len(cau) = n /\ \A i \in 1..n : cau[i] <= m
  BY LenProperties DEF CausesFirst
<1>4. \A i \in 1..l : cau[i] <= ctx[i]
  BY DEF CausesFirst
<1>5. l + k <= n
  OBVIOUS
<1> HIDE DEF l
<1>6. ASSUME NEW i \in 1..(l + k) PROVE cau[i] <= (ctx \o new)[i]
  <2>1. CASE i <= l
    <3>1. i \in 1..l
      BY <2>1, <1>3
    <3>. QED  BY <2>1, <3>1, <1>2, <1>4
  <2>2. CASE ~(i <= l)
    <3>1. i - l \in 1..k /\ i \in 1..n
      BY <2>2, <1>3, <1>5
    <3>. QED  BY <2>2, <3>1, <1>1, <1>2, <1>3
  <2>. QED  BY <2>1, <2>2
<1>7. CausesFirst(n, cau, ctx \o new, m)
  BY <1>2, <1>3, <1>6 DEF CausesFirst
<1>. QED  BY <1>2, <1>7 DEF new, l

\* More is teed of the other direction.
LEMMA CausesGrow ==
    ASSUME NEW n, NEW cau \in Seq(Nat), NEW ctx, NEW m \in Nat, NEW l \in Nat, m <= l,
           CausesFirst(n, cau, ctx, m)
    PROVE  CausesFirst(n, cau, ctx, l)
<1>1. \A i \in 1..Len(cau) : cau[i] \in Nat
  BY ElementOfSeq
<1>. QED  BY <1>1 DEF CausesFirst

\* How far along a chain the sink and the decoder are.
LEMMA ChainBounds ==
    ASSUME NEW n \in Nat, NEW in \in Seq(Nat), NEW tee \in Seq(Nat), NEW out \in Seq(Nat),
           NEW del \in Seq(Nat), NEW up, InOrder(n, in, tee, out, del, up)
    PROVE  /\ Len(del) <= Len(tee) /\ Len(tee) <= n
           /\ \A k \in 0..Len(in) : Len(tee) + k <= n
<1>1. /\ Len(in) \in Nat /\ Len(tee) \in Nat /\ Len(out) \in Nat /\ Len(del) \in Nat
  BY LenProperties
<1>2. Len(tee) + Len(in) = n /\ Len(del) + Len(out) <= Len(tee)
  BY DEF InOrder
<1>. QED  BY <1>1, <1>2

LEMMA DirBounds ==
    ASSUME PipeInv, NEW d \in Dirs
    PROVE  /\ Len(delivered[d]) <= Len(teed[d]) /\ Len(teed[d]) <= sent[d]
           /\ \A k \in 0..Len(inbox[d]) : Len(teed[d]) + k <= sent[d]
  BY DirTypes, ChainBounds DEF PipeInv, Chain

LEMMA EnvironmentKeepsCauses ==
    ASSUME PipeInv, NEW d \in Dirs, NEW e \in Dirs, Caused(e),
           PeerWrite(d) \/ PeerClose(d) \/ Network(d)
    PROVE  Caused(e)'
<1> USE DEF Caused, netVars, pumpVars, sinkVars
<1>1. CASE PeerWrite(d)
  <2>1. teed' = teed /\ context' = context
    BY <1>1 DEF PeerWrite
  <2>2. CASE d = e
    <3> DEFINE c == Len(delivered[Other(e)])
               m == Len(teed[Other(e)])
    <3>1. sent'[e] = sent[e] + 1 /\ cause'[e] = Append(cause[e], c)
      BY <1>1, <2>2 DEF PeerWrite, PipeInv, TypeOK
    <3>2. Other(e) \in Dirs
      BY DirFacts
    <3>3. c \in Nat /\ m \in Nat /\ c <= m
      BY <3>2, DirTypes, DirBounds DEF PipeInv
    <3>4. Len(context[e]) <= sent[e]
      BY DirBounds
    <3> HIDE DEF c, m
    <3>5. CausesFirst(sent[e] + 1, Append(cause[e], c), context[e], m)
      BY <3>3, <3>4, DirTypes, CauseOfWrite DEF m, PipeInv
    <3>. QED  BY <2>1, <3>1, <3>5 DEF m
  <2>3. CASE d # e
    BY <1>1, <2>1, <2>3 DEF PeerWrite, PipeInv, TypeOK
  <2>. QED  BY <2>2, <2>3
<1>2. CASE PeerClose(d)
  BY <1>2 DEF PeerClose
<1>3. CASE Flush(d)
  BY <1>3 DEF Flush
<1>4. CASE FlushEof(d)
  BY <1>4 DEF FlushEof
<1>. QED  BY <1>1, <1>2, <1>3, <1>4 DEF Network

LEMMA PumpKeepsCauses ==
    ASSUME PipeInv, NEW d \in Dirs, NEW e \in Dirs, Caused(e), Pump(d)
    PROVE  Caused(e)'
<1> USE DEF Caused, netVars, pumpVars, sinkVars
<1>1. CASE Forward(d)
  <2>1. PICK k \in 1..Len(inbox[d]) : Forwarded(d, k)
    BY <1>1, ForwardStep DEF PipeInv
  <2>2. sent' = sent /\ cause' = cause
    BY <1>1, ForwardStep DEF PipeInv
  <2> DEFINE got == SubSeq(inbox[d], 1, k)
             m == Len(teed[Other(d)])
  <2>3. /\ inbox[d] \in Seq(Nat) /\ k \in Nat /\ k <= Len(inbox[d])
        /\ got \in Seq(Nat) /\ Len(got) = k /\ m \in Nat
    BY DirFacts, DirTypes, LenProperties, Splitting DEF PipeInv
  <2>4. /\ teed' = [teed EXCEPT ![d] = @ \o got]
        /\ context' = [context EXCEPT ![d] = @ \o [i \in 1..k |-> m]]
    BY <2>1, <2>3 DEF Forwarded
  <2> HIDE DEF got, m
  <2>5. Len(teed[d] \o got) = Len(teed[d]) + k
    <3>1. teed[d] \in Seq(Nat) /\ got \in Seq(Nat) /\ Len(got) = k
      BY <2>3, DirTypes DEF PipeInv
    <3>2. Len(teed[d] \o got) = Len(teed[d]) + Len(got)
      BY <3>1, ConcatProperties
    <3>. QED  BY <3>1, <3>2
  <2>6. CASE d = e
    <3>1. Len(context[e]) + k <= sent[e]
      <4>1. k \in 0..Len(inbox[e])
        BY <2>3, <2>6
      <4>2. Len(context[e]) = Len(teed[e])
        OBVIOUS
      <4>. QED  BY <4>1, <4>2, DirBounds
    <3>2. /\ Len(context[e] \o [i \in 1..k |-> m]) = Len(context[e]) + k
          /\ CausesFirst(sent[e], cause[e], context[e] \o [i \in 1..k |-> m], m)
      <4>1. /\ cause[e] \in Seq(Nat) /\ context[e] \in Seq(Nat) /\ sent[e] \in Nat
            /\ CausesFirst(sent[e], cause[e], context[e], m)
        BY <2>6, DirTypes DEF PipeInv, m
      <4>2. k \in Nat /\ m \in Nat
        BY <2>3
      <4>. QED  BY <4>1, <4>2, <3>1, CauseOfTee, Zenon
    <3>3. /\ teed'[e] = teed[e] \o got /\ context'[e] = context[e] \o [i \in 1..k |-> m]
          /\ teed'[Other(e)] = teed[Other(e)]
      BY <2>4, <2>6, DirFacts DEF PipeInv, TypeOK
    <3>. QED  BY <2>2, <2>5, <2>6, <3>2, <3>3 DEF m
  <2>7. CASE d # e
    <3>1. Other(e) = d /\ context'[e] = context[e] /\ teed'[e] = teed[e]
      BY <2>4, <2>7 DEF Dirs, Other, PipeInv, TypeOK
    <3>2. teed'[d] = teed[d] \o got
      BY <2>4 DEF PipeInv, TypeOK
    <3>3. CausesFirst(sent[e], cause[e], context[e], Len(teed[d] \o got))
      BY <2>3, <2>5, <3>1, DirTypes, CausesGrow DEF PipeInv
    <3>. QED  BY <2>2, <3>1, <3>2, <3>3
  <2>. QED  BY <2>6, <2>7
<1>2. CASE Drained(d)
  BY <1>2 DEF Drained
<1>3. CASE EndPump(d)
  BY <1>3 DEF EndPump
<1>. QED  BY <1>1, <1>2, <1>3 DEF Pump

LEMMA HandlerKeepsCauses ==
    ASSUME NEW e \in Dirs, Caused(e), Handle \/ (\E p \in Peers : PeerReset(p))
    PROVE  Caused(e)'
  BY DEF Caused, Handle, ConnectOk, ConnectFail, Finish, PeerReset, netVars, pumpVars

\* The decoder sees a byte only after every byte of the other direction that
\* its sender had received: a response never before its request (relay.py:
\* _pump calls on_data before it writes, with no await between).
THEOREM TeedAfterCause == Spec => []CauseBeforeEffect
<1> DEFINE IInv == PipeInv /\ \A d \in Dirs : Caused(d)
<1>1. Init => IInv
  <2>1. Len(<< >>) = 0
    OBVIOUS
  <2>. QED  BY <2>1, InitTypes, InitPipe, DirFacts DEF PipeInv, Init, Caused, CausesFirst
<1>2. IInv /\ [Next]_vars => IInv'
  <2> SUFFICES ASSUME IInv, [Next]_vars PROVE IInv'
    OBVIOUS
  <2>1. PipeInv'
    BY PipeStep
  <2>2. CASE UNCHANGED vars
    BY <2>1, <2>2 DEF vars, Caused
  <2>3. CASE Next
    BY <2>1, <2>3, EnvironmentKeepsCauses, PumpKeepsCauses, HandlerKeepsCauses DEF Next
  <2>. QED  BY <2>2, <2>3
<1>3. IInv => CauseBeforeEffect
  BY DirTypes DEF PipeInv, Caused, CausesFirst, CauseBeforeEffect
<1>. QED  BY <1>1, <1>2, <1>3, PTL DEF Spec

----------------------------------------------------------------------------
(* The source ports.                                                        *)

\* A task picks only while it has tries left.
TriesLeft == \A t \in Tasks : stage[t] \in {"picked", "bound"} => tried[t] < Tries

PortsInv == PortsTypeOK /\ TriesLeft

\* The cursor stays in the range.
LEMMA AfterInPorts == ASSUME NEW p \in Ports PROVE After(p) \in Ports
  BY PortsAssumption DEF After, Ports

LEMMA PortsInitially == PortsInit => PortsInv
<1> SUFFICES ASSUME PortsInit PROVE PortsInv
  OBVIOUS
<1>1. Lo \in Ports
  BY PortsAssumption DEF Ports
<1>2. 0 \in 0..Tries
  BY PortsAssumption
<1>. QED  BY <1>1, <1>2 DEF PortsInit, PortsInv, PortsTypeOK, TriesLeft

\* The steps of an attempt.
LEMMA AttemptSteps ==
    ASSUME PortsInv, NEW t \in Tasks,
           Connect(t) \/ PickSrcPort(t) \/ Bind(t) \/ InUse(t) \/ GiveUp(t)
    PROVE  PortsInv'
<1> USE DEF PortsInv, PortsTypeOK, TriesLeft
<1>1. CASE Connect(t)
  BY <1>1 DEF Connect
<1>2. CASE PickSrcPort(t)
  <2>1. next' \in Ports /\ port' \in [Tasks -> Ports]
    BY <1>2, AfterInPorts DEF PickSrcPort
  <2>2. met' \in [Tasks -> SUBSET Ports]
    BY <1>2 DEF PickSrcPort
  <2>3. TriesLeft'
    BY <1>2 DEF PickSrcPort
  <2>. QED  BY <1>2, <2>1, <2>2, <2>3 DEF PickSrcPort
<1>3. CASE Bind(t)
  BY <1>3 DEF Bind
<1>4. CASE InUse(t)
  <2>1. tried[t] + 1 \in 0..Tries
    BY <1>4, PortsAssumption DEF InUse
  <2>2. tried' \in [Tasks -> 0..Tries]
    BY <1>4, <2>1 DEF InUse
  <2>3. met' \in [Tasks -> SUBSET Ports]
    BY <1>4 DEF InUse
  <2>4. TriesLeft'
    BY <1>4 DEF InUse
  <2>. QED  BY <1>4, <2>2, <2>3, <2>4 DEF InUse
<1>5. CASE GiveUp(t)
  BY <1>5 DEF GiveUp
<1>. QED  BY <1>1, <1>2, <1>3, <1>4, <1>5

\* The end of an attempt and of a connection.
LEMMA EndSteps ==
    ASSUME PortsInv, NEW t \in Tasks, Connected(t) \/ ConnectFails(t) \/ ConnectionEnds(t)
    PROVE  PortsInv'
<1> USE DEF PortsInv, PortsTypeOK, TriesLeft
<1>1. Lo \in Ports /\ 0 \in 0..Tries
  BY PortsAssumption DEF Ports
<1>2. CASE Connected(t)
  BY <1>2, <1>1 DEF Connected, Forget
<1>3. CASE ConnectFails(t)
  BY <1>3, <1>1 DEF ConnectFails, Forget
<1>4. CASE ConnectionEnds(t)
  <2>1. taken' \in SUBSET Ports
    BY <1>4 DEF ConnectionEnds
  <2>. QED  BY <1>4, <1>1, <2>1 DEF ConnectionEnds, Forget
<1>. QED  BY <1>2, <1>3, <1>4

LEMMA PortsPreserved == PortsInv /\ [PortsNext]_portVars => PortsInv'
<1> SUFFICES ASSUME PortsInv, [PortsNext]_portVars PROVE PortsInv'
  OBVIOUS
<1>1. CASE UNCHANGED portVars
  BY <1>1 DEF portVars, PortsInv, PortsTypeOK, TriesLeft
<1>2. ASSUME NEW t \in Tasks,
             Connect(t) \/ PickSrcPort(t) \/ Bind(t) \/ InUse(t) \/ GiveUp(t)
      PROVE  PortsInv'
  BY <1>2, AttemptSteps
<1>3. ASSUME NEW t \in Tasks, Connected(t) \/ ConnectFails(t) \/ ConnectionEnds(t) PROVE PortsInv'
  BY <1>3, EndSteps
<1>4. ASSUME NEW p \in Ports, OthersTake(p) \/ OthersFree(p) PROVE PortsInv'
  BY <1>4 DEF OthersTake, OthersFree, PortsInv, PortsTypeOK, TriesLeft
<1>. QED  BY <1>1, <1>2, <1>3, <1>4 DEF PortsNext, Step

\* The types: above all, every port that a task picks, binds or connects from
\* is one of the range that the redirector leaves alone (relay.py:85-89), so
\* that the relay is never redirected to itself.
THEOREM PortsTypeCorrect == PortsSpec => []PortsTypeOK
<1>1. PortsInv => PortsTypeOK
  BY DEF PortsInv
<1>. QED  BY PortsInitially, PortsPreserved, <1>1, PTL DEF PortsSpec

----------------------------------------------------------------------------
(* A refusal has its cause.                                                 *)

Size == Hi - Lo

\* The port that the cursor was on j picks before n, for j up to the size.
Back(n, j) == IF n - j >= Lo THEN n - j ELSE (n - j) + Size

\* The attempts a task has begun, and the ports that it has met or has in hand.
Begun(t)   == tried[t] + (IF stage[t] \in {"picked", "bound"} THEN 1 ELSE 0)
Reached(t) == met[t] \cup (IF stage[t] \in {"picked", "bound"} THEN {port[t]} ELSE {})

\* While a task tries, the last ports the cursor has left, as many as it has
\* begun attempts, have all been met: by itself, or by the task they went to.
\* A task begins with none.
Trail ==
    \A t \in Tasks :
        /\ stage[t] \in {"idle", "open"} => tried[t] = 0
        /\ stage[t] \in Attempting =>
              \A j \in 1..Begun(t) : j <= Size => Back(next, j) \in Reached(t)

TrailInv == PortsInv /\ Trail /\ RefusedHasCause

\* One pick moves the trail by one.
LEMMA BackAfter ==
    ASSUME NEW n \in Ports, NEW j \in 1..Size
    PROVE  /\ Back(n, j) \in Ports
           /\ Back(After(n), j) = IF j = 1 THEN n ELSE Back(n, j - 1)
  BY PortsAssumption DEF Back, After, Ports, Size

\* So many ports of the trail are as many ports.
LEMMA TrailCounts ==
    ASSUME NEW n \in Ports, NEW k \in Nat, NEW S \in SUBSET Ports,
           \A j \in 1..k : j <= Size => Back(n, j) \in S
    PROVE  Cardinality(S) >= k \/ S = Ports
<1>1. IsFiniteSet(S) /\ Cardinality(S) \in Nat
  <2>1. IsFiniteSet(Ports)
    BY PortsAssumption, FS_Interval DEF Ports
  <2>. QED  BY <2>1, FS_Subset, FS_CardinalityType
<1>2. CASE k <= Size
  <2> DEFINE f == [j \in 1..k |-> Back(n, j)]
  <2>1. f \in Injection(1..k, S)
    <3>1. \A i, j \in 1..k : Back(n, i) = Back(n, j) => i = j
      BY <1>2, PortsAssumption DEF Back, Ports, Size
    <3>2. f \in [1..k -> S]
      BY <1>2, PortsAssumption DEF Size
    <3>. QED  BY <3>1, <3>2 DEF Injection, IsInjective
  <2>2. Cardinality(1..k) <= Cardinality(S)
    BY <1>1, <2>1, FS_Injection
  <2>3. Cardinality(1..k) = k
    BY FS_Interval
  <2>. QED  BY <1>1, <2>2, <2>3
<1>3. CASE k > Size
  <2>1. ASSUME NEW p \in Ports PROVE p \in S
    <3>1. \E j \in 1..Size : Back(n, j) = p
      <4>1. CASE p < n
        <5>1. n - p \in 1..Size /\ Back(n, n - p) = p
          BY <4>1, PortsAssumption DEF Back, Ports, Size
        <5>. QED  BY <5>1
      <4>2. CASE p >= n
        <5>1. (n - p) + Size \in 1..Size /\ Back(n, (n - p) + Size) = p
          BY <4>2, PortsAssumption DEF Back, Ports, Size
        <5>. QED  BY <5>1
      <4>. QED  BY <4>1, <4>2, PortsAssumption DEF Ports
    <3>. QED  BY <1>3, <3>1, PortsAssumption DEF Size
  <2>. QED  BY <2>1
<1>. QED  BY <1>2, <1>3, PortsAssumption DEF Size

LEMMA AttemptKeepsTrail ==
    ASSUME TrailInv, NEW t \in Tasks,
           Connect(t) \/ PickSrcPort(t) \/ Bind(t) \/ InUse(t) \/ GiveUp(t)
    PROVE  Trail' /\ RefusedHasCause'
<1> USE DEF TrailInv, PortsInv, PortsTypeOK, TriesLeft, Attempting
<1>1. CASE Connect(t)
  BY <1>1 DEF Connect, Trail, RefusedHasCause, Begun, Reached
<1>2. CASE PickSrcPort(t)
  <2> USE <1>2 DEF PickSrcPort
  <2>1. ASSUME NEW u \in Tasks, stage'[u] \in Attempting, NEW j \in 1..Begun(u)', j <= Size
        PROVE  Back(next', j) \in Reached(u)'
    <3>1. /\ Begun(u) \in Nat
          /\ Begun(u)' = IF u = t THEN Begun(u) + 1 ELSE Begun(u)
      BY PortsAssumption DEF Begun
    <3>2. Reached(u)' = Reached(u) \cup {next}
      BY <2>1 DEF Reached
    <3>3. j \in 1..Size
      BY <2>1, <3>1
    <3>4. CASE j = 1
      BY <3>2, <3>3, <3>4, BackAfter
    <3>5. CASE j # 1
      <4>1. j - 1 \in 1..Begun(u) /\ j - 1 <= Size
        BY <2>1, <3>1, <3>5, PortsAssumption DEF Size
      <4>2. Back(next, j - 1) \in Reached(u)
        BY <2>1, <4>1 DEF Trail
      <4>. QED  BY <3>2, <3>3, <3>5, <4>2, BackAfter
    <3>. QED  BY <3>4, <3>5
  <2>2. Trail'
    BY <2>1 DEF Trail
  <2>3. RefusedHasCause'
    BY DEF RefusedHasCause
  <2>. QED  BY <2>2, <2>3
<1>3. CASE Bind(t)
  BY <1>3 DEF Bind, Trail, RefusedHasCause, Begun, Reached
<1>4. CASE InUse(t)
  <2> USE <1>4 DEF InUse
  <2>1. Begun(t)' = Begun(t) /\ Reached(t)' = Reached(t)
    BY DEF Begun, Reached
  <2>2. \A u \in Tasks \ {t} : Begun(u)' = Begun(u) /\ Reached(u)' = Reached(u)
    BY DEF Begun, Reached
  <2>3. Trail'
    BY <2>1, <2>2 DEF Trail
  <2>4. RefusedHasCause'
    BY DEF RefusedHasCause
  <2>. QED  BY <2>3, <2>4
<1>5. CASE GiveUp(t)
  <2> USE <1>5 DEF GiveUp
  <2>1. \A j \in 1..Tries : j <= Size => Back(next, j) \in met[t]
    BY PortsAssumption DEF Trail, Begun, Reached
  <2>2. Cardinality(met[t]) >= Tries \/ met[t] = Ports
    BY <2>1, TrailCounts, PortsAssumption
  <2>3. RefusedHasCause'
    BY <2>2 DEF RefusedHasCause
  <2>4. Trail'
    BY DEF Trail, Begun, Reached
  <2>. QED  BY <2>3, <2>4
<1>. QED  BY <1>1, <1>2, <1>3, <1>4, <1>5

LEMMA RestKeepsTrail ==
    ASSUME TrailInv,
           \/ \E t \in Tasks : Connected(t) \/ ConnectFails(t) \/ ConnectionEnds(t)
           \/ \E p \in Ports : OthersTake(p) \/ OthersFree(p)
           \/ UNCHANGED portVars
    PROVE  Trail' /\ RefusedHasCause'
<1> USE DEF TrailInv, PortsInv, PortsTypeOK, TriesLeft, Trail, RefusedHasCause, Begun, Reached,
            Attempting, Forget
<1>1. ASSUME NEW t \in Tasks, Connected(t) PROVE Trail' /\ RefusedHasCause'
  BY <1>1 DEF Connected
<1>2. ASSUME NEW t \in Tasks, ConnectFails(t) PROVE Trail' /\ RefusedHasCause'
  BY <1>2 DEF ConnectFails
<1>3. ASSUME NEW t \in Tasks, ConnectionEnds(t) PROVE Trail' /\ RefusedHasCause'
  BY <1>3 DEF ConnectionEnds, Forget
<1>4. ASSUME NEW p \in Ports, OthersTake(p) \/ OthersFree(p) PROVE Trail' /\ RefusedHasCause'
  BY <1>4 DEF OthersTake, OthersFree
<1>5. CASE UNCHANGED portVars
  BY <1>5 DEF portVars
<1>. QED  BY <1>1, <1>2, <1>3, <1>4, <1>5

\* A connection is refused for want of a port (relay.py:103) only if as many
\* ports as it has tries, or all of the range, were found taken or went to other
\* tasks meanwhile: sharing the cursor never makes a task try less of the range.
THEOREM RefusalsHaveCause == PortsSpec => []RefusedHasCause
<1>1. PortsInit => TrailInv
  <2> SUFFICES ASSUME PortsInit PROVE Trail /\ RefusedHasCause
    BY PortsInitially DEF TrailInv
  <2>. QED  BY DEF PortsInit, Trail, RefusedHasCause, Attempting
<1>2. TrailInv /\ [PortsNext]_portVars => TrailInv'
  <2> SUFFICES ASSUME TrailInv, [PortsNext]_portVars PROVE Trail' /\ RefusedHasCause'
    BY PortsPreserved DEF TrailInv
  <2>1. CASE PortsNext
    BY <2>1, AttemptKeepsTrail, RestKeepsTrail DEF PortsNext, Step
  <2>2. CASE UNCHANGED portVars
    BY <2>2, RestKeepsTrail
  <2>. QED  BY <2>1, <2>2
<1>3. TrailInv => RefusedHasCause
  BY DEF TrailInv
<1>. QED  BY <1>1, <1>2, <1>3, PTL DEF PortsSpec
============================================================================
