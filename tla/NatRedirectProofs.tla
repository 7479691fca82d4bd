------------------------- MODULE NatRedirectProofs -------------------------
(***************************************************************************)
(* Proofs, for any number of connections, ports and camera ports, of the   *)
(* safety properties of NatRedirect.                                       *)
(*                                                                         *)
(* The argument: the client's TCP lets one live connection own a port, and *)
(* the capture queue is FIFO.  Once the SYN of a live connection has been  *)
(* taken from the queue, every client packet of its port still in there is *)
(* its own or a reset for a connection that is gone (WireInv), so rule 1   *)
(* can only write its own destination or that one's to the port's entry,   *)
(* and a pop can only remove the entry.                                    *)
(***************************************************************************)
EXTENDS NatRedirect, TLAPS

Alive == {"dialling", "open", "eof", "shut", "direct"}

\* The client's TCP gives a port to one live connection.
Exclusive(cl) ==
    \A c, d \in Conns : cl[c] \in Alive /\ cl[d] \in Alive /\ port[c] = port[d] => c = d

\* A connection that was not dialled has no packets.
Dialled(w, cl) == \A i \in 1..Len(w) : cl[w[i].conn] # "new"

\* Camera port d is what connection c dialled, or was once rejected.
Meant(c, d, rj) == d = dst[c] \/ <<port[c], d>> \in rj

\* Behind a packet of a live client, its port's client packets are its own or
\* rejections.
Ordered(w, cl, rj) ==
    \A c \in Conns, i, j \in 1..Len(w) :
        /\ cl[c] \in Alive
        /\ i < j
        /\ FromClient(w[i]) /\ w[i].conn = c
        /\ FromClient(w[j]) /\ port[w[j].conn] = port[c]
        => Meant(c, w[j].to, rj)

\* Past the SYN, all of them are.
OwnAfterSyn(w, cl, sk, rj) ==
    \A c \in Conns, i \in 1..Len(w) :
        /\ cl[c] \in Alive
        /\ sk[c] # "none"
        /\ FromClient(w[i]) /\ port[w[i].conn] = port[c]
        => Meant(c, w[i].to, rj)

WireInv(w, cl, sk, rj) ==
    Dialled(w, cl) /\ Ordered(w, cl, rj) /\ OwnAfterSyn(w, cl, sk, rj)

\* Somebody dialled camera port d from port p.
DialledTo(p, d, cl) == \E c \in Conns : port[c] = p /\ dst[c] = d /\ cl[c] # "new"

\* What packets and entries name was dialled; what was rejected is gone.
Known ==
    /\ \A i \in 1..Len(wire) :
          FromClient(wire[i]) => DialledTo(port[wire[i].conn], wire[i].to, client)
    /\ \A p \in Ports : nat[p] # None => DialledTo(p, nat[p], client)
    /\ \A p \in Ports, d \in Dsts : <<p, d>> \in rejected => CameBack(p, d)

\* The relay sends nothing for a connection whose SYN it has not seen, so
\* nothing of such a connection is rejected at another address.
RelayAfterSyn(w, sk) ==
    \A i \in 1..Len(w) :
        ~FromClient(w[i]) \/ w[i].to # dst[w[i].conn] => sk[w[i].conn] # "none"

\* How far a connection has come on each side.
Progress ==
    \A c \in Conns :
        /\ client[c] = "new" => sock[c] = "none"
        /\ sock[c] = "none" => handler[c] = "none" /\ target[c] = None
        /\ sock[c] = "synrcvd" => handler[c] = "none"

\* An entry exists from the first SYN of a port to the first pop.
EntryUnlessPopped ==
    \A c \in Conns : sock[c] # "none" => nat[port[c]] # None \/ Popped(port[c])

IInv ==
    /\ TypeOK
    /\ Exclusive(client)
    /\ WireInv(wire, client, sock, rejected)
    /\ Known
    /\ RelayAfterSyn(wire, sock)
    /\ Progress
    /\ EntryHasCause
    /\ MisrouteHasCause
    /\ EntryUnlessPopped
    /\ StrayHasCause
    /\ DropHasCause

----------------------------------------------------------------------------
(* Type correctness.                                                        *)

\* Arrivals keep the types of the relay host's sockets and of the queue.
LEMMA ArriveAtRelayType ==
    ASSUME TypeOK, NEW c \in Conns, NEW k \in Kinds,
           NEW rest \in Seq(Packets), ArriveAtRelay(c, k, rest)
    PROVE  /\ wire' \in Seq(Packets)
           /\ sock' \in [Conns -> SockStates]
           /\ handler' \in [Conns -> HandlerStates]
<1>1. RelayPkt(c, "syn") \in Packets /\ RelayPkt(c, "rst") \in Packets
  BY DEF RelayPkt, Packets, Kinds
<1>2. wire' \in Seq(Packets)
  BY <1>1 DEF ArriveAtRelay
<1>3. sock' \in [Conns -> SockStates]
  BY DEF ArriveAtRelay, TypeOK, SockStates
<1>4. handler' \in [Conns -> HandlerStates]
  BY DEF ArriveAtRelay, TypeOK, HandlerStates
<1>. QED  BY <1>2, <1>3, <1>4

LEMMA ArriveAtClientType ==
    ASSUME TypeOK, NEW c \in Conns, NEW k \in Kinds,
           NEW rest \in Seq(Packets), ArriveAtClient(c, k, rest)
    PROVE  wire' \in Seq(Packets) /\ client' \in [Conns -> ClientStates]
<1>1. ClientPkt(c, "ack") \in Packets
  BY DEF ClientPkt, Packets, Kinds, TypeOK
<1>2. wire' \in Seq(Packets)
  BY <1>1 DEF ArriveAtClient
<1>3. client' \in [Conns -> ClientStates]
  BY DEF ArriveAtClient, TypeOK, ClientStates
<1>. QED  BY <1>2, <1>3

LEMMA ArriveAstrayType ==
    ASSUME TypeOK, NEW c \in Conns, NEW k \in Kinds, NEW entry \in Dsts,
           NEW rest \in Seq(Packets), ArriveAstray(c, k, entry, rest)
    PROVE  wire' \in Seq(Packets) /\ rejected' \subseteq Ports \X Dsts
<1>1. /\ \A d \in Conns : ClientPkt(d, "ack") \in Packets
      /\ Rejection(c, entry) \in Packets
  BY DEF ClientPkt, Rejection, Packets, Kinds, TypeOK
<1>2. \/ wire' = rest
      \/ \E d \in Conns : wire' = Append(rest, ClientPkt(d, "ack"))
      \/ wire' = Append(rest, Rejection(c, entry))
  BY DEF ArriveAstray
<1>3. wire' \in Seq(Packets)
  BY <1>1, <1>2
<1>4. rejected' \in {rejected, rejected \cup {<<port[c], entry>>}}
  BY DEF ArriveAstray
<1>. QED  BY <1>3, <1>4 DEF TypeOK

\* The head of the queue is a packet.
LEMMA HeadType ==
    ASSUME TypeOK, wire # << >>
    PROVE  /\ Head(wire) \in Packets
           /\ Head(wire).conn \in Conns
           /\ Head(wire).kind \in Kinds
           /\ FromClient(Head(wire)) => Head(wire).to \in Dsts
           /\ Tail(wire) \in Seq(Packets)
<1>1. Head(wire) \in Packets /\ Tail(wire) \in Seq(Packets)
  BY DEF TypeOK
<1>. QED  BY <1>1 DEF Packets, FromClient

\* Every step keeps every variable in its type.
LEMMA NextType == TypeOK /\ [Next]_vars => TypeOK'
<1>. SUFFICES ASSUME TypeOK, [Next]_vars PROVE TypeOK'
  OBVIOUS
<1>. USE NatAssumption
<1>0. \A c \in Conns, k \in Kinds :
        ClientPkt(c, k) \in Packets /\ RelayPkt(c, k) \in Packets
  BY DEF ClientPkt, RelayPkt, Packets, TypeOK
<1>1. CASE RedirectToRelay
  <2>. DEFINE c == Head(wire).conn
  <2>1. c \in Conns /\ Head(wire).kind \in Kinds
        /\ Tail(wire) \in Seq(Packets)
    BY <1>1, HeadType DEF RedirectToRelay
  <2>2. /\ ArriveAtRelay(c, Head(wire).kind, Tail(wire))
        /\ nat' = NatSet(nat, port[c], Head(wire).to) /\ Head(wire).to \in Dsts
    BY <1>1, HeadType DEF RedirectToRelay
  <2>3. nat' \in [Ports -> Dsts \cup {None}]
    BY <2>1, <2>2 DEF NatSet, TypeOK
  <2>4. /\ wire' \in Seq(Packets)
        /\ sock' \in [Conns -> SockStates]
        /\ handler' \in [Conns -> HandlerStates]
    BY <2>1, <2>2, ArriveAtRelayType
  <2>. QED  BY <1>1, <2>3, <2>4 DEF RedirectToRelay, TypeOK
<1>2. CASE RestoreReply
  <2>. DEFINE c == Head(wire).conn
  <2>1. c \in Conns /\ Head(wire).kind \in Kinds
        /\ Tail(wire) \in Seq(Packets)
    BY <1>2, HeadType DEF RestoreReply
  <2>2. /\ wire' \in Seq(Packets) /\ client' \in [Conns -> ClientStates]
        /\ rejected' \subseteq Ports \X Dsts
    <3>1. CASE ArriveAtClient(c, Head(wire).kind, Tail(wire)) /\ UNCHANGED rejected
      BY <2>1, <3>1, ArriveAtClientType DEF TypeOK
    <3>2. CASE /\ ArriveAstray(c, Head(wire).kind, NatGet(nat, port[c]), Tail(wire))
               /\ UNCHANGED client /\ NatGet(nat, port[c]) # None
      <4>1. NatGet(nat, port[c]) \in Dsts
        BY <2>1, <3>2 DEF NatGet, TypeOK
      <4>. QED  BY <2>1, <3>2, <4>1, ArriveAstrayType DEF TypeOK
    <3>. QED  BY <1>2, <3>1, <3>2 DEF RestoreReply
  <2>. QED  BY <1>2, <2>2 DEF RestoreReply, hostVars, relayVars, TypeOK
<1>3. CASE PassUnrestored
  BY <1>3, HeadType DEF PassUnrestored, TypeOK, SockStates
<1>4. ASSUME NEW c \in Conns, Client(c) PROVE TypeOK'
  <2>1. client' \in [Conns -> ClientStates]
    BY <1>4 DEF Client, ClientDial, ClientRedial, ClientSend, ClientClose, ClientAbort,
                TypeOK, ClientStates
  <2>2. wire' \in Seq(Packets)
    <3>1. /\ ClientPkt(c, "syn") \in Packets /\ ClientPkt(c, "seg") \in Packets
          /\ ClientPkt(c, "fin") \in Packets /\ ClientPkt(c, "rst") \in Packets
      BY <1>0 DEF Kinds
    <3>2. wire \in Seq(Packets)
      BY DEF TypeOK
    <3>. QED
      BY <3>1, <3>2, <1>4 DEF Client, ClientDial, ClientRedial, ClientSend, ClientClose,
                ClientAbort
  <2>. QED
    BY <1>4, <2>1, <2>2 DEF Client, ClientDial, ClientRedial, ClientSend, ClientClose,
                ClientAbort, hostVars, relayVars, TypeOK
<1>5. ASSUME NEW c \in Conns, Handle(c) PROVE TypeOK'
  <2>. USE DEF TypeOK
  <2>1. SendFin(c) => wire' \in Seq(Packets)
    BY <1>0 DEF SendFin, Kinds
  <2>2. CloseSock(c) => sock' \in [Conns -> SockStates]
    BY DEF CloseSock, SockStates
  <2>3. NatPop(nat, port[c]) \in [Ports -> Dsts \cup {None}]
    BY DEF NatPop
  <2>4. TargetFor(c) \in Dsts \cup {None}
    BY DEF TargetFor, NatGet
  <2>5. CASE HandlerLookup(c)  BY <2>4, <2>5 DEF HandlerLookup, HandlerStates
  <2>6. CASE HandlerDrop(c)    BY <2>1, <2>2, <2>6 DEF HandlerDrop, HandlerStates
  <2>7. CASE ConnectOk(c)      BY <2>7 DEF ConnectOk, HandlerStates
  <2>8. CASE ConnectFail(c)    BY <2>1, <2>2, <2>3, <2>8 DEF ConnectFail, HandlerStates
  <2>9. CASE PumpReply(c)
    <3>1. RelayPkt(c, "seg") \in Packets
      BY <1>0 DEF Kinds
    <3>2. wire' \in Seq(Packets)
      BY <2>9, <3>1 DEF PumpReply
    <3>3. ended' \in [Conns -> SUBSET Pumps]
      BY <2>9 DEF PumpReply, Pumps
    <3>. QED  BY <2>9, <3>2, <3>3 DEF PumpReply
  <2>10. CASE PumpReplyEnd(c)  BY <2>1, <2>10 DEF PumpReplyEnd, Pumps
  <2>11. CASE PumpRequestEnd(c)  BY <2>11 DEF PumpRequestEnd, Pumps
  <2>12. CASE HandlerFinish(c) BY <2>2, <2>3, <2>12 DEF HandlerFinish, HandlerStates
  <2>. QED  BY <1>5, <2>5, <2>6, <2>7, <2>8, <2>9, <2>10, <2>11, <2>12 DEF Handle
<1>6. CASE UNCHANGED vars  BY <1>6 DEF vars, TypeOK
<1>. QED  BY <1>1, <1>2, <1>3, <1>4, <1>5, <1>6 DEF Next, Redirect

LEMMA InitType == Init => TypeOK
  BY NatAssumption DEF Init, TypeOK, ClientStates, SockStates, HandlerStates

\* Type correctness of the interception path.
THEOREM TypeCorrect == Spec => []TypeOK
  BY InitType, NextType, PTL DEF Spec

----------------------------------------------------------------------------
(* The queue invariant, as facts about sequences.                           *)

\* Taking the head off keeps it.
LEMMA WireTail ==
    ASSUME NEW w \in Seq(Packets), w # << >>, NEW cl, NEW sk, NEW rj, WireInv(w, cl, sk, rj)
    PROVE  WireInv(Tail(w), cl, sk, rj)
<1>1. /\ Len(Tail(w)) = Len(w) - 1
      /\ \A i \in 1..Len(Tail(w)) : Tail(w)[i] = w[i + 1] /\ i + 1 \in 1..Len(w)
  OBVIOUS
<1>2. Dialled(Tail(w), cl)
  BY <1>1 DEF WireInv, Dialled
<1>3. Ordered(Tail(w), cl, rj)
  <2>. SUFFICES ASSUME NEW c \in Conns, NEW i \in 1..Len(Tail(w)), NEW j \in 1..Len(Tail(w)),
                       cl[c] \in Alive, i < j,
                       FromClient(Tail(w)[i]), Tail(w)[i].conn = c,
                       FromClient(Tail(w)[j]), port[Tail(w)[j].conn] = port[c]
                PROVE  Meant(c, Tail(w)[j].to, rj)
    BY DEF Ordered
  <2>. QED  BY <1>1 DEF WireInv, Ordered
<1>4. OwnAfterSyn(Tail(w), cl, sk, rj)
  BY <1>1 DEF WireInv, OwnAfterSyn
<1>. QED  BY <1>2, <1>3, <1>4 DEF WireInv

\* Taking the head off when it is a client packet also keeps it if the head's
\* connection now counts as past its SYN.
LEMMA WireTailSyn ==
    ASSUME NEW w \in Seq(Packets), w # << >>, NEW cl, NEW sk, NEW sk2, NEW rj,
           WireInv(w, cl, sk, rj), FromClient(Head(w)),
           \A d \in Conns : sk2[d] # "none" => sk[d] # "none" \/ d = Head(w).conn
    PROVE  WireInv(Tail(w), cl, sk2, rj)
<1>1. /\ Len(Tail(w)) = Len(w) - 1 /\ 1 \in 1..Len(w) /\ Head(w) = w[1]
      /\ \A i \in 1..Len(Tail(w)) :
            Tail(w)[i] = w[i + 1] /\ i + 1 \in 1..Len(w) /\ 1 < i + 1
  OBVIOUS
<1>2. Dialled(Tail(w), cl) /\ Ordered(Tail(w), cl, rj)
  BY WireTail DEF WireInv
<1>3. OwnAfterSyn(Tail(w), cl, sk2, rj)
  <2>. SUFFICES ASSUME NEW c \in Conns, NEW i \in 1..Len(Tail(w)),
                       cl[c] \in Alive, sk2[c] # "none",
                       FromClient(Tail(w)[i]), port[Tail(w)[i].conn] = port[c]
                PROVE  Meant(c, Tail(w)[i].to, rj)
    BY DEF OwnAfterSyn
  <2>1. CASE sk[c] # "none"
    BY <1>1, <2>1 DEF WireInv, OwnAfterSyn
  <2>2. CASE c = Head(w).conn
    BY <1>1, <2>2 DEF WireInv, Ordered
  <2>. QED  BY <2>1, <2>2
<1>. QED  BY <1>2, <1>3 DEF WireInv

\* A packet of a live connection, or any of the relay's, may be appended.
LEMMA WireAppend ==
    ASSUME NEW w \in Seq(Packets), NEW cl, NEW sk, NEW rj, NEW pkt \in Packets,
           WireInv(w, cl, sk, rj), Exclusive(cl), cl[pkt.conn] # "new",
           FromClient(pkt) =>
               \A d \in Conns : cl[d] \in Alive /\ port[pkt.conn] = port[d] => Meant(d, pkt.to, rj)
    PROVE  WireInv(Append(w, pkt), cl, sk, rj)
<1>. DEFINE v == Append(w, pkt)
<1>1. /\ Len(v) = Len(w) + 1
      /\ v[Len(w) + 1] = pkt
      /\ \A i \in 1..Len(v) : i = Len(w) + 1 \/ (i \in 1..Len(w) /\ v[i] = w[i])
      /\ Len(w) \in Nat
  OBVIOUS
<1>2. Dialled(v, cl)
  BY <1>1 DEF WireInv, Dialled
<1>3. Ordered(v, cl, rj)
  <2>. SUFFICES ASSUME NEW c \in Conns, NEW i \in 1..Len(v), NEW j \in 1..Len(v),
                       cl[c] \in Alive, i < j,
                       FromClient(v[i]), v[i].conn = c,
                       FromClient(v[j]), port[v[j].conn] = port[c]
                PROVE  Meant(c, v[j].to, rj)
    BY DEF Ordered
  <2>1. CASE j = Len(w) + 1
    BY <1>1, <2>1
  <2>2. CASE j \in 1..Len(w)
    <3>1. i \in 1..Len(w)
      BY <2>2, <1>1
    <3>. QED  BY <1>1, <2>2, <3>1 DEF WireInv, Ordered
  <2>. QED  BY <1>1, <2>1, <2>2
<1>4. OwnAfterSyn(v, cl, sk, rj)
  <2>. SUFFICES ASSUME NEW c \in Conns, NEW i \in 1..Len(v),
                       cl[c] \in Alive, sk[c] # "none",
                       FromClient(v[i]), port[v[i].conn] = port[c]
                PROVE  Meant(c, v[i].to, rj)
    BY DEF OwnAfterSyn
  <2>1. CASE i = Len(w) + 1
    BY <1>1, <2>1
  <2>2. CASE i \in 1..Len(w) /\ v[i] = w[i]
    BY <2>2 DEF WireInv, OwnAfterSyn
  <2>. QED  BY <1>1, <2>1, <2>2
<1>. QED  BY <1>2, <1>3, <1>4 DEF WireInv

\* It survives changes that make no connection live or past its SYN.
LEMMA WireMono ==
    ASSUME NEW w \in Seq(Packets), NEW cl, NEW sk, NEW rj, NEW cl2, NEW sk2, NEW rj2, WireInv(w, cl, sk, rj),
           \A d \in Conns : cl2[d] \in Alive => cl[d] \in Alive,
           \A d \in Conns : cl2[d] = "new" => cl[d] = "new",
           \A d \in Conns : sk2[d] # "none" => sk[d] # "none",
           rj \subseteq rj2
    PROVE  WireInv(w, cl2, sk2, rj2)
<1>1. \A i \in 1..Len(w) : w[i].conn \in Conns
  <2>. SUFFICES ASSUME NEW i \in 1..Len(w) PROVE w[i].conn \in Conns
    OBVIOUS
  <2>1. w[i] \in Packets
    OBVIOUS
  <2>. QED  BY <2>1 DEF Packets
<1>2. Dialled(w, cl2)
  BY <1>1 DEF WireInv, Dialled
<1>3. Ordered(w, cl2, rj2)
  BY DEF WireInv, Ordered, Meant
<1>4. OwnAfterSyn(w, cl2, sk2, rj2)
  BY DEF WireInv, OwnAfterSyn, Meant
<1>. QED  BY <1>2, <1>3, <1>4 DEF WireInv

----------------------------------------------------------------------------
(* Every step keeps the inductive invariant.                                *)

\* How a step changes the queue: it may take the head and append one packet,
\* which a client packet is of a dialled connection or bears an entry.
Appended(q, cl) ==
    \/ wire' = q
    \/ \E c \in Conns, k \in Kinds : wire' = Append(q, RelayPkt(c, k))
    \/ \E c \in Conns, k \in Kinds :
          cl[c] # "new" /\ wire' = Append(q, ClientPkt(c, k))
    \/ \E c \in Conns :
          nat[port[c]] # None /\ wire' = Append(q, Rejection(c, nat[port[c]]))

LEMMA QueueStep ==
    ASSUME TypeOK, Dialled(wire, client), Next
    PROVE  Appended(wire, client') \/ (wire # << >> /\ Appended(Tail(wire), client'))
<1>0. wire # << >> => Head(wire).conn \in Conns /\ client[Head(wire).conn] # "new"
  <2>. SUFFICES ASSUME wire # << >> PROVE Head(wire).conn \in Conns /\ client[Head(wire).conn] # "new"
    OBVIOUS
  <2>1. Head(wire) = wire[1] /\ 1 \in 1..Len(wire)
    BY DEF TypeOK
  <2>. QED  BY <2>1, HeadType DEF Dialled
<1>1. CASE RedirectToRelay
  BY <1>0, <1>1 DEF RedirectToRelay, ArriveAtRelay, Appended, Kinds
<1>2. CASE RestoreReply
  <2>. DEFINE c == Head(wire).conn
              k == Head(wire).kind
  <2>1. CASE Live(c) /\ ArriveAtClient(c, k, Tail(wire))
    <3>1. client'[c] # "new"
      BY <1>0, <1>2, <2>1 DEF RestoreReply, ArriveAtClient, Live, TypeOK
    <3>. QED  BY <1>0, <1>2, <2>1, <3>1 DEF RestoreReply, ArriveAtClient, Appended, Kinds
  <2>2. CASE ArriveAstray(c, k, nat[port[c]], Tail(wire)) /\ UNCHANGED client
    <3>1. \A d \in Conns : Live(d) => client'[d] # "new"
      BY <2>2 DEF Live
    <3>. QED
      BY <1>0, <1>2, <2>2, <3>1 DEF RestoreReply, NatGet, ArriveAstray, Appended, Kinds
  <2>. QED  BY <1>2, <2>1, <2>2 DEF RestoreReply, NatGet
<1>3. CASE PassUnrestored
  BY <1>3 DEF PassUnrestored, Appended
<1>4. ASSUME NEW c \in Conns, Client(c) PROVE Appended(wire, client')
  <2>1. client'[c] # "new"
    BY <1>4 DEF Client, ClientDial, ClientRedial, ClientSend, ClientClose, ClientAbort, TypeOK
  <2>. QED
    BY <1>4, <2>1 DEF Client, ClientDial, ClientRedial, ClientSend, ClientClose,
                      ClientAbort, Appended, Kinds
<1>5. ASSUME NEW c \in Conns, Handle(c) PROVE Appended(wire, client')
  BY <1>5 DEF Handle, HandlerLookup, HandlerDrop, ConnectOk, ConnectFail, PumpReply,
              PumpReplyEnd, PumpRequestEnd, HandlerFinish, SendFin, Appended, Kinds
<1>. QED  BY <1>1, <1>2, <1>3, <1>4, <1>5 DEF Next, Redirect

LEMMA KnownStep ==
    ASSUME TypeOK, Dialled(wire, client), Known, Next
    PROVE  Known'
<1>1. port' = port /\ dst' = dst
  BY DEF Next, Redirect, RedirectToRelay, RestoreReply, PassUnrestored, Client, ClientDial,
         ClientRedial, ClientSend, ClientClose, ClientAbort, Handle, HandlerLookup, HandlerDrop,
         ConnectOk, ConnectFail, PumpReply, PumpReplyEnd, PumpRequestEnd, HandlerFinish
<1>2. \A d \in Conns : /\ client[d] # "new" => client'[d] # "new"
                       /\ client[d] = "gone" => client'[d] = "gone"
  <2>1. CASE Redirect
    BY <2>1, HeadType DEF Redirect, RedirectToRelay, RestoreReply, PassUnrestored, ArriveAtClient, TypeOK
  <2>2. ASSUME NEW c \in Conns, Client(c)
        PROVE  \A d \in Conns : /\ client[d] # "new" => client'[d] # "new"
                                /\ client[d] = "gone" => client'[d] = "gone"
    BY <2>2 DEF Client, ClientDial, ClientRedial, ClientSend, ClientClose, ClientAbort, TypeOK
  <2>3. ASSUME NEW c \in Conns, Handle(c) PROVE client' = client
    BY <2>3 DEF Handle, HandlerLookup, HandlerDrop, ConnectOk, ConnectFail, PumpReply,
                PumpReplyEnd, PumpRequestEnd, HandlerFinish
  <2>. QED  BY <2>1, <2>2, <2>3 DEF Next
<1>3. \A p, d : DialledTo(p, d, client) => DialledTo(p, d, client')
  BY <1>1, <1>2 DEF DialledTo
<1>4. \A q \in Seq(Packets) :
        /\ \A i \in 1..Len(q) : FromClient(q[i]) => DialledTo(port[q[i].conn], q[i].to, client)
        /\ Appended(q, client')
        => \A i \in 1..Len(wire') :
              FromClient(wire'[i]) => DialledTo(port[wire'[i].conn], wire'[i].to, client')
  <2>. SUFFICES ASSUME NEW q \in Seq(Packets), Appended(q, client'),
                       \A i \in 1..Len(q) :
                          FromClient(q[i]) => DialledTo(port[q[i].conn], q[i].to, client),
                       NEW i \in 1..Len(wire'), FromClient(wire'[i])
                PROVE  DialledTo(port[wire'[i].conn], wire'[i].to, client')
    OBVIOUS
  <2>0. ASSUME i \in 1..Len(q), wire'[i] = q[i]
        PROVE  DialledTo(port[wire'[i].conn], wire'[i].to, client')
    <3>1. DialledTo(port[q[i].conn], q[i].to, client')
      BY <1>3, <2>0
    <3>. QED  BY <1>1, <2>0, <3>1 DEF DialledTo
  <2>1. \A x : wire' = Append(q, x) => (i \in 1..Len(q) /\ wire'[i] = q[i]) \/ wire'[i] = x
    OBVIOUS
  <2>2. CASE wire' = q
    BY <2>0, <2>2
  <2>3. CASE \E c \in Conns, k \in Kinds : wire' = Append(q, RelayPkt(c, k))
    <3>1. \A c, k : ~FromClient(RelayPkt(c, k))
      BY DEF FromClient, RelayPkt
    <3>. QED  BY <2>0, <2>1, <2>3, <3>1
  <2>4. CASE \E c \in Conns, k \in Kinds :
               client'[c] # "new" /\ wire' = Append(q, ClientPkt(c, k))
    <3>1. PICK c \in Conns, k \in Kinds :
               client'[c] # "new" /\ wire' = Append(q, ClientPkt(c, k))
      BY <2>4
    <3>2. CASE wire'[i] = ClientPkt(c, k)
      <4>1. wire'[i].conn = c /\ wire'[i].to = dst[c]
        BY <3>2 DEF ClientPkt
      <4>. QED  BY <1>1, <3>1, <4>1 DEF DialledTo
    <3>. QED  BY <2>0, <2>1, <3>1, <3>2
  <2>5. CASE \E c \in Conns :
               nat[port[c]] # None /\ wire' = Append(q, Rejection(c, nat[port[c]]))
    <3>1. PICK c \in Conns :
               nat[port[c]] # None /\ wire' = Append(q, Rejection(c, nat[port[c]]))
      BY <2>5
    <3>2. CASE wire'[i] = Rejection(c, nat[port[c]])
      <4>1. wire'[i].conn = c /\ wire'[i].to = nat[port[c]]
        BY <3>2 DEF Rejection
      <4>2. DialledTo(port[c], nat[port[c]], client')
        BY <1>3, <3>1 DEF Known, TypeOK
      <4>. QED  BY <1>1, <4>1, <4>2 DEF DialledTo
    <3>. QED  BY <2>0, <2>1, <3>1, <3>2
  <2>. QED  BY <2>2, <2>3, <2>4, <2>5 DEF Appended
<1>5. \A i \in 1..Len(wire') :
        FromClient(wire'[i]) => DialledTo(port[wire'[i].conn], wire'[i].to, client')
  <2>1. CASE Appended(wire, client')
    BY <1>4, <2>1 DEF Known, TypeOK
  <2>2. CASE wire # << >> /\ Appended(Tail(wire), client')
    <3>1. /\ Tail(wire) \in Seq(Packets)
          /\ \A i \in 1..Len(Tail(wire)) : Tail(wire)[i] = wire[i + 1] /\ i + 1 \in 1..Len(wire)
      BY <2>2 DEF TypeOK
    <3>. QED  BY <1>4, <2>2, <3>1 DEF Known
  <2>. QED  BY <2>1, <2>2, QueueStep
<1>6. \A p \in Ports : nat'[p] # None => DialledTo(p, nat'[p], client')
  <2>1. CASE RedirectToRelay
    <3>. DEFINE c == Head(wire).conn
    <3>1. c \in Conns /\ Head(wire).to \in Dsts /\ FromClient(Head(wire))
          /\ Head(wire) = wire[1] /\ 1 \in 1..Len(wire)
          /\ nat' = NatSet(nat, port[c], Head(wire).to)
      BY <2>1, HeadType DEF RedirectToRelay, TypeOK
    <3>2. DialledTo(port[c], Head(wire).to, client)
      BY <3>1 DEF Known
    <3>. QED  BY <1>3, <3>1, <3>2 DEF NatSet, Known, TypeOK
  <2>2. CASE ~RedirectToRelay
    <3>1. nat' = nat \/ \E c \in Conns : nat' = NatPop(nat, port[c])
      BY <2>2 DEF Next, Redirect, RestoreReply, PassUnrestored, Client, ClientDial,
         ClientRedial, ClientSend, ClientClose, ClientAbort, hostVars, relayVars, Handle,
         HandlerLookup, HandlerDrop, ConnectOk, ConnectFail, PumpReply, PumpReplyEnd,
         PumpRequestEnd, HandlerFinish
    <3>. QED  BY <1>3, <3>1 DEF NatPop, Known, TypeOK
  <2>. QED  BY <2>1, <2>2
<1>7. \A p \in Ports, d \in Dsts : <<p, d>> \in rejected' => CameBack(p, d)'
  <2>. SUFFICES ASSUME NEW p \in Ports, NEW d \in Dsts, <<p, d>> \in rejected'
                PROVE  \E e \in Conns : port[e] = p /\ dst[e] = d /\ client'[e] = "gone"
    BY <1>1 DEF CameBack
  <2>1. CASE <<p, d>> \in rejected
    BY <1>2, <2>1 DEF Known, CameBack
  <2>2. CASE <<p, d>> \notin rejected
    <3>. DEFINE c == Head(wire).conn
                owners == {e \in Conns : Live(e) /\ port[e] = port[c] /\ dst[e] = nat[port[c]]}
    <3>1. RestoreReply
      BY <2>2 DEF Next, Redirect, RedirectToRelay, PassUnrestored, Client, ClientDial,
         ClientRedial, ClientSend, ClientClose, ClientAbort, hostVars, relayVars, Handle,
         HandlerLookup, HandlerDrop, ConnectOk, ConnectFail, PumpReply, PumpReplyEnd,
         PumpRequestEnd, HandlerFinish
    <3>2. c \in Conns /\ nat[port[c]] # None
      BY <3>1, HeadType DEF RestoreReply, NatGet
    <3>3. owners = {} /\ <<p, d>> = <<port[c], nat[port[c]]>> /\ client' = client
      BY <2>2, <3>1 DEF RestoreReply, ArriveAstray, NatGet
    <3>4. PICK e \in Conns : port[e] = port[c] /\ dst[e] = nat[port[c]] /\ client[e] # "new"
      BY <3>2 DEF Known, DialledTo, TypeOK
    <3>5. client[e] = "gone"
      BY <3>3, <3>4 DEF Live, TypeOK, ClientStates
    <3>. QED  BY <3>3, <3>4, <3>5
  <2>. QED  BY <2>1, <2>2
<1>8. (\A i \in 1..Len(wire) :
          FromClient(wire[i]) => DialledTo(port[wire[i].conn], wire[i].to, client))'
  BY <1>1, <1>5 DEF DialledTo, FromClient
<1>9. (\A p \in Ports : nat[p] # None => DialledTo(p, nat[p], client))'
  BY <1>1, <1>6 DEF DialledTo
<1>. QED  BY <1>7, <1>8, <1>9 DEF Known

\* The parts that are stated of the next queue hold in the next state: ports
\* do not change.
LEMMA Repack ==
    ASSUME port' = port, dst' = dst, Exclusive(client'), WireInv(wire', client', sock', rejected'),
           RelayAfterSyn(wire', sock')
    PROVE  Exclusive(client)' /\ WireInv(wire, client, sock, rejected)' /\ RelayAfterSyn(wire, sock)'
<1>1. Exclusive(client)'
  BY DEF Exclusive
<1>2. Dialled(wire, client)'
  BY DEF WireInv, Dialled
<1>3. Ordered(wire, client, rejected)'
  BY DEF WireInv, Ordered, Meant
<1>4. OwnAfterSyn(wire, client, sock, rejected)'
  BY DEF WireInv, OwnAfterSyn, Meant
<1>5. RelayAfterSyn(wire, sock)'
  BY DEF RelayAfterSyn
<1>. QED  BY <1>1, <1>2, <1>3, <1>4, <1>5 DEF WireInv

\* Clients: a packet is appended by the connection that owns its port.
LEMMA ClientStep ==
    ASSUME IInv, NEW c \in Conns, Client(c)
    PROVE  IInv'
<1>. USE DEF IInv
<1>0. TypeOK'
  BY NextType DEF Next
<1>1. UNCHANGED <<port, dst, nat, sock, handler, target, ended, strayed, rejected>>
  BY DEF Client, ClientDial, ClientRedial, ClientSend, ClientClose, ClientAbort, hostVars, relayVars
<1>2. /\ \A d \in Conns : client'[d] = "new" => client[d] = "new"
      /\ \A d \in Conns \ {c} : client'[d] = client[d]
      /\ client'[c] # "new"
  BY DEF Client, ClientDial, ClientRedial, ClientSend, ClientClose, ClientAbort, TypeOK
<1>3. \A d \in Conns \ {c} : client'[d] \in Alive => port[d] # port[c] \/ client'[c] \notin Alive
  <2>1. CASE ClientDial(c)
    BY <1>2, <2>1 DEF ClientDial, Live, Alive, TypeOK
  <2>2. CASE ~ClientDial(c)
    <3>1. client[c] \in Alive
      BY <2>2 DEF Client, ClientRedial, ClientSend, ClientClose, ClientAbort, Alive
    <3>. QED  BY <1>2, <3>1 DEF Exclusive
  <2>. QED  BY <2>1, <2>2
<1>4. Exclusive(client')
  <2>. SUFFICES ASSUME NEW d \in Conns, NEW e \in Conns,
                       client'[d] \in Alive, client'[e] \in Alive, port[d] = port[e]
                PROVE  d = e
    BY DEF Exclusive
  <2>1. CASE d = c \/ e = c
    BY <1>3, <2>1
  <2>2. CASE d # c /\ e # c
    BY <1>2, <2>2 DEF Exclusive
  <2>. QED  BY <2>1, <2>2
<1>5. \A d \in Conns : client'[d] \in Alive =>
        client[d] \in Alive \/ (d = c /\ client[c] = "new")
  BY DEF Client, ClientDial, ClientRedial, ClientSend, ClientClose, ClientAbort, TypeOK, Alive
<1>6. WireInv(wire, client', sock, rejected)
  <2>1. \A d \in Conns : client[d] = "new" =>
            sock[d] = "none" /\ \A i \in 1..Len(wire) : wire[i].conn # d
    BY DEF Progress, WireInv, Dialled
  <2>2. Dialled(wire, client')
    <3>. SUFFICES ASSUME NEW i \in 1..Len(wire) PROVE client'[wire[i].conn] # "new"
      BY DEF Dialled
    <3>1. wire[i] \in Packets
      BY DEF TypeOK
    <3>. QED  BY <1>2, <3>1 DEF Packets, WireInv, Dialled
  <2>3. Ordered(wire, client', rejected)
    BY <1>5, <2>1 DEF WireInv, Ordered
  <2>4. OwnAfterSyn(wire, client', sock, rejected)
    BY <1>5, <2>1 DEF WireInv, OwnAfterSyn
  <2>. QED  BY <2>2, <2>3, <2>4 DEF WireInv
<1>7. wire' = wire \/ \E k \in {"syn", "seg", "fin", "rst"} : wire' = Append(wire, ClientPkt(c, k))
  BY DEF Client, ClientDial, ClientRedial, ClientSend, ClientClose, ClientAbort
<1>8. client[c] \in Alive \/ client'[c] \in Alive
  BY DEF Client, ClientDial, ClientRedial, ClientSend, ClientClose, ClientAbort, Alive, TypeOK
<1>9. \A d \in Conns : client'[d] \in Alive /\ port[c] = port[d] => c = d
  BY <1>2, <1>3, <1>8 DEF Exclusive
<1>10. WireInv(wire', client', sock', rejected') /\ RelayAfterSyn(wire', sock')
  <2>1. CASE wire' = wire
    BY <1>1, <1>6, <2>1
  <2>2. ASSUME NEW k \in {"syn", "seg", "fin", "rst"}, wire' = Append(wire, ClientPkt(c, k))
        PROVE  WireInv(wire', client', sock', rejected') /\ RelayAfterSyn(wire', sock')
    <3>1. /\ ClientPkt(c, k) \in Packets /\ ClientPkt(c, k).conn = c
          /\ FromClient(ClientPkt(c, k)) /\ Meant(c, ClientPkt(c, k).to, rejected)
          /\ ClientPkt(c, k).to = dst[c]
      BY DEF ClientPkt, Packets, Kinds, FromClient, Meant, TypeOK
    <3>3. wire \in Seq(Packets)
      BY DEF TypeOK
    <3>4. WireInv(Append(wire, ClientPkt(c, k)), client', sock, rejected)
      BY <1>2, <1>6, <1>9, <1>4, <3>1, <3>3, WireAppend
    <3>5. RelayAfterSyn(Append(wire, ClientPkt(c, k)), sock)
      BY <3>1, <3>3 DEF RelayAfterSyn
    <3>. QED  BY <1>1, <2>2, <3>4, <3>5
  <2>. QED  BY <1>7, <2>1, <2>2
<1>11. Progress'
  BY <1>1, <1>2 DEF Progress
<1>15. \A d \in Conns : client[d] = "gone" => client'[d] = "gone"
  BY DEF Client, ClientDial, ClientRedial, ClientSend, ClientClose, ClientAbort, TypeOK
<1>12. EntryHasCause' /\ MisrouteHasCause' /\ Known'
  <2>1. \A d \in Conns : client[d] = "new" => sock[d] = "none" /\ target[d] = None
    BY DEF Progress
  <2>2. Known'
    BY KnownStep DEF WireInv, Next
  <2>3. \A p, d : CameBack(p, d) => CameBack(p, d)'
    BY <1>1, <1>15 DEF CameBack
  <2>. QED
    BY <1>1, <1>5, <2>1, <2>2, <2>3 DEF EntryHasCause, MisrouteHasCause, Established, Live, Alive
<1>13. EntryUnlessPopped' /\ StrayHasCause' /\ DropHasCause'
  BY <1>1 DEF EntryUnlessPopped, StrayHasCause, DropHasCause, Popped
<1>14. Exclusive(client)' /\ WireInv(wire, client, sock, rejected)' /\ RelayAfterSyn(wire, sock)'
  BY <1>1, <1>4, <1>10, Repack
<1>. QED  BY <1>0, <1>11, <1>12, <1>13, <1>14

\* Handlers: they append relay packets and pop, and leave clients alone.
LEMMA HandlerStep ==
    ASSUME IInv, NEW c \in Conns, Handle(c)
    PROVE  IInv'
<1>. USE DEF IInv
<1>0. TypeOK'
  BY NextType DEF Next
<1>1. UNCHANGED <<client, port, dst, strayed, rejected>>
  BY DEF Handle, HandlerLookup, HandlerDrop, ConnectOk, ConnectFail, PumpReply,
         PumpReplyEnd, PumpRequestEnd, HandlerFinish
<1>2. handler[c] \in {"accepted", "connecting", "relaying"}
  BY DEF Handle, HandlerLookup, HandlerDrop, ConnectOk, ConnectFail, PumpReply,
         PumpReplyEnd, PumpRequestEnd, HandlerFinish
<1>3. sock[c] # "none" /\ client[c] # "new"
  BY <1>2 DEF Progress
<1>4. \A d \in Conns : sock'[d] = "none" <=> sock[d] = "none"
  <2>1. UNCHANGED sock \/ CloseSock(c)
    BY DEF Handle, HandlerLookup, HandlerDrop, ConnectOk, ConnectFail, PumpReply,
           PumpReplyEnd, PumpRequestEnd, HandlerFinish
  <2>. QED  BY <1>3, <2>1 DEF CloseSock, TypeOK
<1>5. wire' = wire \/ \E k \in {"seg", "fin"} : wire' = Append(wire, RelayPkt(c, k))
  BY DEF Handle, HandlerLookup, HandlerDrop, ConnectOk, ConnectFail, PumpReply,
         PumpReplyEnd, PumpRequestEnd, HandlerFinish, SendFin
<1>6. WireInv(wire', client', sock', rejected') /\ RelayAfterSyn(wire', sock')
  <2>0. wire \in Seq(Packets)
    BY DEF TypeOK
  <2>1. WireInv(wire, client', sock', rejected')
    BY <1>1, <1>4, <2>0, WireMono
  <2>2. RelayAfterSyn(wire, sock')
    <3>. SUFFICES ASSUME NEW i \in 1..Len(wire),
                         ~FromClient(wire[i]) \/ wire[i].to # dst[wire[i].conn]
                  PROVE  sock'[wire[i].conn] # "none"
      BY DEF RelayAfterSyn
    <3>1. wire[i] \in Packets
      BY <2>0
    <3>. QED  BY <1>4, <3>1 DEF RelayAfterSyn, Packets
  <2>3. CASE wire' = wire
    BY <2>1, <2>2, <2>3
  <2>4. ASSUME NEW k \in {"seg", "fin"}, wire' = Append(wire, RelayPkt(c, k))
        PROVE  WireInv(wire', client', sock', rejected') /\ RelayAfterSyn(wire', sock')
    <3>1. RelayPkt(c, k) \in Packets /\ RelayPkt(c, k).conn = c /\ ~FromClient(RelayPkt(c, k))
      BY DEF RelayPkt, Packets, Kinds, FromClient
    <3>2. Exclusive(client')
      BY <1>1
    <3>3. WireInv(Append(wire, RelayPkt(c, k)), client', sock', rejected')
      BY <1>1, <1>3, <2>0, <2>1, <3>1, <3>2, WireAppend
    <3>4. RelayAfterSyn(Append(wire, RelayPkt(c, k)), sock')
      BY <1>3, <1>4, <2>0, <2>2, <3>1 DEF RelayAfterSyn
    <3>. QED  BY <2>4, <3>3, <3>4
  <2>. QED  BY <1>5, <2>3, <2>4
<1>7. Exclusive(client)' /\ WireInv(wire, client, sock, rejected)' /\ RelayAfterSyn(wire, sock)'
  <2>1. Exclusive(client')
    BY <1>1
  <2>. QED  BY <1>1, <1>6, <2>1, Repack
<1>8. \A d \in Conns \ {c} : handler'[d] = handler[d] /\ target'[d] = target[d]
  BY DEF Handle, HandlerLookup, HandlerDrop, ConnectOk, ConnectFail, PumpReply,
         PumpReplyEnd, PumpRequestEnd, HandlerFinish, TypeOK
<1>9. Progress'
  <2>1. UNCHANGED sock \/ CloseSock(c)
    BY DEF Handle, HandlerLookup, HandlerDrop, ConnectOk, ConnectFail, PumpReply,
           PumpReplyEnd, PumpRequestEnd, HandlerFinish
  <2>2. \A d \in Conns : sock'[d] = "synrcvd" => sock[d] = "synrcvd"
    BY <2>1 DEF CloseSock, TypeOK
  <2>. QED  BY <1>1, <1>2, <1>3, <1>4, <1>8, <2>2 DEF Progress
<1>10. \/ nat' = nat
       \/ nat' = NatPop(nat, port[c]) /\ handler'[c] \in {"failed", "done"}
  BY DEF Handle, HandlerLookup, HandlerDrop, ConnectOk, ConnectFail, PumpReply,
         PumpReplyEnd, PumpRequestEnd, HandlerFinish, TypeOK
<1>11. \A d \in Conns : nat'[port[d]] \in {nat[port[d]], None}
  BY <1>10 DEF NatPop, TypeOK
<1>18. \A p, d : CameBack(p, d) => CameBack(p, d)'
  BY <1>1 DEF CameBack
<1>12. EntryHasCause' /\ Known'
  <2>1. Known'
    BY KnownStep DEF WireInv, Next
  <2>. QED  BY <1>1, <1>4, <1>11, <1>18, <2>1 DEF EntryHasCause, Established, Live
<1>13. MisrouteHasCause'
  <2>1. CASE HandlerLookup(c)
    <3>1. Live(c) /\ DefaultTarget = None =>
              TargetFor(c) = dst[c] \/ CameBack(port[c], TargetFor(c))
      BY <1>3, <2>1 DEF HandlerLookup, TargetFor, NatGet, EntryHasCause, Established
    <3>2. target' = [target EXCEPT ![c] = TargetFor(c)]
      BY <2>1 DEF HandlerLookup
    <3>. QED  BY <1>1, <1>18, <3>1, <3>2 DEF MisrouteHasCause, Live, TypeOK
  <2>2. CASE ~HandlerLookup(c)
    <3>1. target' = target
      BY <2>2 DEF Handle, HandlerDrop, ConnectOk, ConnectFail, PumpReply,
                  PumpReplyEnd, PumpRequestEnd, HandlerFinish
    <3>. QED  BY <1>1, <1>18, <3>1 DEF MisrouteHasCause, Live
  <2>. QED  BY <2>1, <2>2
<1>14. \A p : Popped(p) => Popped(p)'
  BY <1>1, <1>2, <1>8 DEF Popped
<1>15. EntryUnlessPopped'
  <2>. SUFFICES ASSUME NEW d \in Conns, sock'[d] # "none"
                PROVE  \/ nat'[port[d]] # None
                       \/ \E e \in Conns : port[e] = port[d] /\ handler'[e] \in {"failed", "done"}
    BY <1>1 DEF EntryUnlessPopped, Popped
  <2>0. Popped(port[d]) =>
          \E e \in Conns : port[e] = port[d] /\ handler'[e] \in {"failed", "done"}
    BY <1>2, <1>8 DEF Popped
  <2>1. CASE nat' = nat
    BY <1>4, <2>0, <2>1 DEF EntryUnlessPopped
  <2>2. CASE nat' = NatPop(nat, port[c]) /\ handler'[c] \in {"failed", "done"}
    <3>1. CASE port[d] = port[c]
      BY <2>2, <3>1
    <3>2. CASE port[d] # port[c]
      BY <1>4, <2>0, <2>2, <3>2 DEF EntryUnlessPopped, NatPop, TypeOK
    <3>. QED  BY <3>1, <3>2
  <2>. QED  BY <1>10, <2>1, <2>2
<1>16. StrayHasCause'
  BY <1>1, <1>14 DEF StrayHasCause
<1>17. DropHasCause'
  <2>1. \A d \in Conns : handler[d] \in {"failed", "done"} => handler'[d] = handler[d]
    BY <1>2, <1>8
  <2>2. handler'[c] = "dropped" =>
          \E d \in Conns \ {c} : port[d] = port[c] /\ handler[d] \in {"failed", "done"}
    <3>1. handler'[c] = "dropped" => HandlerDrop(c)
      BY <1>2 DEF Handle, HandlerLookup, HandlerDrop, ConnectOk, ConnectFail, PumpReply,
                  PumpReplyEnd, PumpRequestEnd, HandlerFinish, TypeOK
    <3>2. HandlerDrop(c) => nat[port[c]] = None
      BY NatAssumption DEF HandlerDrop, TargetFor, NatGet
    <3>. QED  BY <1>2, <1>3, <3>1, <3>2 DEF EntryUnlessPopped, Popped
  <2>. QED  BY <1>1, <1>8, <2>1, <2>2 DEF DropHasCause
<1>. QED  BY <1>0, <1>7, <1>9, <1>12, <1>13, <1>15, <1>16, <1>17

\* Rule 1: the head is the client's own packet, and the entry becomes its
\* destination.
LEMMA RedirectStep ==
    ASSUME IInv, RedirectToRelay
    PROVE  IInv'
<1>. USE DEF IInv
<1>0. TypeOK'
  BY NextType DEF Next, Redirect
<1>. DEFINE c == Head(wire).conn
            k == Head(wire).kind
            rest == Tail(wire)
<1>1. /\ c \in Conns /\ rest \in Seq(Packets) /\ wire \in Seq(Packets) /\ wire # << >>
      /\ Head(wire) = wire[1] /\ 1 \in 1..Len(wire) /\ FromClient(Head(wire))
      /\ k \in Kinds
  BY HeadType DEF RedirectToRelay, TypeOK
<1>2. /\ UNCHANGED <<client, port, dst, target, ended, strayed, rejected>>
      /\ nat' = NatSet(nat, port[c], Head(wire).to)
      /\ ArriveAtRelay(c, k, rest)
  BY DEF RedirectToRelay
<1>. HIDE DEF c, k, rest
<1>3. client[c] # "new"
  BY <1>1 DEF WireInv, Dialled, c
<1>4. /\ \A d \in Conns \ {c} : sock'[d] = sock[d]
      /\ \A d \in Conns : sock[d] # "none" => sock'[d] # "none"
  BY <1>1, <1>2 DEF ArriveAtRelay, TypeOK
<1>5. wire' = rest \/ \E x \in {"syn", "rst"} :
          wire' = Append(rest, RelayPkt(c, x)) /\ sock'[c] # "none"
  BY <1>1, <1>2 DEF ArriveAtRelay, TypeOK
<1>6. WireInv(rest, client', sock', rejected')
  <2>1. \A d \in Conns : sock'[d] # "none" => sock[d] # "none" \/ d = c
    BY <1>4
  <2>. QED  BY <1>1, <1>2, <2>1, WireTailSyn DEF c, rest
<1>7. RelayAfterSyn(rest, sock')
  <2>. SUFFICES ASSUME NEW i \in 1..Len(rest),
                       ~FromClient(rest[i]) \/ rest[i].to # dst[rest[i].conn]
                PROVE  sock'[rest[i].conn] # "none"
    BY DEF RelayAfterSyn
  <2>1. rest[i] = wire[i + 1] /\ i + 1 \in 1..Len(wire) /\ rest[i] \in Packets
    BY <1>1 DEF rest
  <2>. QED  BY <1>4, <2>1 DEF RelayAfterSyn, Packets
<1>8. WireInv(wire', client', sock', rejected') /\ RelayAfterSyn(wire', sock')
  <2>1. ASSUME NEW x \in {"syn", "rst"},
               wire' = Append(rest, RelayPkt(c, x)), sock'[c] # "none"
        PROVE  WireInv(wire', client', sock', rejected') /\ RelayAfterSyn(wire', sock')
    <3>1. RelayPkt(c, x) \in Packets /\ RelayPkt(c, x).conn = c /\ ~FromClient(RelayPkt(c, x))
      BY <1>1 DEF RelayPkt, Packets, Kinds, FromClient
    <3>2. Exclusive(client')
      BY <1>2
    <3>3. WireInv(Append(rest, RelayPkt(c, x)), client', sock', rejected')
      BY <1>1, <1>2, <1>3, <1>6, <3>1, <3>2, WireAppend
    <3>4. RelayAfterSyn(Append(rest, RelayPkt(c, x)), sock')
      BY <1>1, <1>7, <2>1, <3>1 DEF RelayAfterSyn
    <3>. QED  BY <2>1, <3>3, <3>4
  <2>. QED  BY <1>5, <1>6, <1>7, <2>1
<1>9. Exclusive(client)' /\ WireInv(wire, client, sock, rejected)' /\ RelayAfterSyn(wire, sock)'
  <2>1. Exclusive(client')
    BY <1>2
  <2>. QED  BY <1>2, <1>8, <2>1, Repack
<1>10. \A d \in Conns : handler'[d] = handler[d] \/
          (d = c /\ handler'[d] = "accepted" /\ sock[d] = "synrcvd")
  BY <1>1, <1>2 DEF ArriveAtRelay, TypeOK
<1>11. \A d \in Conns : handler[d] # "none" => handler'[d] = handler[d]
  BY <1>10 DEF Progress
<1>12. Progress'
  <2>1. sock'[c] = "synrcvd" => handler'[c] = "none"
    BY <1>1, <1>2 DEF ArriveAtRelay, TypeOK, Progress
  <2>. QED  BY <1>2, <1>3, <1>4, <1>10, <2>1 DEF Progress
<1>13. nat'[port[c]] = Head(wire).to /\ Head(wire).to # None
       /\ \A d \in Conns : port[d] # port[c] => nat'[port[d]] = nat[port[d]]
  BY <1>1, <1>2, HeadType, NatAssumption DEF NatSet, TypeOK
<1>20. Known' /\ \A p, d : CameBack(p, d) => CameBack(p, d)'
  <2>1. Known'
    BY KnownStep DEF WireInv, Next, Redirect
  <2>. QED  BY <1>2, <2>1 DEF CameBack
<1>14. EntryHasCause'
  <2>. SUFFICES ASSUME NEW d \in Conns, client[d] \in Alive, sock'[d] # "none"
                PROVE  nat'[port[d]] \in {None, dst[d]} \/ CameBack(port[d], nat'[port[d]])
    BY <1>2, <1>20 DEF EntryHasCause, Established, Live, Alive, CameBack
  <2>1. CASE port[d] = port[c]
    <3>1. sock[d] # "none" \/ d = c
      BY <1>4
    <3>2. Meant(d, Head(wire).to, rejected)
      <4>1. CASE sock[d] # "none"
        BY <1>1, <2>1, <4>1 DEF WireInv, OwnAfterSyn, c
      <4>2. CASE sock[d] = "none"
        BY <1>1, <3>1, <4>2 DEF RelayAfterSyn, Meant, c
      <4>. QED  BY <4>1, <4>2
    <3>. QED  BY <1>13, <2>1, <3>2, HeadType, <1>1 DEF Meant, Known, TypeOK
  <2>3. CASE port[d] # port[c]
    BY <1>4, <1>13, <2>3 DEF EntryHasCause, Established, Live, Alive
  <2>. QED  BY <2>1, <2>3
<1>15. MisrouteHasCause'
  BY <1>2, <1>20 DEF MisrouteHasCause, Live
<1>16. \A d \in Conns : handler[d] \in {"failed", "done"} => handler'[d] = handler[d]
  BY <1>11
<1>17. EntryUnlessPopped'
  <2>. SUFFICES ASSUME NEW d \in Conns, sock'[d] # "none"
                PROVE  \/ nat'[port[d]] # None
                       \/ \E e \in Conns : port[e] = port[d] /\ handler'[e] \in {"failed", "done"}
    BY <1>2 DEF EntryUnlessPopped, Popped
  <2>1. CASE port[d] = port[c]
    BY <1>13, <2>1
  <2>2. CASE port[d] # port[c]
    BY <1>4, <1>13, <1>16, <2>2 DEF EntryUnlessPopped, Popped
  <2>. QED  BY <2>1, <2>2
<1>18. StrayHasCause'
  BY <1>2, <1>16 DEF StrayHasCause, Popped
<1>19. DropHasCause'
  BY <1>2, <1>10, <1>16 DEF DropHasCause
<1>. QED  BY <1>0, <1>9, <1>12, <1>14, <1>15, <1>17, <1>18, <1>19, <1>20

\* Rule 2: the head is the relay's; an acknowledgement may be appended, by the
\* connection that received the packet.
LEMMA RestoreStep ==
    ASSUME IInv, RestoreReply
    PROVE  IInv'
<1>. USE DEF IInv
<1>0. TypeOK'
  BY NextType DEF Next, Redirect
<1>. DEFINE c == Head(wire).conn
            k == Head(wire).kind
            rest == Tail(wire)
            entry == nat[port[c]]
<1>1. /\ c \in Conns /\ rest \in Seq(Packets) /\ wire \in Seq(Packets) /\ wire # << >>
      /\ Head(wire) = wire[1] /\ 1 \in 1..Len(wire) /\ ~FromClient(Head(wire))
      /\ k \in Kinds
  BY HeadType DEF RestoreReply, TypeOK
<1>2. /\ UNCHANGED <<port, dst, nat, sock, handler, target, ended, strayed>>
      /\ entry # None /\ entry \in Dsts
  BY <1>1 DEF RestoreReply, relayVars, NatGet, TypeOK
<1>3. \/ Live(c) /\ ArriveAtClient(c, k, rest) /\ UNCHANGED rejected
      \/ ArriveAstray(c, k, entry, rest) /\ UNCHANGED client
  BY DEF RestoreReply, NatGet
<1>. HIDE DEF c, k, rest, entry
<1>4. client[c] # "new" /\ sock[c] # "none"
  BY <1>1 DEF WireInv, Dialled, RelayAfterSyn, c
<1>5. /\ \A d \in Conns : client'[d] = "new" => client[d] = "new"
      /\ \A d \in Conns : client'[d] \in Alive => client[d] \in Alive
      /\ \A d \in Conns : client[d] = "gone" => client'[d] = "gone"
  BY <1>1, <1>3 DEF ArriveAtClient, Live, Alive, TypeOK
<1>6. \/ wire' = rest
      \/ \E d \in Conns : client[d] \in Alive /\ wire' = Append(rest, ClientPkt(d, "ack"))
      \/ wire' = Append(rest, Rejection(c, entry))
         /\ \/ <<port[c], entry>> \in rejected'
            \/ \E d \in Conns : Live(d) /\ port[d] = port[c] /\ dst[d] = entry
  BY <1>1, <1>3 DEF ArriveAtClient, ArriveAstray, Live, Alive
<1>14. rejected \subseteq rejected'
  BY <1>3 DEF ArriveAstray
<1>7. Exclusive(client')
  BY <1>5 DEF Exclusive
<1>8. WireInv(rest, client', sock', rejected')
  <2>1. WireInv(rest, client, sock, rejected)
    BY <1>1, WireTail DEF rest
  <2>. QED  BY <1>1, <1>2, <1>5, <1>14, <2>1, WireMono
<1>9. RelayAfterSyn(rest, sock')
  BY <1>1, <1>2 DEF RelayAfterSyn, rest
<1>10. WireInv(wire', client', sock', rejected') /\ RelayAfterSyn(wire', sock')
  <2>1. ASSUME NEW d \in Conns, client[d] \in Alive, wire' = Append(rest, ClientPkt(d, "ack"))
        PROVE  WireInv(wire', client', sock', rejected') /\ RelayAfterSyn(wire', sock')
    <3>1. /\ ClientPkt(d, "ack") \in Packets /\ ClientPkt(d, "ack").conn = d
          /\ FromClient(ClientPkt(d, "ack")) /\ ClientPkt(d, "ack").to = dst[d]
      BY <1>1 DEF ClientPkt, Packets, Kinds, FromClient, TypeOK
    <3>2. \A e \in Conns : client'[e] \in Alive /\ port[d] = port[e] => d = e
      BY <1>1, <1>5, <2>1 DEF Exclusive
    <3>3. client'[d] # "new"
      BY <1>5, <2>1 DEF Alive
    <3>4. WireInv(Append(rest, ClientPkt(d, "ack")), client', sock', rejected')
      BY <1>1, <1>7, <1>8, <3>1, <3>2, <3>3, WireAppend DEF Meant
    <3>5. RelayAfterSyn(Append(rest, ClientPkt(d, "ack")), sock')
      BY <1>1, <1>9, <3>1 DEF RelayAfterSyn
    <3>. QED  BY <2>1, <3>4, <3>5
  <2>2. CASE /\ wire' = Append(rest, Rejection(c, entry))
             /\ \/ <<port[c], entry>> \in rejected'
                \/ \E d \in Conns : Live(d) /\ port[d] = port[c] /\ dst[d] = entry
    <3>1. /\ Rejection(c, entry) \in Packets /\ Rejection(c, entry).conn = c
          /\ FromClient(Rejection(c, entry)) /\ Rejection(c, entry).to = entry
      BY <1>1, <1>2 DEF Rejection, Packets, Kinds, FromClient
    <3>2. \A e \in Conns : client'[e] \in Alive /\ port[c] = port[e] => Meant(e, entry, rejected')
      <4>1. CASE <<port[c], entry>> \in rejected'
        BY <4>1 DEF Meant
      <4>2. CASE \E d \in Conns : Live(d) /\ port[d] = port[c] /\ dst[d] = entry
        BY <1>5, <4>2 DEF Meant, Exclusive, Live, Alive
      <4>. QED  BY <2>2, <4>1, <4>2
    <3>3. client'[c] # "new"
      BY <1>1, <1>4, <1>5
    <3>4. WireInv(Append(rest, Rejection(c, entry)), client', sock', rejected')
      BY <1>1, <1>7, <1>8, <3>1, <3>2, <3>3, WireAppend
    <3>5. RelayAfterSyn(Append(rest, Rejection(c, entry)), sock')
      BY <1>1, <1>2, <1>4, <1>9, <3>1 DEF RelayAfterSyn
    <3>. QED  BY <2>2, <3>4, <3>5
  <2>. QED  BY <1>6, <1>8, <1>9, <2>1, <2>2
<1>11. Exclusive(client)' /\ WireInv(wire, client, sock, rejected)' /\ RelayAfterSyn(wire, sock)'
  BY <1>2, <1>7, <1>10, Repack
<1>12. Progress' /\ EntryHasCause' /\ MisrouteHasCause' /\ Known'
  <2>1. Known'
    BY KnownStep DEF WireInv, Next, Redirect
  <2>2. \A p, d : CameBack(p, d) => CameBack(p, d)'
    BY <1>2, <1>5, <1>14 DEF CameBack
  <2>. QED
    BY <1>2, <1>5, <2>1, <2>2 DEF Progress, EntryHasCause, MisrouteHasCause, Established, Live, Alive
<1>13. EntryUnlessPopped' /\ StrayHasCause' /\ DropHasCause'
  BY <1>2 DEF EntryUnlessPopped, StrayHasCause, DropHasCause, Popped
<1>. QED  BY <1>0, <1>11, <1>12, <1>13

\* Rule 2 without an entry: some handler of the port has popped it.
LEMMA PassStep ==
    ASSUME IInv, PassUnrestored
    PROVE  IInv'
<1>. USE DEF IInv
<1>0. TypeOK'
  BY NextType DEF Next, Redirect
<1>. DEFINE c == Head(wire).conn
            rest == Tail(wire)
<1>1. /\ c \in Conns /\ rest \in Seq(Packets) /\ wire \in Seq(Packets) /\ wire # << >>
      /\ Head(wire) = wire[1] /\ 1 \in 1..Len(wire) /\ ~FromClient(Head(wire))
  BY HeadType DEF PassUnrestored, TypeOK
<1>2. /\ UNCHANGED <<client, port, dst, nat, handler, target, ended, rejected>>
      /\ wire' = rest /\ nat[port[c]] = None
      /\ sock' = [sock EXCEPT ![c] = "dead"]
      /\ strayed' \subseteq strayed \cup {c}
  BY DEF PassUnrestored, NatGet
<1>. HIDE DEF c, rest
<1>3. sock[c] # "none"
  BY <1>1 DEF RelayAfterSyn, c
<1>4. \A d \in Conns : /\ sock'[d] = "none" <=> sock[d] = "none"
                       /\ sock'[d] = "synrcvd" => sock[d] = "synrcvd"
  BY <1>1, <1>2, <1>3 DEF TypeOK
<1>5. Exclusive(client')
  BY <1>2
<1>6. WireInv(rest, client', sock', rejected')
  <2>1. WireInv(rest, client, sock, rejected)
    BY <1>1, WireTail DEF rest
  <2>2. /\ \A d \in Conns : client'[d] \in Alive => client[d] \in Alive
        /\ \A d \in Conns : client'[d] = "new" => client[d] = "new"
        /\ \A d \in Conns : sock'[d] # "none" => sock[d] # "none"
        /\ rejected \subseteq rejected'
    BY <1>2, <1>4
  <2>. QED  BY <1>1, <2>1, <2>2, WireMono
<1>7. RelayAfterSyn(rest, sock')
  <2>. SUFFICES ASSUME NEW i \in 1..Len(rest),
                       ~FromClient(rest[i]) \/ rest[i].to # dst[rest[i].conn]
                PROVE  sock'[rest[i].conn] # "none"
    BY DEF RelayAfterSyn
  <2>1. rest[i] = wire[i + 1] /\ i + 1 \in 1..Len(wire) /\ rest[i] \in Packets
    BY <1>1 DEF rest
  <2>. QED  BY <1>4, <2>1 DEF RelayAfterSyn, Packets
<1>8. Exclusive(client)' /\ WireInv(wire, client, sock, rejected)' /\ RelayAfterSyn(wire, sock)'
  BY <1>2, <1>5, <1>6, <1>7, Repack
<1>9. Progress' /\ EntryHasCause' /\ MisrouteHasCause' /\ Known'
  <2>1. Known'
    BY KnownStep DEF WireInv, Next, Redirect
  <2>. QED
    BY <1>2, <1>4, <2>1 DEF Progress, EntryHasCause, MisrouteHasCause, Established, Live, CameBack
<1>10. EntryUnlessPopped' /\ DropHasCause'
  BY <1>2, <1>4 DEF EntryUnlessPopped, DropHasCause, Popped
<1>11. StrayHasCause'
  <2>1. \E e \in Conns : port[e] = port[c] /\ handler[e] \in {"failed", "done"}
    BY <1>1, <1>2, <1>3 DEF EntryUnlessPopped, Popped
  <2>2. \A d \in strayed' :
          \E e \in Conns : port[e] = port[d] /\ handler[e] \in {"failed", "done"}
    BY <1>2, <2>1 DEF StrayHasCause, Popped
  <2>. QED  BY <1>2, <2>2 DEF StrayHasCause, Popped
<1>. QED  BY <1>0, <1>8, <1>9, <1>10, <1>11

----------------------------------------------------------------------------
LEMMA InitInv == Init => IInv
<1>. SUFFICES ASSUME Init PROVE IInv
  OBVIOUS
<1>1. TypeOK
  BY InitType
<1>2. Len(wire) = 0
  BY DEF Init
<1>3. Exclusive(client) /\ Progress
  BY DEF Init, Exclusive, Progress, Alive
<1>4. WireInv(wire, client, sock, rejected) /\ RelayAfterSyn(wire, sock)
  BY <1>2 DEF WireInv, Dialled, Ordered, OwnAfterSyn, RelayAfterSyn
<1>5. EntryHasCause /\ MisrouteHasCause /\ Known
  BY <1>2 DEF Init, EntryHasCause, MisrouteHasCause, Established, Known
<1>6. EntryUnlessPopped /\ StrayHasCause /\ DropHasCause
  BY DEF Init, EntryUnlessPopped, StrayHasCause, DropHasCause
<1>. QED  BY <1>1, <1>3, <1>4, <1>5, <1>6 DEF IInv

LEMMA NextInv == IInv /\ [Next]_vars => IInv'
<1>. SUFFICES ASSUME IInv, [Next]_vars PROVE IInv'
  OBVIOUS
<1>1. CASE RedirectToRelay  BY <1>1, RedirectStep
<1>2. CASE RestoreReply     BY <1>2, RestoreStep
<1>3. CASE PassUnrestored   BY <1>3, PassStep
<1>4. ASSUME NEW c \in Conns, Client(c) PROVE IInv'  BY <1>4, ClientStep
<1>5. ASSUME NEW c \in Conns, Handle(c) PROVE IInv'  BY <1>5, HandlerStep
<1>6. CASE UNCHANGED vars
  <2>1. TypeOK'
    BY NextType DEF IInv
  <2>2. Exclusive(client)' /\ WireInv(wire, client, sock, rejected)' /\ RelayAfterSyn(wire, sock)'
    BY <1>6, Repack DEF vars, IInv
  <2>3. (Progress /\ EntryHasCause /\ MisrouteHasCause /\ Known)'
    BY <1>6 DEF vars, IInv, Progress, EntryHasCause, MisrouteHasCause, Established, Live,
                Known, CameBack, DialledTo
  <2>4. (EntryUnlessPopped /\ StrayHasCause /\ DropHasCause)'
    BY <1>6 DEF vars, IInv, EntryUnlessPopped, StrayHasCause, DropHasCause, Popped
  <2>. QED  BY <2>1, <2>2, <2>3, <2>4 DEF IInv
<1>. QED  BY <1>1, <1>2, <1>3, <1>4, <1>5, <1>6 DEF Next, Redirect

\* The strengthened invariant holds in every reachable state.
THEOREM Inductive == Spec => []IInv
  BY InitInv, NextInv, PTL DEF Spec

\* However ports are reused, the entry of a live client's port is its own or
\* gone, unless a redirected reset for a dead connection of the port brought
\* that one's camera port back (redirector.py:134-136).
THEOREM EntriesHaveCause == Spec => []EntryHasCause
<1>1. IInv => EntryHasCause
  BY DEF IInv
<1>. QED  BY Inductive, <1>1, PTL

\* The relay connects a live client to a camera port it did not dial only
\* after such a reset (relay.py:108).
THEOREM MisroutesHaveCause == Spec => []MisrouteHasCause
<1>1. IInv => MisrouteHasCause
  BY DEF IInv
<1>. QED  BY Inductive, <1>1, PTL

\* Replies lose the camera's address only after a handler of the same port, the
\* connection's own included, has popped the entry (relay.py:140).
THEOREM StraysHaveCause == Spec => []StrayHasCause
<1>1. IInv => StrayHasCause
  BY DEF IInv
<1>. QED  BY Inductive, <1>1, PTL

\* A connection is dropped for want of an entry (relay.py:117) only after a
\* handler of the same port has popped it.
THEOREM DropsHaveCause == Spec => []DropHasCause
<1>1. IInv => DropHasCause
  BY DEF IInv
<1>. QED  BY Inductive, <1>1, PTL

============================================================================
