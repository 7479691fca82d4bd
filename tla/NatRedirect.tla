---------------------------- MODULE NatRedirect ----------------------------
(***************************************************************************)
(* The Windows interception path: the Redirector thread (redirector.py),   *)
(* the NatTable it shares with the relay (relay.py) and the life of one    *)
(* Relay._handle task per intercepted TCP connection.                      *)
(*                                                                         *)
(* Client programs dial the camera.  WinDivert captures every outbound     *)
(* packet client -> camera and relay -> client into one FIFO; the          *)
(* redirector thread takes them one at a time, rewrites them with rule 1   *)
(* or rule 2 and injects them.  The NAT table is keyed by the client's     *)
(* source port alone, and the handler that served a port removes the       *)
(* port's entry when it ends - which may be after another connection took  *)
(* the port over.                                                          *)
(*                                                                         *)
(* What is outside src/ is modelled from how the code relies on it: the    *)
(* client's TCP stack (a local port belongs to one live connection; a      *)
(* segment from an address it has no connection with is answered with a    *)
(* reset) and the relay host's TCP stack (accept after the handshake; a    *)
(* segment for a dead socket is answered with a reset).  Such a reset of   *)
(* the client goes to the camera, so it is captured and rule 1 enters its  *)
(* destination again.  Packets are not lost.  Bytes are not modelled here: *)
(* see RelayPump.                                                          *)
(***************************************************************************)
EXTENDS Naturals, Sequences, FiniteSets

CONSTANTS
    Conns,          \* identities of the TCP connections clients open
    Ports,          \* client source ports
    Reserved,       \* the ports in src_port_range [lo, hi)
    Dsts,           \* camera ports that clients dial
    DefaultTarget,  \* Relay.default_target: None whenever a Redirector runs
    None,           \* no entry, no target
    MaxWire,        \* bound: clients and camera hold new packets back at this
                    \* length of the capture queue
    MaxSyns         \* bound: SYNs of one connection in the queue

ASSUME NatAssumption ==
    /\ Reserved \subseteq Ports
    /\ None \notin Dsts
    /\ DefaultTarget \in Dsts \cup {None}
    /\ MaxWire \in Nat
    /\ MaxSyns \in Nat

VARIABLES
    client,   \* client's view of each connection
    port,     \* the source port of each connection
    dst,      \* the camera port each connection was dialled to
    wire,     \* packets captured by WinDivert and not yet taken by `for pkt in w`
    nat,      \* NatTable._m
    sock,     \* the relay host's socket of each connection
    handler,  \* the _handle task of each connection
    target,   \* the `target` of that task
    ended,    \* the pumps of that task that have returned
    strayed,  \* live clients that were sent a reply from the relay's own address
    rejected  \* <<port, camera port>> of the resets a client's TCP sent for an
              \* address with which no live connection of that port is

vars == <<client, port, dst, wire, nat, sock, handler, target, ended, strayed, rejected>>

ClientStates  == {"new", "dialling", "open", "eof", "shut", "gone", "direct"}
SockStates    == {"none", "synrcvd", "est", "shut", "closed", "dead"}
HandlerStates == {"none", "accepted", "connecting", "relaying",
                  "dropped", "failed", "done"}
Pumps         == {"c2s", "s2c"}
Kinds         == {"syn", "ack", "seg", "fin", "rst"}
Packets       == [from : {"client"}, conn : Conns, kind : Kinds, to : Dsts]
                 \cup [from : {"relay"}, conn : Conns, kind : Kinds]

\* A connection whose client still owns its source port.
Live(c) == client[c] \in {"dialling", "open", "eof", "shut", "direct"}

FromClient(pkt)  == pkt.from = "client"
ClientPkt(c, k)  == [from |-> "client", conn |-> c, kind |-> k, to |-> dst[c]]
RelayPkt(c, k)   == [from |-> "relay", conn |-> c, kind |-> k]

\* The answer to a packet of c from an address the client has no connection with.
Rejection(c, to) == [from |-> "client", conn |-> c, kind |-> "rst", to |-> to]

Init ==
    /\ client  = [c \in Conns |-> "new"]
    /\ port    \in [Conns -> Ports]
    /\ dst     \in [Conns -> Dsts]
    /\ wire    = << >>
    /\ nat     = [p \in Ports |-> None]
    /\ sock    = [c \in Conns |-> "none"]
    /\ handler = [c \in Conns |-> "none"]
    /\ target  = [c \in Conns |-> None]
    /\ ended   = [c \in Conns |-> {}]
    /\ strayed = {}
    /\ rejected = {}

----------------------------------------------------------------------------
(* Clients.  port and dst are fixed at the start, which amounts to each     *)
(* connection choosing them when it dials.                                  *)

relayVars == <<nat, sock, handler, target, ended, strayed>>
hostVars  == <<relayVars, rejected>>

\* The filter excludes the reserved source ports: such a connection goes
\* straight to the camera.
ClientDial(c) ==
    /\ client[c] = "new"
    /\ \A d \in Conns : port[d] = port[c] => ~Live(d)
    /\ IF port[c] \in Reserved
       THEN client' = [client EXCEPT ![c] = "direct"] /\ wire' = wire
       ELSE /\ client' = [client EXCEPT ![c] = "dialling"]
            /\ wire' = Append(wire, ClientPkt(c, "syn"))
    /\ UNCHANGED <<port, dst, hostVars>>

\* TCP sends the SYN again, possibly while the handshake is under way.
ClientRedial(c) ==
    /\ client[c] = "dialling"
    /\ Cardinality({i \in 1..Len(wire) : wire[i] = ClientPkt(c, "syn")}) < MaxSyns
    /\ wire' = Append(wire, ClientPkt(c, "syn"))
    /\ UNCHANGED <<client, port, dst, hostVars>>

\* A request, or more of one.
ClientSend(c) ==
    /\ client[c] \in {"open", "eof"}
    /\ Len(wire) < MaxWire
    /\ wire' = Append(wire, ClientPkt(c, "seg"))
    /\ UNCHANGED <<client, port, dst, hostVars>>

\* shutdown(SHUT_WR), or close() after the camera's end of stream was read.
ClientClose(c) ==
    /\ client[c] \in {"open", "eof"}
    /\ client' = [client EXCEPT ![c] = IF @ = "eof" THEN "gone" ELSE "shut"]
    /\ wire' = Append(wire, ClientPkt(c, "fin"))
    /\ UNCHANGED <<port, dst, hostVars>>

\* The program dies or closes with unread data: the port is free at once.
ClientAbort(c) ==
    /\ client[c] \in {"open", "eof", "shut"}
    /\ client' = [client EXCEPT ![c] = "gone"]
    /\ wire' = Append(wire, ClientPkt(c, "rst"))
    /\ UNCHANGED <<port, dst, hostVars>>

----------------------------------------------------------------------------
(* The redirector thread: Redirector.run and _rewrite, one captured packet  *)
(* at a time, and what the injected packet does where it arrives.           *)

\* Mutant: an entry that is there is kept.
NatSetIfAbsent(t, p, d) == IF t[p] = None THEN [t EXCEPT ![p] = d] ELSE t

\* NatTable.set, .get and .pop, each one critical section of its lock.
NatSet(t, p, d) == [t EXCEPT ![p] = d]
NatGet(t, p)    == t[p]
NatPop(t, p)    == [t EXCEPT ![p] = None]

\* The relay host's TCP receives packet k of connection c.
ArriveAtRelay(c, k, rest) ==
    LET opens == k = "syn" /\ handler[c] = "none"   \* no old duplicate
        resets == sock[c] = "dead" \/ (sock[c] = "closed" /\ k = "seg")
    IN
    /\ sock' = [sock EXCEPT ![c] =
          CASE opens                        -> "synrcvd"
            [] k = "rst"                    -> "dead"
            [] k = "ack" /\ @ = "synrcvd"   -> "est"
            [] k = "fin" /\ @ = "est"       -> "shut"
            [] k = "seg" /\ @ = "closed"    -> "dead"
            [] OTHER                        -> @]
    /\ wire' = CASE opens                  -> Append(rest, RelayPkt(c, "syn"))
                 [] k \notin {"syn", "rst"} /\ resets
                                           -> Append(rest, RelayPkt(c, "rst"))
                 [] OTHER                  -> rest
    /\ handler' = IF k = "ack" /\ sock[c] = "synrcvd"
                  THEN [handler EXCEPT ![c] = "accepted"] ELSE handler

\* Mutant of rule 1: the SYN itself is not remembered.
RedirectAfterSyn ==
    /\ wire # << >>
    /\ FromClient(Head(wire))
    /\ LET c == Head(wire).conn IN
        /\ port[c] \notin Reserved
        /\ nat' = IF Head(wire).kind = "syn" THEN nat
                  ELSE NatSet(nat, port[c], Head(wire).to)
        /\ ArriveAtRelay(c, Head(wire).kind, Tail(wire))
    /\ UNCHANGED <<client, port, dst, target, ended, strayed, rejected>>

\* Rule 1: remember the original destination of every packet, then send it
\* to the relay.
RedirectToRelay ==
    /\ wire # << >>
    /\ FromClient(Head(wire))
    /\ LET c == Head(wire).conn IN
        /\ port[c] \notin Reserved
        /\ nat' = NatSet(nat, port[c], Head(wire).to)
        /\ ArriveAtRelay(c, Head(wire).kind, Tail(wire))
    /\ UNCHANGED <<client, port, dst, target, ended, strayed, rejected>>

\* The client's TCP receives a packet that carries the camera's address and
\* belongs to its own connection c; data and FIN are acknowledged.
ArriveAtClient(c, k, rest) ==
    /\ client' = [client EXCEPT ![c] =
          CASE k = "syn" /\ @ = "dialling" -> "open"
            [] k = "fin" /\ @ = "open"     -> "eof"
            [] k = "fin" /\ @ = "shut"     -> "gone"
            [] k = "rst"                   -> "gone"
            [] OTHER                       -> @]
    /\ wire' = IF k # "rst" THEN Append(rest, ClientPkt(c, "ack")) ELSE rest

\* It receives one that belongs to no connection, or to another one of the
\* port.  A reset is ignored; a synchronised connection answers with what it
\* has acknowledged; otherwise a reset goes to the address the packet bears.
ArriveAstray(c, k, entry, rest) ==
    LET owners == {d \in Conns : Live(d) /\ port[d] = port[c] /\ dst[d] = entry} IN
    \/ /\ k = "rst"
       /\ wire' = rest
       /\ UNCHANGED rejected
    \/ /\ k # "rst"
       /\ \E d \in owners :
            /\ client[d] # "dialling"
            /\ wire' = Append(rest, ClientPkt(d, "ack"))
       /\ UNCHANGED rejected
    \/ /\ k # "rst"
       /\ \A d \in owners : client[d] = "dialling"
       /\ wire' = Append(rest, Rejection(c, entry))
       /\ rejected' = IF owners = {} THEN rejected \cup {<<port[c], entry>>} ELSE rejected

\* Rule 2 with an entry: the source becomes (CAM, entry).  The packet reaches
\* its connection if that is what its client dialled.
RestoreReply ==
    /\ wire # << >>
    /\ ~FromClient(Head(wire))
    /\ LET c == Head(wire).conn
           entry == NatGet(nat, port[c])
       IN /\ entry # None
          /\ IF Live(c) /\ entry = dst[c]
             THEN ArriveAtClient(c, Head(wire).kind, Tail(wire)) /\ UNCHANGED rejected
             ELSE ArriveAstray(c, Head(wire).kind, entry, Tail(wire)) /\ UNCHANGED client
    /\ UNCHANGED <<port, dst, relayVars>>

\* Rule 2 without an entry: the packet leaves with the relay's own address.
\* The client's TCP knows no such connection and resets the relay's socket.
PassUnrestored ==
    /\ wire # << >>
    /\ ~FromClient(Head(wire))
    /\ LET c == Head(wire).conn
       IN /\ NatGet(nat, port[c]) = None
          /\ sock' = [sock EXCEPT ![c] = "dead"]
          /\ strayed' = IF Live(c) THEN strayed \cup {c} ELSE strayed
    /\ wire' = Tail(wire)
    /\ UNCHANGED <<client, port, dst, nat, handler, target, ended, rejected>>

----------------------------------------------------------------------------
(* Relay._handle, between its awaits.                                       *)

\* Mutant: what was looked up for a port is kept for its next connection.
TargetCached(c) ==
    LET earlier == {d \in Conns \ {c} : port[d] = port[c] /\ target[d] # None} IN
    IF earlier # {} THEN target[CHOOSE d \in earlier : TRUE]
    ELSE IF NatGet(nat, port[c]) # None THEN NatGet(nat, port[c]) ELSE DefaultTarget

\* The NAT entry if there is one, else default_target; original_dst returns
\* None on Windows.
TargetFor(c) == IF NatGet(nat, port[c]) # None THEN NatGet(nat, port[c])
                                               ELSE DefaultTarget

\* write_eof(), or close() when it was not called: a FIN leaves unless the
\* socket is dead.
SendFin(c) ==
    wire' = IF sock[c] # "dead" THEN Append(wire, RelayPkt(c, "fin")) ELSE wire

CloseSock(c) == sock' = [sock EXCEPT ![c] = IF @ = "dead" THEN @ ELSE "closed"]

HandlerLookup(c) ==
    /\ handler[c] = "accepted"
    /\ TargetFor(c) # None
    /\ handler' = [handler EXCEPT ![c] = "connecting"]
    /\ target' = [target EXCEPT ![c] = TargetFor(c)]
    /\ UNCHANGED <<client, port, dst, wire, nat, sock, ended, strayed, rejected>>

\* "no NAT entry for client port ...; dropping"
HandlerDrop(c) ==
    /\ handler[c] = "accepted"
    /\ TargetFor(c) = None
    /\ handler' = [handler EXCEPT ![c] = "dropped"]
    /\ SendFin(c)
    /\ CloseSock(c)
    /\ UNCHANGED <<client, port, dst, nat, target, ended, strayed, rejected>>

ConnectOk(c) ==
    /\ handler[c] = "connecting"
    /\ handler' = [handler EXCEPT ![c] = "relaying"]
    /\ UNCHANGED <<client, port, dst, wire, nat, sock, target, ended, strayed, rejected>>

\* close() only schedules the FIN on the event loop; the pop comes first.
ConnectFail(c) ==
    /\ handler[c] = "connecting"
    /\ handler' = [handler EXCEPT ![c] = "failed"]
    /\ nat' = NatPop(nat, port[c])
    /\ SendFin(c)
    /\ CloseSock(c)
    /\ UNCHANGED <<client, port, dst, target, ended, strayed, rejected>>

\* The s2c pump forwards what the camera sent, or fails on the dead socket.
PumpReply(c) ==
    /\ handler[c] = "relaying"
    /\ "s2c" \notin ended[c]
    /\ Len(wire) < MaxWire
    /\ IF sock[c] = "dead"
       THEN ended' = [ended EXCEPT ![c] = @ \cup {"s2c"}] /\ wire' = wire
       ELSE wire' = Append(wire, RelayPkt(c, "seg")) /\ ended' = ended
    /\ UNCHANGED <<client, port, dst, nat, sock, handler, target, strayed, rejected>>

\* The camera closed its side: write_eof on the client's writer.
PumpReplyEnd(c) ==
    /\ handler[c] = "relaying"
    /\ "s2c" \notin ended[c]
    /\ ended' = [ended EXCEPT ![c] = @ \cup {"s2c"}]
    /\ SendFin(c)
    /\ UNCHANGED <<client, port, dst, nat, sock, handler, target, strayed, rejected>>

\* Mutant: the entry goes as soon as the client's side has ended.
RequestEndPops(c) ==
    /\ handler[c] = "relaying"
    /\ "c2s" \notin ended[c]
    /\ ended' = [ended EXCEPT ![c] = @ \cup {"c2s"}]
    /\ nat' = NatPop(nat, port[c])
    /\ UNCHANGED <<client, port, dst, wire, sock, handler, target, strayed, rejected>>

\* This pump ends with the client's FIN or reset, or when the camera's socket
\* takes no more.
PumpRequestEnd(c) ==
    /\ handler[c] = "relaying"
    /\ "c2s" \notin ended[c]
    /\ ended' = [ended EXCEPT ![c] = @ \cup {"c2s"}]
    /\ UNCHANGED <<client, port, dst, wire, nat, sock, handler, target, strayed, rejected>>

\* gather returns; `finally` pops the port's entry, whoever owns it now.
HandlerFinish(c) ==
    /\ handler[c] = "relaying"
    /\ ended[c] = Pumps
    /\ handler' = [handler EXCEPT ![c] = "done"]
    /\ nat' = NatPop(nat, port[c])
    /\ CloseSock(c)
    /\ UNCHANGED <<client, port, dst, wire, target, ended, strayed, rejected>>

----------------------------------------------------------------------------
Redirect == RedirectToRelay \/ RestoreReply \/ PassUnrestored

Client(c) == \/ ClientDial(c) \/ ClientRedial(c) \/ ClientSend(c)
             \/ ClientClose(c) \/ ClientAbort(c)

Handle(c) == \/ HandlerLookup(c) \/ HandlerDrop(c)
             \/ ConnectOk(c) \/ ConnectFail(c)
             \/ PumpReply(c) \/ PumpReplyEnd(c) \/ PumpRequestEnd(c)
             \/ HandlerFinish(c)

Next == Redirect \/ \E c \in Conns : Client(c) \/ Handle(c)

Spec == Init /\ [][Next]_vars

\* The redirector thread keeps taking packets (its loop has no other wait)
\* and TCP keeps sending an unanswered SYN.  Nothing is assumed of handlers,
\* clients or the camera.
Fairness == WF_vars(Redirect) /\ \A c \in Conns : WF_vars(ClientRedial(c))

LiveSpec == Spec /\ Fairness

----------------------------------------------------------------------------
(* Properties.                                                              *)

TypeOK ==
    /\ client  \in [Conns -> ClientStates]
    /\ port    \in [Conns -> Ports]
    /\ dst     \in [Conns -> Dsts]
    /\ wire    \in Seq(Packets)
    /\ nat     \in [Ports -> Dsts \cup {None}]
    /\ sock    \in [Conns -> SockStates]
    /\ handler \in [Conns -> HandlerStates]
    /\ target  \in [Conns -> Dsts \cup {None}]
    /\ ended   \in [Conns -> SUBSET Pumps]
    /\ strayed \subseteq Conns
    /\ rejected \subseteq Ports \X Dsts

\* A connection past its SYN whose client still lives.
Established(c) == Live(c) /\ sock[c] # "none"

\* Camera port d came back into the entry of port p: after a connection of p
\* to d was gone, something of it reached the client's TCP, which reset it.
CameBack(p, d) ==
    /\ <<p, d>> \in rejected
    /\ \E c \in Conns : port[c] = p /\ dst[c] = d /\ client[c] = "gone"

\* However ports are reused and handlers overlap, the entry of a live client's
\* port is its own or has been popped; another camera port is there only
\* because a reset for an earlier, dead connection of the port was redirected
\* after the live one's SYN.
EntryHasCause ==
    \A c \in Conns : Established(c) =>
        nat[port[c]] \in {None, dst[c]} \/ CameBack(port[c], nat[port[c]])

\* Although _handle reads the table some time after the handshake, the relay
\* connects a live client to a camera port it did not dial only after such a
\* reset.
MisrouteHasCause ==
    \A c \in Conns : Live(c) /\ DefaultTarget = None =>
        target[c] \in {None, dst[c]} \/ CameBack(port[c], target[c])

\* Only a `pop` loses replies: a live client is sent a packet with the
\* relay's own address only if some handler of its port, its own included,
\* has ended.
Popped(p) == \E d \in Conns : port[d] = p /\ handler[d] \in {"failed", "done"}

StrayHasCause == \A c \in strayed : Popped(port[c])

\* Likewise the "no NAT entry" drop of a connection that went through the
\* redirector needs an earlier handler of the same port.
DropHasCause ==
    \A c \in Conns : handler[c] = "dropped" =>
        \E d \in Conns \ {c} : port[d] = port[c] /\ handler[d] \in {"failed", "done"}

\* A client that dials a camera ends up connected, although a late pop may
\* strand its handshake and a late reset may misdirect it: TCP's SYN sets the
\* entry again.  Its timer backs off, so it must not happen for ever that a SYN
\* is sent while earlier ones or their answers are still in the queue.
Unhurried(c) == client[c] = "dialling" => \A i \in 1..Len(wire) : wire[i].conn # c

DialConnects ==
    \A c \in Conns :
        []<>Unhurried(c) => (client[c] = "dialling" ~> client[c] # "dialling")
============================================================================
