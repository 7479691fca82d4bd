---------------------------- MODULE HttpDecoder ----------------------------
(***************************************************************************)
(* The HTTP half of StreamDecoder (decoders.py): on a connection it has    *)
(* decided is HTTP, two mirrored h11 state machines pair what the client   *)
(* sends with what the camera answers, and fill the log.  StreamDecoder    *)
(* extends this module with the decision, the other protocols and close(). *)
(*                                                                         *)
(* The client numbers its requests 1, 2, ... and the camera answers them   *)
(* in order, but it may answer before a request is complete ("early"), and *)
(* the client may send a request before the last one is answered           *)
(* ("pipelined"): `overlap` records which has happened.  The relay feeds a *)
(* piece only after what its sender had received (CauseBeforeEffect of     *)
(* RelayPump).  Body data is part of the end that follows it.              *)
(*                                                                         *)
(* _http_feed is one call per piece fed; its loop takes one h11 event per  *)
(* step, and no other step comes between.  h11 is modelled from how the    *)
(* decoder uses it: transitions, PAUSED, and the two ways an event can     *)
(* fail (a protocol error, or an AttributeError when a request meets a     *)
(* server that is past IDLE).  The end of a stream is never fed to it.     *)
(***************************************************************************)
EXTENDS Naturals, Sequences, SequencesExt

CONSTANTS
    MaxReq,     \* bound: requests the client sends
    Framings,   \* of answers: subset of {"sized", "untilClose", "http10"}
    Upgrades    \* whether a request may ask for another protocol (WebSocket)

ASSUME HttpAssumption ==
    /\ MaxReq \in Nat
    /\ Framings \subseteq {"sized", "untilClose", "http10"}
    /\ Upgrades \in BOOLEAN

VARIABLES
    heads, ends,        \* requests the client has begun, has completed
    asked,              \* the last request that asked for an upgrade, or 0
    answered, finished, \* answers the camera has begun, has completed
    informed,           \* the last request answered with a 100 so far
    framing,            \* of the last answer
    switched,           \* the camera has answered 101
    overlap,            \* history: subset of {"early", "pipelined"}
    feeding,            \* direction of the _http_feed call in progress, or "none"
    cbuf, sbuf,         \* receive buffers of the two h11 connections
    c, s,               \* _cconn (SERVER role) and _sconn (CLIENT role)
    kind,               \* none (undecided), http, rtsp, tls or raw
    building,           \* _building: id and request, or NoRequest
    awaiting,           \* _awaiting: ids
    responding,         \* _responding: an id, or 0
    nextId,             \* of the store
    log,                \* the events this connection has added
    noted,              \* ids noted "connection closed before response"
    closed              \* close() was called

clientVars == <<heads, ends, asked>>
cameraVars == <<answered, finished, informed, framing, switched>>
netVars    == <<clientVars, cameraVars, overlap>>
h11Vars    == <<cbuf, sbuf, c, s>>
eventVars  == <<kind, building, awaiting, responding, nextId, log, noted, closed>>
vars       == <<netVars, feeding, h11Vars, eventVars>>

NoRequest == [id |-> 0, of |-> 0]

\* An event: its id, the request it records (0: none), the answer whose status
\* it carries (0: none), whether that answer's body is recorded.
Entry(id, t, of) == [id |-> id, tag |-> t, of |-> of, ans |-> 0, body |-> FALSE]

----------------------------------------------------------------------------
(* h11: a connection's two roles and the pending offer to switch protocols. *)

IdleMachine == [client |-> "IDLE", server |-> "IDLE", offer |-> FALSE]

\* State-triggered transitions.
Settle(m) ==
    LET client == CASE m.client = "DONE" /\ m.offer -> "MIGHT_SWITCH"
                    [] m.client = "MIGHT_SWITCH" /\ m.server = "SWITCHED" -> "SWITCHED"
                    [] m.client = "MIGHT_SWITCH" /\ ~m.offer -> "DONE"
                    [] m.client = "DONE" /\ m.server = "ERROR" -> "MUST_CLOSE"
                    [] OTHER -> m.client
        server == IF m.client = "ERROR" /\ m.server = "DONE" THEN "MUST_CLOSE"
                                                            ELSE m.server
    IN [m EXCEPT !.client = client, !.server = server]

\* Whether a machine takes an event, refuses it, or breaks on it.
Verdict(m, t) ==
    CASE t.kind = "head"   -> IF m.client # "IDLE" THEN "protocol"
                              ELSE IF m.server # "IDLE" THEN "bug" ELSE "ok"
      [] t.kind = "end"    -> IF m.client = "SEND_BODY" THEN "ok" ELSE "protocol"
      [] t.kind = "info"   -> IF m.server = "SEND_RESPONSE" THEN "ok" ELSE "protocol"
      [] t.kind = "switch" -> IF m.server = "SEND_RESPONSE" /\ m.offer THEN "ok"
                                                                     ELSE "protocol"
      [] t.kind = "answer" -> IF m.server \in {"IDLE", "SEND_RESPONSE"} THEN "ok"
                                                                      ELSE "protocol"
      [] t.kind = "done"   -> IF m.server = "SEND_BODY" THEN "ok" ELSE "protocol"

Take(m, t) ==
    Settle(CASE t.kind = "head"   -> [client |-> "SEND_BODY", server |-> "SEND_RESPONSE",
                                      offer |-> t.opt = "upgrade"]
             [] t.kind = "end"    -> [m EXCEPT !.client = "DONE"]
             [] t.kind = "info"   -> m
             [] t.kind = "switch" -> [m EXCEPT !.server = "SWITCHED"]
             [] t.kind = "answer" -> [m EXCEPT !.server = "SEND_BODY", !.offer = FALSE]
             [] t.kind = "done"   -> [m EXCEPT !.server = "DONE"])

FailClient(m) == Settle([m EXCEPT !.client = "ERROR"])
FailServer(m) == Settle([m EXCEPT !.server = "ERROR"])

\* next_event is NEED_DATA or PAUSED.
Waits(role, buf) ==
    \/ role \in {"DONE", "MIGHT_SWITCH", "SWITCHED"}
    \/ buf = << >> /\ role # "ERROR"

----------------------------------------------------------------------------
Init ==
    /\ heads = 0 /\ ends = 0 /\ asked = 0
    /\ answered = 0 /\ finished = 0 /\ informed = 0
    /\ framing = "sized" /\ switched = FALSE /\ overlap = {}
    /\ feeding = "none" /\ cbuf = << >> /\ sbuf = << >>
    /\ c = IdleMachine /\ s = IdleMachine
    /\ kind = "none" /\ building = NoRequest /\ awaiting = << >> /\ responding = 0
    /\ nextId = 1 /\ log = << >> /\ noted = {} /\ closed = FALSE

----------------------------------------------------------------------------
(* What the two peers do, and its piece of the stream fed to h11.           *)

Quiet == feeding = "none" /\ ~closed

Token(k, n, o) == [kind |-> k, n |-> n, opt |-> o]

HttpFeedC2S(t) ==
    /\ cbuf' = Append(cbuf, t) /\ feeding' = "c2s"
    /\ UNCHANGED <<sbuf, c, s>>

HttpFeedS2C(t) ==
    /\ sbuf' = Append(sbuf, t) /\ feeding' = "s2c"
    /\ UNCHANGED <<cbuf, c, s>>

\* A client that asked for an upgrade waits for the answer.
BeginRequest(o) ==
    /\ Quiet
    /\ heads = ends /\ heads < MaxReq
    /\ ~switched /\ (asked # 0 => asked <= finished)
    /\ ~(framing = "untilClose" /\ answered > 0)
    /\ heads' = heads + 1
    /\ asked' = IF o = "upgrade" THEN heads + 1 ELSE asked
    /\ overlap' = IF finished < heads THEN overlap \cup {"pipelined"} ELSE overlap
    /\ UNCHANGED <<ends, cameraVars>>

CompleteRequest ==
    /\ Quiet
    /\ ends < heads
    /\ ends' = heads
    /\ UNCHANGED <<heads, asked, cameraVars, overlap>>

\* The camera has received the head of a request and answers it.
MayAnswer == Quiet /\ answered = finished /\ answered < heads

Inform ==
    /\ MayAnswer /\ informed <= answered
    /\ informed' = answered + 1
    /\ UNCHANGED <<clientVars, answered, finished, framing, switched, overlap>>

SwitchProtocols ==
    /\ MayAnswer /\ asked = answered + 1 /\ ends = asked
    /\ switched' = TRUE
    /\ answered' = answered + 1 /\ finished' = finished + 1
    /\ UNCHANGED <<clientVars, informed, framing, overlap>>

BeginAnswer(f) ==
    /\ MayAnswer
    /\ answered' = answered + 1
    /\ framing' = f
    /\ overlap' = IF ends <= answered THEN overlap \cup {"early"} ELSE overlap
    /\ UNCHANGED <<clientVars, finished, informed, switched>>

CompleteAnswer ==
    /\ Quiet
    /\ finished < answered /\ framing # "untilClose"
    /\ finished' = answered
    /\ UNCHANGED <<clientVars, answered, informed, framing, switched, overlap>>

----------------------------------------------------------------------------
(* _http_feed: one h11 event of the loop.                                   *)

\* The call returns: nothing more to take.
FeedEnds ==
    /\ \/ feeding = "c2s" /\ Waits(c.client, cbuf)
       \/ feeding = "s2c" /\ Waits(s.server, sbuf)
    /\ feeding' = "none"
    /\ UNCHANGED <<netVars, h11Vars, eventVars>>

\* Mutant: an answered request stays in the queue.
PopNone(q) == q

\* LogStore.new_id; _awaiting.popleft() if there is one.
AfterNewId(id) == id + 1
PopOldest(q)   == IF q = << >> THEN q ELSE Tail(q)

\* How handling an event ends, with the log and the counter it left: a
\* protocol error degrades the connection to raw, any other exception leaves
\* _http_feed (and is reported by the pump).
Conclude(out, l, id) ==
    /\ kind' = IF out = "protocol" THEN "raw" ELSE kind
    /\ log' = IF out = "protocol" THEN Append(l, Entry(id, "failed", 0)) ELSE l
    /\ nextId' = IF out = "protocol" THEN AfterNewId(id) ELSE id
    /\ feeding' = IF out = "ok" THEN feeding ELSE "none"

Parsed(k) ==
    \/ /\ feeding = "c2s" /\ ~Waits(c.client, cbuf) /\ cbuf # << >>
       /\ Head(cbuf).kind = k /\ Verdict(c, Head(cbuf)) = "ok"
    \/ /\ feeding = "s2c" /\ ~Waits(s.server, sbuf) /\ sbuf # << >>
       /\ Head(sbuf).kind = k /\ Verdict(s, Head(sbuf)) = "ok"

\* next_event raises: the machine that parses goes to ERROR.
ParseFails ==
    /\ \/ /\ feeding = "c2s" /\ ~Waits(c.client, cbuf)
          /\ c.client = "ERROR" \/ Verdict(c, Head(cbuf)) # "ok"
          /\ c' = FailClient(c) /\ s' = s
          /\ Conclude(IF c.client = "ERROR" THEN "protocol" ELSE Verdict(c, Head(cbuf)),
                      log, nextId)
       \/ /\ feeding = "s2c" /\ ~Waits(s.server, sbuf)
          /\ s.server = "ERROR" \/ Verdict(s, Head(sbuf)) # "ok"
          /\ s' = FailServer(s) /\ c' = c
          /\ Conclude(IF s.server = "ERROR" THEN "protocol" ELSE Verdict(s, Head(sbuf)),
                      log, nextId)
    /\ UNCHANGED <<netVars, cbuf, sbuf, building, awaiting, responding, noted, closed>>

\* Mutant: keep-alive is forgotten.
CycleNever(m) == m

\* _maybe_next_cycle, for each machine.
Cycle(m) == IF m.client = "DONE" /\ m.server = "DONE" THEN IdleMachine ELSE m

\* self._sconn.send(ev) of a client event.
SentToS(t) == IF Verdict(s, t) = "ok" THEN Take(s, t) ELSE FailClient(s)

\* Mutant: answers are not mirrored.
SentToCNot(t) == c

\* self._cconn.send(ev) of a camera event: an HTTP/1.0 answer is refused after
\* the transition (and keep-alive is off, which no longer matters: the
\* connection is raw).
OutcomeAtC(t) == IF t.opt = "http10" THEN "protocol" ELSE Verdict(c, t)
SentToC(t)    == IF Verdict(c, t) # "ok" THEN FailServer(c)
                 ELSE IF t.opt = "http10" THEN FailServer(Take(c, t)) ELSE Take(c, t)

OnRequest ==
    /\ Parsed("head")
    /\ LET t == Head(cbuf) IN
        /\ building' = [id |-> nextId, of |-> t.n]
        /\ c' = Take(c, t) /\ s' = SentToS(t)
        /\ Conclude(Verdict(s, t), log, AfterNewId(nextId))
    /\ cbuf' = Tail(cbuf)
    /\ UNCHANGED <<netVars, sbuf, awaiting, responding, noted, closed>>

\* The request is complete: it enters the log and waits for its answer.
OnRequestEnd ==
    /\ Parsed("end")
    /\ LET t == Head(cbuf)
           out == Verdict(s, t)
           l == IF building = NoRequest THEN log
                ELSE Append(log, Entry(building.id, "http", building.of))
       IN /\ awaiting' = IF building = NoRequest THEN awaiting
                         ELSE Append(awaiting, building.id)
          /\ c' = IF out = "ok" THEN Cycle(Take(c, t)) ELSE Take(c, t)
          /\ s' = IF out = "ok" THEN Cycle(SentToS(t)) ELSE SentToS(t)
          /\ Conclude(out, l, nextId)
    /\ building' = NoRequest
    /\ cbuf' = Tail(cbuf)
    /\ UNCHANGED <<netVars, sbuf, responding, noted, closed>>

\* Mutant: a 1xx answer is taken for the answer.
OnInformationalAnswers ==
    /\ Parsed("info") \/ Parsed("switch")
    /\ s' = Take(s, Head(sbuf))
    /\ log' = [i \in 1..Len(log) |->
                 IF awaiting # << >> /\ log[i].id = Head(awaiting)
                 THEN [log[i] EXCEPT !.ans = Head(sbuf).n] ELSE log[i]]
    /\ awaiting' = PopOldest(awaiting)
    /\ sbuf' = Tail(sbuf)
    /\ UNCHANGED <<netVars, feeding, cbuf, c, kind, building, responding, nextId,
                   noted, closed>>

\* A 1xx answer is neither recorded nor sent to the other machine.
OnInformational ==
    /\ Parsed("info") \/ Parsed("switch")
    /\ s' = Take(s, Head(sbuf))
    /\ sbuf' = Tail(sbuf)
    /\ UNCHANGED <<netVars, feeding, cbuf, c, eventVars>>

\* An answer goes to the request that has waited longest; without one it
\* makes an event of its own.
OnResponse ==
    /\ Parsed("answer")
    /\ LET t == Head(sbuf)
           phantom == awaiting = << >>
           id == IF phantom THEN nextId ELSE Head(awaiting)
           l == IF phantom THEN Append(log, Entry(id, "http", 0)) ELSE log
       IN /\ responding' = id
          /\ awaiting' = PopOldest(awaiting)
          /\ s' = Take(s, t) /\ c' = SentToC(t)
          /\ Conclude(OutcomeAtC(t),
                      [i \in 1..Len(l) |-> IF l[i].id = id THEN [l[i] EXCEPT !.ans = t.n]
                                                           ELSE l[i]],
                      IF phantom THEN AfterNewId(nextId) ELSE nextId)
    /\ sbuf' = Tail(sbuf)
    /\ UNCHANGED <<netVars, cbuf, building, noted, closed>>

OnResponseEnd ==
    /\ Parsed("done")
    /\ LET t == Head(sbuf)
           out == OutcomeAtC(t)
       IN /\ s' = IF out = "ok" THEN Cycle(Take(s, t)) ELSE Take(s, t)
          /\ c' = IF out = "ok" THEN Cycle(SentToC(t)) ELSE SentToC(t)
          /\ Conclude(out,
                      [i \in 1..Len(log) |-> IF log[i].id = responding
                                             THEN [log[i] EXCEPT !.body = TRUE] ELSE log[i]],
                      nextId)
    /\ responding' = 0
    /\ sbuf' = Tail(sbuf)
    /\ UNCHANGED <<netVars, cbuf, building, awaiting, noted, closed>>

Decode == \/ FeedEnds \/ ParseFails
          \/ OnRequest \/ OnRequestEnd
          \/ OnInformational \/ OnResponse \/ OnResponseEnd
============================================================================
