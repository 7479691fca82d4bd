------------------------ MODULE StreamDecoderProofs ------------------------
(***************************************************************************)
(* Proofs about StreamDecoder for any number of requests, kinds of answers *)
(* and protocols.                                                          *)
(*                                                                         *)
(* The invariant has five parts.  Sound is what holds whatever the peers   *)
(* do: how far the camera can be behind the client (Wire), how the         *)
(* protocol follows from what has come so far (Decided), and that ids are  *)
(* recorded once and awaiting lists unanswered ones (Ids, Lists).          *)
(* Lockstep, for an HTTP connection without overlap, and Paired, for RTSP  *)
(* in order, say what both machines, the queue and the log are at every    *)
(* point of a call.  HelloRead is about TLS, LeftExact about what was      *)
(* recorded before a connection became raw.                                *)
(***************************************************************************)
EXTENDS StreamDecoder, SequenceTheorems, TLAPS

Options      == {"plain", "upgrade", "unreadable", "sized", "untilClose", "http10"}
ClientTokens == [kind : {"head", "end"}, n : 1..MaxReq, opt : Options]
CameraTokens == [kind : {"info", "switch", "answer", "done"}, n : 1..MaxReq, opt : Options]
Machines     == [client : Roles, server : Roles, offer : BOOLEAN]

\* The types of what the peers have done and of the decoder's state, with the
\* bounds that TypeOK leaves out.
NetTyped ==
    /\ ends \in 0..MaxReq /\ heads \in {ends, ends + 1} /\ heads <= MaxReq
    /\ finished \in 0..heads /\ answered \in {finished, finished + 1} /\ answered <= heads
    /\ asked \in 0..heads /\ informed \in 0..MaxReq
    /\ framing \in {"sized", "untilClose", "http10"} /\ switched \in BOOLEAN
    /\ overlap \subseteq {"early", "pipelined"}
    /\ begun \subseteq {"few", "part"} /\ extra \subseteq Extras
    /\ dialect \in {"http", "rtsp", "tls", "other"} /\ fits \in BOOLEAN

DecoderTyped ==
    /\ feeding \in {"none", "c2s", "s2c"} /\ closed \in BOOLEAN
    /\ c \in Machines /\ s \in Machines
    /\ cbuf \in Seq(ClientTokens) /\ sbuf \in Seq(CameraTokens)
    /\ kind \in {"none", "http", "rtsp", "tls", "raw"} /\ nextId \in Nat \ {0}
    /\ building \in [id : 0..nextId, of : 0..MaxReq]
    /\ awaiting \in Seq(1..nextId) /\ responding \in 0..nextId /\ rtspAwait \in Seq(1..nextId)
    /\ log \in Seq(Entries) /\ noted \subseteq 1..nextId
    /\ sniff \in BOOLEAN /\ glued \in BOOLEAN /\ stuck \subseteq {"c2s", "s2c"}

----------------------------------------------------------------------------
\* The peers.
Wire ==
    /\ "early" \notin overlap => answered <= ends
    /\ "pipelined" \notin overlap => heads <= finished + 1
    /\ asked = 0 \/ asked <= finished \/ asked = heads
    /\ switched => asked = heads /\ ends = heads /\ finished = heads
    /\ dialect # "http" => framing = "sized" /\ ~switched /\ asked = 0
    /\ extra \cap {"own", "reply", "media"} # {} => dialect = "rtsp" /\ heads > 0
    /\ "reply" \in extra => "own" \in extra
    /\ "part" \in begun => dialect \in {"http", "rtsp"}

Initial == /\ cbuf = << >> /\ sbuf = << >> /\ c = IdleMachine /\ s = IdleMachine
           /\ building = NoRequest /\ awaiting = << >> /\ responding = 0

RawCause ==
    \/ dialect = "other"
    \/ dialect \in {"http", "rtsp"} /\ (~fits \/ "part" \in begun)
    \/ "banner" \in extra
    \/ closed /\ heads = 0

\* The decision.
Decided ==
    /\ kind = "none" => /\ heads = 0 /\ "part" \notin begun /\ "banner" \notin extra
                        /\ log = << >> /\ (begun # {} /\ ~closed => sniff)
    /\ sniff => kind = "none" /\ ~closed /\ begun # {}
    /\ kind \in {"http", "rtsp"} => dialect = kind /\ heads > 0
    /\ kind = "tls" => dialect = "tls" /\ (heads > 0 => log # << >>) /\ (heads > 0 \/ closed)
    /\ kind \notin {"http", "raw"} => Initial
    /\ feeding # "none" => kind = "http"
    /\ closed => feeding = "none"
    /\ kind = "raw" => \/ RawCause
                       \/ /\ \E i \in 1..Len(log) : log[i].tag = "failed"
                          /\ \A i \in 1..Len(log) : log[i].tag # "raw"
    /\ kind = "http" => \A i \in 1..Len(log) : log[i].tag = "http"
    /\ kind = "rtsp" => \A i \in 1..Len(log) : log[i].tag = "rtsp"
    /\ kind = "tls" => \A i \in 1..Len(log) :
                         log[i].tag = "tls" \/ (log[i].tag = "raw" /\ closed /\ heads = 0)
    /\ kind # "rtsp" => rtspAwait = << >>

\* Ids.
Unique(l, id) ==
    /\ \A i, j \in 1..Len(l) : l[i].id = l[j].id => i = j
    /\ \A i \in 1..Len(l) : l[i].id < id

Ids ==
    /\ Unique(log, nextId)
    /\ building = NoRequest \/ (building.id \in 1..(nextId - 1) /\ building.of # 0)
    /\ \A i \in 1..Len(log) : log[i].id # building.id
    /\ responding # 0 => \E i \in 1..Len(log) :
          log[i].id = responding /\ log[i].tag = "http" /\ log[i].ans # 0

\* A queue of ids is exactly what a log has unanswered, in the same order.
Open(l) == {i \in 1..Len(l) : l[i].tag = "http" /\ l[i].ans = 0}
Lists(q, l) ==
    /\ Range(q) = {l[i].id : i \in Open(l)}
    /\ \A j, k \in 1..Len(q), p, r \in Open(l) :
          l[p].id = q[j] /\ l[r].id = q[k] => (j < k <=> p < r)

----------------------------------------------------------------------------
(* HTTP without overlap.                                                    *)

\* Both machines when h heads, e ends, a answers and f ends of answers are fed;
\* up says whether the last request asked for an upgrade.
Machine(up, h, e, a, f) ==
    IF h = f THEN IdleMachine
    ELSE IF e < h THEN [client |-> "SEND_BODY", server |-> "SEND_RESPONSE", offer |-> up]
    ELSE IF a < h THEN [client |-> IF up THEN "MIGHT_SWITCH" ELSE "DONE",
                        server |-> "SEND_RESPONSE", offer |-> up]
    ELSE [client |-> "DONE", server |-> "SEND_BODY", offer |-> FALSE]

\* And what the decoder has recorded then: the log, who waits, what is being
\* built and what is being answered.
Records(l, q, of, r, h, e, a, f) ==
    /\ Len(l) = e
    /\ \A i \in 1..e : l[i].of = i
    /\ \A i \in 1..e : l[i].ans = IF i <= a THEN i ELSE 0
    /\ \A i \in 1..f : l[i].body
    /\ q = IF a < e THEN <<l[e].id>> ELSE << >>
    /\ of = IF e < h THEN h ELSE 0
    /\ r = IF f < a THEN l[a].id ELSE 0

Fed(h, e, a, f) ==
    /\ c = Machine(asked = h, h, e, a, f) /\ s = c
    /\ Records(log, awaiting, building.of, responding, h, e, a, f)

AtRest == ~switched /\ cbuf = << >> /\ sbuf = << >> /\ Fed(heads, ends, answered, finished)

ClientTold(t) == feeding = "c2s" /\ ~switched /\ cbuf = <<t>> /\ sbuf = << >>
CameraTold(t) == feeding = "s2c" /\ cbuf = << >> /\ sbuf = <<t>>

HeadTold   == /\ ClientTold(Token("head", heads, IF asked = heads THEN "upgrade" ELSE "plain"))
              /\ ends < heads /\ answered = finished /\ Fed(heads - 1, ends, answered, finished)
EndTold    == /\ ClientTold(Token("end", heads, "plain"))
              /\ ends = heads /\ answered = finished /\ answered < heads
              /\ Fed(heads, ends - 1, answered, finished)
InfoTold   == /\ CameraTold(Token("info", answered + 1, "plain")) /\ ~switched
              /\ answered = finished /\ answered < heads
              /\ Fed(heads, ends, answered, finished)
SwitchTold == /\ CameraTold(Token("switch", heads, "plain")) /\ switched
              /\ Fed(heads, ends, answered - 1, finished - 1)
AnswerTold == /\ CameraTold(Token("answer", answered, framing)) /\ ~switched
              /\ finished < answered /\ Fed(heads, ends, answered - 1, finished)
DoneTold   == /\ CameraTold(Token("done", finished, "plain")) /\ ~switched
              /\ heads = finished
              /\ Fed(heads, ends, answered, finished - 1)

Switched == /\ switched /\ cbuf = << >> /\ sbuf = << >>
            /\ c = [client |-> "MIGHT_SWITCH", server |-> "SEND_RESPONSE", offer |-> TRUE]
            /\ s = [client |-> "SWITCHED", server |-> "SWITCHED", offer |-> TRUE]
            /\ Records(log, awaiting, building.of, responding,
                       heads, ends, answered - 1, finished - 1)

Lockstep ==
    kind = "http" /\ overlap = {} =>
        \/ AtRest \/ HeadTold \/ EndTold \/ InfoTold \/ SwitchTold \/ AnswerTold \/ DoneTold
        \/ Switched

----------------------------------------------------------------------------
(* RTSP, as long as the answers come in order.                              *)

InTurn == kind = "rtsp" /\ "early" \notin overlap /\ {"own", "reply"} \cap extra = {}

Paired ==
    /\ kind = "none" => ~glued
    /\ InTurn =>
        /\ Len(log) <= ends /\ ("c2s" \notin stuck => Len(log) = ends)
        /\ \A i \in 1..Len(log) : log[i].of = i /\ log[i].ans \in {0, i}
        /\ glued => "media" \in extra
        /\ stuck = {} =>
              /\ Len(rtspAwait) = ends - finished
              /\ \A k \in 1..Len(rtspAwait) : rtspAwait[k] = log[finished + k].id
              /\ \A i \in 1..finished : log[i].body /\ (log[i].ans = i \/ "media" \in extra)

HelloRead == kind = "tls" /\ ends > 0 /\ stuck = {} => log[1].body

\* A connection that an error made raw has been paired exactly before.
LeftExact == kind = "raw" => PairedExactly

Sound == /\ NetTyped /\ DecoderTyped /\ Wire /\ Decided /\ Ids /\ Lists(awaiting, log)
         /\ closed => noted = Range(awaiting)

IInv == Sound /\ Lockstep /\ Paired /\ HelloRead /\ LeftExact

----------------------------------------------------------------------------
(* The machines of h11.                                                     *)

\* Whatever a machine takes, and however it fails, its states are h11's.
LEMMA SettleTyped ==
  ASSUME NEW m \in Machines
  PROVE  Settle(m) \in Machines
  BY DEF Settle, Machines, Roles

LEMMA TakeTyped ==
  ASSUME NEW m \in Machines, NEW t \in ClientTokens \cup CameraTokens
  PROVE  Take(m, t) \in Machines
  <1>1. t.kind \in {"head", "end", "info", "switch", "answer", "done"}
    BY DEF ClientTokens, CameraTokens
  <1>2. (t.opt = "upgrade") \in BOOLEAN OBVIOUS
  <1> DEFINE u == t.opt = "upgrade"
  <1>3. /\ [client |-> "SEND_BODY", server |-> "SEND_RESPONSE", offer |-> u] \in Machines
        /\ [m EXCEPT !.client = "DONE"] \in Machines
        /\ [m EXCEPT !.server = "SWITCHED"] \in Machines
        /\ [m EXCEPT !.server = "SEND_BODY", !.offer = FALSE] \in Machines
        /\ [m EXCEPT !.server = "DONE"] \in Machines
    BY <1>2 DEF Machines, Roles
  <1> HIDE DEF u
  <1> DEFINE n == CASE t.kind = "head"   -> [client |-> "SEND_BODY", server |-> "SEND_RESPONSE",
                                             offer |-> t.opt = "upgrade"]
                    [] t.kind = "end"    -> [m EXCEPT !.client = "DONE"]
                    [] t.kind = "info"   -> m
                    [] t.kind = "switch" -> [m EXCEPT !.server = "SWITCHED"]
                    [] t.kind = "answer" -> [m EXCEPT !.server = "SEND_BODY", !.offer = FALSE]
                    [] t.kind = "done"   -> [m EXCEPT !.server = "DONE"]
  <1>4. n \in Machines BY <1>1, <1>3 DEF u
  <1>5. Settle(n) \in Machines BY <1>4, SettleTyped
  <1> QED BY <1>5 DEF Take

LEMMA FailTyped ==
  ASSUME NEW m \in Machines
  PROVE  FailClient(m) \in Machines /\ FailServer(m) \in Machines /\ Cycle(m) \in Machines
  <1>1. [m EXCEPT !.client = "ERROR"] \in Machines /\ [m EXCEPT !.server = "ERROR"] \in Machines
    BY DEF Machines, Roles
  <1>2. Cycle(m) \in Machines BY DEF Cycle, IdleMachine, Machines, Roles
  <1> QED BY <1>1, <1>2, SettleTyped DEF FailClient, FailServer

LEMMA SentTyped ==
  ASSUME c \in Machines, s \in Machines, NEW t \in ClientTokens \cup CameraTokens
  PROVE  SentToS(t) \in Machines /\ SentToC(t) \in Machines
  BY TakeTyped, FailTyped DEF SentToS, SentToC

\* What OnRequest and its companions call the outcome.
LEMMA OutcomeTyped ==
  ASSUME NEW m \in Machines, NEW t \in ClientTokens \cup CameraTokens
  PROVE  Verdict(m, t) \in {"ok", "protocol", "bug"}
  <1>1. t.kind \in {"head", "end", "info", "switch", "answer", "done"}
    BY DEF ClientTokens, CameraTokens
  <1> QED BY <1>1 DEF Verdict

----------------------------------------------------------------------------
(* Logs and queues.                                                         *)

\* One more element.
LEMMA Appended ==
  ASSUME NEW S, NEW q \in Seq(S), NEW e \in S
  PROVE  /\ Append(q, e) \in Seq(S)
         /\ Len(q) \in Nat /\ Len(Append(q, e)) = Len(q) + 1
         /\ \A k \in 1..Len(q) : Append(q, e)[k] = q[k]
         /\ Append(q, e)[Len(q) + 1] = e
         /\ \A k \in 1..Len(Append(q, e)) : k \in 1..Len(q) \/ k = Len(q) + 1
  OBVIOUS

\* The head and the rest.
LEMMA Removed ==
  ASSUME NEW S, NEW q \in Seq(S), q # << >>
  PROVE  /\ Head(q) = q[1] /\ Head(q) \in S /\ Tail(q) \in Seq(S)
         /\ Len(q) \in Nat /\ 0 < Len(q) /\ Len(Tail(q)) = Len(q) - 1
         /\ \A k \in 1..Len(Tail(q)) : Tail(q)[k] = q[k + 1]
  OBVIOUS

\* Element by element.
LEMMA MappedTyped ==
  ASSUME NEW S, NEW n \in Nat, NEW f \in [1..n -> S]
  PROVE  f \in Seq(S) /\ Len(f) = n
  OBVIOUS

\* What Range has are the elements.
LEMMA RangeIs ==
  ASSUME NEW S, NEW q \in Seq(S)
  PROVE  Range(q) = {q[k] : k \in 1..Len(q)}
  BY DEF Range

LEMMA EntryTyped ==
  ASSUME NEW l \in Seq(Entries), NEW i \in 1..Len(l)
  PROVE  /\ l[i] \in Entries
         /\ l[i].id \in Nat /\ l[i].id # 0 /\ l[i].of \in 0..MaxReq /\ l[i].ans \in 0..MaxReq
         /\ l[i].body \in BOOLEAN /\ l[i].tag \in {"http", "rtsp", "tls", "raw", "failed"}
  <1>1. l[i] \in Entries OBVIOUS
  <1> QED BY <1>1 DEF Entries

LEMMA NewEntry ==
  ASSUME NEW id \in Nat \ {0}, NEW tag \in {"http", "rtsp", "tls", "raw", "failed"},
         NEW of \in 0..MaxReq
  PROVE  /\ Entry(id, tag, of) \in Entries
         /\ Entry(id, tag, of).id = id /\ Entry(id, tag, of).tag = tag
         /\ Entry(id, tag, of).of = of
         /\ Entry(id, tag, of).ans = 0 /\ Entry(id, tag, of).body = FALSE
  BY HttpAssumption DEF Entry, Entries

\* A log in which only what is not HTTP has changed, or bodies.
Amends(l, m) ==
    /\ Len(m) = Len(l)
    /\ \A i \in 1..Len(l) : /\ m[i].id = l[i].id /\ m[i].tag = l[i].tag /\ m[i].of = l[i].of
                            /\ l[i].tag = "http" => m[i].ans = l[i].ans

LEMMA UniqueAppend ==
  ASSUME NEW l \in Seq(Entries), NEW id \in Nat, Unique(l, id), NEW e \in Entries,
         NEW m \in Nat, e.id < m, id <= m, \A i \in 1..Len(l) : l[i].id # e.id
  PROVE  Unique(Append(l, e), m)
  <1> DEFINE n == Len(l)
             k == Append(l, e)
  <1>1. /\ n \in Nat /\ Len(k) = n + 1 /\ k[n + 1] = e /\ \A i \in 1..n : k[i] = l[i]
        /\ \A i \in 1..Len(k) : i \in 1..n \/ i = n + 1
    BY Appended
  <1>2. \A i \in 1..n : l[i].id \in Nat /\ l[i].id < id
    BY EntryTyped DEF Unique
  <1>3. \A i, j \in 1..n : l[i].id = l[j].id => i = j
    BY DEF Unique
  <1> HIDE DEF n, k
  <1>4. \A i \in 1..Len(k) : k[i].id < m
    BY <1>1, <1>2
  <1>5. \A i \in 1..n : l[i].id # e.id BY DEF n
  <1>6. \A i, j \in 1..Len(k) : k[i].id = k[j].id => i = j
    <2> TAKE i, j \in 1..Len(k)
    <2>1. CASE i \in 1..n /\ j \in 1..n BY <2>1, <1>1, <1>3
    <2>2. CASE i \in 1..n /\ j = n + 1 BY <2>2, <1>1, <1>5
    <2>3. CASE i = n + 1 /\ j \in 1..n BY <2>3, <1>1, <1>5
    <2>4. CASE i = n + 1 /\ j = n + 1 BY <2>4
    <2> QED BY <2>1, <2>2, <2>3, <2>4, <1>1
  <1> QED BY <1>4, <1>6 DEF Unique, k

LEMMA UniqueAmends ==
  ASSUME NEW l \in Seq(Entries), NEW m, NEW id, Unique(l, id), Amends(l, m)
  PROVE  Unique(m, id)
  BY DEF Unique, Amends

LEMMA ListsAmends ==
  ASSUME NEW l \in Seq(Entries), NEW m, NEW q, Lists(q, l), Amends(l, m)
  PROVE  Lists(q, m)
  <1>1. Open(m) = Open(l) BY DEF Open, Amends
  <1>2. \A i \in Open(l) : m[i].id = l[i].id BY DEF Open, Amends
  <1>3. {m[i].id : i \in Open(m)} = {l[i].id : i \in Open(l)} BY <1>1, <1>2
  <1> QED BY <1>1, <1>2, <1>3 DEF Lists

\* An entry that is not open changes nothing.
LEMMA ListsAppendOther ==
  ASSUME NEW l \in Seq(Entries), NEW q, Lists(q, l), NEW e \in Entries,
         e.tag # "http" \/ e.ans # 0
  PROVE  Lists(q, Append(l, e))
  <1> DEFINE n == Len(l)
             k == Append(l, e)
  <1>1. /\ n \in Nat /\ Len(k) = n + 1 /\ k[n + 1] = e /\ \A i \in 1..n : k[i] = l[i]
        /\ \A i \in 1..Len(k) : i \in 1..n \/ i = n + 1
    BY Appended
  <1>2. Open(l) = {i \in 1..n : l[i].tag = "http" /\ l[i].ans = 0}
    BY DEF Open
  <1> HIDE DEF n, k
  <1>3. Open(k) = Open(l)
    BY <1>1, <1>2 DEF Open
  <1>4. \A i \in Open(l) : k[i].id = l[i].id BY <1>1, <1>2
  <1>5. {k[i].id : i \in Open(k)} = {l[i].id : i \in Open(l)} BY <1>3, <1>4
  <1>6. Lists(q, k) BY <1>3, <1>4, <1>5 DEF Lists
  <1> QED BY <1>6 DEF k

\* An open entry goes to the end of both.
LEMMA ListsAppendOpen ==
  ASSUME NEW N, NEW q \in Seq(N), NEW l \in Seq(Entries), Lists(q, l),
         NEW e \in Entries, e.tag = "http", e.ans = 0, e.id \in N,
         \A i \in 1..Len(l) : l[i].id # e.id
  PROVE  Lists(Append(q, e.id), Append(l, e))
  <1> DEFINE n == Len(l)
             k == Append(l, e)
             o == Len(q)
             r == Append(q, e.id)
  <1>1. /\ n \in Nat /\ Len(k) = n + 1 /\ k[n + 1] = e /\ \A i \in 1..n : k[i] = l[i]
        /\ \A i \in 1..Len(k) : i \in 1..n \/ i = n + 1
    BY Appended
  <1>2. /\ o \in Nat /\ Len(r) = o + 1 /\ r[o + 1] = e.id /\ \A i \in 1..o : r[i] = q[i]
        /\ \A i \in 1..Len(r) : i \in 1..o \/ i = o + 1
        /\ Range(r) = {r[i] : i \in 1..Len(r)} /\ Range(q) = {q[i] : i \in 1..o}
    <2>1. /\ o \in Nat /\ Len(r) = o + 1 /\ r[o + 1] = e.id /\ \A i \in 1..o : r[i] = q[i]
          /\ \A i \in 1..Len(r) : i \in 1..o \/ i = o + 1
          /\ r \in Seq(N)
      BY Appended
    <2>2. Range(r) = {r[i] : i \in 1..Len(r)}
      <3> HIDE DEF r
      <3> QED BY <2>1, RangeIs
    <2>3. Range(q) = {q[i] : i \in 1..o} BY RangeIs
    <2> QED BY <2>1, <2>2, <2>3
  <1>3. /\ Open(l) = {i \in 1..n : l[i].tag = "http" /\ l[i].ans = 0}
        /\ \A i \in 1..n : l[i].id # e.id
        /\ Range(q) = {l[i].id : i \in Open(l)}
        /\ \A i, j \in 1..o, p, t \in Open(l) :
              l[p].id = q[i] /\ l[t].id = q[j] => (i < j <=> p < t)
    BY DEF Open, Lists
  <1> HIDE DEF n, k, o, r
  <1>4. Open(k) = Open(l) \cup {n + 1}
    BY <1>1, <1>3 DEF Open
  <1>5. Open(l) \subseteq 1..n /\ \A i \in Open(l) : k[i].id = l[i].id /\ l[i].id # e.id
    BY <1>1, <1>3
  <1>6. Range(r) = Range(q) \cup {e.id}
    BY <1>2
  <1>7. Range(r) = {k[i].id : i \in Open(k)}
    BY <1>1, <1>3, <1>4, <1>5, <1>6
  <1>8. \A i \in 1..o : q[i] # e.id
    <2> TAKE i \in 1..o
    <2>1. q[i] \in Range(q) BY <1>2
    <2>2. PICK p \in Open(l) : l[p].id = q[i] BY <2>1, <1>3
    <2> QED BY <2>2, <1>5
  <1>9. \A i, j \in 1..Len(r), p, t \in Open(k) :
          k[p].id = r[i] /\ k[t].id = r[j] => (i < j <=> p < t)
    <2> SUFFICES ASSUME NEW i \in 1..Len(r), NEW j \in 1..Len(r),
                        NEW p \in Open(k), NEW t \in Open(k), k[p].id = r[i], k[t].id = r[j]
                 PROVE  i < j <=> p < t
      OBVIOUS
    <2>1. (i \in 1..o /\ p \in Open(l)) \/ (i = o + 1 /\ p = n + 1)
      BY <1>1, <1>2, <1>4, <1>5, <1>8
    <2>2. (j \in 1..o /\ t \in Open(l)) \/ (j = o + 1 /\ t = n + 1)
      BY <1>1, <1>2, <1>4, <1>5, <1>8
    <2>3. CASE i \in 1..o /\ p \in Open(l) /\ j \in 1..o /\ t \in Open(l)
      BY <2>3, <1>2, <1>3, <1>5
    <2>4. CASE i \in 1..o /\ p \in Open(l) /\ j = o + 1 /\ t = n + 1
      BY <2>4, <1>1, <1>2, <1>5
    <2>5. CASE i = o + 1 /\ p = n + 1 /\ j \in 1..o /\ t \in Open(l)
      BY <2>5, <1>1, <1>2, <1>5
    <2>6. CASE i = o + 1 /\ p = n + 1 /\ j = o + 1 /\ t = n + 1
      BY <2>6, <1>1, <1>2
    <2> QED BY <2>1, <2>2, <2>3, <2>4, <2>5, <2>6
  <1>10. Lists(r, k) BY <1>7, <1>9 DEF Lists
  <1> QED BY <1>10 DEF r, k

\* The oldest open entry is answered and leaves the queue.
LEMMA ListsAnswer ==
  ASSUME NEW N, NEW q \in Seq(N), q # << >>, NEW l \in Seq(Entries), NEW id, Unique(l, id),
         Lists(q, l), NEW m, Len(m) = Len(l),
         \A i \in 1..Len(l) : /\ m[i].id = l[i].id /\ m[i].tag = l[i].tag
                              /\ l[i].id = Head(q) => m[i].ans # 0
                              /\ l[i].id # Head(q) => m[i].ans = l[i].ans
  PROVE  Lists(Tail(q), m)
  <1> DEFINE n == Len(l)
             o == Len(q)
             r == Tail(q)
             h == Head(q)
  <1>1. /\ o \in Nat /\ 0 < o /\ Len(r) = o - 1 /\ h = q[1] /\ \A k \in 1..Len(r) : r[k] = q[k + 1]
        /\ r \in Seq(N)
    BY Removed
  <1>2. Range(q) = {q[i] : i \in 1..o} /\ Range(r) = {r[i] : i \in 1..Len(r)}
    BY <1>1, RangeIs
  <1>3. /\ Open(l) = {i \in 1..n : l[i].tag = "http" /\ l[i].ans = 0}
        /\ Open(m) = {i \in 1..n : m[i].tag = "http" /\ m[i].ans = 0}
        /\ Range(q) = {l[i].id : i \in Open(l)}
        /\ \A i, j \in 1..o, p, t \in Open(l) :
              l[p].id = q[i] /\ l[t].id = q[j] => (i < j <=> p < t)
    BY DEF Open, Lists
  <1>4. n \in Nat /\ \A i, j \in 1..n : l[i].id = l[j].id => i = j
    BY DEF Unique
  <1>5. \A i \in 1..n : /\ m[i].id = l[i].id /\ m[i].tag = l[i].tag
                        /\ l[i].id = h => m[i].ans # 0
                        /\ l[i].id # h => m[i].ans = l[i].ans
    OBVIOUS
  <1> HIDE DEF n, o, r, h
  <1>6. Open(m) = {i \in Open(l) : l[i].id # h}
    BY <1>3, <1>5
  <1>7. \A i \in Open(l) : i \in 1..n /\ i \in Nat /\ m[i].id = l[i].id
    BY <1>3, <1>4, <1>5
  <1>8. \A i \in 1..o : i # 1 => q[i] # h
    <2> SUFFICES ASSUME NEW i \in 1..o, i # 1, q[i] = h PROVE FALSE OBVIOUS
    <2>1. 1 \in 1..o /\ q[1] \in Range(q) BY <1>1, <1>2
    <2>2. PICK p \in Open(l) : l[p].id = q[1] BY <2>1, <1>3
    <2>3. l[p].id = q[i] BY <2>2, <1>1
    <2>4. 1 < i BY <1>1
    <2>5. 1 < i <=> p < p BY <2>1, <2>2, <2>3, <1>3
    <2> QED BY <2>4, <2>5, <1>7
  <1>9. \A k \in 1..Len(r) : k + 1 \in 1..o /\ k \in Nat /\ r[k] = q[k + 1] /\ r[k] # h
    BY <1>1, <1>8
  <1>10. Range(r) = {m[i].id : i \in Open(m)}
    <2>1. ASSUME NEW x \in Range(r) PROVE \E i \in Open(m) : m[i].id = x
      <3>1. PICK k \in 1..Len(r) : x = r[k] BY <2>1, <1>2
      <3>2. x \in Range(q) /\ x # h BY <3>1, <1>2, <1>9
      <3>3. PICK i \in Open(l) : l[i].id = x BY <3>2, <1>3
      <3> QED BY <3>2, <3>3, <1>6, <1>7
    <2>2. ASSUME NEW i \in Open(m) PROVE m[i].id \in Range(r)
      <3>1. i \in Open(l) /\ l[i].id # h /\ m[i].id = l[i].id BY <1>6, <1>7
      <3>2. PICK k \in 1..o : q[k] = l[i].id
        <4>1. l[i].id \in Range(q) BY <3>1, <1>3
        <4> QED BY <4>1, <1>2
      <3>3. k # 1 BY <3>1, <3>2, <1>1
      <3>4. k - 1 \in 1..Len(r) /\ (k - 1) + 1 = k BY <3>3, <1>1
      <3>5. r[k - 1] = q[k] BY <3>4, <1>1
      <3> QED BY <3>1, <3>2, <3>4, <3>5, <1>2
    <2> QED BY <2>1, <2>2
  <1>11. \A i, j \in 1..Len(r), p, t \in Open(m) :
           m[p].id = r[i] /\ m[t].id = r[j] => (i < j <=> p < t)
    <2> SUFFICES ASSUME NEW i \in 1..Len(r), NEW j \in 1..Len(r),
                        NEW p \in Open(m), NEW t \in Open(m), m[p].id = r[i], m[t].id = r[j]
                 PROVE  i < j <=> p < t
      OBVIOUS
    <2>1. p \in Open(l) /\ t \in Open(l) /\ l[p].id = q[i + 1] /\ l[t].id = q[j + 1]
      BY <1>6, <1>7, <1>9
    <2>2. i + 1 < j + 1 <=> p < t BY <2>1, <1>3, <1>9
    <2>3. i \in Nat /\ j \in Nat BY <1>9
    <2> QED BY <2>2, <2>3
  <1>12. Lists(r, m) BY <1>10, <1>11 DEF Lists
  <1> QED BY <1>12 DEF r

----------------------------------------------------------------------------
(* What the peers do.                                                       *)

LEMMA TypesAgree == NetTyped /\ DecoderTyped => TypeOK
  BY DEF NetTyped, DecoderTyped, TypeOK, Machines

\* The counters are numbers.
LEMMA NetNumbers ==
  ASSUME NetTyped
  PROVE  /\ MaxReq \in Nat /\ heads \in Nat /\ ends \in Nat /\ answered \in Nat
         /\ finished \in Nat /\ asked \in Nat /\ informed \in Nat
         /\ heads <= MaxReq /\ ends <= heads /\ heads <= ends + 1 /\ finished <= answered
         /\ answered <= finished + 1 /\ answered <= heads /\ finished <= heads /\ asked <= heads
  BY HttpAssumption DEF NetTyped

LEMMA PieceNet ==
  ASSUME NetTyped, Wire, NEW k \in {"few", "part"}, ClientPiece(k)
  PROVE  NetTyped' /\ Wire'
  <1>1. /\ UNCHANGED netVars /\ dialect' = dialect /\ fits' = fits /\ extra' = extra
        /\ begun' = begun \cup {k} /\ (k = "part" => dialect \in {"http", "rtsp"})
    BY DEF ClientPiece
  <1> QED BY <1>1 DEF NetTyped, Wire, netVars, clientVars, cameraVars

LEMMA HeadNet ==
  ASSUME NetTyped, Wire, NEW o \in {"plain", "upgrade"}, ClientHead(o)
  PROVE  NetTyped' /\ Wire'
  <1>1. /\ UNCHANGED firstVars /\ extra' = extra /\ UNCHANGED <<ends, cameraVars>>
        /\ heads = ends /\ heads < MaxReq /\ ~switched /\ (asked # 0 => asked <= finished)
        /\ heads' = heads + 1
        /\ asked' = IF o = "upgrade" THEN heads + 1 ELSE asked
        /\ overlap' = IF finished < heads THEN overlap \cup {"pipelined"} ELSE overlap
        /\ o = "upgrade" => dialect = "http"
    BY DEF ClientHead, BeginRequest
  <1>2. NetTyped' BY <1>1, NetNumbers DEF NetTyped, firstVars, cameraVars
  <1>3. Wire' BY <1>1, NetNumbers DEF NetTyped, Wire, firstVars, cameraVars
  <1> QED BY <1>2, <1>3

LEMMA EndNet ==
  ASSUME NetTyped, Wire, ClientEnd
  PROVE  NetTyped' /\ Wire'
  <1>1. /\ UNCHANGED <<firstVars, extra, heads, asked, cameraVars, overlap>>
        /\ ends < heads /\ ends' = heads
    BY DEF ClientEnd, CompleteRequest
  <1>2. NetTyped' BY <1>1, NetNumbers DEF NetTyped, firstVars, cameraVars
  <1>3. Wire' BY <1>1, NetNumbers DEF NetTyped, Wire, firstVars, cameraVars
  <1> QED BY <1>2, <1>3

LEMMA ReplyNet ==
  ASSUME NetTyped, Wire, ClientReply
  PROVE  NetTyped' /\ Wire'
  <1>1. /\ UNCHANGED <<netVars, firstVars>> /\ extra' = extra \cup {"reply"} /\ "own" \in extra
    BY DEF ClientReply
  <1> QED BY <1>1 DEF NetTyped, Wire, netVars, clientVars, cameraVars, firstVars, Extras

LEMMA InfoNet ==
  ASSUME NetTyped, Wire, CameraInfo, UNCHANGED firstVars
  PROVE  NetTyped' /\ Wire'
  <1>1. /\ UNCHANGED <<firstVars, extra, clientVars, answered, finished, framing, switched, overlap>>
        /\ informed' = answered + 1 /\ answered < heads
    BY DEF CameraInfo, Inform, MayAnswer
  <1>2. NetTyped' BY <1>1, NetNumbers DEF NetTyped, firstVars, clientVars
  <1>3. Wire' BY <1>1 DEF Wire, firstVars, clientVars
  <1> QED BY <1>2, <1>3

LEMMA SwitchNet ==
  ASSUME NetTyped, Wire, CameraSwitch, UNCHANGED firstVars
  PROVE  NetTyped' /\ Wire'
  <1>1. /\ UNCHANGED <<firstVars, extra, clientVars, informed, framing, overlap>>
        /\ switched' = TRUE /\ answered' = answered + 1 /\ finished' = finished + 1
        /\ answered = finished /\ answered < heads /\ asked = answered + 1 /\ ends = asked
    BY DEF CameraSwitch, SwitchProtocols, MayAnswer
  <1>2. NetTyped' BY <1>1, NetNumbers DEF NetTyped, firstVars, clientVars
  <1>3. Wire' BY <1>1, NetNumbers DEF NetTyped, Wire, firstVars, clientVars
  <1> QED BY <1>2, <1>3

LEMMA AnswerNet ==
  ASSUME NetTyped, Wire, NEW f \in Framings, CameraAnswer(f), UNCHANGED firstVars
  PROVE  NetTyped' /\ Wire'
  <1>1. /\ UNCHANGED <<firstVars, extra, clientVars, finished, informed, switched>>
        /\ framing' = f /\ answered' = answered + 1 /\ answered = finished /\ answered < heads
        /\ overlap' = IF ends <= answered THEN overlap \cup {"early"} ELSE overlap
        /\ f = "sized" \/ dialect = "http"
    BY DEF CameraAnswer, BeginAnswer, MayAnswer
  <1>2. f \in {"sized", "untilClose", "http10"} BY HttpAssumption
  <1>3. NetTyped' BY <1>1, <1>2, NetNumbers DEF NetTyped, firstVars, clientVars
  <1>4. Wire' BY <1>1, NetNumbers DEF NetTyped, Wire, firstVars, clientVars
  <1> QED BY <1>3, <1>4

LEMMA DoneNet ==
  ASSUME NetTyped, Wire, CameraDone, UNCHANGED firstVars
  PROVE  NetTyped' /\ Wire'
  <1>1. /\ UNCHANGED <<firstVars, extra, clientVars, answered, informed, framing, switched, overlap>>
        /\ finished < answered /\ finished' = answered
    BY DEF CameraDone, CompleteAnswer
  <1>2. NetTyped' BY <1>1, NetNumbers DEF NetTyped, firstVars, clientVars
  <1>3. Wire' BY <1>1, NetNumbers DEF NetTyped, Wire, firstVars, clientVars
  <1> QED BY <1>2, <1>3

LEMMA UnaskedNet ==
  ASSUME NetTyped, Wire, NEW k \in Extras \ {"reply"}, CameraUnasked(k), UNCHANGED firstVars
  PROVE  NetTyped' /\ Wire'
  <1>1. /\ UNCHANGED <<firstVars, netVars>> /\ extra' = extra \cup {k}
        /\ k \in {"banner", "aside"} \/ (dialect = "rtsp" /\ heads > 0)
    BY DEF CameraUnasked, Extras
  <1> QED BY <1>1 DEF NetTyped, Wire, firstVars, netVars, clientVars, cameraVars, Extras

LEMMA QuietNet ==
  ASSUME NetTyped, Wire, UNCHANGED <<netVars, firstVars, extra>>
  PROVE  NetTyped' /\ Wire'
  BY DEF NetTyped, Wire, firstVars, netVars, clientVars, cameraVars

----------------------------------------------------------------------------
(* What a call does to the log outside HTTP.                                *)

\* At most one event is added, and nothing changes that _awaiting goes by.
Grows(tags) ==
    \E m \in Seq(Entries) :
       /\ \/ m = log /\ nextId' = nextId
          \/ \E tag \in tags, of \in 0..MaxReq :
                m = Append(log, Entry(nextId, tag, of)) /\ nextId' = nextId + 1
       /\ log' \in Seq(Entries) /\ Amends(m, log')

LEMMA AmendsSelf == \A l : Amends(l, l)
  BY DEF Amends

LEMMA ListsAre == AwaitingIsUnanswered <=> /\ Lists(awaiting, log)
                                           /\ closed => noted = Range(awaiting)
  BY DEF AwaitingIsUnanswered, Unanswered, Lists, Open

LEMMA GrowsNot ==
  ASSUME DecoderTyped, UNCHANGED <<log, nextId>>, NEW tags
  PROVE  Grows(tags)
  <1>1. log \in Seq(Entries) BY DEF DecoderTyped
  <1> QED BY <1>1, AmendsSelf DEF Grows

LEMMA GrowsIds ==
  ASSUME DecoderTyped, Ids, Lists(awaiting, log), Grows({"raw", "tls", "rtsp"}),
         UNCHANGED <<building, responding>>
  PROVE  /\ log' \in Seq(Entries) /\ nextId' \in Nat \ {0} /\ nextId <= nextId'
         /\ Ids' /\ Lists(awaiting, log')
  <1>1. log \in Seq(Entries) /\ nextId \in Nat \ {0} /\ Unique(log, nextId)
    BY DEF DecoderTyped, Ids
  <1>2. PICK m \in Seq(Entries) :
           /\ \/ m = log /\ nextId' = nextId
              \/ \E tag \in {"raw", "tls", "rtsp"}, of \in 0..MaxReq :
                    m = Append(log, Entry(nextId, tag, of)) /\ nextId' = nextId + 1
           /\ log' \in Seq(Entries) /\ Amends(m, log')
    BY DEF Grows
  <1>3. /\ nextId' \in Nat \ {0} /\ nextId <= nextId' BY <1>1, <1>2
  <1>4. /\ Unique(m, nextId') /\ Lists(awaiting, m)
        /\ \A i \in 1..Len(log) : i \in 1..Len(m) /\ m[i] = log[i]
        /\ \A i \in 1..Len(m) : m[i].id = nextId \/ (i \in 1..Len(log) /\ m[i] = log[i])
    <2>1. CASE m = log /\ nextId' = nextId BY <2>1, <1>1
    <2>2. CASE \E tag \in {"raw", "tls", "rtsp"}, of \in 0..MaxReq :
                    m = Append(log, Entry(nextId, tag, of)) /\ nextId' = nextId + 1
      <3>1. PICK tag \in {"raw", "tls", "rtsp"}, of \in 0..MaxReq :
                    m = Append(log, Entry(nextId, tag, of)) /\ nextId' = nextId + 1
        BY <2>2
      <3>2. PICK e \in Entries : /\ e = Entry(nextId, tag, of)
                                 /\ e.id = nextId /\ e.tag = tag
        <4>1. tag \in {"http", "rtsp", "tls", "raw", "failed"} OBVIOUS
        <4>2. /\ Entry(nextId, tag, of) \in Entries
              /\ Entry(nextId, tag, of).id = nextId /\ Entry(nextId, tag, of).tag = tag
          BY <1>1, <4>1, HttpAssumption DEF Entry, Entries
        <4> QED BY <4>2
      <3>3. /\ Len(log) \in Nat /\ Len(m) = Len(log) + 1 /\ m[Len(log) + 1] = e
            /\ \A i \in 1..Len(log) : m[i] = log[i]
            /\ \A i \in 1..Len(m) : i \in 1..Len(log) \/ i = Len(log) + 1
        BY <1>1, <3>1, <3>2, Appended
      <3>4. \A i \in 1..Len(log) : log[i].id # e.id
        <4> TAKE i \in 1..Len(log)
        <4>1. log[i].id < nextId /\ log[i].id \in Nat BY <1>1, EntryTyped DEF Unique
        <4> QED BY <4>1, <3>2, <1>1
      <3>5. Unique(m, nextId')
        <4>1. e.id < nextId + 1 /\ nextId <= nextId + 1 /\ nextId + 1 \in Nat /\ nextId \in Nat
          BY <1>1, <3>2
        <4> QED BY <4>1, <1>1, <3>1, <3>2, <3>4, UniqueAppend
      <3>6. Lists(awaiting, m) BY <1>1, <3>1, <3>2, ListsAppendOther
      <3>7. \A i \in 1..Len(log) : i \in 1..Len(m)
        <4> DEFINE n == Len(log)
        <4>1. n \in Nat /\ Len(m) = n + 1 BY <3>3
        <4> HIDE DEF n
        <4>2. \A i \in 1..n : i \in 1..Len(m) BY <4>1
        <4> QED BY <4>2 DEF n
      <3> QED BY <3>2, <3>3, <3>5, <3>6, <3>7
    <2> QED BY <1>2, <2>1, <2>2
  <1>5. Unique(log', nextId') BY <1>2, <1>4, UniqueAmends
  <1>6. Lists(awaiting, log') BY <1>2, <1>4, ListsAmends
  <1>7. /\ Len(log') = Len(m)
        /\ \A i \in 1..Len(m) : /\ log'[i].id = m[i].id /\ log'[i].tag = m[i].tag
                                /\ m[i].tag = "http" => log'[i].ans = m[i].ans
    BY <1>2 DEF Amends
  <1>8. building' = NoRequest \/ (building'.id \in 1..(nextId' - 1) /\ building'.of # 0)
    <2>1. building = NoRequest \/ (building.id \in 1..(nextId - 1) /\ building.of # 0)
      BY DEF Ids
    <2> QED BY <2>1, <1>1, <1>3
  <1>9. \A i \in 1..Len(log') : log'[i].id # building'.id
    <2> TAKE i \in 1..Len(log')
    <2>1. CASE i \in 1..Len(log) /\ m[i] = log[i]
      BY <2>1, <1>7, <1>4 DEF Ids
    <2>2. CASE m[i].id = nextId
      <3>1. log'[i].id = nextId BY <2>2, <1>7
      <3>2. building.id \in 0..(nextId - 1) BY <1>1 DEF Ids, NoRequest
      <3> QED BY <3>1, <3>2, <1>1
    <2> QED BY <2>1, <2>2, <1>4, <1>7
  <1>10. responding' # 0 => \E i \in 1..Len(log') :
            log'[i].id = responding' /\ log'[i].tag = "http" /\ log'[i].ans # 0
    <2> SUFFICES ASSUME responding # 0
                 PROVE  \E i \in 1..Len(log') :
                          log'[i].id = responding /\ log'[i].tag = "http" /\ log'[i].ans # 0
      OBVIOUS
    <2>1. PICK i \in 1..Len(log) :
             log[i].id = responding /\ log[i].tag = "http" /\ log[i].ans # 0
      BY DEF Ids
    <2>2. i \in 1..Len(log') /\ m[i] = log[i] BY <1>4, <1>7
    <2> QED BY <2>1, <2>2, <1>7
  <1>11. Ids' BY <1>5, <1>8, <1>9, <1>10 DEF Ids
  <1> QED BY <1>2, <1>3, <1>6, <1>11

\* The tags that a log can have then.
LEMMA GrowsTags ==
  ASSUME DecoderTyped, NEW tags, tags \subseteq {"raw", "tls", "rtsp"}, Grows(tags)
  PROVE  /\ \A i \in 1..Len(log) : i \in 1..Len(log') /\ log'[i].tag = log[i].tag
         /\ \A i \in 1..Len(log') : log'[i].tag \in tags
                                       \/ (i \in 1..Len(log) /\ log'[i].tag = log[i].tag)
  <1>1. log \in Seq(Entries) /\ nextId \in Nat \ {0}
    BY DEF DecoderTyped
  <1>2. PICK m \in Seq(Entries) :
           /\ \/ m = log /\ nextId' = nextId
              \/ \E tag \in tags, of \in 0..MaxReq :
                    m = Append(log, Entry(nextId, tag, of)) /\ nextId' = nextId + 1
           /\ log' \in Seq(Entries) /\ Amends(m, log')
    BY DEF Grows
  <1>3. /\ \A i \in 1..Len(log) : i \in 1..Len(m) /\ m[i] = log[i]
        /\ \A i \in 1..Len(m) : m[i].tag \in tags \/ (i \in 1..Len(log) /\ m[i] = log[i])
    <2>1. CASE m = log BY <2>1
    <2>2. CASE \E tag \in tags, of \in 0..MaxReq : m = Append(log, Entry(nextId, tag, of))
      <3>1. PICK tag \in tags, of \in 0..MaxReq : m = Append(log, Entry(nextId, tag, of))
        BY <2>2
      <3>2. PICK e \in Entries : e = Entry(nextId, tag, of) /\ e.tag = tag
        <4>1. tag \in {"http", "rtsp", "tls", "raw", "failed"} OBVIOUS
        <4>2. Entry(nextId, tag, of) \in Entries /\ Entry(nextId, tag, of).tag = tag
          BY <1>1, <4>1, HttpAssumption DEF Entry, Entries
        <4> QED BY <4>2
      <3> DEFINE n == Len(log)
      <3>3. /\ n \in Nat /\ Len(m) = n + 1 /\ m[n + 1] = e
            /\ \A i \in 1..n : m[i] = log[i]
            /\ \A i \in 1..Len(m) : i \in 1..n \/ i = n + 1
        BY <1>1, <3>1, <3>2, Appended
      <3> HIDE DEF n
      <3>4. \A i \in 1..n : i \in 1..Len(m) BY <3>3
      <3>5. /\ \A i \in 1..n : i \in 1..Len(m) /\ m[i] = log[i]
            /\ \A i \in 1..Len(m) : m[i].tag \in tags \/ (i \in 1..n /\ m[i] = log[i])
        BY <3>2, <3>3, <3>4
      <3> QED BY <3>5 DEF n
    <2> QED BY <1>2, <2>1, <2>2
  <1> QED BY <1>2, <1>3 DEF Amends

LEMMA TouchGrows ==
  ASSUME DecoderTyped, NEW tag \in {"raw", "tls"}, NEW l \in Seq(Entries),
         Amends(Labelled(tag), l), Touch(l)
  PROVE  /\ Grows({tag}) /\ log' = l /\ log' # << >>
         /\ log # << >> /\ (\A i \in 1..Len(log) : log[i].tag \in {"raw", "tls", "failed"})
               => Labelled(tag) = log
  <1>1. log \in Seq(Entries) /\ nextId \in Nat \ {0} /\ 0 \in 0..MaxReq
    BY HttpAssumption DEF DecoderTyped
  <1>2. /\ log' = l /\ nextId' = IF Len(l) > Len(log) THEN AfterNewId(nextId) ELSE nextId
        /\ Len(l) = Len(Labelled(tag))
    BY DEF Touch, Amends
  <1>3. CASE \E i \in 1..Len(log) : log[i].tag \in {"raw", "tls", "failed"}
    <2>1. Labelled(tag) = log BY <1>3 DEF Labelled
    <2>2. nextId' = nextId BY <1>1, <1>2, <2>1
    <2>3. log # << >> /\ l # << >> BY <1>1, <1>2, <1>3, <2>1
    <2>4. Grows({tag}) BY <1>1, <1>2, <2>1, <2>2 DEF Grows
    <2> QED BY <1>2, <2>1, <2>3, <2>4
  <1>4. CASE ~\E i \in 1..Len(log) : log[i].tag \in {"raw", "tls", "failed"}
    <2>1. PICK e \in Entries : e = Entry(nextId, tag, 0) BY <1>1, NewEntry
    <2>2. PICK m : m = Append(log, e) OBVIOUS
    <2>3. Labelled(tag) = m BY <1>4, <2>1, <2>2 DEF Labelled
    <2>4. m \in Seq(Entries) /\ Len(log) \in Nat /\ Len(m) = Len(log) + 1
      BY <1>1, <2>1, <2>2, Appended
    <2>5. nextId' = nextId + 1 /\ l # << >> BY <1>2, <2>3, <2>4 DEF AfterNewId
    <2>6. m = Append(log, Entry(nextId, tag, 0)) BY <2>1, <2>2
    <2>7. Grows({tag})
      BY <1>1, <1>2, <2>3, <2>4, <2>5, <2>6 DEF Grows
    <2>8. log # << >> => 1 \in 1..Len(log) BY <1>1
    <2> QED BY <1>2, <1>4, <2>5, <2>7, <2>8
  <1> QED BY <1>3, <1>4

LEMMA LabelledTyped ==
  ASSUME DecoderTyped, NEW tag \in {"raw", "tls"}
  PROVE  Labelled(tag) \in Seq(Entries)
  <1>1. log \in Seq(Entries) /\ nextId \in Nat \ {0} /\ 0 \in 0..MaxReq
    BY HttpAssumption DEF DecoderTyped
  <1>2. PICK e \in Entries : e = Entry(nextId, tag, 0) BY <1>1, NewEntry
  <1>3. Append(log, e) \in Seq(Entries) BY <1>1, <1>2, Appended
  <1> QED BY <1>1, <1>2, <1>3 DEF Labelled

LEMMA RawGrows ==
  ASSUME DecoderTyped, RawTouch
  PROVE  /\ Grows({"raw"}) /\ log' # << >> /\ UNCHANGED rtspVars
         /\ (\E i \in 1..Len(log) : log[i].tag \in {"raw", "tls", "failed"}) => log' = log
  <1>1. PICK l \in Seq(Entries) : l = Labelled("raw") BY LabelledTyped
  <1>2. Amends(Labelled("raw"), l) /\ Touch(l) /\ UNCHANGED rtspVars
    BY <1>1, AmendsSelf DEF RawTouch
  <1>3. Grows({"raw"}) /\ log' = l /\ log' # << >> BY <1>2, TouchGrows
  <1>4. (\E i \in 1..Len(log) : log[i].tag \in {"raw", "tls", "failed"}) => l = log
    BY <1>1 DEF Labelled
  <1> QED BY <1>2, <1>3, <1>4

\* Only bodies change.
LEMMA BodiesAmend ==
  ASSUME NEW l \in Seq(Entries), NEW m,
         m = [i \in 1..Len(l) |-> [l[i] EXCEPT !.body = TRUE]]
  PROVE  m \in Seq(Entries) /\ Amends(l, m) /\ \A i \in 1..Len(m) : m[i].body
  <1> DEFINE n == Len(l)
  <1>1. n \in Nat /\ DOMAIN m = 1..n /\ \A i \in 1..n : m[i] = [l[i] EXCEPT !.body = TRUE]
    OBVIOUS
  <1>2. \A i \in 1..n : l[i] \in Entries BY EntryTyped
  <1>3. m = [i \in 1..n |-> m[i]] OBVIOUS
  <1> HIDE DEF n
  <1>4. \A i \in 1..n : /\ m[i] \in Entries /\ m[i].body
                        /\ m[i].id = l[i].id /\ m[i].tag = l[i].tag /\ m[i].of = l[i].of
                        /\ m[i].ans = l[i].ans
    BY <1>1, <1>2 DEF Entries
  <1>5. m \in Seq(Entries) /\ Len(m) = n
    <2>1. \A i \in 1..n : m[i] \in Entries BY <1>4
    <2>2. m \in [1..n -> Entries] BY <1>3, <2>1
    <2>3. n \in Nat BY <1>1
    <2> QED BY <2>2, <2>3
  <1>6. \A i \in 1..Len(m) : m[i].body BY <1>4, <1>5
  <1> QED BY <1>4, <1>5, <1>6 DEF Amends, n

LEMMA TlsGrows ==
  ASSUME DecoderTyped, NEW t, TlsFeed(t)
  PROVE  /\ Grows({"tls"}) /\ log' # << >>
         /\ stuck' \subseteq {"c2s", "s2c"} /\ glued' = glued /\ rtspAwait' = rtspAwait
         /\ stuck \subseteq stuck'
         /\ stuck' = {} /\ t.kind = "end" => \A i \in 1..Len(log') : log'[i].body
         /\ log # << >> /\ log[1].body /\ log[1].tag \in {"raw", "tls", "failed"} => log'[1].body
  <1>1. PICK m \in Seq(Entries) : m = Labelled("tls") BY LabelledTyped
  <1>2. PICK b : b = [i \in 1..Len(m) |-> [m[i] EXCEPT !.body = TRUE]] OBVIOUS
  <1>3. b \in Seq(Entries) /\ Amends(m, b) /\ \A i \in 1..Len(b) : b[i].body
    BY <1>2, BodiesAmend
  <1>4. PICK l : /\ l = IF t.kind = "end" /\ stuck' = {} THEN b ELSE m
                 /\ Touch(l)
                 /\ stuck' = IF t.opt = "unreadable" THEN stuck \cup {"c2s"} ELSE stuck
                 /\ glued' = glued /\ rtspAwait' = rtspAwait
    BY <1>1, <1>2 DEF TlsFeed
  <1>5. l \in Seq(Entries) /\ Amends(m, l) BY <1>1, <1>3, <1>4, AmendsSelf
  <1>6. Grows({"tls"}) /\ log' = l /\ log' # << >> BY <1>1, <1>4, <1>5, TouchGrows
  <1>7. log # << >> /\ log[1].body /\ log[1].tag \in {"raw", "tls", "failed"} => log'[1].body
    <2> SUFFICES ASSUME log # << >>, log[1].body, log[1].tag \in {"raw", "tls", "failed"}
                 PROVE  log'[1].body
      OBVIOUS
    <2>1. log \in Seq(Entries) BY DEF DecoderTyped
    <2>2. 1 \in 1..Len(log) BY <2>1
    <2>3. m = log BY <1>1, <2>2 DEF Labelled
    <2>4. 1 \in 1..Len(b) BY <2>2, <2>3, <1>3 DEF Amends
    <2> QED BY <1>3, <1>4, <1>6, <2>3, <2>4
  <1>8. stuck \subseteq {"c2s", "s2c"} BY DEF DecoderTyped
  <1> QED BY <1>3, <1>4, <1>6, <1>7, <1>8

\* A message of an RTSP client.
LEMMA RecordRtspGrows ==
  ASSUME DecoderTyped, NEW t, t.n \in 0..MaxReq, RecordRtsp(t)
  PROVE  /\ Grows({"rtsp"}) /\ rtspAwait' \in Seq(1..nextId')
         /\ UNCHANGED <<glued, stuck>>
  <1>1. log \in Seq(Entries) /\ nextId \in Nat \ {0} /\ rtspAwait \in Seq(1..nextId)
    BY DEF DecoderTyped
  <1>2. PICK of \in 0..MaxReq : /\ log' = Append(log, Entry(nextId, "rtsp", of))
                                /\ rtspAwait' = Append(rtspAwait, nextId)
                                /\ nextId' = nextId + 1 /\ UNCHANGED <<glued, stuck>>
    BY HttpAssumption DEF RecordRtsp, AfterNewId
  <1>3. Entry(nextId, "rtsp", of) \in Entries BY <1>1, NewEntry
  <1>4. log' \in Seq(Entries) BY <1>1, <1>2, <1>3
  <1>5. Grows({"rtsp"}) BY <1>2, <1>4, AmendsSelf DEF Grows
  <1>6. 1..nextId \subseteq 1..(nextId + 1) BY <1>1
  <1>7. rtspAwait \in Seq(1..(nextId + 1)) /\ nextId \in 1..(nextId + 1)
    BY <1>1, <1>6
  <1>8. Append(rtspAwait, nextId) \in Seq(1..(nextId + 1)) BY <1>7
  <1> QED BY <1>2, <1>5, <1>8

LEMMA PairedEntry ==
  ASSUME NEW e \in Entries, NEW a \in 0..MaxReq
  PROVE  LET f == [e EXCEPT !.ans = a, !.body = TRUE] IN
           /\ f \in Entries /\ f.id = e.id /\ f.tag = e.tag /\ f.of = e.of
           /\ f.ans = a /\ f.body
  <1>1. PICK g : g = [e EXCEPT !.ans = a] OBVIOUS
  <1>2. g \in Entries /\ g.id = e.id /\ g.tag = e.tag /\ g.of = e.of /\ g.ans = a
    BY <1>1 DEF Entries
  <1>3. PICK f : f = [g EXCEPT !.body = TRUE] OBVIOUS
  <1>4. f \in Entries /\ f.id = e.id /\ f.tag = e.tag /\ f.of = e.of /\ f.ans = a /\ f.body
    BY <1>2, <1>3 DEF Entries
  <1>5. f = [e EXCEPT !.ans = a, !.body = TRUE] BY <1>1, <1>3
  <1> QED BY <1>4, <1>5

\* A message of its camera.
LEMMA PairRtspGrows ==
  ASSUME DecoderTyped, NEW t, t.n \in 0..MaxReq, PairRtsp(t),
         \A i \in 1..Len(log) : log[i].tag = "rtsp"
  PROVE  /\ Grows({"rtsp"}) /\ rtspAwait' \in Seq(1..nextId') /\ glued' = FALSE
         /\ nextId' = nextId /\ stuck' = stuck
         /\ Len(log') = Len(log)
         /\ \E a \in {0, t.n} :
               /\ t.kind # "own" /\ ~glued => a = t.n
               /\ \A i \in 1..Len(log) :
                    log'[i] = IF rtspAwait # << >> /\ log[i].id = Head(rtspAwait)
                              THEN [log[i] EXCEPT !.ans = a, !.body = TRUE] ELSE log[i]
  <1> DEFINE n == Len(log)
  <1>1. /\ log \in Seq(Entries) /\ nextId \in Nat \ {0} /\ rtspAwait \in Seq(1..nextId)
        /\ n \in Nat /\ \A i \in 1..n : log[i] \in Entries /\ log[i].tag = "rtsp"
    BY EntryTyped DEF DecoderTyped
  <1>2. PICK readable \in IF t.kind = "own" THEN {FALSE} ELSE IF glued THEN BOOLEAN ELSE {TRUE} :
          log' = [i \in 1..n |->
                    IF rtspAwait # << >> /\ log[i].id = Head(rtspAwait)
                    THEN [log[i] EXCEPT !.ans = IF readable THEN t.n ELSE 0, !.body = TRUE]
                    ELSE log[i]]
    BY DEF PairRtsp
  <1>3. /\ rtspAwait' = PopOldest(rtspAwait) /\ glued' = FALSE /\ UNCHANGED <<nextId, stuck>>
    BY DEF PairRtsp
  <1>4. PICK a \in {0, t.n} : a = IF readable THEN t.n ELSE 0 OBVIOUS
  <1>5. t.kind # "own" /\ ~glued => a = t.n BY <1>2, <1>4
  <1>6. a \in 0..MaxReq BY HttpAssumption
  <1> HIDE DEF n
  <1>7. log' = [i \in 1..n |->
                    IF rtspAwait # << >> /\ log[i].id = Head(rtspAwait)
                    THEN [log[i] EXCEPT !.ans = a, !.body = TRUE] ELSE log[i]]
    BY <1>2, <1>4
  <1>8. \A i \in 1..n : log'[i] = IF rtspAwait # << >> /\ log[i].id = Head(rtspAwait)
                                  THEN [log[i] EXCEPT !.ans = a, !.body = TRUE] ELSE log[i]
    BY <1>7
  <1>9. \A i \in 1..n : /\ log'[i] \in Entries /\ log'[i].id = log[i].id
                        /\ log'[i].tag = log[i].tag /\ log'[i].of = log[i].of
    <2> TAKE i \in 1..n
    <2>1. PICK e \in Entries : e = log[i] BY <1>1
    <2>2. PICK f : f = [e EXCEPT !.ans = a, !.body = TRUE] OBVIOUS
    <2>3. f \in Entries /\ f.id = e.id /\ f.tag = e.tag /\ f.of = e.of
      BY <1>6, <2>2, PairedEntry
    <2>4. log'[i] = e \/ log'[i] = f BY <1>8, <2>1, <2>2
    <2> QED BY <2>1, <2>3, <2>4
  <1>10. log' \in [1..n -> Entries] BY <1>7, <1>9
  <1>11. log' \in Seq(Entries) /\ Len(log') = n BY <1>1, <1>10
  <1>12. Amends(log, log') BY <1>1, <1>9, <1>11 DEF Amends, n
  <1>13. Grows({"rtsp"}) BY <1>1, <1>3, <1>11, <1>12 DEF Grows
  <1>14. rtspAwait' \in Seq(1..nextId')
    <2>1. PopOldest(rtspAwait) \in Seq(1..nextId) BY <1>1, Removed DEF PopOldest
    <2> QED BY <2>1, <1>3
  <1> QED BY <1>3, <1>5, <1>8, <1>11, <1>13, <1>14 DEF n

LEMMA RtspGrows ==
  ASSUME DecoderTyped, NEW d \in {"c2s", "s2c"}, NEW t, t.n \in 0..MaxReq, RtspParse(d, t),
         \A i \in 1..Len(log) : log[i].tag = "rtsp"
  PROVE  /\ Grows({"rtsp"}) /\ rtspAwait' \in Seq(1..nextId')
         /\ glued' \in BOOLEAN /\ stuck' \subseteq {"c2s", "s2c"}
  <1>1. nextId \in Nat \ {0} /\ rtspAwait \in Seq(1..nextId) /\ glued \in BOOLEAN
        /\ stuck \subseteq {"c2s", "s2c"}
    BY DEF DecoderTyped
  <1>2. \/ glued' = (glued \/ t.kind = "media") /\ UNCHANGED <<log, nextId, stuck, rtspAwait>>
        \/ stuck' = stuck \cup {d} /\ UNCHANGED <<log, nextId, glued, rtspAwait>>
        \/ RecordRtsp(t)
        \/ PairRtsp(t)
    BY DEF RtspParse
  <1>3. CASE glued' = (glued \/ t.kind = "media") /\ UNCHANGED <<log, nextId, stuck, rtspAwait>>
    <2>1. glued' \in BOOLEAN BY <1>3
    <2> QED BY <2>1, <1>1, <1>3, GrowsNot
  <1>4. CASE stuck' = stuck \cup {d} /\ UNCHANGED <<log, nextId, glued, rtspAwait>>
    BY <1>1, <1>4, GrowsNot
  <1>5. CASE RecordRtsp(t) BY <1>1, <1>5, RecordRtspGrows
  <1>6. CASE PairRtsp(t) BY <1>1, <1>6, PairRtspGrows
  <1> QED BY <1>2, <1>3, <1>4, <1>5, <1>6

----------------------------------------------------------------------------
(* A piece is fed.                                                          *)

LEMMA RawCaused ==
  ASSUME DecoderTyped, Decided
  PROVE  RawHasCause
  <1> SUFFICES ASSUME NEW i \in 1..Len(log), log[i].tag = "raw"
               PROVE  RawCause
    BY DEF RawHasCause, RawCause
  <1>1. kind \in {"none", "http", "rtsp", "tls", "raw"} BY DEF DecoderTyped
  <1>2. CASE kind = "none" BY <1>2 DEF Decided
  <1>3. CASE kind \in {"http", "rtsp"} BY <1>3 DEF Decided
  <1>4. CASE kind = "tls" BY <1>4 DEF Decided, RawCause
  <1>5. CASE kind = "raw" BY <1>5 DEF Decided
  <1> QED BY <1>1, <1>2, <1>3, <1>4, <1>5

Unheard == UNCHANGED <<building, awaiting, responding, noted, closed>>
Untold  == UNCHANGED <<feeding, cbuf, sbuf, c, s>>

\* The three things that become of a piece of the client.
LEMMA ClientCases ==
  ASSUME DecoderTyped, Decided, NEW t, t.n \in 0..MaxReq, FeedC2S(t)
  PROVE  /\ Unheard
         /\ kind # "none" => kind' = kind
         /\ kind = "none" => kind' = IF t.kind = "few" THEN "none" ELSE Decide(t)
         /\ sniff' = (kind' = "none")
         /\ \/ kind' = "none" /\ UNCHANGED <<log, nextId, rtspVars>> /\ Untold
            \/ /\ kind' = "http" /\ UNCHANGED <<log, nextId, rtspVars, sbuf, c, s>>
               /\ cbuf' = Append(cbuf, t) /\ feeding' = "c2s"
            \/ kind' = "rtsp" /\ RtspParse("c2s", t) /\ Untold
            \/ kind' = "tls" /\ TlsFeed(t) /\ Untold
            \/ kind' = "raw" /\ RawTouch /\ Untold
  <1> DEFINE waits == kind = "none" /\ t.kind = "few"
  <1>1. PICK k : k = IF kind = "none" /\ ~waits THEN Decide(t) ELSE kind OBVIOUS
  <1>2. k \in {"none", "http", "rtsp", "tls", "raw"}
    BY <1>1 DEF DecoderTyped, Decide
  <1>3. /\ kind' = k /\ sniff' = waits
        /\ k = "http" => HttpFeedC2S(t) /\ UNCHANGED <<log, nextId, rtspVars>>
        /\ k # "http" => UNCHANGED <<feeding, h11Vars>>
        /\ k = "rtsp" => RtspParse("c2s", t)
        /\ k = "tls" => TlsFeed(t)
        /\ k = "raw" => RawTouch
        /\ k = "none" => UNCHANGED <<log, nextId, rtspVars>>
        /\ UNCHANGED <<building, awaiting, responding, noted, closed>>
    BY <1>1, <1>2 DEF FeedC2S
  <1>4. sniff' = (kind' = "none")
    <2>1. Decide(t) # "none" BY DEF Decide
    <2>2. waits \in BOOLEAN OBVIOUS
    <2>3. waits <=> k = "none" BY <1>1, <2>1
    <2> HIDE DEF waits
    <2> QED BY <1>3, <2>2, <2>3
  <1> QED BY <1>1, <1>2, <1>3, <1>4 DEF Unheard, Untold, HttpFeedC2S, h11Vars

\* And of the camera.
LEMMA CameraCases ==
  ASSUME DecoderTyped, Decided, NEW t, t.n \in 0..MaxReq, FeedS2C(t)
  PROVE  /\ Unheard /\ UNCHANGED <<sniff, firstVars>>
         /\ kind # "none" \/ sniff => kind' = kind
         /\ kind = "none" /\ ~sniff => kind' = "raw"
         /\ \/ kind' = "none" /\ UNCHANGED <<log, nextId, rtspVars>> /\ Untold
            \/ /\ kind' = "http" /\ UNCHANGED <<log, nextId, rtspVars, cbuf, c, s>>
               /\ sbuf' = Append(sbuf, t) /\ feeding' = "s2c"
            \/ kind' = "rtsp" /\ RtspParse("s2c", t) /\ Untold
            \/ kind' \in {"tls", "raw"} /\ RawTouch /\ Untold
  <1>1. kind \in {"none", "http", "rtsp", "tls", "raw"} BY DEF DecoderTyped
  <1>2. /\ UNCHANGED <<building, awaiting, responding, noted, closed, sniff, firstVars>>
        /\ kind' = IF kind = "none" /\ ~sniff THEN "raw" ELSE kind
    BY DEF FeedS2C, ServerFirst
  <1>3. CASE kind = "http"
    BY <1>2, <1>3 DEF FeedS2C, HttpFeedS2C, Unheard
  <1>4. CASE kind = "rtsp"
    BY <1>2, <1>4 DEF FeedS2C, ServerFirst, Unheard, Untold, h11Vars
  <1>5. CASE kind \in {"tls", "raw"}
    BY <1>2, <1>5 DEF FeedS2C, ServerFirst, Unheard, Untold, h11Vars
  <1>6. CASE kind = "none"
    BY <1>2, <1>6 DEF FeedS2C, ServerFirst, Unheard, Untold, h11Vars
  <1> QED BY <1>1, <1>3, <1>4, <1>5, <1>6

LEMMA SeqWider ==
  ASSUME NEW S, NEW T, S \subseteq T, NEW q \in Seq(S)
  PROVE  q \in Seq(T)
  <1>1. Len(q) \in Nat /\ q \in [1..Len(q) -> T] OBVIOUS
  <1> QED BY <1>1

LEMMA Widened ==
  ASSUME DecoderTyped, nextId' \in Nat \ {0}, nextId <= nextId', Unheard
  PROVE  /\ building' \in [id : 0..nextId', of : 0..MaxReq] /\ closed' \in BOOLEAN
         /\ awaiting' \in Seq(1..nextId') /\ responding' \in 0..nextId'
         /\ noted' \subseteq 1..nextId' /\ rtspAwait \in Seq(1..nextId')
  <1>1. nextId \in Nat \ {0} BY DEF DecoderTyped
  <1>2. 0..nextId \subseteq 0..nextId' /\ 1..nextId \subseteq 1..nextId' BY <1>1
  <1>3. \A q \in Seq(1..nextId) : q \in Seq(1..nextId') BY <1>2, SeqWider
  <1> QED BY <1>1, <1>2, <1>3 DEF DecoderTyped, Unheard

LEMMA RtspTags ==
  ASSUME DecoderTyped, Decided, kind \in {"none", "rtsp"}
  PROVE  \A i \in 1..Len(log) : log[i].tag = "rtsp"
  <1>1. log = << >> => Len(log) = 0 OBVIOUS
  <1> QED BY <1>1 DEF Decided

\* What a piece of the client leaves is well typed, and _awaiting exact.
LEMMA ClientCore ==
  ASSUME DecoderTyped, Decided, Ids, Lists(awaiting, log),
         NEW t, t.n \in 0..MaxReq, FeedC2S(t), kind' = "http" => t \in ClientTokens
  PROVE  /\ DecoderTyped' /\ Ids' /\ Lists(awaiting', log')
         /\ kind' \in {"rtsp", "tls", "raw"} => Grows({kind'})
         /\ kind' \in {"tls", "raw"} => log' # << >>
  <1>1. /\ feeding \in {"none", "c2s", "s2c"}
        /\ c \in Machines /\ s \in Machines /\ cbuf \in Seq(ClientTokens)
        /\ sbuf \in Seq(CameraTokens) /\ kind \in {"none", "http", "rtsp", "tls", "raw"}
        /\ glued \in BOOLEAN /\ stuck \subseteq {"c2s", "s2c"} /\ sniff' \in BOOLEAN
        /\ rtspAwait \in Seq(1..nextId)
    BY ClientCases DEF DecoderTyped
  <1>2. Unheard BY ClientCases
  <1>3. CASE kind' = "none" /\ UNCHANGED <<log, nextId, rtspVars>> /\ Untold
    <2>1. Ids' BY <1>2, <1>3 DEF Ids, Unheard, Unique
    <2>2. DecoderTyped' BY <1>1, <1>2, <1>3 DEF DecoderTyped, Unheard, Untold, rtspVars
    <2>3. Lists(awaiting', log') BY <1>2, <1>3 DEF Unheard
    <2> QED BY <2>1, <2>2, <2>3, <1>3
  <1>4. CASE /\ kind' = "http" /\ UNCHANGED <<log, nextId, rtspVars, sbuf, c, s>>
             /\ cbuf' = Append(cbuf, t) /\ feeding' = "c2s"
    <2>1. Ids' BY <1>2, <1>4 DEF Ids, Unheard, Unique
    <2>2. cbuf' \in Seq(ClientTokens) BY <1>1, <1>4
    <2>3. DecoderTyped' BY <2>2, <1>1, <1>2, <1>4 DEF DecoderTyped, Unheard, rtspVars
    <2>4. Lists(awaiting', log') BY <1>2, <1>4 DEF Unheard
    <2> QED BY <2>1, <2>3, <2>4, <1>4
  <1>5. ASSUME /\ kind' \in {"rtsp", "tls", "raw"} /\ Untold /\ Grows({kind'})
               /\ rtspAwait' \in Seq(1..nextId') /\ glued' \in BOOLEAN
               /\ stuck' \subseteq {"c2s", "s2c"}
        PROVE  DecoderTyped' /\ Ids' /\ Lists(awaiting', log')
    <2>1. Grows({"raw", "tls", "rtsp"}) BY <1>5 DEF Grows
    <2>2. building' = building /\ responding' = responding /\ awaiting' = awaiting
      BY <1>2 DEF Unheard
    <2>3. /\ log' \in Seq(Entries) /\ nextId' \in Nat \ {0} /\ nextId <= nextId'
          /\ Ids' /\ Lists(awaiting, log')
      BY <2>1, <2>2, GrowsIds
    <2>4. DecoderTyped' BY <1>1, <1>2, <1>5, <2>3, Widened DEF DecoderTyped, Untold
    <2> QED BY <2>2, <2>3, <2>4
  <1>6. CASE kind' = "rtsp" /\ RtspParse("c2s", t) /\ Untold
    <2>1. kind \in {"none", "rtsp"}
      BY <1>1, <1>6, ClientCases
    <2>2. \A i \in 1..Len(log) : log[i].tag = "rtsp" BY <2>1, RtspTags
    <2>3. /\ Grows({"rtsp"}) /\ rtspAwait' \in Seq(1..nextId')
          /\ glued' \in BOOLEAN /\ stuck' \subseteq {"c2s", "s2c"}
      BY <1>6, <2>2, RtspGrows
    <2> QED BY <2>3, <1>5, <1>6
  <1>7. CASE kind' = "tls" /\ TlsFeed(t) /\ Untold
    <2>1. /\ Grows({"tls"}) /\ log' # << >> /\ stuck' \subseteq {"c2s", "s2c"}
          /\ glued' = glued /\ rtspAwait' = rtspAwait
      BY <1>7, TlsGrows
    <2>2. rtspAwait' \in Seq(1..nextId')
      <3>1. Grows({"raw", "tls", "rtsp"}) BY <2>1 DEF Grows
      <3>2. nextId' \in Nat \ {0} /\ nextId <= nextId' BY <3>1, <1>2, GrowsIds DEF Unheard
      <3> QED BY <3>2, <2>1, <1>2, Widened
    <2> QED BY <2>1, <2>2, <1>1, <1>5, <1>7
  <1>8. CASE kind' = "raw" /\ RawTouch /\ Untold
    <2>1. /\ Grows({"raw"}) /\ log' # << >> /\ UNCHANGED rtspVars
      BY <1>8, RawGrows
    <2>2. rtspAwait' \in Seq(1..nextId')
      <3>1. Grows({"raw", "tls", "rtsp"}) BY <2>1 DEF Grows
      <3>2. nextId' \in Nat \ {0} /\ nextId <= nextId' BY <3>1, <1>2, GrowsIds DEF Unheard
      <3> QED BY <3>2, <2>1, <1>2, Widened DEF rtspVars
    <2>3. glued' = glued /\ stuck' = stuck BY <2>1 DEF rtspVars
    <2> QED BY <2>1, <2>2, <2>3, <1>1, <1>5, <1>8
  <1> QED BY <1>3, <1>4, <1>6, <1>7, <1>8, ClientCases

\* And what a piece of the camera leaves.
LEMMA CameraCore ==
  ASSUME DecoderTyped, Decided, Ids, Lists(awaiting, log),
         NEW t, t.n \in 0..MaxReq, FeedS2C(t), kind' = "http" => t \in CameraTokens
  PROVE  /\ DecoderTyped' /\ Ids' /\ Lists(awaiting', log')
         /\ kind' \in {"rtsp", "raw"} => Grows({kind'})
         /\ kind' = "raw" => log' # << >>
  <1>1. /\ feeding \in {"none", "c2s", "s2c"}
        /\ c \in Machines /\ s \in Machines /\ cbuf \in Seq(ClientTokens)
        /\ sbuf \in Seq(CameraTokens) /\ kind \in {"none", "http", "rtsp", "tls", "raw"}
        /\ glued \in BOOLEAN /\ stuck \subseteq {"c2s", "s2c"} /\ sniff' \in BOOLEAN
        /\ rtspAwait \in Seq(1..nextId)
    BY CameraCases DEF DecoderTyped
  <1>2. Unheard BY CameraCases
  <1>3. CASE kind' = "none" /\ UNCHANGED <<log, nextId, rtspVars>> /\ Untold
    <2>1. Ids' BY <1>2, <1>3 DEF Ids, Unheard, Unique
    <2>2. DecoderTyped' BY <1>1, <1>2, <1>3 DEF DecoderTyped, Unheard, Untold, rtspVars
    <2>3. Lists(awaiting', log') BY <1>2, <1>3 DEF Unheard
    <2> QED BY <2>1, <2>2, <2>3, <1>3
  <1>4. CASE /\ kind' = "http" /\ UNCHANGED <<log, nextId, rtspVars, cbuf, c, s>>
             /\ sbuf' = Append(sbuf, t) /\ feeding' = "s2c"
    <2>1. Ids' BY <1>2, <1>4 DEF Ids, Unheard, Unique
    <2>2. sbuf' \in Seq(CameraTokens) BY <1>1, <1>4
    <2>3. DecoderTyped' BY <2>2, <1>1, <1>2, <1>4 DEF DecoderTyped, Unheard, rtspVars
    <2>4. Lists(awaiting', log') BY <1>2, <1>4 DEF Unheard
    <2> QED BY <2>1, <2>3, <2>4, <1>4
  <1>5. ASSUME /\ kind' \in {"rtsp", "tls", "raw"} /\ Untold
               /\ Grows({"rtsp"}) \/ Grows({"raw"})
               /\ rtspAwait' \in Seq(1..nextId') /\ glued' \in BOOLEAN
               /\ stuck' \subseteq {"c2s", "s2c"}
        PROVE  DecoderTyped' /\ Ids' /\ Lists(awaiting', log')
    <2>1. Grows({"raw", "tls", "rtsp"}) BY <1>5 DEF Grows
    <2>2. building' = building /\ responding' = responding /\ awaiting' = awaiting
      BY <1>2 DEF Unheard
    <2>3. /\ log' \in Seq(Entries) /\ nextId' \in Nat \ {0} /\ nextId <= nextId'
          /\ Ids' /\ Lists(awaiting, log')
      BY <2>1, <2>2, GrowsIds
    <2>4. DecoderTyped' BY <1>1, <1>2, <1>5, <2>3, Widened DEF DecoderTyped, Untold
    <2> QED BY <2>2, <2>3, <2>4
  <1>6. CASE kind' = "rtsp" /\ RtspParse("s2c", t) /\ Untold
    <2>1. kind \in {"none", "rtsp"}
      BY <1>1, <1>6, CameraCases
    <2>2. \A i \in 1..Len(log) : log[i].tag = "rtsp" BY <2>1, RtspTags
    <2>3. /\ Grows({"rtsp"}) /\ rtspAwait' \in Seq(1..nextId')
          /\ glued' \in BOOLEAN /\ stuck' \subseteq {"c2s", "s2c"}
      BY <1>6, <2>2, RtspGrows
    <2> QED BY <2>3, <1>5, <1>6
  <1>7. CASE kind' \in {"tls", "raw"} /\ RawTouch /\ Untold
    <2>1. /\ Grows({"raw"}) /\ log' # << >> /\ UNCHANGED rtspVars
      BY <1>7, RawGrows
    <2>2. rtspAwait' \in Seq(1..nextId')
      <3>1. Grows({"raw", "tls", "rtsp"}) BY <2>1 DEF Grows
      <3>2. nextId' \in Nat \ {0} /\ nextId <= nextId' BY <3>1, <1>2, GrowsIds DEF Unheard
      <3> QED BY <3>2, <2>1, <1>2, Widened DEF rtspVars
    <2>3. glued' = glued /\ stuck' = stuck BY <2>1 DEF rtspVars
    <2> QED BY <2>1, <2>2, <2>3, <1>1, <1>5, <1>7
  <1> QED BY <1>3, <1>4, <1>6, <1>7, CameraCases

LEMMA RawStays ==
  ASSUME RawCause, ~closed, dialect' = dialect, fits' = fits, begun \subseteq begun',
         extra \subseteq extra'
  PROVE  RawCause'
  BY DEF RawCause

\* The decision stands, or is made as Decided says.
LEMMA ClientDecided ==
  ASSUME DecoderTyped, Decided, Ids, Lists(awaiting, log), ~closed,
         NEW t, t.n \in 0..MaxReq, FeedC2S(t), kind' = "http" => t \in ClientTokens,
         dialect' = dialect, fits' = fits, begun \subseteq begun', extra \subseteq extra',
         heads \in Nat, heads' \in Nat, heads <= heads',
         dialect \in {"http", "rtsp", "tls", "other"},
         kind = "none" => \/ /\ t.kind = "few" /\ heads' = 0
                             /\ begun' = begun \cup {"few"} /\ extra' = extra
                          \/ t.kind = "part" /\ "part" \in begun' /\ dialect \in {"http", "rtsp"}
                          \/ t.kind = "head" /\ heads' > 0
  PROVE  Decided'
  <1>1. kind \in {"none", "http", "rtsp", "tls", "raw"} BY DEF DecoderTyped
  <1>2. closed' = FALSE /\ Unheard /\ sniff' = (kind' = "none")
    BY ClientCases DEF Unheard, DecoderTyped
  <1>3. log = << >> => Len(log) = 0 OBVIOUS
  <1>4. CASE kind' = "none" /\ UNCHANGED <<log, nextId, rtspVars>> /\ Untold
    <2>1. kind = "none" /\ t.kind = "few"
      <3>1. Decide(t) # "none" BY DEF Decide
      <3> QED BY <1>4, <3>1, ClientCases
    <2>2. log' = << >> /\ "part" \notin begun' /\ "banner" \notin extra' /\ heads' = 0
          /\ "few" \in begun' /\ sniff' = TRUE /\ rtspAwait' = << >> /\ Initial'
      BY <1>2, <1>4, <2>1 DEF Decided, Initial, Unheard, Untold, rtspVars
    <2>3. feeding' = "none" BY <1>4, <2>1 DEF Decided, Untold
    <2> QED BY <1>2, <1>4, <2>2, <2>3 DEF Decided
  <1>5. CASE /\ kind' = "http" /\ UNCHANGED <<log, nextId, rtspVars, sbuf, c, s>>
             /\ cbuf' = Append(cbuf, t) /\ feeding' = "c2s"
    <2>1. kind \in {"none", "http"} /\ (kind = "none" => Decide(t) = "http" /\ t.kind # "few")
      BY <1>1, <1>5, ClientCases
    <2>2. dialect' = "http" /\ heads' > 0
      BY <2>1 DEF Decided, Decide
    <2>3. \A i \in 1..Len(log') : log'[i].tag = "http"
      BY <1>3, <1>5, <2>1 DEF Decided
    <2>4. rtspAwait' = << >> BY <1>5, <2>1 DEF Decided, rtspVars
    <2>5. sniff' = FALSE BY <1>2, <1>5
    <2> QED BY <1>2, <1>5, <2>2, <2>3, <2>4, <2>5 DEF Decided
  <1>6. CASE kind' = "rtsp" /\ RtspParse("c2s", t) /\ Untold
    <2>1. kind \in {"none", "rtsp"} /\ (kind = "none" => Decide(t) = "rtsp" /\ t.kind # "few")
      BY <1>1, <1>6, ClientCases
    <2>2. dialect' = "rtsp" /\ heads' > 0
      BY <2>1 DEF Decided, Decide
    <2>3. \A i \in 1..Len(log') : log'[i].tag = "rtsp"
      <3>1. \A i \in 1..Len(log) : log[i].tag = "rtsp" BY <2>1, RtspTags
      <3>2. Grows({"rtsp"}) BY <1>6, ClientCore
      <3>3. {"rtsp"} \subseteq {"raw", "tls", "rtsp"} OBVIOUS
      <3> QED BY <3>1, <3>2, <3>3, GrowsTags
    <2>4. Initial' /\ feeding' = "none"
      BY <1>2, <1>6, <2>1 DEF Decided, Initial, Unheard, Untold
    <2>5. sniff' = FALSE BY <1>2, <1>6
    <2> QED BY <1>2, <1>6, <2>2, <2>3, <2>4, <2>5 DEF Decided
  <1>7. CASE kind' = "tls" /\ TlsFeed(t) /\ Untold
    <2>1. kind \in {"none", "tls"} /\ (kind = "none" => Decide(t) = "tls" /\ t.kind # "few")
      BY <1>1, <1>7, ClientCases
    <2>2. dialect = "tls"
      BY <2>1 DEF Decided, Decide
    <2>3. heads' > 0
      <3>1. kind = "tls" => heads > 0 BY DEF Decided
      <3> QED BY <2>1, <2>2, <3>1
    <2>4. Grows({"tls"}) /\ log' # << >> BY <1>7, ClientCore
    <2>5. \A i \in 1..Len(log') : log'[i].tag = "tls"
      <3>1. \A i \in 1..Len(log) : log[i].tag = "tls" BY <1>3, <2>1 DEF Decided
      <3>2. {"tls"} \subseteq {"raw", "tls", "rtsp"} OBVIOUS
      <3> QED BY <2>4, <3>1, <3>2, GrowsTags
    <2>6. Initial' /\ feeding' = "none"
      BY <1>2, <1>7, <2>1 DEF Decided, Initial, Unheard, Untold
    <2>7. rtspAwait' = << >> BY <1>7, <2>1 DEF Decided, TlsFeed
    <2>8. sniff' = FALSE BY <1>2, <1>7
    <2> QED BY <1>2, <1>7, <2>2, <2>3, <2>4, <2>5, <2>6, <2>7, <2>8 DEF Decided
  <1>8. CASE kind' = "raw" /\ RawTouch /\ Untold
    <2>1. kind \in {"none", "raw"} /\ (kind = "none" => Decide(t) = "raw" /\ t.kind # "few")
      BY <1>1, <1>8, ClientCases
    <2>2. RawCause' \/ /\ \E i \in 1..Len(log') : log'[i].tag = "failed"
                       /\ \A i \in 1..Len(log') : log'[i].tag # "raw"
      <3>1. CASE RawCause
        BY <3>1, RawStays
      <3>2. CASE kind = "none"
        <4>1. Decide(t) = "raw" /\ t.kind # "few" BY <2>1, <3>2
        <4>2. dialect = "other" \/ dialect \in {"http", "rtsp"} BY <4>1 DEF Decide
        <4>3. CASE dialect = "other" BY <4>3 DEF RawCause
        <4>4. CASE dialect \in {"http", "rtsp"}
          <5>1. ~fits \/ "part" \in begun' BY <3>2, <4>1, <4>4 DEF Decide
          <5> QED BY <4>4, <5>1 DEF RawCause
        <4> QED BY <4>2, <4>3, <4>4
      <3>3. CASE /\ \E i \in 1..Len(log) : log[i].tag = "failed"
                 /\ \A i \in 1..Len(log) : log[i].tag # "raw"
        <4>1. log' = log BY <1>8, <3>3, RawGrows
        <4> QED BY <3>3, <4>1
      <3> QED BY <2>1, <3>1, <3>2, <3>3 DEF Decided
    <2>3. feeding' = "none" BY <1>8, <2>1 DEF Decided, Untold
    <2>4. rtspAwait' = << >> BY <1>8, <2>1 DEF Decided, RawTouch, rtspVars
    <2>5. sniff' = FALSE BY <1>2, <1>8
    <2> QED BY <1>2, <1>8, <2>2, <2>3, <2>4, <2>5 DEF Decided
  <1> QED BY <1>4, <1>5, <1>6, <1>7, <1>8, ClientCases

LEMMA CameraDecided ==
  ASSUME DecoderTyped, Decided, Ids, Lists(awaiting, log), ~closed,
         NEW t, t.n \in 0..MaxReq, FeedS2C(t), kind' = "http" => t \in CameraTokens,
         extra \subseteq extra', heads \in Nat, heads' = heads,
         kind = "none" => IF sniff THEN "banner" \notin extra' ELSE "banner" \in extra'
  PROVE  Decided'
  <1>1. kind \in {"none", "http", "rtsp", "tls", "raw"} BY DEF DecoderTyped
  <1>2. closed' = FALSE /\ Unheard /\ sniff' = sniff /\ dialect' = dialect /\ fits' = fits
        /\ begun' = begun
    BY CameraCases DEF Unheard, DecoderTyped, firstVars
  <1>3. log = << >> => Len(log) = 0 OBVIOUS
  <1>4. CASE kind' = "none" /\ UNCHANGED <<log, nextId, rtspVars>> /\ Untold
    <2>1. kind = "none" /\ sniff BY <1>1, <1>4, CameraCases
    <2> QED BY <1>2, <1>4, <2>1 DEF Decided, Initial, Unheard, Untold, rtspVars
  <1>5. CASE /\ kind' = "http" /\ UNCHANGED <<log, nextId, rtspVars, cbuf, c, s>>
             /\ sbuf' = Append(sbuf, t) /\ feeding' = "s2c"
    <2>1. kind = "http" BY <1>1, <1>5, CameraCases
    <2> QED BY <1>2, <1>5, <2>1 DEF Decided, rtspVars
  <1>6. CASE kind' = "rtsp" /\ RtspParse("s2c", t) /\ Untold
    <2>1. kind = "rtsp" BY <1>1, <1>6, CameraCases
    <2>2. \A i \in 1..Len(log') : log'[i].tag = "rtsp"
      <3>1. \A i \in 1..Len(log) : log[i].tag = "rtsp" BY <2>1, RtspTags
      <3>2. Grows({"rtsp"}) BY <1>6, CameraCore
      <3>3. {"rtsp"} \subseteq {"raw", "tls", "rtsp"} OBVIOUS
      <3> QED BY <3>1, <3>2, <3>3, GrowsTags
    <2> QED BY <1>2, <1>6, <2>1, <2>2 DEF Decided, Initial, Unheard, Untold
  <1>7. CASE kind' = "tls" /\ RawTouch /\ Untold
    <2>1. kind = "tls" /\ heads > 0 /\ log # << >> BY <1>1, <1>7, CameraCases DEF Decided
    <2>2. log \in Seq(Entries) BY DEF DecoderTyped
    <2>3. 1 \in 1..Len(log) BY <2>1, <2>2
    <2>4. log' = log /\ rtspAwait' = rtspAwait
      BY <1>7, <2>1, <2>3, RawGrows DEF Decided, rtspVars
    <2> QED BY <1>2, <1>7, <2>1, <2>4 DEF Decided, Initial, Unheard, Untold
  <1>8. CASE kind' = "raw" /\ RawTouch /\ Untold
    <2>1. kind = "raw" \/ (kind = "none" /\ ~sniff) BY <1>1, <1>8, CameraCases
    <2>2. RawCause' \/ /\ \E i \in 1..Len(log') : log'[i].tag = "failed"
                       /\ \A i \in 1..Len(log') : log'[i].tag # "raw"
      <3>1. CASE RawCause
        BY <1>2, <3>1, RawStays
      <3>2. CASE kind = "none"
        BY <2>1, <3>2 DEF RawCause
      <3>3. CASE /\ \E i \in 1..Len(log) : log[i].tag = "failed"
                 /\ \A i \in 1..Len(log) : log[i].tag # "raw"
        <4>1. log' = log BY <1>8, <3>3, RawGrows
        <4> QED BY <3>3, <4>1
      <3> QED BY <2>1, <3>1, <3>2, <3>3 DEF Decided
    <2>3. feeding' = "none" BY <1>8, <2>1 DEF Decided, Untold
    <2>4. rtspAwait' = << >> BY <1>8, <2>1 DEF Decided, RawTouch, rtspVars
    <2>5. sniff' = FALSE BY <1>2, <2>1 DEF Decided, DecoderTyped
    <2> QED BY <1>2, <1>8, <2>2, <2>3, <2>4, <2>5 DEF Decided
  <1>9. \/ kind' = "tls" /\ RawTouch /\ Untold
        \/ kind' = "raw" /\ RawTouch /\ Untold
        \/ ~(kind' \in {"tls", "raw"} /\ RawTouch /\ Untold)
    OBVIOUS
  <1> QED BY <1>4, <1>5, <1>6, <1>7, <1>8, <1>9, CameraCases

----------------------------------------------------------------------------
(* What holds whatever overlaps, step by step.                              *)

LEMMA TokenIs ==
  ASSUME NEW k, NEW n, NEW o
  PROVE  Token(k, n, o).kind = k /\ Token(k, n, o).n = n /\ Token(k, n, o).opt = o
  BY DEF Token

LEMMA ClientToken ==
  ASSUME NEW k \in {"head", "end"}, NEW n \in 1..MaxReq, NEW o \in Options
  PROVE  Token(k, n, o) \in ClientTokens
  BY DEF Token, ClientTokens

LEMMA CameraToken ==
  ASSUME NEW k \in {"info", "switch", "answer", "done"}, NEW n \in 1..MaxReq, NEW o \in Options
  PROVE  Token(k, n, o) \in CameraTokens
  BY DEF Token, CameraTokens

LEMMA PieceSound ==
  ASSUME Sound, NEW k \in {"few", "part"}, ClientPiece(k)
  PROVE  Sound'
  <1>1. PICK t : t = Token(k, 0, "plain") OBVIOUS
  <1>2. /\ FeedC2S(t) /\ ~closed /\ heads = 0 /\ heads' = heads /\ dialect' = dialect
        /\ fits' = fits /\ extra' = extra /\ begun' = begun \cup {k}
        /\ k = "part" => dialect \in {"http", "rtsp"}
    BY <1>1 DEF ClientPiece, Quiet, netVars, clientVars
  <1>3. t.kind = k /\ t.n \in 0..MaxReq BY <1>1, TokenIs, HttpAssumption
  <1>4. kind' # "http"
    <2>1. kind # "http" BY <1>2, NetNumbers DEF Sound, Decided
    <2>2. kind = "none" => kind' # "http" BY <1>2, <1>3, ClientCases DEF Sound, Decide
    <2> QED BY <1>2, <1>3, <2>1, <2>2, ClientCases DEF Sound
  <1>5. DecoderTyped' /\ Ids' /\ Lists(awaiting', log')
    BY <1>2, <1>3, <1>4, ClientCore DEF Sound
  <1>6. Decided'
    <2>1. begun \subseteq begun' /\ extra \subseteq extra' /\ heads \in Nat /\ heads' \in Nat
          /\ heads <= heads' /\ dialect \in {"http", "rtsp", "tls", "other"}
      BY <1>2 DEF Sound, NetTyped
    <2>2. \/ t.kind = "few" /\ heads' = 0 /\ begun' = begun \cup {"few"} /\ extra' = extra
          \/ t.kind = "part" /\ "part" \in begun' /\ dialect \in {"http", "rtsp"}
      BY <1>2, <1>3
    <2> QED BY <1>2, <1>3, <1>4, <2>1, <2>2, ClientDecided DEF Sound
  <1>7. NetTyped' /\ Wire' BY PieceNet DEF Sound
  <1>8. closed' = FALSE BY <1>2, <1>3, ClientCases DEF Sound, Unheard, DecoderTyped
  <1> QED BY <1>5, <1>6, <1>7, <1>8 DEF Sound

LEMMA HeadSound ==
  ASSUME Sound, NEW o \in {"plain", "upgrade"}, ClientHead(o)
  PROVE  Sound'
  <1>1. PICK t : t = Token("head", heads + 1, o) OBVIOUS
  <1>2. /\ FeedC2S(t) /\ ~closed /\ heads < MaxReq /\ heads' = heads + 1 /\ dialect' = dialect
        /\ fits' = fits /\ extra' = extra /\ begun' = begun
    BY <1>1 DEF ClientHead, BeginRequest, Quiet, firstVars
  <1>3. /\ heads \in Nat /\ MaxReq \in Nat /\ heads + 1 \in 1..MaxReq /\ o \in Options
        /\ heads' \in Nat /\ heads <= heads' /\ heads' > 0
    BY <1>2, NetNumbers DEF Sound, Options
  <1>4. t \in ClientTokens /\ t.kind = "head" /\ t.n \in 0..MaxReq
    BY <1>1, <1>3, ClientToken, TokenIs
  <1>5. DecoderTyped' /\ Ids' /\ Lists(awaiting', log')
    BY <1>2, <1>4, ClientCore DEF Sound
  <1>6. Decided'
    <2>1. begun \subseteq begun' /\ extra \subseteq extra'
          /\ dialect \in {"http", "rtsp", "tls", "other"}
      BY <1>2 DEF Sound, NetTyped
    <2> QED BY <1>2, <1>3, <1>4, <2>1, ClientDecided DEF Sound
  <1>7. NetTyped' /\ Wire' BY HeadNet DEF Sound
  <1>8. closed' = FALSE BY <1>2, <1>4, ClientCases DEF Sound, Unheard, DecoderTyped
  <1> QED BY <1>5, <1>6, <1>7, <1>8 DEF Sound

LEMMA EndSound ==
  ASSUME Sound, ClientEnd
  PROVE  Sound'
  <1>1. PICK o \in {"plain", "unreadable"} : FeedC2S(Token("end", heads, o))
    BY DEF ClientEnd
  <1>2. PICK t : t = Token("end", heads, o) OBVIOUS
  <1>3. /\ FeedC2S(t) /\ ~closed /\ ends < heads /\ heads' = heads /\ dialect' = dialect
        /\ fits' = fits /\ extra' = extra /\ begun' = begun
    BY <1>1, <1>2 DEF ClientEnd, CompleteRequest, Quiet, firstVars
  <1>4. heads \in Nat /\ heads \in 1..MaxReq /\ heads > 0 /\ o \in Options /\ kind # "none"
    BY <1>3, NetNumbers DEF Sound, Options, Decided
  <1>5. t \in ClientTokens /\ t.kind = "end" /\ t.n \in 0..MaxReq
    BY <1>2, <1>4, ClientToken, TokenIs
  <1>6. DecoderTyped' /\ Ids' /\ Lists(awaiting', log')
    BY <1>3, <1>5, ClientCore DEF Sound
  <1>7. Decided'
    <2>1. begun \subseteq begun' /\ extra \subseteq extra' /\ heads' \in Nat /\ heads <= heads'
          /\ dialect \in {"http", "rtsp", "tls", "other"}
      BY <1>3, <1>4 DEF Sound, NetTyped
    <2> QED BY <1>3, <1>4, <1>5, <2>1, ClientDecided DEF Sound
  <1>8. NetTyped' /\ Wire' BY EndNet DEF Sound
  <1>9. closed' = FALSE BY <1>3, <1>5, ClientCases DEF Sound, Unheard, DecoderTyped
  <1> QED BY <1>6, <1>7, <1>8, <1>9 DEF Sound

LEMMA ReplySound ==
  ASSUME Sound, ClientReply
  PROVE  Sound'
  <1>1. PICK t : t = Token("reply", 0, "plain") OBVIOUS
  <1>2. /\ FeedC2S(t) /\ ~closed /\ heads' = heads /\ dialect' = dialect /\ "own" \in extra
        /\ fits' = fits /\ extra' = extra \cup {"reply"} /\ begun' = begun
    BY <1>1 DEF ClientReply, Quiet, firstVars, netVars, clientVars
  <1>3. t.kind = "reply" /\ t.n \in 0..MaxReq BY <1>1, TokenIs, HttpAssumption
  <1>4. heads \in Nat /\ heads > 0 /\ kind # "none" /\ kind # "http"
    BY <1>2, NetNumbers DEF Sound, Wire, Decided
  <1>5. kind' # "http" BY <1>2, <1>3, <1>4, ClientCases DEF Sound
  <1>6. DecoderTyped' /\ Ids' /\ Lists(awaiting', log')
    BY <1>2, <1>3, <1>5, ClientCore DEF Sound
  <1>7. Decided'
    <2>1. begun \subseteq begun' /\ extra \subseteq extra' /\ heads' \in Nat /\ heads <= heads'
          /\ dialect \in {"http", "rtsp", "tls", "other"}
      BY <1>2, <1>4 DEF Sound, NetTyped
    <2> QED BY <1>2, <1>3, <1>4, <1>5, <2>1, ClientDecided DEF Sound
  <1>8. NetTyped' /\ Wire' BY ReplyNet DEF Sound
  <1>9. closed' = FALSE BY <1>2, <1>3, ClientCases DEF Sound, Unheard, DecoderTyped
  <1> QED BY <1>6, <1>7, <1>8, <1>9 DEF Sound

\* All that the camera does has the same form.
LEMMA CameraSound ==
  ASSUME Sound, NetTyped', Wire', ~closed, NEW t, t.n \in 0..MaxReq, FeedS2C(t),
         kind = "http" => t \in CameraTokens,
         extra \subseteq extra', heads' = heads,
         kind = "none" => IF sniff THEN "banner" \notin extra' ELSE "banner" \in extra'
  PROVE  Sound'
  <1>1. kind' = "http" => t \in CameraTokens
    <2>1. kind' = "http" => kind = "http" BY CameraCases DEF Sound
    <2> QED BY <2>1
  <1>2. DecoderTyped' /\ Ids' /\ Lists(awaiting', log')
    BY <1>1, CameraCore DEF Sound
  <1>3. heads \in Nat BY NetNumbers DEF Sound
  <1>4. Decided' BY <1>1, <1>3, CameraDecided DEF Sound
  <1>5. closed' = FALSE BY CameraCases DEF Sound, Unheard, DecoderTyped
  <1> QED BY <1>2, <1>4, <1>5 DEF Sound

LEMMA FeedKeepsFirst ==
  ASSUME NEW t, FeedS2C(t)
  PROVE  UNCHANGED firstVars
  BY DEF FeedS2C

LEMMA InfoSound ==
  ASSUME Sound, CameraInfo
  PROVE  Sound'
  <1>1. PICK t : t = Token("info", answered + 1, "plain") OBVIOUS
  <1>2. FeedS2C(t) /\ ~closed /\ answered < heads /\ heads' = heads /\ extra' = extra
    BY <1>1 DEF CameraInfo, Inform, MayAnswer, Quiet, clientVars
  <1>3. NetTyped' /\ Wire' BY <1>2, InfoNet, FeedKeepsFirst DEF Sound
  <1>4. answered + 1 \in 1..MaxReq /\ "plain" \in Options /\ kind # "none"
    BY <1>2, NetNumbers DEF Sound, Options, Decided
  <1>5. t \in CameraTokens /\ t.n \in 0..MaxReq BY <1>1, <1>4, CameraToken, TokenIs
  <1> QED BY <1>2, <1>3, <1>4, <1>5, CameraSound

LEMMA SwitchSound ==
  ASSUME Sound, CameraSwitch
  PROVE  Sound'
  <1>1. PICK t : t = Token("switch", answered + 1, "plain") OBVIOUS
  <1>2. FeedS2C(t) /\ ~closed /\ answered < heads /\ heads' = heads /\ extra' = extra
    BY <1>1 DEF CameraSwitch, SwitchProtocols, MayAnswer, Quiet, clientVars
  <1>3. NetTyped' /\ Wire' BY <1>2, SwitchNet, FeedKeepsFirst DEF Sound
  <1>4. answered + 1 \in 1..MaxReq /\ "plain" \in Options /\ kind # "none"
    BY <1>2, NetNumbers DEF Sound, Options, Decided
  <1>5. t \in CameraTokens /\ t.n \in 0..MaxReq BY <1>1, <1>4, CameraToken, TokenIs
  <1> QED BY <1>2, <1>3, <1>4, <1>5, CameraSound

LEMMA AnswerSound ==
  ASSUME Sound, NEW f \in Framings, CameraAnswer(f)
  PROVE  Sound'
  <1>1. PICK t : t = Token("answer", answered + 1, f) OBVIOUS
  <1>2. FeedS2C(t) /\ ~closed /\ answered < heads /\ heads' = heads /\ extra' = extra
    BY <1>1 DEF CameraAnswer, BeginAnswer, MayAnswer, Quiet, clientVars
  <1>3. NetTyped' /\ Wire' BY <1>2, AnswerNet, FeedKeepsFirst DEF Sound
  <1>4. answered + 1 \in 1..MaxReq /\ f \in Options /\ kind # "none"
    BY <1>2, NetNumbers, HttpAssumption DEF Sound, Options, Decided
  <1>5. t \in CameraTokens /\ t.n \in 0..MaxReq BY <1>1, <1>4, CameraToken, TokenIs
  <1> QED BY <1>2, <1>3, <1>4, <1>5, CameraSound

LEMMA DoneSound ==
  ASSUME Sound, CameraDone
  PROVE  Sound'
  <1>1. PICK o \in {"plain", "unreadable"} : FeedS2C(Token("done", answered, o))
    BY DEF CameraDone
  <1>2. PICK t : t = Token("done", answered, o) OBVIOUS
  <1>3. FeedS2C(t) /\ ~closed /\ finished < answered /\ heads' = heads /\ extra' = extra
    BY <1>1, <1>2 DEF CameraDone, CompleteAnswer, Quiet, clientVars
  <1>4. NetTyped' /\ Wire' BY <1>3, DoneNet, FeedKeepsFirst DEF Sound
  <1>5. answered \in 1..MaxReq /\ o \in Options /\ kind # "none"
    BY <1>3, NetNumbers DEF Sound, Options, Decided
  <1>6. t \in CameraTokens /\ t.n \in 0..MaxReq BY <1>2, <1>5, CameraToken, TokenIs
  <1> QED BY <1>3, <1>4, <1>5, <1>6, CameraSound

LEMMA UnaskedSound ==
  ASSUME Sound, NEW k \in Extras \ {"reply"}, CameraUnasked(k)
  PROVE  Sound'
  <1>1. PICK t : t = Token(k, 0, "plain") OBVIOUS
  <1>2. /\ FeedS2C(t) /\ ~closed /\ heads' = heads /\ extra' = extra \cup {k}
        /\ \/ k = "banner" /\ heads = 0 /\ begun = {}
           \/ k = "aside" /\ heads = 0 /\ begun # {}
           \/ k \notin {"banner", "aside"} /\ dialect = "rtsp" /\ heads > 0
    BY <1>1 DEF CameraUnasked, Quiet, netVars, clientVars
  <1>3. NetTyped' /\ Wire' BY <1>2, UnaskedNet, FeedKeepsFirst DEF Sound
  <1>4. t.n \in 0..MaxReq BY <1>1, TokenIs, HttpAssumption
  <1>5. heads \in Nat /\ kind # "http" BY <1>2, NetNumbers DEF Sound, Decided
  <1>6. kind = "none" => IF sniff THEN "banner" \notin extra' ELSE "banner" \in extra'
    BY <1>2, <1>5 DEF Sound, Decided
  <1> QED BY <1>2, <1>3, <1>4, <1>5, <1>6, CameraSound

\* close() notes exactly what is still in the queue.
LEMMA NotedIs ==
  ASSUME Sound
  PROVE  Noted = Range(awaiting)
  <1>1. /\ log \in Seq(Entries) /\ \A i \in 1..Len(log) : log[i].id # 0
        /\ \A i, j \in 1..Len(log) : log[i].id = log[j].id => i = j
    BY EntryTyped DEF Sound, DecoderTyped, Ids, Unique
  <1>2. ASSUME NEW x \in Range(awaiting) PROVE x \in Noted
    <2>1. PICK p \in Open(log) : log[p].id = x BY <1>2 DEF Sound, Lists
    <2> QED BY <1>2, <2>1 DEF Noted, Open
  <1>3. ASSUME NEW x \in Noted PROVE x \in Range(awaiting)
    <2>1. PICK i \in 1..Len(log) : log[i].id = x /\ log[i].ans = 0 BY <1>3 DEF Noted
    <2>2. CASE x = responding
      <3>1. responding # 0 BY <1>1, <2>1, <2>2
      <3>2. PICK j \in 1..Len(log) : log[j].id = responding /\ log[j].ans # 0
        BY <3>1 DEF Sound, Ids
      <3> QED BY <1>1, <2>1, <2>2, <3>2
    <2> QED BY <1>3, <2>2 DEF Noted
  <1> QED BY <1>2, <1>3

LEMMA CloseSound ==
  ASSUME Sound, Close
  PROVE  Sound' /\ noted' = Range(awaiting')
  <1>1. /\ feeding = "none" /\ closed = FALSE /\ closed' = TRUE /\ sniff' = FALSE
        /\ noted' = Range(awaiting)
        /\ UNCHANGED <<netVars, feeding, h11Vars, building, awaiting, responding, firstVars, extra>>
    BY NotedIs DEF Close, Quiet, Sound, DecoderTyped
  <1>2. NetTyped' /\ Wire' BY <1>1, QuietNet DEF Sound
  <1>3. /\ Grows({"raw"}) /\ UNCHANGED rtspVars
        /\ IF sniff THEN /\ kind = "none" /\ log' # << >>
                         /\ kind' = IF dialect = "tls" THEN "tls" ELSE "raw"
                    ELSE kind' = kind /\ log' = log
    <2>1. CASE sniff
      <3>1. RawTouch /\ kind' = Decide(Token("few", 0, "plain")) BY <2>1 DEF Close
      <3>2. kind' = IF dialect = "tls" THEN "tls" ELSE "raw" BY <3>1, TokenIs DEF Decide
      <3> QED BY <2>1, <3>1, <3>2, RawGrows DEF Sound, Decided
    <2>2. CASE ~sniff
      <3>1. UNCHANGED <<log, nextId, kind, rtspVars>> BY <2>2 DEF Close
      <3> QED BY <2>2, <3>1, GrowsNot DEF Sound
    <2> QED BY <2>1, <2>2
  <1>4. /\ log' \in Seq(Entries) /\ nextId' \in Nat \ {0} /\ nextId <= nextId'
        /\ Ids' /\ Lists(awaiting, log')
    <2>1. Grows({"raw", "tls", "rtsp"}) BY <1>3 DEF Grows
    <2> QED BY <1>1, <2>1, GrowsIds DEF Sound
  <1>5. DecoderTyped'
    <2>1. nextId \in Nat \ {0} /\ awaiting \in Seq(1..nextId) BY DEF Sound, DecoderTyped
    <2>2. 1..nextId \subseteq 1..nextId' /\ 0..nextId \subseteq 0..nextId' BY <1>4, <2>1
    <2>3. Range(awaiting) \subseteq 1..nextId BY <2>1, RangeIs
    <2>4. \A q \in Seq(1..nextId) : q \in Seq(1..nextId') BY <2>2, SeqWider
    <2>5. kind' \in {"none", "http", "rtsp", "tls", "raw"} BY <1>3 DEF Sound, DecoderTyped
    <2>6. noted' \subseteq 1..nextId' BY <1>1, <2>2, <2>3
    <2>7. /\ feeding' \in {"none", "c2s", "s2c"} /\ c' \in Machines /\ s' \in Machines
          /\ cbuf' \in Seq(ClientTokens) /\ sbuf' \in Seq(CameraTokens)
          /\ building' \in [id : 0..nextId', of : 0..MaxReq]
          /\ awaiting' \in Seq(1..nextId') /\ responding' \in 0..nextId'
          /\ rtspAwait' \in Seq(1..nextId') /\ glued' \in BOOLEAN /\ stuck' \subseteq {"c2s", "s2c"}
      BY <1>1, <1>3, <2>2, <2>4 DEF Sound, DecoderTyped, h11Vars, rtspVars
    <2> QED BY <1>1, <1>4, <2>5, <2>6, <2>7 DEF DecoderTyped
  <1>6. Decided'
    <2>1. /\ heads' = heads /\ dialect' = dialect /\ fits' = fits /\ begun' = begun
          /\ extra' = extra /\ rtspAwait' = rtspAwait /\ (Initial => Initial') /\ feeding' = "none"
      BY <1>1, <1>3 DEF netVars, clientVars, firstVars, rtspVars, h11Vars, Initial
    <2>2. CASE sniff
      <3>1. kind = "none" /\ heads = 0 /\ Initial /\ rtspAwait = << >> /\ log = << >>
        BY <2>2 DEF Sound, Decided
      <3>2. \A i \in 1..Len(log') : log'[i].tag = "raw"
        <4>1. log = << >> => Len(log) = 0 OBVIOUS
        <4>2. {"raw"} \subseteq {"raw", "tls", "rtsp"} OBVIOUS
        <4> QED BY <1>3, <3>1, <4>1, <4>2, GrowsTags DEF Sound
      <3>3. RawCause' BY <1>1, <2>1, <3>1 DEF RawCause
      <3>4. CASE dialect = "tls"
        <4>1. kind' = "tls" /\ log' # << >> BY <1>3, <2>2, <3>4
        <4> QED BY <1>1, <2>1, <3>1, <3>2, <3>3, <3>4, <4>1 DEF Decided
      <3>5. CASE dialect # "tls"
        <4>1. kind' = "raw" BY <1>3, <2>2, <3>5
        <4> QED BY <1>1, <2>1, <3>1, <3>3, <4>1 DEF Decided
      <3> QED BY <3>4, <3>5
    <2>3. CASE ~sniff
      <3>1. kind' = kind /\ log' = log BY <1>3, <2>3
      <3>2. RawCause => RawCause' BY <1>1, <2>1, RawStays
      <3> QED BY <1>1, <2>1, <3>1, <3>2 DEF Sound, Decided
    <2>4. sniff \in BOOLEAN BY DEF Sound, DecoderTyped
    <2> QED BY <2>2, <2>3, <2>4
  <1> QED BY <1>1, <1>2, <1>4, <1>5, <1>6 DEF Sound

----------------------------------------------------------------------------
(* A step of _http_feed.                                                    *)

\* How every event ends.
LEMMA Concluded ==
  ASSUME NEW out \in {"ok", "protocol", "bug"}, NEW l \in Seq(Entries), NEW id \in Nat \ {0},
         NEW q, Unique(l, id), Lists(q, l), \A i \in 1..Len(l) : l[i].tag = "http",
         kind = "http", Conclude(out, l, id)
  PROVE  /\ log' \in Seq(Entries) /\ nextId' \in Nat \ {0} /\ id <= nextId'
         /\ Unique(log', nextId') /\ Lists(q, log')
         /\ \A i \in 1..Len(l) : i \in 1..Len(log') /\ log'[i] = l[i]
         /\ \A i \in 1..Len(log') : i \in 1..Len(l) \/ log'[i].id = id
         /\ \/ /\ kind' = "http" /\ \A i \in 1..Len(log') : log'[i].tag = "http"
               /\ log' = l /\ nextId' = id
            \/ /\ kind' = "raw" /\ feeding' = "none"
               /\ \E i \in 1..Len(log') : log'[i].tag = "failed"
               /\ \A i \in 1..Len(log') : log'[i].tag # "raw"
         /\ feeding' \in {feeding, "none"}
  <1>1. CASE out # "protocol"
    <2>1. kind' = "http" /\ log' = l /\ nextId' = id /\ feeding' \in {feeding, "none"}
      BY <1>1 DEF Conclude
    <2> QED BY <2>1
  <1>2. CASE out = "protocol"
    <2>1. PICK e : e = Entry(id, "failed", 0) OBVIOUS
    <2>2. e \in Entries /\ e.id = id /\ e.tag = "failed"
      BY <2>1, HttpAssumption DEF Entry, Entries
    <2>3. /\ kind' = "raw" /\ feeding' = "none" /\ nextId' = id + 1
          /\ log' = Append(l, e)
      BY <1>2, <2>1 DEF Conclude, AfterNewId
    <2> DEFINE n == Len(l)
    <2>4. /\ log' \in Seq(Entries) /\ n \in Nat /\ Len(log') = n + 1 /\ log'[n + 1] = e
          /\ \A i \in 1..n : log'[i] = l[i]
          /\ \A i \in 1..Len(log') : i \in 1..n \/ i = n + 1
      BY <2>2, <2>3, Appended
    <2>5. \A i \in 1..n : l[i].id < id /\ l[i].id \in Nat /\ l[i].tag = "http"
      BY EntryTyped DEF Unique
    <2>6. Unique(log', nextId')
      <3>1. /\ id \in Nat /\ nextId' \in Nat /\ e.id < nextId' /\ id <= nextId'
        BY <2>2, <2>3
      <3>2. \A i \in 1..n : l[i].id # e.id BY <2>2, <2>5
      <3> QED BY <2>2, <2>3, <3>1, <3>2, UniqueAppend
    <2>7. Lists(q, log') BY <2>2, <2>3, ListsAppendOther
    <2> HIDE DEF n
    <2>8. /\ \A i \in 1..n : i \in 1..Len(log') /\ log'[i] = l[i]
          /\ \A i \in 1..Len(log') : i \in 1..n \/ log'[i].id = id
          /\ \E i \in 1..Len(log') : log'[i].tag = "failed"
          /\ \A i \in 1..Len(log') : log'[i].tag # "raw"
      <3>1. n + 1 \in 1..Len(log') BY <2>4
      <3> QED BY <2>2, <2>4, <2>5, <3>1
    <2>9. nextId' \in Nat \ {0} /\ id <= nextId' BY <2>3
    <2> QED BY <2>3, <2>4, <2>6, <2>7, <2>8, <2>9 DEF n
  <1> QED BY <1>1, <1>2

\* A step of the loop leaves a sound state if what it concludes from is one.
LEMMA StepSound ==
  ASSUME Sound, kind = "http", ~closed, UNCHANGED <<netVars, streamVars, noted, closed>>,
         c' \in Machines, s' \in Machines, cbuf' \in Seq(ClientTokens),
         sbuf' \in Seq(CameraTokens),
         NEW out \in {"ok", "protocol", "bug"}, NEW l \in Seq(Entries), NEW id \in Nat \ {0},
         nextId <= id, Unique(l, id), \A i \in 1..Len(l) : l[i].tag = "http",
         building' \in [id : 0..id, of : 0..MaxReq],
         building' = NoRequest \/ (building'.id \in 1..(id - 1) /\ building'.of # 0),
         \A i \in 1..Len(l) : l[i].id # building'.id,
         awaiting' \in Seq(1..id), Lists(awaiting', l), responding' \in 0..id,
         responding' # 0 => \E i \in 1..Len(l) :
            l[i].id = responding' /\ l[i].tag = "http" /\ l[i].ans # 0,
         Conclude(out, l, id)
  PROVE  Sound'
  <1>1. PICK q : q = awaiting' OBVIOUS
  <1>2. /\ log' \in Seq(Entries) /\ nextId' \in Nat \ {0} /\ id <= nextId'
        /\ Unique(log', nextId') /\ Lists(q, log')
        /\ \A i \in 1..Len(l) : i \in 1..Len(log') /\ log'[i] = l[i]
        /\ \A i \in 1..Len(log') : i \in 1..Len(l) \/ log'[i].id = id
        /\ \/ kind' = "http" /\ \A i \in 1..Len(log') : log'[i].tag = "http"
           \/ /\ kind' = "raw" /\ feeding' = "none"
              /\ \E i \in 1..Len(log') : log'[i].tag = "failed"
              /\ \A i \in 1..Len(log') : log'[i].tag # "raw"
        /\ feeding' \in {feeding, "none"}
    <2>1. Lists(q, l) BY <1>1
    <2> QED BY <2>1, Concluded
  <1>3. NetTyped' /\ Wire'
    <2>1. UNCHANGED <<netVars, firstVars, extra>> BY DEF streamVars
    <2> QED BY <2>1, QuietNet DEF Sound
  <1>4. closed' = closed /\ noted' = noted /\ sniff' = sniff /\ UNCHANGED rtspVars
    BY DEF streamVars
  <1>5. DecoderTyped'
    <2>1. nextId \in Nat \ {0} BY DEF Sound, DecoderTyped
    <2>2. 1..nextId \subseteq 1..nextId' /\ 0..id \subseteq 0..nextId' /\ 1..id \subseteq 1..nextId'
      BY <1>2, <2>1
    <2>3. \A r \in Seq(1..nextId) : r \in Seq(1..nextId') BY <2>2, SeqWider
    <2>4. \A r \in Seq(1..id) : r \in Seq(1..nextId') BY <2>2, SeqWider
    <2>5. /\ feeding' \in {"none", "c2s", "s2c"} /\ noted' \subseteq 1..nextId'
          /\ kind' \in {"none", "http", "rtsp", "tls", "raw"} /\ closed' \in BOOLEAN
          /\ sniff' \in BOOLEAN /\ rtspAwait' \in Seq(1..nextId') /\ glued' \in BOOLEAN
          /\ stuck' \subseteq {"c2s", "s2c"}
      BY <1>2, <1>4, <2>2, <2>3 DEF Sound, DecoderTyped, rtspVars
    <2>6. /\ building' \in [id : 0..nextId', of : 0..MaxReq]
          /\ awaiting' \in Seq(1..nextId') /\ responding' \in 0..nextId'
      BY <2>2, <2>4
    <2> QED BY <1>2, <2>5, <2>6 DEF DecoderTyped
  <1>6. Ids'
    <2>1. building' = NoRequest \/ (building'.id \in 1..(nextId' - 1) /\ building'.of # 0)
      BY <1>2
    <2>2. \A i \in 1..Len(log') : log'[i].id # building'.id
      <3>1. building'.id # id BY DEF NoRequest
      <3> TAKE i \in 1..Len(log')
      <3>2. CASE i \in 1..Len(l)
        <4>1. log'[i] = l[i] BY <1>2, <3>2
        <4>2. l[i].id # building'.id BY <3>2
        <4> QED BY <4>1, <4>2
      <3>3. CASE log'[i].id = id BY <3>1, <3>3
      <3>4. i \in 1..Len(l) \/ log'[i].id = id BY <1>2
      <3> QED BY <3>2, <3>3, <3>4
    <2>3. responding' # 0 => \E i \in 1..Len(log') :
             log'[i].id = responding' /\ log'[i].tag = "http" /\ log'[i].ans # 0
      <3>1. ASSUME responding' # 0
            PROVE  \E i \in 1..Len(log') :
                     log'[i].id = responding' /\ log'[i].tag = "http" /\ log'[i].ans # 0
        <4>1. PICK i \in 1..Len(l) : l[i].id = responding' /\ l[i].tag = "http" /\ l[i].ans # 0
          BY <3>1
        <4>2. i \in 1..Len(log') /\ log'[i] = l[i] BY <1>2
        <4> QED BY <4>1, <4>2
      <3> QED BY <3>1
    <2> QED BY <1>2, <2>1, <2>2, <2>3 DEF Ids
  <1>7. Decided'
    <2>1. /\ dialect' = "http" /\ heads' > 0 /\ rtspAwait' = << >> /\ sniff' = FALSE /\ ~closed'
      <3>1. dialect = "http" /\ heads > 0 /\ rtspAwait = << >> /\ ~sniff
        BY DEF Sound, Decided
      <3>2. sniff \in BOOLEAN BY DEF Sound, DecoderTyped
      <3> QED BY <1>4, <3>1, <3>2 DEF streamVars, firstVars, netVars, clientVars, rtspVars
    <2> QED BY <1>2, <2>1 DEF Decided
  <1>8. Lists(awaiting', log') BY <1>1, <1>2
  <1> QED BY <1>3, <1>4, <1>5, <1>6, <1>7, <1>8 DEF Sound

\* What a step of the loop starts from.
LEMMA Stepping ==
  ASSUME Sound, feeding # "none"
  PROVE  /\ kind = "http" /\ ~closed /\ log \in Seq(Entries) /\ nextId \in Nat \ {0}
         /\ \A i \in 1..Len(log) : log[i].tag = "http"
         /\ Unique(log, nextId) /\ Lists(awaiting, log) /\ Ids
         /\ building \in [id : 0..nextId, of : 0..MaxReq]
         /\ awaiting \in Seq(1..nextId) /\ responding \in 0..nextId
         /\ c \in Machines /\ s \in Machines /\ cbuf \in Seq(ClientTokens)
         /\ sbuf \in Seq(CameraTokens) /\ dialect = "http" /\ heads > 0
  BY DEF Sound, Decided, DecoderTyped, Ids

LEMMA FeedEndsSound ==
  ASSUME Sound, FeedEnds, UNCHANGED streamVars
  PROVE  Sound'
  <1>1. feeding # "none" /\ feeding' = "none" /\ UNCHANGED <<netVars, h11Vars, eventVars>>
    BY DEF FeedEnds
  <1>2. NetTyped' /\ Wire'
    <2>1. UNCHANGED <<netVars, firstVars, extra>> BY <1>1 DEF streamVars
    <2> QED BY <2>1, QuietNet DEF Sound
  <1>3. DecoderTyped'
    BY <1>1 DEF Sound, DecoderTyped, streamVars, rtspVars, h11Vars, eventVars
  <1>4. Decided'
    <2>1. kind = "http" BY <1>1, Stepping
    <2> QED BY <1>1, <2>1 DEF Sound, Decided, streamVars, firstVars, rtspVars, h11Vars,
                             eventVars, netVars, clientVars
  <1>5. Ids' BY <1>1 DEF Sound, Ids, Unique, eventVars
  <1>6. Lists(awaiting', log') /\ (closed' => noted' = Range(awaiting'))
    BY <1>1 DEF Sound, eventVars
  <1> QED BY <1>2, <1>3, <1>4, <1>5, <1>6 DEF Sound

LEMMA InformationalSound ==
  ASSUME Sound, OnInformational, UNCHANGED streamVars
  PROVE  Sound'
  <1>1. /\ feeding # "none" /\ sbuf # << >> /\ s' = Take(s, Head(sbuf)) /\ sbuf' = Tail(sbuf)
        /\ UNCHANGED <<netVars, feeding, cbuf, c, eventVars>>
    <2>1. feeding # "none" BY DEF OnInformational, Parsed
    <2>2. feeding = "c2s" => (Head(cbuf).kind \in {"info", "switch"} /\ cbuf # << >>)
      BY DEF OnInformational, Parsed
    <2>3. feeding = "c2s" => Head(cbuf) \in ClientTokens
      BY <2>1, <2>2, Removed, Stepping
    <2>4. feeding # "c2s" BY <2>2, <2>3 DEF ClientTokens
    <2> QED BY <2>1, <2>4 DEF OnInformational, Parsed
  <1>2. sbuf' \in Seq(CameraTokens) /\ s' \in Machines
    BY <1>1, Removed, Stepping, TakeTyped
  <1>3. NetTyped' /\ Wire'
    <2>1. UNCHANGED <<netVars, firstVars, extra>> BY <1>1 DEF streamVars
    <2> QED BY <2>1, QuietNet DEF Sound
  <1>4. DecoderTyped'
    BY <1>1, <1>2 DEF Sound, DecoderTyped, streamVars, rtspVars, eventVars
  <1>5. Decided'
    <2>1. kind = "http" BY <1>1, Stepping
    <2> QED BY <1>1, <2>1 DEF Sound, Decided, streamVars, firstVars, rtspVars,
                             eventVars, netVars, clientVars
  <1>6. Ids' BY <1>1 DEF Sound, Ids, Unique, eventVars
  <1>7. Lists(awaiting', log') /\ (closed' => noted' = Range(awaiting'))
    BY <1>1 DEF Sound, eventVars
  <1> QED BY <1>2, <1>3, <1>4, <1>5, <1>6, <1>7 DEF Sound

\* Head and end come from the client, the others from the camera.
LEMMA ParsedFrom ==
  ASSUME Sound, NEW k, Parsed(k)
  PROVE  /\ feeding # "none"
         /\ k \in {"head", "end"} =>
              /\ feeding = "c2s" /\ cbuf # << >> /\ Head(cbuf) \in ClientTokens
              /\ Tail(cbuf) \in Seq(ClientTokens) /\ Head(cbuf).kind = k
              /\ Verdict(c, Head(cbuf)) = "ok"
         /\ k \in {"answer", "done"} =>
              /\ feeding = "s2c" /\ sbuf # << >> /\ Head(sbuf) \in CameraTokens
              /\ Tail(sbuf) \in Seq(CameraTokens) /\ Head(sbuf).kind = k
              /\ Verdict(s, Head(sbuf)) = "ok"
  <1>1. feeding # "none" BY DEF Parsed
  <1>2. CASE feeding = "c2s"
    <2>1. cbuf # << >> /\ Head(cbuf).kind = k /\ Verdict(c, Head(cbuf)) = "ok"
      BY <1>2 DEF Parsed
    <2>2. Head(cbuf) \in ClientTokens /\ Tail(cbuf) \in Seq(ClientTokens)
      BY <1>1, <2>1, Removed, Stepping
    <2> QED BY <1>2, <2>1, <2>2 DEF ClientTokens
  <1>3. CASE feeding = "s2c"
    <2>1. sbuf # << >> /\ Head(sbuf).kind = k /\ Verdict(s, Head(sbuf)) = "ok"
      BY <1>3 DEF Parsed
    <2>2. Head(sbuf) \in CameraTokens /\ Tail(sbuf) \in Seq(CameraTokens)
      BY <1>1, <2>1, Removed, Stepping
    <2> QED BY <1>3, <2>1, <2>2 DEF CameraTokens
  <1> QED BY <1>2, <1>3 DEF Parsed

\* What Waits leaves: a machine in error, or a token.
LEMMA NotWaiting ==
  ASSUME NEW role, NEW buf, ~Waits(role, buf), role # "ERROR"
  PROVE  buf # << >>
  BY DEF Waits

LEMMA ParseFailsSound ==
  ASSUME Sound, ParseFails, UNCHANGED streamVars
  PROVE  Sound'
  <1>1. /\ feeding # "none"
        /\ UNCHANGED <<netVars, cbuf, sbuf, building, awaiting, responding, noted, closed>>
    BY DEF ParseFails
  <1>2. /\ c' \in Machines /\ s' \in Machines
        /\ \E out \in {"ok", "protocol", "bug"} : Conclude(out, log, nextId)
    <2>1. CASE /\ feeding = "c2s" /\ ~Waits(c.client, cbuf)
               /\ c' = FailClient(c) /\ s' = s
               /\ Conclude(IF c.client = "ERROR" THEN "protocol" ELSE Verdict(c, Head(cbuf)),
                           log, nextId)
      <3>1. c.client # "ERROR" => Head(cbuf) \in ClientTokens
        BY <1>1, <2>1, NotWaiting, Removed, Stepping
      <3>2. c.client # "ERROR" => Verdict(c, Head(cbuf)) \in {"ok", "protocol", "bug"}
        BY <1>1, <3>1, OutcomeTyped, Stepping
      <3>3. PICK out : out = IF c.client = "ERROR" THEN "protocol" ELSE Verdict(c, Head(cbuf))
        OBVIOUS
      <3>4. out \in {"ok", "protocol", "bug"} BY <3>2, <3>3
      <3> QED BY <1>1, <2>1, <3>3, <3>4, Stepping, FailTyped
    <2>2. CASE /\ feeding = "s2c" /\ ~Waits(s.server, sbuf)
               /\ s' = FailServer(s) /\ c' = c
               /\ Conclude(IF s.server = "ERROR" THEN "protocol" ELSE Verdict(s, Head(sbuf)),
                           log, nextId)
      <3>1. s.server # "ERROR" => Head(sbuf) \in CameraTokens
        BY <1>1, <2>2, NotWaiting, Removed, Stepping
      <3>2. s.server # "ERROR" => Verdict(s, Head(sbuf)) \in {"ok", "protocol", "bug"}
        BY <1>1, <3>1, OutcomeTyped, Stepping
      <3>3. PICK out : out = IF s.server = "ERROR" THEN "protocol" ELSE Verdict(s, Head(sbuf))
        OBVIOUS
      <3>4. out \in {"ok", "protocol", "bug"} BY <3>2, <3>3
      <3> QED BY <1>1, <2>2, <3>3, <3>4, Stepping, FailTyped
    <2> QED BY <2>1, <2>2 DEF ParseFails
  <1>3. PICK out \in {"ok", "protocol", "bug"} : Conclude(out, log, nextId) BY <1>2
  <1>4. PICK l : l = log OBVIOUS
  <1>5. PICK id : id = nextId OBVIOUS
  <1>6. /\ kind = "http" /\ ~closed /\ l \in Seq(Entries) /\ id \in Nat \ {0} /\ nextId <= id
        /\ Unique(l, id) /\ \A i \in 1..Len(l) : l[i].tag = "http"
        /\ cbuf' \in Seq(ClientTokens) /\ sbuf' \in Seq(CameraTokens)
        /\ building' \in [id : 0..id, of : 0..MaxReq]
        /\ awaiting' \in Seq(1..id) /\ responding' \in 0..id /\ Lists(awaiting', l)
    BY <1>1, <1>4, <1>5, Stepping
  <1>7. /\ building' = NoRequest \/ (building'.id \in 1..(id - 1) /\ building'.of # 0)
        /\ \A i \in 1..Len(l) : l[i].id # building'.id
        /\ responding' # 0 => \E i \in 1..Len(l) :
              l[i].id = responding' /\ l[i].tag = "http" /\ l[i].ans # 0
    BY <1>1, <1>4, <1>5 DEF Sound, Ids
  <1>8. Conclude(out, l, id) BY <1>3, <1>4, <1>5
  <1>9. UNCHANGED <<netVars, streamVars, noted, closed>> BY <1>1
  <1> QED BY <1>2, <1>6, <1>7, <1>8, <1>9, StepSound

LEMMA RequestSound ==
  ASSUME Sound, OnRequest, UNCHANGED streamVars
  PROVE  Sound'
  <1>1. PICK t \in ClientTokens :
          /\ feeding # "none" /\ t = Head(cbuf) /\ cbuf' = Tail(cbuf)
          /\ cbuf' \in Seq(ClientTokens)
          /\ building' = [id |-> nextId, of |-> t.n]
          /\ c' = Take(c, t) /\ s' = SentToS(t)
          /\ Conclude(Verdict(s, t), log, AfterNewId(nextId))
          /\ UNCHANGED <<netVars, sbuf, awaiting, responding, noted, closed>>
    <2>1. Parsed("head") BY DEF OnRequest
    <2> QED BY <2>1, ParsedFrom DEF OnRequest
  <1>2. PICK out \in {"ok", "protocol", "bug"} : out = Verdict(s, t)
    BY <1>1, OutcomeTyped, Stepping
  <1>3. PICK l : l = log OBVIOUS
  <1>4. PICK id : id = nextId + 1 OBVIOUS
  <1>5. /\ kind = "http" /\ ~closed /\ l \in Seq(Entries) /\ nextId \in Nat \ {0}
        /\ \A i \in 1..Len(l) : l[i].tag = "http"
        /\ sbuf' \in Seq(CameraTokens) /\ Lists(awaiting', l)
    BY <1>1, <1>3, Stepping
  <1>6. /\ id \in Nat \ {0} /\ nextId <= id /\ c' \in Machines /\ s' \in Machines
    BY <1>1, <1>4, <1>5, TakeTyped, SentTyped, Stepping
  <1>7. Unique(l, id) /\ \A i \in 1..Len(l) : l[i].id \in Nat /\ l[i].id < nextId
    <2>1. Unique(l, nextId) BY <1>1, <1>3, Stepping
    <2>2. \A i \in 1..Len(l) : l[i].id \in Nat /\ l[i].id < nextId
      BY <1>5, <2>1, EntryTyped DEF Unique
    <2>3. \A i \in 1..Len(l) : l[i].id < id BY <1>4, <1>5, <2>2
    <2> QED BY <2>1, <2>2, <2>3 DEF Unique
  <1>8. /\ awaiting' \in Seq(1..id) /\ responding' \in 0..id
    <2>1. awaiting \in Seq(1..nextId) /\ responding \in 0..nextId BY <1>1, Stepping
    <2>2. 1..nextId \subseteq 1..id /\ 0..nextId \subseteq 0..id BY <1>4, <1>5
    <2> QED BY <1>1, <2>1, <2>2, SeqWider
  <1>9. /\ building' \in [id : 0..id, of : 0..MaxReq]
        /\ building' = NoRequest \/ (building'.id \in 1..(id - 1) /\ building'.of # 0)
        /\ \A i \in 1..Len(l) : l[i].id # building'.id
    <2>1. t.n \in 1..MaxReq BY DEF ClientTokens
    <2>2. t.n \in 0..MaxReq /\ t.n # 0 BY <2>1, HttpAssumption
    <2>3. nextId \in 0..id /\ nextId \in 1..(id - 1) BY <1>4, <1>5
    <2>4. building'.id = nextId /\ building'.of = t.n BY <1>1
    <2>5. building' \in [id : 0..id, of : 0..MaxReq] BY <1>1, <2>2, <2>3
    <2>6. \A i \in 1..Len(l) : l[i].id # building'.id BY <1>5, <1>7, <2>4
    <2> QED BY <2>2, <2>3, <2>4, <2>5, <2>6
  <1>10. responding' # 0 => \E i \in 1..Len(l) :
            l[i].id = responding' /\ l[i].tag = "http" /\ l[i].ans # 0
    BY <1>1, <1>3 DEF Sound, Ids
  <1>11. Conclude(out, l, id) BY <1>1, <1>2, <1>3, <1>4 DEF AfterNewId
  <1>12. UNCHANGED <<netVars, streamVars, noted, closed>> BY <1>1
  <1> QED BY <1>1, <1>5, <1>6, <1>7, <1>8, <1>9, <1>10, <1>11, <1>12, StepSound

LEMMA RequestEndSound ==
  ASSUME Sound, OnRequestEnd, UNCHANGED streamVars
  PROVE  Sound'
  <1>1. PICK t \in ClientTokens :
          /\ feeding # "none" /\ t = Head(cbuf) /\ cbuf' \in Seq(ClientTokens)
          /\ c' = IF Verdict(s, t) = "ok" THEN Cycle(Take(c, t)) ELSE Take(c, t)
          /\ s' = IF Verdict(s, t) = "ok" THEN Cycle(SentToS(t)) ELSE SentToS(t)
          /\ awaiting' = IF building = NoRequest THEN awaiting ELSE Append(awaiting, building.id)
          /\ Conclude(Verdict(s, t),
                      IF building = NoRequest THEN log
                      ELSE Append(log, Entry(building.id, "http", building.of)), nextId)
          /\ building' = NoRequest
          /\ UNCHANGED <<netVars, sbuf, responding, noted, closed>>
    <2>1. Parsed("end") BY DEF OnRequestEnd
    <2> QED BY <2>1, ParsedFrom DEF OnRequestEnd
  <1>2. PICK out \in {"ok", "protocol", "bug"} : out = Verdict(s, t)
    BY <1>1, OutcomeTyped, Stepping
  <1>3. PICK l : l = IF building = NoRequest THEN log
                     ELSE Append(log, Entry(building.id, "http", building.of))
    OBVIOUS
  <1>4. PICK id : id = nextId OBVIOUS
  <1>5. /\ kind = "http" /\ ~closed /\ log \in Seq(Entries) /\ id \in Nat \ {0} /\ nextId <= id
        /\ \A i \in 1..Len(log) : log[i].tag = "http"
        /\ sbuf' \in Seq(CameraTokens) /\ Lists(awaiting, log) /\ awaiting \in Seq(1..id)
        /\ responding' \in 0..id /\ Unique(log, id) /\ Ids
        /\ building \in [id : 0..id, of : 0..MaxReq]
    BY <1>1, <1>4, Stepping
  <1>6. c' \in Machines /\ s' \in Machines
    <2>1. c \in Machines /\ s \in Machines BY <1>1, Stepping
    <2>2. Take(c, t) \in Machines /\ SentToS(t) \in Machines BY <2>1, TakeTyped, SentTyped
    <2> QED BY <1>1, <2>2, FailTyped
  <1>7. building' \in [id : 0..id, of : 0..MaxReq] /\ building'.id = 0
    BY <1>1, <1>5, HttpAssumption DEF NoRequest
  <1>8. /\ l \in Seq(Entries) /\ Unique(l, id) /\ \A i \in 1..Len(l) : l[i].tag = "http"
        /\ awaiting' \in Seq(1..id) /\ Lists(awaiting', l)
        /\ \A i \in 1..Len(log) : i \in 1..Len(l) /\ l[i] = log[i]
    <2>1. CASE building = NoRequest
      <3>1. l = log /\ awaiting' = awaiting BY <1>1, <1>3, <2>1
      <3> QED BY <1>5, <3>1
    <2>2. CASE building # NoRequest
      <3>1. /\ building.id \in 1..(nextId - 1) /\ building.of \in 0..MaxReq
            /\ \A i \in 1..Len(log) : log[i].id # building.id
        BY <1>5, <2>2 DEF Ids
      <3>2. PICK b : b = building.id OBVIOUS
      <3>3. b \in Nat \ {0} /\ b < id /\ b \in 1..id BY <1>4, <1>5, <3>1, <3>2
      <3>4. PICK e : e = Entry(b, "http", building.of) OBVIOUS
      <3>5. e \in Entries /\ e.id = b /\ e.tag = "http" /\ e.ans = 0
        BY <3>1, <3>3, <3>4, HttpAssumption DEF Entry, Entries
      <3>6. l = Append(log, e) /\ awaiting' = Append(awaiting, e.id)
        BY <1>1, <1>3, <2>2, <3>2, <3>4, <3>5
      <3>7. \A i \in 1..Len(log) : log[i].id # e.id BY <3>1, <3>2, <3>5
      <3>8. Unique(l, id)
        <4>1. id \in Nat /\ e.id < id /\ id <= id BY <1>5, <3>3, <3>5
        <4> QED BY <4>1, <1>5, <3>5, <3>6, <3>7, UniqueAppend
      <3>9. Lists(awaiting', l)
        <4>1. e.id \in 1..id BY <3>3, <3>5
        <4> QED BY <4>1, <1>5, <3>5, <3>6, <3>7, ListsAppendOpen
      <3>10. awaiting' \in Seq(1..id) BY <1>5, <3>3, <3>5, <3>6
      <3> DEFINE n == Len(log)
      <3>11. /\ l \in Seq(Entries) /\ n \in Nat /\ Len(l) = n + 1 /\ l[n + 1] = e
             /\ \A i \in 1..n : l[i] = log[i] /\ log[i].tag = "http"
             /\ \A i \in 1..Len(l) : i \in 1..n \/ i = n + 1
        BY <1>5, <3>5, <3>6, Appended
      <3> HIDE DEF n
      <3>12. /\ \A i \in 1..Len(l) : l[i].tag = "http"
             /\ \A i \in 1..n : i \in 1..Len(l) /\ l[i] = log[i]
        BY <3>5, <3>11
      <3> QED BY <3>8, <3>9, <3>10, <3>11, <3>12 DEF n
    <2> QED BY <2>1, <2>2
  <1>9. \A i \in 1..Len(l) : l[i].id # building'.id BY <1>7, <1>8, EntryTyped
  <1>10. responding' # 0 => \E i \in 1..Len(l) :
            l[i].id = responding' /\ l[i].tag = "http" /\ l[i].ans # 0
    <2>1. responding # 0 => \E i \in 1..Len(log) :
             log[i].id = responding /\ log[i].tag = "http" /\ log[i].ans # 0
      BY <1>5 DEF Ids
    <2> QED BY <1>1, <1>8, <2>1
  <1>11. Conclude(out, l, id) BY <1>1, <1>2, <1>3, <1>4
  <1>12. UNCHANGED <<netVars, streamVars, noted, closed>> BY <1>1
  <1>13. building' = NoRequest /\ cbuf' \in Seq(ClientTokens) BY <1>1
  <1> QED BY <1>5, <1>6, <1>7, <1>8, <1>9, <1>10, <1>11, <1>12, <1>13, StepSound

\* What OnResponse and OnResponseEnd make of the log.
Answering(l, id, a) ==
    [i \in 1..Len(l) |-> IF l[i].id = id THEN [l[i] EXCEPT !.ans = a] ELSE l[i]]
WithBody(l, id) ==
    [i \in 1..Len(l) |-> IF l[i].id = id THEN [l[i] EXCEPT !.body = TRUE] ELSE l[i]]

\* The answer goes into the entry with an id.
LEMMA AnswerWritten ==
  ASSUME NEW l \in Seq(Entries), NEW id, NEW a \in 0..MaxReq, NEW m, m = Answering(l, id, a)
  PROVE  /\ m \in Seq(Entries) /\ Len(m) = Len(l)
         /\ \A i \in 1..Len(l) : /\ m[i].id = l[i].id /\ m[i].tag = l[i].tag
                                 /\ m[i].of = l[i].of /\ m[i].body = l[i].body
                                 /\ l[i].id = id => m[i].ans = a
                                 /\ l[i].id # id => m[i].ans = l[i].ans
  <1> DEFINE n == Len(l)
  <1>1. n \in Nat /\ \A i \in 1..n : l[i] \in Entries BY EntryTyped
  <1>2. m = [i \in 1..n |-> IF l[i].id = id THEN [l[i] EXCEPT !.ans = a] ELSE l[i]]
    BY DEF Answering
  <1> HIDE DEF n
  <1>3. \A i \in 1..n : /\ m[i] \in Entries /\ m[i].id = l[i].id /\ m[i].tag = l[i].tag
                        /\ m[i].of = l[i].of /\ m[i].body = l[i].body
                        /\ l[i].id = id => m[i].ans = a
                        /\ l[i].id # id => m[i].ans = l[i].ans
    <2> TAKE i \in 1..n
    <2>1. PICK e \in Entries : e = l[i] BY <1>1
    <2>2. PICK f : f = [e EXCEPT !.ans = a] OBVIOUS
    <2>3. f \in Entries /\ f.id = e.id /\ f.tag = e.tag /\ f.of = e.of /\ f.body = e.body
          /\ f.ans = a
      BY <2>2 DEF Entries
    <2>4. m[i] = IF e.id = id THEN f ELSE e BY <1>2, <2>1, <2>2
    <2> QED BY <2>1, <2>3, <2>4
  <1>4. m \in [1..n -> Entries] BY <1>2, <1>3
  <1>5. m \in Seq(Entries) /\ Len(m) = n BY <1>1, <1>4, MappedTyped
  <1> QED BY <1>3, <1>5 DEF n

\* And so does the body.
LEMMA BodyWritten ==
  ASSUME NEW l \in Seq(Entries), NEW id, NEW m, m = WithBody(l, id)
  PROVE  /\ m \in Seq(Entries) /\ Len(m) = Len(l)
         /\ \A i \in 1..Len(l) : /\ m[i].id = l[i].id /\ m[i].tag = l[i].tag
                                 /\ m[i].of = l[i].of /\ m[i].ans = l[i].ans
                                 /\ l[i].id = id \/ l[i].body => m[i].body
  <1> DEFINE n == Len(l)
  <1>1. n \in Nat /\ \A i \in 1..n : l[i] \in Entries BY EntryTyped
  <1>2. m = [i \in 1..n |-> IF l[i].id = id THEN [l[i] EXCEPT !.body = TRUE] ELSE l[i]]
    BY DEF WithBody
  <1> HIDE DEF n
  <1>3. \A i \in 1..n : /\ m[i] \in Entries /\ m[i].id = l[i].id /\ m[i].tag = l[i].tag
                        /\ m[i].of = l[i].of /\ m[i].ans = l[i].ans
                        /\ l[i].id = id \/ l[i].body => m[i].body
    <2> TAKE i \in 1..n
    <2>1. PICK e \in Entries : e = l[i] BY <1>1
    <2>2. PICK f : f = [e EXCEPT !.body = TRUE] OBVIOUS
    <2>3. f \in Entries /\ f.id = e.id /\ f.tag = e.tag /\ f.of = e.of /\ f.ans = e.ans /\ f.body
      BY <2>2 DEF Entries
    <2>4. m[i] = IF e.id = id THEN f ELSE e BY <1>2, <2>1, <2>2
    <2> QED BY <2>1, <2>3, <2>4
  <1>4. m \in [1..n -> Entries] BY <1>2, <1>3
  <1>5. m \in Seq(Entries) /\ Len(m) = n BY <1>1, <1>4, MappedTyped
  <1> QED BY <1>3, <1>5 DEF n

LEMMA UniqueSame ==
  ASSUME NEW l, NEW m, NEW id, Unique(l, id), Len(m) = Len(l),
         \A i \in 1..Len(l) : m[i].id = l[i].id
  PROVE  Unique(m, id)
  BY DEF Unique

\* An answer to nothing makes an event of its own.
LEMMA PhantomAnswer ==
  ASSUME log \in Seq(Entries), nextId \in Nat \ {0}, Unique(log, nextId),
         Lists(awaiting, log), \A i \in 1..Len(log) : log[i].tag = "http",
         NEW a \in 1..MaxReq, NEW m,
         m = Answering(Append(log, Entry(nextId, "http", 0)), nextId, a)
  PROVE  /\ m \in Seq(Entries) /\ Unique(m, nextId + 1) /\ Lists(awaiting, m)
         /\ \A i \in 1..Len(m) : m[i].tag = "http"
         /\ \E i \in 1..Len(m) : m[i].id = nextId /\ m[i].ans = a
         /\ \A i \in 1..Len(log) : i \in 1..Len(m) /\ m[i].id = log[i].id
         /\ \A i \in 1..Len(m) : i \in 1..Len(log) \/ m[i].id = nextId
  <1> SUFFICES ASSUME NEW l \in Seq(Entries), NEW id \in Nat \ {0}, NEW q, NEW k,
                      Unique(l, id), Lists(q, l), \A i \in 1..Len(l) : l[i].tag = "http",
                      l = log, id = nextId, q = awaiting,
                      k = Append(l, Entry(id, "http", 0)), m = Answering(k, id, a)
               PROVE  /\ m \in Seq(Entries) /\ Unique(m, id + 1) /\ Lists(q, m)
                      /\ \A i \in 1..Len(m) : m[i].tag = "http"
                      /\ \E i \in 1..Len(m) : m[i].id = id /\ m[i].ans = a
                      /\ \A i \in 1..Len(l) : i \in 1..Len(m) /\ m[i].id = l[i].id
                      /\ \A i \in 1..Len(m) : i \in 1..Len(l) \/ m[i].id = id
    OBVIOUS
  <1> DEFINE n == Len(l)
  <1>1. a \in 0..MaxReq /\ a # 0 /\ MaxReq \in Nat BY HttpAssumption
  <1>2. PICK e : e = Entry(id, "http", 0) OBVIOUS
  <1>3. PICK f : f = [e EXCEPT !.ans = a] OBVIOUS
  <1>4. /\ e \in Entries /\ e.id = id /\ e.tag = "http" /\ e.of = 0
        /\ f \in Entries /\ f.id = id /\ f.tag = "http" /\ f.of = 0 /\ f.ans = a
    <2>1. e \in Entries /\ e.id = id /\ e.tag = "http" /\ e.of = 0
      BY <1>1, <1>2 DEF Entry, Entries
    <2>2. f \in Entries /\ f.id = e.id /\ f.tag = e.tag /\ f.of = e.of /\ f.ans = a
      BY <1>1, <1>3, <2>1 DEF Entries
    <2> QED BY <2>1, <2>2
  <1>5. k = Append(l, e) BY <1>2
  <1>6. PICK g : g = Append(l, f) OBVIOUS
  <1>7. /\ n \in Nat /\ k \in Seq(Entries) /\ Len(k) = n + 1 /\ k[n + 1] = e
        /\ \A i \in 1..n : k[i] = l[i]
        /\ \A i \in 1..Len(k) : i \in 1..n \/ i = n + 1
    BY <1>4, <1>5, Appended
  <1>8. /\ g \in Seq(Entries) /\ Len(g) = n + 1 /\ g[n + 1] = f /\ \A i \in 1..n : g[i] = l[i]
    BY <1>4, <1>6, Appended
  <1>9. \A i \in 1..n : l[i].id \in Nat /\ l[i].id < id /\ l[i].tag = "http"
    BY EntryTyped DEF Unique
  <1>10. \A i \in 1..n : l[i].id # e.id /\ l[i].id # f.id BY <1>4, <1>9
  <1>11. Unique(g, id + 1)
    <2>1. id \in Nat /\ id + 1 \in Nat /\ f.id < id + 1 /\ id <= id + 1 BY <1>4
    <2>2. \A i \in 1..Len(l) : l[i].id # f.id BY <1>10
    <2> QED BY <2>1, <2>2, <1>4, <1>6, UniqueAppend
  <1>12. Lists(q, g) BY <1>1, <1>4, <1>6, ListsAppendOther
  <1>13. /\ m \in Seq(Entries) /\ Len(m) = Len(k)
         /\ \A i \in 1..Len(k) : /\ m[i].id = k[i].id /\ m[i].tag = k[i].tag
                                 /\ m[i].of = k[i].of /\ m[i].body = k[i].body
                                 /\ k[i].id = id => m[i].ans = a
                                 /\ k[i].id # id => m[i].ans = k[i].ans
    <2>1. a \in 0..MaxReq /\ k \in Seq(Entries) /\ m = Answering(k, id, a) BY <1>1, <1>7
    <2>2. m \in Seq(Entries) /\ Len(m) = Len(k) BY ONLY <2>1, AnswerWritten
    <2>3. \A i \in 1..Len(k) : m[i].id = k[i].id /\ m[i].tag = k[i].tag
      BY ONLY <2>1, AnswerWritten
    <2>4. \A i \in 1..Len(k) : m[i].of = k[i].of /\ m[i].body = k[i].body
      BY ONLY <2>1, AnswerWritten
    <2>5. \A i \in 1..Len(k) : k[i].id = id => m[i].ans = a BY ONLY <2>1, AnswerWritten
    <2>6. \A i \in 1..Len(k) : k[i].id # id => m[i].ans = k[i].ans
      BY ONLY <2>1, AnswerWritten
    <2> QED BY <2>2, <2>3, <2>4, <2>5, <2>6
  <1> HIDE DEF n
  <1>14. Amends(g, m)
    <2>1. Len(m) = Len(g) BY <1>7, <1>8, <1>13
    <2>2. ASSUME NEW i \in 1..Len(g)
          PROVE  /\ m[i].id = g[i].id /\ m[i].tag = g[i].tag /\ m[i].of = g[i].of
                 /\ g[i].tag = "http" => m[i].ans = g[i].ans
      <3>1. i \in 1..Len(k) BY <1>7, <1>8
      <3>2. CASE i \in 1..n BY <3>1, <3>2, <1>4, <1>7, <1>8, <1>10, <1>13
      <3>3. CASE i = n + 1 BY <3>1, <3>3, <1>4, <1>7, <1>8, <1>13
      <3> QED BY <3>1, <3>2, <3>3, <1>7
    <2> QED BY <2>1, <2>2 DEF Amends
  <1>15. Unique(m, id + 1) /\ Lists(q, m) BY <1>8, <1>11, <1>12, <1>14, UniqueAmends, ListsAmends
  <1>16. \A i \in 1..Len(m) : m[i].tag = "http"
    <2>1. \A i \in 1..Len(k) : k[i].tag = "http" BY <1>4, <1>7, <1>9
    <2> QED BY <2>1, <1>13
  <1>17. n + 1 \in 1..Len(m) /\ m[n + 1].id = id /\ m[n + 1].ans = a
    BY <1>4, <1>7, <1>13
  <1>18. /\ \A i \in 1..n : i \in 1..Len(m) /\ m[i].id = l[i].id
         /\ \A i \in 1..Len(m) : i \in 1..n \/ m[i].id = id
    BY <1>4, <1>7, <1>13
  <1> QED BY <1>13, <1>15, <1>16, <1>17, <1>18 DEF n

LEMMA ResponseSound ==
  ASSUME Sound, OnResponse, UNCHANGED streamVars
  PROVE  Sound'
  <1>1. PICK t \in CameraTokens :
          /\ feeding # "none" /\ t = Head(sbuf) /\ sbuf' \in Seq(CameraTokens)
          /\ responding' = IF awaiting = << >> THEN nextId ELSE Head(awaiting)
          /\ awaiting' = PopOldest(awaiting)
          /\ s' = Take(s, t) /\ c' = SentToC(t)
          /\ Conclude(OutcomeAtC(t),
                      Answering(IF awaiting = << >> THEN Append(log, Entry(nextId, "http", 0))
                                ELSE log,
                                IF awaiting = << >> THEN nextId ELSE Head(awaiting), t.n),
                      IF awaiting = << >> THEN AfterNewId(nextId) ELSE nextId)
          /\ UNCHANGED <<netVars, cbuf, building, noted, closed>>
    <2>1. Parsed("answer") BY DEF OnResponse
    <2> QED BY <2>1, ParsedFrom DEF OnResponse, Answering
  <1>2. PICK out \in {"ok", "protocol", "bug"} : out = OutcomeAtC(t)
    BY <1>1, OutcomeTyped, Stepping DEF OutcomeAtC
  <1>3. PICK id : id = IF awaiting = << >> THEN AfterNewId(nextId) ELSE nextId OBVIOUS
  <1>4. PICK x : x = IF awaiting = << >> THEN nextId ELSE Head(awaiting) OBVIOUS
  <1>5. PICK k : k = IF awaiting = << >> THEN Append(log, Entry(nextId, "http", 0)) ELSE log
    OBVIOUS
  <1>6. PICK l : l = Answering(k, x, t.n) OBVIOUS
  <1>7. /\ kind = "http" /\ ~closed /\ log \in Seq(Entries) /\ nextId \in Nat \ {0}
        /\ \A i \in 1..Len(log) : log[i].tag = "http"
        /\ cbuf' \in Seq(ClientTokens) /\ Lists(awaiting, log) /\ awaiting \in Seq(1..nextId)
        /\ Unique(log, nextId) /\ Ids /\ building' = building
        /\ building \in [id : 0..nextId, of : 0..MaxReq]
    BY <1>1, Stepping
  <1>8. c' \in Machines /\ s' \in Machines
    <2>1. c \in Machines /\ s \in Machines BY <1>1, Stepping
    <2> QED BY <1>1, <2>1, TakeTyped, SentTyped
  <1>9. t.n \in 1..MaxReq /\ t.n \in 0..MaxReq /\ t.n # 0
    BY HttpAssumption DEF CameraTokens
  <1>10. /\ building = NoRequest \/ (building.id \in 1..(nextId - 1) /\ building.of # 0)
         /\ \A i \in 1..Len(log) : log[i].id # building.id
    BY <1>7 DEF Ids
  <1>11. /\ id \in Nat \ {0} /\ nextId <= id
         /\ l \in Seq(Entries) /\ Unique(l, id) /\ \A i \in 1..Len(l) : l[i].tag = "http"
         /\ \A i \in 1..Len(l) : l[i].id # building.id
         /\ awaiting' \in Seq(1..id) /\ Lists(awaiting', l)
         /\ responding' \in 0..id
         /\ \E i \in 1..Len(l) : l[i].id = responding' /\ l[i].tag = "http" /\ l[i].ans # 0
    <2>1. CASE awaiting = << >>
      <3>1. /\ id = nextId + 1 /\ x = nextId /\ k = Append(log, Entry(nextId, "http", 0))
            /\ awaiting' = awaiting /\ responding' = nextId
        BY <1>1, <1>3, <1>4, <1>5, <2>1 DEF AfterNewId, PopOldest
      <3>6. l = Answering(Append(log, Entry(nextId, "http", 0)), nextId, t.n)
        BY <1>6, <3>1
      <3>7. /\ l \in Seq(Entries) /\ Unique(l, nextId + 1) /\ Lists(awaiting, l)
            /\ \A i \in 1..Len(l) : l[i].tag = "http"
            /\ \E i \in 1..Len(l) : l[i].id = nextId /\ l[i].ans = t.n
            /\ \A i \in 1..Len(log) : i \in 1..Len(l) /\ l[i].id = log[i].id
            /\ \A i \in 1..Len(l) : i \in 1..Len(log) \/ l[i].id = nextId
        <4>1. PICK a \in 1..MaxReq : a = t.n BY <1>9
        <4>2. l = Answering(Append(log, Entry(nextId, "http", 0)), nextId, a) BY <3>6, <4>1
        <4>3. l \in Seq(Entries) /\ Unique(l, nextId + 1) /\ Lists(awaiting, l)
          BY ONLY <1>7, <4>2, PhantomAnswer
        <4>4. \A i \in 1..Len(l) : l[i].tag = "http" BY ONLY <1>7, <4>2, PhantomAnswer
        <4>5. \E i \in 1..Len(l) : l[i].id = nextId /\ l[i].ans = a
          BY ONLY <1>7, <4>2, PhantomAnswer
        <4>6. \A i \in 1..Len(log) : i \in 1..Len(l) /\ l[i].id = log[i].id
          BY ONLY <1>7, <4>2, PhantomAnswer
        <4>7. \A i \in 1..Len(l) : i \in 1..Len(log) \/ l[i].id = nextId
          BY ONLY <1>7, <4>2, PhantomAnswer
        <4> QED BY <4>1, <4>3, <4>4, <4>5, <4>6, <4>7
      <3>8. \A i \in 1..Len(l) : l[i].id # building.id
        <4> TAKE i \in 1..Len(l)
        <4>1. building.id # nextId BY <1>7, <1>10 DEF NoRequest
        <4>2. i \in 1..Len(log) => l[i].id # building.id BY <1>10, <3>7
        <4> QED BY <4>1, <4>2, <3>7
      <3>9. awaiting' \in Seq(1..id) /\ responding' \in 0..id
        <4>1. 1..nextId \subseteq 1..id BY <1>7, <3>1
        <4> QED BY <4>1, <1>7, <3>1, SeqWider
      <3>10. id \in Nat \ {0} /\ nextId <= id BY <1>7, <3>1
      <3>11. Unique(l, id) /\ Lists(awaiting', l) BY <3>1, <3>7
      <3>12. \E i \in 1..Len(l) : l[i].id = responding' /\ l[i].tag = "http" /\ l[i].ans # 0
        BY <1>9, <3>1, <3>7
      <3> QED BY <3>7, <3>8, <3>9, <3>10, <3>11, <3>12
    <2>2. CASE awaiting # << >>
      <3>1. /\ id = nextId /\ x = Head(awaiting) /\ k = log
            /\ awaiting' = Tail(awaiting) /\ responding' = x
        BY <1>1, <1>3, <1>4, <1>5, <2>2 DEF PopOldest
      <3>2. PICK q : q = awaiting OBVIOUS
      <3>3. x \in 1..nextId /\ q \in Seq(1..nextId) /\ q # << >> /\ x = Head(q) /\ x \in Range(q)
            /\ Tail(q) \in Seq(1..nextId)
        <4>1. q \in Seq(1..nextId) /\ q # << >> /\ x = Head(q) BY <1>7, <2>2, <3>1, <3>2
        <4>2. Range(q) = {q[i] : i \in 1..Len(q)} BY <4>1, RangeIs
        <4>3. /\ Head(q) = q[1] /\ Head(q) \in 1..nextId /\ Len(q) \in Nat /\ 0 < Len(q)
              /\ Tail(q) \in Seq(1..nextId)
          BY <4>1, Removed
        <4>4. 1 \in 1..Len(q) BY <4>3
        <4> QED BY <4>1, <4>2, <4>3, <4>4
      <3>4. /\ l \in Seq(Entries) /\ Len(l) = Len(k)
            /\ \A i \in 1..Len(k) : l[i].id = k[i].id /\ l[i].tag = k[i].tag
        BY <1>6, <1>7, <1>9, <3>1, AnswerWritten
      <3>5. \A i \in 1..Len(k) : k[i].id = x => l[i].ans = t.n
        BY <1>6, <1>7, <1>9, <3>1, AnswerWritten
      <3>6. \A i \in 1..Len(k) : k[i].id # x => l[i].ans = k[i].ans
        BY <1>6, <1>7, <1>9, <3>1, AnswerWritten
      <3>7. /\ k \in Seq(Entries) /\ Unique(k, id) /\ Lists(q, k)
            /\ \A i \in 1..Len(k) : k[i].tag = "http"
        BY <1>7, <3>1, <3>2
      <3>8. Lists(Tail(q), l)
        BY <1>9, <3>3, <3>4, <3>5, <3>6, <3>7, ListsAnswer
      <3>9. Unique(l, id) BY <3>4, <3>7, UniqueSame
      <3>10. \E i \in 1..Len(l) : l[i].id = responding' /\ l[i].tag = "http" /\ l[i].ans # 0
        <4>1. PICK p \in Open(k) : k[p].id = x BY <3>3, <3>7 DEF Lists
        <4>2. p \in 1..Len(k) BY <4>1 DEF Open
        <4> QED BY <1>9, <3>1, <3>4, <3>5, <3>7, <4>1, <4>2
      <3>11. awaiting' \in Seq(1..id) /\ Lists(awaiting', l) BY <3>1, <3>2, <3>3, <3>8
      <3>12. id \in Nat \ {0} /\ nextId <= id /\ responding' \in 0..id BY <1>7, <3>1, <3>3
      <3>13. \A i \in 1..Len(l) : l[i].id # building.id BY <1>10, <3>1, <3>4
      <3> QED BY <3>4, <3>7, <3>9, <3>10, <3>11, <3>12, <3>13
    <2> QED BY <2>1, <2>2
  <1>12. /\ building' \in [id : 0..id, of : 0..MaxReq]
         /\ building' = NoRequest \/ (building'.id \in 1..(id - 1) /\ building'.of # 0)
         /\ \A i \in 1..Len(l) : l[i].id # building'.id
    <2>1. 0..nextId \subseteq 0..id /\ 1..(nextId - 1) \subseteq 1..(id - 1) BY <1>7, <1>11
    <2>2. building' \in [id : 0..id, of : 0..MaxReq] BY <1>7, <2>1
    <2> QED BY <1>7, <1>10, <1>11, <2>1, <2>2
  <1>13. Conclude(out, l, id) BY <1>1, <1>2, <1>3, <1>4, <1>5, <1>6
  <1>14. UNCHANGED <<netVars, streamVars, noted, closed>> /\ sbuf' \in Seq(CameraTokens)
    BY <1>1
  <1> QED BY <1>7, <1>8, <1>11, <1>12, <1>13, <1>14, StepSound

LEMMA ResponseEndSound ==
  ASSUME Sound, OnResponseEnd, UNCHANGED streamVars
  PROVE  Sound'
  <1>1. PICK t \in CameraTokens :
          /\ feeding # "none" /\ t = Head(sbuf) /\ sbuf' \in Seq(CameraTokens)
          /\ s' = IF OutcomeAtC(t) = "ok" THEN Cycle(Take(s, t)) ELSE Take(s, t)
          /\ c' = IF OutcomeAtC(t) = "ok" THEN Cycle(SentToC(t)) ELSE SentToC(t)
          /\ Conclude(OutcomeAtC(t), WithBody(log, responding), nextId)
          /\ responding' = 0
          /\ UNCHANGED <<netVars, cbuf, building, awaiting, noted, closed>>
    <2>1. Parsed("done") BY DEF OnResponseEnd
    <2> QED BY <2>1, ParsedFrom DEF OnResponseEnd, WithBody
  <1>2. PICK out \in {"ok", "protocol", "bug"} : out = OutcomeAtC(t)
    BY <1>1, OutcomeTyped, Stepping DEF OutcomeAtC
  <1>3. PICK id : id = nextId OBVIOUS
  <1>4. PICK k : k = log OBVIOUS
  <1>5. PICK x : x = responding OBVIOUS
  <1>6. PICK l : l = WithBody(k, x) OBVIOUS
  <1>7. /\ kind = "http" /\ ~closed /\ k \in Seq(Entries) /\ id \in Nat \ {0} /\ nextId <= id
        /\ \A i \in 1..Len(k) : k[i].tag = "http"
        /\ cbuf' \in Seq(ClientTokens) /\ Lists(awaiting', k) /\ awaiting' \in Seq(1..id)
        /\ Unique(k, id) /\ building' \in [id : 0..id, of : 0..MaxReq]
        /\ responding' = 0 /\ responding' \in 0..id
    BY <1>1, <1>3, <1>4, Stepping
  <1>8. c' \in Machines /\ s' \in Machines
    <2>1. c \in Machines /\ s \in Machines BY <1>1, Stepping
    <2>2. Take(s, t) \in Machines /\ SentToC(t) \in Machines BY <2>1, TakeTyped, SentTyped
    <2> QED BY <1>1, <2>2, FailTyped
  <1>9. /\ l \in Seq(Entries) /\ Len(l) = Len(k)
        /\ \A i \in 1..Len(k) : l[i].id = k[i].id /\ l[i].tag = k[i].tag
        /\ \A i \in 1..Len(k) : l[i].of = k[i].of /\ l[i].ans = k[i].ans
    BY <1>6, <1>7, BodyWritten
  <1>10. Amends(k, l) BY <1>9 DEF Amends
  <1>11. PICK q : q = awaiting' OBVIOUS
  <1>12. Unique(l, id) /\ Lists(q, l) BY <1>7, <1>10, <1>11, UniqueAmends, ListsAmends
  <1>13. /\ \A i \in 1..Len(l) : l[i].tag = "http"
         /\ \A i \in 1..Len(l) : l[i].id # building'.id
         /\ building' = NoRequest \/ (building'.id \in 1..(id - 1) /\ building'.of # 0)
    <2>1. /\ building = NoRequest \/ (building.id \in 1..(nextId - 1) /\ building.of # 0)
          /\ \A i \in 1..Len(log) : log[i].id # building.id
      BY DEF Sound, Ids
    <2> QED BY <1>1, <1>3, <1>4, <1>7, <1>9, <2>1
  <1>14. Conclude(out, l, id) BY <1>1, <1>2, <1>3, <1>4, <1>5, <1>6
  <1>15. UNCHANGED <<netVars, streamVars, noted, closed>> /\ sbuf' \in Seq(CameraTokens)
    BY <1>1
  <1>16. Lists(awaiting', l) BY <1>11, <1>12
  <1> QED BY <1>7, <1>8, <1>9, <1>12, <1>13, <1>14, <1>15, <1>16, StepSound

----------------------------------------------------------------------------
LEMMA InitSound == StreamInit => Sound
  <1> SUFFICES ASSUME StreamInit PROVE Sound OBVIOUS
  <1>1. /\ heads = 0 /\ ends = 0 /\ asked = 0 /\ answered = 0 /\ finished = 0 /\ informed = 0
        /\ framing = "sized" /\ switched = FALSE /\ overlap = {} /\ feeding = "none"
        /\ kind = "none" /\ closed = FALSE /\ nextId = 1 /\ noted = {} /\ Initial
        /\ log = << >> /\ rtspAwait = << >>
        /\ dialect \in {"http", "rtsp", "tls", "other"} /\ fits \in BOOLEAN
        /\ begun = {} /\ sniff = FALSE /\ extra = {} /\ glued = FALSE /\ stuck = {}
    BY StreamAssumption DEF StreamInit, Init, Initial
  <1>2. NetTyped /\ Wire
    <2>1. NetTyped
      <3>1. switched \in BOOLEAN /\ fits \in BOOLEAN BY <1>1
      <3>2. MaxReq \in Nat /\ 0 \in 0..MaxReq BY HttpAssumption
      <3>3. /\ ends \in 0..MaxReq /\ heads \in {ends, ends + 1} /\ heads <= MaxReq
            /\ finished \in 0..heads /\ answered \in {finished, finished + 1}
            /\ answered <= heads /\ asked \in 0..heads /\ informed \in 0..MaxReq
        BY <1>1, <3>2
      <3>4. /\ overlap \subseteq {"early", "pipelined"} /\ begun \subseteq {"few", "part"}
            /\ extra \subseteq Extras
        BY <1>1
      <3> QED BY <1>1, <3>1, <3>3, <3>4 DEF NetTyped
    <2>2. Wire BY <1>1 DEF Wire
    <2> QED BY <2>1, <2>2
  <1>3. IdleMachine \in Machines BY DEF IdleMachine, Machines, Roles
  <1>4. NoRequest \in [id : 0..1, of : 0..MaxReq] BY HttpAssumption DEF NoRequest
  <1>5. /\ cbuf = << >> /\ sbuf = << >> /\ c \in Machines /\ s \in Machines
        /\ building \in [id : 0..nextId, of : 0..MaxReq] /\ awaiting = << >> /\ responding = 0
    BY <1>1, <1>3, <1>4 DEF Initial
  <1>6. Len(log) = 0 /\ Len(awaiting) = 0 /\ 1..0 = {} BY <1>1, <1>5
  <1>7. DecoderTyped
    <2>1. << >> \in Seq(ClientTokens) /\ << >> \in Seq(CameraTokens) /\ << >> \in Seq(1..nextId)
          /\ << >> \in Seq(Entries)
      OBVIOUS
    <2>2. closed \in BOOLEAN /\ sniff \in BOOLEAN /\ glued \in BOOLEAN BY <1>1
    <2>3. stuck \subseteq {"c2s", "s2c"} /\ noted \subseteq 1..nextId BY <1>1
    <2>4. nextId \in Nat \ {0} /\ responding \in 0..nextId BY <1>1, <1>5
    <2> QED BY <1>1, <1>5, <2>1, <2>2, <2>3, <2>4 DEF DecoderTyped
  <1>8. Decided BY <1>1, <1>6 DEF Decided
  <1>9. Ids BY <1>1, <1>6 DEF Ids, Unique, Initial
  <1>10. Lists(awaiting, log)
    <2>1. Open(log) = {} BY <1>6 DEF Open
    <2>2. Range(awaiting) = {}
      <3>1. awaiting \in Seq(Nat) BY <1>5
      <3> QED BY <3>1, <1>6, RangeIs
    <2> QED BY <2>1, <2>2 DEF Lists
  <1> QED BY <1>1, <1>2, <1>7, <1>8, <1>9, <1>10 DEF Sound

\* The step relation, one action at a time.
LEMMA StepIs ==
  ASSUME Next
  PROVE  \/ \E k \in {"few", "part"} : ClientPiece(k)
         \/ \E o \in {"plain", "upgrade"} : ClientHead(o)
         \/ ClientEnd
         \/ ClientReply
         \/ CameraInfo
         \/ CameraSwitch
         \/ \E f \in Framings : CameraAnswer(f)
         \/ CameraDone
         \/ \E k \in Extras \ {"reply"} : CameraUnasked(k)
         \/ Decode /\ UNCHANGED streamVars
         \/ Close
  <1>1. Client \/ Camera \/ (Decode /\ UNCHANGED streamVars) \/ Close BY DEF Next
  <1>2. CASE Client BY <1>2 DEF Client
  <1>3. CASE Camera BY <1>3 DEF Camera
  <1> QED BY <1>1, <1>2, <1>3

LEMMA DecodeSound ==
  ASSUME Sound, Decode, UNCHANGED streamVars
  PROVE  Sound'
  BY FeedEndsSound, ParseFailsSound, RequestSound, RequestEndSound, InformationalSound,
     ResponseSound, ResponseEndSound DEF Decode

LEMMA SoundNext ==
  ASSUME Sound, [Next]_allVars
  PROVE  Sound'
  <1>1. CASE Next
    BY <1>1, StepIs, PieceSound, HeadSound, EndSound, ReplySound, InfoSound, SwitchSound,
       AnswerSound, DoneSound, UnaskedSound, DecodeSound, CloseSound
  <1>2. CASE UNCHANGED allVars
    <2>1. NetTyped' /\ Wire' BY <1>2, QuietNet DEF Sound, allVars, vars, streamVars
    <2>2. DecoderTyped'
      BY <1>2 DEF Sound, DecoderTyped, allVars, vars, streamVars, rtspVars, h11Vars, eventVars
    <2>3. Decided'
      BY <1>2 DEF Sound, Decided, Initial, RawCause, allVars, vars, streamVars, rtspVars,
                  firstVars, h11Vars, eventVars, netVars, clientVars
    <2>4. Ids' BY <1>2 DEF Sound, Ids, Unique, allVars, vars, eventVars
    <2>5. Lists(awaiting', log') /\ (closed' => noted' = Range(awaiting'))
      BY <1>2 DEF Sound, allVars, vars, eventVars
    <2> QED BY <2>1, <2>2, <2>3, <2>4, <2>5 DEF Sound
  <1> QED BY <1>1, <1>2

----------------------------------------------------------------------------
\* Soundness is invariant, whatever overlaps and whatever is unreadable.
LEMMA SoundInv == Spec => []Sound
  BY InitSound, SoundNext, PTL DEF Spec

----------------------------------------------------------------------------
(* What the peers feed.                                                     *)

LEMMA ClientFeeds ==
  ASSUME Sound, Client
  PROVE  /\ \E t : t.n \in 0..MaxReq /\ FeedC2S(t)
         /\ Quiet /\ UNCHANGED cameraVars /\ overlap \subseteq overlap' /\ extra \subseteq extra'
  <1>1. CASE \E k \in {"few", "part"} : ClientPiece(k)
    <2>1. PICK k \in {"few", "part"} : ClientPiece(k) BY <1>1
    <2>2. PICK t : t = Token(k, 0, "plain") OBVIOUS
    <2>3. t.n \in 0..MaxReq BY <2>2, TokenIs, HttpAssumption
    <2> QED BY <2>1, <2>2, <2>3 DEF ClientPiece, netVars
  <1>2. CASE \E o \in {"plain", "upgrade"} : ClientHead(o)
    <2>1. PICK o \in {"plain", "upgrade"} : ClientHead(o) BY <1>2
    <2>2. PICK t : t = Token("head", heads + 1, o) OBVIOUS
    <2>3. /\ FeedC2S(t) /\ Quiet /\ UNCHANGED cameraVars /\ overlap \subseteq overlap'
          /\ extra' = extra /\ heads < MaxReq
      BY <2>1, <2>2 DEF ClientHead, BeginRequest
    <2>4. heads + 1 \in 0..MaxReq BY <2>3, NetNumbers DEF Sound
    <2>5. t.n \in 0..MaxReq BY <2>2, <2>4, TokenIs
    <2> QED BY <2>3, <2>5
  <1>3. CASE ClientEnd
    <2>1. PICK o \in {"plain", "unreadable"} : FeedC2S(Token("end", heads, o))
      BY <1>3 DEF ClientEnd
    <2>2. PICK t : t = Token("end", heads, o) OBVIOUS
    <2>3. heads \in 0..MaxReq BY NetNumbers DEF Sound
    <2>4. t.n \in 0..MaxReq BY <2>2, <2>3, TokenIs
    <2> QED BY <1>3, <2>1, <2>2, <2>4 DEF ClientEnd, CompleteRequest
  <1>4. CASE ClientReply
    <2>1. PICK t : t = Token("reply", 0, "plain") OBVIOUS
    <2>2. t.n \in 0..MaxReq BY <2>1, TokenIs, HttpAssumption
    <2> QED BY <1>4, <2>1, <2>2 DEF ClientReply, netVars
  <1> QED BY <1>1, <1>2, <1>3, <1>4 DEF Client

LEMMA CameraFeeds ==
  ASSUME Sound, Camera
  PROVE  /\ \E t : t.n \in 0..MaxReq /\ FeedS2C(t)
         /\ Quiet /\ UNCHANGED clientVars /\ overlap \subseteq overlap' /\ extra \subseteq extra'
  <1> USE NetNumbers DEF Sound
  <1>1. CASE CameraInfo
    <2>1. PICK t : t = Token("info", answered + 1, "plain") OBVIOUS
    <2>2. /\ FeedS2C(t) /\ Quiet /\ UNCHANGED clientVars /\ overlap' = overlap /\ extra' = extra
          /\ answered < heads
      BY <1>1, <2>1 DEF CameraInfo, Inform, MayAnswer
    <2>3. answered + 1 \in 0..MaxReq BY <2>2
    <2>4. t.n \in 0..MaxReq BY <2>1, <2>3, TokenIs
    <2> QED BY <2>2, <2>4
  <1>2. CASE CameraSwitch
    <2>1. PICK t : t = Token("switch", answered + 1, "plain") OBVIOUS
    <2>2. /\ FeedS2C(t) /\ Quiet /\ UNCHANGED clientVars /\ overlap' = overlap /\ extra' = extra
          /\ answered < heads
      BY <1>2, <2>1 DEF CameraSwitch, SwitchProtocols, MayAnswer
    <2>3. answered + 1 \in 0..MaxReq BY <2>2
    <2>4. t.n \in 0..MaxReq BY <2>1, <2>3, TokenIs
    <2> QED BY <2>2, <2>4
  <1>3. CASE \E f \in Framings : CameraAnswer(f)
    <2>1. PICK f \in Framings : CameraAnswer(f) BY <1>3
    <2>2. PICK t : t = Token("answer", answered + 1, f) OBVIOUS
    <2>3. /\ FeedS2C(t) /\ Quiet /\ UNCHANGED clientVars /\ overlap \subseteq overlap'
          /\ extra' = extra /\ answered < heads
      BY <2>1, <2>2 DEF CameraAnswer, BeginAnswer, MayAnswer
    <2>4. answered + 1 \in 0..MaxReq BY <2>3
    <2>5. t.n \in 0..MaxReq BY <2>2, <2>4, TokenIs
    <2> QED BY <2>3, <2>5
  <1>4. CASE CameraDone
    <2>1. PICK o \in {"plain", "unreadable"} : FeedS2C(Token("done", answered, o))
      BY <1>4 DEF CameraDone
    <2>2. PICK t : t = Token("done", answered, o) OBVIOUS
    <2>3. answered \in 0..MaxReq OBVIOUS
    <2>4. t.n \in 0..MaxReq BY <2>2, <2>3, TokenIs
    <2> QED BY <1>4, <2>1, <2>2, <2>4 DEF CameraDone, CompleteAnswer
  <1>5. CASE \E k \in Extras \ {"reply"} : CameraUnasked(k)
    <2>1. PICK k \in Extras \ {"reply"} : CameraUnasked(k) BY <1>5
    <2>2. PICK t : t = Token(k, 0, "plain") OBVIOUS
    <2>3. t.n \in 0..MaxReq BY <2>2, TokenIs, HttpAssumption
    <2> QED BY <2>1, <2>2, <2>3 DEF CameraUnasked, netVars
  <1> QED BY <1>1, <1>2, <1>3, <1>4, <1>5 DEF Camera

\* Only an HTTP connection has steps of the loop, and it stays one or gets raw.
LEMMA DecodeKind ==
  ASSUME Sound, Decode
  PROVE  feeding # "none" /\ kind = "http" /\ kind' \in {"http", "raw"}
  <1>1. feeding # "none"
    BY DEF Decode, FeedEnds, ParseFails, OnRequest, OnRequestEnd, OnInformational, OnResponse,
           OnResponseEnd, Parsed
  <1>2. kind = "http" BY <1>1, Stepping
  <1>3. kind' \in {kind, "raw"}
    BY DEF Decode, FeedEnds, ParseFails, OnRequest, OnRequestEnd, OnInformational, OnResponse,
           OnResponseEnd, Conclude, eventVars
  <1> QED BY <1>1, <1>2, <1>3

----------------------------------------------------------------------------
(* TLS: a complete ClientHello has been read.                               *)

LEMMA HelloNext ==
  ASSUME Sound, HelloRead, Next
  PROVE  HelloRead'
  <1> SUFFICES ASSUME kind' = "tls", ends' > 0, stuck' = {} PROVE log'[1].body
    BY DEF HelloRead
  <1>1. kind = "tls" => /\ dialect = "tls" /\ (heads > 0 => log # << >>)
                        /\ \A i \in 1..Len(log) : log[i].tag \in {"tls", "raw"}
    BY DEF Sound, Decided
  <1>2. kind = "none" => heads = 0 /\ ends = 0
    BY NetNumbers DEF Sound, Decided
  <1>3. log \in Seq(Entries) /\ (log # << >> => 1 \in 1..Len(log)) BY DEF Sound, DecoderTyped
  <1>4. heads \in Nat /\ ends \in Nat /\ ends <= heads BY NetNumbers DEF Sound
  <1>5. CASE Client
    <2>1. PICK t : t.n \in 0..MaxReq /\ FeedC2S(t) BY <1>5, ClientFeeds
    <2>2. TlsFeed(t) BY <2>1, ClientCases DEF Sound
    <2>3. /\ log' # << >> /\ stuck \subseteq stuck'
          /\ stuck' = {} /\ t.kind = "end" => \A i \in 1..Len(log') : log'[i].body
          /\ log # << >> /\ log[1].body /\ log[1].tag \in {"raw", "tls", "failed"} => log'[1].body
          /\ Grows({"tls"})
      BY <2>2, TlsGrows DEF Sound
    <2>4. CASE kind = "tls" /\ ends > 0
      <3>1. stuck = {} BY <2>3
      <3>2. log[1].body BY <2>4, <3>1 DEF HelloRead
      <3> QED BY <1>1, <1>3, <1>4, <2>3, <2>4, <3>2
    <2>5. CASE ~(kind = "tls" /\ ends > 0)
      <3>1. kind \in {"none", "tls"} BY <2>1, ClientCases DEF Sound
      <3>2. ends = 0 BY <1>2, <1>4, <2>5, <3>1
      <3>3. ClientEnd
        <4>1. \A k \in {"few", "part"} : ClientPiece(k) => ends' = ends
          BY DEF ClientPiece, netVars, clientVars
        <4>2. \A o : ClientHead(o) => ends' = ends BY DEF ClientHead, BeginRequest
        <4>3. ClientReply => ends' = ends BY DEF ClientReply, netVars, clientVars
        <4> QED BY <1>5, <3>2, <4>1, <4>2, <4>3 DEF Client
      <3>4. PICK o : FeedC2S(Token("end", heads, o)) BY <3>3 DEF ClientEnd
      <3>5. PICK u : u = Token("end", heads, o) OBVIOUS
      <3>6. u.kind = "end" /\ u.n \in 0..MaxReq /\ FeedC2S(u)
        BY <3>4, <3>5, TokenIs, NetNumbers DEF Sound
      <3>7. TlsFeed(u) BY <3>6, ClientCases DEF Sound
      <3>8. /\ log' # << >> /\ \A i \in 1..Len(log') : log'[i].body /\ Grows({"tls"})
        BY <3>6, <3>7, TlsGrows DEF Sound
      <3>9. log' \in Seq(Entries) BY <2>3 DEF Grows
      <3> QED BY <3>8, <3>9
    <2> QED BY <2>4, <2>5
  <1>6. CASE Camera
    <2>1. /\ \E t : t.n \in 0..MaxReq /\ FeedS2C(t)
          /\ UNCHANGED clientVars
      BY <1>6, CameraFeeds
    <2>2. PICK t : t.n \in 0..MaxReq /\ FeedS2C(t) BY <2>1
    <2>3. kind = "tls" /\ RawTouch BY <2>2, CameraCases DEF Sound, DecoderTyped
    <2>4. heads > 0 /\ ends > 0 BY <1>4, <2>1 DEF clientVars
    <2>5. log' = log /\ UNCHANGED rtspVars BY <1>1, <1>3, <2>3, <2>4, RawGrows DEF Sound
    <2> QED BY <2>3, <2>4, <2>5 DEF HelloRead, rtspVars
  <1>7. CASE Decode /\ UNCHANGED streamVars BY <1>7, DecodeKind
  <1>8. CASE Close
    <2>1. UNCHANGED netVars /\ (sniff \/ UNCHANGED <<log, kind, rtspVars>>) BY <1>8 DEF Close
    <2>2. ends' = ends BY <2>1 DEF netVars, clientVars
    <2>3. sniff => kind = "none" BY DEF Sound, Decided
    <2> QED BY <1>2, <2>1, <2>2, <2>3 DEF HelloRead, rtspVars
  <1> QED BY <1>5, <1>6, <1>7, <1>8 DEF Next

----------------------------------------------------------------------------
(* Raw: what was paired before stays as it is.                              *)

LEMMA RawTouchIs ==
  ASSUME DecoderTyped, RawTouch
  PROVE  \A i \in 1..Len(log') : (i \in 1..Len(log) /\ log'[i] = log[i]) \/ log'[i].tag = "raw"
  <1>1. log \in Seq(Entries) /\ nextId \in Nat \ {0} /\ 0 \in 0..MaxReq
    BY HttpAssumption DEF DecoderTyped
  <1>2. log' = Labelled("raw") BY DEF RawTouch, Touch
  <1>3. PICK e \in Entries : e = Entry(nextId, "raw", 0) /\ e.tag = "raw"
    <2>1. Entry(nextId, "raw", 0) \in Entries /\ Entry(nextId, "raw", 0).tag = "raw"
      BY <1>1, HttpAssumption DEF Entry, Entries
    <2> QED BY <2>1
  <1>4. log' = log \/ log' = Append(log, e) BY <1>2, <1>3 DEF Labelled
  <1>5. CASE log' = log BY <1>5
  <1>6. CASE log' = Append(log, e)
    <2> DEFINE n == Len(log)
    <2>1. /\ n \in Nat /\ log'[n + 1] = e /\ \A i \in 1..n : log'[i] = log[i]
          /\ \A i \in 1..Len(log') : i \in 1..n \/ i = n + 1
      BY <1>1, <1>3, <1>6, Appended
    <2> HIDE DEF n
    <2>2. \A i \in 1..Len(log') : (i \in 1..n /\ log'[i] = log[i]) \/ log'[i].tag = "raw"
      BY <1>3, <2>1
    <2> QED BY <2>2 DEF n
  <1> QED BY <1>4, <1>5, <1>6

LEMMA LeftTouched ==
  ASSUME Sound, kind' = "raw", RawTouch, kind = "none" \/ (kind = "raw" /\ PairedExactly),
         overlap \subseteq overlap', extra \subseteq extra'
  PROVE  PairedExactly'
  <1> SUFFICES ASSUME ~Disordered', NEW i \in 1..Len(log'), log'[i].tag \in {"http", "rtsp"}
               PROVE  log'[i].of # 0 /\ log'[i].ans \in {0, log'[i].of}
    BY DEF PairedExactly, Recorded
  <1>1. i \in 1..Len(log) /\ log'[i] = log[i] BY RawTouchIs DEF Sound
  <1>2. kind = "raw"
    <2>1. kind = "none" => log = << >> BY DEF Sound, Decided
    <2>2. Len(<< >>) = 0 OBVIOUS
    <2> QED BY <1>1, <2>1, <2>2
  <1>3. ~Disordered BY <1>2 DEF Disordered
  <1> QED BY <1>1, <1>2, <1>3 DEF PairedExactly, Recorded

LEMMA LeftPeers ==
  ASSUME Sound, LeftExact, Client \/ Camera \/ Close
  PROVE  LeftExact'
  <1> SUFFICES ASSUME kind' = "raw" PROVE PairedExactly'
    BY DEF LeftExact
  <1>1. kind \in {"none", "http", "rtsp", "tls", "raw"} BY DEF Sound, DecoderTyped
  <1>2. CASE Client
    <2>1. /\ \E t : t.n \in 0..MaxReq /\ FeedC2S(t)
          /\ overlap \subseteq overlap' /\ extra \subseteq extra'
      BY <1>2, ClientFeeds
    <2>2. PICK t : t.n \in 0..MaxReq /\ FeedC2S(t) BY <2>1
    <2>3. RawTouch /\ kind \in {"none", "raw"} BY <1>1, <2>2, ClientCases DEF Sound
    <2> QED BY <2>1, <2>3, LeftTouched DEF LeftExact
  <1>3. CASE Camera
    <2>1. /\ \E t : t.n \in 0..MaxReq /\ FeedS2C(t)
          /\ overlap \subseteq overlap' /\ extra \subseteq extra'
      BY <1>3, CameraFeeds
    <2>2. PICK t : t.n \in 0..MaxReq /\ FeedS2C(t) BY <2>1
    <2>3. RawTouch /\ kind \in {"none", "raw"} BY <1>1, <2>2, CameraCases DEF Sound
    <2> QED BY <2>1, <2>3, LeftTouched DEF LeftExact
  <1>4. CASE Close
    <2>1. UNCHANGED netVars /\ extra' = extra BY <1>4 DEF Close
    <2>2. overlap' = overlap BY <2>1 DEF netVars
    <2>3. CASE sniff
      <3>1. RawTouch /\ kind = "none" BY <1>4, <2>3 DEF Close, Sound, Decided
      <3> QED BY <2>1, <2>2, <3>1, LeftTouched
    <2>4. CASE ~sniff
      <3>1. log' = log /\ kind' = kind BY <1>4, <2>4 DEF Close
      <3> QED BY <2>1, <2>2, <3>1 DEF LeftExact, PairedExactly, Recorded, Disordered
    <2> QED BY <2>3, <2>4
  <1> QED BY <1>2, <1>3, <1>4

----------------------------------------------------------------------------
(* RTSP: each message of the camera goes to the request it answers.         *)

\* What Paired is about, unless both say nothing.
LEMMA PairedStart ==
  ASSUME Sound, Paired, InTurn
  PROVE  /\ ends \in Nat /\ finished \in Nat /\ finished <= ends
         /\ answered <= ends /\ heads > 0 /\ dialect = "rtsp"
         /\ log \in Seq(Entries) /\ nextId \in Nat \ {0} /\ rtspAwait \in Seq(1..nextId)
         /\ stuck \subseteq {"c2s", "s2c"} /\ glued \in BOOLEAN
  BY NetNumbers DEF Sound, Wire, InTurn, Decided, DecoderTyped

\* As long as only these change.
LEMMA PairedWaits ==
  ASSUME Sound, Paired, kind = "rtsp" \/ ~InTurn',
         kind' = "none" => kind = "none" /\ glued' = glued,
         UNCHANGED <<ends, finished, log, stuck, rtspAwait>>,
         overlap \subseteq overlap', extra \subseteq extra',
         glued' => glued \/ "media" \in extra'
  PROVE  Paired'
  <1>1. InTurn' => InTurn BY DEF InTurn
  <1> QED BY <1>1 DEF Paired

\* A message of the client: recorded, unless something is unreadable.
LEMMA PairedEnd ==
  ASSUME Sound, Paired, ClientEnd, kind' = "rtsp"
  PROVE  Paired'
  <1> SUFFICES ASSUME InTurn' PROVE Paired' BY DEF Paired
  <1>1. PICK o \in {"plain", "unreadable"} : FeedC2S(Token("end", heads, o))
    BY DEF ClientEnd
  <1>2. PICK t : t = Token("end", heads, o) OBVIOUS
  <1>3. /\ FeedC2S(t) /\ ends < heads /\ ends' = heads /\ UNCHANGED <<extra, overlap, finished>>
    BY <1>1, <1>2 DEF ClientEnd, CompleteRequest, cameraVars
  <1>4. t.kind = "end" /\ t.n = heads /\ t.opt = o /\ t.n \in 0..MaxReq
    BY <1>2, TokenIs, NetNumbers DEF Sound
  <1>5. kind = "rtsp" /\ RtspParse("c2s", t)
    <2>1. kind # "none" BY <1>3, NetNumbers DEF Sound, Decided
    <2> QED BY <2>1, <1>3, <1>4, ClientCases DEF Sound
  <1>6. InTurn BY <1>3, <1>5 DEF InTurn
  <1>7. /\ ends \in Nat /\ finished \in Nat /\ finished <= ends /\ heads = ends + 1
        /\ log \in Seq(Entries) /\ nextId \in Nat \ {0} /\ rtspAwait \in Seq(1..nextId)
    BY <1>3, <1>6, PairedStart, NetNumbers DEF Sound
  <1>8. /\ Len(log) <= ends /\ ("c2s" \notin stuck => Len(log) = ends)
        /\ \A i \in 1..Len(log) : log[i].of = i /\ log[i].ans \in {0, i}
        /\ glued => "media" \in extra
        /\ stuck = {} =>
              /\ Len(rtspAwait) = ends - finished
              /\ \A k \in 1..Len(rtspAwait) : rtspAwait[k] = log[finished + k].id
              /\ \A i \in 1..finished : log[i].body /\ (log[i].ans = i \/ "media" \in extra)
    BY <1>6 DEF Paired
  <1>9. CASE "c2s" \in stuck
    <2>1. glued' = (glued \/ t.kind = "media") /\ UNCHANGED <<log, nextId, stuck, rtspAwait>>
      BY <1>5, <1>9 DEF RtspParse
    <2>2. Len(log) \in Nat BY <1>7
    <2>3. Len(log) <= ends' BY <1>3, <1>7, <1>8, <2>2
    <2> QED BY <1>3, <1>4, <1>8, <1>9, <2>1, <2>3 DEF Paired
  <1>10. CASE "c2s" \notin stuck /\ o = "unreadable"
    <2>1. stuck' = stuck \cup {"c2s"} /\ UNCHANGED <<log, nextId, glued, rtspAwait>>
      BY <1>4, <1>5, <1>10 DEF RtspParse
    <2>2. Len(log) \in Nat BY <1>7
    <2>3. Len(log) <= ends' BY <1>3, <1>7, <1>8, <2>2
    <2> QED BY <1>3, <1>8, <1>10, <2>1, <2>3 DEF Paired
  <1>11. CASE "c2s" \notin stuck /\ o # "unreadable"
    <2>1. RecordRtsp(t) BY <1>4, <1>5, <1>11 DEF RtspParse
    <2>2. /\ log' = Append(log, Entry(nextId, "rtsp", heads))
          /\ rtspAwait' = Append(rtspAwait, nextId) /\ UNCHANGED <<glued, stuck>>
      BY <1>4, <2>1 DEF RecordRtsp
    <2>3. PICK e : e = Entry(nextId, "rtsp", heads) OBVIOUS
    <2>4. e \in Entries /\ e.id = nextId /\ e.of = heads /\ e.ans = 0
      BY <1>4, <1>7, <2>3, HttpAssumption DEF Entry, Entries
    <2> DEFINE n == Len(log)
               m == Len(rtspAwait)
    <2>5. /\ n \in Nat /\ Len(log') = n + 1 /\ log'[n + 1] = e /\ \A i \in 1..n : log'[i] = log[i]
          /\ \A i \in 1..Len(log') : i \in 1..n \/ i = n + 1
      BY <1>7, <2>2, <2>3, <2>4, Appended
    <2>6. /\ m \in Nat /\ Len(rtspAwait') = m + 1 /\ rtspAwait'[m + 1] = nextId
          /\ \A i \in 1..m : rtspAwait'[i] = rtspAwait[i]
          /\ \A i \in 1..Len(rtspAwait') : i \in 1..m \/ i = m + 1
      <3>1. nextId \in 1..nextId BY <1>7
      <3> QED BY <1>7, <2>2, <3>1, Appended
    <2>7. n = ends /\ \A i \in 1..n : log[i].of = i /\ log[i].ans \in {0, i}
      BY <1>8, <1>11
    <2>8. stuck = {} =>
              /\ m = ends - finished
              /\ \A k \in 1..m : rtspAwait[k] = log[finished + k].id
              /\ \A i \in 1..finished : log[i].body /\ (log[i].ans = i \/ "media" \in extra)
      BY <1>8
    <2> HIDE DEF n, m
    <2>9. Len(log') = ends' BY <1>3, <1>7, <2>5, <2>7
    <2>10. \A i \in 1..Len(log') : log'[i].of = i /\ log'[i].ans \in {0, i}
      BY <1>7, <2>4, <2>5, <2>7
    <2>11. ASSUME stuck = {}
           PROVE  /\ Len(rtspAwait') = ends' - finished'
                  /\ \A k \in 1..Len(rtspAwait') : rtspAwait'[k] = log'[finished' + k].id
                  /\ \A i \in 1..finished' : log'[i].body /\ (log'[i].ans = i \/ "media" \in extra')
      <3>1. Len(rtspAwait') = ends' - finished' BY <1>3, <1>7, <2>6, <2>8, <2>11
      <3>2. \A k \in 1..Len(rtspAwait') : rtspAwait'[k] = log'[finished' + k].id
        <4> TAKE k \in 1..Len(rtspAwait')
        <4>1. CASE k \in 1..m
          <5>1. finished + k \in 1..n BY <1>7, <2>7, <2>8, <2>11, <4>1
          <5> QED BY <1>3, <2>5, <2>6, <2>8, <2>11, <4>1, <5>1
        <4>2. CASE k = m + 1
          <5>1. finished + k = n + 1 BY <1>7, <2>7, <2>8, <2>11, <4>2
          <5> QED BY <1>3, <2>4, <2>5, <2>6, <4>2, <5>1
        <4> QED BY <2>6, <4>1, <4>2
      <3>3. \A i \in 1..finished' : log'[i].body /\ (log'[i].ans = i \/ "media" \in extra')
        <4> TAKE i \in 1..finished'
        <4>1. i \in 1..finished /\ i \in 1..n BY <1>3, <1>7, <2>7
        <4> QED BY <1>3, <2>5, <2>8, <2>11, <4>1
      <3> QED BY <3>1, <3>2, <3>3
    <2>12. Len(log') <= ends' BY <1>3, <1>7, <2>9
    <2> QED BY <1>3, <1>8, <2>2, <2>9, <2>10, <2>11, <2>12 DEF Paired
  <1> QED BY <1>9, <1>10, <1>11

\* A message of the camera, complete: it goes to the oldest request.
LEMMA PairedDone ==
  ASSUME Sound, Paired, CameraDone, kind' = "rtsp"
  PROVE  Paired'
  <1> SUFFICES ASSUME InTurn' PROVE Paired' BY DEF Paired
  <1>1. PICK o \in {"plain", "unreadable"} : FeedS2C(Token("done", answered, o))
    BY DEF CameraDone
  <1>2. PICK t : t = Token("done", answered, o) OBVIOUS
  <1>3. /\ FeedS2C(t) /\ finished < answered /\ finished' = answered
        /\ UNCHANGED <<extra, overlap, ends, heads>>
    BY <1>1, <1>2 DEF CameraDone, CompleteAnswer, clientVars
  <1>4. t.kind = "done" /\ t.n = answered /\ t.opt = o /\ t.n \in 0..MaxReq
    BY <1>2, TokenIs, NetNumbers DEF Sound
  <1>5. kind = "rtsp" /\ RtspParse("s2c", t)
    BY <1>3, <1>4, CameraCases DEF Sound
  <1>6. InTurn BY <1>3, <1>5 DEF InTurn
  <1>7. /\ ends \in Nat /\ finished \in Nat /\ answered = finished + 1 /\ answered <= ends
        /\ log \in Seq(Entries) /\ nextId \in Nat \ {0} /\ rtspAwait \in Seq(1..nextId)
        /\ stuck \subseteq {"c2s", "s2c"}
    BY <1>3, <1>6, PairedStart, NetNumbers DEF Sound
  <1>8. /\ Len(log) <= ends /\ ("c2s" \notin stuck => Len(log) = ends)
        /\ \A i \in 1..Len(log) : log[i].of = i /\ log[i].ans \in {0, i}
        /\ glued => "media" \in extra
        /\ stuck = {} =>
              /\ Len(rtspAwait) = ends - finished
              /\ \A k \in 1..Len(rtspAwait) : rtspAwait[k] = log[finished + k].id
              /\ \A i \in 1..finished : log[i].body /\ (log[i].ans = i \/ "media" \in extra)
    BY <1>6 DEF Paired
  <1>9. CASE stuck # {}
    <2>1. stuck \cap {"c2s", "s2c"} # {} BY <1>7, <1>9
    <2>2. glued' = (glued \/ t.kind = "media") /\ UNCHANGED <<log, nextId, stuck, rtspAwait>>
      BY <1>5, <2>1 DEF RtspParse
    <2> QED BY <1>3, <1>4, <1>8, <1>9, <2>2 DEF Paired
  <1>10. CASE stuck = {} /\ o = "unreadable"
    <2>1. stuck' = stuck \cup {"s2c"} /\ UNCHANGED <<log, nextId, glued, rtspAwait>>
      BY <1>4, <1>5, <1>10 DEF RtspParse
    <2> QED BY <1>3, <1>8, <1>10, <2>1 DEF Paired
  <1>11. CASE stuck = {} /\ o # "unreadable"
    <2>1. PairRtsp(t) BY <1>4, <1>5, <1>11 DEF RtspParse
    <2> DEFINE n == Len(log)
               m == Len(rtspAwait)
    <2>2. \A i \in 1..Len(log) : log[i].tag = "rtsp" BY <1>5, RtspTags DEF Sound
    <2>3. PICK a \in {0, t.n} :
             /\ t.kind # "own" /\ ~glued => a = t.n
             /\ \A i \in 1..n :
                  log'[i] = IF rtspAwait # << >> /\ log[i].id = Head(rtspAwait)
                            THEN [log[i] EXCEPT !.ans = a, !.body = TRUE] ELSE log[i]
      BY <1>4, <2>1, <2>2, PairRtspGrows DEF Sound
    <2>4. /\ glued' = FALSE /\ stuck' = stuck /\ Len(log') = n
          /\ rtspAwait' = PopOldest(rtspAwait)
      BY <1>4, <2>1, <2>2, PairRtspGrows DEF Sound, PairRtsp
    <2>5. /\ n \in Nat /\ \A i \in 1..n : log[i] \in Entries
          /\ \A i, j \in 1..n : log[i].id = log[j].id => i = j
      BY <1>7, EntryTyped DEF Sound, Ids, Unique
    <2>6. /\ n = ends /\ m = ends - finished /\ 0 < m /\ rtspAwait # << >>
          /\ Head(rtspAwait) = rtspAwait[1] /\ rtspAwait' = Tail(rtspAwait)
          /\ Len(rtspAwait') = m - 1
          /\ \A k \in 1..Len(rtspAwait') : rtspAwait'[k] = rtspAwait[k + 1]
      <3>1. n = ends /\ m = ends - finished BY <1>8, <1>11
      <3>2. 0 < m BY <1>7, <3>1
      <3>3. rtspAwait # << >> BY <3>2
      <3>4. rtspAwait' = Tail(rtspAwait) BY <2>4, <3>3 DEF PopOldest
      <3> QED BY <1>7, <3>1, <3>2, <3>3, <3>4, Removed
    <2>7. /\ \A i \in 1..n : log[i].of = i /\ log[i].ans \in {0, i}
          /\ \A k \in 1..m : rtspAwait[k] = log[finished + k].id
          /\ \A i \in 1..finished : log[i].body /\ (log[i].ans = i \/ "media" \in extra)
      BY <1>8, <1>11
    <2> HIDE DEF n, m
    <2>8. answered \in 1..n /\ Head(rtspAwait) = log[answered].id
      <3>1. 1 \in 1..m /\ finished + 1 = answered BY <1>7, <2>6
      <3> QED BY <1>7, <2>6, <2>7, <3>1
    <2>9. a \in 0..MaxReq BY <1>4, HttpAssumption
    <2>10. PICK f : f = [log[answered] EXCEPT !.ans = a, !.body = TRUE] OBVIOUS
    <2>11. /\ log'[answered] = f /\ f.id = log[answered].id /\ f.of = log[answered].of
           /\ f.ans = a /\ f.body
      <3>1. PICK e \in Entries : e = log[answered] BY <2>5, <2>8
      <3>2. f = [e EXCEPT !.ans = a, !.body = TRUE] BY <2>10, <3>1
      <3>3. f.id = e.id /\ f.of = e.of /\ f.ans = a /\ f.body
        BY <2>9, <3>2, PairedEntry
      <3>4. log'[answered] = f BY <2>3, <2>6, <2>8, <2>10
      <3> QED BY <3>1, <3>3, <3>4
    <2>12. \A i \in 1..n : i # answered => log'[i] = log[i]
      BY <2>3, <2>5, <2>8
    <2>13. \A i \in 1..Len(log') : log'[i].of = i /\ log'[i].ans \in {0, i}
      <3> TAKE i \in 1..Len(log')
      <3>1. i \in 1..n BY <2>4
      <3>2. CASE i = answered BY <1>4, <2>7, <2>8, <2>11, <3>2
      <3>3. CASE i # answered BY <2>7, <2>12, <3>1, <3>3
      <3> QED BY <3>2, <3>3
    <2>14. Len(rtspAwait') = ends' - finished' BY <1>3, <1>7, <2>6
    <2>15. \A k \in 1..Len(rtspAwait') : rtspAwait'[k] = log'[finished' + k].id
      <3> TAKE k \in 1..Len(rtspAwait')
      <3>1. /\ k + 1 \in 1..m /\ finished' + k = finished + (k + 1)
            /\ finished + (k + 1) \in 1..n /\ finished + (k + 1) # answered
        BY <1>3, <1>7, <2>6
      <3>2. rtspAwait'[k] = log[finished + (k + 1)].id BY <2>6, <2>7, <3>1
      <3>3. log'[finished + (k + 1)] = log[finished + (k + 1)] BY <2>12, <3>1
      <3> QED BY <3>1, <3>2, <3>3
    <2>16. \A i \in 1..finished' : log'[i].body /\ (log'[i].ans = i \/ "media" \in extra')
      <3> TAKE i \in 1..finished'
      <3>1. i \in 1..n /\ (i = answered \/ i \in 1..finished) BY <1>3, <1>7, <2>6
      <3>2. CASE i = answered
        <4>1. a = answered \/ "media" \in extra BY <1>4, <1>8, <2>3
        <4> QED BY <1>3, <2>11, <3>2, <4>1
      <3>3. CASE i # answered
        <4>1. i \in 1..finished /\ log'[i] = log[i] BY <2>12, <3>1, <3>3
        <4> QED BY <1>3, <2>7, <4>1
      <3> QED BY <3>2, <3>3
    <2>17. Len(log') = ends' /\ Len(log') <= ends' BY <1>3, <1>7, <2>4, <2>6
    <2> QED BY <2>4, <2>13, <2>14, <2>15, <2>16, <2>17 DEF Paired
  <1> QED BY <1>9, <1>10, <1>11

\* Only what ends as RTSP has anything to show.
LEMMA PairedElse ==
  ASSUME Sound, Paired, kind' # "rtsp",
         NEW t, t.n \in 0..MaxReq, FeedC2S(t) \/ FeedS2C(t)
  PROVE  Paired'
  <1>1. ~InTurn' BY DEF InTurn
  <1>2. kind' = "none" => kind = "none" /\ glued' = glued
    <2>1. CASE FeedC2S(t) BY <2>1, ClientCases DEF Sound, rtspVars
    <2>2. CASE FeedS2C(t) BY <2>2, CameraCases DEF Sound, rtspVars
    <2> QED BY <2>1, <2>2
  <1> QED BY <1>1, <1>2 DEF Paired

\* A message of RTSP that is not complete yet, and media in front of one.
LEMMA PairedPartly ==
  ASSUME Sound, Paired, kind = "rtsp", kind' = "rtsp",
         NEW d \in {"c2s", "s2c"}, NEW t, RtspParse(d, t),
         t.kind \notin {"end", "done", "own", "reply"},
         UNCHANGED <<ends, finished>>, overlap \subseteq overlap', extra \subseteq extra',
         t.kind = "media" => "media" \in extra'
  PROVE  Paired'
  <1>1. glued' = (glued \/ t.kind = "media") /\ UNCHANGED <<log, nextId, stuck, rtspAwait>>
    BY DEF RtspParse
  <1> QED BY <1>1, PairedWaits

LEMMA PairedHead ==
  ASSUME Sound, Paired, NEW o \in {"plain", "upgrade"}, ClientHead(o), kind' = "rtsp"
  PROVE  Paired'
  <1>1. PICK t : t = Token("head", heads + 1, o) OBVIOUS
  <1>2. /\ FeedC2S(t) /\ heads < MaxReq /\ heads = ends /\ UNCHANGED <<ends, finished, extra>>
        /\ overlap \subseteq overlap'
    BY <1>1 DEF ClientHead, BeginRequest, cameraVars
  <1>3. t.kind = "head" /\ t.n \in 0..MaxReq
    <2>1. heads + 1 \in 0..MaxReq BY <1>2, NetNumbers DEF Sound
    <2> QED BY <1>1, <2>1, TokenIs
  <1>4. RtspParse("c2s", t) /\ kind \in {"none", "rtsp"}
    BY <1>2, <1>3, ClientCases DEF Sound, DecoderTyped
  <1>5. CASE kind = "rtsp"
    <2>1. "c2s" \in {"c2s", "s2c"} OBVIOUS
    <2> QED BY <1>2, <1>3, <1>4, <1>5, <2>1, PairedPartly
  <1>6. CASE kind = "none"
    <2>1. glued' = (glued \/ t.kind = "media") /\ UNCHANGED <<log, nextId, stuck, rtspAwait>>
      BY <1>3, <1>4 DEF RtspParse
    <2>2. heads = 0 /\ log = << >> /\ rtspAwait = << >> /\ ~glued
      BY <1>6 DEF Sound, Decided, Paired
    <2>3. ends' = 0 /\ finished' = 0 BY <1>2, <2>2, NetNumbers DEF Sound
    <2>4. log' = << >> /\ rtspAwait' = << >> /\ ~glued' BY <1>3, <2>1, <2>2
    <2>5. Len(<< >>) = 0 /\ 0 - 0 = 0 /\ \A i : i \notin 1..0 OBVIOUS
    <2>6. /\ Len(log') = 0 /\ Len(rtspAwait') = 0
          /\ \A i \in 1..Len(log') : FALSE
          /\ \A i \in 1..Len(rtspAwait') : FALSE
          /\ \A i \in 1..finished' : FALSE
      BY <2>3, <2>4, <2>5
    <2> QED BY <2>3, <2>4, <2>5, <2>6 DEF Paired
  <1> QED BY <1>4, <1>5, <1>6

LEMMA PairedClient ==
  ASSUME Sound, Paired, NEW p, NEW o,
         \/ p \in {"few", "part"} /\ ClientPiece(p)
         \/ o \in {"plain", "upgrade"} /\ ClientHead(o)
         \/ ClientEnd
         \/ ClientReply,
         Client
  PROVE  Paired'
  <1>1. PICK u : u.n \in 0..MaxReq /\ FeedC2S(u) BY ClientFeeds
  <1>2. CASE kind' # "rtsp" BY <1>1, <1>2, PairedElse
  <1>3. CASE kind' = "rtsp"
    <2>1. CASE p \in {"few", "part"} /\ ClientPiece(p)
      <3>1. PICK t : t = Token(p, 0, "plain") OBVIOUS
      <3>2. FeedC2S(t) /\ heads = 0 BY <2>1, <3>1 DEF ClientPiece
      <3>3. t.kind = p /\ t.n \in 0..MaxReq BY <3>1, TokenIs, HttpAssumption
      <3>4. kind # "rtsp" BY <3>2, NetNumbers DEF Sound, Decided
      <3>5. kind' # "rtsp" BY <2>1, <3>2, <3>3, <3>4, ClientCases DEF Sound, Decide
      <3> QED BY <1>3, <3>5
    <2>2. CASE o \in {"plain", "upgrade"} /\ ClientHead(o) BY <1>3, <2>2, PairedHead
    <2>3. CASE ClientEnd BY <1>3, <2>3, PairedEnd
    <2>4. CASE ClientReply
      <3>1. "reply" \in extra' BY <2>4 DEF ClientReply
      <3> QED BY <1>3, <3>1 DEF Paired, InTurn
    <2> QED BY <2>1, <2>2, <2>3, <2>4
  <1> QED BY <1>2, <1>3

LEMMA PairedCamera ==
  ASSUME Sound, Paired, NEW k, NEW f,
         \/ CameraInfo
         \/ CameraSwitch
         \/ CameraAnswer(f)
         \/ CameraDone
         \/ k \in Extras \ {"reply"} /\ CameraUnasked(k),
         Camera
  PROVE  Paired'
  <1>1. /\ \E u : u.n \in 0..MaxReq /\ FeedS2C(u)
        /\ UNCHANGED clientVars /\ overlap \subseteq overlap' /\ extra \subseteq extra'
    BY CameraFeeds
  <1>2. CASE kind' # "rtsp" BY <1>1, <1>2, PairedElse
  <1>3. CASE kind' = "rtsp"
    <2>1. kind = "rtsp" /\ dialect = "rtsp" /\ heads > 0
      <3>1. PICK u : u.n \in 0..MaxReq /\ FeedS2C(u) BY <1>1
      <3>2. kind = "rtsp" BY <1>3, <3>1, CameraCases DEF Sound, DecoderTyped
      <3> QED BY <3>2 DEF Sound, Decided
    <2>2. ~CameraInfo BY <2>1 DEF CameraInfo
    <2>3. ~CameraSwitch
      <3>1. asked = 0 /\ answered \in Nat BY <2>1, NetNumbers DEF Sound, Wire
      <3>2. asked # answered + 1 BY <3>1
      <3> QED BY <3>2 DEF CameraSwitch, SwitchProtocols
    <2>4. CASE CameraAnswer(f)
      <3>1. PICK t : t = Token("answer", answered + 1, f) OBVIOUS
      <3>2. FeedS2C(t) /\ answered < heads /\ UNCHANGED <<ends, finished>>
        BY <2>4, <3>1 DEF CameraAnswer, BeginAnswer, MayAnswer, clientVars
      <3>3. answered + 1 \in 0..MaxReq BY <3>2, NetNumbers DEF Sound
      <3>4. t.kind = "answer" /\ t.n \in 0..MaxReq BY <3>1, <3>3, TokenIs
      <3>5. RtspParse("s2c", t) BY <1>3, <3>2, <3>4, CameraCases DEF Sound
      <3>6. "s2c" \in {"c2s", "s2c"} OBVIOUS
      <3> QED BY <1>1, <1>3, <2>1, <3>2, <3>4, <3>5, <3>6, PairedPartly
    <2>5. CASE CameraDone BY <1>3, <2>5, PairedDone
    <2>6. CASE k \in Extras \ {"reply"} /\ CameraUnasked(k)
      <3>1. PICK t : t = Token(k, 0, "plain") OBVIOUS
      <3>2. /\ FeedS2C(t) /\ k \in extra' /\ UNCHANGED <<ends, finished>>
            /\ k \in {"banner", "aside"} => heads = 0
        BY <2>6, <3>1 DEF CameraUnasked, netVars, clientVars, cameraVars
      <3>3. t.kind = k /\ t.n \in 0..MaxReq BY <3>1, TokenIs, HttpAssumption
      <3>4. k \in {"media", "own"} BY <2>1, <2>6, <3>2, NetNumbers DEF Sound, Extras
      <3>5. CASE k = "own" BY <1>3, <3>2, <3>5 DEF Paired, InTurn
      <3>6. CASE k = "media"
        <4>1. RtspParse("s2c", t) BY <1>3, <3>2, <3>3, CameraCases DEF Sound
        <4>2. "s2c" \in {"c2s", "s2c"} OBVIOUS
        <4> QED BY <1>1, <1>3, <2>1, <3>2, <3>3, <3>6, <4>1, <4>2, PairedPartly
      <3> QED BY <3>4, <3>5, <3>6
    <2> QED BY <2>2, <2>3, <2>4, <2>5, <2>6
  <1> QED BY <1>2, <1>3

LEMMA PairedClose ==
  ASSUME Sound, Paired, Close
  PROVE  Paired'
  <1>1. UNCHANGED <<ends, finished, overlap, extra>>
    BY DEF Close, netVars, clientVars, cameraVars
  <1>2. CASE sniff
    <2>1. kind' = Decide(Token("few", 0, "plain")) BY <1>2 DEF Close
    <2>2. kind' \in {"tls", "raw"} BY <2>1, TokenIs DEF Decide
    <2> QED BY <2>2 DEF Paired, InTurn
  <1>3. CASE ~sniff
    <2>1. UNCHANGED <<log, kind, glued, stuck, rtspAwait>> BY <1>3 DEF Close, rtspVars
    <2>2. kind = "rtsp" \/ ~InTurn' BY <2>1 DEF InTurn
    <2> QED BY <1>1, <2>1, <2>2, PairedWaits
  <1> QED BY <1>2, <1>3

\* Every step of the specification keeps it.
LEMMA PairedNext ==
  ASSUME Sound, Paired, Next
  PROVE  Paired'
  <1>1. CASE Client
    <2>1. \/ \E k \in {"few", "part"} : ClientPiece(k)
          \/ \E o \in {"plain", "upgrade"} : ClientHead(o)
          \/ ClientEnd
          \/ ClientReply
      BY <1>1 DEF Client
    <2> QED BY <1>1, <2>1, PairedClient
  <1>2. CASE Camera BY <1>2, PairedCamera DEF Camera
  <1>3. CASE Decode BY <1>3, DecodeKind DEF Paired, InTurn
  <1>4. CASE Close BY <1>4, PairedClose
  <1> QED BY <1>1, <1>2, <1>3, <1>4 DEF Next

----------------------------------------------------------------------------
(* HTTP without overlap: what the machines do.                              *)

\* Two machines are the same when their parts are.
LEMMA SameMachine ==
  ASSUME NEW x \in Machines, NEW y \in Machines,
         x.client = y.client, x.server = y.server, x.offer = y.offer
  PROVE  x = y
  BY DEF Machines

LEMMA MachineSet ==
  ASSUME NEW m \in Machines, NEW cl \in Roles, NEW sv \in Roles, NEW o \in BOOLEAN
  PROVE  /\ [m EXCEPT !.client = cl] = [client |-> cl, server |-> m.server, offer |-> m.offer]
         /\ [m EXCEPT !.server = sv] = [client |-> m.client, server |-> sv, offer |-> m.offer]
         /\ [m EXCEPT !.offer = o] = [client |-> m.client, server |-> m.server, offer |-> o]
  <1>1. [m EXCEPT !.client = cl] \in Machines /\ [m EXCEPT !.server = sv] \in Machines
        /\ [m EXCEPT !.offer = o] \in Machines
    BY DEF Machines
  <1>2. /\ [client |-> cl, server |-> m.server, offer |-> m.offer] \in Machines
        /\ [client |-> m.client, server |-> sv, offer |-> m.offer] \in Machines
        /\ [client |-> m.client, server |-> m.server, offer |-> o] \in Machines
    BY DEF Machines
  <1>3. /\ [m EXCEPT !.client = cl].client = cl /\ [m EXCEPT !.client = cl].server = m.server
        /\ [m EXCEPT !.client = cl].offer = m.offer
    BY DEF Machines
  <1>4. /\ [m EXCEPT !.server = sv].client = m.client /\ [m EXCEPT !.server = sv].server = sv
        /\ [m EXCEPT !.server = sv].offer = m.offer
    BY DEF Machines
  <1>5. /\ [m EXCEPT !.offer = o].client = m.client /\ [m EXCEPT !.offer = o].server = m.server
        /\ [m EXCEPT !.offer = o].offer = o
    BY DEF Machines
  <1>6. [m EXCEPT !.client = cl] = [client |-> cl, server |-> m.server, offer |-> m.offer]
    BY <1>1, <1>2, <1>3, SameMachine
  <1>7. [m EXCEPT !.server = sv] = [client |-> m.client, server |-> sv, offer |-> m.offer]
    BY <1>1, <1>2, <1>4, SameMachine
  <1>8. [m EXCEPT !.offer = o] = [client |-> m.client, server |-> m.server, offer |-> o]
    BY <1>1, <1>2, <1>5, SameMachine
  <1> QED BY <1>6, <1>7, <1>8

\* What the state-triggered transitions do.
LEMMA SettleIs ==
  ASSUME NEW m \in Machines
  PROVE  /\ m.client # "DONE" /\ m.client # "MIGHT_SWITCH" /\ m.client # "ERROR" => Settle(m) = m
         /\ m.client = "DONE" /\ m.server # "ERROR" =>
              Settle(m) = [client |-> IF m.offer THEN "MIGHT_SWITCH" ELSE "DONE",
                           server |-> m.server, offer |-> m.offer]
         /\ m.client = "MIGHT_SWITCH" /\ m.server = "SWITCHED" /\ m.offer =>
              Settle(m) = [client |-> "SWITCHED", server |-> m.server, offer |-> m.offer]
         /\ m.client = "MIGHT_SWITCH" /\ m.server # "SWITCHED" =>
              Settle(m) = [client |-> IF m.offer THEN "MIGHT_SWITCH" ELSE "DONE",
                           server |-> m.server, offer |-> m.offer]
  <1> DEFINE cl == CASE m.client = "DONE" /\ m.offer -> "MIGHT_SWITCH"
                    [] m.client = "MIGHT_SWITCH" /\ m.server = "SWITCHED" -> "SWITCHED"
                    [] m.client = "MIGHT_SWITCH" /\ ~m.offer -> "DONE"
                    [] m.client = "DONE" /\ m.server = "ERROR" -> "MUST_CLOSE"
                    [] OTHER -> m.client
             sv == IF m.client = "ERROR" /\ m.server = "DONE" THEN "MUST_CLOSE"
                                                            ELSE m.server
  <1>1. m.client \in Roles /\ m.server \in Roles /\ m.offer \in BOOLEAN BY DEF Machines
  <1>2. cl \in Roles /\ sv \in Roles BY <1>1 DEF Roles
  <1>3. Settle(m) = [m EXCEPT !.client = cl, !.server = sv] BY DEF Settle
  <1>4. /\ m.client # "DONE" /\ m.client # "MIGHT_SWITCH" => cl = m.client
        /\ m.client = "DONE" /\ m.server # "ERROR" =>
             cl = IF m.offer THEN "MIGHT_SWITCH" ELSE "DONE"
        /\ m.client = "MIGHT_SWITCH" /\ m.server = "SWITCHED" /\ m.offer => cl = "SWITCHED"
        /\ m.client = "MIGHT_SWITCH" /\ m.server # "SWITCHED" =>
             cl = IF m.offer THEN "MIGHT_SWITCH" ELSE "DONE"
    <2>1. m.client # "DONE" /\ m.client # "MIGHT_SWITCH" => cl = m.client OBVIOUS
    <2>2. m.client = "DONE" /\ m.server # "ERROR" =>
            cl = IF m.offer THEN "MIGHT_SWITCH" ELSE "DONE"
      OBVIOUS
    <2>3. m.client = "MIGHT_SWITCH" /\ m.server = "SWITCHED" /\ m.offer => cl = "SWITCHED" OBVIOUS
    <2>4. m.client = "MIGHT_SWITCH" /\ m.server # "SWITCHED" =>
            cl = IF m.offer THEN "MIGHT_SWITCH" ELSE "DONE"
      OBVIOUS
    <2> QED BY <2>1, <2>2, <2>3, <2>4
  <1>5. m.client # "ERROR" => sv = m.server OBVIOUS
  <1> HIDE DEF cl, sv
  <1>6. PICK x : x = [m EXCEPT !.client = cl] OBVIOUS
  <1>7. x \in Machines /\ x = [client |-> cl, server |-> m.server, offer |-> m.offer]
    BY <1>2, <1>6, <1>1, MachineSet DEF Machines
  <1>8. Settle(m) = [x EXCEPT !.server = sv] BY <1>3, <1>6
  <1>9. Settle(m) = [client |-> cl, server |-> sv, offer |-> m.offer]
    BY <1>2, <1>7, <1>8, MachineSet
  <1>10. m = [client |-> m.client, server |-> m.server, offer |-> m.offer]
    <2>1. [client |-> m.client, server |-> m.server, offer |-> m.offer] \in Machines
      BY <1>1 DEF Machines
    <2> QED BY <2>1, SameMachine
  <1> QED BY <1>4, <1>5, <1>9, <1>10

\* What is in the machines of request h = k + 1, by how far it is.
LEMMA MachineIs ==
  ASSUME NEW k \in Nat, NEW up \in BOOLEAN
  PROVE  /\ Machine(up, k, k, k, k) = IdleMachine
         /\ Machine(up, k + 1, k, k, k) =
              [client |-> "SEND_BODY", server |-> "SEND_RESPONSE", offer |-> up]
         /\ Machine(up, k + 1, k + 1, k, k) =
              [client |-> IF up THEN "MIGHT_SWITCH" ELSE "DONE",
               server |-> "SEND_RESPONSE", offer |-> up]
         /\ Machine(up, k + 1, k + 1, k + 1, k) =
              [client |-> "DONE", server |-> "SEND_BODY", offer |-> FALSE]
         /\ Machine(up, k + 1, k + 1, k + 1, k + 1) = IdleMachine
  BY DEF Machine

\* A request of one machine is taken by either, and leaves both the same.
LEMMA HeadTaken ==
  ASSUME NEW k \in Nat, NEW up \in BOOLEAN, NEW v \in BOOLEAN, NEW t,
         t.kind = "head", (t.opt = "upgrade") = up
  PROVE  LET m == Machine(v, k, k, k, k) IN
           /\ Verdict(m, t) = "ok" /\ Take(m, t) = Machine(up, k + 1, k, k, k)
           /\ m.client = "IDLE"
  <1>1. Machine(v, k, k, k, k) = IdleMachine BY MachineIs
  <1>2. Verdict(IdleMachine, t) = "ok" /\ IdleMachine.client = "IDLE"
    BY DEF Verdict, IdleMachine
  <1>3. PICK n : n = [client |-> "SEND_BODY", server |-> "SEND_RESPONSE", offer |-> up] OBVIOUS
  <1>4. Take(IdleMachine, t) = Settle(n) BY <1>3 DEF Take
  <1>5. Settle(n) = n BY <1>3 DEF Settle
  <1>6. Machine(up, k + 1, k, k, k) = n BY <1>3, MachineIs
  <1> QED BY <1>1, <1>2, <1>4, <1>5, <1>6

LEMMA EndTaken ==
  ASSUME NEW k \in Nat, NEW up \in BOOLEAN, NEW t, t.kind = "end"
  PROVE  LET m == Machine(up, k + 1, k, k, k)
             n == Machine(up, k + 1, k + 1, k, k) IN
           /\ Verdict(m, t) = "ok" /\ Take(m, t) = n /\ Cycle(n) = n
           /\ m.client = "SEND_BODY"
  <1>1. PICK m : m = [client |-> "SEND_BODY", server |-> "SEND_RESPONSE", offer |-> up] OBVIOUS
  <1>2. PICK n : n = [client |-> IF up THEN "MIGHT_SWITCH" ELSE "DONE",
                      server |-> "SEND_RESPONSE", offer |-> up] OBVIOUS
  <1>3. PICK x : x = [client |-> "DONE", server |-> "SEND_RESPONSE", offer |-> up] OBVIOUS
  <1>4. /\ m \in Machines /\ x \in Machines /\ x.client = "DONE" /\ x.offer = up
        /\ x.server = "SEND_RESPONSE"
    BY <1>1, <1>3 DEF Machines, Roles
  <1>5. Verdict(m, t) = "ok" /\ m.client = "SEND_BODY" BY <1>1 DEF Verdict
  <1>6. Take(m, t) = Settle([m EXCEPT !.client = "DONE"]) BY DEF Take
  <1>7. [m EXCEPT !.client = "DONE"] = x
    <2>1. "DONE" \in Roles BY DEF Roles
    <2> QED BY <1>1, <1>3, <1>4, <2>1, MachineSet
  <1>8. Settle(x) = n BY <1>2, <1>4, SettleIs
  <1>9. Cycle(n) = n BY <1>2 DEF Cycle
  <1> QED BY <1>1, <1>2, <1>5, <1>6, <1>7, <1>8, <1>9, MachineIs

LEMMA InfoTaken ==
  ASSUME NEW k \in Nat, NEW up \in BOOLEAN, NEW e \in {k, k + 1}, NEW t, t.kind = "info"
  PROVE  LET m == Machine(up, k + 1, e, k, k) IN
           Verdict(m, t) = "ok" /\ Take(m, t) = m /\ m.server = "SEND_RESPONSE"
  <1>1. PICK m : m = Machine(up, k + 1, e, k, k) OBVIOUS
  <1>2. \/ m = [client |-> "SEND_BODY", server |-> "SEND_RESPONSE", offer |-> up]
        \/ m = [client |-> IF up THEN "MIGHT_SWITCH" ELSE "DONE",
                server |-> "SEND_RESPONSE", offer |-> up]
    BY <1>1, MachineIs
  <1>3. Verdict(m, t) = "ok" /\ m.server = "SEND_RESPONSE" BY <1>2 DEF Verdict
  <1>4. Take(m, t) = Settle(m) BY DEF Take
  <1>5. m \in Machines /\ m.offer = up BY <1>2 DEF Machines, Roles
  <1>6. Settle(m) = m
    <2>1. m.client = "SEND_BODY" \/ m.client = IF up THEN "MIGHT_SWITCH" ELSE "DONE" BY <1>2
    <2>2. CASE m.client = "SEND_BODY" BY <1>5, <2>2, SettleIs
    <2>3. CASE m.client = IF up THEN "MIGHT_SWITCH" ELSE "DONE"
      <3>1. Settle(m) = [client |-> IF up THEN "MIGHT_SWITCH" ELSE "DONE",
                         server |-> m.server, offer |-> up]
        BY <1>3, <1>5, <2>3, SettleIs
      <3>2. Settle(m) \in Machines BY <1>5, SettleTyped
      <3> QED BY <1>3, <1>5, <2>3, <3>1, <3>2, SameMachine
    <2> QED BY <2>1, <2>2, <2>3
  <1> QED BY <1>1, <1>3, <1>4, <1>6

LEMMA SwitchTaken ==
  ASSUME NEW k \in Nat, NEW t, t.kind = "switch"
  PROVE  LET m == Machine(TRUE, k + 1, k + 1, k, k) IN
           /\ Verdict(m, t) = "ok" /\ m.server = "SEND_RESPONSE"
           /\ Take(m, t) = [client |-> "SWITCHED", server |-> "SWITCHED", offer |-> TRUE]
           /\ m = [client |-> "MIGHT_SWITCH", server |-> "SEND_RESPONSE", offer |-> TRUE]
  <1>1. PICK m : m = [client |-> "MIGHT_SWITCH", server |-> "SEND_RESPONSE", offer |-> TRUE]
    OBVIOUS
  <1>2. PICK x : x = [client |-> "MIGHT_SWITCH", server |-> "SWITCHED", offer |-> TRUE] OBVIOUS
  <1>3. Machine(TRUE, k + 1, k + 1, k, k) = m BY <1>1, MachineIs
  <1>4. Verdict(m, t) = "ok" /\ m.server = "SEND_RESPONSE" BY <1>1 DEF Verdict
  <1>5. Take(m, t) = Settle([m EXCEPT !.server = "SWITCHED"]) BY DEF Take
  <1>6. m \in Machines /\ x \in Machines /\ "SWITCHED" \in Roles
    BY <1>1, <1>2 DEF Machines, Roles
  <1>7. [m EXCEPT !.server = "SWITCHED"] = x BY <1>1, <1>2, <1>6, MachineSet
  <1>8. Settle(x) = [client |-> "SWITCHED", server |-> "SWITCHED", offer |-> TRUE]
    <2>1. x.client = "MIGHT_SWITCH" /\ x.server = "SWITCHED" /\ x.offer = TRUE BY <1>2
    <2> QED BY <1>6, <2>1, SettleIs
  <1> QED BY <1>1, <1>3, <1>4, <1>5, <1>7, <1>8

LEMMA AnswerTaken ==
  ASSUME NEW k \in Nat, NEW up \in BOOLEAN, NEW t, t.kind = "answer"
  PROVE  LET m == Machine(up, k + 1, k + 1, k, k) IN
           /\ Verdict(m, t) = "ok" /\ m.server = "SEND_RESPONSE"
           /\ Take(m, t) = Machine(up, k + 1, k + 1, k + 1, k)
  <1>1. PICK r \in {"MIGHT_SWITCH", "DONE"} : r = IF up THEN "MIGHT_SWITCH" ELSE "DONE" OBVIOUS
  <1>2. PICK m : m = [client |-> r, server |-> "SEND_RESPONSE", offer |-> up] OBVIOUS
  <1>3. PICK n : n = [client |-> "DONE", server |-> "SEND_BODY", offer |-> FALSE] OBVIOUS
  <1>4. Verdict(m, t) = "ok" /\ m.server = "SEND_RESPONSE" BY <1>2 DEF Verdict
  <1>5. Take(m, t) = Settle([m EXCEPT !.server = "SEND_BODY", !.offer = FALSE]) BY DEF Take
  <1>6. m \in Machines /\ m.client = r /\ "SEND_BODY" \in Roles
    BY <1>2 DEF Machines, Roles
  <1>7. PICK x : x = [m EXCEPT !.server = "SEND_BODY"] OBVIOUS
  <1>8. x = [client |-> r, server |-> "SEND_BODY", offer |-> m.offer] /\ m.offer = up
    BY <1>2, <1>6, <1>7, MachineSet
  <1>9. x \in Machines /\ x.client = r /\ x.server = "SEND_BODY"
    BY <1>8 DEF Machines, Roles
  <1>10. PICK y : y = [x EXCEPT !.offer = FALSE] OBVIOUS
  <1>11. y = [client |-> r, server |-> "SEND_BODY", offer |-> FALSE]
    <2>1. r \in Roles BY DEF Roles
    <2> QED BY <1>9, <1>10, <2>1, MachineSet
  <1>12. /\ y \in Machines /\ y.client = r /\ y.server = "SEND_BODY" /\ y.offer = FALSE
    BY <1>11 DEF Machines, Roles
  <1>13. Settle(y) = n
    <2>1. CASE r = "DONE" BY <1>3, <1>12, <2>1, SettleIs
    <2>2. CASE r = "MIGHT_SWITCH" BY <1>3, <1>12, <2>2, SettleIs
    <2> QED BY <2>1, <2>2
  <1>14. [m EXCEPT !.server = "SEND_BODY", !.offer = FALSE] = y BY <1>7, <1>10
  <1>15. Machine(up, k + 1, k + 1, k, k) = m BY <1>1, <1>2, MachineIs
  <1>16. Machine(up, k + 1, k + 1, k + 1, k) = n BY <1>3, MachineIs
  <1> QED BY <1>4, <1>5, <1>13, <1>14, <1>15, <1>16

LEMMA DoneTaken ==
  ASSUME NEW k \in Nat, NEW up \in BOOLEAN, NEW t, t.kind = "done"
  PROVE  LET m == Machine(up, k + 1, k + 1, k + 1, k) IN
           /\ Verdict(m, t) = "ok" /\ m.server = "SEND_BODY"
           /\ Cycle(Take(m, t)) = Machine(up, k + 1, k + 1, k + 1, k + 1)
  <1>1. PICK m : m = [client |-> "DONE", server |-> "SEND_BODY", offer |-> FALSE] OBVIOUS
  <1>2. PICK n : n = [client |-> "DONE", server |-> "DONE", offer |-> FALSE] OBVIOUS
  <1>3. Verdict(m, t) = "ok" /\ m.server = "SEND_BODY" BY <1>1 DEF Verdict
  <1>4. Take(m, t) = Settle([m EXCEPT !.server = "DONE"]) BY DEF Take
  <1>5. m \in Machines /\ n \in Machines /\ "DONE" \in Roles
    BY <1>1, <1>2 DEF Machines, Roles
  <1>6. [m EXCEPT !.server = "DONE"] = n BY <1>1, <1>2, <1>5, MachineSet
  <1>7. Settle(n) = n
    <2>1. n.client = "DONE" /\ n.server = "DONE" /\ n.offer = FALSE BY <1>2
    <2> QED BY <1>2, <1>5, <2>1, SettleIs
  <1>8. Cycle(n) = IdleMachine BY <1>2 DEF Cycle
  <1> QED BY <1>1, <1>3, <1>4, <1>6, <1>7, <1>8, MachineIs

----------------------------------------------------------------------------
(* HTTP without overlap: what the log gets.                                 *)

LEMMA RecordsNothing ==
  Records(<< >>, << >>, 0, 0, 0, 0, 0, 0)
  <1>1. Len(<< >>) = 0 /\ (\A i : i \notin 1..0) /\ ~(0 < 0) OBVIOUS
  <1> QED BY <1>1 DEF Records

LEMMA RecordsHead ==
  ASSUME NEW k \in Nat, NEW l, NEW q, NEW b, NEW r, Records(l, q, b, r, k, k, k, k)
  PROVE  Records(l, q, k + 1, r, k + 1, k, k, k)
  BY DEF Records

LEMMA RecordsEnd ==
  ASSUME NEW k \in Nat, NEW l \in Seq(Entries), NEW q, NEW r, NEW e \in Entries,
         e.of = k + 1, e.ans = 0, Records(l, q, k + 1, r, k + 1, k, k, k)
  PROVE  Records(Append(l, e), Append(q, e.id), 0, r, k + 1, k + 1, k, k)
  <1> DEFINE n == Len(l)
             m == Append(l, e)
  <1>1. /\ n \in Nat /\ Len(m) = n + 1 /\ m[n + 1] = e /\ \A i \in 1..n : m[i] = l[i]
    BY Appended
  <1>2. /\ n = k /\ q = << >> /\ r = 0
        /\ \A i \in 1..k : l[i].of = i /\ l[i].ans = i /\ l[i].body
    BY DEF Records
  <1> HIDE DEF n, m
  <1>3. \A i \in 1..(k + 1) : i \in 1..k \/ i = k + 1 OBVIOUS
  <1>4. /\ Len(m) = k + 1 /\ m[k + 1] = e
        /\ \A i \in 1..k : m[i].of = i /\ m[i].ans = i /\ m[i].body
    BY <1>1, <1>2
  <1>5. \A i \in 1..(k + 1) : m[i].of = i BY <1>3, <1>4
  <1>6. \A i \in 1..(k + 1) : m[i].ans = IF i <= k THEN i ELSE 0
    <2> TAKE i \in 1..(k + 1)
    <2>1. CASE i \in 1..k BY <1>4, <2>1
    <2>2. CASE i = k + 1 BY <1>4, <2>2
    <2> QED BY <1>3, <2>1, <2>2
  <1>7. Append(q, e.id) = <<m[k + 1].id>> BY <1>2, <1>4
  <1>8. Records(m, Append(q, e.id), 0, r, k + 1, k + 1, k, k)
    <2>1. k < k + 1 /\ ~(k < k) /\ ~(k + 1 < k + 1) OBVIOUS
    <2> QED BY <1>2, <1>4, <1>5, <1>6, <1>7, <2>1 DEF Records
  <1> QED BY <1>8 DEF m

LEMMA RecordsAnswer ==
  ASSUME NEW k \in Nat, k + 1 \in 0..MaxReq, NEW l \in Seq(Entries), NEW q, NEW b, NEW r,
         NEW id, Unique(l, id), Records(l, q, b, r, k + 1, k + 1, k, k),
         NEW m, m = Answering(l, Head(q), k + 1)
  PROVE  /\ q # << >> /\ Len(m) = k + 1 /\ m \in Seq(Entries)
         /\ Records(m, PopOldest(q), b, Head(q), k + 1, k + 1, k + 1, k)
  <1> DEFINE n == Len(l)
  <1>1. /\ n = k + 1 /\ q = <<l[k + 1].id>> /\ b = 0
        /\ \A i \in 1..(k + 1) : l[i].of = i /\ (i <= k => l[i].ans = i)
        /\ \A i \in 1..k : l[i].body
    BY DEF Records
  <1>2. q # << >> /\ Head(q) = l[k + 1].id /\ PopOldest(q) = << >>
    BY <1>1 DEF PopOldest
  <1>3. /\ m \in Seq(Entries) /\ Len(m) = n
        /\ \A i \in 1..n : /\ m[i].id = l[i].id /\ m[i].of = l[i].of /\ m[i].body = l[i].body
                           /\ l[i].id = Head(q) => m[i].ans = k + 1
                           /\ l[i].id # Head(q) => m[i].ans = l[i].ans
    BY AnswerWritten
  <1>4. \A i, j \in 1..n : l[i].id = l[j].id => i = j BY DEF Unique
  <1> HIDE DEF n
  <1>5. \A i \in 1..(k + 1) : i \in 1..k \/ i = k + 1 OBVIOUS
  <1>6. k + 1 \in 1..n /\ \A i \in 1..k : i \in 1..n /\ i # k + 1 /\ i <= k BY <1>1
  <1>7. m[k + 1].ans = k + 1 /\ m[k + 1].id = Head(q) BY <1>2, <1>3, <1>6
  <1>8. \A i \in 1..k : m[i].ans = i /\ m[i].body BY <1>1, <1>2, <1>3, <1>4, <1>6
  <1>9. \A i \in 1..(k + 1) : m[i].of = i BY <1>1, <1>3
  <1>10. \A i \in 1..(k + 1) : m[i].ans = IF i <= k + 1 THEN i ELSE 0
    <2> TAKE i \in 1..(k + 1)
    <2>1. m[i].ans = i BY <1>5, <1>7, <1>8
    <2> QED BY <2>1
  <1>11. ~(k + 1 < k + 1) /\ k < k + 1 OBVIOUS
  <1> QED BY <1>1, <1>2, <1>3, <1>7, <1>8, <1>9, <1>10, <1>11 DEF Records

LEMMA RecordsDone ==
  ASSUME NEW k \in Nat, NEW l \in Seq(Entries), NEW q, NEW b, NEW r,
         Records(l, q, b, r, k + 1, k + 1, k + 1, k), NEW m, m = WithBody(l, r)
  PROVE  Records(m, q, b, 0, k + 1, k + 1, k + 1, k + 1)
  <1> DEFINE n == Len(l)
  <1>1. /\ n = k + 1 /\ q = << >> /\ b = 0 /\ r = l[k + 1].id
        /\ \A i \in 1..(k + 1) : l[i].of = i /\ l[i].ans = i
        /\ \A i \in 1..k : l[i].body
    BY DEF Records
  <1>2. /\ Len(m) = n
        /\ \A i \in 1..n : /\ m[i].id = l[i].id /\ m[i].of = l[i].of /\ m[i].ans = l[i].ans
                           /\ l[i].id = r \/ l[i].body => m[i].body
    BY BodyWritten
  <1> HIDE DEF n
  <1>3. \A i \in 1..(k + 1) : i \in 1..n /\ (i \in 1..k \/ i = k + 1) BY <1>1
  <1>4. \A i \in 1..(k + 1) : m[i].of = i /\ m[i].ans = i /\ m[i].body
    BY <1>1, <1>2, <1>3
  <1>5. ~(k + 1 < k + 1) /\ \A i \in 1..(k + 1) : i <= k + 1 OBVIOUS
  <1> QED BY <1>1, <1>2, <1>4, <1>5 DEF Records

----------------------------------------------------------------------------
(* HTTP without overlap: the peers.                                         *)

\* How far they can be apart.
LEMMA LockNumbers ==
  ASSUME Sound, overlap = {}
  PROVE  /\ heads \in Nat /\ ends \in Nat /\ answered \in Nat /\ finished \in Nat
         /\ ends <= heads /\ heads <= ends + 1 /\ heads <= finished + 1 /\ heads <= MaxReq
         /\ finished <= answered /\ answered <= finished + 1 /\ answered <= ends
         /\ asked \in Nat /\ asked <= heads
         /\ switched => asked = heads /\ ends = heads /\ finished = heads /\ answered = heads
  <1>1. /\ answered <= ends /\ heads <= finished + 1
        /\ switched => asked = heads /\ ends = heads /\ finished = heads
    BY DEF Sound, Wire
  <1>2. /\ heads \in Nat /\ ends \in Nat /\ answered \in Nat /\ finished \in Nat
        /\ ends <= heads /\ heads <= ends + 1 /\ heads <= MaxReq
        /\ finished <= answered /\ answered <= finished + 1 /\ answered <= heads
        /\ asked \in Nat /\ asked <= heads
    BY NetNumbers DEF Sound
  <1> QED BY <1>1, <1>2

\* Between two calls the decoder has taken all that was fed.
LEMMA Rested ==
  ASSUME Sound, Lockstep, Quiet, overlap = {}, kind \in {"none", "http"}, ~switched
  PROVE  AtRest
  <1>1. CASE kind = "http"
    <2>1. feeding = "none" BY DEF Quiet
    <2> QED BY <1>1, <2>1 DEF Lockstep, HeadTold, EndTold, InfoTold, SwitchTold, AnswerTold,
                              DoneTold, ClientTold, CameraTold, Switched
  <1>2. CASE kind = "none"
    <2>1. heads = 0 /\ Initial /\ log = << >> BY <1>2 DEF Sound, Decided
    <2>2. ends = 0 /\ answered = 0 /\ finished = 0 BY <2>1, LockNumbers
    <2>3. /\ cbuf = << >> /\ sbuf = << >> /\ c = IdleMachine /\ s = IdleMachine
          /\ building.of = 0 /\ awaiting = << >> /\ responding = 0
      BY <2>1 DEF Initial, NoRequest
    <2>4. PICK up \in BOOLEAN : up = (asked = heads) OBVIOUS
    <2>5. Machine(up, 0, 0, 0, 0) = IdleMachine BY MachineIs
    <2>6. Fed(0, 0, 0, 0) <=> c = Machine(asked = 0, 0, 0, 0, 0) /\ s = c
                              /\ Records(log, awaiting, building.of, responding, 0, 0, 0, 0)
      BY DEF Fed
    <2>7. Fed(0, 0, 0, 0) BY <2>1, <2>3, <2>4, <2>5, <2>6, RecordsNothing
    <2> QED BY <2>1, <2>2, <2>3, <2>7 DEF AtRest
  <1> QED BY <1>1, <1>2

\* What a piece that both feed calls pass on to h11 leaves.
LEMMA Passed ==
  ASSUME Sound, kind' = "http", NEW t, t.n \in 0..MaxReq
  PROVE  /\ FeedC2S(t) => /\ kind \in {"none", "http"} /\ feeding' = "c2s"
                          /\ cbuf' = Append(cbuf, t)
                          /\ UNCHANGED <<sbuf, c, s, log, awaiting, building, responding>>
         /\ FeedS2C(t) => /\ kind = "http" /\ feeding' = "s2c"
                          /\ sbuf' = Append(sbuf, t)
                          /\ UNCHANGED <<cbuf, c, s, log, awaiting, building, responding>>
  <1>1. kind \in {"none", "http", "rtsp", "tls", "raw"} BY DEF Sound, DecoderTyped
  <1>2. ASSUME FeedC2S(t)
        PROVE  /\ kind \in {"none", "http"} /\ feeding' = "c2s"
               /\ cbuf' = Append(cbuf, t)
               /\ UNCHANGED <<sbuf, c, s, log, awaiting, building, responding>>
    BY <1>1, <1>2, ClientCases DEF Sound, Unheard
  <1>3. ASSUME FeedS2C(t)
        PROVE  /\ kind = "http" /\ feeding' = "s2c"
               /\ sbuf' = Append(sbuf, t)
               /\ UNCHANGED <<cbuf, c, s, log, awaiting, building, responding>>
    BY <1>1, <1>3, CameraCases DEF Sound, Unheard
  <1> QED BY <1>2, <1>3

LEMMA HeadLocked ==
  ASSUME Sound, Lockstep, NEW o \in {"plain", "upgrade"}, ClientHead(o), kind' = "http",
         overlap' = {}
  PROVE  HeadTold'
  <1>1. PICK t : t = Token("head", heads + 1, o) OBVIOUS
  <1>2. /\ FeedC2S(t) /\ Quiet /\ heads < MaxReq /\ heads = ends /\ ~switched
        /\ heads' = heads + 1 /\ asked' = IF o = "upgrade" THEN heads + 1 ELSE asked
        /\ overlap' = IF finished < heads THEN overlap \cup {"pipelined"} ELSE overlap
        /\ UNCHANGED <<ends, answered, finished, switched>>
    BY <1>1 DEF ClientHead, BeginRequest, cameraVars
  <1>3. overlap = {} /\ ~(finished < heads)
    <2>1. CASE finished < heads BY <1>2, <2>1
    <2>2. CASE ~(finished < heads) BY <1>2, <2>2
    <2> QED BY <2>1, <2>2
  <1>4. PICK h \in Nat : h = heads BY <1>3, LockNumbers
  <1>5. /\ heads = h /\ ends = h /\ answered = h /\ finished = h /\ h + 1 \in 0..MaxReq
        /\ asked \in Nat /\ asked <= h
    BY <1>2, <1>3, <1>4, LockNumbers, HttpAssumption
  <1>6. t.n \in 0..MaxReq BY <1>1, <1>4, <1>5, TokenIs
  <1>7. /\ kind \in {"none", "http"} /\ feeding' = "c2s" /\ cbuf' = Append(cbuf, t)
        /\ UNCHANGED <<sbuf, c, s, log, awaiting, building, responding>>
    BY <1>2, <1>6, Passed
  <1>8. AtRest BY <1>2, <1>3, <1>7, Rested
  <1>9. cbuf' = <<t>> /\ sbuf' = << >>
    <2>1. cbuf = << >> /\ sbuf = << >> BY <1>8 DEF AtRest
    <2> QED BY <1>7, <2>1
  <1>10. /\ c = Machine(asked = h, h, h, h, h) /\ s = c
         /\ Records(log, awaiting, building.of, responding, h, h, h, h)
    BY <1>5, <1>8 DEF AtRest, Fed
  <1>11. c' = Machine(asked' = h, h, h, h, h) /\ s' = c'
    <2>1. Machine(asked = h, h, h, h, h) = IdleMachine /\ Machine(asked' = h, h, h, h, h) = IdleMachine
      BY <1>4, MachineIs
    <2> QED BY <1>7, <1>10, <2>1
  <1>12. Records(log', awaiting', building'.of, responding', h, h, h, h) BY <1>7, <1>10
  <1>13. (asked' = heads') = (o = "upgrade") BY <1>2, <1>5
  <1>14. t = Token("head", heads', IF asked' = heads' THEN "upgrade" ELSE "plain")
    BY <1>1, <1>2, <1>13
  <1>15. heads' - 1 = h /\ ends' = h /\ answered' = h /\ finished' = h /\ ends' < heads' /\ ~switched'
    BY <1>2, <1>5
  <1>16. Fed(heads - 1, ends, answered, finished)'
    BY <1>11, <1>12, <1>15 DEF Fed
  <1> QED BY <1>7, <1>9, <1>14, <1>15, <1>16 DEF HeadTold, ClientTold

LEMMA EndLocked ==
  ASSUME Sound, Lockstep, ClientEnd, kind' = "http", overlap' = {}
  PROVE  EndTold'
  <1>1. PICK o \in {"plain", "unreadable"} :
           /\ FeedC2S(Token("end", heads, o))
           /\ dialect = "http" => o = "plain"
    BY DEF ClientEnd
  <1>2. PICK t : t = Token("end", heads, o) OBVIOUS
  <1>3. /\ FeedC2S(t) /\ Quiet /\ ends < heads /\ ends' = heads /\ overlap = {}
        /\ UNCHANGED <<heads, asked, answered, finished, switched>>
    BY <1>1, <1>2 DEF ClientEnd, CompleteRequest, cameraVars
  <1>4. PICK k \in Nat : k + 1 = heads
    <2>1. ends \in Nat /\ heads = ends + 1 BY <1>3, LockNumbers
    <2> QED BY <2>1
  <1>5. /\ heads = k + 1 /\ ends = k /\ answered = k /\ finished = k /\ k + 1 \in 0..MaxReq
        /\ ~switched
    BY <1>3, <1>4, LockNumbers, HttpAssumption
  <1>6. t.n \in 0..MaxReq BY <1>2, <1>5, TokenIs
  <1>7. /\ kind \in {"none", "http"} /\ feeding' = "c2s" /\ cbuf' = Append(cbuf, t)
        /\ UNCHANGED <<sbuf, c, s, log, awaiting, building, responding>>
    BY <1>3, <1>6, Passed
  <1>8. AtRest BY <1>3, <1>5, <1>7, Rested
  <1>9. cbuf' = <<t>> /\ sbuf' = << >>
    <2>1. cbuf = << >> /\ sbuf = << >> BY <1>8 DEF AtRest
    <2> QED BY <1>7, <2>1
  <1>10. o = "plain"
    <2>1. kind # "none" BY <1>4, <1>5 DEF Sound, Decided
    <2>2. dialect = "http" BY <1>7, <2>1 DEF Sound, Decided
    <2> QED BY <1>1, <2>2
  <1>11. Fed(k + 1, k, k, k)' 
    BY <1>3, <1>5, <1>7, <1>8 DEF AtRest, Fed
  <1>12. /\ heads' = k + 1 /\ ends' = heads' /\ ends' - 1 = k /\ answered' = k /\ finished' = k
         /\ answered' = finished' /\ answered' < heads'
    BY <1>3, <1>5
  <1>13. Fed(heads, ends - 1, answered, finished)'
    BY <1>11, <1>12 DEF Fed
  <1> QED BY <1>2, <1>3, <1>5, <1>7, <1>9, <1>10, <1>12, <1>13 DEF EndTold, ClientTold

LEMMA InfoLocked ==
  ASSUME Sound, Lockstep, CameraInfo, kind' = "http", overlap' = {}
  PROVE  InfoTold'
  <1>1. PICK t : t = Token("info", answered + 1, "plain") OBVIOUS
  <1>2. /\ FeedS2C(t) /\ Quiet /\ answered = finished /\ answered < heads /\ overlap = {}
        /\ UNCHANGED <<heads, ends, asked, answered, finished, switched>>
    BY <1>1 DEF CameraInfo, Inform, MayAnswer, clientVars
  <1>3. t.n \in 0..MaxReq /\ ~switched
    <2>1. answered + 1 \in 0..MaxReq BY <1>2, LockNumbers, HttpAssumption
    <2>2. ~switched BY <1>2, LockNumbers
    <2> QED BY <1>1, <2>1, <2>2, TokenIs
  <1>4. /\ kind = "http" /\ feeding' = "s2c" /\ sbuf' = Append(sbuf, t)
        /\ UNCHANGED <<cbuf, c, s, log, awaiting, building, responding>>
    BY <1>2, <1>3, Passed
  <1>5. AtRest BY <1>2, <1>3, <1>4, Rested
  <1>6. cbuf' = << >> /\ sbuf' = <<t>>
    <2>1. cbuf = << >> /\ sbuf = << >> BY <1>5 DEF AtRest
    <2> QED BY <1>4, <2>1
  <1>7. Fed(heads, ends, answered, finished)' BY <1>2, <1>4, <1>5 DEF AtRest, Fed
  <1> QED BY <1>1, <1>2, <1>3, <1>4, <1>6, <1>7 DEF InfoTold, CameraTold

LEMMA SwitchLocked ==
  ASSUME Sound, Lockstep, CameraSwitch, kind' = "http", overlap' = {}
  PROVE  SwitchTold'
  <1>1. PICK t : t = Token("switch", answered + 1, "plain") OBVIOUS
  <1>2. /\ FeedS2C(t) /\ Quiet /\ answered = finished /\ answered < heads /\ overlap = {}
        /\ switched' = TRUE /\ answered' = answered + 1 /\ finished' = finished + 1
        /\ UNCHANGED <<heads, ends, asked>>
    BY <1>1 DEF CameraSwitch, SwitchProtocols, MayAnswer, clientVars
  <1>3. t.n \in 0..MaxReq /\ ~switched /\ answered + 1 = heads
    <2>1. answered + 1 \in 0..MaxReq /\ answered + 1 = heads BY <1>2, LockNumbers, HttpAssumption
    <2>2. ~switched BY <1>2, LockNumbers
    <2> QED BY <1>1, <2>1, <2>2, TokenIs
  <1>4. /\ kind = "http" /\ feeding' = "s2c" /\ sbuf' = Append(sbuf, t)
        /\ UNCHANGED <<cbuf, c, s, log, awaiting, building, responding>>
    BY <1>2, <1>3, Passed
  <1>5. AtRest BY <1>2, <1>3, <1>4, Rested
  <1>6. cbuf' = << >> /\ sbuf' = <<t>>
    <2>1. cbuf = << >> /\ sbuf = << >> BY <1>5 DEF AtRest
    <2> QED BY <1>4, <2>1
  <1>7. answered' - 1 = answered /\ finished' - 1 = finished BY <1>2, LockNumbers
  <1>8. Fed(heads, ends, answered - 1, finished - 1)'
    BY <1>2, <1>4, <1>5, <1>7 DEF AtRest, Fed
  <1> QED BY <1>1, <1>2, <1>3, <1>4, <1>6, <1>8 DEF SwitchTold, CameraTold

LEMMA AnswerLocked ==
  ASSUME Sound, Lockstep, NEW f \in Framings, CameraAnswer(f), kind' = "http", overlap' = {}
  PROVE  AnswerTold'
  <1>1. PICK t : t = Token("answer", answered + 1, f) OBVIOUS
  <1>2. /\ FeedS2C(t) /\ Quiet /\ answered = finished /\ answered < heads /\ overlap \subseteq overlap'
        /\ answered' = answered + 1 /\ framing' = f
        /\ UNCHANGED <<heads, ends, asked, finished, switched>>
    BY <1>1 DEF CameraAnswer, BeginAnswer, MayAnswer, clientVars
  <1>3. t.n \in 0..MaxReq /\ ~switched
    <2>1. answered + 1 \in 0..MaxReq BY <1>2, LockNumbers, HttpAssumption
    <2>2. ~switched BY <1>2, LockNumbers
    <2> QED BY <1>1, <2>1, <2>2, TokenIs
  <1>4. /\ kind = "http" /\ feeding' = "s2c" /\ sbuf' = Append(sbuf, t)
        /\ UNCHANGED <<cbuf, c, s, log, awaiting, building, responding>>
    BY <1>2, <1>3, Passed
  <1>5. AtRest BY <1>2, <1>3, <1>4, Rested
  <1>6. cbuf' = << >> /\ sbuf' = <<t>>
    <2>1. cbuf = << >> /\ sbuf = << >> BY <1>5 DEF AtRest
    <2> QED BY <1>4, <2>1
  <1>7. answered' - 1 = answered /\ finished' < answered' BY <1>2, LockNumbers
  <1>8. Fed(heads, ends, answered - 1, finished)'
    BY <1>2, <1>4, <1>5, <1>7 DEF AtRest, Fed
  <1>9. t = Token("answer", answered', framing') BY <1>1, <1>2
  <1> QED BY <1>2, <1>3, <1>4, <1>6, <1>7, <1>8, <1>9 DEF AnswerTold, CameraTold

LEMMA DoneLocked ==
  ASSUME Sound, Lockstep, CameraDone, kind' = "http", overlap' = {}
  PROVE  DoneTold'
  <1>1. PICK o \in {"plain", "unreadable"} :
           /\ FeedS2C(Token("done", answered, o))
           /\ dialect = "http" => o = "plain"
    BY DEF CameraDone
  <1>2. PICK t : t = Token("done", answered, o) OBVIOUS
  <1>3. /\ FeedS2C(t) /\ Quiet /\ finished < answered /\ overlap = {} /\ finished' = answered
        /\ UNCHANGED <<heads, ends, asked, answered, switched>>
    BY <1>1, <1>2 DEF CameraDone, CompleteAnswer, clientVars
  <1>4. t.n \in 0..MaxReq /\ ~switched
    <2>1. answered \in 0..MaxReq BY <1>3, LockNumbers, HttpAssumption
    <2>2. ~switched BY <1>3, LockNumbers
    <2> QED BY <1>2, <2>1, <2>2, TokenIs
  <1>5. /\ kind = "http" /\ feeding' = "s2c" /\ sbuf' = Append(sbuf, t)
        /\ UNCHANGED <<cbuf, c, s, log, awaiting, building, responding>>
    BY <1>3, <1>4, Passed
  <1>6. AtRest BY <1>3, <1>4, <1>5, Rested
  <1>7. cbuf' = << >> /\ sbuf' = <<t>>
    <2>1. cbuf = << >> /\ sbuf = << >> BY <1>6 DEF AtRest
    <2> QED BY <1>5, <2>1
  <1>8. finished' - 1 = finished /\ heads' = finished' BY <1>3, LockNumbers
  <1>9. Fed(heads, ends, answered, finished - 1)'
    BY <1>3, <1>5, <1>6, <1>8 DEF AtRest, Fed
  <1>10. o = "plain" BY <1>1, <1>5 DEF Sound, Decided
  <1>11. t = Token("done", finished', "plain") BY <1>2, <1>3, <1>10
  <1> QED BY <1>3, <1>4, <1>5, <1>7, <1>8, <1>9, <1>11 DEF DoneTold, CameraTold

\* No other step of the peers is one of HTTP.
LEMMA LockClient ==
  ASSUME Sound, Lockstep, Client
  PROVE  Lockstep'
  <1> SUFFICES ASSUME kind' = "http", overlap' = {} PROVE HeadTold' \/ EndTold'
    BY DEF Lockstep
  <1>1. CASE \E p \in {"few", "part"} : ClientPiece(p)
    <2>1. PICK p \in {"few", "part"} : ClientPiece(p) BY <1>1
    <2>2. PICK t : t = Token(p, 0, "plain") OBVIOUS
    <2>3. FeedC2S(t) /\ heads = 0 BY <2>1, <2>2 DEF ClientPiece
    <2>4. t.kind = p /\ t.n \in 0..MaxReq BY <2>2, TokenIs, HttpAssumption
    <2>5. kind # "http" BY <2>3, NetNumbers DEF Sound, Decided
    <2>6. kind' # "http" BY <2>1, <2>3, <2>4, <2>5, ClientCases DEF Sound, Decide
    <2> QED BY <2>6
  <1>2. CASE \E o \in {"plain", "upgrade"} : ClientHead(o) BY <1>2, HeadLocked
  <1>3. CASE ClientEnd BY <1>3, EndLocked
  <1>4. CASE ClientReply
    <2>1. PICK t : t = Token("reply", 0, "plain") OBVIOUS
    <2>2. FeedC2S(t) /\ "own" \in extra BY <1>4, <2>1 DEF ClientReply
    <2>3. t.kind = "reply" /\ t.n \in 0..MaxReq BY <2>1, TokenIs, HttpAssumption
    <2>4. dialect = "rtsp" BY <2>2 DEF Sound, Wire
    <2>5. kind # "http" BY <2>4 DEF Sound, Decided
    <2>6. kind' # "http" BY <2>2, <2>3, <2>5, ClientCases DEF Sound, Decide
    <2> QED BY <2>6
  <1> QED BY <1>1, <1>2, <1>3, <1>4 DEF Client

LEMMA LockCamera ==
  ASSUME Sound, Lockstep, Camera
  PROVE  Lockstep'
  <1> SUFFICES ASSUME kind' = "http", overlap' = {}
               PROVE  InfoTold' \/ SwitchTold' \/ AnswerTold' \/ DoneTold'
    BY DEF Lockstep
  <1>1. CASE CameraInfo BY <1>1, InfoLocked
  <1>2. CASE CameraSwitch BY <1>2, SwitchLocked
  <1>3. CASE \E f \in Framings : CameraAnswer(f) BY <1>3, AnswerLocked
  <1>4. CASE CameraDone BY <1>4, DoneLocked
  <1>5. CASE \E x \in Extras \ {"reply"} : CameraUnasked(x)
    <2>1. PICK x \in Extras \ {"reply"} : CameraUnasked(x) BY <1>5
    <2>2. PICK t : t = Token(x, 0, "plain") OBVIOUS
    <2>3. FeedS2C(t) /\ (x \in {"banner", "aside"} => heads = 0)
          /\ (x \notin {"banner", "aside"} => dialect = "rtsp")
      BY <2>1, <2>2 DEF CameraUnasked
    <2>4. t.n \in 0..MaxReq BY <2>2, TokenIs, HttpAssumption
    <2>5. kind = "http" BY <2>3, <2>4, Passed
    <2>6. heads > 0 /\ dialect = "http" BY <2>5 DEF Sound, Decided
    <2>7. heads # 0 BY <2>6, NetNumbers DEF Sound
    <2> QED BY <2>3, <2>6, <2>7
  <1> QED BY <1>1, <1>2, <1>3, <1>4, <1>5 DEF Camera

LEMMA LockClose ==
  ASSUME Sound, Lockstep, Close
  PROVE  Lockstep'
  <1>1. CASE sniff
    <2>1. kind' = Decide(Token("few", 0, "plain")) BY <1>1 DEF Close
    <2>2. kind' \in {"tls", "raw"} BY <2>1, TokenIs DEF Decide
    <2> QED BY <2>2 DEF Lockstep
  <1>2. CASE ~sniff
    <2> SUFFICES ASSUME kind' = "http", overlap' = {} PROVE Lockstep'
      BY DEF Lockstep
    <2>1. /\ UNCHANGED <<log, kind, feeding, building, awaiting, responding>>
          /\ UNCHANGED <<cbuf, sbuf, c, s, overlap, heads, ends, asked>>
          /\ UNCHANGED <<answered, finished, switched>> /\ Quiet
      BY <1>2 DEF Close, netVars, clientVars, cameraVars, h11Vars
    <2>2. CASE ~switched
      <3>1. AtRest BY <2>1, <2>2, Rested
      <3>2. Fed(heads, ends, answered, finished)' BY <2>1, <3>1 DEF AtRest, Fed
      <3>3. AtRest' BY <2>1, <2>2, <3>1, <3>2 DEF AtRest
      <3> QED BY <3>3 DEF Lockstep
    <2>3. CASE switched
      <3>1. Switched
        <4>1. feeding = "none" BY <2>1 DEF Quiet
        <4>2. kind = "http" /\ overlap = {} BY <2>1
        <4> QED BY <2>3, <4>1, <4>2 DEF Lockstep, AtRest, HeadTold, EndTold, InfoTold, SwitchTold,
                                       AnswerTold, DoneTold, ClientTold, CameraTold
      <3>2. Switched' BY <2>1, <3>1 DEF Switched
      <3> QED BY <3>2 DEF Lockstep
    <2> QED BY <2>2, <2>3
  <1> QED BY <1>1, <1>2

----------------------------------------------------------------------------
(* HTTP without overlap: the loop.                                          *)

\* With one event in a buffer that the machine takes, only its handler is next.
LEMMA OnlyClient ==
  ASSUME NEW t, feeding = "c2s", cbuf = <<t>>, c.client \in {"IDLE", "SEND_BODY"},
         Verdict(c, t) = "ok", Decode
  PROVE  (t.kind = "head" => OnRequest) /\ (t.kind = "end" => OnRequestEnd)
  <1>1. Head(cbuf) = t /\ cbuf # << >> OBVIOUS
  <1>2. ~Waits(c.client, cbuf) BY <1>1 DEF Waits
  <1>3. ~FeedEnds BY <1>2 DEF FeedEnds
  <1>4. ~ParseFails BY <1>1 DEF ParseFails
  <1>5. \A k : Parsed(k) => t.kind = k BY <1>1 DEF Parsed
  <1>6. OnRequest => t.kind = "head" BY <1>5 DEF OnRequest
  <1>7. OnRequestEnd => t.kind = "end" BY <1>5 DEF OnRequestEnd
  <1>8. OnInformational => t.kind \in {"info", "switch"} BY <1>5 DEF OnInformational
  <1>9. OnResponse => t.kind = "answer" BY <1>5 DEF OnResponse
  <1>10. OnResponseEnd => t.kind = "done" BY <1>5 DEF OnResponseEnd
  <1> QED BY <1>3, <1>4, <1>6, <1>7, <1>8, <1>9, <1>10 DEF Decode

LEMMA OnlyCamera ==
  ASSUME NEW t, feeding = "s2c", sbuf = <<t>>, s.server \in {"SEND_RESPONSE", "SEND_BODY"},
         Verdict(s, t) = "ok", Decode
  PROVE  /\ t.kind \in {"info", "switch"} => OnInformational
         /\ t.kind = "answer" => OnResponse
         /\ t.kind = "done" => OnResponseEnd
  <1>1. Head(sbuf) = t /\ sbuf # << >> OBVIOUS
  <1>2. ~Waits(s.server, sbuf) BY <1>1 DEF Waits
  <1>3. ~FeedEnds BY <1>2 DEF FeedEnds
  <1>4. ~ParseFails BY <1>1 DEF ParseFails
  <1>5. \A k : Parsed(k) => t.kind = k BY <1>1 DEF Parsed
  <1>6. OnRequest => t.kind = "head" BY <1>5 DEF OnRequest
  <1>7. OnRequestEnd => t.kind = "end" BY <1>5 DEF OnRequestEnd
  <1>8. OnInformational => t.kind \in {"info", "switch"} BY <1>5 DEF OnInformational
  <1>9. OnResponse => t.kind = "answer" BY <1>5 DEF OnResponse
  <1>10. OnResponseEnd => t.kind = "done" BY <1>5 DEF OnResponseEnd
  <1> QED BY <1>3, <1>4, <1>6, <1>7, <1>8, <1>9, <1>10 DEF Decode

\* With nothing left, only the end of the call is.
LEMMA OnlyEnds ==
  ASSUME feeding # "none" /\ cbuf = << >> /\ sbuf = << >>,
         c.client # "ERROR" /\ s.server # "ERROR", feeding \in {"none", "c2s", "s2c"}, Decode
  PROVE  UNCHANGED <<netVars, h11Vars, eventVars>>
  <1>1. Waits(c.client, cbuf) /\ Waits(s.server, sbuf) BY DEF Waits
  <1>2. ~ParseFails BY <1>1 DEF ParseFails
  <1>3. \A k : ~Parsed(k) BY <1>1 DEF Parsed
  <1>4. FeedEnds
    BY <1>2, <1>3 DEF Decode, OnRequest, OnRequestEnd, OnInformational, OnResponse, OnResponseEnd
  <1> QED BY <1>4 DEF FeedEnds

LEMMA HeadDecoded ==
  ASSUME Sound, kind = "http", overlap = {}, HeadTold, Decode
  PROVE  kind' = "http" /\ AtRest'
  <1>1. PICK t : t = Token("head", heads, IF asked = heads THEN "upgrade" ELSE "plain") OBVIOUS
  <1>2. /\ feeding = "c2s" /\ ~switched /\ cbuf = <<t>> /\ sbuf = << >> /\ ends < heads
        /\ answered = finished /\ Fed(heads - 1, ends, answered, finished)
    BY <1>1 DEF HeadTold, ClientTold
  <1>3. PICK k \in Nat : k + 1 = heads
    <2>1. ends \in Nat /\ heads = ends + 1 BY <1>2, LockNumbers
    <2> QED BY <2>1
  <1>4. heads = k + 1 /\ heads - 1 = k /\ ends = k /\ answered = k /\ finished = k
    BY <1>2, <1>3, LockNumbers
  <1>5. /\ c = Machine(asked = k, k, k, k, k) /\ s = c
        /\ Records(log, awaiting, building.of, responding, k, k, k, k)
    BY <1>2, <1>4 DEF Fed
  <1>6. PICK up \in BOOLEAN : up = (asked = heads) OBVIOUS
  <1>7. PICK v \in BOOLEAN : v = (asked = k) OBVIOUS
  <1>8. t.kind = "head" /\ t.n = k + 1 /\ (t.opt = "upgrade") = up
    BY <1>1, <1>4, <1>6, TokenIs
  <1>9. Verdict(c, t) = "ok" /\ Take(c, t) = Machine(up, k + 1, k, k, k) /\ c.client = "IDLE"
    <2>1. c = Machine(v, k, k, k, k) BY <1>5, <1>7
    <2>2. /\ Verdict(Machine(v, k, k, k, k), t) = "ok"
          /\ Take(Machine(v, k, k, k, k), t) = Machine(up, k + 1, k, k, k)
          /\ Machine(v, k, k, k, k).client = "IDLE"
      BY ONLY <1>8, k \in Nat, up \in BOOLEAN, v \in BOOLEAN, HeadTaken
    <2> QED BY <2>1, <2>2
  <1>10. OnRequest BY <1>2, <1>8, <1>9, OnlyClient
  <1>11. Head(cbuf) = t /\ Tail(cbuf) = << >> BY <1>2
  <1>12. /\ building' = [id |-> nextId, of |-> t.n] /\ c' = Take(c, t) /\ s' = SentToS(t)
         /\ Conclude(Verdict(s, t), log, AfterNewId(nextId)) /\ cbuf' = << >>
         /\ UNCHANGED <<netVars, sbuf, awaiting, responding>>
    BY <1>10, <1>11 DEF OnRequest
  <1>13. kind' = kind /\ log' = log BY <1>5, <1>9, <1>12 DEF Conclude
  <1>14. s' = c' /\ c' = Machine(up, k + 1, k, k, k) BY <1>5, <1>9, <1>12 DEF SentToS
  <1>15. building'.of = k + 1 BY <1>8, <1>12
  <1>16. Records(log', awaiting', building'.of, responding', k + 1, k, k, k)
    BY <1>5, <1>12, <1>13, <1>15, RecordsHead
  <1>17. UNCHANGED <<heads, ends, asked, answered, finished, switched>>
    BY <1>12 DEF netVars, clientVars, cameraVars
  <1>18. Fed(heads, ends, answered, finished)'
    BY <1>4, <1>6, <1>14, <1>16, <1>17 DEF Fed
  <1> QED BY <1>2, <1>12, <1>13, <1>17, <1>18 DEF AtRest

LEMMA EndDecoded ==
  ASSUME Sound, kind = "http", overlap = {}, EndTold, Decode
  PROVE  kind' = "http" /\ AtRest'
  <1>1. PICK t : t = Token("end", heads, "plain") OBVIOUS
  <1>2. /\ feeding = "c2s" /\ ~switched /\ cbuf = <<t>> /\ sbuf = << >> /\ ends = heads
        /\ answered = finished /\ answered < heads /\ Fed(heads, ends - 1, answered, finished)
    BY <1>1 DEF EndTold, ClientTold
  <1>3. PICK k \in Nat : k + 1 = heads
    <2>1. answered \in Nat /\ heads = answered + 1 BY <1>2, LockNumbers
    <2> QED BY <2>1
  <1>4. heads = k + 1 /\ ends = k + 1 /\ ends - 1 = k /\ answered = k /\ finished = k
    BY <1>2, <1>3, LockNumbers
  <1>5. PICK up \in BOOLEAN : up = (asked = heads) OBVIOUS
  <1>6. /\ c = Machine(up, k + 1, k, k, k) /\ s = c
        /\ Records(log, awaiting, building.of, responding, k + 1, k, k, k)
    BY <1>2, <1>4, <1>5 DEF Fed
  <1>7. t.kind = "end" BY <1>1, TokenIs
  <1>8. PICK n : n = Machine(up, k + 1, k + 1, k, k) OBVIOUS
  <1>9. Verdict(c, t) = "ok" /\ Take(c, t) = n /\ Cycle(n) = n /\ c.client = "SEND_BODY"
    BY <1>6, <1>7, <1>8, EndTaken
  <1>10. OnRequestEnd BY <1>2, <1>7, <1>9, OnlyClient
  <1>11. Head(cbuf) = t /\ Tail(cbuf) = << >> BY <1>2
  <1>12. building.of = k + 1 /\ building # NoRequest
    <2>1. building.of = k + 1
      <3>1. k < k + 1 OBVIOUS
      <3> QED BY <1>6, <3>1 DEF Records
    <2>2. NoRequest.of = 0 BY DEF NoRequest
    <2>3. k + 1 # 0 OBVIOUS
    <2> QED BY <2>1, <2>2, <2>3
  <1>13. PICK e : e = Entry(building.id, "http", building.of) OBVIOUS
  <1>14. /\ awaiting' = Append(awaiting, building.id)
         /\ c' = Cycle(Take(c, t)) /\ s' = Cycle(SentToS(t))
         /\ Conclude("ok", Append(log, e), nextId)
         /\ building' = NoRequest /\ cbuf' = << >> /\ UNCHANGED <<netVars, sbuf, responding>>
    BY <1>6, <1>9, <1>10, <1>11, <1>12, <1>13 DEF OnRequestEnd
  <1>15. e \in Entries /\ e.id = building.id /\ e.of = k + 1 /\ e.ans = 0
    <2>1. building.id \in Nat \ {0} /\ building.of \in 0..MaxReq
      BY <1>12 DEF Sound, Ids, DecoderTyped
    <2> QED BY <1>12, <1>13, <2>1, HttpAssumption DEF Entry, Entries
  <1>16. kind' = kind /\ log' = Append(log, e) BY <1>14 DEF Conclude
  <1>17. s' = c' /\ c' = n BY <1>6, <1>9, <1>14 DEF SentToS
  <1>18. Records(log', awaiting', building'.of, responding', k + 1, k + 1, k, k)
    <2>1. log \in Seq(Entries) /\ building'.of = 0 BY <1>14 DEF Sound, DecoderTyped, NoRequest
    <2>2. Records(log, awaiting, k + 1, responding, k + 1, k, k, k) BY <1>6, <1>12
    <2>3. Records(Append(log, e), Append(awaiting, e.id), 0, responding, k + 1, k + 1, k, k)
      BY <1>15, <2>1, <2>2, RecordsEnd
    <2> QED BY <1>14, <1>15, <1>16, <2>1, <2>3
  <1>19. UNCHANGED <<heads, ends, asked, answered, finished, switched>>
    BY <1>14 DEF netVars, clientVars, cameraVars
  <1>20. Fed(heads, ends, answered, finished)'
    BY <1>4, <1>5, <1>8, <1>17, <1>18, <1>19 DEF Fed
  <1> QED BY <1>2, <1>14, <1>16, <1>19, <1>20 DEF AtRest

LEMMA InfoDecoded ==
  ASSUME Sound, kind = "http", overlap = {}, InfoTold, Decode
  PROVE  kind' = "http" /\ AtRest'
  <1>1. PICK t : t = Token("info", answered + 1, "plain") OBVIOUS
  <1>2. /\ feeding = "s2c" /\ ~switched /\ cbuf = << >> /\ sbuf = <<t>>
        /\ answered = finished /\ answered < heads /\ Fed(heads, ends, answered, finished)
    BY <1>1 DEF InfoTold, CameraTold
  <1>3. PICK k \in Nat : k + 1 = heads
    <2>1. answered \in Nat /\ heads = answered + 1 BY <1>2, LockNumbers
    <2> QED BY <2>1
  <1>4. heads = k + 1 /\ ends \in {k, k + 1} /\ answered = k /\ finished = k
    BY <1>2, <1>3, LockNumbers
  <1>5. PICK up \in BOOLEAN : up = (asked = heads) OBVIOUS
  <1>6. c = Machine(up, k + 1, ends, k, k) /\ s = c BY <1>2, <1>4, <1>5 DEF Fed
  <1>7. t.kind = "info" BY <1>1, TokenIs
  <1>8. Verdict(s, t) = "ok" /\ Take(s, t) = s /\ s.server = "SEND_RESPONSE"
    BY <1>4, <1>6, <1>7, InfoTaken
  <1>9. OnInformational BY <1>2, <1>7, <1>8, OnlyCamera
  <1>10. s' = s /\ sbuf' = << >> /\ UNCHANGED <<netVars, cbuf, c, eventVars>>
    <2>1. Head(sbuf) = t /\ Tail(sbuf) = << >> BY <1>2
    <2> QED BY <1>8, <1>9, <2>1 DEF OnInformational
  <1>11. /\ UNCHANGED <<heads, ends, asked, answered, finished, switched>>
         /\ UNCHANGED <<kind, log, awaiting, building, responding>>
    BY <1>10 DEF netVars, clientVars, cameraVars, eventVars
  <1>12. Fed(heads, ends, answered, finished)' BY <1>2, <1>10, <1>11 DEF Fed
  <1> QED BY <1>2, <1>10, <1>11, <1>12 DEF AtRest

LEMMA SwitchDecoded ==
  ASSUME Sound, kind = "http", overlap = {}, SwitchTold, Decode
  PROVE  kind' = "http" /\ Switched'
  <1>1. PICK t : t = Token("switch", heads, "plain") OBVIOUS
  <1>2. /\ feeding = "s2c" /\ switched /\ cbuf = << >> /\ sbuf = <<t>>
        /\ Fed(heads, ends, answered - 1, finished - 1)
    BY <1>1 DEF SwitchTold, CameraTold
  <1>3. PICK k \in Nat : k + 1 = heads
    <2>1. heads > 0 /\ heads \in Nat BY LockNumbers DEF Sound, Decided
    <2> QED BY <2>1
  <1>4. /\ heads = k + 1 /\ ends = k + 1 /\ answered - 1 = k /\ finished - 1 = k
        /\ (asked = heads) = TRUE
    BY <1>2, <1>3, LockNumbers
  <1>5. /\ c = Machine(TRUE, k + 1, k + 1, k, k) /\ s = c
        /\ Records(log, awaiting, building.of, responding, heads, ends, answered - 1, finished - 1)
    BY <1>2, <1>4 DEF Fed
  <1>6. t.kind = "switch" BY <1>1, TokenIs
  <1>7. /\ Verdict(s, t) = "ok" /\ s.server = "SEND_RESPONSE"
        /\ Take(s, t) = [client |-> "SWITCHED", server |-> "SWITCHED", offer |-> TRUE]
        /\ c = [client |-> "MIGHT_SWITCH", server |-> "SEND_RESPONSE", offer |-> TRUE]
    BY <1>5, <1>6, SwitchTaken
  <1>8. OnInformational BY <1>2, <1>6, <1>7, OnlyCamera
  <1>9. s' = Take(s, t) /\ sbuf' = << >> /\ UNCHANGED <<netVars, cbuf, c, eventVars>>
    <2>1. Head(sbuf) = t /\ Tail(sbuf) = << >> BY <1>2
    <2> QED BY <1>8, <2>1 DEF OnInformational
  <1>10. /\ UNCHANGED <<heads, ends, asked, answered, finished, switched>>
         /\ UNCHANGED <<kind, log, awaiting, building, responding>>
    BY <1>9 DEF netVars, clientVars, cameraVars, eventVars
  <1> QED BY <1>2, <1>5, <1>7, <1>9, <1>10 DEF Switched

\* An answer of HTTP/1.0 ends the decoding, with all pairs right.
LEMMA AnswerDecoded ==
  ASSUME Sound, kind = "http", overlap = {}, AnswerTold, Decode
  PROVE  (kind' = "http" /\ AtRest') \/ (kind' = "raw" /\ PairedExactly')
  <1>1. PICK t : t = Token("answer", answered, framing) OBVIOUS
  <1>2. /\ feeding = "s2c" /\ ~switched /\ cbuf = << >> /\ sbuf = <<t>>
        /\ finished < answered /\ Fed(heads, ends, answered - 1, finished)
    BY <1>1 DEF AnswerTold, CameraTold
  <1>3. PICK k \in Nat : k + 1 = heads
    <2>1. finished \in Nat /\ heads = finished + 1 BY <1>2, LockNumbers
    <2> QED BY <2>1
  <1>4. /\ heads = k + 1 /\ ends = k + 1 /\ answered - 1 = k /\ finished = k /\ answered = k + 1
        /\ k + 1 \in 0..MaxReq
    BY <1>2, <1>3, LockNumbers, HttpAssumption
  <1>5. PICK up \in BOOLEAN : up = (asked = heads) OBVIOUS
  <1>6. /\ c = Machine(up, k + 1, k + 1, k, k) /\ s = c
        /\ Records(log, awaiting, building.of, responding, k + 1, k + 1, k, k)
    BY <1>2, <1>4, <1>5 DEF Fed
  <1>7. t.kind = "answer" /\ t.n = k + 1 /\ t.opt = framing BY <1>1, <1>4, TokenIs
  <1>8. PICK n : n = Machine(up, k + 1, k + 1, k + 1, k) OBVIOUS
  <1>9. Verdict(c, t) = "ok" /\ Take(c, t) = n /\ c.server = "SEND_RESPONSE"
    BY <1>6, <1>7, <1>8, AnswerTaken
  <1>10. OnResponse BY <1>2, <1>6, <1>7, <1>9, OnlyCamera
  <1>11. log \in Seq(Entries) /\ Unique(log, nextId) /\ nextId \in Nat \ {0}
    BY DEF Sound, Ids, DecoderTyped
  <1>12. PICK m : m = Answering(log, Head(awaiting), k + 1) OBVIOUS
  <1>13. /\ awaiting # << >> /\ Len(m) = k + 1 /\ m \in Seq(Entries)
         /\ Records(m, PopOldest(awaiting), building.of, Head(awaiting), k + 1, k + 1, k + 1, k)
    BY <1>4, <1>6, <1>11, <1>12, RecordsAnswer
  <1>14. Head(sbuf) = t /\ Tail(sbuf) = << >> BY <1>2
  <1>15. /\ responding' = Head(awaiting) /\ awaiting' = PopOldest(awaiting)
         /\ s' = Take(s, t) /\ c' = SentToC(t)
         /\ Conclude(OutcomeAtC(t), m, nextId)
         /\ sbuf' = << >> /\ UNCHANGED <<netVars, cbuf, building>>
    BY <1>7, <1>10, <1>12, <1>13, <1>14 DEF OnResponse, Answering
  <1>16. UNCHANGED <<heads, ends, asked, answered, finished, switched>>
    BY <1>15 DEF netVars, clientVars, cameraVars
  <1>17. CASE framing # "http10"
    <2>1. OutcomeAtC(t) = "ok" /\ SentToC(t) = n
      BY <1>7, <1>9, <1>17 DEF OutcomeAtC, SentToC
    <2>2. kind' = kind /\ log' = m BY <1>15, <2>1 DEF Conclude
    <2>3. s' = c' /\ c' = n BY <1>6, <1>9, <1>15, <2>1
    <2>4. Records(log', awaiting', building'.of, responding', k + 1, k + 1, k + 1, k)
      BY <1>13, <1>15, <2>2
    <2>5. Fed(heads, ends, answered, finished)'
      BY <1>4, <1>5, <1>8, <1>16, <2>3, <2>4 DEF Fed
    <2> QED BY <1>2, <1>15, <1>16, <2>2, <2>5 DEF AtRest
  <1>18. CASE framing = "http10"
    <2>1. OutcomeAtC(t) = "protocol" BY <1>7, <1>18 DEF OutcomeAtC
    <2>2. PICK e : e = Entry(nextId, "failed", 0) OBVIOUS
    <2>3. e \in Entries /\ e.tag = "failed"
      BY <1>11, <2>2, HttpAssumption DEF Entry, Entries
    <2>4. kind' = "raw" /\ log' = Append(m, e) BY <1>15, <2>1, <2>2 DEF Conclude
    <2>5. /\ log'[k + 2] = e /\ \A i \in 1..(k + 1) : log'[i] = m[i]
          /\ \A i \in 1..Len(log') : i \in 1..(k + 1) \/ i = k + 2
      <3>1. Len(m) + 1 = k + 2 BY <1>13
      <3> QED BY <1>13, <2>3, <2>4, <3>1, Appended
    <2>6. \A i \in 1..(k + 1) : m[i].of = i /\ m[i].ans = i /\ i # 0
      BY <1>13 DEF Records
    <2>7. \A i \in 1..Len(log') : log'[i].tag \in {"http", "rtsp"} =>
            log'[i].of # 0 /\ log'[i].ans \in {0, log'[i].of}
      BY <2>3, <2>5, <2>6
    <2> QED BY <2>4, <2>7 DEF PairedExactly, Recorded
  <1> QED BY <1>17, <1>18

LEMMA DoneDecoded ==
  ASSUME Sound, kind = "http", overlap = {}, DoneTold, Decode
  PROVE  kind' = "http" /\ AtRest'
  <1>1. PICK t : t = Token("done", finished, "plain") OBVIOUS
  <1>2. /\ feeding = "s2c" /\ ~switched /\ cbuf = << >> /\ sbuf = <<t>>
        /\ heads = finished /\ Fed(heads, ends, answered, finished - 1)
    BY <1>1 DEF DoneTold, CameraTold
  <1>3. PICK k \in Nat : k + 1 = heads
    <2>1. heads > 0 /\ heads \in Nat BY LockNumbers DEF Sound, Decided
    <2> QED BY <2>1
  <1>4. /\ heads = k + 1 /\ ends = k + 1 /\ answered = k + 1 /\ finished = k + 1
        /\ finished - 1 = k
    BY <1>2, <1>3, LockNumbers
  <1>5. PICK up \in BOOLEAN : up = (asked = heads) OBVIOUS
  <1>6. /\ c = Machine(up, k + 1, k + 1, k + 1, k) /\ s = c
        /\ Records(log, awaiting, building.of, responding, k + 1, k + 1, k + 1, k)
    BY <1>2, <1>4, <1>5 DEF Fed
  <1>7. t.kind = "done" /\ t.opt = "plain" BY <1>1, TokenIs
  <1>8. PICK n : n = Machine(up, k + 1, k + 1, k + 1, k + 1) OBVIOUS
  <1>9. Verdict(c, t) = "ok" /\ Cycle(Take(c, t)) = n /\ c.server = "SEND_BODY"
    BY <1>6, <1>7, <1>8, DoneTaken
  <1>10. OnResponseEnd BY <1>2, <1>6, <1>7, <1>9, OnlyCamera
  <1>11. Head(sbuf) = t /\ Tail(sbuf) = << >> BY <1>2
  <1>12. OutcomeAtC(t) = "ok" /\ SentToC(t) = Take(c, t)
    BY <1>7, <1>9 DEF OutcomeAtC, SentToC
  <1>13. PICK m : m = WithBody(log, responding) OBVIOUS
  <1>14. /\ s' = Cycle(Take(s, t)) /\ c' = Cycle(Take(c, t)) /\ Conclude("ok", m, nextId)
         /\ responding' = 0 /\ sbuf' = << >> /\ UNCHANGED <<netVars, cbuf, building, awaiting>>
    BY <1>10, <1>11, <1>12, <1>13 DEF OnResponseEnd, WithBody
  <1>15. kind' = kind /\ log' = m BY <1>14 DEF Conclude
  <1>16. s' = c' /\ c' = n BY <1>6, <1>9, <1>14
  <1>17. Records(log', awaiting', building'.of, responding', k + 1, k + 1, k + 1, k + 1)
    <2>1. log \in Seq(Entries) BY DEF Sound, DecoderTyped
    <2>2. Records(m, awaiting, building.of, 0, k + 1, k + 1, k + 1, k + 1)
      BY <1>6, <1>13, <2>1, RecordsDone
    <2> QED BY <1>14, <1>15, <2>2
  <1>18. UNCHANGED <<heads, ends, asked, answered, finished, switched>>
    BY <1>14 DEF netVars, clientVars, cameraVars
  <1>19. Fed(heads, ends, answered, finished)'
    BY <1>4, <1>5, <1>8, <1>16, <1>17, <1>18 DEF Fed
  <1> QED BY <1>2, <1>14, <1>15, <1>18, <1>19 DEF AtRest

LEMMA RestDecoded ==
  ASSUME Sound, kind = "http", AtRest \/ Switched, Decode
  PROVE  kind' = "http" /\ (AtRest \/ Switched)'
  <1>1. feeding # "none" /\ feeding \in {"none", "c2s", "s2c"} BY DecodeKind DEF Sound, DecoderTyped
  <1>2. cbuf = << >> /\ sbuf = << >> BY DEF AtRest, Switched
  <1>3. c.client # "ERROR" /\ s.server # "ERROR"
    <2>1. CASE AtRest
      <3>1. PICK up \in BOOLEAN : up = (asked = heads) OBVIOUS
      <3>2. c = Machine(up, heads, ends, answered, finished) /\ s = c BY <2>1, <3>1 DEF AtRest, Fed
      <3>3. \/ c = IdleMachine
            \/ c = [client |-> "SEND_BODY", server |-> "SEND_RESPONSE", offer |-> up]
            \/ c = [client |-> IF up THEN "MIGHT_SWITCH" ELSE "DONE",
                    server |-> "SEND_RESPONSE", offer |-> up]
            \/ c = [client |-> "DONE", server |-> "SEND_BODY", offer |-> FALSE]
        BY <3>2 DEF Machine
      <3> QED BY <3>2, <3>3 DEF IdleMachine
    <2>2. CASE Switched BY <2>2 DEF Switched
    <2> QED BY <2>1, <2>2
  <1>4. UNCHANGED <<netVars, h11Vars, eventVars>> BY <1>1, <1>2, <1>3, OnlyEnds
  <1>5. /\ UNCHANGED <<heads, ends, asked, answered, finished, switched, cbuf, sbuf, c, s>>
        /\ UNCHANGED <<kind, log, awaiting, building, responding>>
    BY <1>4 DEF netVars, clientVars, cameraVars, h11Vars, eventVars
  <1>6. CASE AtRest
    <2>1. Fed(heads, ends, answered, finished)' BY <1>5, <1>6 DEF AtRest, Fed
    <2> QED BY <1>5, <1>6, <2>1 DEF AtRest
  <1>7. CASE Switched BY <1>5, <1>7 DEF Switched
  <1> QED BY <1>5, <1>6, <1>7

\* One event of the loop.
LEMMA LockDecode ==
  ASSUME Sound, Lockstep, Decode, overlap = {}
  PROVE  (kind' = "http" /\ (AtRest' \/ Switched')) \/ (kind' = "raw" /\ PairedExactly')
  <1>1. kind = "http" BY DecodeKind
  <1>2. CASE HeadTold BY <1>1, <1>2, HeadDecoded
  <1>3. CASE EndTold BY <1>1, <1>3, EndDecoded
  <1>4. CASE InfoTold BY <1>1, <1>4, InfoDecoded
  <1>5. CASE SwitchTold BY <1>1, <1>5, SwitchDecoded
  <1>6. CASE AnswerTold BY <1>1, <1>6, AnswerDecoded
  <1>7. CASE DoneTold BY <1>1, <1>7, DoneDecoded
  <1>8. CASE AtRest \/ Switched BY <1>1, <1>8, RestDecoded
  <1> QED BY <1>1, <1>2, <1>3, <1>4, <1>5, <1>6, <1>7, <1>8 DEF Lockstep

LEMMA DecodeKeepsNet ==
  ASSUME Decode
  PROVE  UNCHANGED netVars
  BY DEF Decode, FeedEnds, ParseFails, OnRequest, OnRequestEnd, OnInformational, OnResponse,
         OnResponseEnd

\* Every step of the specification keeps all parts of the invariant.
LEMMA LockNext ==
  ASSUME Sound, Lockstep, Next
  PROVE  Lockstep'
  <1>1. CASE Decode
    <2> SUFFICES ASSUME kind' = "http", overlap' = {} PROVE AtRest' \/ Switched'
      BY DEF Lockstep
    <2>1. overlap = {} BY <1>1, DecodeKeepsNet DEF netVars
    <2> QED BY <1>1, <2>1, LockDecode
  <1>2. CASE ~Decode BY <1>2, LockClient, LockCamera, LockClose DEF Next
  <1> QED BY <1>1, <1>2

LEMMA LeftNext ==
  ASSUME Sound, Lockstep, LeftExact, Next
  PROVE  LeftExact'
  <1>1. CASE Decode /\ UNCHANGED streamVars
    <2> SUFFICES ASSUME kind' = "raw", ~Disordered' PROVE PairedExactly'
      BY DEF LeftExact, PairedExactly
    <2>1. overlap' = overlap BY <1>1, DecodeKeepsNet DEF netVars
    <2>2. overlap = {}
      <3>1. "early" \notin overlap /\ "pipelined" \notin overlap BY <2>1 DEF Disordered
      <3>2. overlap \subseteq {"early", "pipelined"} BY DEF Sound, NetTyped
      <3> QED BY <3>1, <3>2
    <2> QED BY <1>1, <2>2, LockDecode
  <1>2. CASE Client \/ Camera \/ Close BY <1>2, LeftPeers
  <1> QED BY <1>1, <1>2 DEF Next

LEMMA IInvInit == StreamInit => IInv
  <1> SUFFICES ASSUME StreamInit PROVE IInv OBVIOUS
  <1>1. Sound BY InitSound
  <1>2. kind = "none" /\ glued = FALSE BY DEF StreamInit, Init
  <1> QED BY <1>1, <1>2 DEF IInv, Lockstep, Paired, InTurn, HelloRead, LeftExact

LEMMA IInvNext ==
  ASSUME IInv, [Next]_allVars
  PROVE  IInv'
  <1>1. Sound' BY SoundNext DEF IInv
  <1>2. CASE Next
    <2>1. Lockstep' BY <1>2, LockNext DEF IInv
    <2>2. Paired' BY <1>2, PairedNext DEF IInv
    <2>3. HelloRead' BY <1>2, HelloNext DEF IInv
    <2>4. LeftExact' BY <1>2, LeftNext DEF IInv
    <2> QED BY <1>1, <2>1, <2>2, <2>3, <2>4 DEF IInv
  <1>3. CASE UNCHANGED allVars
    <2>1. /\ UNCHANGED <<heads, ends, asked, answered, finished, framing, switched, overlap>>
          /\ UNCHANGED <<feeding, cbuf, sbuf, c, s, kind, building, awaiting, responding, log>>
          /\ UNCHANGED <<extra, glued, stuck, rtspAwait>>
      BY <1>3 DEF allVars, vars, netVars, clientVars, cameraVars, h11Vars, eventVars, streamVars,
                  firstVars, rtspVars
    <2>2. PairedExactly => PairedExactly' BY <2>1 DEF PairedExactly, Disordered, Recorded
    <2>3. LeftExact' BY <2>1, <2>2 DEF LeftExact, IInv
    <2>4. HelloRead' BY <2>1 DEF HelloRead, IInv
    <2>5. Paired' BY <2>1 DEF Paired, InTurn, IInv
    <2>6. Lockstep'
      BY <2>1 DEF Lockstep, IInv, AtRest, HeadTold, EndTold, InfoTold, SwitchTold, AnswerTold,
                  DoneTold, Switched, ClientTold, CameraTold, Fed
    <2> QED BY <1>1, <2>3, <2>4, <2>5, <2>6 DEF IInv
  <1> QED BY <1>2, <1>3

LEMMA IInvHolds == Spec => []IInv
  BY IInvInit, IInvNext, PTL DEF Spec

----------------------------------------------------------------------------
(* What the invariant says.                                                 *)

\* A connection of HTTP without overlap has no answer on a wrong request.
LEMMA LockPaired ==
  ASSUME Lockstep, kind = "http", overlap = {}
  PROVE  \A i \in 1..Len(log) : log[i].of = i /\ log[i].ans \in {0, i}
  <1>1. \E h, e, a, f : Records(log, awaiting, building.of, responding, h, e, a, f)
    BY DEF Lockstep, AtRest, HeadTold, EndTold, InfoTold, SwitchTold, AnswerTold, DoneTold,
           Switched, Fed
  <1>2. PICK h, e, a, f : Records(log, awaiting, building.of, responding, h, e, a, f) BY <1>1
  <1>3. Len(log) = e /\ \A i \in 1..e : log[i].of = i /\ log[i].ans = IF i <= a THEN i ELSE 0
    BY <1>2 DEF Records
  <1> QED BY <1>3

\* Between two calls, everything that was fed has been taken.
LEMMA LockQuiet ==
  ASSUME Lockstep, kind = "http", overlap = {}, feeding = "none"
  PROVE  AtRest \/ Switched
  BY DEF Lockstep, HeadTold, EndTold, InfoTold, SwitchTold, AnswerTold, DoneTold, ClientTold,
         CameraTold

LEMMA OrderedHttp ==
  ASSUME Sound, kind = "http", ~Disordered
  PROVE  overlap = {}
  <1>1. "early" \notin overlap /\ "pipelined" \notin overlap BY DEF Disordered
  <1> QED BY <1>1 DEF Sound, NetTyped

LEMMA PairedHolds == IInv => PairedExactly
  <1> SUFFICES ASSUME IInv, ~Disordered, NEW i \in 1..Len(log), log[i].tag \in {"http", "rtsp"}
               PROVE  log[i].of # 0 /\ log[i].ans \in {0, log[i].of}
    BY DEF PairedExactly, Recorded
  <1>1. kind \in {"none", "http", "rtsp", "tls", "raw"} BY DEF IInv, Sound, DecoderTyped
  <1>2. CASE kind = "none"
    <2>1. log = << >> BY <1>2 DEF IInv, Sound, Decided
    <2>2. Len(<< >>) = 0 OBVIOUS
    <2> QED BY <2>1, <2>2
  <1>3. CASE kind = "http"
    <2>1. overlap = {} BY <1>3, OrderedHttp DEF IInv
    <2>2. log[i].of = i /\ log[i].ans \in {0, i} BY <1>3, <2>1, LockPaired DEF IInv
    <2>3. i # 0 OBVIOUS
    <2> QED BY <2>2, <2>3
  <1>4. CASE kind = "rtsp"
    <2>1. InTurn BY <1>4 DEF InTurn, Disordered
    <2>2. log[i].of = i /\ log[i].ans \in {0, i} BY <2>1 DEF IInv, Paired
    <2>3. i # 0 OBVIOUS
    <2> QED BY <2>2, <2>3
  <1>5. CASE kind = "tls" BY <1>5 DEF IInv, Sound, Decided
  <1>6. CASE kind = "raw" BY <1>6 DEF IInv, LeftExact, PairedExactly, Recorded
  <1> QED BY <1>1, <1>2, <1>3, <1>4, <1>5, <1>6

LEMMA CaughtUpHolds == IInv => CaughtUp
  <1> SUFFICES ASSUME IInv PROVE CaughtUp OBVIOUS
  <1>1. /\ ends \in Nat /\ finished \in Nat /\ heads \in Nat /\ answered \in Nat
        /\ finished <= answered
    BY NetNumbers DEF IInv, Sound
  <1>2. ASSUME ~Disordered, kind = "http", feeding = "none"
        PROVE  /\ Len(log) = ends
               /\ \A i \in 1..ends : log[i].of = i
               /\ \A i \in 1..finished : ~(switched /\ i = asked) =>
                     log[i].body /\ (log[i].ans = i \/ "media" \in extra)
    <2>1. overlap = {} BY <1>2, OrderedHttp DEF IInv
    <2>2. AtRest \/ Switched BY <1>2, <2>1, LockQuiet DEF IInv
    <2>3. finished <= ends BY <1>1, <2>1, LockNumbers DEF IInv
    <2>4. CASE AtRest
      <3>1. Records(log, awaiting, building.of, responding, heads, ends, answered, finished)
        BY <2>4 DEF AtRest, Fed
      <3>2. \A i \in 1..finished : i \in 1..ends /\ i <= answered BY <1>1, <2>3
      <3> QED BY <3>1, <3>2 DEF Records
    <2>5. CASE Switched
      <3>1. /\ switched
            /\ Records(log, awaiting, building.of, responding, heads, ends,
                       answered - 1, finished - 1)
        BY <2>5 DEF Switched
      <3>2. asked = finished /\ answered = finished BY <2>1, <3>1, LockNumbers DEF IInv
      <3>3. \A i \in 1..finished : i # finished => i \in 1..(finished - 1) /\ i \in 1..ends
                                                   /\ i <= answered - 1
        BY <1>1, <2>3, <3>2
      <3> QED BY <3>1, <3>2, <3>3 DEF Records
    <2> QED BY <2>2, <2>4, <2>5
  <1>3. ASSUME ~Disordered, kind = "rtsp", stuck = {}
        PROVE  /\ Len(log) = ends
               /\ \A i \in 1..ends : log[i].of = i
               /\ \A i \in 1..finished : ~(switched /\ i = asked) =>
                     log[i].body /\ (log[i].ans = i \/ "media" \in extra)
    <2>1. InTurn BY <1>3 DEF InTurn, Disordered
    <2>2. /\ Len(log) = ends
          /\ \A i \in 1..Len(log) : log[i].of = i /\ log[i].ans \in {0, i}
          /\ \A i \in 1..finished : log[i].body /\ (log[i].ans = i \/ "media" \in extra)
      BY <1>3, <2>1 DEF IInv, Paired
    <2> QED BY <2>2
  <1>4. (kind = "tls" /\ ends > 0 /\ stuck = {}) => log[1].body BY DEF IInv, HelloRead
  <1> QED BY <1>2, <1>3, <1>4 DEF CaughtUp

LEMMA InSyncHolds == IInv => InSyncWithoutOverlap
  <1> SUFFICES ASSUME IInv, overlap = {}, ~switched, kind = "http", feeding = "none" PROVE c = s
    BY DEF InSyncWithoutOverlap
  <1>1. AtRest \/ Switched BY LockQuiet DEF IInv
  <1> QED BY <1>1 DEF AtRest, Switched, Fed

----------------------------------------------------------------------------
\* The state keeps its types: the counters of the peers stay in step, both
\* machines stay in the states of h11, ids stay below the store's next one.
THEOREM TypeCorrect == Spec => []TypeOK
  <1>1. Sound => TypeOK BY TypesAgree DEF Sound
  <1> QED BY <1>1, SoundInv, PTL

\* Whatever comes, pipelined, early, unreadable or cut off, _awaiting is the
\* requests in the log without a status, oldest first, and close() notes
\* exactly those.
THEOREM AwaitingExact == Spec => []AwaitingIsUnanswered
  <1>1. Sound => AwaitingIsUnanswered BY ListsAre DEF Sound
  <1> QED BY <1>1, SoundInv, PTL

\* A connection is labelled raw for one of the four reasons and no other.
THEOREM RawCaptured == Spec => []RawHasCause
  <1>1. Sound => RawHasCause BY RawCaused DEF Sound
  <1> QED BY <1>1, SoundInv, PTL

\* Unless a camera answers early, a client of HTTP pipelines, or a camera of
\* RTSP sends a request of its own, every answer is recorded with its own
\* request, at every point of every call, and stays so on a connection that
\* has become raw.
THEOREM PairsExactly == Spec => []PairedExactly
  BY PairedHolds, IInvHolds, PTL

\* In that order, and as long as nothing unreadable came, the log between two
\* calls has each complete request once and each complete answer with its
\* body, and a ClientHello its version.
THEOREM CatchesUp == Spec => []CaughtUp
  BY CaughtUpHolds, IInvHolds, PTL

\* Without overlap and before a 101, the client's machine and the camera's are
\* in the same state between two calls.
THEOREM StaysInSync == Spec => []InSyncWithoutOverlap
  BY InSyncHolds, IInvHolds, PTL
============================================================================
