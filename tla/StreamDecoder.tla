--------------------------- MODULE StreamDecoder ---------------------------
(***************************************************************************)
(* StreamDecoder (decoders.py) on one connection, from its first byte to   *)
(* close(): the decision for a protocol, HTTP (the actions of HttpDecoder),*)
(* RTSP, the labelling of TLS, and everything else as raw.                 *)
(*                                                                         *)
(* What the peers speak is fixed at the start.  The first message of the   *)
(* client may come in pieces: fewer than eight bytes without an end of     *)
(* line ("few"), a part of the first line ("part"), and the rest with its  *)
(* head.  `fits` says whether the first request line, its end included,    *)
(* lies in the first 64 bytes, which is all that _decide looks at.  A      *)
(* message of RTSP and a ClientHello of TLS arrive as a head and an end;   *)
(* they are decoded when the end is there.  A camera may talk before it is *)
(* asked, and on RTSP send media and requests of its own.                  *)
(***************************************************************************)
EXTENDS HttpDecoder

CONSTANTS
    Dialects    \* subset of {"http", "rtsp", "tls", "other"}

ASSUME StreamAssumption == Dialects \subseteq {"http", "rtsp", "tls", "other"}

VARIABLES
    dialect, fits,  \* what the client speaks; see above
    begun,          \* pieces of the first line it has sent: subset of {"few", "part"}
    sniff,          \* _sniff is not empty
    extra,          \* sent unasked, each at most once: subset of Extras
    glued,          \* media at the start of _rtsp_s
    stuck,          \* RTSP buffers that start with an unreadable length
    rtspAwait       \* _rtsp_await: ids

firstVars  == <<dialect, fits, begun>>
rtspVars   == <<glued, stuck, rtspAwait>>
streamVars == <<firstVars, sniff, extra, rtspVars>>
allVars    == <<vars, streamVars>>

\* By the camera, before any byte of the client ("banner") or between the first
\* and the rest ("aside"), and on RTSP media and a request of its own; and the
\* client's answer to that request.
Extras == {"banner", "aside", "media", "own", "reply"}

StreamInit ==
    /\ Init
    /\ dialect \in Dialects /\ fits \in BOOLEAN
    /\ begun = {} /\ sniff = FALSE /\ extra = {}
    /\ glued = FALSE /\ stuck = {} /\ rtspAwait = << >>

----------------------------------------------------------------------------
(* The decision, and the protocols other than HTTP.                         *)

\* _decide, on what _sniff and the piece t make together.
Decide(t) ==
    CASE dialect \in {"http", "rtsp"} /\ fits /\ t.kind = "head" -> dialect
      [] dialect = "tls" -> "tls"
      [] OTHER -> "raw"

\* The log with a connection's one event for TLS or raw bytes, made by the
\* first call that needs it.
Labelled(t) == IF \E i \in 1..Len(log) : log[i].tag \in {"raw", "tls", "failed"}
               THEN log ELSE Append(log, Entry(nextId, t, 0))

Touch(l) ==
    /\ log' = l
    /\ nextId' = IF Len(l) > Len(log) THEN AfterNewId(nextId) ELSE nextId

RawTouch == Touch(Labelled("raw")) /\ UNCHANGED rtspVars

\* _tls_feed: a complete ClientHello gives its version and name to the event
\* (here: body); one that breaks the parser stays in the buffer.
TlsFeed(t) ==
    LET l == Labelled("tls")
        broken == IF t.opt = "unreadable" THEN stuck \cup {"c2s"} ELSE stuck
    IN /\ Touch(IF t.kind = "end" /\ broken = {}
                THEN [i \in 1..Len(l) |-> [l[i] EXCEPT !.body = TRUE]] ELSE l)
       /\ stuck' = broken
       /\ UNCHANGED <<glued, rtspAwait>>

\* Mutant: a message with media in front is not taken for one.
PairRtspBare(t) ==
    /\ log' = [i \in 1..Len(log) |->
                 IF rtspAwait # << >> /\ log[i].id = Head(rtspAwait) /\ ~glued
                 THEN [log[i] EXCEPT !.ans = t.n, !.body = TRUE] ELSE log[i]]
    /\ rtspAwait' = IF glued THEN rtspAwait ELSE PopOldest(rtspAwait)
    /\ glued' = FALSE
    /\ UNCHANGED <<nextId, stuck>>

\* _rtsp_parse, a message of the camera: it goes to the oldest request, or
\* nowhere.  Its status is the second word of the first line, which media in
\* front may hide and which a request does not have.
PairRtsp(t) ==
    /\ \E readable \in IF t.kind = "own" THEN {FALSE} ELSE IF glued THEN BOOLEAN ELSE {TRUE} :
          log' = [i \in 1..Len(log) |->
                    IF rtspAwait # << >> /\ log[i].id = Head(rtspAwait)
                    THEN [log[i] EXCEPT !.ans = IF readable THEN t.n ELSE 0, !.body = TRUE]
                    ELSE log[i]]
    /\ rtspAwait' = PopOldest(rtspAwait)
    /\ glued' = FALSE
    /\ UNCHANGED <<nextId, stuck>>

\* A message of the client becomes an event and waits for an answer, whether
\* it is a request or itself an answer.
RecordRtsp(t) ==
    /\ log' = Append(log, Entry(nextId, "rtsp", IF t.kind = "reply" THEN 0 ELSE t.n))
    /\ rtspAwait' = Append(rtspAwait, nextId)
    /\ nextId' = AfterNewId(nextId)
    /\ UNCHANGED <<glued, stuck>>

\* Both loops of _rtsp_parse for the piece t, fed by side d: a buffer with an
\* unreadable length raises and stays as it is, and the client's comes first.
RtspParse(d, t) ==
    LET blocked == IF d = "c2s" THEN {"c2s"} ELSE {"c2s", "s2c"}
        done == t.kind \in {"end", "done", "own", "reply"}
    IN CASE stuck \cap blocked # {} \/ ~done ->
              /\ glued' = (glued \/ t.kind = "media")
              /\ UNCHANGED <<log, nextId, stuck, rtspAwait>>
         [] done /\ t.opt = "unreadable" /\ stuck \cap blocked = {} ->
              stuck' = stuck \cup {d} /\ UNCHANGED <<log, nextId, glued, rtspAwait>>
         [] OTHER -> IF d = "c2s" THEN RecordRtsp(t) ELSE PairRtsp(t)

----------------------------------------------------------------------------
(* feed_c2s and feed_s2c.                                                   *)

\* A few bytes stay in _sniff, more decide.
FeedC2S(t) ==
    LET waits == kind = "none" /\ t.kind = "few"
        k == IF kind = "none" /\ ~waits THEN Decide(t) ELSE kind
    IN /\ kind' = k
       /\ sniff' = waits
       /\ CASE k = "http" -> HttpFeedC2S(t) /\ UNCHANGED <<log, nextId, rtspVars>>
            [] k # "http" ->
                 /\ UNCHANGED <<feeding, h11Vars>>
                 /\ CASE k = "rtsp" -> RtspParse("c2s", t)
                      [] k = "tls"  -> TlsFeed(t)
                      [] k = "raw"  -> RawTouch
                      [] OTHER      -> UNCHANGED <<log, nextId, rtspVars>>
       /\ UNCHANGED <<building, awaiting, responding, noted, closed>>

\* Mutant: a camera that talks first always makes the connection raw.
ServerFirstAlways == kind = "none"

\* A camera that talks before the client makes the connection raw; one that
\* talks between the client's first bytes and the rest is not decoded.
ServerFirst == kind = "none" /\ ~sniff

FeedS2C(t) ==
    /\ kind' = IF ServerFirst THEN "raw" ELSE kind
    /\ CASE kind = "http" -> HttpFeedS2C(t) /\ UNCHANGED <<log, nextId, rtspVars>>
         [] kind # "http" ->
              /\ UNCHANGED <<feeding, h11Vars>>
              /\ CASE kind = "rtsp" -> RtspParse("s2c", t)
                   [] kind \in {"tls", "raw"} \/ ServerFirst -> RawTouch
                   [] OTHER -> UNCHANGED <<log, nextId, rtspVars>>
    /\ UNCHANGED <<building, awaiting, responding, noted, closed, sniff, firstVars>>

----------------------------------------------------------------------------
(* The client.                                                              *)

\* A piece of the first line: a short one, a longer one, or both in turn.
ClientPiece(k) ==
    /\ Quiet /\ heads = 0 /\ "part" \notin begun /\ k \notin begun
    /\ k = "part" => dialect \in {"http", "rtsp"}
    /\ begun' = begun \cup {k}
    /\ FeedC2S(Token(k, 0, "plain"))
    /\ UNCHANGED <<netVars, dialect, fits, extra>>

ClientHead(o) ==
    /\ o = "upgrade" => dialect = "http"
    /\ BeginRequest(o)
    /\ FeedC2S(Token("head", heads + 1, o))
    /\ UNCHANGED <<firstVars, extra>>

\* The length of an RTSP message, or the inside of a ClientHello, may make
\* no sense.
ClientEnd ==
    /\ CompleteRequest
    /\ \E o \in {"plain"} \cup
            (IF dialect = "rtsp" \/ (dialect = "tls" /\ heads = 1) THEN {"unreadable"} ELSE {}) :
          FeedC2S(Token("end", heads, o))
    /\ UNCHANGED <<firstVars, extra>>

\* The client of an RTSP connection answers the camera's request.
ClientReply ==
    /\ Quiet /\ heads = ends /\ "own" \in extra /\ "reply" \notin extra
    /\ extra' = extra \cup {"reply"}
    /\ FeedC2S(Token("reply", 0, "plain"))
    /\ UNCHANGED <<netVars, firstVars>>

----------------------------------------------------------------------------
(* The camera.                                                              *)

CameraInfo ==
    /\ dialect = "http"
    /\ Inform
    /\ FeedS2C(Token("info", answered + 1, "plain"))
    /\ UNCHANGED extra

CameraSwitch ==
    /\ SwitchProtocols
    /\ FeedS2C(Token("switch", answered + 1, "plain"))
    /\ UNCHANGED extra

CameraAnswer(f) ==
    /\ f = "sized" \/ dialect = "http"
    /\ BeginAnswer(f)
    /\ FeedS2C(Token("answer", answered + 1, f))
    /\ UNCHANGED extra

CameraDone ==
    /\ CompleteAnswer
    /\ \E o \in {"plain"} \cup (IF dialect = "rtsp" THEN {"unreadable"} ELSE {}) :
          FeedS2C(Token("done", answered, o))
    /\ UNCHANGED extra

\* Between two messages.
CameraUnasked(k) ==
    /\ Quiet /\ k \notin extra
    /\ CASE k = "banner" -> heads = 0 /\ begun = {}
         [] k = "aside"  -> heads = 0 /\ begun # {}
         [] OTHER        -> dialect = "rtsp" /\ heads > 0 /\ answered = finished
    /\ extra' = extra \cup {k}
    /\ FeedS2C(Token(k, 0, "plain"))
    /\ UNCHANGED netVars

----------------------------------------------------------------------------
\* Mutant: no test for `_responding`.
NotedAll == Range(awaiting) \cup {responding}

\* What close() notes "connection closed before response".
Noted == {id \in Range(awaiting) \cup {responding} :
             \E i \in 1..Len(log) : log[i].id = id /\ log[i].ans = 0}

\* close(), when the relay's task ends.  What is still in _sniff is too short
\* to be HTTP or RTSP; as TLS it is logged as raw.
Close ==
    /\ Quiet
    /\ closed' = TRUE
    /\ IF sniff THEN RawTouch /\ kind' = Decide(Token("few", 0, "plain"))
                ELSE UNCHANGED <<log, nextId, kind, rtspVars>>
    /\ sniff' = FALSE
    /\ noted' = Noted
    /\ UNCHANGED <<netVars, feeding, h11Vars, building, awaiting, responding, firstVars, extra>>

Client == \/ \E k \in {"few", "part"} : ClientPiece(k)
          \/ \E o \in {"plain"} \cup (IF Upgrades THEN {"upgrade"} ELSE {}) : ClientHead(o)
          \/ ClientEnd
          \/ ClientReply
Camera == \/ CameraInfo \/ CameraSwitch
          \/ \E f \in Framings : CameraAnswer(f)
          \/ CameraDone
          \/ \E k \in Extras \ {"reply"} : CameraUnasked(k)

Next == Client \/ Camera \/ (Decode /\ UNCHANGED streamVars) \/ Close

Spec == StreamInit /\ [][Next]_allVars

----------------------------------------------------------------------------
(* Properties.                                                              *)

Roles == {"IDLE", "SEND_BODY", "SEND_RESPONSE", "DONE", "MIGHT_SWITCH", "SWITCHED",
          "MUST_CLOSE", "ERROR"}
Entries == [id : Nat \ {0}, tag : {"http", "rtsp", "tls", "raw", "failed"},
            of : 0..MaxReq, ans : 0..MaxReq, body : BOOLEAN]

TypeOK ==
    /\ ends \in 0..MaxReq /\ heads \in {ends, ends + 1}
    /\ finished \in 0..heads /\ answered \in {finished, finished + 1}
    /\ overlap \subseteq {"early", "pipelined"} /\ feeding \in {"none", "c2s", "s2c"}
    /\ \A m \in {c, s} : m \in [client : Roles, server : Roles, offer : BOOLEAN]
    /\ kind \in {"none", "http", "rtsp", "tls", "raw"}
    /\ building \in [id : 0..nextId, of : 0..MaxReq]
    /\ awaiting \in Seq(1..nextId) /\ responding \in 0..nextId /\ rtspAwait \in Seq(1..nextId)
    /\ log \in Seq(Entries) /\ noted \subseteq 1..nextId
    /\ begun \subseteq {"few", "part"} /\ sniff \in BOOLEAN /\ extra \subseteq Extras
    /\ glued \in BOOLEAN /\ stuck \subseteq {"c2s", "s2c"}

Recorded == {i \in 1..Len(log) : log[i].tag \in {"http", "rtsp"}}

\* What makes the order of answers differ from the order of requests as the
\* decoder sees it.
Disordered == \/ "early" \in overlap
              \/ kind # "rtsp" /\ "pipelined" \in overlap
              \/ {"own", "reply"} \cap extra # {}

\* Unless a camera answers early, a client of HTTP pipelines, or a camera of
\* RTSP sends a request of its own, an answer is only ever recorded with its
\* own request, and never as an answer to nothing.
PairedExactly ==
    ~Disordered => \A i \in Recorded : log[i].of # 0 /\ log[i].ans \in {0, log[i].of}

\* In the same order, and as long as nothing unreadable came, the log has
\* caught up between two calls: each complete request once and in order, each
\* complete answer with its body, media in front of it or not (which may hide
\* its status), and a ClientHello with its version.
CaughtUp ==
    /\ (~Disordered /\ kind \in {"http", "rtsp"} /\ feeding = "none" /\ stuck = {}) =>
        /\ Len(log) = ends
        /\ \A i \in 1..ends : log[i].of = i
        /\ \A i \in 1..finished : ~(switched /\ i = asked) =>
              log[i].body /\ (log[i].ans = i \/ "media" \in extra)
    /\ (kind = "tls" /\ ends > 0 /\ stuck = {}) => log[1].body

\* "Every parsed event is sent into the opposite machine so both stay in
\* sync": between two calls, without overlap and before a 101.
InSyncWithoutOverlap ==
    (overlap = {} /\ ~switched /\ kind = "http" /\ feeding = "none") => c = s

\* Whatever happens on the connection, _awaiting is exactly the requests of
\* HTTP in the log without a status, oldest first: close() notes those and no
\* others.
Unanswered == {i \in 1..Len(log) : log[i].tag = "http" /\ log[i].ans = 0}

AwaitingIsUnanswered ==
    /\ Range(awaiting) = {log[i].id : i \in Unanswered}
    /\ \A j, k \in 1..Len(awaiting), p, q \in Unanswered :
          log[p].id = awaiting[j] /\ log[q].id = awaiting[k] => (j < k <=> p < q)
    /\ closed => noted = Range(awaiting)

\* A connection is labelled "non-HTTP TCP payload" only if it is that, or its
\* first request line is too long or came in pieces, or the camera talked
\* first, or it was closed within its first bytes.
RawHasCause ==
    (\E i \in 1..Len(log) : log[i].tag = "raw") =>
        \/ dialect = "other"
        \/ dialect \in {"http", "rtsp"} /\ (~fits \/ "part" \in begun)
        \/ "banner" \in extra
        \/ closed /\ heads = 0

\* Claimed by docs/design/camera-command-interceptor-proposal.md:94-96: what is
\* HTTP is logged as commands, and only the rest as raw.
HttpIsNotRaw == \A i \in 1..Len(log) : log[i].tag = "raw" => dialect # "http"
============================================================================
