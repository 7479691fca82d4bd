------------------------------ MODULE Replayer ------------------------------
(***************************************************************************)
(* Replaying a captured log (replay.py, Replayer.run and _replay_one): for *)
(* each event the request as it was captured, then, when the camera        *)
(* refuses it, with the operator's credentials; two requests.Sessions with *)
(* a cookie jar each; and cancel, which another thread may set at any time.*)
(*                                                                         *)
(* An event is what the choices depend on: its protocol (rtsp stands for   *)
(* every one that cannot be replayed), the status it was answered with (0  *)
(* is None), whether it was captured with a Cookie or its answer set one,  *)
(* whether it used Basic, whether it is a POST or PUT, and its body        *)
(* (Credentials); the log may have been redacted before it was loaded.     *)
(* 403 stands for every refusal that is not a 401, an ONVIF fault          *)
(* included.  The urls and headers of the events are ones requests takes.  *)
(* External: requests and the camera, which may answer anything, or only   *)
(* in part, and whose cookies are a jar's being empty or not.              *)
(***************************************************************************)
EXTENDS Credentials

CONSTANTS
    Logs        \* the logs that may be replayed: sequences of events

Statuses == {200, 401, 403}

Events == [proto : {"cgi", "onvif", "rtsp"}, status : Statuses \cup {0},
           cookie : {"no", "sent", "set"}, basic : BOOLEAN, post : BOOLEAN, body : Bodies]

\* What was captured is a text or a number, whoever's it is.
Captured(b) ==
    /\ \A f \in b.fields : f.value \in {"text", "number"}
    /\ b.header # "beside" /\ \A i \in DOMAIN b.tokens : b.tokens[i] = "text"

ASSUME LogsAssumption ==
    \A l \in Logs : l \in Seq(Events) /\ \A i \in 1..Len(l) : Captured(l[i].body)

VARIABLES
    log,      \* Replayer.events, sorted, as they were captured
    opts,     \* auth_mode; are there credentials, and has latin-1 no code for some
              \* of their letters; stop_on_error; is log redacted
    pc,       \* where the replay is
    pos,      \* the event in hand
    kept,     \* the captured Cookie is among the headers of the re-authentication
    holds,    \* the cookie jars that are not empty: of session, and of bare
    clock,    \* the camera's clock offset is known
    results,  \* Replayer.results
    cancel,   \* the event of that name is set
    sent,     \* history: the exchanges of the event in hand
    had,      \* history: the session had cookies when that event began
    torn      \* history: an answer broke off after its headers, on bare

vars == <<log, opts, pc, pos, kept, holds, clock, results, cancel, sent, had, torn>>

Modes == {"auto", "raw", "reauth"}
Options ==
    {o \in [mode : Modes, creds : BOOLEAN, wide : BOOLEAN, stop : BOOLEAN, redacted : BOOLEAN] :
        o.wide => o.creds}
Jars  == {"session", "bare"}

Init ==
    /\ log \in Logs
    /\ opts \in Options
    /\ pc = "head"
    /\ pos = 0
    /\ kept = FALSE
    /\ holds = [c \in Jars |-> FALSE]
    /\ clock = FALSE
    /\ results = << >>
    /\ cancel = FALSE
    /\ sent = << >>
    /\ had = FALSE
    /\ torn = FALSE

\* redact_event, as far as a replay depends on it.
Loaded(e) == IF opts.redacted THEN [e EXCEPT !.body = Redact(@)] ELSE e

ev == Loaded(log[pos])

----------------------------------------------------------------------------
(* The results.                                                             *)

Skipped(e) == e.proto = "rtsp" \/ e.body.syntax = "binary"

Result(status, used) ==
    [status |-> status, ok |-> status # 0 /\ status = ev.status, used |-> used,
     skipped |-> FALSE]

Skip == [status |-> 0, ok |-> TRUE, used |-> "", skipped |-> TRUE]

\* Mutant: a skipped event counts as an error.
StopsAtSkip(r) == opts.stop /\ (~r.ok \/ r.skipped)

Stops(r) == opts.stop /\ ~r.ok /\ ~r.skipped

Record(r) ==
    /\ results' = Append(results, r)
    /\ pc' = IF Stops(r) THEN "ended" ELSE "head"

----------------------------------------------------------------------------
(* The requests.                                                            *)

\* What comes back: status 0 is a RequestException, and even then the headers
\* may have arrived; with them cookies may be set, or the last one be cleared.
Effects == {"same", "set", "clear"}
Answers == {a \in [status : Statuses \cup {0}, arrived : BOOLEAN, jar : Effects] :
               (a.status # 0 => a.arrived) /\ (~a.arrived => a.jar = "same")}

NeedsReauth(status) == status \in {401, 403}

\* Requests that have to do with cookies go through the session, others bare.
Client(e) == IF e.cookie = "no" THEN "bare" ELSE "session"

\* Mutant: the captured Cookie is always sent again.
HeadersAll(e) == e.cookie = "sent"

\* Is the captured Cookie among the headers?
Headers(e) == e.cookie = "sent" /\ ~holds["session"]

\* An explicit Cookie header goes before the jar.
Cookie(keep) == IF keep THEN "captured" ELSE IF holds[Client(ev)] THEN "jar" ELSE "no"

Changed(held, effect) == effect = "set" \/ (effect = "same" /\ held)

\* Mutant: the bare session keeps its cookies.
NotCleared(a, earlier) ==
    [holds EXCEPT ![Client(ev)] =
        IF a.arrived THEN Changed(Changed(@, earlier), a.jar) ELSE @]

\* requests changes the jar once the headers of the last answer are there, by
\* those of an earlier one to the same call first; what bare has is cleared after
\* the answer, but not when there was none.
JarsAfter(a, earlier) ==
    [holds EXCEPT ![Client(ev)] =
        IF Client(ev) = "bare" /\ a.status # 0 THEN FALSE
        ELSE IF a.arrived THEN Changed(Changed(@, earlier), a.jar) ELSE @]

\* _body_for.
BodyFor(e) == IF opts.creds /\ e.proto = "cgi" /\ e.post THEN Substitute(e.body) ELSE e.body

Signed(e) == e.proto = "onvif" /\ e.body.syntax # "no"

\* The body of a re-authentication.
LoginBody(e) == IF Signed(e) THEN Resign(e.body) ELSE BodyFor(e)

Exchange(auth, cookie, body, a) ==
    sent' = Append(sent, [auth |-> auth, cookie |-> cookie, body |-> body,
                          status |-> a.status, jar |-> a.jar])

\* The call is over: with an answer, or with none.
CallEnds(a, earlier) ==
    /\ holds' = JarsAfter(a, earlier)
    /\ torn' = \/ torn
               \/ Client(ev) = "bare" /\ a.status = 0 /\ a.arrived /\ "set" \in {a.jar, earlier}

Send(auth, body, keep, a) ==
    Exchange(auth, Cookie(keep), body, a) /\ CallEnds(a, "same")

----------------------------------------------------------------------------
(* Replayer.run.                                                            *)

Loop ==
    /\ pc = "head"
    /\ pc' = IF cancel \/ pos = Len(log) THEN "ended" ELSE "due"
    /\ UNCHANGED <<log, opts, pos, kept, holds, clock, results, cancel, sent, had, torn>>

\* The delay to the event before it, if there is one and it is not full speed;
\* cancel ends the wait.
Due ==
    /\ pc = "due"
    /\ \E delayed \in {FALSE, pos > 0} :
          IF delayed /\ cancel
          THEN pc' = "ended" /\ UNCHANGED <<pos, sent, had>>
          ELSE /\ pc' = "begin" /\ pos' = pos + 1
               /\ sent' = << >> /\ had' = holds["session"]
    /\ UNCHANGED <<log, opts, kept, holds, clock, results, cancel, torn>>

Begin ==
    /\ pc = "begin"
    /\ IF Skipped(ev) THEN Record(Skip)
       ELSE /\ pc' = IF opts.mode = "reauth" THEN "reauth" ELSE "raw"
            /\ UNCHANGED results
    /\ UNCHANGED <<log, opts, pos, kept, holds, clock, cancel, sent, had, torn>>

\* Mutant: a refusal that was captured as one is not accepted.
EnoughIfAllowed(status) == opts.mode = "raw" \/ ~NeedsReauth(status) \/ ~opts.creds

\* The answer to the captured request settles the matter.
Enough(status) == \/ status = ev.status \/ opts.mode = "raw"
                  \/ ~NeedsReauth(status) \/ ~opts.creds

Raw ==
    /\ pc = "raw"
    /\ \E a \in Answers :
        /\ Send("captured", BodyFor(ev), Headers(ev), a)
        /\ IF a.status = 0 THEN Record(Result(0, ""))
           ELSE IF Enough(a.status) THEN Record(Result(a.status, "raw"))
           ELSE pc' = "reauth" /\ UNCHANGED results
    /\ UNCHANGED <<log, opts, pos, kept, clock, cancel, had>>

\* wsse.camera_clock_offset, asked once: the answer may change the cookies.
AskClock ==
    /\ clock' = TRUE
    /\ \E jar \in IF clock THEN {"same"} ELSE Effects :
          holds' = [holds EXCEPT !["session"] = Changed(@, jar)]

\* Without credentials this is the end.  Else the headers are made; the body of
\* an ONVIF request is signed again, for which the session asks the camera once
\* for its time; what is not an envelope raises a ValueError, and run is over.
Reauth ==
    /\ pc = "reauth"
    /\ IF ~opts.creds
       THEN Record(Result(0, "")) /\ UNCHANGED <<kept, holds, clock>>
       ELSE /\ kept' = Headers(ev)
            /\ UNCHANGED results
            /\ \/ /\ Signed(ev)
                  /\ AskClock
                  /\ pc' = IF ev.body.syntax = "soap" THEN "login" ELSE "dead"
               \/ /\ ~Signed(ev)
                  /\ pc' = "login" /\ UNCHANGED <<holds, clock>>
    /\ UNCHANGED <<log, opts, pos, cancel, sent, had, torn>>

Used == IF ev.proto = "onvif" THEN "wsse+digest" ELSE IF ev.basic THEN "basic" ELSE "digest"

\* An exception that is no RequestException.
Dies == pc' = "dead" /\ UNCHANGED <<holds, results, sent, torn>>

\* requests encodes Basic credentials in latin-1 before it sends anything.
Basic ==
    IF opts.wide THEN Dies
    ELSE \E a \in Answers :
            /\ Send("basic", LoginBody(ev), kept, a)
            /\ Record(Result(a.status, IF a.status = 0 THEN "" ELSE Used))

\* The answer that ends a Digest.
DigestEnds(a) ==
    IF a.status = 0 THEN Record(Result(0, ""))
    ELSE IF a.status = 401 THEN pc' = "fallback" /\ UNCHANGED results
    ELSE Record(Result(a.status, Used))

\* Basic when the event was captured with it.  Else Digest, of which the first
\* request has no credentials; if the refusal has a challenge, HTTPDigestAuth
\* answers it within the same call.
Login ==
    /\ pc = "login"
    /\ \/ ev.basic /\ Basic
       \/ /\ ~ev.basic
          /\ \E a \in Answers, challenged \in BOOLEAN :
                /\ challenged => NeedsReauth(a.status)
                /\ Exchange("none", Cookie(kept), LoginBody(ev), a)
                /\ IF challenged THEN pc' = "digest" /\ UNCHANGED <<results, holds, torn>>
                   ELSE CallEnds(a, "same") /\ DigestEnds(a)
    /\ UNCHANGED <<log, opts, pos, kept, clock, cancel, had>>

\* HTTPDigestAuth.handle_401.  Without a Cookie the second request gets those of
\* the challenge.  A challenge that requests cannot answer (no realm, an unknown
\* algorithm), or a user name outside latin-1, raises what is no RequestException.
Digest ==
    /\ pc = "digest"
    /\ LET challenge == sent[Len(sent)]
           cookie == IF challenge.cookie = "no" /\ challenge.jar = "set"
                     THEN "challenge" ELSE challenge.cookie
       IN \/ Dies
          \/ \E a \in Answers :
                /\ Exchange("digest", cookie, LoginBody(ev), a)
                /\ CallEnds(a, challenge.jar)
                /\ DigestEnds(a)
    /\ UNCHANGED <<log, opts, pos, kept, clock, cancel, had>>

\* "camera wanted Basic after all", with the same headers.
Fallback ==
    /\ pc = "fallback"
    /\ Basic
    /\ UNCHANGED <<log, opts, pos, kept, clock, cancel, had>>

\* Api.replay_cancel.
ReplayCancel ==
    /\ ~cancel
    /\ cancel' = TRUE
    /\ UNCHANGED <<log, opts, pc, pos, kept, holds, clock, results, sent, had, torn>>

Next == Loop \/ Due \/ Begin \/ Raw \/ Reauth \/ Login \/ Digest \/ Fallback \/ ReplayCancel

Spec == Init /\ [][Next]_vars

----------------------------------------------------------------------------
(* Properties.                                                              *)

Outcomes  == [status : Statuses \cup {0}, ok : BOOLEAN, skipped : BOOLEAN,
              used : {"", "raw", "basic", "digest", "wsse+digest"}]
Exchanges == [auth : {"captured", "none", "digest", "basic"},
              cookie : {"captured", "jar", "challenge", "no"},
              status : Statuses \cup {0}, jar : Effects, body : Bodies]

TypeOK ==
    /\ log \in Logs
    /\ opts \in Options
    /\ pc \in {"head", "due", "begin", "raw", "reauth", "login", "digest", "fallback", "ended",
              "dead"}
    /\ pos \in 0..Len(log)
    /\ holds \in [Jars -> BOOLEAN]
    /\ kept \in BOOLEAN /\ clock \in BOOLEAN /\ cancel \in BOOLEAN
    /\ had \in BOOLEAN /\ torn \in BOOLEAN
    /\ results \in Seq(Outcomes) /\ sent \in Seq(Exchanges)

\* Into the headers the credentials go, and attempts other than the captured one
\* are made, only where the operator allowed it, in auto mode only after the
\* camera has refused the captured request itself with another status than the
\* captured one.  A Digest answers a refusal; Basic is used only where it was
\* captured or right after a Digest that met a 401.  (The body of a CGI login has
\* the operator's credentials in every attempt: _body_for.)
LadderInOrder ==
    \A i \in 1..Len(sent) : sent[i].auth # "captured" =>
        /\ opts.creds /\ opts.mode # "raw"
        /\ opts.mode = "auto" =>
              /\ sent[1].auth = "captured"
              /\ NeedsReauth(sent[1].status) /\ sent[1].status # ev.status
        /\ sent[i].auth = "digest" =>
              i > 1 /\ sent[i - 1].auth = "none" /\ NeedsReauth(sent[i - 1].status)
        /\ sent[i].auth = "basic" /\ ~ev.basic =>
              i > 1 /\ sent[i - 1].auth \in {"none", "digest"} /\ sent[i - 1].status = 401

LastStatus == IF sent = << >> THEN 0 ELSE sent[Len(sent)].status
LastAuth   == IF sent = << >> THEN "" ELSE sent[Len(sent)].auth

\* What ends a replay from within: a body that cannot be signed, credentials
\* that Basic cannot encode, a challenge that Digest cannot answer.
Fatal ==
    \/ Signed(ev) /\ ev.body.syntax # "soap"
    \/ opts.wide /\ (ev.basic \/ LastStatus = 401)
    \/ LastAuth = "none" /\ NeedsReauth(LastStatus)

\* Each event gets one result, in order.  Only cancel, stop_on_error after a
\* mismatch, or in a re-authentication what is Fatal, leave events without one;
\* what cannot be replayed stops nothing, and a result is ok only if the last
\* answer had the captured status.
ResultsAccount ==
    /\ pc \in {"head", "due", "ended"} => Len(results) = pos
    /\ pc \in {"begin", "raw", "reauth", "login", "digest", "fallback", "dead"} =>
          Len(results) + 1 = pos
    /\ pc = "ended" /\ pos < Len(log) =>
          cancel \/ (opts.stop /\ ~Skipped(ev) /\ ~results[pos].ok)
    /\ pc = "dead" => opts.creds /\ opts.mode # "raw" /\ Fatal
    /\ pc \in {"head", "ended"} /\ pos > 0 =>
          (results[pos].ok <=> Skipped(ev) \/ (ev.status # 0 /\ LastStatus = ev.status))

\* "captured Cookie headers are dropped once the jar holds a cookie": of an event
\* that began with a fresh session no attempt sends the stale Cookie, unless an
\* answer to an earlier attempt of that event has cleared the session.
StaleCookieDropped ==
    \A i \in 1..Len(sent) : sent[i].cookie = "captured" =>
        ~had \/ \E j \in 1..(i - 1) : sent[j].jar = "clear"

\* A request captured without a cookie is sent without one, unless the answer to
\* an earlier one broke off and left its cookie in the bare session, or it
\* answers a Digest challenge that brought the cookie.
BareUnlessTorn ==
    \A i \in 1..Len(sent) : Client(ev) = "bare" /\ sent[i].cookie # "no" =>
        \/ torn
        \/ i > 1 /\ sent[i].auth = "digest" /\ sent[i - 1].auth = "none" /\ sent[i - 1].jar = "set"

\* What redaction takes and a replay does not give back.
Lost(e, f) ==
    /\ f.key \in SecretKeys(e.body.syntax)
    /\ \/ f.key = "secret" \/ f.deep \/ f.value = "number"
       \/ e.body.syntax \in {"list", "lines", "soap"} \/ e.proto # "cgi" \/ ~e.post

\* One token is made anew, if the body goes to an ONVIF path.
TokenLost(e) == e.body.tokens # << >> /\ (~Signed(e) \/ Len(e.body.tokens) > 1)

\* "a redacted log is still replayable", "re-auth replay still works": with
\* credentials, the bodies that go out are the same whether the log was redacted
\* or not, unless it had secrets that are no passwords, lie deeper, are numbers,
\* or are in other bodies than those of logins by CGI, or a second token; a
\* captured token is resent only before the re-authentication, or in an envelope
\* that went to no ONVIF path.
RedactedAsCaptured ==
    \A i \in 1..Len(sent) : LET e == log[pos] IN
        (opts.creds /\ ~TokenLost(e) /\ ~\E f \in e.body.fields : Lost(e, f)) =>
            \/ sent[i].body = IF sent[i].auth = "captured" THEN BodyFor(e) ELSE LoginBody(e)
            \/ sent[i].auth = "captured" /\ e.body.tokens # << >>

\* No camera is given the operator's user with a password that is not the
\* operator's, unless the two are not on one level, or the password is a number
\* or has a key that JSON's substitution does not know.
CredentialsTogether ==
    \A i \in 1..Len(sent) : \A u, p \in sent[i].body.fields :
        (u.key = "user" /\ u.value = "operator" /\ p.key \in {"password", "pass"}) =>
            p.value = "operator" \/ p.deep \/ p.value = "number"
                \/ (p.key = "pass" /\ sent[i].body.syntax = "json")

\* A re-authentication of ONVIF carries one fresh token, before all others, and
\* that in the header unless the captured one was the empty <Header/>; a captured
\* token remains beside it only if the envelope had more than one.
SignedOnce ==
    \A i \in 1..Len(sent) : (sent[i].auth # "captured" /\ Signed(ev)) =>
        LET tokens == sent[i].body.tokens
        IN /\ tokens # << >> /\ tokens[1] = "operator"
           /\ \A k \in 2..Len(tokens) : tokens[k] # "operator"
           /\ Len(tokens) > 1 => Len(ev.body.tokens) > 1
           /\ sent[i].body.header = "open" \/ ev.body.header = "empty"

\* Claimed by replay.py:4-5: "login bodies get the supplied username/password
\* substituted"; what has no password is no login.
OnlyLoginsChanged ==
    \A i \in 1..Len(sent) : (ev.proto = "cgi" /\ sent[i].body # ev.body) =>
        HasKey(ev.body, {"password", "pass"})
============================================================================
