--------------------------- MODULE ReplayerProofs ---------------------------
(***************************************************************************)
(* Proofs, for any set of logs, about Replayer and Credentials: types, one *)
(* result per event, the order of the attempts, the cookies, and what the  *)
(* bodies carry.                                                           *)
(***************************************************************************)
EXTENDS Replayer, SequenceTheorems, TLAPS

----------------------------------------------------------------------------
(* Types.                                                                   *)

\* Tokens behind the first, and tokens that are redacted, are tokens.
LEMMA TokenTypes ==
    ASSUME NEW t \in Seq(Tokens)
    PROVE  /\ Strip(t) \in Seq(Tokens) /\ <<"operator">> \o Strip(t) \in Seq(Tokens)
           /\ [i \in DOMAIN t |-> "placeholder"] \in Seq(Tokens)
           /\ Len([i \in DOMAIN t |-> "placeholder"]) = Len(t)
<1>1. Strip(t) \in Seq(Tokens)
  <2>1. CASE t = << >>
    BY <2>1 DEF Strip
  <2>2. CASE t # << >>
    BY <2>2, HeadTailProperties DEF Strip
  <2>. QED  BY <2>1, <2>2
<1>2. <<"operator">> \in Seq(Tokens)
  BY DEF Tokens
<1>3. <<"operator">> \o Strip(t) \in Seq(Tokens)
  BY <1>1, <1>2, ConcatProperties
<1>4. /\ [i \in DOMAIN t |-> "placeholder"] \in Seq(Tokens)
      /\ Len([i \in DOMAIN t |-> "placeholder"]) = Len(t)
  <2> DEFINE q == [i \in DOMAIN t |-> "placeholder"]
  <2>1. DOMAIN t = 1..Len(t) /\ Len(t) \in Nat
    BY LenProperties
  <2>2. q = [i \in 1..Len(t) |-> "placeholder"]
    BY <2>1
  <2>3. \A i \in 1..Len(t) : "placeholder" \in Tokens
    BY DEF Tokens
  <2>4. q \in Seq(Tokens)
    BY <2>1, <2>2, <2>3, IsASeq
  <2>5. Len(q) = Len(t)
    BY <2>1, <2>4, LenProperties
  <2>. QED  BY <2>4, <2>5
<1>. QED  BY <1>1, <1>3, <1>4

\* What the credential operators return is a body.
LEMMA BodyTypes ==
    ASSUME NEW b \in Bodies
    PROVE  Redact(b) \in Bodies /\ Substitute(b) \in Bodies /\ Resign(b) \in Bodies
<1>1. /\ b.syntax \in Syntaxes /\ b.header \in {"none", "open", "empty", "beside"}
      /\ b.fields \in SUBSET Fields /\ b.tokens \in Seq(Tokens)
  BY DEF Bodies
<1>2. \A f \in Fields : Put("placeholder", f) \in Fields /\ Put("operator", f) \in Fields
  BY DEF Put, Fields
<1>3. Redact(b) \in Bodies
  <2> DEFINE new == {IF f.key \in SecretKeys(b.syntax) THEN Put("placeholder", f) ELSE f :
                        f \in b.fields}
             hidden == IF b.syntax = "soap" THEN [i \in DOMAIN b.tokens |-> "placeholder"]
                       ELSE b.tokens
  <2>1. new \in SUBSET Fields /\ hidden \in Seq(Tokens)
    BY <1>1, <1>2, TokenTypes
  <2>2. Redact(b) = [b EXCEPT !.fields = new, !.tokens = hidden]
    BY DEF Redact, Bodies
  <2> HIDE DEF new, hidden
  <2>. QED  BY <2>1, <2>2 DEF Bodies
<1>4. Substitute(b) \in Bodies
  <2> DEFINE new == {IF Replaced(b, f) THEN Put("operator", f) ELSE f : f \in b.fields}
  <2>1. new \in SUBSET Fields
    BY <1>1, <1>2
  <2>2. Substitute(b) = [b EXCEPT !.fields = new]
    BY DEF Substitute
  <2> HIDE DEF new
  <2>. QED  BY <2>1, <2>2 DEF Bodies
<1>5. Resign(b) \in Bodies
  <2> DEFINE new == <<"operator">> \o Strip(b.tokens)
             head == IF b.header = "none" THEN "open"
                     ELSE IF b.header = "empty" THEN "beside" ELSE b.header
  <2>1. new \in Seq(Tokens) /\ head \in {"none", "open", "empty", "beside"}
    BY <1>1, TokenTypes
  <2>2. Resign(b) = [b EXCEPT !.header = head, !.tokens = new]
    BY DEF Resign, Bodies
  <2> HIDE DEF new, head
  <2>. QED  BY <2>1, <2>2 DEF Bodies
<1>. QED  BY <1>3, <1>4, <1>5

\* The event in hand is the captured one but for the body, if that was redacted.
LEMMA EventInHand ==
    ASSUME log \in Logs, pos \in 1..Len(log)
    PROVE  /\ log[pos] \in Events /\ Captured(log[pos].body)
           /\ ev.proto = log[pos].proto /\ ev.status = log[pos].status
           /\ ev.cookie = log[pos].cookie /\ ev.basic = log[pos].basic
           /\ ev.post = log[pos].post
           /\ ev.body = IF opts.redacted THEN Redact(log[pos].body) ELSE log[pos].body
           /\ ev.body \in Bodies
<1>1. log[pos] \in Events /\ Captured(log[pos].body)
  BY LogsAssumption, ElementOfSeq
<1>2. log[pos].body \in Bodies
  BY <1>1 DEF Events
<1>. QED  BY <1>1, <1>2, BodyTypes DEF ev, Loaded, Events

LEMMA EventTypes ==
    ASSUME log \in Logs, pos \in 1..Len(log)
    PROVE  /\ ev.proto \in {"cgi", "onvif", "rtsp"} /\ ev.status \in Statuses \cup {0}
           /\ ev.cookie \in {"no", "sent", "set"} /\ ev.basic \in BOOLEAN
           /\ ev.post \in BOOLEAN /\ ev.body \in Bodies
           /\ BodyFor(ev) \in Bodies /\ LoginBody(ev) \in Bodies
<1>1. /\ ev.proto \in {"cgi", "onvif", "rtsp"} /\ ev.status \in Statuses \cup {0}
      /\ ev.cookie \in {"no", "sent", "set"} /\ ev.basic \in BOOLEAN
      /\ ev.post \in BOOLEAN /\ ev.body \in Bodies
  BY EventInHand DEF Events
<1>. QED  BY <1>1, BodyTypes DEF BodyFor, LoginBody

\* While an event is in hand there is one.
InHand == {"begin", "raw", "reauth", "login", "digest", "fallback", "dead"}

\* What a Digest answers: a refusal of a request without credentials.
Challenged == /\ sent # << >> /\ sent[Len(sent)].auth = "none"
              /\ NeedsReauth(sent[Len(sent)].status)

Types == /\ TypeOK
         /\ pc \in InHand => pos >= 1
         /\ pc = "due" => pos < Len(log)
         /\ pc = "digest" => Challenged

LEMMA Positions ==
    ASSUME Types
    PROVE  /\ Len(log) \in Nat /\ pos \in 0..Len(log)
           /\ pc \in InHand => pos \in 1..Len(log)
<1>1. log \in Seq(Events)
  BY LogsAssumption DEF Types, TypeOK
<1>2. Len(log) \in Nat
  BY <1>1, LenProperties
<1>3. pos \in 0..Len(log) /\ (pc \in InHand => pos >= 1)
  BY DEF Types, TypeOK
<1>. QED  BY <1>2, <1>3

\* The exchange that an attempt adds.
LEMMA ExchangeAppends ==
    ASSUME TypeOK, NEW auth \in {"captured", "none", "digest", "basic"},
           NEW cookie \in {"captured", "jar", "challenge", "no"}, NEW body \in Bodies,
           NEW a \in Answers, Exchange(auth, cookie, body, a)
    PROVE  /\ sent' \in Seq(Exchanges)
           /\ Len(sent) \in Nat /\ Len(sent') = Len(sent) + 1 /\ sent' # << >>
           /\ \A i \in 1..Len(sent) : sent'[i] = sent[i]
           /\ sent'[Len(sent) + 1].auth = auth /\ sent'[Len(sent) + 1].cookie = cookie
           /\ sent'[Len(sent) + 1].status = a.status /\ sent'[Len(sent) + 1].jar = a.jar
           /\ sent'[Len(sent) + 1].body = body
           /\ LastStatus' = a.status /\ LastAuth' = auth
<1> DEFINE x == [auth |-> auth, cookie |-> cookie, body |-> body,
                 status |-> a.status, jar |-> a.jar]
<1>1. x \in Exchanges
  BY DEF Exchanges, Answers
<1>2. sent \in Seq(Exchanges) /\ sent' = Append(sent, x)
  BY DEF TypeOK, Exchange
<1>3. /\ x.auth = auth /\ x.cookie = cookie /\ x.status = a.status /\ x.jar = a.jar
      /\ x.body = body
  OBVIOUS
<1> HIDE DEF x
<1>4. Len(sent) \in Nat
  BY <1>2, LenProperties
<1>5. /\ sent' \in Seq(Exchanges) /\ Len(sent') = Len(sent) + 1 /\ sent' # << >>
      /\ \A i \in 1..Len(sent) : sent'[i] = sent[i]
      /\ sent'[Len(sent) + 1] = x
  BY <1>1, <1>2, AppendProperties
<1>6. LastStatus' = a.status /\ LastAuth' = auth
  BY <1>3, <1>4, <1>5 DEF LastStatus, LastAuth
<1>. QED  BY <1>3, <1>4, <1>5, <1>6

LEMMA CallTypes ==
    ASSUME TypeOK, NEW a \in Answers, NEW earlier, CallEnds(a, earlier)
    PROVE  holds' \in [Jars -> BOOLEAN] /\ torn' \in BOOLEAN
<1>1. Client(ev) \in Jars /\ holds \in [Jars -> BOOLEAN]
  BY DEF Client, Jars, TypeOK
<1>2. holds[Client(ev)] \in BOOLEAN /\ a.arrived \in BOOLEAN
  BY <1>1 DEF Answers
<1>3. holds' \in [Jars -> BOOLEAN]
  <2> DEFINE v == IF Client(ev) = "bare" /\ a.status # 0 THEN FALSE
                  ELSE IF a.arrived THEN Changed(Changed(holds[Client(ev)], earlier), a.jar)
                  ELSE holds[Client(ev)]
  <2>1. v \in BOOLEAN
    BY <1>2 DEF Changed
  <2>2. holds' = [holds EXCEPT ![Client(ev)] = v]
    BY DEF CallEnds, JarsAfter
  <2> HIDE DEF v
  <2>. QED  BY <1>1, <2>1, <2>2
<1>4. torn' \in BOOLEAN
  BY DEF CallEnds, TypeOK
<1>. QED  BY <1>3, <1>4

\* The Cookie that goes out.
LEMMA CookieTypes ==
    ASSUME NEW keep \in BOOLEAN
    PROVE  Cookie(keep) \in {"captured", "jar", "challenge", "no"}
  BY DEF Cookie

\* A result.
LEMMA RecordTypes ==
    ASSUME TypeOK, NEW r \in Outcomes, Record(r)
    PROVE  results' \in Seq(Outcomes) /\ pc' \in {"head", "ended"}
<1>1. results \in Seq(Outcomes)
  BY DEF TypeOK
<1>. QED  BY <1>1, AppendProperties DEF Record

LEMMA ResultTypes ==
    ASSUME NEW s \in Statuses \cup {0},
           NEW u \in {"", "raw", "basic", "digest", "wsse+digest"}
    PROVE  Result(s, u) \in Outcomes /\ Skip \in Outcomes
  BY DEF Result, Skip, Outcomes

LEMMA LoopKeepsTypes ==
    ASSUME Types, Loop \/ Due \/ Begin \/ ReplayCancel
    PROVE  Types'
<1> USE Positions DEF Types, TypeOK, InHand
<1>1. CASE Loop
  BY <1>1 DEF Loop
<1>2. CASE Due
  <2>1. \/ pc' = "ended" /\ UNCHANGED <<pos, sent, had>>
        \/ pc' = "begin" /\ pos' = pos + 1 /\ sent' = << >> /\ had' = holds["session"]
    BY <1>2 DEF Due
  <2>2. pos + 1 \in 0..Len(log) /\ pos + 1 >= 1
    BY <1>2 DEF Due
  <2>3. << >> \in Seq(Exchanges) /\ holds["session"] \in BOOLEAN
    BY DEF Jars
  <2>4. UNCHANGED <<log, opts, kept, holds, clock, results, cancel, torn>>
    BY <1>2 DEF Due
  <2>. QED  BY <2>1, <2>2, <2>3, <2>4
<1>3. CASE Begin
  <2>1. CASE Skipped(ev)
    <3>1. Record(Skip)
      BY <1>3, <2>1 DEF Begin
    <3>2. results' \in Seq(Outcomes) /\ pc' \in {"head", "ended"}
      BY <3>1, RecordTypes, ResultTypes DEF Statuses
    <3>. QED  BY <1>3, <3>2 DEF Begin
  <2>2. CASE ~Skipped(ev)
    BY <1>3, <2>2 DEF Begin
  <2>. QED  BY <2>1, <2>2
<1>4. CASE ReplayCancel
  BY <1>4 DEF ReplayCancel, Challenged
<1>. QED  BY <1>1, <1>2, <1>3, <1>4

LEMMA RawKeepsTypes == ASSUME Types, Raw PROVE Types'
<1>1. pos \in 1..Len(log) /\ TypeOK /\ log \in Logs
  BY Positions DEF Raw, Types, TypeOK, InHand
<1>2. PICK a \in Answers :
        /\ Send("captured", BodyFor(ev), Headers(ev), a)
        /\ IF a.status = 0 THEN Record(Result(0, ""))
           ELSE IF Enough(a.status) THEN Record(Result(a.status, "raw"))
           ELSE pc' = "reauth" /\ UNCHANGED results
  BY DEF Raw
<1>3. Headers(ev) \in BOOLEAN
  BY DEF Headers
<1>4. sent' \in Seq(Exchanges) /\ holds' \in [Jars -> BOOLEAN] /\ torn' \in BOOLEAN
  BY <1>1, <1>2, <1>3, EventTypes, CookieTypes, ExchangeAppends, CallTypes DEF Send
<1>5. results' \in Seq(Outcomes) /\ pc' \in {"head", "ended", "reauth"}
  <2>1. a.status \in Statuses \cup {0}
    BY <1>2 DEF Answers
  <2>2. Result(0, "") \in Outcomes /\ Result(a.status, "raw") \in Outcomes
    BY <2>1, ResultTypes
  <2>3. results \in Seq(Outcomes)
    BY <1>1 DEF TypeOK
  <2>. QED  BY <1>1, <1>2, <2>2, <2>3, RecordTypes
<1>6. UNCHANGED <<log, opts, pos, kept, clock, cancel, had>>
  BY DEF Raw
<1>. QED  BY <1>1, <1>4, <1>5, <1>6 DEF Types, TypeOK, InHand

LEMMA ReauthKeepsTypes == ASSUME Types, Reauth PROVE Types'
<1>1. pos \in 1..Len(log) /\ TypeOK /\ log \in Logs
  BY Positions DEF Reauth, Types, TypeOK, InHand
<1>2. UNCHANGED <<log, opts, pos, cancel, sent, had, torn>>
  BY DEF Reauth
<1>3. CASE ~opts.creds
  <2>1. Record(Result(0, "")) /\ UNCHANGED <<kept, holds, clock>>
    BY <1>3 DEF Reauth
  <2>2. results' \in Seq(Outcomes) /\ pc' \in {"head", "ended"}
    BY <1>1, <2>1, RecordTypes, ResultTypes DEF Statuses
  <2>. QED  BY <1>1, <1>2, <2>1, <2>2 DEF Types, TypeOK, InHand
<1>4. CASE opts.creds
  <2>1. kept' \in BOOLEAN /\ UNCHANGED results /\ pc' \in {"login", "dead"}
    BY <1>4 DEF Reauth, Headers
  <2>2. holds' \in [Jars -> BOOLEAN] /\ clock' \in BOOLEAN
    <3>1. UNCHANGED <<holds, clock>> \/ AskClock
      BY <1>4 DEF Reauth
    <3>2. ASSUME NEW jar, holds' = [holds EXCEPT !["session"] = Changed(@, jar)]
          PROVE  holds' \in [Jars -> BOOLEAN]
      <4>1. holds["session"] \in BOOLEAN /\ holds \in [Jars -> BOOLEAN]
        BY <1>1 DEF TypeOK, Jars
      <4>2. Changed(holds["session"], jar) \in BOOLEAN
        BY <4>1 DEF Changed
      <4>. QED  BY <3>2, <4>1, <4>2
    <3>. QED  BY <1>1, <3>1, <3>2 DEF AskClock, TypeOK
  <2>. QED  BY <1>1, <1>2, <2>1, <2>2 DEF Types, TypeOK, InHand
<1>. QED  BY <1>3, <1>4

\* A re-authentication dies, is challenged, makes a call, or answers a challenge.
Ends(a, auth) ==
    \/ \E u \in {"", Used} : Record(Result(a.status, u))
    \/ a.status = 401 /\ auth # "basic" /\ pc' = "fallback" /\ UNCHANGED results

AuthDies ==
    /\ Dies
    /\ pc = "digest" \/ (opts.wide /\ (ev.basic \/ pc = "fallback"))

AuthChallenged ==
    /\ pc = "login"
    /\ \E a \in Answers :
          NeedsReauth(a.status) /\ Exchange("none", Cookie(kept), LoginBody(ev), a)
    /\ pc' = "digest" /\ UNCHANGED <<results, holds, torn>>

AuthCalls ==
    /\ pc \in {"login", "fallback"}
    /\ \E a \in Answers, auth \in {"none", "basic"} :
          /\ auth = "basic" => ev.basic \/ pc = "fallback"
          /\ Send(auth, LoginBody(ev), kept, a) /\ Ends(a, auth)

Answering ==
    IF sent[Len(sent)].cookie = "no" /\ sent[Len(sent)].jar = "set"
    THEN "challenge" ELSE sent[Len(sent)].cookie

AuthAnswers ==
    /\ pc = "digest"
    /\ \E a \in Answers :
          /\ Exchange("digest", Answering, LoginBody(ev), a)
          /\ CallEnds(a, sent[Len(sent)].jar) /\ Ends(a, "digest")

LEMMA AuthCases ==
    ASSUME Login \/ Digest \/ Fallback
    PROVE  /\ AuthDies \/ AuthChallenged \/ AuthCalls \/ AuthAnswers
           /\ UNCHANGED <<log, opts, pos, kept, clock, cancel, had>>
           /\ pc \in {"login", "digest", "fallback"} /\ pc \in InHand \ {"begin"}
           /\ ev' = ev
<1>1. /\ UNCHANGED <<log, opts, pos, kept, clock, cancel, had>>
      /\ pc \in {"login", "digest", "fallback"}
  BY DEF Login, Digest, Fallback
<1>2. ASSUME Basic, pc \in {"login", "fallback"}, ev.basic \/ pc = "fallback"
      PROVE  AuthDies \/ AuthCalls
  <2>1. CASE opts.wide
    BY <1>2, <2>1 DEF Basic, AuthDies
  <2>2. CASE ~opts.wide
    <3>1. PICK a \in Answers :
            /\ Send("basic", LoginBody(ev), kept, a)
            /\ Record(Result(a.status, IF a.status = 0 THEN "" ELSE Used))
      BY <1>2, <2>2 DEF Basic
    <3>2. Ends(a, "basic")
      BY <3>1 DEF Ends
    <3>. QED  BY <1>2, <3>1, <3>2 DEF AuthCalls
  <2>. QED  BY <2>1, <2>2
<1>3. \A a, auth : DigestEnds(a) /\ auth # "basic" => Ends(a, auth)
  BY DEF DigestEnds, Ends
<1>4. ASSUME Login PROVE AuthDies \/ AuthChallenged \/ AuthCalls
  <2>1. CASE ev.basic
    BY <1>1, <1>2, <1>4, <2>1 DEF Login
  <2>2. CASE ~ev.basic
    <3>1. PICK a \in Answers, challenged \in BOOLEAN :
            /\ challenged => NeedsReauth(a.status)
            /\ Exchange("none", Cookie(kept), LoginBody(ev), a)
            /\ IF challenged THEN pc' = "digest" /\ UNCHANGED <<results, holds, torn>>
               ELSE CallEnds(a, "same") /\ DigestEnds(a)
      BY <1>4, <2>2 DEF Login
    <3>2. pc = "login"
      BY <1>4 DEF Login
    <3>3. CASE challenged
      BY <3>1, <3>2, <3>3 DEF AuthChallenged
    <3>4. CASE ~challenged
      BY <1>3, <3>1, <3>2, <3>4 DEF AuthCalls, Send
    <3>. QED  BY <3>3, <3>4
  <2>. QED  BY <2>1, <2>2
<1>5. ASSUME Digest PROVE AuthDies \/ AuthAnswers
  BY <1>3, <1>5 DEF Digest, AuthDies, AuthAnswers, Answering
<1>6. ASSUME Fallback PROVE AuthDies \/ AuthCalls
  BY <1>1, <1>2, <1>6 DEF Fallback
<1>. QED  BY <1>1, <1>4, <1>5, <1>6 DEF InHand, ev, Loaded

\* What a Digest answers is typed.
LEMMA AnsweringTypes ==
    ASSUME Types, pc = "digest"
    PROVE  /\ Answering \in {"captured", "jar", "challenge", "no"}
           /\ sent[Len(sent)].jar \in Effects /\ Len(sent) \in 1..Len(sent)
<1>1. sent \in Seq(Exchanges) /\ sent # << >>
  BY DEF Types, TypeOK, Challenged
<1>2. Len(sent) \in Nat /\ Len(sent) # 0
  BY <1>1, LenProperties, EmptySeq
<1>3. Len(sent) \in 1..Len(sent)
  BY <1>2
<1>4. sent[Len(sent)] \in Exchanges
  BY <1>1, <1>3, ElementOfSeq
<1>. QED  BY <1>3, <1>4 DEF Answering, Exchanges

\* Every exchange of a re-authentication sends the login body.
LEMMA AuthSends ==
    ASSUME Types, Login \/ Digest \/ Fallback
    PROVE  \/ AuthDies /\ UNCHANGED sent
           \/ \E a \in Answers, auth \in {"none", "digest", "basic"},
                 cookie \in {"captured", "jar", "challenge", "no"} :
                 Exchange(auth, cookie, LoginBody(ev), a)
<1>1. kept \in BOOLEAN
  BY DEF Types, TypeOK
<1>2. CASE AuthDies
  BY <1>2 DEF AuthDies, Dies
<1>3. CASE AuthChallenged \/ AuthCalls
  BY <1>1, <1>3, CookieTypes DEF AuthChallenged, AuthCalls, Send
<1>4. CASE AuthAnswers
  BY <1>4, AnsweringTypes DEF AuthAnswers
<1>. QED  BY <1>2, <1>3, <1>4, AuthCases

LEMMA LoginKeepsTypes == ASSUME Types, Login \/ Digest \/ Fallback PROVE Types'
<1>1. /\ UNCHANGED <<log, opts, pos, kept, clock, cancel, had>> /\ pc \in InHand
      /\ ev' = ev /\ (AuthDies \/ AuthChallenged \/ AuthCalls \/ AuthAnswers)
  BY AuthCases
<1>2. pos \in 1..Len(log) /\ TypeOK /\ log \in Logs /\ kept \in BOOLEAN
  BY <1>1, Positions DEF Types, TypeOK
<1>3. LoginBody(ev) \in Bodies /\ results \in Seq(Outcomes)
  BY <1>2, EventTypes DEF TypeOK
<1>4. sent' \in Seq(Exchanges)
  <2>1. CASE UNCHANGED sent
    BY <1>2, <2>1 DEF TypeOK
  <2>2. CASE \E a \in Answers, auth \in {"none", "digest", "basic"},
               cookie \in {"captured", "jar", "challenge", "no"} :
               Exchange(auth, cookie, LoginBody(ev), a)
    BY <1>2, <1>3, <2>2, ExchangeAppends
  <2>. QED  BY <2>1, <2>2, AuthSends
<1>5. holds' \in [Jars -> BOOLEAN] /\ torn' \in BOOLEAN
  <2>1. CASE AuthDies \/ AuthChallenged
    BY <1>2, <2>1 DEF AuthDies, Dies, AuthChallenged, TypeOK
  <2>2. CASE AuthCalls \/ AuthAnswers
    BY <1>2, <2>2, CallTypes DEF AuthCalls, AuthAnswers, Send
  <2>. QED  BY <1>1, <2>1, <2>2
<1>6. /\ results' \in Seq(Outcomes)
      /\ \/ pc' \in {"head", "ended", "fallback", "dead"}
         \/ (AuthChallenged /\ pc' = "digest")
  <2>1. CASE AuthDies \/ AuthChallenged
    BY <1>3, <2>1 DEF AuthDies, Dies, AuthChallenged
  <2>2. ASSUME NEW a \in Answers, NEW auth, Ends(a, auth)
        PROVE  results' \in Seq(Outcomes) /\ pc' \in {"head", "ended", "fallback"}
    <3>1. a.status \in Statuses \cup {0} /\ Used \in {"wsse+digest", "basic", "digest"}
      BY DEF Answers, Used
    <3>2. \A u \in {"", Used} : Result(a.status, u) \in Outcomes
      BY <3>1, ResultTypes
    <3>. QED  BY <1>2, <1>3, <2>2, <3>2, RecordTypes DEF Ends
  <2>3. CASE AuthCalls \/ AuthAnswers
    BY <2>2, <2>3 DEF AuthCalls, AuthAnswers
  <2>. QED  BY <1>1, <2>1, <2>3
<1>7. AuthChallenged => Challenged'
  <2> SUFFICES ASSUME AuthChallenged PROVE Challenged'
    OBVIOUS
  <2>1. PICK a \in Answers :
          NeedsReauth(a.status) /\ Exchange("none", Cookie(kept), LoginBody(ev), a)
    BY DEF AuthChallenged
  <2>2. /\ sent' # << >> /\ Len(sent') = Len(sent) + 1
        /\ sent'[Len(sent) + 1].auth = "none" /\ sent'[Len(sent) + 1].status = a.status
    BY <1>2, <1>3, <2>1, CookieTypes, ExchangeAppends
  <2>. QED  BY <2>1, <2>2 DEF Challenged, NeedsReauth
<1>8. TypeOK'
  BY <1>1, <1>2, <1>4, <1>5, <1>6 DEF TypeOK
<1>9. pos' >= 1 /\ pc' # "due" /\ (pc' = "digest" => Challenged')
  BY <1>1, <1>2, <1>6, <1>7
<1>. QED  BY <1>8, <1>9 DEF Types

LEMMA InitTypes == ASSUME Init PROVE Types
<1>1. log \in Logs /\ Len(log) \in Nat
  BY LogsAssumption, LenProperties DEF Init
<1>2. pos \in 0..Len(log) /\ pc \notin InHand /\ pc # "due" /\ pc # "digest"
  BY <1>1 DEF Init, InHand
<1>3. << >> \in Seq(Outcomes) /\ << >> \in Seq(Exchanges)
  OBVIOUS
<1>4. TypeOK
  BY <1>2, <1>3 DEF Init, TypeOK
<1>. QED  BY <1>2, <1>4 DEF Types

LEMMA TypesStep == Types /\ [Next]_vars => Types'
<1> SUFFICES ASSUME Types, [Next]_vars PROVE Types'
  OBVIOUS
<1>1. CASE UNCHANGED vars
  BY <1>1 DEF vars, Types, TypeOK, Challenged
<1>2. CASE Next
  BY <1>2, LoopKeepsTypes, RawKeepsTypes, ReauthKeepsTypes, LoginKeepsTypes DEF Next
<1>. QED  BY <1>1, <1>2

\* Types of a replay (replay.py: Replayer.run, _replay_one), for any logs.
THEOREM TypeCorrect == Spec => []TypeOK
<1>1. Types => TypeOK
  BY DEF Types
<1>. QED  BY <1>1, InitTypes, TypesStep, PTL DEF Spec

----------------------------------------------------------------------------
(* One result per event.                                                    *)

\* The last answer is the captured one.
Agrees == Skipped(ev) \/ (ev.status # 0 /\ LastStatus = ev.status)

\* Why the replay stopped at an event.
Stopped == cancel \/ (opts.stop /\ ~Skipped(ev) /\ ~results[pos].ok)

Account ==
    /\ pc \in {"head", "due", "ended"} => Len(results) = pos
    /\ pc \in InHand => Len(results) + 1 = pos
    /\ pc = "ended" /\ pos < Len(log) => Stopped
    /\ pc \in {"head", "due", "ended"} /\ pos > 0 => (results[pos].ok <=> Agrees)
    /\ pc \in InHand \ {"begin"} => ~Skipped(ev)
    /\ pc \in {"begin", "raw"} => sent = << >>
    /\ pc = "reauth" /\ ~opts.creds => sent = << >>
    /\ pc \in {"reauth", "login", "digest", "fallback"} => opts.mode # "raw"
    /\ pc \in {"login", "digest", "fallback"} => opts.creds
    /\ pc = "fallback" => LastStatus = 401
    /\ pc = "dead" => opts.creds /\ opts.mode # "raw" /\ Fatal

\* What is recorded is the result of the event in hand.
LEMMA RecordAccounts ==
    ASSUME Types, Account, pc \in InHand, NEW r \in Outcomes, Record(r),
           UNCHANGED <<log, opts, pos, cancel>>,
           r.ok <=> Agrees', r.skipped <=> Skipped(ev)
    PROVE  Account'
<1>1. /\ Len(results) + 1 = pos /\ results \in Seq(Outcomes) /\ Len(results) \in Nat
      /\ pos \in Nat
  <2>1. results \in Seq(Outcomes)
    BY DEF Types, TypeOK
  <2>. QED  BY <2>1, Positions, LenProperties DEF Account
<1>2. /\ Len(results') = Len(results) + 1 /\ results'[Len(results) + 1] = r
  BY <1>1, AppendProperties DEF Record
<1>3. Len(results') = pos' /\ results'[pos'] = r
  BY <1>1, <1>2
<1>4. ev' = ev
  BY DEF ev, Loaded
<1>5. pc' = (IF Stops(r) THEN "ended" ELSE "head")
  BY DEF Record
<1>6. pc' = "ended" => Stopped'
  BY <1>3, <1>4, <1>5 DEF Stops, Stopped
<1>. QED  BY <1>3, <1>4, <1>5, <1>6 DEF Account, InHand

LEMMA LoopAccounts ==
    ASSUME Types, Account, Loop \/ Due \/ Begin \/ ReplayCancel
    PROVE  Account'
<1>1. CASE Loop
  <2>1. UNCHANGED <<log, opts, pos, results, cancel, sent>>
    BY <1>1 DEF Loop
  <2>2. ev' = ev /\ Agrees' = Agrees
    BY <2>1 DEF ev, Loaded, Agrees, LastStatus
  <2>3. pc = "head" /\ (pc' = "due" \/ (pc' = "ended" /\ (cancel \/ pos = Len(log))))
    BY <1>1 DEF Loop
  <2>4. pos < Len(log) => pos # Len(log)
    BY Positions
  <2>. QED  BY <2>1, <2>2, <2>3, <2>4 DEF Account, Stopped, InHand
<1>2. CASE Due
  <2>1. CASE pc' = "ended"
    <3>1. cancel /\ UNCHANGED <<log, opts, pos, results, cancel, sent>>
      BY <1>2, <2>1 DEF Due
    <3>2. ev' = ev /\ Agrees' = Agrees
      BY <3>1 DEF ev, Loaded, Agrees, LastStatus
    <3>. QED  BY <1>2, <2>1, <3>1, <3>2 DEF Due, Account, Stopped, InHand
  <2>2. CASE pc' # "ended"
    <3>1. pc' = "begin" /\ pos' = pos + 1 /\ sent' = << >> /\ results' = results
      BY <1>2, <2>2 DEF Due
    <3>2. Len(results) = pos
      BY <1>2 DEF Due, Account
    <3>. QED  BY <3>1, <3>2 DEF Account, InHand
  <2>. QED  BY <2>1, <2>2
<1>3. CASE Begin
  <2>1. UNCHANGED <<log, opts, pos, sent, cancel>> /\ pc = "begin"
    BY <1>3 DEF Begin
  <2>2. ev' = ev
    BY <2>1 DEF ev, Loaded
  <2>3. CASE Skipped(ev)
    <3>1. Record(Skip) /\ Skip \in Outcomes /\ Skip.ok = TRUE /\ Skip.skipped = TRUE
      BY <1>3, <2>3 DEF Begin, Skip, Outcomes, Statuses
    <3>2. Agrees'
      BY <2>2, <2>3 DEF Agrees
    <3>. QED  BY <2>1, <2>3, <3>1, <3>2, RecordAccounts DEF InHand
  <2>4. CASE ~Skipped(ev)
    <3>1. /\ pc' \in {"raw", "reauth"} /\ results' = results
          /\ pc' = "reauth" => opts.mode # "raw"
      BY <1>3, <2>4 DEF Begin
    <3>. QED  BY <2>1, <2>2, <2>4, <3>1 DEF Account, InHand
  <2>. QED  BY <2>3, <2>4
<1>4. CASE ReplayCancel
  <2>1. UNCHANGED <<log, opts, pos, pc, results, sent>> /\ cancel'
    BY <1>4 DEF ReplayCancel
  <2>2. ev' = ev /\ Agrees' = Agrees
    BY <2>1 DEF ev, Loaded, Agrees, LastStatus
  <2>3. Fatal' = Fatal /\ LastStatus' = LastStatus
    BY <2>1, <2>2 DEF Fatal, LastStatus, LastAuth, Signed, NeedsReauth
  <2>. QED  BY <2>1, <2>2, <2>3 DEF Account, Stopped
<1>. QED  BY <1>1, <1>2, <1>3, <1>4

\* An answer's result is ok when it agrees with the captured one.
LEMMA AnswerAgrees ==
    ASSUME Types, Account, pc \in InHand \ {"begin"}, NEW s \in Statuses \cup {0},
           NEW u \in {"", "raw", "basic", "digest", "wsse+digest"},
           UNCHANGED <<log, opts, pos, cancel>>, LastStatus' = s, Record(Result(s, u))
    PROVE  Account'
<1>1. ev' = ev /\ ~Skipped(ev)
  BY DEF ev, Loaded, Account
<1>2. /\ Result(s, u).ok = (s # 0 /\ s = ev.status) /\ Result(s, u).skipped = FALSE
  BY DEF Result
<1>3. Result(s, u).ok <=> Agrees'
  BY <1>1, <1>2 DEF Agrees
<1>4. Result(s, u) \in Outcomes
  BY ResultTypes
<1>. QED  BY <1>1, <1>2, <1>3, <1>4, RecordAccounts

LEMMA RawAccounts == ASSUME Types, Account, Raw PROVE Account'
<1>1. PICK a \in Answers :
        /\ Send("captured", BodyFor(ev), Headers(ev), a)
        /\ IF a.status = 0 THEN Record(Result(0, ""))
           ELSE IF Enough(a.status) THEN Record(Result(a.status, "raw"))
           ELSE pc' = "reauth" /\ UNCHANGED results
  BY DEF Raw
<1>2. /\ UNCHANGED <<log, opts, pos, cancel>> /\ pc = "raw" /\ pc \in InHand \ {"begin"}
      /\ a.status \in Statuses \cup {0} /\ LastStatus' = a.status /\ ev' = ev
  <2>1. pos \in 1..Len(log) /\ TypeOK /\ log \in Logs /\ Headers(ev) \in BOOLEAN
    BY Positions DEF Raw, Types, TypeOK, InHand, Headers
  <2>2. /\ BodyFor(ev) \in Bodies /\ Exchange("captured", Cookie(Headers(ev)), BodyFor(ev), a)
        /\ Cookie(Headers(ev)) \in {"captured", "jar", "challenge", "no"}
    BY <1>1, <2>1, EventTypes, CookieTypes DEF Send
  <2>3. LastStatus' = a.status
    BY <2>1, <2>2, ExchangeAppends
  <2>. QED  BY <1>1, <2>3 DEF Raw, InHand, Answers, ev, Loaded
<1>3. CASE \E u \in {"", "raw"} : Record(Result(a.status, u))
  BY <1>2, <1>3, AnswerAgrees
<1>4. CASE ~Enough(a.status) /\ pc' = "reauth" /\ results' = results
  <2>1. opts.creds /\ opts.mode # "raw"
    BY <1>4 DEF Enough
  <2>. QED  BY <1>2, <1>4, <2>1 DEF Account, InHand
<1>. QED  BY <1>1, <1>3, <1>4

LEMMA ReauthAccounts == ASSUME Types, Account, Reauth PROVE Account'
<1>1. /\ UNCHANGED <<log, opts, pos, cancel, sent>> /\ pc = "reauth"
      /\ pc \in InHand \ {"begin"} /\ ev' = ev
  BY DEF Reauth, InHand, ev, Loaded
<1>2. CASE ~opts.creds
  <2>1. Record(Result(0, "")) /\ sent' = << >>
    BY <1>1, <1>2 DEF Reauth, Account
  <2>2. LastStatus' = 0
    BY <2>1 DEF LastStatus
  <2>. QED  BY <1>1, <2>1, <2>2, AnswerAgrees DEF Statuses
<1>3. CASE opts.creds
  <2>1. /\ pc' \in {"login", "dead"} /\ results' = results
        /\ pc' = "dead" => Signed(ev) /\ ev.body.syntax # "soap"
    BY <1>3 DEF Reauth
  <2>2. pc' = "dead" => Fatal'
    BY <1>1, <2>1 DEF Fatal, Signed
  <2>. QED  BY <1>1, <1>3, <2>1, <2>2 DEF Account, InHand
<1>. QED  BY <1>2, <1>3

LEMMA LoginAccounts ==
    ASSUME Types, Account, Login \/ Digest \/ Fallback
    PROVE  Account'
<1>1. /\ UNCHANGED <<log, opts, pos, kept, clock, cancel, had>> /\ pc \in InHand \ {"begin"}
      /\ pc \in {"login", "digest", "fallback"} /\ ev' = ev
      /\ (AuthDies \/ AuthChallenged \/ AuthCalls \/ AuthAnswers)
  BY AuthCases
<1>2. /\ TypeOK /\ kept \in BOOLEAN /\ LoginBody(ev) \in Bodies
      /\ opts.creds /\ opts.mode # "raw"
  BY <1>1, Positions, EventTypes DEF Types, TypeOK, Account
<1>3. ASSUME NEW a \in Answers, NEW auth, Ends(a, auth), LastStatus' = a.status
      PROVE  Account'
  <2>1. a.status \in Statuses \cup {0} /\ Used \in {"wsse+digest", "basic", "digest"}
    BY DEF Answers, Used
  <2>2. CASE \E u \in {"", Used} : Record(Result(a.status, u))
    BY <1>1, <1>3, <2>1, <2>2, AnswerAgrees
  <2>3. CASE a.status = 401 /\ pc' = "fallback" /\ UNCHANGED results
    BY <1>1, <1>2, <1>3, <2>3 DEF Account, InHand
  <2>. QED  BY <1>3, <2>2, <2>3 DEF Ends
<1>4. CASE AuthDies
  <2>1. pc' = "dead" /\ UNCHANGED <<results, sent>>
    BY <1>4 DEF AuthDies, Dies
  <2>2. Fatal'
    <3>1. CASE pc = "digest"
      <4>1. LastAuth = "none" /\ NeedsReauth(LastStatus)
        BY <3>1 DEF Types, Challenged, LastAuth, LastStatus
      <4>. QED  BY <2>1, <4>1 DEF Fatal, LastAuth, LastStatus, NeedsReauth
    <3>2. CASE pc # "digest"
      <4>1. opts.wide /\ (ev.basic \/ LastStatus = 401)
        BY <1>4, <3>2 DEF AuthDies, Account
      <4>. QED  BY <1>1, <2>1, <4>1 DEF Fatal, LastStatus
    <3>. QED  BY <3>1, <3>2
  <2>. QED  BY <1>1, <1>2, <2>1, <2>2 DEF Account, InHand
<1>5. CASE AuthChallenged
  BY <1>1, <1>2, <1>5 DEF AuthChallenged, Account, InHand
<1>6. CASE AuthCalls
  BY <1>2, <1>3, <1>6, CookieTypes, ExchangeAppends DEF AuthCalls, Send
<1>7. CASE AuthAnswers
  <2>1. Answering \in {"captured", "jar", "challenge", "no"}
    BY <1>7, AnsweringTypes DEF AuthAnswers
  <2>. QED  BY <1>2, <1>3, <1>7, <2>1, ExchangeAppends DEF AuthAnswers
<1>. QED  BY <1>1, <1>4, <1>5, <1>6, <1>7

\* Each event gets one result, in order, and only a cancel, a mismatch under
\* stop_on_error, or one of the three exceptions that _replay_one lets through
\* leaves events without one (replay.py: run and _replay_one, their early returns
\* and what they catch).
THEOREM OneResultEach == Spec => []ResultsAccount
<1>1. Init => Types /\ Account
  <2> SUFFICES ASSUME Init PROVE Types /\ Account
    OBVIOUS
  <2>1. Len(results) = 0 /\ pos = 0 /\ pc = "head"
    BY DEF Init
  <2>2. ~(pos > 0) /\ pc \notin InHand
    BY <2>1 DEF InHand
  <2>. QED  BY <2>1, <2>2, InitTypes DEF Account
<1>2. Types /\ Account /\ [Next]_vars => (Types /\ Account)'
  <2> SUFFICES ASSUME Types, Account, [Next]_vars PROVE Types' /\ Account'
    OBVIOUS
  <2>1. CASE UNCHANGED vars
    BY <2>1, TypesStep DEF vars, Account, Stopped, Agrees, LastStatus, LastAuth, Fatal,
                           Signed, NeedsReauth, ev, Loaded
  <2>2. CASE Next
    BY <2>2, TypesStep, LoopAccounts, RawAccounts, ReauthAccounts, LoginAccounts DEF Next
  <2>. QED  BY <2>1, <2>2
<1>3. Types /\ Account => ResultsAccount
  BY DEF Account, ResultsAccount, InHand, Stopped, Agrees
<1>. QED  BY <1>1, <1>2, <1>3, PTL DEF Spec

----------------------------------------------------------------------------
(* The cookies.                                                             *)

\* An answer to this event has cleared cookies.
Cleared == \E j \in 1..Len(sent) : sent[j].jar = "clear"

\* A captured Cookie is only kept for a session that was not fresh, or has been
\* cleared since, and what is in the bare jar came from an answer that broke off.
Jarred ==
    /\ pc \in {"begin", "raw", "reauth"} /\ had => holds["session"] \/ Cleared
    /\ holds["bare"] => torn
    /\ pc \in {"login", "digest", "fallback"} /\ kept =>
          (~had \/ Cleared) /\ ev.cookie = "sent"
    /\ StaleCookieDropped
    /\ BareUnlessTorn

\* What an exchange does to these, if its cookie is a rightful one.
LEMMA ExchangeKeepsJars ==
    ASSUME TypeOK, Jarred, NEW auth \in {"captured", "none", "digest", "basic"},
           NEW cookie \in {"captured", "jar", "challenge", "no"}, NEW body \in Bodies,
           NEW a \in Answers, Exchange(auth, cookie, body, a),
           UNCHANGED <<log, opts, pos, had>>, torn => torn',
           cookie = "captured" => ~had \/ Cleared,
           Client(ev) = "bare" /\ cookie # "no" =>
              \/ torn'
              \/ /\ auth = "digest" /\ Len(sent) \in 1..Len(sent)
                 /\ sent[Len(sent)].auth = "none" /\ sent[Len(sent)].jar = "set"
    PROVE  StaleCookieDropped' /\ BareUnlessTorn' /\ (Cleared \/ a.jar = "clear" => Cleared')
<1>1. /\ Len(sent) \in Nat /\ Len(sent') = Len(sent) + 1
      /\ \A i \in 1..Len(sent) : sent'[i] = sent[i]
      /\ sent'[Len(sent) + 1].auth = auth /\ sent'[Len(sent) + 1].cookie = cookie
      /\ sent'[Len(sent) + 1].jar = a.jar
  BY ExchangeAppends
<1>2. ev' = ev /\ Client(ev)' = Client(ev)
  BY DEF ev, Loaded, Client
<1>3. ASSUME NEW i \in 1..Len(sent'), sent'[i].cookie = "captured"
      PROVE  ~had \/ \E j \in 1..(i - 1) : sent'[j].jar = "clear"
  <2>1. CASE i \in 1..Len(sent)
    <3>1. ~had \/ \E j \in 1..(i - 1) : sent[j].jar = "clear"
      BY <1>1, <1>3, <2>1 DEF Jarred, StaleCookieDropped
    <3>2. \A j \in 1..(i - 1) : j \in 1..Len(sent)
      BY <1>1, <2>1
    <3>. QED  BY <1>1, <3>1, <3>2
  <2>2. CASE i = Len(sent) + 1
    <3>1. i - 1 = Len(sent)
      BY <1>1, <2>2
    <3>. QED  BY <1>1, <1>3, <2>2, <3>1 DEF Cleared
  <2>. QED  BY <1>1, <2>1, <2>2
<1>4. ASSUME NEW i \in 1..Len(sent'), Client(ev) = "bare", sent'[i].cookie # "no"
      PROVE  \/ torn'
             \/ i > 1 /\ sent'[i].auth = "digest" /\ sent'[i - 1].auth = "none"
                      /\ sent'[i - 1].jar = "set"
  <2>1. CASE i \in 1..Len(sent)
    <3>1. \/ torn
          \/ i > 1 /\ sent[i].auth = "digest" /\ sent[i - 1].auth = "none"
                   /\ sent[i - 1].jar = "set"
      BY <1>1, <1>4, <2>1 DEF Jarred, BareUnlessTorn
    <3>2. i > 1 => i - 1 \in 1..Len(sent)
      BY <1>1, <2>1
    <3>. QED  BY <1>1, <2>1, <3>1, <3>2
  <2>2. CASE i = Len(sent) + 1
    <3>1. i - 1 = Len(sent)
      BY <1>1, <2>2
    <3>. QED  BY <1>1, <1>4, <2>2, <3>1
  <2>. QED  BY <1>1, <2>1, <2>2
<1>5. Cleared \/ a.jar = "clear" => Cleared'
  <2>1. \A j \in 1..Len(sent) : j \in 1..Len(sent')
    BY <1>1
  <2>2. Len(sent) + 1 \in 1..Len(sent')
    BY <1>1
  <2>. QED  BY <1>1, <2>1, <2>2 DEF Cleared
<1>. QED  BY <1>2, <1>3, <1>4, <1>5 DEF StaleCookieDropped, BareUnlessTorn

\* What the end of a call does to the jars.
LEMMA CallKeepsJars ==
    ASSUME TypeOK, Jarred, NEW a \in Answers, NEW earlier, CallEnds(a, earlier)
    PROVE  /\ torn => torn'
           /\ holds'["bare"] => torn'
           /\ earlier = "same" /\ holds["session"] => holds'["session"] \/ a.jar = "clear"
<1>1. /\ Client(ev) \in {"session", "bare"} /\ holds \in [Jars -> BOOLEAN]
      /\ a.jar \in Effects /\ a.arrived \in BOOLEAN
  BY DEF TypeOK, Client, Answers
<1>2. torn => torn'
  BY DEF CallEnds
<1>3. CASE Client(ev) = "session"
  <2>1. /\ holds'["bare"] = holds["bare"]
        /\ holds'["session"] = IF a.arrived THEN Changed(Changed(holds["session"], earlier), a.jar)
                               ELSE holds["session"]
    BY <1>1, <1>3 DEF CallEnds, JarsAfter, Jars
  <2>2. earlier = "same" /\ holds["session"] => holds'["session"] \/ a.jar = "clear"
    BY <1>1, <2>1 DEF Changed, Effects
  <2>. QED  BY <1>2, <2>1, <2>2 DEF Jarred
<1>4. CASE Client(ev) = "bare"
  <2>1. /\ holds'["session"] = holds["session"]
        /\ holds'["bare"] = IF a.status # 0 THEN FALSE
                            ELSE IF a.arrived THEN Changed(Changed(holds["bare"], earlier), a.jar)
                            ELSE holds["bare"]
    BY <1>1, <1>4 DEF CallEnds, JarsAfter, Jars
  <2>2. holds'["bare"] => torn'
    BY <1>4, <2>1 DEF CallEnds, Changed, Jarred
  <2>. QED  BY <1>2, <2>1, <2>2
<1>. QED  BY <1>1, <1>3, <1>4

\* Both together, of a call with one exchange.
LEMMA SendKeepsJars ==
    ASSUME Types, Jarred, NEW auth \in {"captured", "none", "basic"},
           NEW body \in Bodies, NEW keep \in BOOLEAN, NEW a \in Answers,
           Send(auth, body, keep, a), UNCHANGED <<log, opts, pos, had>>,
           keep => (~had \/ Cleared) /\ ev.cookie = "sent"
    PROVE  /\ StaleCookieDropped' /\ BareUnlessTorn' /\ (Cleared \/ a.jar = "clear" => Cleared')
           /\ holds'["bare"] => torn'
           /\ holds["session"] => holds'["session"] \/ a.jar = "clear"
<1>1. TypeOK /\ Exchange(auth, Cookie(keep), body, a) /\ CallEnds(a, "same")
  BY DEF Types, Send
<1>2. Cookie(keep) = "captured" => ~had \/ Cleared
  BY DEF Cookie
<1>3. Client(ev) = "bare" /\ Cookie(keep) # "no" => torn
  BY DEF Cookie, Client, Jarred
<1>. QED  BY <1>1, <1>2, <1>3, CookieTypes, CallKeepsJars, ExchangeKeepsJars

LEMMA LoopKeepsJars ==
    ASSUME Types, Jarred, Loop \/ Due \/ Begin \/ ReplayCancel
    PROVE  Jarred'
<1>1. CASE Due /\ pc' = "begin"
  <2>1. sent' = << >> /\ had' = holds["session"] /\ UNCHANGED <<holds, torn>>
    BY <1>1 DEF Due
  <2>2. Len(sent') = 0
    BY <2>1
  <2>. QED  BY <1>1, <2>1, <2>2 DEF Jarred, StaleCookieDropped, BareUnlessTorn
<1>2. CASE Begin
  <2>1. UNCHANGED <<log, opts, pos, kept, holds, sent, had, torn>> /\ pc = "begin"
    BY <1>2 DEF Begin
  <2>2. pc' \in {"head", "ended", "raw", "reauth"}
    BY <1>2 DEF Begin, Record
  <2>. QED  BY <2>1, <2>2 DEF Jarred, StaleCookieDropped, BareUnlessTorn, ev, Loaded, Client,
                              Cleared
<1>3. CASE ~(Due /\ pc' = "begin") /\ ~Begin
  <2>1. UNCHANGED <<log, opts, pos, kept, holds, sent, had, torn>>
    BY <1>3 DEF Loop, Due, ReplayCancel
  <2>2. pc' \in {"begin", "raw", "reauth", "login", "digest", "fallback"} => pc' = pc
    BY <1>3 DEF Loop, Due, ReplayCancel
  <2>. QED  BY <2>1, <2>2 DEF Jarred, StaleCookieDropped, BareUnlessTorn, ev, Loaded, Client,
                              Cleared
<1>. QED  BY <1>1, <1>2, <1>3

LEMMA AttemptKeepsJars == ASSUME Types, Jarred, Raw \/ Reauth PROVE Jarred'
<1>1. pos \in 1..Len(log) /\ TypeOK /\ log \in Logs /\ kept \in BOOLEAN
  BY Positions DEF Raw, Reauth, Types, TypeOK, InHand
<1>2. Headers(ev) \in BOOLEAN /\ (Headers(ev) => (~had \/ Cleared) /\ ev.cookie = "sent")
  BY DEF Headers, Jarred, Raw, Reauth
<1>3. CASE Raw
  <2>1. PICK a \in Answers : Send("captured", BodyFor(ev), Headers(ev), a)
    BY <1>3 DEF Raw
  <2>2. UNCHANGED <<log, opts, pos, had>> /\ pc = "raw"
    BY <1>3 DEF Raw
  <2>3. pc' \in {"head", "ended", "reauth"}
    BY <1>3 DEF Raw, Record
  <2>4. /\ StaleCookieDropped' /\ BareUnlessTorn' /\ (Cleared \/ a.jar = "clear" => Cleared')
        /\ holds'["bare"] => torn'
        /\ holds["session"] => holds'["session"] \/ a.jar = "clear"
    BY <1>1, <1>2, <2>1, <2>2, EventTypes, SendKeepsJars
  <2>. QED  BY <2>2, <2>3, <2>4 DEF Jarred
<1>4. CASE Reauth
  <2>1. UNCHANGED <<log, opts, pos, sent, had, torn>>
    BY <1>4 DEF Reauth
  <2>2. holds'["bare"] = holds["bare"]
    BY <1>1, <1>4 DEF Reauth, AskClock, TypeOK, Jars
  <2>3. /\ pc' \in {"login", "head", "ended", "dead"}
        /\ pc' = "login" => kept' = Headers(ev)
    BY <1>4 DEF Reauth, Record
  <2>. QED  BY <1>2, <2>1, <2>2, <2>3
            DEF Jarred, StaleCookieDropped, BareUnlessTorn, ev, Loaded, Client, Cleared
<1>. QED  BY <1>3, <1>4

LEMMA LoginKeepsJars == ASSUME Types, Jarred, Login \/ Digest \/ Fallback PROVE Jarred'
<1>1. /\ UNCHANGED <<log, opts, pos, kept, clock, cancel, had>> /\ pc \in InHand
      /\ pc \in {"login", "digest", "fallback"} /\ ev' = ev
      /\ (AuthDies \/ AuthChallenged \/ AuthCalls \/ AuthAnswers)
  BY AuthCases
<1>2. TypeOK /\ kept \in BOOLEAN /\ LoginBody(ev) \in Bodies
  BY <1>1, Positions, EventTypes DEF Types, TypeOK
<1>3. kept => (~had \/ Cleared) /\ ev.cookie = "sent"
  BY <1>1 DEF Jarred
<1>4. \A a, auth : Ends(a, auth) => pc' \in {"head", "ended", "fallback"}
  BY DEF Ends, Record
<1>5. CASE AuthDies
  BY <1>1, <1>5 DEF AuthDies, Dies, Jarred, StaleCookieDropped, BareUnlessTorn, Client, Cleared
<1>6. CASE AuthChallenged
  <2>1. PICK a \in Answers : Exchange("none", Cookie(kept), LoginBody(ev), a)
    BY <1>6 DEF AuthChallenged
  <2>2. UNCHANGED <<holds, torn>> /\ pc' = "digest"
    BY <1>6 DEF AuthChallenged
  <2>3. /\ Cookie(kept) = "captured" => ~had \/ Cleared
        /\ Client(ev) = "bare" /\ Cookie(kept) # "no" => torn
    BY <1>3 DEF Cookie, Client, Jarred
  <2>4. StaleCookieDropped' /\ BareUnlessTorn' /\ (Cleared => Cleared')
    BY <1>1, <1>2, <2>1, <2>2, <2>3, CookieTypes, ExchangeKeepsJars
  <2>. QED  BY <1>1, <1>3, <2>2, <2>4 DEF Jarred
<1>7. CASE AuthCalls
  <2>1. PICK a \in Answers, auth \in {"none", "basic"} :
          Send(auth, LoginBody(ev), kept, a) /\ Ends(a, auth)
    BY <1>7 DEF AuthCalls
  <2>2. /\ StaleCookieDropped' /\ BareUnlessTorn' /\ (Cleared => Cleared')
        /\ holds'["bare"] => torn'
    BY <1>1, <1>2, <1>3, <2>1, SendKeepsJars
  <2>. QED  BY <1>1, <1>3, <1>4, <2>1, <2>2 DEF Jarred
<1>8. CASE AuthAnswers
  <2>1. PICK a \in Answers :
          /\ Exchange("digest", Answering, LoginBody(ev), a)
          /\ CallEnds(a, sent[Len(sent)].jar) /\ Ends(a, "digest")
    BY <1>8 DEF AuthAnswers
  <2>2. pc = "digest"
    BY <1>8 DEF AuthAnswers
  <2>3. Answering \in {"captured", "jar", "challenge", "no"} /\ Len(sent) \in 1..Len(sent)
    BY <2>2, AnsweringTypes
  <2>4. (torn => torn') /\ (holds'["bare"] => torn')
    BY <1>2, <2>1, CallKeepsJars
  <2>5. sent[Len(sent)].auth = "none"
    BY <2>2 DEF Types, Challenged
  <2>6. Answering = "captured" => ~had \/ Cleared
    <3> SUFFICES ASSUME Answering = "captured" PROVE ~had \/ Cleared
      OBVIOUS
    <3>1. sent[Len(sent)].cookie = "captured"
      BY DEF Answering
    <3>2. ~had \/ \E j \in 1..(Len(sent) - 1) : sent[j].jar = "clear"
      BY <2>3, <3>1 DEF Jarred, StaleCookieDropped
    <3>3. \A j \in 1..(Len(sent) - 1) : j \in 1..Len(sent)
      BY <2>3
    <3>. QED  BY <3>2, <3>3 DEF Cleared
  <2>7. Client(ev) = "bare" /\ Answering # "no" => torn \/ sent[Len(sent)].jar = "set"
    BY <2>3, <2>5 DEF Answering, Jarred, BareUnlessTorn
  <2>8. StaleCookieDropped' /\ BareUnlessTorn' /\ (Cleared => Cleared')
    BY <1>1, <1>2, <2>1, <2>3, <2>4, <2>5, <2>6, <2>7, ExchangeKeepsJars
  <2>. QED  BY <1>1, <1>3, <1>4, <2>1, <2>4, <2>8 DEF Jarred
<1>. QED  BY <1>1, <1>5, <1>6, <1>7, <1>8

LEMMA JarsInvariant == Spec => [](Types /\ Jarred)
<1>1. Init => Types /\ Jarred
  <2> SUFFICES ASSUME Init PROVE Types /\ Jarred
    OBVIOUS
  <2>1. /\ Len(sent) = 0 /\ had = FALSE /\ kept = FALSE /\ holds = [c \in Jars |-> FALSE]
    BY DEF Init
  <2>. QED  BY <2>1, InitTypes DEF Jarred, StaleCookieDropped, BareUnlessTorn, Jars
<1>2. Types /\ Jarred /\ [Next]_vars => (Types /\ Jarred)'
  <2> SUFFICES ASSUME Types, Jarred, [Next]_vars PROVE Types' /\ Jarred'
    OBVIOUS
  <2>1. CASE UNCHANGED vars
    BY <2>1, TypesStep
       DEF vars, Jarred, StaleCookieDropped, BareUnlessTorn, ev, Loaded, Client, Cleared
  <2>2. CASE Next
    BY <2>2, TypesStep, LoopKeepsJars, AttemptKeepsJars, LoginKeepsJars DEF Next
  <2>. QED  BY <2>1, <2>2
<1>. QED  BY <1>1, <1>2, PTL DEF Spec

\* A captured Cookie is sent in no attempt of an event that began with a fresh
\* session, unless an answer to that event cleared the session (replay.py: _headers).
THEOREM NoStaleCookie == Spec => []StaleCookieDropped
<1>1. Jarred => StaleCookieDropped
  BY DEF Jarred
<1>. QED  BY <1>1, JarsInvariant, PTL

\* A request captured without a cookie is sent without one, unless an answer
\* broke off after its headers (replay.py: _send clears the bare jar only after
\* an answer) or a Digest challenge has just brought the cookie.
THEOREM BareStaysBare == Spec => []BareUnlessTorn
<1>1. Jarred => BareUnlessTorn
  BY DEF Jarred
<1>. QED  BY <1>1, JarsInvariant, PTL

----------------------------------------------------------------------------
(* The order of the attempts.                                               *)

\* The captured request itself was refused, in another way than when captured.
Refused == /\ sent # << >> /\ sent[1].auth = "captured"
           /\ NeedsReauth(sent[1].status) /\ sent[1].status # ev.status

Rungs ==
    /\ pc \in {"begin", "raw"} => sent = << >>
    /\ pc \in {"reauth", "login", "digest", "fallback"} =>
          opts.mode # "raw" /\ (opts.mode = "auto" => Refused)
    /\ pc \in {"login", "digest", "fallback"} => opts.creds
    /\ pc = "fallback" => LastAuth \in {"none", "digest"} /\ LastStatus = 401
    /\ LadderInOrder

LEMMA LoopKeepsRungs ==
    ASSUME Types, Rungs, Loop \/ Due \/ Begin \/ ReplayCancel
    PROVE  Rungs'
<1>1. CASE Due /\ pc' = "begin"
  <2>1. sent' = << >>
    BY <1>1 DEF Due
  <2>2. Len(sent') = 0
    BY <2>1
  <2>. QED  BY <1>1, <2>1, <2>2 DEF Rungs, LadderInOrder
<1>2. CASE Begin
  <2>1. UNCHANGED <<log, opts, pos, sent>> /\ sent = << >>
    BY <1>2 DEF Begin, Rungs
  <2>2. ev' = ev
    BY <2>1 DEF ev, Loaded
  <2>3. Len(sent') = 0
    BY <2>1
  <2>4. \/ pc' \in {"head", "ended"}
        \/ pc' = "raw" /\ opts.mode # "reauth"
        \/ pc' = "reauth" /\ opts.mode = "reauth"
    BY <1>2 DEF Begin, Record
  <2>. QED  BY <2>1, <2>2, <2>3, <2>4 DEF Rungs, LadderInOrder
<1>3. CASE ~(Due /\ pc' = "begin") /\ ~Begin
  <2>1. UNCHANGED <<log, opts, pos, sent>>
    BY <1>3 DEF Loop, Due, ReplayCancel
  <2>2. pc' \in {"begin", "raw", "reauth", "login", "digest", "fallback"} => pc' = pc
    BY <1>3 DEF Loop, Due, ReplayCancel
  <2>. QED  BY <2>1, <2>2 DEF Rungs, LadderInOrder, Refused, LastAuth, LastStatus,
                              NeedsReauth, ev, Loaded
<1>. QED  BY <1>1, <1>2, <1>3

LEMMA RawKeepsRungs == ASSUME Types, Rungs, Raw PROVE Rungs'
<1>1. pos \in 1..Len(log) /\ TypeOK /\ log \in Logs
  BY Positions DEF Raw, Types, TypeOK, InHand
<1>2. PICK a \in Answers :
        /\ Send("captured", BodyFor(ev), Headers(ev), a)
        /\ pc' \in {"head", "ended"} \/ (~Enough(a.status) /\ pc' = "reauth")
  BY DEF Raw, Record
<1>3. UNCHANGED <<log, opts, pos>> /\ ev' = ev /\ sent = << >> /\ Headers(ev) \in BOOLEAN
  BY DEF Raw, ev, Loaded, Rungs, Headers
<1>4. /\ Len(sent') = Len(sent) + 1 /\ sent'[Len(sent) + 1].auth = "captured"
      /\ sent' # << >>
      /\ sent'[Len(sent) + 1].status = a.status
  BY <1>1, <1>2, <1>3, EventTypes, CookieTypes, ExchangeAppends DEF Send
<1>5. /\ Len(sent') = 1 /\ sent'[1].auth = "captured" /\ sent'[1].status = a.status
  <2>1. Len(sent) = 0
    BY <1>3
  <2>. QED  BY <1>4, <2>1
<1>6. LadderInOrder'
  BY <1>5 DEF LadderInOrder
<1>7. pc' = "reauth" => opts.mode # "raw" /\ Refused'
  <2>1. sent' # << >>
    BY <1>4
  <2>2. pc' = "reauth" =>
           opts.mode # "raw" /\ NeedsReauth(a.status) /\ a.status # ev.status
    BY <1>2 DEF Enough
  <2>. QED  BY <1>3, <1>5, <2>1, <2>2 DEF Refused, NeedsReauth
<1>. QED  BY <1>2, <1>3, <1>6, <1>7 DEF Rungs

\* An exchange of a re-authentication that is a rightful one.
LEMMA AuthKeepsLadder ==
    ASSUME TypeOK, Rungs, pc \in {"login", "digest", "fallback"},
           NEW auth \in {"none", "digest", "basic"},
           NEW cookie \in {"captured", "jar", "challenge", "no"}, NEW body \in Bodies,
           NEW a \in Answers, Exchange(auth, cookie, body, a), UNCHANGED <<log, opts, pos>>,
           auth = "digest" => Challenged, auth = "basic" => ev.basic \/ pc = "fallback"
    PROVE  LadderInOrder' /\ (Refused => Refused')
<1>1. /\ Len(sent) \in Nat /\ Len(sent') = Len(sent) + 1 /\ sent' # << >>
      /\ \A i \in 1..Len(sent) : sent'[i] = sent[i]
      /\ sent'[Len(sent) + 1].auth = auth
  BY ExchangeAppends
<1>2. ev' = ev /\ opts.mode # "raw" /\ opts.creds /\ (opts.mode = "auto" => Refused)
  BY DEF Rungs, ev, Loaded
<1>3. sent # << >> => Len(sent) \in 1..Len(sent) /\ 1 \in 1..Len(sent)
  <2>1. sent # << >> => Len(sent) # 0
    BY EmptySeq DEF TypeOK
  <2>. QED  BY <1>1, <2>1
<1>4. Refused => Refused'
  BY <1>1, <1>2, <1>3 DEF Refused, NeedsReauth
<1>5. ASSUME NEW i \in 1..Len(sent')
      PROVE  /\ sent'[i].auth = "digest" =>
                   i > 1 /\ sent'[i - 1].auth = "none" /\ NeedsReauth(sent'[i - 1].status)
             /\ sent'[i].auth = "basic" /\ ~ev.basic =>
                   i > 1 /\ sent'[i - 1].auth \in {"none", "digest"} /\ sent'[i - 1].status = 401
  <2>1. CASE i \in 1..Len(sent)
    <3>1. sent'[i] = sent[i] /\ (i > 1 => i - 1 \in 1..Len(sent))
      BY <1>1, <2>1
    <3>2. i > 1 => sent'[i - 1] = sent[i - 1]
      BY <1>1, <3>1
    <3>. QED  BY <2>1, <3>1, <3>2 DEF Rungs, LadderInOrder
  <2>2. CASE i = Len(sent) + 1
    <3>1. i - 1 = Len(sent)
      BY <1>1, <2>2
    <3>2. CASE auth = "digest"
      <4>1. sent # << >> /\ sent[Len(sent)].auth = "none" /\ NeedsReauth(sent[Len(sent)].status)
        BY <3>2 DEF Challenged
      <4>2. i > 1 /\ sent'[i - 1] = sent[Len(sent)]
        BY <1>1, <1>3, <2>2, <3>1, <4>1
      <4>. QED  BY <1>1, <2>2, <3>2, <4>1, <4>2
    <3>3. CASE auth = "basic" /\ ~ev.basic
      <4>1. /\ sent # << >> /\ sent[Len(sent)].auth \in {"none", "digest"}
            /\ sent[Len(sent)].status = 401
        BY <3>3 DEF Rungs, LastAuth, LastStatus
      <4>2. i > 1 /\ sent'[i - 1] = sent[Len(sent)]
        BY <1>1, <1>3, <2>2, <3>1, <4>1
      <4>. QED  BY <1>1, <2>2, <3>3, <4>1, <4>2
    <3>. QED  BY <1>1, <2>2, <3>2, <3>3
  <2>. QED  BY <1>1, <2>1, <2>2
<1>. QED  BY <1>2, <1>4, <1>5 DEF LadderInOrder, Refused, NeedsReauth

LEMMA LoginKeepsRungs == ASSUME Types, Rungs, Login \/ Digest \/ Fallback PROVE Rungs'
<1>1. /\ UNCHANGED <<log, opts, pos, kept, clock, cancel, had>> /\ pc \in InHand
      /\ pc \in {"login", "digest", "fallback"} /\ ev' = ev
      /\ (AuthDies \/ AuthChallenged \/ AuthCalls \/ AuthAnswers)
  BY AuthCases
<1>2. TypeOK /\ kept \in BOOLEAN /\ LoginBody(ev) \in Bodies
  BY <1>1, Positions, EventTypes DEF Types, TypeOK
<1>3. opts.mode # "raw" /\ opts.creds /\ (opts.mode = "auto" => Refused)
  BY <1>1 DEF Rungs
<1>4. ASSUME NEW a, NEW auth \in {"none", "digest", "basic"}, Ends(a, auth)
      PROVE  \/ pc' \in {"head", "ended"}
             \/ pc' = "fallback" /\ a.status = 401 /\ auth \in {"none", "digest"}
  BY <1>4 DEF Ends, Record
<1>5. CASE AuthDies
  BY <1>1, <1>5 DEF AuthDies, Dies, Rungs, LadderInOrder, NeedsReauth
<1>6. CASE AuthChallenged
  <2>1. PICK a \in Answers : Exchange("none", Cookie(kept), LoginBody(ev), a)
    BY <1>6 DEF AuthChallenged
  <2>2. LadderInOrder' /\ (Refused => Refused')
    BY <1>1, <1>2, <2>1, CookieTypes, AuthKeepsLadder
  <2>. QED  BY <1>1, <1>3, <1>6, <2>2 DEF AuthChallenged, Rungs
<1>7. CASE AuthCalls
  <2>1. PICK a \in Answers, auth \in {"none", "basic"} :
          /\ auth = "basic" => ev.basic \/ pc = "fallback"
          /\ Exchange(auth, Cookie(kept), LoginBody(ev), a) /\ Ends(a, auth)
    BY <1>7 DEF AuthCalls, Send
  <2>2. LadderInOrder' /\ (Refused => Refused')
    BY <1>1, <1>2, <2>1, CookieTypes, AuthKeepsLadder
  <2>3. LastStatus' = a.status /\ LastAuth' = auth
    BY <1>2, <2>1, CookieTypes, ExchangeAppends
  <2>. QED  BY <1>1, <1>3, <1>4, <2>1, <2>2, <2>3 DEF Rungs
<1>8. CASE AuthAnswers
  <2>1. PICK a \in Answers :
          Exchange("digest", Answering, LoginBody(ev), a) /\ Ends(a, "digest")
    BY <1>8 DEF AuthAnswers
  <2>2. Challenged /\ Answering \in {"captured", "jar", "challenge", "no"}
    BY <1>8, AnsweringTypes DEF AuthAnswers, Types
  <2>3. LadderInOrder' /\ (Refused => Refused')
    BY <1>1, <1>2, <2>1, <2>2, AuthKeepsLadder
  <2>4. LastStatus' = a.status /\ LastAuth' = "digest"
    BY <1>2, <2>1, <2>2, ExchangeAppends
  <2>. QED  BY <1>1, <1>3, <1>4, <2>1, <2>3, <2>4 DEF Rungs
<1>. QED  BY <1>1, <1>5, <1>6, <1>7, <1>8

LEMMA ReauthKeepsRungs == ASSUME Rungs, Reauth PROVE Rungs'
<1>1. UNCHANGED <<log, opts, pos, sent>> /\ pc = "reauth" /\ ev' = ev
  BY DEF Reauth, ev, Loaded
<1>2. pc' \in {"head", "ended", "dead"} \/ (pc' = "login" /\ opts.creds)
  BY DEF Reauth, Record
<1>. QED  BY <1>1, <1>2 DEF Rungs, LadderInOrder, Refused, NeedsReauth

LEMMA RungsInvariant == Spec => [](Types /\ Rungs)
<1>1. Init => Types /\ Rungs
  <2> SUFFICES ASSUME Init PROVE Types /\ Rungs
    OBVIOUS
  <2>1. sent = << >> /\ Len(sent) = 0 /\ pc = "head"
    BY DEF Init
  <2>. QED  BY <2>1, InitTypes DEF Rungs, LadderInOrder
<1>2. Types /\ Rungs /\ [Next]_vars => (Types /\ Rungs)'
  <2> SUFFICES ASSUME Types, Rungs, [Next]_vars PROVE Types' /\ Rungs'
    OBVIOUS
  <2>1. CASE UNCHANGED vars
    BY <2>1, TypesStep
       DEF vars, Rungs, LadderInOrder, Refused, LastAuth, LastStatus, NeedsReauth, ev, Loaded
  <2>2. CASE Next
    BY <2>2, TypesStep, LoopKeepsRungs, RawKeepsRungs, ReauthKeepsRungs, LoginKeepsRungs
       DEF Next
  <2>. QED  BY <2>1, <2>2
<1>. QED  BY <1>1, <1>2, PTL DEF Spec

\* The operator's credentials go into the headers only where they may, after the
\* refusal that calls for them, and Basic only where it was captured or a Digest
\* was not enough (replay.py: _replay_one).
THEOREM AttemptsInOrder == Spec => []LadderInOrder
<1>1. Rungs => LadderInOrder
  BY DEF Rungs
<1>. QED  BY <1>1, RungsInvariant, PTL

----------------------------------------------------------------------------
(* What the bodies carry.                                                   *)

LEMMA BodyFields ==
    ASSUME NEW b \in Bodies
    PROVE  /\ b.syntax \in Syntaxes /\ b.header \in {"none", "open", "empty", "beside"}
           /\ b.fields \in SUBSET Fields
           /\ Redact(b).syntax = b.syntax /\ Redact(b).header = b.header
           /\ Redact(b).fields =
                 {IF f.key \in SecretKeys(b.syntax) THEN Put("placeholder", f) ELSE f :
                     f \in b.fields}
           /\ Substitute(b).syntax = b.syntax /\ Substitute(b).header = b.header
           /\ Substitute(b).fields =
                 {IF Replaced(b, f) THEN Put("operator", f) ELSE f : f \in b.fields}
           /\ Resign(b).syntax = b.syntax /\ Resign(b).fields = b.fields
           /\ Resign(b).header = IF b.header = "none" THEN "open"
                                 ELSE IF b.header = "empty" THEN "beside" ELSE b.header
  BY DEF Redact, Substitute, Resign, Bodies

LEMMA BodyTokens ==
    ASSUME NEW b \in Bodies
    PROVE  /\ b.tokens \in Seq(Tokens)
           /\ b.syntax # "soap" => Redact(b).tokens = b.tokens
           /\ b.syntax = "soap" => Redact(b).tokens = [i \in DOMAIN b.tokens |-> "placeholder"]
           /\ Substitute(b).tokens = b.tokens
           /\ Resign(b).tokens = <<"operator">> \o Strip(b.tokens)
  BY DEF Redact, Substitute, Resign, Bodies

\* Redaction hides tokens, and adds and removes none.
LEMMA RedactedTokens ==
    ASSUME NEW b \in Bodies
    PROVE  /\ Len(Redact(b).tokens) = Len(b.tokens) /\ DOMAIN Redact(b).tokens = DOMAIN b.tokens
           /\ b.tokens = << >> => Redact(b).tokens = b.tokens
           /\ \A k \in DOMAIN b.tokens : Redact(b).tokens[k] \in {"placeholder", b.tokens[k]}
<1>1. b.tokens \in Seq(Tokens)
  BY BodyTokens
<1>2. CASE b.syntax # "soap"
  BY <1>2, BodyTokens
<1>3. CASE b.syntax = "soap"
  <2> DEFINE q == [i \in DOMAIN b.tokens |-> "placeholder"]
  <2>1. Redact(b).tokens = q
    BY <1>3, BodyTokens
  <2>2. q \in Seq(Tokens) /\ Len(q) = Len(b.tokens)
    BY <1>1, TokenTypes
  <2>3. DOMAIN q = DOMAIN b.tokens /\ \A k \in DOMAIN b.tokens : q[k] = "placeholder"
    OBVIOUS
  <2> HIDE DEF q
  <2>4. b.tokens = << >> => q = b.tokens
    <3>1. b.tokens = << >> => Len(q) = 0
      BY <1>1, <2>2, EmptySeq
    <3>. QED  BY <2>2, <3>1, EmptySeq
  <2>. QED  BY <2>1, <2>2, <2>3, <2>4
<1>. QED  BY <1>2, <1>3

\* A value that is put into a field leaves its key and its place.
LEMMA PutField ==
    ASSUME NEW f \in Fields, NEW v
    PROVE  /\ Put(v, f).key = f.key /\ Put(v, f).deep = f.deep /\ Put(v, f).value = v
           /\ f.value = v => Put(v, f) = f
           /\ \A w : Put(v, Put(w, f)) = Put(v, f)
  BY DEF Put, Fields

LEMMA SameBody ==
    ASSUME NEW b \in Bodies, NEW c \in Bodies,
           b.syntax = c.syntax, b.header = c.header, b.fields = c.fields,
           b.tokens = c.tokens
    PROVE  b = c
  BY DEF Bodies

\* What the operator did not put in is not the operator's.
LEMMA SubstitutedTogether ==
    ASSUME NEW b \in Bodies, \A f \in b.fields : f.value # "operator",
           NEW u \in Substitute(b).fields, NEW p \in Substitute(b).fields,
           u.key = "user", u.value = "operator", p.key \in {"password", "pass"}
    PROVE  p.value = "operator" \/ p.deep \/ p.value = "number"
               \/ (p.key = "pass" /\ b.syntax = "json")
<1>1. PICK g \in b.fields : u = IF Replaced(b, g) THEN Put("operator", g) ELSE g
  BY BodyFields
<1>2. PICK h \in b.fields : p = IF Replaced(b, h) THEN Put("operator", h) ELSE h
  BY BodyFields
<1>3. g \in Fields /\ h \in Fields
  BY BodyFields
<1>4. Replaced(b, g) /\ g.key = "user"
  BY <1>1, <1>3, PutField
<1>5. CASE Replaced(b, h)
  BY <1>2, <1>3, <1>5, PutField
<1>6. CASE ~Replaced(b, h)
  <2>1. p = h
    BY <1>2, <1>6
  <2>2. CASE b.syntax = "json"
    BY <1>6, <2>1, <2>2 DEF Replaced
  <2>3. CASE b.syntax # "json"
    BY <1>4, <1>6, <2>1, <2>3 DEF Replaced
  <2>. QED  BY <2>2, <2>3
<1>. QED  BY <1>5, <1>6

\* Each exchange of the event in hand carries the body that is meant for it.
Made(x) == x.body = IF x.auth = "captured" THEN BodyFor(ev) ELSE LoginBody(ev)

Bodied == \A i \in 1..Len(sent) : Made(sent[i])

LEMMA ExchangeKeepsBodies ==
    ASSUME TypeOK, Bodied, NEW auth \in {"captured", "none", "digest", "basic"},
           NEW cookie \in {"captured", "jar", "challenge", "no"}, NEW body \in Bodies,
           NEW a \in Answers, Exchange(auth, cookie, body, a),
           body = IF auth = "captured" THEN BodyFor(ev) ELSE LoginBody(ev),
           UNCHANGED <<log, opts, pos>>
    PROVE  Bodied'
<1>1. ev' = ev /\ opts' = opts
  BY DEF ev, Loaded
<1>2. BodyFor(ev)' = BodyFor(ev) /\ LoginBody(ev)' = LoginBody(ev)
  BY <1>1 DEF BodyFor, LoginBody, Signed
<1>3. /\ Len(sent) \in Nat /\ Len(sent') = Len(sent) + 1
      /\ \A i \in 1..Len(sent) : sent'[i] = sent[i]
      /\ sent'[Len(sent) + 1].auth = auth /\ sent'[Len(sent) + 1].body = body
  BY ExchangeAppends
<1>4. ASSUME NEW i \in 1..Len(sent')
      PROVE  sent'[i].body = IF sent'[i].auth = "captured" THEN BodyFor(ev) ELSE LoginBody(ev)
  <2>1. i \in 1..Len(sent) \/ i = Len(sent) + 1
    BY <1>3
  <2>2. CASE i \in 1..Len(sent)
    BY <1>3, <2>2 DEF Bodied, Made
  <2>3. CASE i = Len(sent) + 1
    BY <1>3, <2>3
  <2>. QED  BY <2>1, <2>2, <2>3
<1>. QED  BY <1>2, <1>4 DEF Bodied, Made

LEMMA BodiesStep == ASSUME Types, Bodied, [Next]_vars PROVE Bodied'
<1>1. CASE Due /\ pc' = "begin"
  <2>1. sent' = << >>
    BY <1>1 DEF Due
  <2>2. Len(sent') = 0
    BY <2>1
  <2>. QED  BY <2>2 DEF Bodied
<1>2. CASE UNCHANGED vars \/ Loop \/ (Due /\ pc' # "begin") \/ Begin \/ Reauth \/ ReplayCancel
  <2>1. UNCHANGED <<log, opts, pos, sent>>
    BY <1>2 DEF vars, Loop, Due, Begin, Reauth, ReplayCancel
  <2>. QED  BY <2>1 DEF Bodied, Made, BodyFor, LoginBody, Signed, ev, Loaded
<1>3. CASE Raw
  <2>1. pos \in 1..Len(log) /\ log \in Logs /\ TypeOK
    BY <1>3, Positions DEF Raw, Types, TypeOK, InHand
  <2>2. PICK a \in Answers :
          Exchange("captured", Cookie(Headers(ev)), BodyFor(ev), a)
    BY <1>3 DEF Raw, Send
  <2>3. UNCHANGED <<log, opts, pos>> /\ Headers(ev) \in BOOLEAN
    BY <1>3 DEF Raw, Headers
  <2>. QED  BY <2>1, <2>2, <2>3, EventTypes, CookieTypes, ExchangeKeepsBodies
<1>4. CASE Login \/ Digest \/ Fallback
  <2>1. UNCHANGED <<log, opts, pos>> /\ pc \in InHand
    BY <1>4, AuthCases
  <2>2. TypeOK /\ LoginBody(ev) \in Bodies
    BY <2>1, Positions, EventTypes DEF Types, TypeOK
  <2>3. CASE UNCHANGED sent
    BY <2>1, <2>3 DEF Bodied, Made, BodyFor, LoginBody, Signed, ev, Loaded
  <2>4. CASE \E a \in Answers, auth \in {"none", "digest", "basic"},
               cookie \in {"captured", "jar", "challenge", "no"} :
               Exchange(auth, cookie, LoginBody(ev), a)
    BY <2>1, <2>2, <2>4, ExchangeKeepsBodies
  <2>. QED  BY <1>4, <2>3, <2>4, AuthSends
<1>. QED  BY <1>1, <1>2, <1>3, <1>4 DEF Next

Sending == Types /\ Bodied /\ (pos = 0 => sent = << >>)

LEMMA BodiesInvariant == Spec => []Sending
<1>1. Init => Sending
  <2> SUFFICES ASSUME Init PROVE Sending
    OBVIOUS
  <2>1. sent = << >> /\ Len(sent) = 0
    BY DEF Init
  <2>. QED  BY <2>1, InitTypes DEF Bodied, Sending
<1>2. Sending /\ [Next]_vars => Sending'
  <2> SUFFICES ASSUME Sending, [Next]_vars PROVE Sending'
    OBVIOUS
  <2>1. Types' /\ Bodied'
    BY TypesStep, BodiesStep DEF Sending
  <2>2. pos' = 0 => sent' = << >>
    <3>1. CASE UNCHANGED vars \/ Loop \/ Due \/ Begin \/ Reauth \/ ReplayCancel
      BY <3>1 DEF Sending, vars, Loop, Due, Begin, Reauth, ReplayCancel
    <3>2. CASE Raw \/ Login \/ Digest \/ Fallback
      <4>1. pos' = pos /\ pc \in InHand
        BY <3>2 DEF Raw, Login, Digest, Fallback, InHand
      <4>. QED  BY <4>1, Positions DEF Sending, Types
    <3>. QED  BY <3>1, <3>2 DEF Next
  <2>. QED  BY <2>1, <2>2 DEF Sending
<1>. QED  BY <1>1, <1>2, PTL DEF Spec

\* An exchange has an event.
LEMMA ExchangeHasEvent ==
    ASSUME Sending, NEW i \in 1..Len(sent)
    PROVE  /\ log \in Logs /\ pos \in 1..Len(log)
           /\ sent[i].body = IF sent[i].auth = "captured" THEN BodyFor(ev) ELSE LoginBody(ev)
<1>1. log \in Logs /\ pos \in 0..Len(log) /\ Len(log) \in Nat
  BY Positions DEF Sending, Types, TypeOK
<1>2. sent # << >>
  <2> SUFFICES ASSUME sent = << >> PROVE FALSE
    OBVIOUS
  <2>1. Len(sent) = 0
    OBVIOUS
  <2>. QED  BY <2>1
<1>. QED  BY <1>1, <1>2 DEF Sending, Bodied, Made

\* A re-authentication of ONVIF carries one fresh token, the first of all, and a
\* captured one only of an envelope that had more (wsse.py: resign).
THEOREM OneToken == Spec => []SignedOnce
<1>1. Sending => SignedOnce
  <2> SUFFICES ASSUME Sending, NEW i \in 1..Len(sent), sent[i].auth # "captured", Signed(ev)
               PROVE  LET tokens == sent[i].body.tokens
                      IN /\ tokens # << >> /\ tokens[1] = "operator"
                         /\ \A k \in 2..Len(tokens) : tokens[k] # "operator"
                         /\ Len(tokens) > 1 => Len(ev.body.tokens) > 1
                         /\ sent[i].body.header = "open" \/ ev.body.header = "empty"
    BY DEF SignedOnce
  <2> DEFINE had0 == ev.body.tokens
             new == sent[i].body.tokens
  <2>1. ev.body \in Bodies /\ sent[i].body = Resign(ev.body)
    BY ExchangeHasEvent, EventTypes DEF LoginBody
  <2>2. new = <<"operator">> \o Strip(had0) /\ had0 \in Seq(Tokens)
    BY <2>1, BodyTokens
  <2>3. /\ ev.body.header # "beside" /\ \A k \in 1..Len(had0) : had0[k] # "operator"
    <3>1. /\ log[pos].body \in Bodies /\ Captured(log[pos].body)
          /\ ev.body = IF opts.redacted THEN Redact(log[pos].body) ELSE log[pos].body
      BY ExchangeHasEvent, EventInHand DEF Events
    <3>2. /\ log[pos].body.header # "beside"
          /\ \A k \in DOMAIN log[pos].body.tokens : log[pos].body.tokens[k] = "text"
      BY <3>1 DEF Captured
    <3>3. \A k \in DOMAIN had0 : had0[k] \in {"text", "placeholder"}
      BY <3>1, <3>2, RedactedTokens
    <3>4. DOMAIN had0 = 1..Len(had0)
      BY <2>2, LenProperties
    <3>5. ev.body.header # "beside"
      BY <3>1, <3>2, BodyFields
    <3>. QED  BY <3>3, <3>4, <3>5
  <2>4. sent[i].body.header = "open" \/ ev.body.header = "empty"
    BY <2>1, <2>3, BodyFields
  <2> HIDE DEF new, had0
  <2>5. /\ Strip(had0) \in Seq(Tokens) /\ Len(Strip(had0)) \in Nat
        /\ Len(Strip(had0)) > 0 => Len(had0) > 1
        /\ \A k \in 1..Len(Strip(had0)) : Strip(had0)[k] # "operator"
    <3>1. CASE had0 = << >>
      BY <2>2, <3>1 DEF Strip
    <3>2. CASE had0 # << >>
      <4>1. /\ Tail(had0) \in Seq(Tokens) /\ Len(Tail(had0)) = Len(had0) - 1
            /\ \A k \in 1..Len(Tail(had0)) : Tail(had0)[k] = had0[k + 1]
        BY <2>2, <3>2, HeadTailProperties
      <4>2. Len(had0) \in Nat /\ Len(had0) # 0
        BY <2>2, <3>2, LenProperties, EmptySeq
      <4>3. \A k \in 1..Len(Tail(had0)) : k + 1 \in 1..Len(had0)
        BY <4>1, <4>2
      <4>. QED  BY <2>3, <3>2, <4>1, <4>2, <4>3 DEF Strip
    <3>. QED  BY <3>1, <3>2
  <2>6. <<"operator">> \in Seq(Tokens) /\ Len(<<"operator">>) = 1 /\ <<"operator">>[1] = "operator"
    BY DEF Tokens
  <2>7. /\ Len(new) = 1 + Len(Strip(had0)) /\ new[1] = "operator"
        /\ \A k \in 2..Len(new) : new[k] = Strip(had0)[k - 1]
    BY <2>2, <2>5, <2>6, ConcatProperties
  <2>8. new # << >>
    BY <2>5, <2>7
  <2>9. \A k \in 2..Len(new) : k - 1 \in 1..Len(Strip(had0))
    BY <2>5, <2>7
  <2>10. \A k \in 2..Len(new) : new[k] # "operator"
    BY <2>5, <2>7, <2>9
  <2>11. Len(new) > 1 => Len(had0) > 1
    BY <2>5, <2>7
  <2>. QED  BY <2>4, <2>7, <2>8, <2>10, <2>11 DEF new, had0
<1>. QED  BY <1>1, BodiesInvariant, PTL

\* No camera is given the operator's user with another password (replay.py:
\* substitute_credentials), but for the listed exceptions.
THEOREM NoMixedCredentials == Spec => []CredentialsTogether
<1>1. Sending => CredentialsTogether
  <2> SUFFICES ASSUME Sending, NEW i \in 1..Len(sent), NEW u \in sent[i].body.fields,
                      NEW p \in sent[i].body.fields, u.key = "user", u.value = "operator",
                      p.key \in {"password", "pass"}
               PROVE  p.value = "operator" \/ p.deep \/ p.value = "number"
                          \/ (p.key = "pass" /\ sent[i].body.syntax = "json")
    BY DEF CredentialsTogether
  <2>1. ev.body \in Bodies
    BY ExchangeHasEvent, EventTypes
  <2>2. \A f \in ev.body.fields : f.value # "operator"
    <3>1. log[pos].body \in Bodies /\ Captured(log[pos].body)
      BY ExchangeHasEvent, EventInHand DEF Events
    <3>2. \A f \in log[pos].body.fields : f \in Fields /\ f.value # "operator"
      BY <3>1, BodyFields DEF Captured
    <3>3. \A f \in Redact(log[pos].body).fields : f.value # "operator"
      BY <3>1, <3>2, BodyFields, PutField
    <3>. QED  BY <3>2, <3>3, ExchangeHasEvent, EventInHand
  <2>3. sent[i].body \in {ev.body, Substitute(ev.body), Resign(ev.body)}
    BY ExchangeHasEvent DEF BodyFor, LoginBody
  <2>4. CASE sent[i].body = ev.body
    BY <2>2, <2>4
  <2>5. CASE sent[i].body = Substitute(ev.body)
    <3>1. sent[i].body.syntax = ev.body.syntax
      BY <2>1, <2>5, BodyFields
    <3>. QED  BY <2>1, <2>2, <2>5, <3>1, SubstitutedTogether
  <2>6. CASE sent[i].body = Resign(ev.body)
    BY <2>1, <2>2, <2>6, BodyFields
  <2>. QED  BY <2>3, <2>4, <2>5, <2>6
<1>. QED  BY <1>1, BodiesInvariant, PTL

----------------------------------------------------------------------------
(* What redaction takes, the replay gives back.                             *)

Secret(b, f) == f.key \in SecretKeys(b.syntax)

\* A password that is not lost is one that is replaced.
LEMMA SecretsAreReplaced ==
    ASSUME NEW e \in Events, NEW f \in e.body.fields, Secret(e.body, f), ~Lost(e, f)
    PROVE  e.proto = "cgi" /\ e.post /\ Replaced(e.body, f)
<1>1. /\ f.key # "secret" /\ ~f.deep /\ f.value # "number"
      /\ e.body.syntax \notin {"list", "lines", "soap"} /\ e.proto = "cgi" /\ e.post
  BY DEF Lost, Secret
<1>2. \/ e.body.syntax = "json" /\ f.key = "password"
      \/ e.body.syntax = "form" /\ f.key \in {"password", "pass"}
  BY <1>1 DEF Secret, SecretKeys
<1>. QED  BY <1>1, <1>2 DEF Replaced, IsLogin, HasKey

\* Without secrets and tokens there is nothing to redact.
LEMMA NothingToRedact ==
    ASSUME NEW b \in Bodies, \A f \in b.fields : ~Secret(b, f), b.tokens = << >>
    PROVE  Redact(b) = b
<1>1. Redact(b) \in Bodies
  BY BodyTypes
<1>2. Redact(b).fields = b.fields
  <2>1. Redact(b).fields =
            {IF Secret(b, f) THEN Put("placeholder", f) ELSE f : f \in b.fields}
    BY BodyFields DEF Secret
  <2>2. \A f \in b.fields : (IF Secret(b, f) THEN Put("placeholder", f) ELSE f) = f
    OBVIOUS
  <2>. QED  BY <2>1, <2>2
<1>3. Redact(b).tokens = b.tokens
  BY RedactedTokens
<1>. QED  BY <1>1, <1>2, <1>3, BodyFields, SameBody

\* A field is replaced, or not, whatever was redacted, if only what is replaced was.
LEMMA SubstituteRedacted ==
    ASSUME NEW b \in Bodies, \A f \in b.fields : Secret(b, f) => Replaced(b, f),
           b.tokens = << >>
    PROVE  Substitute(Redact(b)) = Substitute(b)
<1> DEFINE r == Redact(b)
           In(f) == IF Secret(b, f) THEN Put("placeholder", f) ELSE f
           After(c, f) == IF Replaced(c, f) THEN Put("operator", f) ELSE f
<1>1. /\ r \in Bodies /\ Substitute(r) \in Bodies /\ Substitute(b) \in Bodies
      /\ r.syntax = b.syntax /\ r.header = b.header /\ b.fields \in SUBSET Fields
      /\ r.fields = {In(f) : f \in b.fields}
      /\ Substitute(b).fields = {After(b, f) : f \in b.fields}
  BY BodyTypes, BodyFields DEF Secret
<1>2. Substitute(r).fields = {After(r, f) : f \in r.fields}
  BY <1>1, BodyFields
<1>3. \A f \in b.fields : In(f).key = f.key /\ In(f).deep = f.deep
  BY <1>1, PutField
<1>4. IsLogin(r) = IsLogin(b)
  BY <1>1, <1>3 DEF IsLogin, HasKey
<1>5. ASSUME NEW f \in b.fields
      PROVE  After(r, In(f)) = After(b, f)
  <2>1. f \in Fields
    BY <1>1
  <2>2. CASE Secret(b, f)
    <3>1. Replaced(b, f) /\ In(f) = Put("placeholder", f)
      BY <2>2
    <3>2. In(f).value = "placeholder"
      BY <2>1, <3>1, PutField
    <3>3. Replaced(r, In(f))
      BY <1>1, <1>3, <1>4, <3>1, <3>2 DEF Replaced
    <3>. QED  BY <2>1, <3>1, <3>3, PutField
  <2>3. CASE ~Secret(b, f)
    BY <1>1, <1>4, <2>3 DEF Replaced
  <2>. QED  BY <2>2, <2>3
<1> HIDE DEF r, In, After
<1>6. Substitute(r).fields = Substitute(b).fields
  BY <1>1, <1>2, <1>5
<1>7. Substitute(r).syntax = Substitute(b).syntax /\ Substitute(r).header = Substitute(b).header
  BY <1>1, BodyFields
<1>8. Substitute(r).tokens = Substitute(b).tokens
  BY <1>1, BodyTokens, RedactedTokens DEF r
<1>. QED  BY <1>1, <1>6, <1>7, <1>8, SameBody DEF r

\* A re-authentication drops the one captured token, redacted or not.
LEMMA ResignRedacted ==
    ASSUME NEW b \in Bodies, \A f \in b.fields : ~Secret(b, f), Len(b.tokens) <= 1
    PROVE  Resign(Redact(b)) = Resign(b)
<1> DEFINE r == Redact(b)
<1>1. /\ r \in Bodies /\ Resign(r) \in Bodies /\ Resign(b) \in Bodies
      /\ r.syntax = b.syntax /\ r.header = b.header /\ b.fields \in SUBSET Fields
      /\ r.fields = {IF Secret(b, f) THEN Put("placeholder", f) ELSE f : f \in b.fields}
      /\ b.tokens \in Seq(Tokens) /\ r.tokens \in Seq(Tokens)
      /\ Len(r.tokens) = Len(b.tokens)
  BY BodyTypes, BodyFields, BodyTokens, RedactedTokens DEF Secret
<1>2. r.fields = b.fields
  <2>1. \A f \in b.fields : (IF Secret(b, f) THEN Put("placeholder", f) ELSE f) = f
    OBVIOUS
  <2>. QED  BY <1>1, <2>1
<1>3. ASSUME NEW t \in Seq(Tokens), Len(t) <= 1
      PROVE  Strip(t) = << >>
  <2>1. CASE t = << >>
    BY <2>1 DEF Strip
  <2>2. CASE t # << >>
    <3>1. Tail(t) \in Seq(Tokens) /\ Len(Tail(t)) = Len(t) - 1 /\ Len(t) \in Nat /\ Len(t) # 0
      BY <2>2, HeadTailProperties, LenProperties, EmptySeq
    <3>2. Len(Tail(t)) = 0
      BY <1>3, <3>1
    <3>. QED  BY <2>2, <3>1, <3>2, EmptySeq DEF Strip
  <2>. QED  BY <2>1, <2>2
<1>4. Strip(r.tokens) = << >> /\ Strip(b.tokens) = << >>
  BY <1>1, <1>3
<1>5. /\ Resign(r).syntax = Resign(b).syntax /\ Resign(r).header = Resign(b).header
      /\ Resign(r).fields = Resign(b).fields /\ Resign(r).tokens = Resign(b).tokens
  <2> HIDE DEF r
  <2>1. Resign(r).tokens = Resign(b).tokens
    <3>1. \A c \in Bodies : Resign(c).tokens = <<"operator">> \o Strip(c.tokens)
      BY BodyTokens
    <3>2. /\ Resign(r).tokens = <<"operator">> \o Strip(r.tokens)
          /\ Resign(b).tokens = <<"operator">> \o Strip(b.tokens)
      BY <1>1, <3>1
    <3>. QED  BY <1>4, <3>2
  <2>2. /\ Resign(r).syntax = Resign(b).syntax /\ Resign(r).header = Resign(b).header
        /\ Resign(r).fields = Resign(b).fields
    BY <1>1, <1>2, BodyFields
  <2>. QED  BY <2>1, <2>2
<1>. QED  BY <1>1, <1>5, SameBody

\* What is sent for a redacted event is what is sent for the captured one.
LEMMA GivenBack ==
    ASSUME NEW e \in Events, opts.creds, ~TokenLost(e), \A f \in e.body.fields : ~Lost(e, f),
           NEW r \in Events, r = [e EXCEPT !.body = Redact(@)]
    PROVE  /\ LoginBody(r) = LoginBody(e)
           /\ BodyFor(r) = BodyFor(e) \/ e.body.tokens # << >>
<1>1. /\ e.body \in Bodies /\ r.body = Redact(e.body) /\ r.body.syntax = e.body.syntax
      /\ r.proto = e.proto /\ r.post = e.post /\ e.body.tokens \in Seq(Tokens)
      /\ Len(e.body.tokens) \in Nat
  BY BodyFields, BodyTokens, LenProperties DEF Events
<1>2. \A f \in e.body.fields : Secret(e.body, f) =>
          e.proto = "cgi" /\ e.post /\ Replaced(e.body, f)
  BY SecretsAreReplaced
<1>3. ASSUME e.body.tokens = << >> PROVE BodyFor(r) = BodyFor(e)
  <2>1. CASE e.proto = "cgi" /\ e.post
    BY <1>1, <1>2, <1>3, <2>1, SubstituteRedacted DEF BodyFor
  <2>2. CASE ~(e.proto = "cgi" /\ e.post)
    BY <1>1, <1>2, <1>3, <2>2, NothingToRedact DEF BodyFor
  <2>. QED  BY <2>1, <2>2
<1>4. LoginBody(r) = LoginBody(e)
  <2>1. CASE Signed(e)
    <3>1. \A f \in e.body.fields : ~Secret(e.body, f)
      BY <1>2, <2>1 DEF Signed
    <3>2. Len(e.body.tokens) <= 1
      <4>1. e.body.tokens = << >> => Len(e.body.tokens) = 0
        BY <1>1, EmptySeq
      <4>. QED  BY <1>1, <4>1 DEF TokenLost
    <3>. QED  BY <1>1, <2>1, <3>1, <3>2, ResignRedacted DEF LoginBody, Signed
  <2>2. CASE ~Signed(e)
    <3>1. e.body.tokens = << >> /\ ~Signed(r)
      BY <1>1, <2>2 DEF TokenLost, Signed
    <3>. QED  BY <1>3, <2>2, <3>1 DEF LoginBody
  <2>. QED  BY <2>1, <2>2
<1>. QED  BY <1>3, <1>4

\* A redacted log is replayed as the captured one would be, but for what Lost and
\* TokenLost name (model.py: redact_event; replay.py: _body_for).
THEOREM RedactionIsUndone == Spec => []RedactedAsCaptured
<1>1. Sending => RedactedAsCaptured
  <2> DEFINE e == log[pos]
  <2> SUFFICES ASSUME Sending, NEW i \in 1..Len(sent), opts.creds, ~TokenLost(e),
                      \A f \in e.body.fields : ~Lost(e, f)
               PROVE  \/ sent[i].body = IF sent[i].auth = "captured"
                                        THEN BodyFor(e) ELSE LoginBody(e)
                      \/ sent[i].auth = "captured" /\ e.body.tokens # << >>
    BY DEF RedactedAsCaptured
  <2>1. /\ log \in Logs /\ pos \in 1..Len(log)
        /\ sent[i].body = IF sent[i].auth = "captured" THEN BodyFor(ev) ELSE LoginBody(ev)
    BY ExchangeHasEvent
  <2>2. e \in Events
    BY <2>1, EventInHand
  <2>3. CASE ~opts.redacted
    BY <2>1, <2>3 DEF ev, Loaded
  <2>4. CASE opts.redacted
    <3>1. ev = [e EXCEPT !.body = Redact(@)] /\ ev \in Events
      BY <2>2, <2>4, BodyTypes DEF ev, Loaded, Events
    <3> HIDE DEF e
    <3>. QED  BY <2>1, <2>2, <3>1, GivenBack
  <2>. QED  BY <2>3, <2>4
<1>. QED  BY <1>1, BodiesInvariant, PTL
=============================================================================
