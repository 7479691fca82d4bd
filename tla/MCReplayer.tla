----------------------------- MODULE MCReplayer -----------------------------
(* Instance of Replayer for TLC. *)
EXTENDS Replayer

Event(proto, status, cookie, basic, post, body) ==
    [proto |-> proto, status |-> status, cookie |-> cookie, basic |-> basic,
     post |-> post, body |-> body]

Written(syntax, header, fields, tokens) ==
    [syntax |-> syntax, header |-> header, tokens |-> tokens,
     fields |-> {[key |-> f[1], deep |-> f[2], value |-> f[3]] : f \in fields}]

Body(syntax, fields) == Written(syntax, "none", fields, << >>)
Empty == Body("no", {})
Envelope(header, fields, tokens) == Written("soap", header, fields, tokens)
User == <<"user", FALSE, "text">>
Token == "text"

\* A command, and one of a logged-in session, by CGI and by ONVIF.
Command == Event("cgi", 200, "no", FALSE, FALSE, Empty)
InSession == {Event("cgi", 200, "sent", FALSE, FALSE, Empty),
              Event("onvif", 200, "sent", FALSE, TRUE, Envelope("open", {}, <<Token>>))}

\* A stream; a command refused when captured, one captured with Basic and never
\* answered, ONVIF without an envelope, and a body that was not captured.
Stream == Event("rtsp", 200, "no", FALSE, FALSE, Empty)
Others == {Event("cgi", 401, "no", FALSE, FALSE, Empty),
           Event("cgi", 0, "no", TRUE, TRUE, Body("text", {})),
           Event("onvif", 200, "no", FALSE, TRUE, Body("text", {})),
           Event("cgi", 200, "no", FALSE, TRUE, Body("binary", {}))}

\* Logins, and other bodies that hold what looks like one.
Passwords == {<<"password", FALSE, "text">>, <<"password", TRUE, "text">>,
              <<"password", FALSE, "number">>, <<"pass", FALSE, "text">>}
Logins ==
    {Event("cgi", 200, "set", FALSE, TRUE, Body(x, {User, p})) :
        x \in {"json", "form", "lines"}, p \in Passwords}
    \cup
    {Event("cgi", 200, "set", FALSE, TRUE, Body("json", {<<"name", FALSE, "text">>})),
     Event("cgi", 200, "no", FALSE, FALSE, Body("form", {User})),
     Event("cgi", 200, "no", FALSE, TRUE, Body("list", {<<"password", TRUE, "text">>})),
     Event("cgi", 200, "no", FALSE, TRUE, Body("form", {<<"secret", FALSE, "text">>})),
     Event("onvif", 200, "no", FALSE, TRUE, Envelope("none", {<<"password", TRUE, "text">>}, << >>)),
     Event("onvif", 200, "no", FALSE, TRUE, Envelope("empty", {}, << >>)),
     Event("onvif", 200, "no", FALSE, TRUE, Envelope("open", {}, <<Token, Token>>)),
     Event("onvif", 200, "no", FALSE, TRUE, Body("json", {User, <<"password", FALSE, "text">>})),
     Event("cgi", 200, "no", FALSE, TRUE, Envelope("open", {}, <<Token>>))}

Session == Event("cgi", 200, "set", FALSE, TRUE,
                 Body("json", {User, <<"password", FALSE, "text">>}))

Firsts == {Command, Stream, Session} \cup InSession
Seconds == {Command} \cup InSession

\* Each event alone, and two in a row where the first can leave something behind
\* that the second depends on.
ReplayedLogs ==
    {<< >>} \cup {<<e>> : e \in Firsts \cup Others \cup Logins}
            \cup {<<e, f>> : e \in Firsts, f \in Seconds}

LoginLogs == {<<e>> : e \in Logins}
============================================================================
