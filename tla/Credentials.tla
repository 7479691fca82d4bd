----------------------------- MODULE Credentials -----------------------------
(***************************************************************************)
(* What happens to the credentials inside a request's body: redact_text    *)
(* (model.py) hides them before a log leaves the machine, and              *)
(* substitute_credentials (replay.py) and resign (wsse.py) put the         *)
(* operator's in their place when it is replayed.                          *)
(*                                                                         *)
(* A body is its syntax, its fields and its UsernameTokens.  "form" is one *)
(* line of key=value, "lines" is several, "list" a JSON body that is not   *)
(* one object, "text" has nothing to find, "binary" was not captured.  In  *)
(* "soap", header says whether the envelope has a Header, perhaps the      *)
(* empty <Header/>, beside which a token may then stand, and tokens are    *)
(* those of its Security elements, in order.  A field's key stands for its *)
(* class: "password" (also passwd, pwd), "pass" (that very word), "user"   *)
(* (username, user, login, account), "name", "secret" (secret, token, api  *)
(* key), "plain" for the rest.  It is deep when it is not at the top       *)
(* level.  A value or a token is a text or a number as captured, the       *)
(* placeholder "<redacted>", or the operator's.                            *)
(***************************************************************************)
EXTENDS Naturals, Sequences

Syntaxes == {"no", "json", "list", "form", "lines", "soap", "text", "binary"}
Fields == [key : {"password", "pass", "user", "name", "secret", "plain"},
           deep : BOOLEAN, value : {"text", "number", "placeholder", "operator"}]
Tokens == {"text", "placeholder", "operator"}
Bodies == [syntax : Syntaxes, header : {"none", "open", "empty", "beside"},
           fields : SUBSET Fields, tokens : Seq(Tokens)]

HasKey(b, keys) == \E f \in b.fields : f.key \in keys

Put(value, f) == [f EXCEPT !.value = value]

----------------------------------------------------------------------------
\* The keys redact_text looks for: in JSON at every depth (redact_json), else by
\* the regular expressions of forms and of Password elements.
SecretKeys(syntax) ==
    CASE syntax \in {"json", "list"}  -> {"password", "secret"}
      [] syntax \in {"form", "lines"} -> {"password", "pass", "secret"}
      [] syntax = "soap"              -> {"password"}
      [] OTHER                        -> {}

Redact(b) ==
    [b EXCEPT !.fields = {IF f.key \in SecretKeys(b.syntax) THEN Put("placeholder", f) ELSE f :
                             f \in @},
              !.tokens = IF b.syntax = "soap" THEN [i \in DOMAIN @ |-> "placeholder"] ELSE @]

----------------------------------------------------------------------------
\* A form is taken for a login by its password; a JSON object needs none.
IsLogin(b) == b.syntax = "form" /\ HasKey(b, {"password", "pass"})

\* Mutants: only a placeholder is replaced; "pass=" is forgotten.
ReplacedPlaceholders(b, f) ==
    /\ (b.syntax = "json" /\ ~f.deep) \/ IsLogin(b)
    /\ f.key \in {"password", "pass", "user"} /\ f.value = "placeholder"
ReplacedNotPass(b, f) ==
    \/ b.syntax = "json" /\ ~f.deep /\ f.value # "number" /\ f.key \in {"password", "user", "name"}
    \/ IsLogin(b) /\ f.key \in {"password", "user"}

\* The fields that substitute_credentials replaces.
Replaced(b, f) ==
    \/ /\ b.syntax = "json" /\ ~f.deep /\ f.value # "number"
       /\ f.key \in {"password", "user", "name"}
    \/ IsLogin(b) /\ f.key \in {"password", "pass", "user"}

Substitute(b) ==
    [b EXCEPT !.fields = {IF Replaced(b, f) THEN Put("operator", f) ELSE f : f \in @}]

----------------------------------------------------------------------------
\* Mutant: the captured token stays.
StripNone(tokens) == tokens

\* strip_security: only the first.
Strip(tokens) == IF tokens = << >> THEN tokens ELSE Tail(tokens)

\* resign, of an envelope: the new token goes behind the opening tag of the
\* Header, which for an empty one is outside of it, or with a Header of its own
\* before the Body.
Resign(b) ==
    [b EXCEPT
        !.header = IF @ = "none" THEN "open" ELSE IF @ = "empty" THEN "beside" ELSE @,
        !.tokens = <<"operator">> \o Strip(@)]
============================================================================
