----------------------------- MODULE HttpServerMC -----------------------------
(***************************************************************************)
(* A small instance of HttpServer: each kind of request that the server    *)
(* treats in its own way.  With broken credentials it may do all that it   *)
(* does with wrong ones.                                                   *)
(***************************************************************************)
EXTENDS HttpServer

Plain(method, path, creds, cut) ==
  [method |-> method, path |-> path, creds |-> creds, cut |-> cut, form |-> "plain"]

MCTexts ==
  {Plain("GET", "json", "right", cut) : cut \in {"no", "header"}}
    \cup {Plain("POST", "json", "right", cut) : cut \in {"no", "header", "body"}}
    \cup {Plain("POST", "json", "broken", "no")}
    \cup {[Plain("POST", "json", "right", "no") EXCEPT !.form = form] : form \in {"other", "array"}}
    \cup {Plain("GET", "file", "wrong", "no")}
=============================================================================
