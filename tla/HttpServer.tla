------------------------------ MODULE HttpServer ------------------------------
(***************************************************************************)
(* The HTTP server as setup() makes it, for one connection at a time       *)
(* (components/http), with the handlers of the repository and of the files *)
(* (main/RepositoryHandler.cpp, components/http/FileHandler.cpp) that the  *)
(* main thread adds while the server's task already runs.                  *)
(*                                                                         *)
(* A request is its method, its path, its credentials, the form of its     *)
(* body and where its text is cut in two, if it is; its number stands for  *)
(* its body.  AppendsHandler, KeepsBody, ContinuesRefused, TriesNext and   *)
(* WaitsForever are no part of the specification: each is a slip in the    *)
(* definition that follows it, and breaks a property below.                *)
(***************************************************************************)
EXTENDS Integers, Sequences

\* DELETE takes the way of POST, with remove() in the place of append().
Text ==
  [method : {"GET", "POST", "PUT"}, path : {"json", "file"},
   creds : {"right", "wrong", "broken"},  \* "broken": not the two words and the two
                                          \* parts that authenticate() indexes
   cut : {"no", "header", "body"},        \* in two: up to the empty line, or after it
   form : {"plain", "other", "array"}]    \* the body: JSON in one line, something else
                                          \* or nothing, or JSON that holds an array

CONSTANTS
  Clients,
  Texts,        \* what they ask
  MaxRequests   \* bound: requests

ASSUME HttpAssumption == Texts \subseteq Text /\ MaxRequests \in Nat /\ "none" \notin Clients

Nobody == "none"

Request == [n : 1..MaxRequests, text : Text]

\* What a text is parsed to that does not begin with a request line; its body is empty.
NoText == [method |-> "", path |-> "", creds |-> "wrong", cut |-> "header", form |-> "other"]
NoRequest == [n |-> 0, text |-> NoText]

Handler == {"json", "file", "default"}

VARIABLES
  link,      \* each client's connection; "left" when only the client closed it
  inbox,     \* what it sent and the server did not read
  asked,     \* the request that it waits for the answer to
  asks,      \* requests (bound)
  handlers,  \* m_pathhandler
  pc,        \* where the server's task is
  con,       \* the client it serves
  req,       \* m_method, m_path and m_header
  body,      \* the request whose body m_body is
  todo,      \* the handlers that were not asked yet
  applied,   \* the bodies that went into the repository
  acked,     \* those that came whole, are plain and were answered with 201
  strays,    \* those that a cut request took for its own and was answered with 201
  since,     \* acked when each client's request was sent
  got,       \* what its last GET of the repository showed of that
  owed       \* requests that it sent less answers that it got

client == <<link, inbox, asked, asks, since>>
parsed == <<req, body, todo>>
ghosts == <<acked, strays, got, owed>>
vars == <<client, handlers, pc, con, parsed, applied, ghosts>>

Boot ==
  /\ link' = [c \in Clients |-> "none"] /\ inbox' = [c \in Clients |-> <<>>]
  /\ asked' = [c \in Clients |-> NoRequest]
  /\ handlers' = <<"default">> /\ pc' = "poll" /\ con' = Nobody
  /\ req' = NoRequest /\ body' = NoRequest /\ todo' = <<>>
  /\ applied' = {} /\ acked' = {} /\ strays' = {}
  /\ since' = [c \in Clients |-> {}] /\ got' = [c \in Clients |-> {}]
  /\ owed' = [c \in Clients |-> 0]

Init ==
  /\ link = [c \in Clients |-> "none"] /\ inbox = [c \in Clients |-> <<>>]
  /\ asked = [c \in Clients |-> NoRequest] /\ asks = 0
  /\ handlers = <<"default">> /\ pc = "poll" /\ con = Nobody
  /\ req = NoRequest /\ body = NoRequest /\ todo = <<>>
  /\ applied = {} /\ acked = {} /\ strays = {}
  /\ since = [c \in Clients |-> {}] /\ got = [c \in Clients |-> {}]
  /\ owed = [c \in Clients |-> 0]

-----------------------------------------------------------------------------
(* setup(): the file handler, then that of the repository.                 *)

AppendsHandler(h) == handlers' = Append(handlers, h)

\* addPathHandler()
AddPathHandler(h) == handlers' = <<h>> \o handlers

Setup ==
  /\ Len(handlers) < 3
  /\ AddPathHandler(IF Len(handlers) = 1 THEN "file" ELSE "json")
  /\ UNCHANGED <<client, pc, con, parsed, applied, ghosts>>

-----------------------------------------------------------------------------
(* The clients: one request at a time.                                     *)

Send(c, r) ==
  /\ asks < MaxRequests /\ asks' = asks + 1
  /\ asked' = [asked EXCEPT ![c] = r]
  /\ inbox' = [inbox EXCEPT ![c] =
       @ \o IF r.text.cut = "no" THEN <<[r |-> r, what |-> "whole"]>>
            ELSE <<[r |-> r, what |-> "head"], [r |-> r, what |-> "rest"]>>]
  /\ since' = [since EXCEPT ![c] = acked]
  /\ got' = [got EXCEPT ![c] = {}]
  /\ owed' = [owed EXCEPT ![c] = @ + 1]

Connect(c, r) ==
  /\ link[c] = "none"
  /\ Send(c, r)
  /\ link' = [link EXCEPT ![c] = "backlog"]
  /\ UNCHANGED <<handlers, pc, con, parsed, applied, acked, strays>>

Ask(c, r) ==
  /\ link[c] = "open" /\ asked[c] = NoRequest
  /\ Send(c, r)
  /\ UNCHANGED <<link, handlers, pc, con, parsed, applied, acked, strays>>

Ends(c) ==
  /\ inbox' = [inbox EXCEPT ![c] = <<>>]
  /\ asked' = [asked EXCEPT ![c] = NoRequest]
  /\ since' = [since EXCEPT ![c] = {}] /\ got' = [got EXCEPT ![c] = {}]
  /\ owed' = [owed EXCEPT ![c] = 0]

Leave(c) ==
  /\ \/ /\ link[c] = "backlog" /\ link' = [link EXCEPT ![c] = "none"]
        /\ Ends(c)
     \/ /\ link[c] = "open" /\ link' = [link EXCEPT ![c] = "left"]
        /\ UNCHANGED <<inbox, asked, since, got, owed>>
  /\ UNCHANGED <<asks, handlers, pc, con, parsed, applied, acked, strays>>

-----------------------------------------------------------------------------
(* task() and handleConnection().                                          *)

Poll ==
  /\ pc = "poll"
  /\ \E c \in Clients : link[c] = "backlog"
  /\ pc' = "accept"
  /\ UNCHANGED <<client, handlers, con, parsed, applied, ghosts>>

Accept ==
  /\ pc = "accept"
  /\ \E c \in Clients :
       /\ link[c] = "backlog" /\ link' = [link EXCEPT ![c] = "open"]
       /\ con' = c
  /\ req' = NoRequest /\ body' = NoRequest
  /\ pc' = "serve"
  /\ UNCHANGED <<inbox, asked, asks, since, handlers, todo, applied, ghosts>>

\* The connection went away after the poll: the null pointer is used, and the
\* firmware starts anew.
AcceptFails ==
  /\ pc = "accept"
  /\ \A c \in Clients : link[c] # "backlog"
  /\ Boot /\ UNCHANGED asks

Close ==
  /\ link' = [link EXCEPT ![con] = "none"]
  /\ Ends(con)
  /\ pc' = "poll" /\ con' = Nobody
  /\ UNCHANGED <<asks, handlers, parsed, applied, acked, strays>>

WaitsForever == pc = "serve" /\ link[con] = "left" /\ inbox[con] = <<>> /\ Close

\* Five seconds since the last answer; or the read fails, as the client left.
Expire == pc = "serve" /\ Close

\* analyze(): m_body is the line after the empty line, if there is one.  That of a GET
\* is empty, and a part of a body is no JSON.
KeepsBody(r) ==
  body' = IF r.text.cut = "no" /\ r.text.method # "GET" /\ body = NoRequest THEN r ELSE body

Body(r) ==
  body' = CASE r.text.cut = "header" -> body
            [] r.text.cut = "no" /\ r.text.method # "GET" -> r
            [] OTHER -> NoRequest

Parsed(r) ==
  /\ req' = r
  /\ todo' = handlers
  /\ pc' = "match"
  /\ UNCHANGED <<asks, link, asked, since, handlers, con, applied, ghosts>>

Analyze(r) == Parsed(r) /\ Body(r)

\* What is found before the cut: the credentials, a part of them or none, or not even
\* a request line.
Before(r) ==
  IF r.text.cut = "header"
  THEN {[r EXCEPT !.text.creds = c] : c \in {r.text.creds, "broken", "wrong"}} \cup {NoRequest}
  ELSE {r}

\* parse(): what has arrived is taken for a whole request.
Read ==
  /\ pc = "serve" /\ inbox[con] # <<>>
  /\ LET first == Head(inbox[con]) IN
     \/ /\ first.what # "rest"
        /\ inbox' = [inbox EXCEPT ![con] = Tail(@)]
        /\ \E r \in Before(first.r) : Analyze(r)
     \/ /\ first.what = "head"
        /\ inbox' = [inbox EXCEPT ![con] = Tail(Tail(@))]
        /\ Analyze([first.r EXCEPT !.text.cut = "no"])

\* The rest of a request, and what was sent after it: the first empty line may be that
\* of any request whose text is read, or none.
ReadRest ==
  /\ pc = "serve" /\ inbox[con] # <<>> /\ Head(inbox[con]).what = "rest"
  /\ \E k \in 1..Len(inbox[con]) :
       /\ inbox' = [inbox EXCEPT ![con] = SubSeq(@, k + 1, Len(@))]
       /\ body' \in {body, NoRequest} \cup {inbox[con][j].r : j \in 1..k}
  /\ Parsed(NoRequest)

\* A text that does not end with a line has no empty one: analyze() reads behind the
\* last, and what lies there is empty, as above, or ends the firmware.
ReadBehind ==
  /\ pc = "serve" /\ inbox[con] # <<>>
  /\ \/ Head(inbox[con]).what = "rest"
     \/ Head(inbox[con]).what = "head" /\ Head(inbox[con]).r.text.cut = "header"
  /\ Boot /\ UNCHANGED asks

\* match() of the handlers; HttpAuth asks the handler that it protects.
Matches(h, r) ==
  CASE h = "json" -> r.text.path = "json" /\ r.text.method \in {"GET", "POST"}
    [] h = "file" -> r.text.method = "GET"
    [] h = "default" -> TRUE

Match ==
  /\ pc = "match"
  /\ IF Matches(Head(todo), req)
     THEN pc' = "handle" /\ UNCHANGED todo
     ELSE todo' = Tail(todo) /\ UNCHANGED pc
  /\ UNCHANGED <<client, handlers, con, req, body, applied, ghosts>>

-----------------------------------------------------------------------------
(* handle() of the handlers.                                               *)

By(h) == pc = "handle" /\ Head(todo) = h

\* The client takes what comes for the answer to what it asked.
Answer ==
  /\ asked' = [asked EXCEPT ![con] = NoRequest]
  /\ owed' = IF req = NoRequest THEN owed ELSE [owed EXCEPT ![con] = @ - 1]
  /\ since' = [since EXCEPT ![con] = {}]

\* 401
ContinuesRefused ==
  /\ By("json") /\ req.text.creds # "right"
  /\ Answer /\ pc' = IF req.text.method = "POST" THEN "apply" ELSE "serve"
  /\ UNCHANGED <<link, inbox, asks, handlers, con, parsed, applied, acked, strays, got>>

TriesNext ==
  /\ By("json") /\ req.text.creds # "right"
  /\ Answer /\ pc' = "match" /\ todo' = Tail(todo)
  /\ UNCHANGED <<link, inbox, asks, handlers, con, req, body, applied, acked, strays, got>>

Refuse ==
  /\ By("json") /\ req.text.creds # "right"
  /\ Answer /\ pc' = "serve"
  /\ UNCHANGED <<link, inbox, asks, handlers, con, parsed, applied, acked, strays, got>>

\* authenticate() indexes behind the words or the parts of a broken header: what lies
\* there is no password, or ends the firmware.
RefuseFails ==
  /\ By("json") /\ req.text.creds = "broken"
  /\ Boot /\ UNCHANGED asks

\* 200, with what the repository holds
Get ==
  /\ By("json") /\ req.text.creds = "right" /\ req.text.method = "GET"
  /\ Answer /\ pc' = "serve"
  /\ got' = [got EXCEPT ![con] = since[con] \ applied]
  /\ UNCHANGED <<link, inbox, asks, handlers, con, parsed, applied, acked, strays>>

\* 201, before the body goes into the repository
Post ==
  /\ By("json") /\ req.text.creds = "right" /\ req.text.method = "POST"
  /\ Answer /\ pc' = "apply"
  /\ acked' = IF req.text.cut = "no" /\ req.text.form = "plain" THEN acked \cup {req.n} ELSE acked
  /\ strays' = IF req.text.cut = "header" THEN strays \cup {body.n} ELSE strays
  /\ UNCHANGED <<link, inbox, asks, handlers, con, parsed, applied, got>>

\* append() drops what does not parse; the keys of an array end the firmware.
Apply ==
  /\ pc = "apply" /\ body.text.form # "array" /\ pc' = "serve"
  /\ applied' = IF body.text.form = "plain" THEN applied \cup {body.n} ELSE applied
  /\ UNCHANGED <<client, handlers, con, parsed, ghosts>>

ApplyFails ==
  /\ pc = "apply" /\ body.text.form = "array"
  /\ Boot /\ UNCHANGED asks

\* A file or 404
Other ==
  /\ By("file") \/ By("default")
  /\ Answer /\ pc' = "serve"
  /\ UNCHANGED <<link, inbox, asks, handlers, con, parsed, applied, acked, strays, got>>

-----------------------------------------------------------------------------
Serve ==
  Poll \/ Accept \/ AcceptFails \/ Read \/ ReadRest \/ ReadBehind \/ Match
    \/ Refuse \/ RefuseFails \/ Get \/ Post \/ Apply \/ ApplyFails \/ Other

Next ==
  \/ Setup \/ Serve \/ Expire
  \/ \E c \in Clients, t \in Texts :
       LET r == [n |-> asks + 1, text |-> t] IN Connect(c, r) \/ Ask(c, r)
  \/ \E c \in Clients : Leave(c)

Spec == Init /\ [][Next]_vars

\* The server's task runs, and so does the clock.
FairSpec == Spec /\ WF_vars(Setup) /\ WF_vars(Serve) /\ WF_vars(Expire)

-----------------------------------------------------------------------------
(* Properties.                                                             *)

Numbers == 1..MaxRequests

\* Every variable has its type.
TypeOK ==
  /\ link \in [Clients -> {"none", "backlog", "open", "left"}]
  /\ \A c \in Clients : \A k \in DOMAIN inbox[c] :
       inbox[c][k] \in [r : Request, what : {"whole", "head", "rest"}]
  /\ asked \in [Clients -> Request \cup {NoRequest}] /\ asks \in 0..MaxRequests
  /\ handlers \in {<<"default">>, <<"file", "default">>, <<"json", "file", "default">>}
  /\ pc \in {"poll", "accept", "serve", "match", "handle", "apply"}
  /\ con \in Clients \cup {Nobody}
  /\ req \in Request \cup {NoRequest} /\ body \in Request \cup {NoRequest}
  /\ todo \in Seq(Handler)
  /\ applied \subseteq Numbers /\ acked \subseteq Numbers
  /\ strays \subseteq Numbers \cup {0}
  /\ since \in [Clients -> SUBSET Numbers] /\ got \in [Clients -> SUBSET Numbers]

\* What was acknowledged, whole and plain, is in the repository before the next request
\* is read, although 201 is sent first; and nothing else is there, least of all what was
\* refused.  The exception is a POST that is cut in its header lines: it is acknowledged
\* too, and what is stored is the body that the connection's last text left behind.
AppliedIsAcked ==
  pc \notin {"handle", "apply"} => acked \subseteq applied /\ applied \subseteq acked \cup strays

\* What any client was told to be stored, every later GET shows, of whatever client.
ReadsWrites == \A c \in Clients : got[c] = {}

\* No request gets two answers, but for those to the rest of one that was cut.
OneAnswer == \A c \in Clients : owed[c] >= 0

\* Whoever asks is answered or loses the connection, also those who wait in the
\* backlog, once the client in front of them falls silent.
Served == \A c \in Clients : asked[c] # NoRequest ~> asked[c] = NoRequest
=============================================================================
