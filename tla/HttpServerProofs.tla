--------------------------- MODULE HttpServerProofs ---------------------------
(***************************************************************************)
(* Four facts about HttpServer, for any clients and any number of          *)
(* requests: its variables keep their types, what is applied is what was   *)
(* acknowledged or left behind by the text before a cut one, a read shows  *)
(* every write that was, and no request is answered twice.                 *)
(***************************************************************************)
EXTENDS HttpServer, SequenceTheorems, FiniteSetTheorems, TLAPS

Message == [r : Request, what : {"whole", "head", "rest"}]

\* m_pathhandler, and what is left of it for a request.
Chain == {<<"default">>, <<"file", "default">>, <<"json", "file", "default">>}

TypedClients ==
  /\ link \in [Clients -> {"none", "backlog", "open", "left"}]
  /\ inbox \in [Clients -> Seq(Message)]
  /\ asked \in [Clients -> Request \cup {NoRequest}]
  /\ asks \in 0..MaxRequests
  /\ since \in [Clients -> SUBSET Numbers] /\ got \in [Clients -> SUBSET Numbers]

TypedServer ==
  /\ handlers \in Chain
  /\ pc \in {"poll", "accept", "serve", "match", "handle", "apply"}
  /\ con \in Clients \cup {Nobody}
  /\ pc \notin {"poll", "accept"} => con \in Clients
  /\ req \in Request \cup {NoRequest} /\ body \in Request \cup {NoRequest}
  /\ todo \in Chain \cup {<<>>}
  /\ pc \in {"match", "handle"} => todo \in Chain
  /\ applied \subseteq Numbers /\ acked \subseteq Numbers
  /\ strays \subseteq Numbers \cup {0}

\* The header of a request in two pieces comes before its rest.
HeadThenRest ==
  \A c \in Clients : \A k \in 1..Len(inbox[c]) :
    inbox[c][k].what = "head" => k < Len(inbox[c])

Typed == TypedClients /\ TypedServer /\ HeadThenRest

-----------------------------------------------------------------------------
(* Sequences and requests.                                                 *)

\* What is left of a sequence without its head.
LEMMA TailFacts ==
  ASSUME NEW S, NEW s \in Seq(S), s # <<>>
  PROVE  /\ Tail(s) \in Seq(S) /\ Len(Tail(s)) = Len(s) - 1 /\ Len(s) \in Nat \ {0}
         /\ Head(s) = s[1] /\ Head(s) \in S
         /\ \A k \in 1..Len(Tail(s)) : Tail(s)[k] = s[k + 1]
OBVIOUS

\* What two sequences hold together.
LEMMA JoinFacts ==
  ASSUME NEW S, NEW s \in Seq(S), NEW t \in Seq(S)
  PROVE  /\ s \o t \in Seq(S) /\ Len(s \o t) = Len(s) + Len(t)
         /\ \A k \in 1..Len(s) : (s \o t)[k] = s[k]
         /\ \A k \in (Len(s) + 1)..(Len(s) + Len(t)) : (s \o t)[k] = t[k - Len(s)]
OBVIOUS

\* What addPathHandler() makes of the two handlers that setup() adds.
LEMMA InFront ==
  /\ <<"file">> \o <<"default">> = <<"file", "default">>
  /\ <<"json">> \o <<"file", "default">> = <<"json", "file", "default">>
<1>1. <<"file">> \o <<"default">> = <<"file", "default">>
  <2> DEFINE s == <<"file">>  t == <<"default">>  st == <<"file", "default">>
  <2>1. s \in Seq(Handler) /\ t \in Seq(Handler) /\ st \in Seq(Handler)
    <3>1. "file" \in Handler /\ "json" \in Handler /\ "default" \in Handler
      BY DEF Handler
    <3>2. s \in Seq(Handler)
      BY <3>1
    <3>3. t \in Seq(Handler)
      BY <3>1
    <3>4. st \in Seq(Handler)
      BY <3>1
    <3> QED BY <3>2, <3>3, <3>4
  <2>2. Len(s) = 1 /\ Len(t) = 1 /\ Len(st) = 2
    OBVIOUS
  <2>3. s[1] = "file" /\ t[1] = "default" /\ st[1] = "file" /\ st[2] = "default"
    OBVIOUS
  <2> HIDE DEF s, t, st
  <2>4. s \o t \in Seq(Handler) /\ Len(s \o t) = 2 /\ \A k \in 1..2 : (s \o t)[k] = st[k]
    <3>1. s \o t \in Seq(Handler) /\ Len(s \o t) = Len(st)
      BY <2>1, <2>2, JoinFacts
    <3>2. \A k \in 1..Len(s) : (s \o t)[k] = s[k]
      BY <2>1, JoinFacts
    <3>3. \A k \in (Len(s) + 1)..(Len(s) + Len(t)) : (s \o t)[k] = t[k - Len(s)]
      BY <2>1, JoinFacts
    <3> QED BY <3>1, <3>2, <3>3, <2>3, <2>2
  <2>5. s \o t = st
    BY <2>1, <2>4, <2>2, SeqEqual
  <2> QED BY <2>5 DEF s, t, st
<1>2. <<"json">> \o <<"file", "default">> = <<"json", "file", "default">>
  <2> DEFINE s == <<"json">>  t == <<"file", "default">>  st == <<"json", "file", "default">>
  <2>1. s \in Seq(Handler) /\ t \in Seq(Handler) /\ st \in Seq(Handler)
    <3>1. "file" \in Handler /\ "json" \in Handler /\ "default" \in Handler
      BY DEF Handler
    <3>2. s \in Seq(Handler)
      BY <3>1
    <3>3. t \in Seq(Handler)
      BY <3>1
    <3>4. st \in Seq(Handler)
      BY <3>1
    <3> QED BY <3>2, <3>3, <3>4
  <2>2. Len(s) = 1 /\ Len(t) = 2 /\ Len(st) = 3
    OBVIOUS
  <2>3. s[1] = "json" /\ t[1] = "file" /\ t[2] = "default" /\ st[1] = "json" /\ st[2] = "file" /\ st[3] = "default"
    OBVIOUS
  <2> HIDE DEF s, t, st
  <2>4. s \o t \in Seq(Handler) /\ Len(s \o t) = 3 /\ \A k \in 1..3 : (s \o t)[k] = st[k]
    <3>0. s \o t \in Seq(Handler) /\ Len(s \o t) = Len(s) + Len(t)
      BY <2>1, JoinFacts
    <3>1. s \o t \in Seq(Handler) /\ Len(s \o t) = Len(st)
      BY <3>0, <2>2
    <3>2. \A k \in 1..Len(s) : (s \o t)[k] = s[k]
      BY <2>1, JoinFacts
    <3>3. \A k \in (Len(s) + 1)..(Len(s) + Len(t)) : (s \o t)[k] = t[k - Len(s)]
      BY <2>1, JoinFacts
    <3>4. (s \o t)[1] = st[1] /\ (s \o t)[2] = st[2] /\ (s \o t)[3] = st[3]
      <4>1. (s \o t)[1] = s[1]
        BY <3>2, <2>2
      <4>2. (s \o t)[2] = t[1]
        BY <3>3, <2>2
      <4>3. (s \o t)[3] = t[2]
        BY <3>3, <2>2
      <4> QED BY <4>1, <4>2, <4>3, <2>3
    <3>5. \A k \in 1..3 : k = 1 \/ k = 2 \/ k = 3
      OBVIOUS
    <3> QED BY <3>1, <3>4, <3>5, <2>2
  <2>5. s \o t = st
    BY <2>1, <2>4, <2>2, SeqEqual
  <2> QED BY <2>5 DEF s, t, st
<1> QED BY <1>1, <1>2

\* The parts of a request.
LEMMA RequestFacts ==
  ASSUME NEW r \in Request
  PROVE  r.n \in Numbers /\ r.n # 0 /\ r # NoRequest /\ r.text \in Text
<1>1. r.n \in 1..MaxRequests /\ r.text \in Text
  BY DEF Request
<1>2. r.n # 0
  BY <1>1, HttpAssumption
<1>3. NoRequest.n = 0
  BY DEF NoRequest
<1> QED BY <1>1, <1>2, <1>3 DEF Numbers

\* The parts of none.
LEMMA NoRequestFacts ==
  NoRequest.n = 0 /\ NoRequest.text.method = "" /\ NoRequest.text.form = "other"
<1>1. NoRequest.n = 0 /\ NoRequest.text = NoText
  BY DEF NoRequest
<1>2. NoText.method = "" /\ NoText.form = "other"
  BY DEF NoText
<1> QED BY <1>1, <1>2

\* What a piece of a request, or all of it, is taken for is that request, with other
\* credentials at most, or none.
LEMMA PieceFacts ==
  ASSUME NEW r \in Request
  PROVE  /\ [r EXCEPT !.text.cut = "no"] \in Request /\ [r EXCEPT !.text.cut = "no"].n = r.n
         /\ \A q \in Before(r) : q = NoRequest \/ (q \in Request /\ q.n = r.n)
<1>1. /\ [r EXCEPT !.text.cut = "no"] \in Request /\ [r EXCEPT !.text.cut = "no"].n = r.n
      /\ \A c \in {"right", "wrong", "broken"} :
           [r EXCEPT !.text.creds = c] \in Request /\ [r EXCEPT !.text.creds = c].n = r.n
  BY DEF Request, Text
<1>2. r.text.creds \in {"right", "wrong", "broken"}
  BY DEF Request, Text
<1>3. ASSUME NEW q \in Before(r)
      PROVE  q = NoRequest \/ (q \in Request /\ q.n = r.n)
  <2>1. \/ q = NoRequest \/ q = r
        \/ \E c \in {"right", "wrong", "broken"} : q = [r EXCEPT !.text.creds = c]
    BY <1>2, <1>3 DEF Before
  <2> QED BY <1>1, <2>1
<1> QED BY <1>1, <1>3

\* A request that is sent is one of those asked, with the next number.
LEMMA SentFacts ==
  ASSUME Typed, NEW t \in Texts, asks < MaxRequests
  PROVE  [n |-> asks + 1, text |-> t] \in Request
<1>1. asks + 1 \in 1..MaxRequests /\ t \in Text
  BY HttpAssumption DEF Typed, TypedClients
<1> QED BY <1>1 DEF Request

\* A path through the handlers ends with the default one.
LEMMA ChainFacts ==
  ASSUME NEW s \in Chain
  PROVE  /\ s # <<>> /\ Head(s) \in Handler
         /\ Head(s) # "default" => Tail(s) \in Chain
<1>1. CASE s = <<"default">>
  <2>1. s # <<>> /\ Head(s) = "default"
    BY <1>1
  <2> QED BY <2>1 DEF Handler
<1>2. CASE s = <<"file", "default">>
  <2>1. s # <<>> /\ Head(s) = "file" /\ Tail(s) = <<"default">>
    BY <1>2
  <2> QED BY <2>1 DEF Handler, Chain
<1>3. CASE s = <<"json", "file", "default">>
  <2>1. s # <<>> /\ Head(s) = "json" /\ Tail(s) = <<"file", "default">>
    BY <1>3
  <2> QED BY <2>1 DEF Handler, Chain
<1> QED BY <1>1, <1>2, <1>3 DEF Chain

\* The default handler takes every request.
LEMMA DefaultMatches == ASSUME NEW r PROVE Matches("default", r)
BY DEF Matches

-----------------------------------------------------------------------------
(* Types.                                                                  *)

\* What the client sends arrives behind what it sent before.
LEMMA SendTyped ==
  ASSUME Typed, NEW c \in Clients, NEW r \in Request, Send(c, r)
  PROVE  /\ inbox' \in [Clients -> Seq(Message)] /\ HeadThenRest'
         /\ asked' \in [Clients -> Request \cup {NoRequest}] /\ asks' \in 0..MaxRequests
         /\ since' \in [Clients -> SUBSET Numbers] /\ got' \in [Clients -> SUBSET Numbers]
<1> DEFINE new == IF r.text.cut = "no" THEN <<[r |-> r, what |-> "whole"]>>
                  ELSE <<[r |-> r, what |-> "head"], [r |-> r, what |-> "rest"]>>
<1>1. new \in Seq(Message)
  <2>1. /\ [r |-> r, what |-> "whole"] \in Message
        /\ [r |-> r, what |-> "head"] \in Message
        /\ [r |-> r, what |-> "rest"] \in Message
    BY DEF Message
  <2> QED BY <2>1
<1>2. \A k \in 1..Len(new) : new[k].what = "head" => k < Len(new)
  OBVIOUS
<1>3. inbox' = [inbox EXCEPT ![c] = @ \o new]
  BY DEF Send
<1> HIDE DEF new
<1>4. inbox[c] \in Seq(Message) /\ inbox[c] \o new \in Seq(Message)
  BY <1>1 DEF Typed, TypedClients
<1>5. inbox' \in [Clients -> Seq(Message)]
  BY <1>3, <1>4 DEF Typed, TypedClients
<1>6. HeadThenRest'
  <2> SUFFICES ASSUME NEW d \in Clients, NEW k \in 1..Len(inbox'[d]), inbox'[d][k].what = "head"
               PROVE  k < Len(inbox'[d])
    BY DEF HeadThenRest
  <2>1. CASE d # c
    BY <2>1, <1>3 DEF Typed, TypedClients, HeadThenRest
  <2>2. CASE d = c
    <3>1. inbox'[d] = inbox[c] \o new
      BY <2>2, <1>3 DEF Typed, TypedClients
    <3>2. Len(inbox'[d]) = Len(inbox[c]) + Len(new) /\ Len(inbox[c]) \in Nat /\ Len(new) \in Nat
      BY <3>1, <1>1, <1>4
    <3>3. CASE k \in 1..Len(inbox[c])
      <4>1. inbox'[d][k] = inbox[c][k]
        BY <3>1, <3>3, <1>1, <1>4, JoinFacts
      <4> QED BY <4>1, <3>2, <3>3 DEF Typed, HeadThenRest
    <3>4. CASE k \in (Len(inbox[c]) + 1)..(Len(inbox[c]) + Len(new))
      <4>1. inbox'[d][k] = new[k - Len(inbox[c])] /\ k - Len(inbox[c]) \in 1..Len(new)
        BY <3>1, <3>2, <3>4, <1>1, <1>4, JoinFacts
      <4> QED BY <4>1, <3>2, <1>2
    <3> QED BY <3>2, <3>3, <3>4
  <2> QED BY <2>1, <2>2
<1>7. /\ asked' = [asked EXCEPT ![c] = r] /\ asks < MaxRequests /\ asks' = asks + 1
      /\ since' = [since EXCEPT ![c] = acked] /\ got' = [got EXCEPT ![c] = {}]
  BY DEF Send
<1>8. acked \subseteq Numbers /\ asks \in 0..MaxRequests
  BY DEF Typed, TypedClients, TypedServer
<1>9. asks' \in 0..MaxRequests
  BY <1>7, <1>8, HttpAssumption
<1>10. /\ asked' \in [Clients -> Request \cup {NoRequest}]
       /\ since' \in [Clients -> SUBSET Numbers] /\ got' \in [Clients -> SUBSET Numbers]
  BY <1>7, <1>8 DEF Typed, TypedClients
<1> QED BY <1>5, <1>6, <1>9, <1>10

\* What waits for d after the step waited before it, s places further back.
Suffix(d, s) ==
  \A k \in 1..Len(inbox'[d]) :
    k + s \in 1..Len(inbox[d]) /\ inbox'[d][k] = inbox[d][k + s]

\* What is read of an inbox are its first messages.
Reads(s) ==
  /\ s \in 1..Len(inbox[con])
  /\ inbox' = [inbox EXCEPT ![con] = SubSeq(@, s + 1, Len(@))]

\* What is left of a sequence without its first elements.
LEMMA SubFacts ==
  ASSUME NEW S, NEW box \in Seq(S), NEW s \in 1..Len(box)
  PROVE  /\ SubSeq(box, s + 1, Len(box)) \in Seq(S)
         /\ Len(SubSeq(box, s + 1, Len(box))) = Len(box) - s
         /\ \A k \in 1..(Len(box) - s) : SubSeq(box, s + 1, Len(box))[k] = box[k + s] /\ k + s \in 1..Len(box)
OBVIOUS

\* The step that takes what arrived first, or a request in two pieces, reads as many.
LEMMA ReadsFew ==
  ASSUME Typed, con \in Clients, inbox[con] # <<>>
  PROVE  /\ inbox' = [inbox EXCEPT ![con] = Tail(@)] => Reads(1)
         /\ Head(inbox[con]).what = "head" /\ inbox' = [inbox EXCEPT ![con] = Tail(Tail(@))] => Reads(2)
         /\ 1 \in 1..Len(inbox[con]) /\ Head(inbox[con]) = inbox[con][1] /\ Head(inbox[con]) \in Message
<1> DEFINE box == inbox[con]
<1>1. box \in Seq(Message) /\ box # <<>> /\ inbox \in [Clients -> Seq(Message)]
  BY DEF Typed, TypedClients
<1>2. Len(box) \in Nat \ {0} /\ Head(box) = box[1] /\ Head(box) \in Message
  BY <1>1, TailFacts
<1>3. Tail(box) = SubSeq(box, 2, Len(box))
  BY <1>1
<1>4. ASSUME Head(box).what = "head"
      PROVE  2 \in 1..Len(box) /\ Tail(Tail(box)) = SubSeq(box, 2 + 1, Len(box))
  <2>1. 1 < Len(box)
    BY <1>2, <1>4 DEF Typed, HeadThenRest
  <2>2. /\ Tail(box) \in Seq(Message) /\ Tail(box) # <<>> /\ Len(Tail(box)) = Len(box) - 1
        /\ \A k \in 1..Len(Tail(box)) : Tail(box)[k] = box[k + 1]
    <3>1. /\ Tail(box) \in Seq(Message) /\ Len(Tail(box)) = Len(box) - 1
          /\ \A k \in 1..Len(Tail(box)) : Tail(box)[k] = box[k + 1]
      BY <1>1, TailFacts
    <3> DEFINE tail == Tail(box)  n == Len(box)
    <3>2. Len(tail) = n - 1 /\ n \in Nat /\ 1 < n
      BY <1>2, <2>1, <3>1
    <3> HIDE DEF tail, n
    <3>3. tail # <<>>
      BY <3>2
    <3> QED BY <3>1, <3>3 DEF tail
  <2>3. /\ Tail(Tail(box)) \in Seq(Message) /\ Len(Tail(Tail(box))) = Len(box) - 2
        /\ \A k \in 1..Len(Tail(Tail(box))) : Tail(Tail(box))[k] = Tail(box)[k + 1]
    BY <2>2, TailFacts
  <2>4. \A k \in 1..Len(Tail(Tail(box))) : Tail(Tail(box))[k] = box[k + 2]
    BY <1>2, <2>2, <2>3
  <2>5. 2 \in 1..Len(box)
    BY <1>2, <2>1
  <2>6. /\ SubSeq(box, 2 + 1, Len(box)) \in Seq(Message)
        /\ Len(SubSeq(box, 2 + 1, Len(box))) = Len(box) - 2
        /\ \A k \in 1..(Len(box) - 2) : SubSeq(box, 2 + 1, Len(box))[k] = box[k + 2]
    BY <1>1, <2>5, SubFacts
  <2> DEFINE rest == SubSeq(box, 2 + 1, Len(box))  tail == Tail(Tail(box))
  <2> HIDE DEF rest, tail, box
  <2>7. tail = rest
    BY <2>3, <2>4, <2>6, SeqEqual DEF rest, tail
  <2> QED BY <2>5, <2>7 DEF rest, tail
<1>5. 1 \in 1..Len(box) /\ Tail(box) = SubSeq(box, 1 + 1, Len(box))
  BY <1>2, <1>3
<1>6. inbox' = [inbox EXCEPT ![con] = Tail(@)] => Reads(1)
  BY <1>5 DEF Reads
<1>7. Head(box).what = "head" /\ inbox' = [inbox EXCEPT ![con] = Tail(Tail(@))] => Reads(2)
  BY <1>4 DEF Reads
<1> QED BY <1>2, <1>5, <1>6, <1>7

\* It leaves what comes behind it as it is.
LEMMA ReadTyped ==
  ASSUME Typed, con \in Clients, NEW s, Reads(s)
  PROVE  /\ inbox' \in [Clients -> Seq(Message)] /\ HeadThenRest'
         /\ Suffix(con, s) /\ \A d \in Clients \ {con} : inbox'[d] = inbox[d] /\ Suffix(d, 0)
         /\ Len(inbox'[con]) = Len(inbox[con]) - s
<1> DEFINE box == inbox[con]
<1>1. box \in Seq(Message) /\ s \in 1..Len(box) /\ inbox \in [Clients -> Seq(Message)]
  BY DEF Typed, TypedClients, Reads
<1>2. /\ SubSeq(box, s + 1, Len(box)) \in Seq(Message)
      /\ Len(SubSeq(box, s + 1, Len(box))) = Len(box) - s
      /\ \A k \in 1..(Len(box) - s) : SubSeq(box, s + 1, Len(box))[k] = box[k + s] /\ k + s \in 1..Len(box)
  BY <1>1, SubFacts
<1>3. /\ inbox'[con] = SubSeq(box, s + 1, Len(box)) /\ \A d \in Clients \ {con} : inbox'[d] = inbox[d]
      /\ inbox' \in [Clients -> Seq(Message)]
  BY <1>1, <1>2 DEF Reads
<1> HIDE DEF box
<1>4. Suffix(con, s)
  BY <1>2, <1>3 DEF Suffix, box
<1>5. ASSUME NEW d \in Clients \ {con}
      PROVE  Suffix(d, 0)
  <2>1. inbox[d] \in Seq(Message)
    BY <1>1
  <2> QED BY <1>3, <2>1 DEF Suffix
<1>6. HeadThenRest'
  <2> SUFFICES ASSUME NEW d \in Clients, NEW k \in 1..Len(inbox'[d]), inbox'[d][k].what = "head"
               PROVE  k < Len(inbox'[d])
    BY DEF HeadThenRest
  <2>1. CASE d = con
    <3>1. k + s \in 1..Len(box) /\ box[k + s].what = "head" /\ Len(inbox'[d]) = Len(box) - s
      BY <1>2, <1>3, <2>1
    <3>2. k + s < Len(box)
      BY <2>1, <3>1 DEF Typed, HeadThenRest, box
    <3> QED BY <1>1, <3>1, <3>2
  <2>2. CASE d # con
    BY <1>3, <2>2 DEF Typed, HeadThenRest
  <2> QED BY <2>1, <2>2
<1> QED BY <1>2, <1>3, <1>4, <1>5, <1>6 DEF box

\* The end of a connection, and a new start.
LEMMA EndTyped ==
  ASSUME Typed, NEW c \in Clients, Ends(c)
  PROVE  /\ inbox' \in [Clients -> Seq(Message)] /\ HeadThenRest'
         /\ asked' \in [Clients -> Request \cup {NoRequest}]
         /\ since' \in [Clients -> SUBSET Numbers] /\ got' \in [Clients -> SUBSET Numbers]
<1>1. <<>> \in Seq(Message)
  OBVIOUS
<1>2. inbox' \in [Clients -> Seq(Message)]
  BY <1>1 DEF Ends, Typed, TypedClients
<1>3. HeadThenRest'
  <2> SUFFICES ASSUME NEW d \in Clients, NEW k \in 1..Len(inbox'[d]), inbox'[d][k].what = "head"
               PROVE  k < Len(inbox'[d])
    BY DEF HeadThenRest
  <2>1. CASE d = c
    <3>1. inbox'[d] = <<>>
      BY <2>1 DEF Ends, Typed, TypedClients
    <3> QED BY <3>1
  <2>2. CASE d # c
    <3>1. inbox'[d] = inbox[d]
      BY <2>2 DEF Ends, Typed, TypedClients
    <3> QED BY <3>1 DEF Typed, HeadThenRest
  <2> QED BY <2>1, <2>2
<1> QED BY <1>2, <1>3 DEF Ends, Typed, TypedClients

\* A restart leaves the variables well-typed.
LEMMA BootTyped == ASSUME asks \in 0..MaxRequests, Boot, asks' = asks PROVE Typed'
<1>1. <<>> \in Seq(Message)
  OBVIOUS
<1>2. TypedClients'
  BY <1>1 DEF Boot, TypedClients
<1>3. TypedServer'
  BY HttpAssumption DEF Boot, TypedServer, Chain, Nobody
<1>4. HeadThenRest'
  <2>1. \A c \in Clients : inbox'[c] = <<>>
    BY DEF Boot
  <2> QED BY <2>1 DEF HeadThenRest
<1> QED BY <1>2, <1>3, <1>4 DEF Typed

\* The server and its clients start well-typed,
LEMMA TypedInit == Init => Typed
<1> SUFFICES ASSUME Init PROVE Typed
  OBVIOUS
<1>1. <<>> \in Seq(Message)
  OBVIOUS
<1>2. TypedClients
  BY <1>1, HttpAssumption DEF Init, TypedClients
<1>3. TypedServer
  BY HttpAssumption DEF Init, TypedServer, Chain, Nobody
<1>4. HeadThenRest
  <2>1. \A c \in Clients : inbox[c] = <<>>
    BY DEF Init
  <2> QED BY <2>1 DEF HeadThenRest
<1> QED BY <1>2, <1>3, <1>4 DEF Typed

\* and every step leaves them so.
LEMMA TypedStep == Typed /\ [Next]_vars => Typed'
<1> SUFFICES ASSUME Typed, [Next]_vars PROVE Typed'
  OBVIOUS
<1> USE DEF client, parsed, ghosts
<1>0. con \in Clients \cup {Nobody} /\ TypedClients /\ TypedServer /\ HeadThenRest
  BY DEF Typed, TypedServer
<1>1. CASE Setup
  <2>1. handlers' \in Chain
    <3>1. handlers # <<"json", "file", "default">>
      BY <1>1 DEF Setup
    <3>2. CASE handlers = <<"default">>
      <4>1. handlers' = <<"file">> \o handlers
        BY <1>1, <3>2 DEF Setup, AddPathHandler
      <4>2. <<"file">> \o <<"default">> = <<"file", "default">>
        BY InFront
      <4> QED BY <4>1, <4>2, <3>2 DEF Chain
    <3>3. CASE handlers = <<"file", "default">>
      <4>1. handlers' = <<"json">> \o handlers
        BY <1>1, <3>3 DEF Setup, AddPathHandler
      <4>2. <<"json">> \o <<"file", "default">> = <<"json", "file", "default">>
        BY InFront
      <4> QED BY <4>1, <4>2, <3>3 DEF Chain
    <3> QED BY <1>0, <3>1, <3>2, <3>3 DEF TypedServer, Chain
  <2> QED BY <1>0, <1>1, <2>1 DEF Setup, Typed, TypedClients, TypedServer, HeadThenRest
<1>2. ASSUME NEW c \in Clients, NEW r \in Request, Connect(c, r)
      PROVE  Typed'
  <2>1. Send(c, r)
    BY <1>2 DEF Connect
  <2>2. link' \in [Clients -> {"none", "backlog", "open", "left"}]
    BY <1>0, <1>2 DEF Connect, TypedClients
  <2>3. TypedServer'
    BY <1>0, <1>2 DEF Connect, TypedServer
  <2> QED BY <2>1, <2>2, <2>3, SendTyped DEF Typed, TypedClients
<1>3. ASSUME NEW c \in Clients, NEW r \in Request, Ask(c, r)
      PROVE  Typed'
  <2>1. Send(c, r)
    BY <1>3 DEF Ask
  <2>2. link' \in [Clients -> {"none", "backlog", "open", "left"}]
    BY <1>0, <1>3 DEF Ask, TypedClients
  <2>3. TypedServer'
    BY <1>0, <1>3 DEF Ask, TypedServer
  <2> QED BY <2>1, <2>2, <2>3, SendTyped DEF Typed, TypedClients
<1>4. ASSUME NEW c \in Clients, Leave(c)
      PROVE  Typed'
  <2>1. link' \in [Clients -> {"none", "backlog", "open", "left"}] /\ asks' \in 0..MaxRequests
    BY <1>0, <1>4 DEF Leave, TypedClients
  <2>2. TypedServer'
    BY <1>0, <1>4 DEF Leave, TypedServer
  <2>3. CASE Ends(c)
    BY <2>1, <2>2, <2>3, EndTyped DEF Typed, TypedClients
  <2>4. CASE UNCHANGED <<inbox, asked, since, got, owed>>
    BY <1>0, <2>1, <2>2, <2>4 DEF Typed, TypedClients, HeadThenRest
  <2> QED BY <1>4, <2>3, <2>4 DEF Leave
<1>5. CASE Poll
  BY <1>0, <1>5 DEF Poll, Typed, TypedClients, TypedServer, HeadThenRest
<1>6. CASE Accept
  <2>1. TypedClients' /\ HeadThenRest'
    BY <1>0, <1>6 DEF Accept, TypedClients, HeadThenRest
  <2>2. TypedServer'
    BY <1>0, <1>6, HttpAssumption DEF Accept, TypedServer
  <2> QED BY <2>1, <2>2 DEF Typed
<1>7. CASE AcceptFails
  BY <1>0, <1>7, BootTyped DEF AcceptFails, TypedClients
<1>8. CASE Expire
  <2>1. con \in Clients /\ Ends(con)
    BY <1>0, <1>8 DEF Expire, Close, TypedServer
  <2>2. link' \in [Clients -> {"none", "backlog", "open", "left"}] /\ asks' \in 0..MaxRequests
    BY <1>0, <1>8 DEF Expire, Close, TypedClients
  <2>3. TypedServer'
    BY <1>0, <1>8 DEF Expire, Close, TypedServer
  <2> QED BY <2>1, <2>2, <2>3, EndTyped DEF Typed, TypedClients
<1>9. ASSUME con \in Clients, NEW r \in Request \cup {NoRequest}, Parsed(r),
             body' \in Request \cup {NoRequest},
             inbox' \in [Clients -> Seq(Message)], HeadThenRest'
      PROVE  Typed'
  <2>1. TypedServer'
    BY <1>0, <1>9 DEF Parsed, TypedServer
  <2>2. TypedClients'
    BY <1>0, <1>9 DEF Parsed, TypedClients
  <2> QED BY <1>9, <2>1, <2>2 DEF Typed
<1>10. CASE Read
  <2> DEFINE first == Head(inbox[con])
  <2>1. con \in Clients /\ inbox[con] # <<>>
    BY <1>0, <1>10 DEF Read, TypedServer
  <2>2. first.r \in Request
    BY <2>1, ReadsFew DEF Message
  <2>3. \E r \in Request \cup {NoRequest} : Analyze(r) /\ \E s : Reads(s)
    <3>1. CASE /\ first.what # "rest"
               /\ inbox' = [inbox EXCEPT ![con] = Tail(@)]
               /\ \E r \in Before(first.r) : Analyze(r)
      <4>1. PICK r \in Before(first.r) : Analyze(r)
        BY <3>1
      <4>2. r \in Request \cup {NoRequest}
        BY <2>2, PieceFacts
      <4>3. Reads(1)
        BY <2>1, <3>1, ReadsFew
      <4> QED BY <4>1, <4>2, <4>3
    <3>2. CASE /\ first.what = "head"
               /\ inbox' = [inbox EXCEPT ![con] = Tail(Tail(@))]
               /\ Analyze([first.r EXCEPT !.text.cut = "no"])
      <4> DEFINE r == [first.r EXCEPT !.text.cut = "no"]
      <4>1. r \in Request
        BY <2>2, PieceFacts
      <4>2. Reads(2) /\ Analyze(r)
        BY <2>1, <3>2, ReadsFew
      <4> HIDE DEF r
      <4> QED BY <4>1, <4>2
    <3> QED BY <1>10, <3>1, <3>2 DEF Read
  <2>4. PICK r \in Request \cup {NoRequest} : Analyze(r) /\ \E s : Reads(s)
    BY <2>3
  <2>5. PICK s : Reads(s)
    BY <2>4
  <2>6. body' \in Request \cup {NoRequest}
    BY <1>0, <2>4 DEF Analyze, Body, TypedServer
  <2>7. inbox' \in [Clients -> Seq(Message)] /\ HeadThenRest'
    BY <2>1, <2>5, ReadTyped
  <2> QED BY <1>9, <2>1, <2>4, <2>6, <2>7 DEF Analyze
<1>11. CASE ReadRest
  <2>1. con \in Clients /\ inbox[con] \in Seq(Message)
    BY <1>0, <1>11 DEF ReadRest, TypedServer, TypedClients
  <2>2. PICK s \in 1..Len(inbox[con]) :
          /\ Reads(s)
          /\ body' \in {body, NoRequest} \cup {inbox[con][j].r : j \in 1..s}
    BY <1>11 DEF ReadRest, Reads
  <2>3. \A j \in 1..s : inbox[con][j] \in Message
    BY <2>1, <2>2
  <2>4. body' \in Request \cup {NoRequest}
    BY <1>0, <2>2, <2>3 DEF TypedServer, Message
  <2>5. inbox' \in [Clients -> Seq(Message)] /\ HeadThenRest'
    BY <2>1, <2>2, ReadTyped
  <2> QED BY <1>9, <1>11, <2>1, <2>4, <2>5 DEF ReadRest
<1>12. CASE Match
  <2>1. todo' \in Chain
    <3>1. todo \in Chain
      BY <1>0, <1>12 DEF Match, TypedServer
    <3>2. CASE Head(todo) = "default"
      BY <1>12, <3>1, <3>2, DefaultMatches DEF Match
    <3>3. CASE Head(todo) # "default"
      BY <1>12, <3>1, <3>3, ChainFacts DEF Match
    <3> QED BY <3>2, <3>3
  <2>2. TypedServer'
    BY <1>0, <1>12, <2>1 DEF Match, TypedServer
  <2> QED BY <1>0, <1>12, <2>2 DEF Match, Typed, TypedClients, HeadThenRest
<1>13. ASSUME con \in Clients, Answer, UNCHANGED <<link, inbox, asks, handlers, con, parsed, applied>>,
              pc' \in {"serve", "apply"}, acked' \subseteq Numbers,
              strays' \subseteq Numbers \cup {0},
              got' \in [Clients -> SUBSET Numbers]
       PROVE  Typed'
  <2>1. TypedClients'
    BY <1>0, <1>13 DEF Answer, TypedClients
  <2>2. TypedServer'
    BY <1>0, <1>13 DEF TypedServer
  <2> QED BY <1>0, <1>13, <2>1, <2>2 DEF Typed, HeadThenRest
<1>14. CASE Refuse
  BY <1>0, <1>13, <1>14 DEF Refuse, By, TypedServer, TypedClients
<1>15. CASE Get
  <2>1. got' \in [Clients -> SUBSET Numbers]
    BY <1>0, <1>15 DEF Get, TypedClients
  <2> QED BY <1>0, <1>13, <1>15, <2>1 DEF Get, By, TypedServer
<1>16. CASE Post
  <2>1. req \in Request
    <3>1. req.text.method = "POST" /\ NoRequest.text.method = ""
      BY <1>16 DEF Post, NoRequest, NoText
    <3> QED BY <1>0, <3>1 DEF TypedServer
  <2>2. req.n \in Numbers /\ body.n \in Numbers \cup {0}
    <3>1. NoRequest.n = 0
      BY DEF NoRequest
    <3> QED BY <1>0, <2>1, <3>1, RequestFacts DEF TypedServer
  <2>3. acked' \subseteq Numbers /\ strays' \subseteq Numbers \cup {0}
    BY <1>0, <1>16, <2>2 DEF Post, TypedServer
  <2> QED BY <1>0, <1>13, <1>16, <2>3 DEF Post, By, TypedServer, TypedClients
<1>17. CASE Apply
  <2>1. body.text.form = "plain" => body.n \in Numbers
    <3>1. NoRequest.text.form # "plain"
      BY DEF NoRequest, NoText
    <3> QED BY <1>0, <3>1, RequestFacts DEF TypedServer
  <2>2. TypedServer'
    BY <1>0, <1>17, <2>1 DEF Apply, TypedServer
  <2> QED BY <1>0, <1>17, <2>2 DEF Apply, Typed, TypedClients, HeadThenRest
<1>18. CASE Other
  BY <1>0, <1>13, <1>18 DEF Other, By, TypedServer, TypedClients
<1>20. CASE ReadBehind \/ RefuseFails \/ ApplyFails
  BY <1>0, <1>20, BootTyped DEF ReadBehind, RefuseFails, ApplyFails, TypedClients
<1>19. CASE UNCHANGED vars
  BY <1>0, <1>19 DEF vars, Typed, TypedClients, TypedServer, HeadThenRest
<1>21. ASSUME NEW c \in Clients, NEW t \in Texts,
              LET r == [n |-> asks + 1, text |-> t] IN Connect(c, r) \/ Ask(c, r)
       PROVE  Typed'
  <2>1. [n |-> asks + 1, text |-> t] \in Request
    BY <1>21, SentFacts DEF Connect, Ask, Send
  <2> QED BY <1>2, <1>3, <1>21, <2>1
<1> QED
  BY <1>1, <1>4, <1>5, <1>6, <1>7, <1>8, <1>10, <1>11, <1>12, <1>14, <1>15,
     <1>16, <1>17, <1>18, <1>19, <1>20, <1>21 DEF Next, Serve

\* Every variable of the server and of its clients keeps its type.
THEOREM TypeCorrect == Spec => []TypeOK
<1>1. Typed => TypeOK
  <2> SUFFICES ASSUME Typed PROVE TypeOK
    OBVIOUS
  <2>1. todo \in Seq(Handler)
    <3>1. "file" \in Handler /\ "json" \in Handler /\ "default" \in Handler
      BY DEF Handler
    <3>2. /\ <<>> \in Seq(Handler) /\ <<"default">> \in Seq(Handler)
          /\ <<"file", "default">> \in Seq(Handler)
      BY <3>1
    <3>3. <<"json", "file", "default">> \in Seq(Handler)
      BY <3>1
    <3> QED BY <3>2, <3>3 DEF Typed, TypedServer, Chain
  <2>2. \A c \in Clients : \A k \in DOMAIN inbox[c] : inbox[c][k] \in Message
    BY DEF Typed, TypedClients
  <2> QED BY <2>1, <2>2 DEF TypeOK, Typed, TypedClients, TypedServer, Chain, Message
<1> QED BY <1>1, TypedInit, TypedStep, PTL DEF Spec

-----------------------------------------------------------------------------
(* What is stored, and what is read.                                       *)

\* The body that a handler finds is that of a whole request, and none if it was cut off.
BodyFits ==
  pc \in {"match", "handle"} /\ req.text.method = "POST" =>
    /\ req.text.cut = "no" => body = req
    /\ req.text.cut = "body" => body = NoRequest

\* What append() is about to store.
Comes == IF pc = "apply" /\ body.text.form = "plain" THEN {body.n} ELSE {}

AckedIsApplied ==
  acked \subseteq applied \cup Comes /\ applied \cup Comes \subseteq acked \cup strays

Shown == \A c \in Clients : since[c] \subseteq acked /\ got[c] = {}

Inv == BodyFits /\ AckedIsApplied /\ Shown

\* The invariant holds at first,
LEMMA InvInit == Init => Inv
BY DEF Init, Inv, BodyFits, AckedIsApplied, Comes, Shown

\* after a restart,
LEMMA BootInv == ASSUME Boot PROVE Inv'
BY DEF Boot, Inv, BodyFits, AckedIsApplied, Comes, Shown

\* and after every step.
LEMMA InvStep == Typed /\ Inv /\ [Next]_vars => Inv'
<1> SUFFICES ASSUME Typed, Inv, [Next]_vars PROVE Inv'
  OBVIOUS
<1> USE DEF client, parsed, ghosts
<1>0. con \in Clients \cup {Nobody} /\ TypedClients /\ TypedServer /\ BodyFits /\ AckedIsApplied /\ Shown
  BY DEF Typed, TypedServer, Inv
<1>1. ASSUME UNCHANGED <<applied, acked, strays, pc, req, body>>, Shown'
      PROVE  Inv'
  BY <1>0, <1>1 DEF Inv, BodyFits, AckedIsApplied, Comes
<1>2. ASSUME UNCHANGED <<applied, acked, strays>>, pc # "apply", pc' \notin {"match", "handle", "apply"}, Shown'
      PROVE  Inv'
  BY <1>0, <1>2 DEF Inv, BodyFits, AckedIsApplied, Comes
<1>3. CASE Setup \/ UNCHANGED vars
  BY <1>0, <1>1, <1>3 DEF Setup, vars, Shown
<1>4. ASSUME NEW c \in Clients, NEW r, Connect(c, r) \/ Ask(c, r)
      PROVE  Inv'
  <2>1. Send(c, r) /\ UNCHANGED <<applied, acked, strays, pc, req, body>>
    BY <1>4 DEF Connect, Ask
  <2>2. Shown'
    BY <1>0, <2>1 DEF Send, Shown, TypedClients
  <2> QED BY <1>1, <2>1, <2>2
<1>5. ASSUME NEW c \in Clients, Ends(c), acked' = acked
      PROVE  Shown'
  BY <1>0, <1>5 DEF Ends, Shown, TypedClients
<1>6. ASSUME NEW c \in Clients, Leave(c)
      PROVE  Inv'
  <2>1. UNCHANGED <<applied, acked, strays, pc, req, body>>
    BY <1>6 DEF Leave
  <2>2. Shown'
    BY <1>0, <1>5, <1>6, <2>1 DEF Leave, Shown
  <2> QED BY <1>1, <2>1, <2>2
<1>7. CASE Poll \/ Accept
  <2>1. Shown'
    BY <1>0, <1>7 DEF Poll, Accept, Shown
  <2> QED BY <1>2, <1>7, <2>1 DEF Poll, Accept
<1>8. CASE AcceptFails \/ ReadBehind \/ RefuseFails \/ ApplyFails
  BY <1>8, BootInv DEF AcceptFails, ReadBehind, RefuseFails, ApplyFails
<1>9. CASE Expire
  <2>1. con \in Clients /\ Ends(con) /\ acked' = acked
    BY <1>0, <1>9 DEF Expire, Close, TypedServer
  <2> QED BY <1>2, <1>5, <1>9, <2>1 DEF Expire, Close
<1>10. ASSUME NEW r, Parsed(r), pc = "serve", BodyFits', UNCHANGED got
       PROVE  Inv'
  BY <1>0, <1>10 DEF Parsed, Inv, AckedIsApplied, Comes, Shown
<1>11. ASSUME NEW r, Analyze(r)
       PROVE  BodyFits'
  BY <1>11 DEF Analyze, Parsed, Body, BodyFits
<1>12. CASE Read
  <2>1. PICK r : Analyze(r) /\ pc = "serve" /\ UNCHANGED got
    BY <1>12 DEF Read, Analyze, Parsed
  <2> QED BY <1>10, <1>11, <2>1 DEF Analyze
<1>13. CASE ReadRest
  <2>1. BodyFits'
    BY <1>13 DEF ReadRest, Parsed, BodyFits, NoRequest, NoText
  <2> QED BY <1>10, <1>13, <2>1 DEF ReadRest, Parsed
<1>14. CASE Match
  BY <1>0, <1>14 DEF Match, Inv, BodyFits, AckedIsApplied, Comes, Shown
<1>15. ASSUME Answer, pc = "handle", got' = got, acked \subseteq acked'
       PROVE  Shown'
  BY <1>0, <1>15 DEF Answer, Shown, TypedClients
<1>16. CASE Refuse \/ Other
  <2>1. pc = "handle" /\ pc' = "serve" /\ Answer /\ UNCHANGED <<applied, acked, strays, got>>
    BY <1>16 DEF Refuse, Other, By
  <2> QED BY <1>2, <1>15, <2>1
<1>17. CASE Get
  <2>1. pc = "handle" /\ pc' = "serve" /\ UNCHANGED <<applied, acked, strays>>
    BY <1>17 DEF Get, By
  <2>2. acked \subseteq applied
    BY <1>0, <2>1 DEF AckedIsApplied, Comes
  <2>3. Shown'
    BY <1>0, <1>17, <2>2 DEF Get, Answer, Shown, TypedClients
  <2> QED BY <1>2, <2>1, <2>3
<1>18. CASE Post
  <2>1. /\ pc = "handle" /\ pc' = "apply" /\ req.text.method = "POST" /\ Answer
        /\ UNCHANGED <<req, body, applied, got>>
        /\ acked' = IF req.text.cut = "no" /\ req.text.form = "plain" THEN acked \cup {req.n} ELSE acked
        /\ strays' = IF req.text.cut = "header" THEN strays \cup {body.n} ELSE strays
    BY <1>18 DEF Post, By
  <2>2. req.text.cut \in {"no", "header", "body"}
    <3>1. req \in Request
      BY <1>0, <2>1, NoRequestFacts DEF TypedServer
    <3>2. req.text \in Text
      BY <3>1, RequestFacts
    <3> QED BY <3>2 DEF Text
  <2>3. acked \subseteq applied /\ applied \subseteq acked \cup strays
    BY <1>0, <2>1 DEF AckedIsApplied, Comes
  <2>4. AckedIsApplied'
    <3>1. CASE req.text.cut = "no"
      <4>1. body = req
        BY <1>0, <2>1, <3>1 DEF BodyFits
      <4> QED BY <2>1, <2>3, <3>1, <4>1 DEF AckedIsApplied, Comes
    <3>2. CASE req.text.cut = "body"
      <4>1. body.text.form # "plain"
        BY <1>0, <2>1, <3>2, NoRequestFacts DEF BodyFits
      <4> QED BY <2>1, <2>3, <3>2, <4>1 DEF AckedIsApplied, Comes
    <3>3. CASE req.text.cut = "header"
      BY <2>1, <2>3, <3>3 DEF AckedIsApplied, Comes
    <3> QED BY <2>2, <3>1, <3>2, <3>3
  <2>5. Shown'
    BY <1>15, <2>1
  <2>6. BodyFits'
    BY <2>1 DEF BodyFits
  <2> QED BY <2>4, <2>5, <2>6 DEF Inv
<1>19. CASE Apply
  <2>1. /\ pc = "apply" /\ pc' = "serve" /\ UNCHANGED <<acked, strays, since, got>>
        /\ applied' = IF body.text.form = "plain" THEN applied \cup {body.n} ELSE applied
    BY <1>19 DEF Apply
  <2>2. AckedIsApplied'
    BY <1>0, <2>1 DEF AckedIsApplied, Comes
  <2> QED BY <1>0, <2>1, <2>2 DEF Inv, BodyFits, Shown
<1> QED
  BY <1>3, <1>4, <1>6, <1>7, <1>8, <1>9, <1>12, <1>13, <1>14, <1>16, <1>17, <1>18, <1>19
  DEF Next, Serve

\* So it always holds.
LEMMA InvAlways == Spec => []Inv
BY InvInit, InvStep, TypedInit, TypedStep, PTL DEF Spec

\* Whatever was acknowledged whole is in the repository before the server reads the
\* next request, and whatever is there was acknowledged, or stored by the POST that was
\* cut in its header lines and found the last text's body (HttpRequest::analyze).
THEOREM StoredIsAcked == Spec => []AppliedIsAcked
<1>1. Inv => AppliedIsAcked
  BY DEF Inv, AckedIsApplied, Comes, AppliedIsAcked
<1> QED BY <1>1, InvAlways, PTL

\* A GET shows all that had been acknowledged when it was asked.
THEOREM ReadsSeeWrites == Spec => []ReadsWrites
<1>1. Inv => ReadsWrites
  BY DEF Inv, Shown, ReadsWrites
<1> QED BY <1>1, InvAlways, PTL

-----------------------------------------------------------------------------
(* No request gets two answers: a client is owed one at least for each of  *)
(* its requests that waits to be read, and for the one that the server has *)
(* in hand.                                                                *)

\* A request that waits to be read was asked,
Fresh ==
  \A c \in Clients : \A k \in 1..Len(inbox[c]) :
    inbox[c][k].what # "rest" => inbox[c][k].r.n <= asks

\* and waits only once.
Once ==
  \A c, d \in Clients : \A k \in 1..Len(inbox[c]), l \in 1..Len(inbox[d]) :
    /\ inbox[c][k].what # "rest" /\ inbox[d][l].what # "rest"
    /\ inbox[c][k].r.n = inbox[d][l].r.n
    => c = d /\ k = l

\* The numbers of the requests in a connection.
PendingOf(box) ==
  {n \in Numbers : \E k \in 1..Len(box) : box[k].what # "rest" /\ box[k].r.n = n}

Handling == pc \in {"match", "handle"} /\ req # NoRequest

InHand(c) == IF Handling /\ con = c THEN {req.n} ELSE {}

Unanswered(c) == PendingOf(inbox[c]) \cup InHand(c)

\* Who is served is connected, or has left,
ServesOpen == pc \notin {"poll", "accept"} => link[con] \in {"open", "left"}

\* and what the server has in hand, nobody sends again.
TakenOut ==
  Handling => /\ req.n \in Numbers /\ req.n <= asks
              /\ \A c \in Clients : req.n \notin PendingOf(inbox[c])

OwedEach ==
  /\ owed \in [Clients -> Int]
  /\ \A c \in Clients : owed[c] >= Cardinality(Unanswered(c))

Accounted == Fresh /\ Once /\ TakenOut /\ OwedEach
OwedInv == ServesOpen /\ Accounted

\* There are finitely many requests in an inbox, and without an answer.
LEMMA UnansweredFinite ==
  ASSUME NEW c \in Clients
  PROVE  IsFiniteSet(Unanswered(c)) /\ Cardinality(Unanswered(c)) \in Nat
<1>1. PendingOf(inbox[c]) \in SUBSET Numbers
  BY Zenon DEF PendingOf
<1>2. IsFiniteSet(Numbers)
  BY FS_Interval, HttpAssumption DEF Numbers
<1>3. IsFiniteSet(PendingOf(inbox[c]))
  BY <1>1, <1>2, FS_Subset
<1>4. InHand(c) = {} \/ InHand(c) = {req.n}
  BY DEF InHand
<1>5. IsFiniteSet(PendingOf(inbox[c]) \cup {req.n})
  BY <1>3, FS_AddElement
<1>6. IsFiniteSet(Unanswered(c))
  BY <1>3, <1>4, <1>5 DEF Unanswered
<1> QED
  BY <1>6, FS_CardinalityType

\* None waits in an empty inbox.
LEMMA EmptyBox == PendingOf(<<>>) = {}
<1>1. \A k : k \notin 1..Len(<<>>)
  OBVIOUS
<1> QED
  BY <1>1, Zenon DEF PendingOf

\* What is still there after a step was there before it,
LEMMA SuffixPending ==
  ASSUME NEW d \in Clients, NEW s, Suffix(d, s)
  PROVE  PendingOf(inbox'[d]) \subseteq PendingOf(inbox[d])
<1>1. \A n \in Numbers :
        (\E k \in 1..Len(inbox'[d]) : inbox'[d][k].what # "rest" /\ inbox'[d][k].r.n = n) =>
          \E k \in 1..Len(inbox[d]) : inbox[d][k].what # "rest" /\ inbox[d][k].r.n = n
  BY Zenon DEF Suffix
<1> QED
  BY <1>1, Zenon DEF PendingOf

\* as often,
LEMMA SuffixOnce ==
  ASSUME Once, \A d \in Clients : \E s \in Nat : Suffix(d, s)
  PROVE  Once'
<1> SUFFICES ASSUME NEW c \in Clients, NEW d \in Clients,
                    NEW k \in 1..Len(inbox'[c]), NEW l \in 1..Len(inbox'[d]),
                    inbox'[c][k].what # "rest", inbox'[d][l].what # "rest",
                    inbox'[c][k].r.n = inbox'[d][l].r.n
             PROVE  c = d /\ k = l
  BY DEF Once
<1>1. PICK s \in Nat : Suffix(c, s)
  OBVIOUS
<1>2. PICK t \in Nat : Suffix(d, t)
  OBVIOUS
<1>3. k + s \in 1..Len(inbox[c]) /\ inbox'[c][k] = inbox[c][k + s]
  BY <1>1 DEF Suffix
<1>4. l + t \in 1..Len(inbox[d]) /\ inbox'[d][l] = inbox[d][l + t]
  BY <1>2 DEF Suffix
<1>5. c = d /\ k + s = l + t
  BY <1>3, <1>4 DEF Once
<1>6. l + s \in 1..Len(inbox[c]) /\ inbox'[d][l] = inbox[c][l + s]
  BY <1>1, <1>5 DEF Suffix
<1>7. k + s = l + s
  <2> DEFINE i == k + s  j == l + s
  <2>1. i \in 1..Len(inbox[c]) /\ j \in 1..Len(inbox[c])
    BY <1>3, <1>6
  <2>2. inbox[c][i].what # "rest" /\ inbox[c][j].what # "rest"
        /\ inbox[c][i].r.n = inbox[c][j].r.n
    BY <1>3, <1>6
  <2> HIDE DEF i, j
  <2>3. i = j
    BY <2>1, <2>2 DEF Once
  <2> QED BY <2>3 DEF i, j
<1> QED BY <1>5, <1>7

\* and no newer.
LEMMA SuffixFresh ==
  ASSUME Fresh, \A d \in Clients : \E s \in Nat : Suffix(d, s), asks' = asks
  PROVE  Fresh'
<1> SUFFICES ASSUME NEW c \in Clients, NEW k \in 1..Len(inbox'[c]), inbox'[c][k].what # "rest"
             PROVE  inbox'[c][k].r.n <= asks
  BY DEF Fresh
<1>1. PICK s \in Nat : Suffix(c, s)
  OBVIOUS
<1>2. k + s \in 1..Len(inbox[c]) /\ inbox'[c][k] = inbox[c][k + s]
  BY <1>1 DEF Suffix
<1> QED BY <1>2 DEF Fresh

\* An inbox that a step leaves is one that nothing was read of.
LEMMA SuffixSame ==
  ASSUME NEW d \in Clients, Typed, inbox'[d] = inbox[d] \/ inbox'[d] = <<>>
  PROVE  Suffix(d, 0)
<1>1. inbox[d] \in Seq(Message)
  BY DEF Typed, TypedClients
<1>2. CASE inbox'[d] = inbox[d]
  BY <1>1, <1>2 DEF Suffix
<1>3. CASE inbox'[d] = <<>>
  BY <1>3 DEF Suffix
<1> QED BY <1>2, <1>3

\* Where no less is owed and no more is unanswered, all is accounted for.
LEMMA StillOwed ==
  ASSUME NEW c \in Clients, OwedEach, owed'[c] >= owed[c], owed'[c] \in Int,
         Unanswered(c)' \subseteq Unanswered(c)
  PROVE  owed'[c] >= Cardinality(Unanswered(c)')
<1>1. IsFiniteSet(Unanswered(c)) /\ Cardinality(Unanswered(c)) \in Nat
  BY UnansweredFinite
<1>2. /\ Cardinality(Unanswered(c)') <= Cardinality(Unanswered(c))
      /\ Cardinality(Unanswered(c)') \in Nat
  BY <1>1, FS_Subset, FS_CardinalityType
<1> QED
  BY <1>1, <1>2 DEF OwedEach

\* A request that is sent is owed an answer,
LEMMA SendOwed ==
  ASSUME Typed, Accounted, NEW c \in Clients, NEW r \in Request, Send(c, r), r.n = asks + 1,
         UNCHANGED <<pc, con, req>>
  PROVE  Accounted'
<1> DEFINE new == IF r.text.cut = "no" THEN <<[r |-> r, what |-> "whole"]>>
                  ELSE <<[r |-> r, what |-> "head"], [r |-> r, what |-> "rest"]>>
<1>1. new \in Seq(Message) /\ \A k \in 1..Len(new) : new[k].what # "rest" => k = 1 /\ new[k].r = r
  <2>1. /\ [r |-> r, what |-> "whole"] \in Message
        /\ [r |-> r, what |-> "head"] \in Message
        /\ [r |-> r, what |-> "rest"] \in Message
    BY DEF Message
  <2>2. new \in Seq(Message)
    BY <2>1
  <2>3. CASE r.text.cut = "no"
    <3>1. new = <<[r |-> r, what |-> "whole"]>>
      BY <2>3
    <3> QED BY <2>2, <3>1
  <2>4. CASE r.text.cut # "no"
    <3>1. new = <<[r |-> r, what |-> "head"], [r |-> r, what |-> "rest"]>>
      BY <2>4
    <3> QED BY <2>2, <3>1
  <2> QED BY <2>3, <2>4
<1>2. /\ inbox' = [inbox EXCEPT ![c] = @ \o new] /\ asks' = asks + 1
      /\ owed' = [owed EXCEPT ![c] = @ + 1]
  BY DEF Send
<1> HIDE DEF new
<1>3. /\ asks \in Nat /\ inbox \in [Clients -> Seq(Message)] /\ inbox[c] \in Seq(Message)
      /\ owed \in [Clients -> Int] /\ Fresh /\ Once /\ TakenOut /\ OwedEach
  BY HttpAssumption DEF Typed, TypedClients, Accounted, OwedEach
<1>4. /\ Len(inbox[c] \o new) = Len(inbox[c]) + Len(new)
      /\ Len(inbox[c]) \in Nat /\ Len(new) \in Nat
      /\ \A k \in 1..Len(inbox[c]) : (inbox[c] \o new)[k] = inbox[c][k]
      /\ \A k \in (Len(inbox[c]) + 1)..(Len(inbox[c]) + Len(new)) :
           (inbox[c] \o new)[k] = new[k - Len(inbox[c])]
  BY <1>1, <1>3, JoinFacts
<1>5. ASSUME NEW d \in Clients, NEW k \in 1..Len(inbox'[d]), inbox'[d][k].what # "rest"
      PROVE  \/ k \in 1..Len(inbox[d]) /\ inbox'[d][k] = inbox[d][k]
             \/ d = c /\ k = Len(inbox[c]) + 1 /\ inbox'[d][k].r = r
  <2>1. CASE d # c
    BY <2>1, <1>2, <1>3
  <2>2. CASE d = c
    <3>1. inbox'[d] = inbox[c] \o new
      BY <2>2, <1>2, <1>3
    <3>2. CASE k \in 1..Len(inbox[c])
      BY <3>1, <3>2, <1>4, <2>2
    <3>3. CASE k \notin 1..Len(inbox[c])
      <4>1. k \in (Len(inbox[c]) + 1)..(Len(inbox[c]) + Len(new))
        BY <3>1, <3>3, <1>4
      <4>2. inbox'[d][k] = new[k - Len(inbox[c])] /\ k - Len(inbox[c]) \in 1..Len(new)
        BY <3>1, <4>1, <1>4
      <4>3. k - Len(inbox[c]) = 1 /\ new[k - Len(inbox[c])].r = r
        BY <4>2, <1>1, <1>5
      <4> QED BY <4>1, <4>2, <4>3, <1>4, <2>2
    <3> QED BY <3>2, <3>3
  <2> QED BY <2>1, <2>2
<1>6. \A d \in Clients : \A k \in 1..Len(inbox[d]) :
        inbox[d][k].what # "rest" => inbox[d][k].r.n # r.n /\ inbox[d][k].r.n <= asks + 1
  <2> SUFFICES ASSUME NEW d \in Clients, NEW k \in 1..Len(inbox[d]), inbox[d][k].what # "rest"
               PROVE  inbox[d][k].r.n # r.n /\ inbox[d][k].r.n <= asks + 1
    OBVIOUS
  <2>1. inbox[d][k].r.n <= asks
    BY <1>3 DEF Fresh
  <2>2. inbox[d][k] \in Message
    BY <1>3
  <2>3. inbox[d][k].r \in Request
    BY <2>2 DEF Message
  <2>4. inbox[d][k].r.n \in Numbers
    BY <2>3, RequestFacts, Zenon
  <2> QED BY <2>1, <2>4, <1>3 DEF Numbers
<1>7. Fresh'
  <2> SUFFICES ASSUME NEW d \in Clients, NEW k \in 1..Len(inbox'[d]), inbox'[d][k].what # "rest"
               PROVE  inbox'[d][k].r.n <= asks'
    BY DEF Fresh
  <2>1. CASE k \in 1..Len(inbox[d]) /\ inbox'[d][k] = inbox[d][k]
    BY <2>1, <1>2, <1>6
  <2>2. CASE inbox'[d][k].r = r
    BY <2>2, <1>2, <1>3
  <2> QED BY <2>1, <2>2, <1>5
<1>8. Once'
  <2> SUFFICES ASSUME NEW d \in Clients, NEW e \in Clients,
                      NEW k \in 1..Len(inbox'[d]), NEW l \in 1..Len(inbox'[e]),
                      inbox'[d][k].what # "rest", inbox'[e][l].what # "rest",
                      inbox'[d][k].r.n = inbox'[e][l].r.n
               PROVE  d = e /\ k = l
    BY DEF Once
  <2>1. \/ k \in 1..Len(inbox[d]) /\ inbox'[d][k] = inbox[d][k]
        \/ d = c /\ k = Len(inbox[c]) + 1 /\ inbox'[d][k].r = r
    BY <1>5
  <2>2. \/ l \in 1..Len(inbox[e]) /\ inbox'[e][l] = inbox[e][l]
        \/ e = c /\ l = Len(inbox[c]) + 1 /\ inbox'[e][l].r = r
    BY <1>5
  <2> QED BY <2>1, <2>2, <1>3, <1>6 DEF Once
<1>9. /\ PendingOf(inbox'[c]) \subseteq PendingOf(inbox[c]) \cup {r.n}
      /\ \A d \in Clients \ {c} : PendingOf(inbox'[d]) = PendingOf(inbox[d])
  <2>1. \A k \in 1..Len(inbox'[c]) : inbox'[c][k].what # "rest" =>
          \/ k \in 1..Len(inbox[c]) /\ inbox'[c][k] = inbox[c][k]
          \/ inbox'[c][k].r = r
    BY <1>5
  <2>2. PendingOf(inbox'[c]) \subseteq PendingOf(inbox[c]) \cup {r.n}
    BY <2>1, Zenon DEF PendingOf
  <2>3. \A d \in Clients \ {c} : inbox'[d] = inbox[d]
    BY <1>2, <1>3
  <2> QED BY <2>2, <2>3
<1>10. Handling' = Handling /\ \A d \in Clients : InHand(d)' = InHand(d)
  BY DEF InHand, Handling
<1>11. TakenOut'
  <2> SUFFICES ASSUME Handling
               PROVE  /\ req.n \in Numbers /\ req.n <= asks'
                      /\ \A d \in Clients : req.n \notin PendingOf(inbox'[d])
    BY <1>10 DEF TakenOut
  <2>1. /\ req.n \in Numbers /\ req.n <= asks
        /\ \A d \in Clients : req.n \notin PendingOf(inbox[d])
    BY <1>3 DEF TakenOut
  <2>2. req.n <= asks' /\ req.n # r.n
    BY <1>2, <1>3, <2>1 DEF Numbers
  <2> QED
    BY <1>9, <2>1, <2>2
<1>12. OwedEach'
  <2>1. owed' \in [Clients -> Int] /\ owed'[c] = owed[c] + 1 /\ \A d \in Clients \ {c} : owed'[d] = owed[d]
    BY <1>2, <1>3
  <2>2. ASSUME NEW d \in Clients, d # c
        PROVE  owed'[d] >= Cardinality(Unanswered(d)')
    <3>1. Unanswered(d)' = Unanswered(d) /\ owed'[d] = owed[d]
      BY <1>9, <1>10, <2>1, <2>2 DEF Unanswered
    <3> QED
      BY <1>3, <3>1 DEF OwedEach
  <2>3. owed'[c] >= Cardinality(Unanswered(c)')
    <3>1. IsFiniteSet(Unanswered(c)) /\ Cardinality(Unanswered(c)) \in Nat
      BY UnansweredFinite
    <3>2. Unanswered(c)' \subseteq Unanswered(c) \cup {r.n}
      BY <1>9, <1>10 DEF Unanswered
    <3> DEFINE more == Unanswered(c) \cup {r.n}
    <3>3. /\ IsFiniteSet(more)
          /\ Cardinality(more) = Cardinality(Unanswered(c)) \/ Cardinality(more) = Cardinality(Unanswered(c)) + 1
      <4>1. IsFiniteSet(more)
        BY <3>1, FS_AddElement
      <4>2. Cardinality(more) = IF r.n \in Unanswered(c) THEN Cardinality(Unanswered(c))
                                ELSE Cardinality(Unanswered(c)) + 1
        BY <3>1, FS_AddElement
      <4> HIDE DEF more
      <4> QED BY <4>1, <4>2
    <3> HIDE DEF more
    <3>4. /\ Cardinality(Unanswered(c)') <= Cardinality(more) /\ Cardinality(more) \in Nat
          /\ Cardinality(Unanswered(c)') \in Nat
      BY <3>2, <3>3, FS_Subset, FS_CardinalityType DEF more
    <3>5. owed[c] >= Cardinality(Unanswered(c)) /\ owed[c] \in Int
      BY <1>3 DEF OwedEach
    <3> DEFINE a == Cardinality(Unanswered(c)')  b == Cardinality(more)  d == Cardinality(Unanswered(c))
    <3>6. owed'[c] = owed[c] + 1 /\ owed[c] >= d /\ (b = d \/ b = d + 1) /\ a <= b /\ a \in Nat /\ b \in Nat /\ d \in Nat
      BY <2>1, <3>1, <3>3, <3>4, <3>5
    <3> HIDE DEF a, b, d
    <3>7. owed'[c] >= a
      BY <3>5, <3>6
    <3> QED
      BY <3>7 DEF a
  <2> QED
    BY <2>1, <2>2, <2>3 DEF OwedEach
<1> QED
  BY <1>7, <1>8, <1>11, <1>12 DEF Accounted

\* The end of a connection ends what its client waits for,
LEMMA EndOwed ==
  ASSUME Typed, Accounted, NEW c \in Clients, Ends(c), asks' = asks,
         \/ UNCHANGED <<pc, con, req>> /\ ~(Handling /\ con = c)
         \/ ~Handling /\ ~Handling'
  PROVE  Accounted'
<1>1. /\ inbox'[c] = <<>> /\ \A d \in Clients \ {c} : inbox'[d] = inbox[d]
      /\ owed' = [owed EXCEPT ![c] = 0]
  BY DEF Ends, Typed, TypedClients
<1>2. owed \in [Clients -> Int] /\ Fresh /\ Once /\ TakenOut /\ OwedEach
  BY DEF Accounted, OwedEach
<1>3. \A d \in Clients : Suffix(d, 0)
  BY <1>1, SuffixSame
<1>4. Fresh' /\ Once'
  <2>1. \A d \in Clients : \E s \in Nat : Suffix(d, s)
    BY <1>3
  <2> QED
    BY <1>2, <2>1, SuffixOnce, SuffixFresh
<1>5. \A d \in Clients : PendingOf(inbox'[d]) = IF d = c THEN {} ELSE PendingOf(inbox[d])
  BY <1>1, EmptyBox
<1>6. TakenOut'
  <2>1. CASE UNCHANGED <<pc, con, req>>
    BY <1>2, <1>5, <2>1 DEF TakenOut, Handling
  <2>2. CASE ~Handling'
    BY <2>2 DEF TakenOut
  <2> QED
    BY <2>1, <2>2
<1>7. \A d \in Clients : InHand(d)' = InHand(d) /\ InHand(c)' = {}
  <2>1. CASE UNCHANGED <<pc, con, req>> /\ ~(Handling /\ con = c)
    BY <2>1 DEF InHand, Handling
  <2>2. CASE ~Handling /\ ~Handling'
    BY <2>2 DEF InHand
  <2> QED
    BY <2>1, <2>2
<1>8. Unanswered(c)' = {} /\ \A d \in Clients \ {c} : Unanswered(d)' = Unanswered(d)
  BY <1>5, <1>7 DEF Unanswered
<1>9. OwedEach'
  <2>1. owed' \in [Clients -> Int] /\ owed'[c] = 0 /\ \A d \in Clients \ {c} : owed'[d] = owed[d]
    BY <1>1, <1>2
  <2> QED
    BY <1>2, <1>8, <2>1, FS_EmptySet DEF OwedEach
<1> QED
  BY <1>4, <1>6, <1>9 DEF Accounted

\* and so does the restart of the device.
LEMMA BootOwed ==
  ASSUME Boot
  PROVE  OwedInv'
<1>1. \A c \in Clients : inbox'[c] = <<>> /\ owed'[c] = 0
  BY DEF Boot
<1>2. pc' = "poll"
  BY DEF Boot
<1>3. \A c \in Clients : Unanswered(c)' = {}
  BY <1>1, <1>2, EmptyBox DEF Unanswered, InHand, Handling
<1>4. OwedEach'
  <2>1. \A c \in Clients : Cardinality(Unanswered(c)') = 0
    BY <1>3, FS_EmptySet, Zenon
  <2>2. owed' \in [Clients -> Int]
    BY DEF Boot
  <2> QED
    BY <1>1, <2>1, <2>2 DEF OwedEach
<1> QED
  BY <1>1, <1>2, <1>4 DEF OwedInv, ServesOpen, Accounted, Fresh, Once, TakenOut, Handling

\* At first no answer is owed.
LEMMA OwedInit == Init => OwedInv
<1> SUFFICES ASSUME Init
             PROVE  OwedInv
  OBVIOUS
<1>1. \A c \in Clients : inbox[c] = <<>> /\ owed[c] = 0
  BY DEF Init
<1>2. pc = "poll"
  BY DEF Init
<1>3. \A c \in Clients : Unanswered(c) = {}
  BY <1>1, <1>2, EmptyBox DEF Unanswered, InHand, Handling
<1>4. OwedEach
  <2>1. \A c \in Clients : Cardinality(Unanswered(c)) = 0
    BY <1>3, FS_EmptySet, Zenon
  <2>2. owed \in [Clients -> Int]
    BY DEF Init
  <2> QED
    BY <1>1, <2>1, <2>2 DEF OwedEach
<1> QED
  BY <1>1, <1>2, <1>4 DEF OwedInv, ServesOpen, Accounted, Fresh, Once, TakenOut, Handling

\* A request that is read goes from the connection into the server's hand; the rest of
\* one may take others with it.
LEMMA ReadOwed ==
  ASSUME Typed, Accounted, con \in Clients, NEW s, Reads(s), ~Handling, UNCHANGED <<con, asks, owed>>,
         \/ ~Handling'
         \/ inbox[con][1].what # "rest" /\ req'.n = inbox[con][1].r.n
  PROVE  Accounted'
<1>1. /\ inbox[con] \in Seq(Message) /\ s \in 1..Len(inbox[con]) /\ Len(inbox[con]) \in Nat
      /\ 1 \in 1..Len(inbox[con]) /\ s # 0
      /\ Fresh /\ Once /\ OwedEach /\ owed \in [Clients -> Int]
  BY DEF Typed, TypedClients, Accounted, OwedEach, Reads
<1>2. Suffix(con, s) /\ \A d \in Clients \ {con} : Suffix(d, 0)
  BY ReadTyped
<1>3. \A d \in Clients : \E t \in Nat : Suffix(d, t) /\ (d = con => t # 0)
  BY <1>1, <1>2
<1>4. Fresh' /\ Once'
  BY <1>1, <1>3, SuffixFresh, SuffixOnce
<1>5. \A d \in Clients : PendingOf(inbox'[d]) \subseteq PendingOf(inbox[d])
  BY <1>3, SuffixPending
<1>6. ASSUME Handling'
      PROVE  /\ req'.n \in PendingOf(inbox[con]) /\ req'.n \in Numbers /\ req'.n <= asks
             /\ \A d \in Clients : req'.n \notin PendingOf(inbox'[d])
  <2> DEFINE first == inbox[con][1]
  <2>1. first.what # "rest" /\ req'.n = first.r.n
    BY <1>6
  <2>2. first \in Message
    BY <1>1
  <2>3. first.r \in Request
    BY <2>2 DEF Message
  <2>4. req'.n \in Numbers /\ req'.n <= asks
    BY <1>1, <2>1, <2>3, RequestFacts DEF Fresh
  <2>5. req'.n \in PendingOf(inbox[con])
    BY <1>1, <2>1, <2>4, Zenon DEF PendingOf
  <2>6. ASSUME NEW d \in Clients, NEW k \in 1..Len(inbox'[d]), inbox'[d][k].what # "rest",
               inbox'[d][k].r.n = first.r.n
        PROVE  FALSE
    <3>1. PICK t \in Nat : Suffix(d, t) /\ (d = con => t # 0)
      BY <1>3
    <3>2. k + t \in 1..Len(inbox[d]) /\ inbox'[d][k] = inbox[d][k + t]
      BY <3>1 DEF Suffix
    <3>3. d = con => k + t # 1
      BY <3>1
    <3>4. d = con /\ k + t = 1
      BY <1>1, <2>1, <2>6, <3>2 DEF Once
    <3> QED
      BY <3>3, <3>4
  <2>7. \A d \in Clients : req'.n \notin PendingOf(inbox'[d])
    BY <2>1, <2>6, Zenon DEF PendingOf
  <2> QED
    BY <2>4, <2>5, <2>7
<1>7. TakenOut'
  BY <1>6 DEF TakenOut
<1>8. \A d \in Clients : Unanswered(d)' \subseteq Unanswered(d)
  BY <1>5, <1>6 DEF Unanswered, InHand
<1>9. OwedEach'
  BY <1>1, <1>8, StillOwed DEF OwedEach
<1> QED
  BY <1>4, <1>7, <1>9 DEF Accounted

\* An answer is to what the server has in hand, if that was a request.
LEMMA AnswerOwed ==
  ASSUME Typed, Accounted, Answer, pc = "handle", pc' \in {"serve", "apply"},
         UNCHANGED <<inbox, asks, con>>
  PROVE  Accounted'
<1>1. /\ con \in Clients /\ owed \in [Clients -> Int] /\ Handling = (req # NoRequest)
      /\ ~Handling' /\ Fresh /\ Once /\ TakenOut /\ OwedEach
  BY DEF Typed, TypedServer, Accounted, OwedEach, Handling
<1>2. Fresh' /\ Once' /\ TakenOut'
  BY <1>1 DEF Fresh, Once, TakenOut
<1>3. \A d \in Clients : InHand(d)' = {} /\ Unanswered(d)' \subseteq Unanswered(d)
  BY <1>1 DEF InHand, Unanswered
<1>4. CASE req = NoRequest
  <2>1. owed' = owed
    BY <1>4 DEF Answer
  <2> QED
    BY <1>1, <1>2, <1>3, <2>1, StillOwed DEF Accounted, OwedEach
<1>5. CASE req # NoRequest
  <2>1. owed' = [owed EXCEPT ![con] = @ - 1]
    BY <1>5 DEF Answer
  <2>2. owed' \in [Clients -> Int] /\ owed'[con] = owed[con] - 1 /\ \A d \in Clients \ {con} : owed'[d] = owed[d]
    BY <1>1, <2>1
  <2>3. /\ Unanswered(con)' = Unanswered(con) \ {req.n}
        /\ req.n \in Unanswered(con)
    <3>1. req.n \notin PendingOf(inbox[con])
      BY <1>1, <1>5 DEF TakenOut
    <3>2. InHand(con) = {req.n}
      BY <1>1, <1>5 DEF InHand
    <3>3. /\ Unanswered(con) = PendingOf(inbox[con]) \cup {req.n}
          /\ Unanswered(con)' = PendingOf(inbox[con])
      BY <1>1, <1>3, <3>2 DEF Unanswered
    <3> QED
      BY <3>1, <3>3, Zenon
  <2>4. IsFiniteSet(Unanswered(con)) /\ Cardinality(Unanswered(con)) \in Nat
    BY <1>1, UnansweredFinite
  <2>5. Cardinality(Unanswered(con)') = Cardinality(Unanswered(con)) - 1
    BY <2>3, <2>4, FS_RemoveElement
  <2>6. owed'[con] >= Cardinality(Unanswered(con)')
    BY <1>1, <2>2, <2>4, <2>5 DEF OwedEach
  <2>7. \A d \in Clients \ {con} : owed'[d] >= Cardinality(Unanswered(d)')
    BY <1>1, <1>3, <2>2, StillOwed
  <2> QED
    BY <1>2, <2>2, <2>6, <2>7 DEF Accounted, OwedEach
<1> QED
  BY <1>4, <1>5

\* Whatever happens, no fewer answers are owed than requests have none.
LEMMA OwedStep == Typed /\ OwedInv /\ [Next]_vars => OwedInv'
<1> SUFFICES ASSUME Typed, OwedInv, [Next]_vars
             PROVE  OwedInv'
  OBVIOUS
<1> USE DEF client, parsed, ghosts
<1>0. /\ con \in Clients \cup {Nobody} /\ (pc \notin {"poll", "accept"} => con \in Clients)
      /\ link \in [Clients -> {"none", "backlog", "open", "left"}]
      /\ ServesOpen /\ Accounted
  BY DEF Typed, TypedClients, TypedServer, OwedInv
<1>1. ASSUME UNCHANGED <<inbox, asks, owed>>,
             \/ UNCHANGED <<con, req>> /\ Handling' = Handling
             \/ ~Handling /\ ~Handling'
      PROVE  Accounted'
  <2>1. \A c \in Clients : Unanswered(c)' = Unanswered(c)
    BY <1>1 DEF InHand, Unanswered
  <2>2. TakenOut'
    BY <1>0, <1>1 DEF Accounted, TakenOut
  <2> QED
    BY <1>0, <1>1, <2>1, <2>2 DEF Accounted, Fresh, Once, OwedEach
<1>2. CASE Setup \/ UNCHANGED vars
  <2>1. UNCHANGED <<inbox, asks, owed, con, req, pc, link>>
    BY <1>2 DEF Setup, vars
  <2> QED
    BY <1>0, <1>1, <2>1 DEF OwedInv, ServesOpen, Handling
<1>3. ASSUME NEW c \in Clients, NEW t \in Texts,
             LET r == [n |-> asks + 1, text |-> t] IN Connect(c, r) \/ Ask(c, r)
      PROVE  OwedInv'
  <2> DEFINE r == [n |-> asks + 1, text |-> t]
  <2>1. Send(c, r) /\ UNCHANGED <<pc, con, req>>
    BY <1>3 DEF Connect, Ask
  <2>2. ServesOpen'
    BY <1>0, <1>3 DEF Connect, Ask, ServesOpen
  <2>3. r \in Request /\ r.n = asks + 1
    BY <2>1, SentFacts DEF Send
  <2> QED
    BY <1>0, <2>1, <2>2, <2>3, SendOwed DEF OwedInv
<1>4. ASSUME NEW c \in Clients, Leave(c)
      PROVE  OwedInv'
  <2>1. UNCHANGED <<pc, con, req, asks>>
    BY <1>4 DEF Leave
  <2>2. CASE link[c] = "backlog" /\ link' = [link EXCEPT ![c] = "none"] /\ Ends(c)
    <3>1. ~(Handling /\ con = c)
      BY <1>0, <2>2 DEF ServesOpen, Handling
    <3>2. ServesOpen'
      BY <1>0, <2>1, <2>2 DEF ServesOpen
    <3> QED
      BY <1>0, <2>1, <2>2, <3>1, <3>2, EndOwed DEF OwedInv
  <2>3. CASE /\ link' = [link EXCEPT ![c] = "left"]
             /\ UNCHANGED <<inbox, asked, since, got, owed>>
    <3>1. ServesOpen'
      BY <1>0, <2>1, <2>3 DEF ServesOpen
    <3> QED
      BY <1>1, <2>1, <2>3, <3>1 DEF OwedInv, Handling
  <2> QED
    BY <1>4, <2>2, <2>3 DEF Leave
<1>5. CASE Poll
  <2>1. ~Handling /\ ~Handling' /\ UNCHANGED <<inbox, asks, owed>> /\ ServesOpen'
    BY <1>5 DEF Poll, Handling, ServesOpen
  <2> QED
    BY <1>1, <2>1 DEF OwedInv
<1>6. CASE Accept
  <2>1. ~Handling /\ ~Handling' /\ UNCHANGED <<inbox, asks, owed>>
    BY <1>6 DEF Accept, Handling
  <2>2. ServesOpen'
    BY <1>0, <1>6 DEF Accept, ServesOpen
  <2> QED
    BY <1>1, <2>1, <2>2 DEF OwedInv
<1>7. CASE AcceptFails \/ ReadBehind \/ RefuseFails \/ ApplyFails
  BY <1>7, BootOwed DEF AcceptFails, ReadBehind, RefuseFails, ApplyFails
<1>8. CASE Expire
  <2>1. ~Handling /\ ~Handling' /\ Ends(con) /\ con \in Clients /\ asks' = asks /\ ServesOpen'
    BY <1>0, <1>8 DEF Expire, Close, Handling, ServesOpen
  <2> QED
    BY <1>0, <2>1, EndOwed DEF OwedInv
<1>9. ASSUME NEW r, Parsed(r), pc = "serve", NEW s, Reads(s), UNCHANGED owed,
             r = NoRequest \/ (inbox[con][1].what # "rest" /\ r.n = inbox[con][1].r.n)
      PROVE  OwedInv'
  <2>1. ServesOpen' /\ con \in Clients /\ ~Handling /\ UNCHANGED <<con, asks, owed>> /\ req' = r
    BY <1>0, <1>9 DEF Parsed, ServesOpen, Handling
  <2>2. r = NoRequest => ~Handling'
    BY <2>1 DEF Handling
  <2> QED
    BY <1>0, <1>9, <2>1, <2>2, ReadOwed DEF OwedInv
<1>10. CASE Read
  <2> DEFINE first == Head(inbox[con])
  <2>1. con \in Clients /\ inbox[con] # <<>> /\ pc = "serve" /\ UNCHANGED owed
    BY <1>0, <1>10 DEF Read, Analyze, Parsed
  <2>2. first = inbox[con][1] /\ first.r \in Request
    BY <2>1, ReadsFew DEF Message
  <2>3. PICK s, r : /\ Reads(s) /\ Parsed(r) /\ first.what # "rest"
                    /\ r = NoRequest \/ r.n = first.r.n
    <3>1. CASE /\ first.what # "rest"
               /\ inbox' = [inbox EXCEPT ![con] = Tail(@)]
               /\ \E r \in Before(first.r) : Analyze(r)
      <4>1. PICK r \in Before(first.r) : Parsed(r)
        BY <3>1 DEF Analyze
      <4>2. r = NoRequest \/ r.n = first.r.n
        BY <2>2, PieceFacts
      <4> QED BY <2>1, <3>1, <4>1, <4>2, ReadsFew
    <3>2. CASE /\ first.what = "head"
               /\ inbox' = [inbox EXCEPT ![con] = Tail(Tail(@))]
               /\ Analyze([first.r EXCEPT !.text.cut = "no"])
      <4> DEFINE r == [first.r EXCEPT !.text.cut = "no"]
      <4>1. r.n = first.r.n
        BY <2>2, PieceFacts
      <4>2. Reads(2) /\ Parsed(r) /\ first.what # "rest"
        BY <2>1, <3>2, ReadsFew DEF Analyze
      <4> HIDE DEF r
      <4> QED BY <4>1, <4>2
    <3> QED BY <1>10, <3>1, <3>2 DEF Read
  <2> QED
    BY <1>9, <2>1, <2>2, <2>3
<1>11. CASE ReadRest
  <2>1. PICK s : Reads(s)
    BY <1>11 DEF ReadRest, Reads
  <2> QED
    BY <1>9, <1>11, <2>1 DEF ReadRest, Parsed
<1>12. CASE Match
  <2>1. UNCHANGED <<inbox, asks, owed, con, req>> /\ Handling' = Handling /\ ServesOpen'
    BY <1>0, <1>12 DEF Match, Handling, ServesOpen
  <2> QED
    BY <1>1, <2>1 DEF OwedInv
<1>13. CASE Refuse \/ Get \/ Post \/ Other
  <2>1. /\ Answer /\ pc = "handle" /\ pc' \in {"serve", "apply"}
        /\ UNCHANGED <<inbox, asks, link, con>>
    BY <1>13 DEF Refuse, Get, Post, Other, By
  <2>2. ServesOpen'
    BY <1>0, <2>1 DEF ServesOpen
  <2> QED
    BY <1>0, <2>1, <2>2, AnswerOwed DEF OwedInv
<1>14. CASE Apply
  <2>1. ~Handling /\ ~Handling' /\ UNCHANGED <<inbox, asks, owed>> /\ ServesOpen'
    BY <1>0, <1>14 DEF Apply, Handling, ServesOpen
  <2> QED
    BY <1>1, <2>1 DEF OwedInv
<1> QED
  BY <1>2, <1>3, <1>4, <1>5, <1>6, <1>7, <1>8, <1>10, <1>11, <1>12, <1>13, <1>14 DEF Next, Serve

\* No client gets more answers than it sent requests, on any connection, whatever is
\* cut in pieces, left or closed in between: a request is answered by one handler
\* only (HttpServer::handleConnection).
THEOREM OneAnswerEach == Spec => []OneAnswer
<1>1. Typed /\ OwedInv => OneAnswer
  <2> SUFFICES ASSUME OwedInv, NEW c \in Clients
               PROVE  owed[c] >= 0
    BY DEF OneAnswer
  <2>1. owed[c] \in Int /\ owed[c] >= Cardinality(Unanswered(c))
    BY DEF OwedInv, Accounted, OwedEach
  <2>2. Cardinality(Unanswered(c)) \in Nat
    BY UnansweredFinite
  <2> QED
    BY <2>1, <2>2
<1> QED
  BY <1>1, OwedStep, OwedInit, TypedInit, TypedStep, PTL DEF Spec
===============================================================================
