-------------------------- MODULE WifiManagerProofs --------------------------
(***************************************************************************)
(* WifiManager, for every number of WPS attempts and of disturbances: the  *)
(* variables keep their types, the MQTT client runs exactly when the       *)
(* manager believes that there is a connection, unless it was told before  *)
(* it was made or by two threads at once, and a station without a link is  *)
(* never left alone.                                                       *)
(***************************************************************************)
EXTENDS WifiManager, TLAPS

-----------------------------------------------------------------------------
(* Queues.                                                                 *)

\* What a queue holds after an event was added.
LEMMA ContainsAppend ==
  ASSUME NEW S, NEW q \in Seq(S), NEW e \in S
  PROVE  /\ Append(q, e) \in Seq(S)
         /\ \A x : Contains(Append(q, e), x) <=> Contains(q, x) \/ x = e
  BY DEF Contains

\* What two queues hold together.
LEMMA ContainsConcat ==
  ASSUME NEW S, NEW p \in Seq(S), NEW q \in Seq(S)
  PROVE  /\ p \o q \in Seq(S)
         /\ \A x : Contains(p \o q, x) <=> Contains(p, x) \/ Contains(q, x)
<1>1. p \o q \in Seq(S) /\ Len(p \o q) = Len(p) + Len(q)
  OBVIOUS
<1>2. \A i \in 1..Len(p) : (p \o q)[i] = p[i]
  OBVIOUS
<1>3. \A i \in 1..Len(q) : (p \o q)[Len(p) + i] = q[i] /\ Len(p) + i \in 1..Len(p \o q)
  OBVIOUS
<1>4. ASSUME NEW i \in 1..Len(p \o q), i > Len(p)
      PROVE  i - Len(p) \in 1..Len(q) /\ (p \o q)[i] = q[i - Len(p)]
  BY <1>4
<1> QED
  BY <1>1, <1>2, <1>3, <1>4 DEF Contains

\* What a queue holds that is not empty: its head, and what follows it.
LEMMA ContainsTail ==
  ASSUME NEW S, NEW q \in Seq(S), q # <<>>
  PROVE  /\ Head(q) \in S /\ Tail(q) \in Seq(S)
         /\ \A x : Contains(q, x) <=> x = Head(q) \/ Contains(Tail(q), x)
<1>1. Head(q) \in S /\ Tail(q) \in Seq(S) /\ Len(Tail(q)) = Len(q) - 1 /\ Head(q) = q[1] /\ 1 \in 1..Len(q)
  OBVIOUS
<1>2. \A i \in 1..Len(Tail(q)) : Tail(q)[i] = q[i + 1] /\ i + 1 \in 1..Len(q)
  OBVIOUS
<1>3. ASSUME NEW i \in 1..Len(q), i # 1
      PROVE  i - 1 \in 1..Len(Tail(q)) /\ Tail(q)[i - 1] = q[i]
  BY <1>3
<1> QED
  BY <1>1, <1>2, <1>3 DEF Contains

\* An empty queue holds nothing, and one with a single event that one.
LEMMA ContainsFew ==
  /\ \A x : ~Contains(<<>>, x)
  /\ \A e, x : Contains(<<e>>, x) <=> x = e
  BY DEF Contains

\* A loss follows every address in the queue.
Answered(q) ==
  \A k \in 1..Len(q) : q[k] = "GOT_IP" =>
    \E j \in 1..Len(q) : j > k /\ q[j] = "STA_DISCONNECTED"

\* It stays so while other events are added, becomes so with a loss, and is so of what
\* follows the head.
LEMMA AnsweredKept ==
  ASSUME NEW S, NEW q \in Seq(S)
  PROVE  /\ \A p \in Seq(S) : ~Contains(p, "GOT_IP") /\ (Answered(q) \/ Contains(p, "STA_DISCONNECTED"))
              => Answered(q \o p)
         /\ q # <<>> /\ Answered(q) =>
              /\ Answered(Tail(q))
              /\ Head(q) = "GOT_IP" => Contains(Tail(q), "STA_DISCONNECTED")
<1>1. ASSUME NEW p \in Seq(S), ~Contains(p, "GOT_IP"), Answered(q) \/ Contains(p, "STA_DISCONNECTED")
      PROVE  Answered(q \o p)
  <2> SUFFICES ASSUME NEW k \in 1..Len(q \o p), (q \o p)[k] = "GOT_IP"
               PROVE  \E j \in 1..Len(q \o p) : j > k /\ (q \o p)[j] = "STA_DISCONNECTED"
    BY DEF Answered
  <2>1. k \in 1..Len(q)
    <3>1. ASSUME k > Len(q)
          PROVE  FALSE
      <4>1. k - Len(q) \in 1..Len(p) /\ (q \o p)[k] = p[k - Len(q)]
        BY <3>1
      <4> QED
        BY <1>1, <4>1 DEF Contains
    <3> QED
      BY <3>1
  <2>2. CASE Answered(q)
    <3>1. q[k] = "GOT_IP"
      BY <2>1
    <3>2. PICK j \in 1..Len(q) : j > k /\ q[j] = "STA_DISCONNECTED"
      BY <2>1, <2>2, <3>1 DEF Answered
    <3>3. j \in 1..Len(q \o p) /\ (q \o p)[j] = "STA_DISCONNECTED"
      BY <3>2
    <3> QED
      BY <3>2, <3>3
  <2>3. CASE Contains(p, "STA_DISCONNECTED")
    <3>1. PICK i \in 1..Len(p) : p[i] = "STA_DISCONNECTED"
      BY <2>3 DEF Contains
    <3>2. Len(q) + i \in 1..Len(q \o p) /\ Len(q) + i > k /\ (q \o p)[Len(q) + i] = p[i]
      BY <2>1
    <3> QED
      BY <3>1, <3>2
  <2> QED
    BY <1>1, <2>2, <2>3
<1>2. ASSUME q # <<>>, Answered(q)
      PROVE  /\ Answered(Tail(q))
             /\ Head(q) = "GOT_IP" => Contains(Tail(q), "STA_DISCONNECTED")
  <2>1. Len(Tail(q)) = Len(q) - 1 /\ Head(q) = q[1] /\ 1 \in 1..Len(q)
    BY <1>2
  <2>2. \A i \in 1..Len(Tail(q)) : Tail(q)[i] = q[i + 1] /\ i + 1 \in 1..Len(q)
    BY <1>2
  <2>3. ASSUME NEW k \in 1..Len(q), q[k] = "GOT_IP"
        PROVE  \E i \in 1..Len(Tail(q)) : i > k - 1 /\ Tail(q)[i] = "STA_DISCONNECTED"
    <3>1. PICK j \in 1..Len(q) : j > k /\ q[j] = "STA_DISCONNECTED"
      BY <1>2, <2>3 DEF Answered
    <3>2. j - 1 \in 1..Len(Tail(q)) /\ j - 1 > k - 1
      BY <2>1, <3>1
    <3>3. Tail(q)[j - 1] = q[j]
      BY <2>2, <3>2
    <3> QED
      BY <3>1, <3>2, <3>3
  <2>4. Answered(Tail(q))
    <3> SUFFICES ASSUME NEW k \in 1..Len(Tail(q)), Tail(q)[k] = "GOT_IP"
                 PROVE  \E i \in 1..Len(Tail(q)) : i > k /\ Tail(q)[i] = "STA_DISCONNECTED"
      BY DEF Answered
    <3>1. k + 1 \in 1..Len(q) /\ q[k + 1] = "GOT_IP" /\ (k + 1) - 1 = k
      BY <2>2
    <3> QED
      BY <2>3, <3>1
  <2>5. Head(q) = "GOT_IP" => Contains(Tail(q), "STA_DISCONNECTED")
    BY <2>1, <2>3 DEF Contains
  <2> QED
    BY <2>4, <2>5
<1> QED
  BY <1>1, <1>2

-----------------------------------------------------------------------------
(* The driver.                                                             *)

\* What the functions of the driver do to the link and to the operating mode.
LEMMA RadioOps ==
  ASSUME NEW r \in Radio
  PROVE  /\ Stopped(r) \in Radio /\ Stopped(r).act = r.act /\ Stopped(r).link = "stopped"
         /\ Started(r) \in Radio /\ Started(r).act = r.act
         /\ Started(r).link = IF r.link = "stopped" THEN "idle" ELSE r.link
         /\ Connecting(r) \in Radio /\ Connecting(r).act = r.act
         /\ Connecting(r).link = IF r.link = "idle" THEN "connecting" ELSE r.link
         /\ \A m \in OpMode :
              /\ InMode(r, m) \in Radio /\ InMode(r, m).act = m
              /\ InMode(r, m).link = IF m = "AP" /\ r.link # "stopped" THEN "idle" ELSE r.link
<1>1. Stopped(r) \in Radio /\ Stopped(r).act = r.act /\ Stopped(r).link = "stopped"
  BY DEF Radio, Stopped, Link
<1>2. /\ Started(r) \in Radio /\ Started(r).act = r.act
      /\ Started(r).link = IF r.link = "stopped" THEN "idle" ELSE r.link
  BY DEF Radio, Started, Link
<1>3. /\ Connecting(r) \in Radio /\ Connecting(r).act = r.act
      /\ Connecting(r).link = IF r.link = "idle" THEN "connecting" ELSE r.link
  BY DEF Radio, Connecting, Link
<1>4. ASSUME NEW m \in OpMode
      PROVE  /\ InMode(r, m) \in Radio /\ InMode(r, m).act = m
             /\ InMode(r, m).link = IF m = "AP" /\ r.link # "stopped" THEN "idle" ELSE r.link
  <2>1. (r.guest /\ m # "STA") \in BOOLEAN
    BY DEF Radio
  <2>2. PICK b \in BOOLEAN : b = (r.guest /\ m # "STA")
    BY <2>1, Zenon
  <2>3. InMode(r, m) = [r EXCEPT !.act = m,
                                 !.link = IF m = "AP" /\ @ # "stopped" THEN "idle" ELSE @,
                                 !.guest = b]
    BY <2>2, Zenon DEF InMode
  <2>4. PICK link \in Link : link = IF m = "AP" /\ r.link # "stopped" THEN "idle" ELSE r.link
    BY DEF Radio, Link
  <2>5. InMode(r, m) = [r EXCEPT !.act = m, !.link = link, !.guest = b]
    BY <2>3, <2>4
  <2> QED
    BY <2>4, <2>5 DEF Radio
<1> QED
  BY <1>1, <1>2, <1>3, <1>4

\* What leaving a mode does to them.
LEMMA LeftOps ==
  ASSUME radio \in Radio
  PROVE  /\ Left(radio) \in Radio /\ Left(radio).act = radio.act
         /\ \/ Left(radio).link = radio.link
            \/ radio.link = "idle" /\ Left(radio).link = "connecting"
            \/ radio.link # "stopped" /\ Left(radio).link = "idle"
<1>1. \A r \in Radio : /\ [r EXCEPT !.wps = "off"] \in Radio
                       /\ [r EXCEPT !.wps = "off"].act = r.act
                       /\ [r EXCEPT !.wps = "off"].link = r.link
                       /\ [r EXCEPT !.link = "idle"] \in Radio
                       /\ [r EXCEPT !.link = "idle"].act = r.act
                       /\ [r EXCEPT !.link = "idle"].link = "idle"
  BY DEF Radio, Link
<1>2. CASE mode = "Wps"
  <2>1. /\ Connecting(radio) \in Radio /\ Connecting(radio).act = radio.act
        /\ Connecting(radio).link = IF radio.link = "idle" THEN "connecting" ELSE radio.link
    BY RadioOps
  <2>2. Left(radio) = [Connecting(radio) EXCEPT !.wps = "off"]
    BY <1>2 DEF Left
  <2>3. Left(radio) \in Radio /\ Left(radio).act = radio.act /\ Left(radio).link = Connecting(radio).link
    BY <1>1, <2>1, <2>2
  <2> QED
    BY <2>1, <2>3
<1>3. CASE mode # "Wps"
  BY <1>1, <1>3 DEF Left
<1> QED
  BY <1>2, <1>3

\* Exactly the loss of a link, or of an attempt, is reported.
LEMMA LostOps ==
  ASSUME NEW r, NEW to
  PROVE  /\ Lost(r, to) \in Seq(Posted)
         /\ \A x : Contains(Lost(r, to), x) <=>
              x = "STA_DISCONNECTED" /\ r.link \in {"connecting", "up"} /\ to.link \in {"stopped", "idle"}
<1>1. <<>> \in Seq(Posted) /\ <<"STA_DISCONNECTED">> \in Seq(Posted)
  BY DEF Posted, DriverEvent
<1> QED
  BY <1>1, ContainsFew DEF Lost

-----------------------------------------------------------------------------
(* Type correctness.                                                       *)

\* The events are those of the modes, of the driver, and the change of the mode.
LEMMA EventsTyped ==
  /\ Mode \subseteq Events /\ DriverEvent \subseteq Events /\ "ModeChange" \in Events
  /\ \A m \in Mode : Timer(m) \in [active : BOOLEAN, due : BOOLEAN, to : Mode]
  /\ Silent \in Radio
  BY DEF Events, Mode, DriverEvent, Timer, Silent, Radio, Link, OpMode

\* The radio that entering ConnectState leaves.
LEMMA PreparedOps ==
  ASSUME TypeOK, NEW stop \in BOOLEAN
  PROVE  /\ Prepared(stop) \in Radio /\ Prepared(stop).act = conf
         /\ Connecting(Prepared(stop)) \in Radio /\ Connecting(Prepared(stop)).act = conf
         /\ Prepared(stop).link \in {"stopped", "idle"} \/ Prepared(stop).link = Left(radio).link
         /\ Left(radio).link = "stopped" => radio.link = "stopped"
<1>1. radio \in Radio /\ conf \in OpMode
  BY DEF TypeOK
<1>2. Left(radio) \in Radio
  BY <1>1, LeftOps
<1>3. Started(Stopped(Left(radio))) \in Radio /\ Started(Stopped(Left(radio))).link = "idle"
  BY <1>2, RadioOps
<1>4. /\ Prepared(stop) \in Radio /\ Prepared(stop).act = conf
      /\ Prepared(stop).link \in {"stopped", "idle"} \/ Prepared(stop).link = Left(radio).link
  BY <1>1, <1>2, <1>3, RadioOps DEF Prepared
<1>5. Left(radio).link = "stopped" => radio.link = "stopped"
  BY <1>1, LeftOps
<1> QED
  BY <1>4, <1>5, RadioOps

\* Every step leaves the variables well-typed.
LEMMA TypeStep == TypeOK /\ [Next]_vars => TypeOK'
<1> SUFFICES ASSUME TypeOK, [Next]_vars
             PROVE  TypeOK'
  OBVIOUS
<1> USE DEF manager, observed, world
<1>0. /\ radio \in Radio /\ conf \in OpMode /\ Left(radio) \in Radio
      /\ queue \in Seq(Events) /\ posted \in Seq(Posted)
      /\ \A e \in Events : Append(queue, e) \in Seq(Events)
      /\ queue # <<>> => /\ Tail(queue) \in Seq(Events)
                         /\ \A e \in Events : Append(Tail(queue), e) \in Seq(Events)
      /\ \A e \in Posted : Append(posted, e) \in Seq(Posted)
      /\ posted # <<>> => Tail(posted) \in Seq(Posted)
      /\ \A r, to : posted \o Lost(r, to) \in Seq(Posted)
  BY LeftOps, LostOps DEF TypeOK
<1>1. CASE CheckTimeout
  BY <1>1 DEF CheckTimeout, TypeOK
<1>2. CASE Expired
  <2>1. timer.to \in Events
    BY EventsTyped DEF TypeOK
  <2>2. timer' \in [active : BOOLEAN, due : BOOLEAN, to : Mode] /\ queue' \in Seq(Events)
    BY <1>2, <1>0, <2>1 DEF Expired, TypeOK
  <2> QED
    BY <1>2, <2>2 DEF Expired, TypeOK
<1>3. CASE NothingToHandle
  BY <1>3 DEF NothingToHandle, TypeOK
<1>4. CASE EnterDisconnect
  <2>1. queue # <<>> /\ "Connect" \in Events /\ "Disconnect" \in Mode
    BY <1>4, EventsTyped DEF EnterDisconnect, Enter, Takes, Mode
  <2> QED
    BY <1>4, <1>0, <2>1 DEF EnterDisconnect, Enter, TypeOK
<1>5. CASE EnterConnect
  <2>1. queue # <<>> /\ "Connect" \in Mode /\ "Disconnect" \in Mode
    BY <1>5 DEF EnterConnect, Enter, Takes, Mode
  <2>2. PICK stop \in StopRequired :
          /\ radio' = IF conf = "AP" THEN Prepared(stop) ELSE Connecting(Prepared(stop))
          /\ posted' = posted \o Lost(radio, Left(radio)) \o Lost(Left(radio), Prepared(stop))
    BY <1>5 DEF EnterConnect
  <2>3. stop \in BOOLEAN
    BY <1>0, Zenon DEF StopRequired, Radio
  <2>4. radio' \in Radio
    BY <2>2, <2>3, PreparedOps
  <2>5. posted' \in Seq(Posted)
    BY <1>0, <2>2, LostOps
  <2>6. timer' \in [active : BOOLEAN, due : BOOLEAN, to : Mode]
    BY <1>5, <2>1, EventsTyped DEF EnterConnect, TypeOK
  <2> QED
    BY <1>5, <1>0, <2>1, <2>4, <2>5, <2>6 DEF EnterConnect, Enter, TypeOK
<1>6. CASE EnterScan
  <2>1. queue # <<>> /\ {"Scan", "Disconnect"} \subseteq Mode
    BY <1>6 DEF EnterScan, Enter, Takes, Mode
  <2>2. InMode(Started(Left(radio)), "STA") \in Radio
    BY <1>0, RadioOps DEF OpMode
  <2>3. radio' \in Radio
    BY <1>6, <2>2 DEF EnterScan, Radio
  <2> QED
    BY <1>6, <1>0, <2>1, <2>3, EventsTyped DEF EnterScan, Enter, TypeOK
<1>7. CASE EnterWps
  <2>1. queue # <<>> /\ {"Wps", "Disconnect"} \subseteq Mode
    BY <1>7 DEF EnterWps, Enter, Takes, Mode
  <2>2. \A wps \in {"on", Left(radio).wps} : [Left(radio) EXCEPT !.wps = wps] \in Radio
    BY <1>0 DEF Radio
  <2>3. radio' \in Radio
    BY <1>7, <1>0, <2>2 DEF EnterWps
  <2>4. retries' \in 0..Retries
    BY <1>7, WifiAssumption DEF EnterWps, TypeOK
  <2>5. timer' \in [active : BOOLEAN, due : BOOLEAN, to : Mode]
    BY <1>7, <2>1, EventsTyped DEF EnterWps
  <2> QED
    BY <1>7, <1>0, <2>1, <2>3, <2>4, <2>5 DEF EnterWps, Enter, TypeOK
<1>8. CASE LinkLost
  <2>1. queue # <<>> /\ (client /\ ~isConnected) \in BOOLEAN
    BY <1>8 DEF LinkLost, Takes
  <2>2. client' \in BOOLEAN
    BY <1>8, <2>1, Zenon DEF LinkLost
  <2>3. (handler = "notified") \in BOOLEAN /\ mistold \in BOOLEAN
    BY DEF TypeOK
  <2>4. mistold' \in BOOLEAN
    BY <1>8, <2>3, Zenon DEF LinkLost
  <2> QED
    BY <1>8, <1>0, <2>1, <2>2, <2>4 DEF LinkLost, TypeOK
<1>9. CASE SetDisconnected
  BY <1>9 DEF SetDisconnected, TypeOK
<1>10. CASE RetryLater
  BY <1>10, EventsTyped DEF RetryLater, Mode, TypeOK
<1>11. CASE ModeChanged
  <2>1. queue # <<>> /\ "Disconnect" \in Events /\ Stopped(radio) \in Radio
    BY <1>11, <1>0, RadioOps, EventsTyped DEF ModeChanged, Takes, Mode
  <2> QED
    BY <1>11, <1>0, <2>1 DEF ModeChanged, TypeOK
<1>12. CASE Scanned
  <2>1. queue # <<>> /\ "Disconnect" \in Events
    BY <1>12, EventsTyped DEF Scanned, Takes, Mode
  <2> QED
    BY <1>12, <1>0, <2>1 DEF Scanned, TypeOK
<1>13. CASE WpsSuccess
  <2>1. queue # <<>> /\ "Connect" \in Events
    BY <1>13, EventsTyped DEF WpsSuccess, Takes, Mode
  <2> QED
    BY <1>13, <1>0, <2>1 DEF WpsSuccess, TypeOK
<1>14. CASE WpsFailed
  <2>1. queue # <<>> /\ [radio EXCEPT !.wps = "on"] \in Radio
    BY <1>14, <1>0 DEF WpsFailed, Takes, Radio
  <2> QED
    BY <1>14, <1>0, <2>1 DEF WpsFailed, TypeOK
<1>15. CASE Ignored
  BY <1>15, <1>0 DEF Ignored, TypeOK
<1>16. CASE Watch
  <2>1. "ModeChange" \in Events /\ InMode(radio, conf) \in Radio
    BY <1>0, RadioOps, EventsTyped
  <2>2. queue' \in Seq(Events) /\ radio' \in Radio /\ posted' \in Seq(Posted)
    <3>1. CASE radio.act = conf
      BY <1>16, <1>0, <3>1 DEF Watch
    <3>2. CASE radio.act # conf
      BY <1>16, <1>0, <2>1, <3>2 DEF Watch
    <3> QED
      BY <3>1, <3>2
  <2> QED
    BY <1>16, <2>2 DEF Watch, TypeOK
<1>17. CASE Abort
  <2>1. <<"Scan">> \in Seq(Events) /\ <<>> \in Seq(Posted)
    BY DEF Events, Mode
  <2>2. [active |-> FALSE, due |-> TRUE, to |-> "Disconnect"] \in [active : BOOLEAN, due : BOOLEAN, to : Mode]
    BY DEF Mode
  <2>3. timer' \in [active : BOOLEAN, due : BOOLEAN, to : Mode] /\ radio' \in Radio /\ mode' \in Mode
    BY <1>17, <2>2, EventsTyped DEF Abort, Mode
  <2>4. retries' \in 0..Retries
    BY <1>17, WifiAssumption DEF Abort
  <2> QED
    BY <1>17, <2>1, <2>3, <2>4 DEF Abort, TypeOK
<1>18. CASE Forward
  <2>1. posted # <<>> /\ Head(posted) \in Events
    BY <1>18, EventsTyped DEF Forward
  <2> QED
    BY <1>18, <1>0, <2>1 DEF Forward, TypeOK
<1>19. CASE NotifyConnect
  <2>1. (~made \/ task = "lost") \in BOOLEAN
    OBVIOUS
  <2>2. mistold' \in BOOLEAN
    BY <1>19, <2>1, Zenon DEF NotifyConnect
  <2> QED
    BY <1>19, <1>0, <2>2 DEF NotifyConnect, TypeOK
<1>20. CASE SetConnected
  BY <1>20 DEF SetConnected, TypeOK
<1>21. CASE StopTimeout
  BY <1>21 DEF StopTimeout, TypeOK
<1>22. ASSUME Disturb
       PROVE  disturbed' \in 0..MaxDisturb
  BY <1>22, WifiAssumption DEF Disturb, TypeOK
<1>23. CASE GotIp
  <2>1. [radio EXCEPT !.link = "up"] \in Radio /\ "GOT_IP" \in Posted
    BY <1>0 DEF Radio, Link, Posted
  <2>2. disturbed' \in 0..MaxDisturb
    BY <1>23, <1>22 DEF GotIp, TypeOK
  <2> QED
    BY <1>23, <1>0, <2>1, <2>2 DEF GotIp, TypeOK
<1>24. CASE Fault
  <2>1. [radio EXCEPT !.link = "idle"] \in Radio
    BY <1>0 DEF Radio, Link
  <2> QED
    BY <1>24, <1>0, <1>22, <2>1 DEF Fault, TypeOK
<1>25. CASE Guest
  <2>1. [radio EXCEPT !.guest = ~@] \in Radio
    BY <1>0 DEF Radio
  <2> QED
    BY <1>25, <2>1 DEF Guest, TypeOK
<1>26. CASE ScanDone
  <2>1. [radio EXCEPT !.scanning = FALSE] \in Radio /\ "SCAN_DONE" \in Posted
    BY <1>0 DEF Radio, Posted, DriverEvent
  <2> QED
    BY <1>26, <1>0, <2>1 DEF ScanDone, TypeOK
<1>27. CASE WpsAnswer
  <2>1. [radio EXCEPT !.wps = "answered"] \in Radio
    BY <1>0 DEF Radio
  <2>2. {"WPS_ER_SUCCESS", "WPS_ER_FAILED"} \subseteq Posted
    BY DEF Posted, DriverEvent
  <2> QED
    BY <1>27, <1>0, <2>1, <2>2 DEF WpsAnswer, TypeOK
<1>28. CASE StartScan
  <2>1. "Scan" \in Events
    BY DEF Events, Mode
  <2> QED
    BY <1>28, <1>0, <1>22, <2>1 DEF StartScan, TypeOK
<1>29. CASE StartWps
  <2>1. "Wps" \in Events /\ Retries \in 0..Retries
    BY WifiAssumption DEF Events, Mode
  <2> QED
    BY <1>29, <1>0, <1>22, <2>1 DEF StartWps, TypeOK
<1>30. CASE ChangeConfig
  BY <1>30, <1>22 DEF ChangeConfig, TypeOK
<1>31. CASE Tick
  BY <1>31 DEF Tick, TypeOK
<1>32. CASE MakeClient
  BY <1>32 DEF MakeClient, TypeOK
<1>33. CASE UNCHANGED vars
  BY <1>33 DEF vars, TypeOK
<1> QED
  BY <1>1, <1>2, <1>3, <1>4, <1>5, <1>6, <1>7, <1>8, <1>9, <1>10, <1>11, <1>12, <1>13,
     <1>14, <1>15, <1>16, <1>17, <1>18, <1>19, <1>20, <1>21, <1>23, <1>24, <1>25, <1>26,
     <1>27, <1>28, <1>29, <1>30, <1>31, <1>32, <1>33 DEF Next, Task, EventLoop, Environment

\* The manager starts well-typed.
LEMMA InitTyped == Init => TypeOK
<1> SUFFICES ASSUME Init
             PROVE  TypeOK
  OBVIOUS
<1>1. <<"Scan">> \in Seq(Events) /\ <<>> \in Seq(Posted)
  BY DEF Events, Mode
<1>2. [active |-> FALSE, due |-> TRUE, to |-> "Disconnect"] \in [active : BOOLEAN, due : BOOLEAN, to : Mode]
  BY DEF Mode
<1>3. timer \in [active : BOOLEAN, due : BOOLEAN, to : Mode] /\ radio \in Radio /\ mode \in Mode
  BY <1>2, EventsTyped DEF Init, Mode
<1>4. retries \in 0..Retries /\ disturbed \in 0..MaxDisturb
  BY WifiAssumption DEF Init
<1> QED
  BY <1>1, <1>3, <1>4 DEF Init, TypeOK

\* The variables of the WiFi manager keep their types, however its threads, the
\* event loop and the driver interleave.
THEOREM TypeCorrect == Spec => []TypeOK
BY InitTyped, TypeStep, PTL DEF Spec

-----------------------------------------------------------------------------
(* An address and the loss of a link.                                      *)

\* What a step of the driver, or of the thread that commands it, does to the queue
\* of the event loop: no link goes without notice, nothing is taken from the queue
\* and no address is added to it.
Noticed ==
  /\ radio'.link # radio.link =>
       radio.link \in {"stopped", "idle"} \/ Contains(posted', "STA_DISCONNECTED")
  /\ \A e : Contains(posted, e) => Contains(posted', e)
  /\ Answered(posted) => Answered(posted')
  /\ radio.link = "up" /\ radio'.link # "up" => Answered(posted') /\ Contains(posted', "STA_DISCONNECTED")

\* Every address that is posted, or that the event loop deals with, is followed by the
\* loss of its link, or the link is up.
AddressInv ==
  \/ radio.link = "up"
  \/ Answered(posted) /\ (handler # "idle" => Contains(posted, "STA_DISCONNECTED"))

\* Told by one thread at a time, the client runs once the observer was told of an
\* address, and not once it was told of a loss; else it runs exactly when the manager
\* believes in a connection.
ClientInv ==
  /\ ~mistold =>
       /\ handler = "notified" => client /\ task # "lost"
       /\ task = "lost" => ~client
  /\ ClientMatches

\* NotStranded, whatever operating mode is configured meanwhile.
StrandedInv ==
  mode = "Connect" /\ radio.act # "AP" /\ radio.link \in {"stopped", "idle"} =>
    \/ task \in {"retry", "lost", "expired"} \/ timer.active
    \/ Contains(queue, "STA_DISCONNECTED") \/ Contains(posted, "STA_DISCONNECTED")
    \/ \E m \in Mode \cup {"ModeChange"} : Contains(queue, m)

\* What is posted by the driver is no address, and is added to what was posted.
LEMMA DriverPosts ==
  ASSUME TypeOK, NEW p \in Seq(Posted), ~Contains(p, "GOT_IP"), posted' = posted \o p
  PROVE  /\ \A e : Contains(posted', e) <=> Contains(posted, e) \/ Contains(p, e)
         /\ Answered(posted) \/ Contains(p, "STA_DISCONNECTED") => Answered(posted')
<1>1. posted \in Seq(Posted)
  BY DEF TypeOK
<1> QED
  BY <1>1, ContainsConcat, AnsweredKept

\* Every step is noticed, but for those that report an address, take what is
\* posted, or restart.
LEMMA StepNoticed ==
  ASSUME TypeOK, [Next]_vars, ~GotIp, ~Forward, ~NotifyConnect, ~Abort
  PROVE  Noticed
<1> USE DEF manager, observed, world
<1>0. radio \in Radio /\ conf \in OpMode /\ posted \in Seq(Posted)
  BY DEF TypeOK
<1>1. ASSUME UNCHANGED <<radio, posted>>
      PROVE  Noticed
  BY <1>1 DEF Noticed
<1>2. ASSUME NEW p \in Seq(Posted), ~Contains(p, "GOT_IP"), posted' = posted \o p,
             radio'.link # radio.link =>
               radio.link \in {"stopped", "idle"} \/ Contains(p, "STA_DISCONNECTED")
      PROVE  Noticed
  BY <1>2, DriverPosts DEF Noticed
<1>3. ASSUME NEW e \in DriverEvent, posted' = Append(posted, e), radio'.link = radio.link
      PROVE  Noticed
  <2>1. e # "GOT_IP" /\ <<e>> \in Seq(Posted) /\ posted' = posted \o <<e>>
    BY <1>0, <1>3 DEF Posted, DriverEvent
  <2>2. ~Contains(<<e>>, "GOT_IP")
    BY <2>1, ContainsFew
  <2> QED
    BY <1>2, <1>3, <2>1, <2>2
<1>4. ASSUME NEW to, posted' = posted \o Lost(radio, to),
             \/ radio'.link = to.link
             \/ radio.link = "stopped"
             \/ radio'.link = radio.link,
             to.link = radio.link \/ radio.link = "idle" \/ to.link \in {"stopped", "idle"}
      PROVE  Noticed
  <2>1. radio.link \in {"stopped", "idle", "connecting", "up"}
    BY <1>0 DEF Radio, Link
  <2>2. radio'.link # radio.link =>
          radio.link \in {"stopped", "idle"} \/ Contains(Lost(radio, to), "STA_DISCONNECTED")
    BY <1>4, <2>1, LostOps
  <2> QED
    BY <1>2, <1>4, <2>2, LostOps
<1>5. /\ Left(radio) \in Radio
      /\ Left(radio).link = radio.link \/ radio.link = "idle" \/ Left(radio).link = "idle"
      /\ Left(radio).link = "stopped" => radio.link = "stopped"
  BY <1>0, LeftOps
<1>6. CASE Task
  <2>1. CASE EnterDisconnect
    BY <1>4, <1>5, <2>1 DEF EnterDisconnect
  <2>2. CASE EnterConnect
    <3>1. PICK stop \in StopRequired :
            /\ radio' = IF conf = "AP" THEN Prepared(stop) ELSE Connecting(Prepared(stop))
            /\ posted' = posted \o Lost(radio, Left(radio)) \o Lost(Left(radio), Prepared(stop))
      BY <2>2 DEF EnterConnect
    <3>2. stop \in BOOLEAN
      BY <1>0, Zenon DEF StopRequired, Radio
    <3>3. Prepared(stop).link \in {"stopped", "idle"} \/ Prepared(stop).link = Left(radio).link
      BY <3>2, PreparedOps
    <3>4. \/ radio'.link = Prepared(stop).link
          \/ Prepared(stop).link = "idle" /\ radio'.link = "connecting"
      BY <3>1, <3>2, PreparedOps, RadioOps
    <3> DEFINE p == Lost(radio, Left(radio)) \o Lost(Left(radio), Prepared(stop))
    <3>5. /\ p \in Seq(Posted)
          /\ \A x : Contains(p, x) <=> \/ Contains(Lost(radio, Left(radio)), x)
                                      \/ Contains(Lost(Left(radio), Prepared(stop)), x)
      BY LostOps, ContainsConcat
    <3>6. posted' = posted \o p
      BY <1>0, <3>1, LostOps
    <3>7. ASSUME radio'.link # radio.link, radio.link \notin {"stopped", "idle"}
          PROVE  Contains(p, "STA_DISCONNECTED")
      <4>1. radio.link \in {"connecting", "up"}
        BY <1>0, <3>7 DEF Radio, Link
      <4>2. CASE Left(radio).link = "idle"
        BY <3>5, <4>1, <4>2, LostOps
      <4>3. CASE Left(radio).link = radio.link
        <5>1. Prepared(stop).link \in {"stopped", "idle"}
          BY <3>3, <3>4, <3>7, <4>3
        <5> QED
          BY <3>5, <4>1, <4>3, <5>1, LostOps
      <4> QED
        BY <1>5, <4>1, <4>2, <4>3
    <3>8. ~Contains(p, "GOT_IP")
      BY <3>5, LostOps
    <3> HIDE DEF p
    <3> QED
      BY <1>2, <3>5, <3>6, <3>7, <3>8
  <2>3. CASE EnterScan
    <3>1. Started(Left(radio)) \in Radio
      BY <1>5, RadioOps
    <3>2. /\ InMode(Started(Left(radio)), "STA") \in Radio
          /\ InMode(Started(Left(radio)), "STA").link = Started(Left(radio)).link
      BY <3>1, RadioOps DEF OpMode
    <3>3. radio'.link = Started(Left(radio)).link
      BY <2>3, <3>2 DEF EnterScan, Radio
    <3>4. radio'.link = Left(radio).link \/ radio.link = "stopped"
      BY <1>5, <3>3, RadioOps
    <3> QED
      BY <1>4, <1>5, <2>3, <3>4 DEF EnterScan
  <2>4. CASE EnterWps
    <3>1. radio'.link = Left(radio).link
      BY <1>5, <2>4 DEF EnterWps, Radio
    <3> QED
      BY <1>4, <1>5, <2>4, <3>1 DEF EnterWps
  <2>5. CASE ModeChanged
    BY <1>0, <1>4, <2>5, RadioOps DEF ModeChanged
  <2>6. CASE Watch
    <3>1. CASE radio.act = conf
      BY <1>1, <2>6, <3>1 DEF Watch
    <3>2. CASE radio.act # conf
      <4>1. InMode(radio, conf).link \in {"idle", radio.link}
        BY <1>0, RadioOps
      <4>2. radio' = InMode(radio, conf) /\ posted' = posted \o Lost(radio, InMode(radio, conf))
        BY <2>6, <3>2 DEF Watch
      <4> QED
        BY <1>4, <4>1, <4>2
    <3> QED
      BY <3>1, <3>2
  <2>7. CASE WpsFailed
    <3>1. radio'.link = radio.link /\ UNCHANGED posted
      BY <1>0, <2>7 DEF WpsFailed, Radio
    <3> QED
      BY <3>1 DEF Noticed
  <2>8. ASSUME \/ CheckTimeout \/ Expired \/ NothingToHandle \/ LinkLost \/ SetDisconnected
               \/ RetryLater \/ Scanned \/ WpsSuccess \/ Ignored
        PROVE  Noticed
    BY <1>1, <2>8 DEF CheckTimeout, Expired, NothingToHandle, LinkLost, SetDisconnected,
       RetryLater, Scanned, WpsSuccess, Ignored
  <2> QED
    BY <1>6, <2>1, <2>2, <2>3, <2>4, <2>5, <2>6, <2>7, <2>8 DEF Task
<1>7. CASE EventLoop
  BY <1>1, <1>7 DEF EventLoop, SetConnected, StopTimeout
<1>8. CASE Environment
  <2>1. CASE Fault
    <3>1. radio'.link = "idle"
      BY <1>0, <2>1 DEF Fault, Radio
    <3> QED
      BY <1>4, <2>1, <3>1 DEF Fault
  <2>2. CASE Guest
    <3>1. radio'.link = radio.link /\ UNCHANGED posted
      BY <1>0, <2>2 DEF Guest, Radio
    <3> QED
      BY <3>1 DEF Noticed
  <2>3. CASE ScanDone
    <3>1. radio'.link = radio.link /\ "SCAN_DONE" \in DriverEvent
      BY <1>0, <2>3 DEF ScanDone, Radio, DriverEvent
    <3> QED
      BY <1>3, <2>3, <3>1 DEF ScanDone
  <2>4. CASE WpsAnswer
    <3>1. radio'.link = radio.link /\ {"WPS_ER_SUCCESS", "WPS_ER_FAILED"} \subseteq DriverEvent
      BY <1>0, <2>4 DEF WpsAnswer, Radio, DriverEvent
    <3> QED
      BY <1>3, <2>4, <3>1 DEF WpsAnswer
  <2>5. ASSUME StartScan \/ StartWps \/ ChangeConfig \/ MakeClient \/ Tick
        PROVE  Noticed
    BY <1>1, <2>5 DEF StartScan, StartWps, ChangeConfig, MakeClient, Tick
  <2> QED
    BY <1>8, <2>1, <2>2, <2>3, <2>4, <2>5 DEF Environment
<1>9. CASE UNCHANGED vars
  BY <1>1, <1>9 DEF vars
<1> QED
  BY <1>6, <1>7, <1>8, <1>9 DEF Next

\* Only the event loop's thread takes up an address and is done with it.
LEMMA HandlerMoves ==
  ASSUME TypeOK, [Next]_vars
  PROVE  \/ UNCHANGED handler
         \/ NotifyConnect \/ SetConnected \/ StopTimeout \/ Abort
  BY DEF vars, manager, observed, world, Next, Task, CheckTimeout, Expired, NothingToHandle,
     EnterDisconnect, EnterConnect, EnterScan, EnterWps, LinkLost, SetDisconnected,
     RetryLater, ModeChanged, Scanned, WpsSuccess, WpsFailed, Ignored, Watch, EventLoop,
     Forward, Environment, GotIp, Fault, Guest, ScanDone, WpsAnswer, StartScan, StartWps,
     ChangeConfig, MakeClient, Tick

\* An address is never left behind by its loss.
LEMMA AddressStep == TypeOK /\ AddressInv /\ [Next]_vars => AddressInv'
<1> SUFFICES ASSUME TypeOK, AddressInv, [Next]_vars, radio'.link # "up"
             PROVE  AddressInv'
  BY DEF AddressInv
<1> USE DEF manager, observed, world
<1>0. posted \in Seq(Posted) /\ radio \in Radio
  BY DEF TypeOK
<1>1. CASE GotIp
  BY <1>0, <1>1 DEF GotIp, Radio
<1>2. CASE Forward
  <2>1. /\ posted # <<>> /\ posted' = Tail(posted) /\ handler' = "idle" /\ UNCHANGED radio
        /\ Answered(posted)
    BY <1>2 DEF Forward, AddressInv
  <2> QED
    BY <1>0, <2>1, AnsweredKept DEF AddressInv
<1>3. CASE NotifyConnect
  <2>1. /\ posted # <<>> /\ Head(posted) = "GOT_IP" /\ posted' = Tail(posted)
        /\ UNCHANGED radio /\ Answered(posted)
    BY <1>3 DEF NotifyConnect, AddressInv
  <2> QED
    BY <1>0, <2>1, AnsweredKept DEF AddressInv
<1>4. CASE Abort
  <2>1. posted' = <<>> /\ handler' = "idle"
    BY <1>4 DEF Abort
  <2> QED
    BY <2>1 DEF AddressInv, Answered
<1>5. CASE ~GotIp /\ ~Forward /\ ~NotifyConnect /\ ~Abort
  <2>1. Noticed
    BY <1>5, StepNoticed
  <2>2. handler' # "idle" => handler # "idle"
    BY <1>5, HandlerMoves DEF SetConnected, StopTimeout
  <2> QED
    BY <2>1, <2>2 DEF AddressInv, Noticed
<1> QED
  BY <1>1, <1>2, <1>3, <1>4, <1>5

-----------------------------------------------------------------------------
(* The client and the connection.                                          *)

\* The client and what the manager believes change together.
LEMMA ClientStep == TypeOK /\ ClientInv /\ [Next]_vars => ClientInv'
<1> SUFFICES ASSUME TypeOK, ClientInv, [Next]_vars
             PROVE  ClientInv'
  OBVIOUS
<1> USE DEF manager, observed, world
<1>0. client \in BOOLEAN /\ isConnected \in BOOLEAN /\ made \in BOOLEAN /\ mistold \in BOOLEAN
  BY DEF TypeOK
<1>1. CASE NotifyConnect
  <2>1. ASSUME ~mistold'
        PROVE  made /\ task # "lost"
    BY <1>1, <2>1 DEF NotifyConnect
  <2>2. client' = made /\ handler' = "notified" /\ UNCHANGED task
    BY <1>1 DEF NotifyConnect
  <2> QED
    BY <2>1, <2>2 DEF ClientInv, ClientMatches
<1>2. CASE SetConnected
  BY <1>0, <1>2 DEF SetConnected, ClientInv, ClientMatches
<1>3. CASE StopTimeout
  BY <1>3 DEF StopTimeout, ClientInv, ClientMatches
<1>4. CASE LinkLost
  <2>1. /\ client' = (client /\ ~isConnected) /\ UNCHANGED <<isConnected, handler>>
        /\ task = "handle" /\ task' = IF isConnected THEN "lost" ELSE "retry"
        /\ mistold' = IF isConnected THEN handler = "notified" ELSE mistold
    BY <1>4 DEF LinkLost, Takes
  <2>2. CASE isConnected
    <3>1. client' = FALSE /\ task' = "lost" /\ (~mistold' => handler' # "notified")
      BY <2>1, <2>2
    <3> QED
      BY <3>1 DEF ClientInv, ClientMatches
  <2>3. CASE ~isConnected
    <3>1. client' = client
      BY <1>0, <2>1, <2>3, Zenon
    <3>2. task' = "retry" /\ mistold' = mistold
      BY <2>1, <2>3
    <3> QED
      BY <2>1, <3>1, <3>2 DEF ClientInv, ClientMatches
  <2> QED
    BY <2>2, <2>3
<1>5. CASE SetDisconnected
  BY <1>0, <1>5 DEF SetDisconnected, ClientInv, ClientMatches
<1>6. CASE Abort
  BY <1>6 DEF Abort, ClientInv, ClientMatches
<1>7. CASE UNCHANGED <<isConnected, client, mistold, handler>> /\ (task' = "lost" <=> task = "lost")
  BY <1>7 DEF ClientInv, ClientMatches
<1>8. ASSUME ~NotifyConnect, ~SetConnected, ~StopTimeout, ~LinkLost, ~SetDisconnected, ~Abort
      PROVE  UNCHANGED <<isConnected, client, mistold, handler>> /\ (task' = "lost" <=> task = "lost")
  <2>1. CASE Task
    BY <1>8, <2>1 DEF Task, CheckTimeout, Expired, NothingToHandle, EnterDisconnect,
       EnterConnect, EnterScan, EnterWps, Enter, Takes, RetryLater, ModeChanged, Scanned,
       WpsSuccess, WpsFailed, Ignored, Watch
  <2>2. CASE EventLoop
    BY <1>8, <2>2 DEF EventLoop, Forward
  <2>3. CASE Environment
    BY <2>3 DEF Environment, GotIp, Fault, Guest, ScanDone, WpsAnswer, StartScan, StartWps,
       ChangeConfig, MakeClient, Tick
  <2>4. CASE UNCHANGED vars
    BY <2>4 DEF vars
  <2> QED
    BY <2>1, <2>2, <2>3, <2>4 DEF Next
<1> QED
  BY <1>1, <1>2, <1>3, <1>4, <1>5, <1>6, <1>7, <1>8

\* What is told of addresses and losses, at first and in every state.
LEMMA AddressInvariant == Spec => [](TypeOK /\ AddressInv /\ ClientInv)
<1>1. ASSUME Init
      PROVE  TypeOK /\ AddressInv /\ ClientInv
  <2>1. Answered(<<>>)
    BY DEF Answered
  <2> QED
    BY <1>1, <2>1, InitTyped DEF Init, AddressInv, ClientInv, ClientMatches
<1> QED
  BY <1>1, TypeStep, AddressStep, ClientStep, PTL DEF Spec

\* While no thread is between the two, the MQTT client runs exactly when the manager
\* believes that there is a connection: unless the last that the client was told was
\* before it was made, or by both threads at once.
THEOREM ClientIsMatched == Spec => []ClientMatches
<1>1. ClientInv => ClientMatches
  BY DEF ClientInv
<1> QED
  BY <1>1, AddressInvariant, PTL

-----------------------------------------------------------------------------
(* No station is left alone.                                               *)

\* What rescues the station is only given up for something else that does.
LEMMA StrandedStep == TypeOK /\ AddressInv /\ StrandedInv /\ [Next]_vars => StrandedInv'
<1> SUFFICES ASSUME TypeOK, AddressInv, StrandedInv, [Next]_vars,
                    mode' = "Connect", radio'.act # "AP", radio'.link \in {"stopped", "idle"},
                    task' \notin {"retry", "lost", "expired"}, ~timer'.active,
                    ~Contains(queue', "STA_DISCONNECTED"), ~Contains(posted', "STA_DISCONNECTED"),
                    ~\E m \in Mode \cup {"ModeChange"} : Contains(queue', m)
             PROVE  FALSE
  BY DEF StrandedInv
<1> USE DEF manager, observed, world
<1>0. /\ queue \in Seq(Events) /\ posted \in Seq(Posted) /\ radio \in Radio /\ conf \in OpMode
      /\ timer \in [active : BOOLEAN, due : BOOLEAN, to : Mode]
  BY DEF TypeOK
<1>1. {"Connect", "Disconnect", "Scan", "Wps"} \subseteq Mode /\ Mode \subseteq Events /\ "ModeChange" \in Events
  BY DEF Mode, Events
\* The station was in danger before, unless its link or its mode was changed.
<1>2. ASSUME UNCHANGED mode, radio'.act = radio.act, Noticed
      PROVE  /\ mode = "Connect"
             /\ \/ task \in {"retry", "lost", "expired"} \/ timer.active
                \/ Contains(queue, "STA_DISCONNECTED") \/ Contains(posted, "STA_DISCONNECTED")
                \/ \E m \in Mode \cup {"ModeChange"} : Contains(queue, m)
  <2>1. radio.link \in {"stopped", "idle"}
    BY <1>2 DEF Noticed
  <2> QED
    BY <1>2, <2>1 DEF StrandedInv
<1>3. ASSUME UNCHANGED <<mode, queue, timer, task>>, radio'.act = radio.act, Noticed
      PROVE  FALSE
  BY <1>2, <1>3, Zenon DEF Noticed
\* A queue that holds a transition rescues the station.
<1>4. ASSUME NEW q \in Seq(Events), NEW m \in Mode \cup {"ModeChange"}, queue' = Append(q, m)
      PROVE  FALSE
  <2>1. Contains(queue', m)
    BY <1>1, <1>4, ContainsAppend
  <2> QED
    BY <2>1
<1>5. queue # <<>> => Tail(queue) \in Seq(Events)
  BY <1>0
\* An event that the manager ignores, or that a mode other than this one takes.
<1>6. ASSUME queue # <<>>, queue' = Tail(queue), Head(queue) # "STA_DISCONNECTED",
             Head(queue) \notin Mode \cup {"ModeChange"}
      PROVE  \A x \in Mode \cup {"ModeChange", "STA_DISCONNECTED"} :
               Contains(queue, x) => Contains(queue', x)
  BY <1>0, <1>6, ContainsTail
<1>7. CASE GotIp
  BY <1>0, <1>7 DEF GotIp, Radio
<1>8. CASE Forward
  <2>1. /\ posted # <<>> /\ posted' = Tail(posted) /\ queue' = Append(queue, Head(posted))
        /\ Head(posted) \in Events /\ UNCHANGED <<mode, timer, task, radio>>
    BY <1>8 DEF Forward, Events
  <2>2. \A x : Contains(queue, x) \/ x = Head(posted) => Contains(queue', x)
    BY <1>0, <2>1, ContainsAppend
  <2>3. \A x : Contains(posted, x) => x = Head(posted) \/ Contains(posted', x)
    BY <1>0, <2>1, ContainsTail
  <2> QED
    BY <2>1, <2>2, <2>3, Zenon DEF StrandedInv
<1>9. CASE NotifyConnect
  <2>1. /\ posted # <<>> /\ posted' = Tail(posted) /\ Head(posted) = "GOT_IP"
        /\ UNCHANGED <<mode, queue, timer, task, radio>>
    BY <1>9 DEF NotifyConnect
  <2>2. Contains(posted, "STA_DISCONNECTED") => Contains(posted', "STA_DISCONNECTED")
    BY <1>0, <2>1, ContainsTail
  <2> QED
    BY <2>1, <2>2, Zenon DEF StrandedInv
<1>10. CASE Abort
  BY <1>10 DEF Abort
<1>11. ASSUME ~GotIp, ~Forward, ~NotifyConnect, ~Abort
       PROVE  Noticed
  BY <1>11, StepNoticed
<1>12. ASSUME Noticed, Task, ~Abort
       PROVE  FALSE
  <2>1. CASE CheckTimeout
    <3>1. /\ UNCHANGED <<mode, queue, timer, radio>> /\ ~timer.active
          /\ task \notin {"retry", "lost", "expired"}
      BY <2>1 DEF CheckTimeout
    <3> QED
      BY <1>2, <1>12, <3>1, Zenon DEF Noticed
  <2>2. CASE Expired
    <3>1. timer.due
      BY <1>0, <2>2 DEF Expired
    <3> QED
      BY <1>0, <1>4, <2>2, <3>1 DEF Expired
  <2>3. CASE NothingToHandle
    <3>1. UNCHANGED <<mode, queue, timer, radio>> /\ task \notin {"retry", "lost", "expired"}
      BY <2>3 DEF NothingToHandle
    <3> QED
      BY <1>2, <1>12, <3>1, Zenon DEF Noticed
  <2>4. CASE EnterConnect
    <3>1. conf = "AP"
      BY <2>4 DEF EnterConnect, Timer
    <3>2. \E stop \in StopRequired : radio' = Prepared(stop)
      BY <2>4, <3>1 DEF EnterConnect
    <3>3. \A stop \in StopRequired : stop \in BOOLEAN
      BY <1>0, Zenon DEF StopRequired, Radio
    <3> QED
      BY <3>1, <3>2, <3>3, PreparedOps
  <2>5. CASE EnterDisconnect \/ EnterScan \/ EnterWps
    BY <2>5 DEF EnterDisconnect, EnterScan, EnterWps, Enter
  <2>6. CASE LinkLost \/ SetDisconnected
    BY <2>6 DEF LinkLost, SetDisconnected
  <2>7. CASE RetryLater
    BY <2>7 DEF RetryLater, Timer
  <2>8. CASE ModeChanged
    BY <1>1, <1>4, <1>5, <2>8 DEF ModeChanged, Takes
  <2>9. CASE Scanned \/ WpsSuccess \/ WpsFailed
    BY <2>9 DEF Scanned, WpsSuccess, WpsFailed
  <2>10. CASE Ignored
    <3>1. /\ queue # <<>> /\ queue' = Tail(queue) /\ UNCHANGED <<mode, timer, radio>>
          /\ task \notin {"retry", "lost", "expired"}
          /\ Head(queue) \in {"SCAN_DONE", "WPS_ER_SUCCESS", "WPS_ER_FAILED"}
      BY <2>10 DEF Ignored
    <3>2. Head(queue) # "STA_DISCONNECTED" /\ Head(queue) \notin Mode \cup {"ModeChange"}
      BY <3>1 DEF Mode
    <3>3. \A x \in Mode \cup {"ModeChange", "STA_DISCONNECTED"} :
            Contains(queue, x) => Contains(queue', x)
      BY <1>6, <3>1, <3>2
    <3> QED
      BY <1>2, <1>12, <3>1, <3>3, Zenon DEF Noticed
  <2>11. CASE Watch
    <3>1. CASE radio.act = conf
      <4>1. UNCHANGED <<mode, queue, timer, radio>> /\ task \notin {"retry", "lost", "expired"}
        BY <2>11, <3>1 DEF Watch
      <4> QED
        BY <1>2, <1>12, <4>1, Zenon DEF Noticed
    <3>2. CASE radio.act # conf
      BY <1>0, <1>4, <2>11, <3>2 DEF Watch
    <3> QED
      BY <3>1, <3>2
  <2> QED
    BY <1>12, <2>1, <2>2, <2>3, <2>4, <2>5, <2>6, <2>7, <2>8, <2>9, <2>10, <2>11 DEF Task
<1>13. ASSUME Noticed, EventLoop, ~Forward, ~NotifyConnect
       PROVE  FALSE
  <2>1. CASE SetConnected
    BY <1>3, <1>13, <2>1 DEF SetConnected
  <2>2. CASE StopTimeout
    <3>1. handler # "idle" /\ UNCHANGED radio
      BY <2>2 DEF StopTimeout
    <3>2. Contains(posted, "STA_DISCONNECTED")
      BY <3>1 DEF AddressInv
    <3> QED
      BY <1>13, <3>2 DEF Noticed
  <2> QED
    BY <1>13, <2>1, <2>2 DEF EventLoop
<1>14. ASSUME Noticed, Environment, ~GotIp
       PROVE  FALSE
  <2>1. CASE Fault \/ Guest \/ ScanDone \/ WpsAnswer
    <3>1. radio'.act = radio.act /\ UNCHANGED <<mode, queue, timer, task>>
      BY <1>0, <2>1 DEF Fault, Guest, ScanDone, WpsAnswer, Radio
    <3> QED
      BY <1>3, <1>14, <3>1
  <2>2. CASE StartScan \/ StartWps
    BY <1>0, <1>1, <1>4, <2>2 DEF StartScan, StartWps
  <2>3. CASE ChangeConfig \/ MakeClient
    BY <1>3, <1>14, <2>3 DEF ChangeConfig, MakeClient
  <2>4. CASE Tick
    <3>1. timer'.active = timer.active /\ UNCHANGED <<mode, queue, task, radio>>
      BY <1>0, <2>4 DEF Tick
    <3> QED
      BY <1>2, <1>14, <3>1, Zenon DEF Noticed
  <2> QED
    BY <1>14, <2>1, <2>2, <2>3, <2>4 DEF Environment
<1>15. ASSUME Noticed, UNCHANGED vars
       PROVE  FALSE
  BY <1>3, <1>15 DEF vars
<1> QED
  BY <1>7, <1>8, <1>9, <1>10, <1>11, <1>12, <1>13, <1>14, <1>15 DEF Next

\* A station that waits in ConnectState without a link is never left alone.
THEOREM NobodyStranded == Spec => []NotStranded
<1>1. Init => StrandedInv
  BY DEF Init, StrandedInv
<1>2. TypeOK /\ StrandedInv => NotStranded
  BY DEF StrandedInv, NotStranded
<1> QED
  BY <1>1, <1>2, AddressInvariant, StrandedStep, PTL DEF Spec
==============================================================================
