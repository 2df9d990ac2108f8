----------------------------- MODULE WifiManager -----------------------------
(***************************************************************************)
(* The WiFi manager (main/WifiManager.cpp) and the MQTT client it starts   *)
(* and stops (main/mqttWorker.cpp).  The manager's thread takes one event  *)
(* every 100 ms from its own queue and is a state machine whose only way   *)
(* back to a network is a timeout; the thread of ESP-IDF's event loop      *)
(* feeds that queue, but reports an address itself and stops the timeout   *)
(* without its lock.                                                       *)
(*                                                                         *)
(* Time is not counted: a started timeout is due some time later.          *)
(* CountsNoRetry, LosesTimer, KeepsClient and StopsOnly are no part of the *)
(* specification: each is a slip in the definition that follows it, and    *)
(* breaks a property below.                                                *)
(***************************************************************************)
EXTENDS Integers, Sequences, SequencesExt

CONSTANTS
  Retries,     \* m_config.wpsRetryCnt
  MaxDisturb   \* bound: scans and WPS sessions asked for, changes of the
               \* configuration, failures of the access point and late events

ASSUME WifiAssumption ==
  /\ Retries \in Nat \ {0}
  /\ MaxDisturb \in Nat

\* The alternatives of WifiMode that the manager is ever in, each also naming
\* the TransitionEvent that leads there.
Mode == {"Disconnect", "Connect", "Scan", "Wps"}

\* wifi_mode_t, as far as it can be configured
OpMode == {"STA", "AP", "APSTA"}

DriverEvent == {"STA_DISCONNECTED", "SCAN_DONE", "WPS_ER_SUCCESS", "WPS_ER_FAILED"}

Events == Mode \cup DriverEvent \cup {"ModeChange"}

\* What the driver and the network interface post to the event loop.
Posted == DriverEvent \cup {"GOT_IP"}

VARIABLES
  mode,         \* m_mode
  queue,        \* m_events
  timer,        \* m_timeout: active, the event, and whether now() is past _end
  retries,      \* m_wpsRetryCnt
  isConnected,  \* m_isConnected
  made,         \* the MQTT client was made, and its observer added (by setup())
  client,       \* the MQTT client was started (by onConnect) and not stopped
  mistold,      \* the client was last told before it was made, or by two threads at
                \* once: a history variable
  task,         \* where the manager's thread is
  handler,      \* where the event loop's thread is
  radio,        \* the driver: link, operating mode, a scan, a WPS session, and
                \* whether a guest is at the own access point (max_connection is 1)
  posted,       \* the event loop's queue
  conf,         \* netConf.getMode()
  creds,        \* netConf.getStaSSID(), getStaPass(): those of a network, or not
  disturbed     \* how many disturbances there were (a bound)

manager == <<mode, queue, timer, retries>>
observed == <<isConnected, made, client, mistold>>
world == <<conf, creds, disturbed>>
vars == <<manager, observed, task, handler, radio, posted, world>>

Timer(to) == [active |-> TRUE, due |-> FALSE, to |-> to]

-----------------------------------------------------------------------------
(* The driver (ESP-IDF).                                                   *)

\* The station's link: "stopped" after esp_wifi_stop(), "idle", an attempt to
\* connect, or "up" with an address.
Link == {"stopped", "idle", "connecting", "up"}

Radio == [link : Link, act : OpMode, scanning : BOOLEAN,
          wps : {"off", "on", "answered"}, guest : BOOLEAN]

\* Losing the link, or the attempt, is an event.
Lost(r, to) ==
  IF r.link \in {"connecting", "up"} /\ to.link \in {"stopped", "idle"}
  THEN <<"STA_DISCONNECTED">> ELSE <<>>

\* esp_wifi_stop(), esp_wifi_start() and esp_wifi_set_mode().
Stopped(r) == [r EXCEPT !.link = "stopped", !.scanning = FALSE, !.guest = FALSE]
Started(r) == [r EXCEPT !.link = IF @ = "stopped" THEN "idle" ELSE @]
InMode(r, m) ==
  [r EXCEPT !.act = m,
            !.link = IF m = "AP" /\ @ # "stopped" THEN "idle" ELSE @,
            !.guest = @ /\ m # "STA"]

\* esp_wifi_connect(), an error in AP mode and while WiFi is stopped.
MayConnect(r) == r.act # "AP" /\ r.link # "stopped"
Connecting(r) == [r EXCEPT !.link = IF @ = "idle" THEN "connecting" ELSE @]

Silent == [link |-> "stopped", act |-> "STA", scanning |-> FALSE, wps |-> "off", guest |-> FALSE]

Init ==
  /\ mode = "Disconnect"        \* init() went there, and that asked for a scan
  /\ queue = <<"Scan">>
  /\ timer = [active |-> FALSE, due |-> TRUE, to |-> "Disconnect"]
  /\ retries = 0
  /\ isConnected = FALSE /\ made = FALSE /\ client = FALSE /\ mistold = FALSE
  /\ task = "check" /\ handler = "idle"
  /\ radio = Silent
  /\ posted = <<>>
  /\ conf \in OpMode
  /\ creds = "good"
  /\ disturbed = 0

Disturb ==
  /\ disturbed < MaxDisturb
  /\ disturbed' = disturbed + 1

\* The manager's thread takes an event each 100 ms; an address, a timeout and a WPS
\* session take seconds: by then both queues have been emptied.  What comes next can
\* still meet them.
Drained == posted = <<>> /\ queue = <<>> /\ task \notin {"lost", "retry"}

\* That the manager's thread is late, with an address before a loss it has yet to
\* take, is a disturbance.
GotIp ==
  /\ radio.link = "connecting" /\ creds = "good"
  /\ IF Drained THEN UNCHANGED disturbed ELSE Disturb
  /\ radio' = [radio EXCEPT !.link = "up"]
  /\ posted' = Append(posted, "GOT_IP")
  /\ UNCHANGED <<manager, observed, task, handler, conf, creds>>

\* The access point goes away or refuses the station.
Fault ==
  /\ Disturb
  /\ radio.link \in {"connecting", "up"}
  /\ radio' = [radio EXCEPT !.link = "idle"]
  /\ posted' = posted \o Lost(radio, radio')
  /\ UNCHANGED <<manager, observed, task, handler, conf, creds>>

\* A station joins the own access point, or goes.
Guest ==
  /\ radio.act # "STA" /\ radio.link # "stopped"
  /\ radio' = [radio EXCEPT !.guest = ~@]
  /\ UNCHANGED <<manager, observed, task, handler, posted, world>>

ScanDone ==
  /\ radio.scanning
  /\ radio' = [radio EXCEPT !.scanning = FALSE]
  /\ posted' = Append(posted, "SCAN_DONE")
  /\ UNCHANGED <<manager, observed, task, handler, world>>

WpsAnswer ==
  /\ radio.wps = "on"
  /\ Drained
  /\ radio' = [radio EXCEPT !.wps = "answered"]
  /\ \E answer \in {"WPS_ER_SUCCESS", "WPS_ER_FAILED"} : posted' = Append(posted, answer)
  /\ UNCHANGED <<manager, observed, task, handler, world>>

-----------------------------------------------------------------------------
(* The thread of the event loop.                                           *)

\* event_handler()
Forward ==
  /\ handler = "idle"
  /\ posted # <<>> /\ Head(posted) \in DriverEvent
  /\ queue' = Append(queue, Head(posted))
  /\ posted' = Tail(posted)
  /\ UNCHANGED <<mode, timer, retries, observed, task, handler, radio, world>>

\* got_ip_event_handler(): the observer starts the MQTT client, if there is one, ...
NotifyConnect ==
  /\ handler = "idle"
  /\ posted # <<>> /\ Head(posted) = "GOT_IP"
  /\ posted' = Tail(posted)
  /\ client' = made
  /\ mistold' = (~made \/ task = "lost")
  /\ handler' = "notified"
  /\ UNCHANGED <<manager, isConnected, made, task, radio, world>>

SetConnected ==
  /\ handler = "notified"
  /\ isConnected' = TRUE
  /\ handler' = "connected"
  /\ UNCHANGED <<manager, made, client, mistold, task, radio, posted, world>>

\* ... and last the timeout is stopped.
StopTimeout ==
  /\ handler = "connected"
  /\ timer' = [timer EXCEPT !.active = FALSE]
  /\ handler' = "idle"
  /\ UNCHANGED <<mode, queue, retries, observed, task, radio, posted, world>>

-----------------------------------------------------------------------------
(* What another thread asks for: the web, MQTT, a button.                  *)

StartScan ==
  /\ Disturb
  /\ queue' = Append(queue, "Scan")
  /\ UNCHANGED <<mode, timer, retries, observed, task, handler, radio, posted, conf, creds>>

StartWps ==
  /\ Disturb
  /\ retries' = Retries
  /\ queue' = Append(queue, "Wps")
  /\ UNCHANGED <<mode, timer, observed, task, handler, radio, posted, conf, creds>>

\* The settings of the network are properties: another mode, or credentials.
ChangeConfig ==
  /\ Disturb
  /\ \/ conf' \in OpMode \ {conf} /\ UNCHANGED creds
     \/ creds' = "good" /\ creds # "good" /\ UNCHANGED conf
  /\ UNCHANGED <<manager, observed, task, handler, radio, posted>>

\* setup() adds the observer and makes the client, long after the manager started.
MakeClient ==
  /\ ~made
  /\ made' = TRUE
  /\ UNCHANGED <<manager, isConnected, client, mistold, task, handler, radio, posted, world>>

Tick ==
  /\ ~timer.due
  /\ Drained /\ handler = "idle"
  /\ timer' = [timer EXCEPT !.due = TRUE]
  /\ UNCHANGED <<mode, queue, retries, observed, task, handler, radio, posted, world>>

-----------------------------------------------------------------------------
(* The manager's thread: task().                                           *)

\* After a sleep of 100 ms, in which the event loop took what was posted.
CheckTimeout ==
  /\ task = "check"
  /\ posted = <<>>
  /\ task' = IF timer.active THEN "expired" ELSE "handle"
  /\ UNCHANGED <<manager, observed, handler, radio, posted, world>>

\* expired() assigns active whatever became of it since it was looked at.
Expired ==
  /\ task = "expired"
  /\ timer' = [timer EXCEPT !.active = ~timer.due]
  /\ queue' = IF timer.due THEN Append(queue, timer.to) ELSE queue
  /\ task' = "handle"
  /\ UNCHANGED <<mode, retries, observed, handler, radio, posted, world>>

NothingToHandle ==
  /\ task = "handle" /\ queue = <<>>
  /\ task' = "watch"
  /\ UNCHANGED <<manager, observed, handler, radio, posted, world>>

Takes(event) == task = "handle" /\ queue # <<>> /\ Head(queue) = event

\* onLeave() of the mode that is left: after WPS the station connects, and one
\* that is an access point without guests as well disconnects.
Left(r) ==
  IF mode = "Wps" THEN [Connecting(r) EXCEPT !.wps = "off"]
  ELSE IF mode = "Connect" /\ r.act = "APSTA" /\ ~r.guest /\ r.link # "stopped"
  THEN [r EXCEPT !.link = "idle"]
  ELSE r

MayLeave == mode = "Wps" => MayConnect(radio)

Enter(to) == Takes(to) /\ MayLeave /\ mode' = to /\ task' = "watch"

EnterDisconnect ==
  /\ Enter("Disconnect")
  /\ queue' = Append(Tail(queue), "Connect")
  /\ radio' = Left(radio)
  /\ posted' = posted \o Lost(radio, Left(radio))
  /\ UNCHANGED <<timer, retries, observed, handler, world>>

\* stopRequired: WiFi is not stopped under a guest.  In the mode STA the driver
\* does not say how many there are, and the number that is read is any.
StopRequired ==
  IF conf = "STA" THEN {TRUE}
  ELSE IF radio.act = "STA" THEN BOOLEAN
  ELSE {~radio.guest}

Prepared(stop) ==
  InMode(IF stop THEN Started(Stopped(Left(radio))) ELSE Left(radio), conf)

\* Only a station connects and starts a timeout.
EnterConnect ==
  /\ Enter("Connect")
  /\ queue' = Tail(queue)
  /\ \E stop \in StopRequired :
       /\ conf # "AP" => MayConnect(Prepared(stop))
       /\ radio' = IF conf = "AP" THEN Prepared(stop) ELSE Connecting(Prepared(stop))
       /\ posted' = posted \o Lost(radio, Left(radio)) \o Lost(Left(radio), Prepared(stop))
  /\ timer' = IF conf = "AP" THEN timer ELSE Timer("Disconnect")
  /\ UNCHANGED <<retries, observed, handler, world>>

EnterScan ==
  /\ Enter("Scan")
  /\ queue' = Tail(queue)
  /\ radio' = [InMode(Started(Left(radio)), "STA") EXCEPT !.scanning = TRUE]
  /\ posted' = posted \o Lost(radio, Left(radio))
  /\ timer' = Timer("Disconnect")
  /\ UNCHANGED <<retries, observed, handler, world>>

CountsNoRetry ==
  /\ Enter("Wps")
  /\ queue' = Tail(queue)
  /\ retries' = retries - 1
  /\ radio' = [Left(radio) EXCEPT !.wps = IF MayConnect(radio) THEN "on" ELSE @]
  /\ timer' = Timer(IF retries >= 0 THEN "Wps" ELSE "Disconnect")
  /\ posted' = posted \o Lost(radio, Left(radio))
  /\ UNCHANGED <<observed, handler, world>>

EnterWps ==
  /\ Enter("Wps")
  /\ queue' = Tail(queue)
  /\ IF retries > 0
     THEN /\ retries' = retries - 1
          /\ radio' = [Left(radio) EXCEPT !.wps = IF MayConnect(radio) THEN "on" ELSE @]
          /\ timer' = Timer("Wps")
     ELSE /\ radio' = Left(radio)
          /\ timer' = Timer("Disconnect")
          /\ UNCHANGED retries
  /\ posted' = posted \o Lost(radio, Left(radio))
  /\ UNCHANGED <<observed, handler, world>>

\* ConnectState::handle(WifiEvent): notifyDisconnect(), and a new attempt in 10 s.
KeepsClient ==
  /\ Takes("STA_DISCONNECTED") /\ mode = "Connect"
  /\ queue' = Tail(queue)
  /\ task' = IF isConnected THEN "lost" ELSE "retry"
  /\ UNCHANGED <<observed, mode, timer, retries, handler, radio, posted, world>>

LinkLost ==
  /\ Takes("STA_DISCONNECTED") /\ mode = "Connect"
  /\ queue' = Tail(queue)
  /\ client' = (client /\ ~isConnected)
  /\ mistold' = IF isConnected THEN handler = "notified" ELSE mistold
  /\ task' = IF isConnected THEN "lost" ELSE "retry"
  /\ UNCHANGED <<mode, timer, retries, isConnected, made, handler, radio, posted, world>>

SetDisconnected ==
  /\ task = "lost"
  /\ isConnected' = FALSE
  /\ task' = "retry"
  /\ UNCHANGED <<manager, made, client, mistold, handler, radio, posted, world>>

LosesTimer ==
  /\ task = "retry"
  /\ task' = "watch"
  /\ UNCHANGED <<manager, observed, handler, radio, posted, world>>

RetryLater ==
  /\ task = "retry"
  /\ timer' = IF radio.act = "AP" THEN timer ELSE Timer("Disconnect")
  /\ task' = "watch"
  /\ UNCHANGED <<mode, queue, retries, observed, handler, radio, posted, world>>

\* ConnectState::handle(ModeChangeEvent)
ModeChanged ==
  /\ Takes("ModeChange") /\ mode = "Connect"
  /\ queue' = Append(Tail(queue), "Disconnect")
  /\ radio' = Stopped(radio)
  /\ posted' = posted \o Lost(radio, Stopped(radio))
  /\ task' = "watch"
  /\ UNCHANGED <<mode, timer, retries, observed, handler, world>>

\* ScanMode::handle(WifiEvent)
StopsOnly ==
  /\ Takes("SCAN_DONE") /\ mode = "Scan"
  /\ timer' = [timer EXCEPT !.active = FALSE]
  /\ queue' = Tail(queue)
  /\ task' = "watch"
  /\ UNCHANGED <<mode, retries, observed, handler, radio, posted, world>>

Scanned ==
  /\ Takes("SCAN_DONE") /\ mode = "Scan"
  /\ timer' = [timer EXCEPT !.active = FALSE]
  /\ queue' = Append(Tail(queue), "Disconnect")
  /\ task' = "watch"
  /\ UNCHANGED <<mode, retries, observed, handler, radio, posted, world>>

\* WPSMode::handle(WifiEvent): without event data the driver has the credentials;
\* otherwise they are read where the event loop had them until it freed them.
WpsSuccess ==
  /\ Takes("WPS_ER_SUCCESS") /\ mode = "Wps"
  /\ creds' \in {"good", "bad"}
  /\ queue' = Append(Tail(queue), "Connect")
  /\ task' = "watch"
  /\ UNCHANGED <<mode, timer, retries, observed, handler, radio, posted, conf, disturbed>>

WpsFailed ==
  /\ Takes("WPS_ER_FAILED") /\ mode = "Wps" /\ MayConnect(radio)
  /\ queue' = Tail(queue)
  /\ radio' = [radio EXCEPT !.wps = "on"]
  /\ task' = "watch"
  /\ UNCHANGED <<mode, timer, retries, observed, handler, posted, world>>

\* What the mode has no handler for.
Ignored ==
  /\ task = "handle" /\ queue # <<>>
  /\ Head(queue) \in CASE mode = "Connect" -> {"SCAN_DONE", "WPS_ER_SUCCESS", "WPS_ER_FAILED"}
                       [] mode = "Scan" -> (Events \ Mode) \ {"SCAN_DONE"}
                       [] mode = "Wps" -> {"ModeChange", "STA_DISCONNECTED", "SCAN_DONE"}
                       [] OTHER -> Events \ Mode
  /\ queue' = Tail(queue)
  /\ task' = "watch"
  /\ UNCHANGED <<mode, timer, retries, observed, handler, radio, posted, world>>

\* Back to the configured operating mode.
Watch ==
  /\ task = "watch"
  /\ task' = "check"
  /\ IF radio.act = conf
     THEN UNCHANGED <<queue, radio, posted>>
     ELSE /\ queue' = Append(queue, "ModeChange")
          /\ radio' = InMode(radio, conf)
          /\ posted' = posted \o Lost(radio, InMode(radio, conf))
  /\ UNCHANGED <<mode, timer, retries, observed, handler, world>>

\* ESP_ERROR_CHECK: the driver refuses, and the firmware starts anew.
Abort ==
  /\ task = "handle" /\ queue # <<>>
  /\ \/ Head(queue) \in Mode /\ ~MayLeave
     \/ Head(queue) = "Scan" /\ (Left(radio).link = "connecting" \/ radio.scanning)
     \/ Head(queue) = "Connect" /\ conf # "AP"
        /\ \E stop \in StopRequired : ~MayConnect(Prepared(stop))
     \/ Head(queue) = "WPS_ER_FAILED" /\ mode = "Wps" /\ ~MayConnect(radio)
  /\ mode' = "Disconnect" /\ queue' = <<"Scan">> /\ retries' = 0
  /\ timer' = [active |-> FALSE, due |-> TRUE, to |-> "Disconnect"]
  /\ isConnected' = FALSE /\ made' = FALSE /\ client' = FALSE /\ mistold' = FALSE
  /\ task' = "check" /\ handler' = "idle" /\ posted' = <<>>
  /\ radio' = Silent
  /\ UNCHANGED world

-----------------------------------------------------------------------------
Task ==
  \/ CheckTimeout \/ Expired \/ NothingToHandle
  \/ EnterDisconnect \/ EnterConnect \/ EnterScan \/ EnterWps
  \/ LinkLost \/ SetDisconnected \/ RetryLater
  \/ ModeChanged \/ Scanned \/ WpsSuccess \/ WpsFailed \/ Ignored
  \/ Watch \/ Abort

EventLoop == Forward \/ NotifyConnect \/ SetConnected \/ StopTimeout

Environment ==
  \/ GotIp \/ Fault \/ Guest \/ ScanDone \/ WpsAnswer
  \/ StartScan \/ StartWps \/ ChangeConfig \/ MakeClient \/ Tick

Next == Task \/ EventLoop \/ Environment

Spec == Init /\ [][Next]_vars

\* Both threads run, time passes and scans end; an access point that is asked
\* again and again answers, and answers in time.
Fairness ==
  /\ WF_vars(Task) /\ WF_vars(EventLoop) /\ WF_vars(ScanDone) /\ WF_vars(MakeClient)
  /\ SF_vars(Tick)
  /\ SF_vars(GotIp /\ mode = "Connect" /\ ~timer.due)

FairSpec == Spec /\ Fairness

-----------------------------------------------------------------------------
(* Properties.                                                             *)

\* Every variable has its type; the WPS attempts that are left are never
\* fewer than none.
TypeOK ==
  /\ mode \in Mode
  /\ queue \in Seq(Events)
  /\ timer \in [active : BOOLEAN, due : BOOLEAN, to : Mode]
  /\ retries \in 0..Retries
  /\ isConnected \in BOOLEAN /\ made \in BOOLEAN
  /\ client \in BOOLEAN /\ mistold \in BOOLEAN
  /\ task \in {"check", "expired", "handle", "lost", "retry", "watch"}
  /\ handler \in {"idle", "notified", "connected"}
  /\ radio \in Radio
  /\ posted \in Seq(Posted)
  /\ conf \in OpMode /\ creds \in {"good", "bad"}
  /\ disturbed \in 0..MaxDisturb

\* A station that waits in ConnectState without a link is never left alone:
\* the loss is still to be handled, a timeout runs, or a transition is queued.
NotStranded ==
  mode = "Connect" /\ conf # "AP" /\ radio.act # "AP" /\ radio.link \in {"stopped", "idle"} =>
    \/ task = "retry" \/ task = "lost"
    \/ timer.active \/ task = "expired"
    \/ \E q \in {queue, posted} : Contains(q, "STA_DISCONNECTED")
    \/ \E m \in Mode \cup {"ModeChange"} : Contains(queue, m)

\* While no thread is between the two, the MQTT client runs exactly when the
\* manager believes that there is a connection.
ClientMatches ==
  handler # "notified" /\ task # "lost" /\ ~mistold => client = isConnected

Serving ==
  /\ mode = "Connect" /\ radio.act = conf
  /\ IF conf = "AP" THEN radio.link = "idle" ELSE radio.link = "up" /\ isConnected /\ client

\* The timeout of a WPS session was stopped, by an address that came meanwhile.
Stuck == mode = "Wps" /\ ~timer.active

\* The access point was not started: the mode was changed twice, and the number
\* of guests that the driver did not give was read as more than none.
Dark == mode = "Connect" /\ conf = "AP" /\ radio.link = "stopped"

\* The link holds, but the MQTT client was told wrong, or the manager was: it took
\* an earlier loss after the address, and a guest or the timeout that was stopped with
\* the address's keeps it from connecting anew.
Untold == radio.link = "up" /\ (mistold \/ ~isConnected)

\* However often scans, WPS sessions, changes of the settings, lost links, guests,
\* late losses, timeouts and restarts are interleaved, the firmware is connected again
\* in the end, the client runs and stays so or comes back.  What keeps it away for good
\* is only a WPS session whose timeout an address stopped, an access point that was not
\* started, credentials that WPS delivered and that nobody corrects, or a link that
\* holds and whose address came before the client was made or crossed a loss.
Serves == []<>Serving \/ <>[]Stuck \/ <>[]Dark \/ <>[]Untold \/ <>[](creds = "bad")
==============================================================================
