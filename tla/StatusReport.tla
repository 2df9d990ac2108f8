----------------------------- MODULE StatusReport -----------------------------
(***************************************************************************)
(* How a change of the device's state reaches the MQTT broker: the         *)
(* notifications of the repository, StatusNotifyer (main/statusnotifyer.h) *)
(* that counts them and once a second sends all of the state, MqttWorker   *)
(* (main/mqttWorker.cpp) that sends and dispatches, and the setup of the   *)
(* three by the main thread (main/MainClass.cpp).                          *)
(*                                                                         *)
(* The state is abstracted to the number of its changes.  TriesLock,       *)
(* NeedsTwo, LocksEarly, Decrements and NoFallback are no part of the      *)
(* specification: each is a slip in the definition that follows it, and    *)
(* breaks a property below.                                                *)
(***************************************************************************)
EXTENDS Integers, Sequences

CONSTANTS
  Setters,      \* the threads that change the state, besides MQTT and timer task
  MaxChanges,   \* bound: changes of the state
  MaxMessages,  \* bound: messages from the broker
  MaxOutages    \* bound: breaks of the connection to the broker, or of WiFi

ASSUME StatusAssumption ==
  /\ {MaxChanges, MaxMessages, MaxOutages} \subseteq Nat
  /\ Setters \cap {"mqtt", "timer", "wifi", "free"} = {}

Thread == Setters \cup {"mqtt", "timer", "wifi"}

\* What the broker sends: a command for the repository, the announcement of an
\* update, a packet of its image, a fragment (whose event has no topic), or a
\* topic below "ota/" that nobody knows.
Topic == {"config", "announce", "image", "fragment", "stray"}

Receiver == {"ota", "config"}

None == "none"

VARIABLES
  value,     \* the properties that match /*/*/state
  count,     \* m_notifyCount
  lock,      \* the thread that holds StatusNotifyer's m_lock, or "free"
  api,       \* whether the MQTT task holds the client's own lock
  pc,        \* where each thread is
  text,      \* the state in the last message that was composed
  boot,      \* how far setup() is
  online,    \* m_isConnected of the WiFi manager: it has an address
  client,    \* client # NULL; its task runs; it is connected; isMqttConnected
  out,       \* messages that the client took, and the broker did not get yet
  reported,  \* the last message that the broker got
  last,      \* m_lastMqttRec
  ota,       \* the OTA worker: no update since the start, one, or one that ended
  messages, outages,  \* counters (bounds)
  raced,     \* a change was notified while the message was on its way
  dropped    \* the last message was given up

notifier == <<count, lock, text>>
mqtt == <<api, client, out, reported>>
routing == <<last, ota, messages>>
ghosts == <<raced, dropped>>
vars == <<value, notifier, pc, boot, online, mqtt, routing, outages, ghosts>>

Init ==
  /\ value = 0 /\ count = 0 /\ lock = "free" /\ text = 0
  /\ api = FALSE /\ pc = [t \in Thread |-> "idle"]
  /\ boot = "observer" /\ online = FALSE
  /\ client = [made |-> FALSE, runs |-> FALSE, up |-> FALSE, flag |-> FALSE]
  /\ out = <<>> /\ reported = 0
  /\ last = None /\ ota = "never" /\ messages = 0 /\ outages = 0
  /\ raced = FALSE /\ dropped = FALSE

Go(t, where) == pc' = [pc EXCEPT ![t] = where]

-----------------------------------------------------------------------------
(* setup(): the observer is added, then the client is made, then the       *)
(* notifier and its timer.                                                 *)

AddObserver ==
  /\ boot = "observer" /\ boot' = "client"
  /\ UNCHANGED <<value, notifier, pc, online, mqtt, routing, outages, ghosts>>

MakeClient ==
  /\ boot = "client" /\ boot' = "run"
  /\ client' = [client EXCEPT !.made = TRUE]
  /\ UNCHANGED <<value, notifier, pc, online, api, out, reported, routing, outages, ghosts>>

Observed == boot # "observer" /\ client.made

-----------------------------------------------------------------------------
(* property::set() and notify(): the property first, then m_notifyCount++. *)

MayChange == boot = "run" /\ value < MaxChanges

Change(t) ==
  /\ pc[t] = "idle" /\ MayChange
  /\ value' = value + 1
  /\ Go(t, "lock")
  /\ UNCHANGED <<notifier, boot, online, mqtt, routing, outages, ghosts>>

TriesLock(t) ==
  /\ pc[t] \in {"lock", "date", "time", "clear"}
  /\ IF lock = "free" THEN lock' = t /\ UNCHANGED <<api, pc>>
     ELSE /\ pc[t] = "lock" /\ lock # t /\ Go(t, "idle")
          /\ api' = (api /\ t # "mqtt") /\ UNCHANGED lock
  /\ UNCHANGED <<value, count, text, boot, online, client, out, reported>>
  /\ UNCHANGED <<routing, outages, ghosts>>

\* A thread takes m_lock: in onSetNotify(), or the timer to reset the counter.
Lock(t) ==
  /\ pc[t] \in {"lock", "date", "time", "clear"}
  /\ lock = "free" /\ lock' = t
  /\ UNCHANGED <<value, count, text, pc, boot, online, mqtt, routing, outages, ghosts>>

\* onSetNotify().  The MQTT task lets go of its client after the handler.
Count(t) ==
  /\ lock = t /\ lock' = "free"
  /\ pc[t] \in {"lock", "date", "time"}
  /\ count' = count + 1
  /\ Go(t, CASE pc[t] = "lock" -> "idle"
             [] pc[t] = "date" -> "time"
             [] pc[t] = "time" -> "compose")
  /\ api' = (api /\ t # "mqtt")
  /\ raced' = (raced \/ pc["timer"] \in {"send", "publish", "clear"})
  /\ UNCHANGED <<value, text, boot, online, client, out, reported, routing, outages, dropped>>

-----------------------------------------------------------------------------
(* onTimeout() in the timer task.                                          *)

NeedsTwo ==
  /\ pc["timer"] = "idle" /\ boot = "run"
  /\ count > 1
  /\ Go("timer", "date")
  /\ UNCHANGED <<value, notifier, boot, online, mqtt, routing, outages, ghosts>>

Tick ==
  /\ pc["timer"] = "idle" /\ boot = "run"
  /\ count # 0
  /\ Go("timer", "date")
  /\ UNCHANGED <<value, notifier, boot, online, mqtt, routing, outages, ghosts>>

LocksEarly ==
  /\ pc["timer"] = "compose" /\ lock = "free" /\ lock' = "timer"
  /\ text' = value
  /\ Go("timer", "send")
  /\ raced' = FALSE /\ dropped' = FALSE
  /\ UNCHANGED <<value, count, boot, online, mqtt, routing, outages>>

\* stringify().
Compose ==
  /\ pc["timer"] = "compose"
  /\ text' = value
  /\ Go("timer", "send")
  /\ raced' = FALSE /\ dropped' = FALSE
  /\ UNCHANGED <<value, count, lock, boot, online, mqtt, routing, outages>>

\* send(): a client that is not connected gets nothing, and nobody is told.
Send ==
  /\ pc["timer"] = "send"
  /\ IF client.made /\ client.flag
     THEN Go("timer", "publish") /\ UNCHANGED dropped
     ELSE Go("timer", "clear") /\ dropped' = TRUE
  /\ UNCHANGED <<value, notifier, boot, online, mqtt, routing, outages, raced>>

\* A client that lost its connection may keep the message or refuse it.
Publish ==
  /\ pc["timer"] = "publish" /\ ~api
  /\ \/ out' = Append(out, text) /\ UNCHANGED dropped
     \/ ~client.up /\ dropped' = TRUE /\ UNCHANGED out
  /\ Go("timer", "clear")
  /\ UNCHANGED <<value, notifier, boot, online, api, client, reported, routing, outages, raced>>

Decrements ==
  /\ pc["timer"] = "clear" /\ lock = "timer"
  /\ count' = count - 1 /\ lock' = "free"
  /\ Go("timer", "idle")
  /\ UNCHANGED <<value, text, boot, online, mqtt, routing, outages, ghosts>>

Clear ==
  /\ pc["timer"] = "clear" /\ lock = "timer"
  /\ count' = 0 /\ lock' = "free"
  /\ Go("timer", "idle")
  /\ UNCHANGED <<value, text, boot, online, mqtt, routing, outages, ghosts>>

-----------------------------------------------------------------------------
(* The MQTT task, which calls the handlers with its client's lock held.    *)

MqttIdle == client.runs /\ pc["mqtt"] = "idle" /\ ~api

\* MQTT_EVENT_CONNECTED: all topics are subscribed.
Connected ==
  /\ MqttIdle /\ online /\ ~client.up
  /\ client' = [client EXCEPT !.up = TRUE, !.flag = TRUE]
  /\ UNCHANGED <<value, notifier, pc, boot, online, api, out, reported, routing, outages, ghosts>>

\* What was on its way may get there after the next connect.
Lose ==
  \/ UNCHANGED <<out, dropped>>
  \/ out # <<>> /\ out' = <<>> /\ dropped' = TRUE

\* MQTT_EVENT_DISCONNECTED.
Disconnected ==
  /\ MqttIdle /\ client.up
  /\ outages < MaxOutages /\ outages' = outages + 1
  /\ client' = [client EXCEPT !.up = FALSE, !.flag = FALSE]
  /\ Lose
  /\ UNCHANGED <<value, notifier, pc, boot, online, api, reported, routing, raced>>

Deliver ==
  /\ client.up /\ out # <<>>
  /\ reported' = Head(out) /\ out' = Tail(out)
  /\ UNCHANGED <<value, notifier, pc, boot, online, api, client, routing, outages, ghosts>>

\* onMessage() of the two receivers.
Takes(r, topic) ==
  CASE r = "config" -> topic = "config"
    [] r = "ota" -> \/ topic = "announce"
                    \/ topic = "image" /\ ota = "live"
                    \/ topic = "fragment" /\ ota = "live"

\* The list of receivers, from the front.
FirstTaker(topic) ==
  CASE Takes("ota", topic) -> "ota"
    [] ~Takes("ota", topic) /\ Takes("config", topic) -> "config"
    [] OTHER -> None

NoFallback(topic) ==
  CASE last # None /\ Takes(last, topic) -> last
    [] last # None /\ ~Takes(last, topic) -> None
    [] OTHER -> FirstTaker(topic)

\* handle(): the last receiver is asked first.
Taker(topic) ==
  IF last # None /\ Takes(last, topic) THEN last ELSE FirstTaker(topic)

\* A text that is no JSON is taken, and has no effect.
Message(topic) ==
  /\ MqttIdle /\ client.up
  /\ messages < MaxMessages /\ messages' = messages + 1
  /\ last' = Taker(topic)
  /\ \/ UNCHANGED ota
     \/ topic = "announce" /\ ota' = "live"
  /\ \/ UNCHANGED <<value, api, pc>>
     \/ /\ Taker(topic) = "config" /\ MayChange
        /\ value' = value + 1 /\ api' = TRUE /\ Go("mqtt", "lock")
  /\ UNCHANGED <<notifier, boot, online, client, out, reported, outages, ghosts>>

\* The update ends, by an error or by its timer.
OtaEnds ==
  /\ ota = "live" /\ ota' = "ended"
  /\ UNCHANGED <<value, notifier, pc, boot, online, mqtt, last, messages, outages, ghosts>>

-----------------------------------------------------------------------------
(* The WiFi manager and its observer, in the event loop.                   *)

\* IP_EVENT_STA_GOT_IP: connect() has no effect before the client was made.
GotIp ==
  /\ pc["wifi"] = "idle" /\ ~online
  /\ online' = TRUE
  /\ client' = [client EXCEPT !.runs = @ \/ Observed]
  /\ UNCHANGED <<value, notifier, pc, boot, api, out, reported, routing, outages, ghosts>>

\* disconnect() waits until the client's task has left its loop.
LostIp ==
  /\ pc["wifi"] = "idle" /\ online
  /\ outages < MaxOutages /\ outages' = outages + 1
  /\ online' = FALSE
  /\ Go("wifi", IF Observed /\ client.runs THEN "stop" ELSE "idle")
  /\ UNCHANGED <<value, notifier, boot, mqtt, routing, ghosts>>

\* A client that is stopped sends no event: isMqttConnected stays.
Stopped ==
  /\ pc["wifi"] = "stop" /\ pc["mqtt"] = "idle" /\ ~api
  /\ client' = [client EXCEPT !.runs = FALSE, !.up = FALSE]
  /\ Go("wifi", "idle")
  /\ Lose
  /\ UNCHANGED <<value, notifier, boot, online, api, reported, routing, outages, raced>>

-----------------------------------------------------------------------------
Main == AddObserver \/ MakeClient

OnTimeout == Tick \/ Compose \/ Send \/ Publish \/ Clear

Run(t) == Lock(t) \/ Count(t)

Next ==
  \/ Main \/ OnTimeout
  \/ \E t \in Setters \cup {"timer"} : Change(t)
  \/ \E t \in Thread : Run(t)
  \/ Connected \/ Disconnected \/ Deliver \/ OtaEnds
  \/ \E topic \in Topic : Message(topic)
  \/ GotIp \/ LostIp \/ Stopped

Spec == Init /\ [][Next]_vars

\* Every thread runs; the network comes back, and the broker answers.
Fairness ==
  /\ WF_vars(Main) /\ WF_vars(OnTimeout)
  /\ \A t \in Thread : WF_vars(Lock(t)) /\ WF_vars(Count(t))
  /\ WF_vars(Connected) /\ WF_vars(Deliver) /\ WF_vars(GotIp) /\ WF_vars(Stopped)

FairSpec == Spec /\ Fairness

-----------------------------------------------------------------------------
(* Properties.                                                             *)

\* Every variable has its type.
TypeOK ==
  /\ value \in 0..MaxChanges /\ text \in 0..MaxChanges /\ reported \in 0..MaxChanges
  /\ count \in 0..MaxChanges + 2
  /\ lock \in Thread \cup {"free"} /\ api \in BOOLEAN
  /\ pc \in [Thread -> {"idle", "lock", "date", "time", "compose", "send",
                        "publish", "clear", "stop"}]
  /\ boot \in {"observer", "client", "run"} /\ online \in BOOLEAN
  /\ client \in [made : BOOLEAN, runs : BOOLEAN, up : BOOLEAN, flag : BOOLEAN]
  /\ out \in Seq(0..MaxChanges)
  /\ last \in Receiver \cup {None} /\ ota \in {"never", "live", "ended"}
  /\ messages \in 0..MaxMessages /\ outages \in 0..MaxOutages
  /\ raced \in BOOLEAN /\ dropped \in BOOLEAN

\* A change that is in no message yet is still counted, or about to be: the only
\* ones that are forgotten are those notified between stringify() and the reset
\* of the counter.
NotForgotten ==
  text # value => \/ count > 0
                  \/ \E t \in Thread : pc[t] = "lock"
                  \/ raced

\* What mqttWorker.cpp says of m_lastMqttRec: to ask the last receiver first only
\* accelerates; it never changes who gets a message.
CacheOnlyAccelerates == \A topic \in Topic : Taker(topic) = FirstTaker(topic)

\* At last the broker knows the state, unless the last change raced with a message,
\* or the message was given up: the client was not connected, or never started
\* because the address came before it was made.
Reported == <>[](reported = value \/ raced \/ dropped)

\* No thread waits for ever: not the timer task for the client that the MQTT task
\* holds, nor the MQTT task for the notifier's lock, nor WiFi for the MQTT task.
Unblocked == \A t \in Thread : pc[t] # "idle" ~> pc[t] = "idle"
=============================================================================
