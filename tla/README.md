# Verification of the valve controller firmware

TLA+ models of the firmware in `main/` and `components/http/`, model-checked
with TLC; every safety property that a run checks is also proved with TLAPS.
The firmware runs on an ESP32 under
FreeRTOS: it switches up to four valves, by command over HTTP or MQTT or by its
own schedule, reports their state over MQTT, keeps its settings in flash and
takes updates of itself over MQTT.

Paths below are relative to the repository's root.

## 1. Inventory

### Threads

| thread | started by | what it does in the code modelled here |
|---|---|---|
| main | ESP-IDF | `MainClass::setup`, then the button loop |
| timer task | FreeRTOS | one-shot channel timers, the status timer, the timer of the settings, the OTA time-out |
| scheduler | `Tasks` | `Tasks::task`, once a second |
| HTTP server | `HttpServer::start` | accepts and serves one connection at a time |
| MQTT task | esp-mqtt | `MqttWorker::mqtt_event_handler`, and from it the OTA worker and the repository |
| WiFi manager | `WifiManager` | `WifiManager::task`, one event every 100 ms |
| event loop | ESP-IDF | `event_handler`, `got_ip_event_handler` |

They meet in the **repository**, an `unordered_map` of properties whose lock is
held only while an entry is emplaced or erased. Setting a property runs its write hook and
then every notification that matches, in the thread that sets it: a command for
a valve runs `LedcChan::set`, the exclusive adapter and the status counter on
the stack of the HTTP server, the MQTT task, the scheduler or (when a hold time
ends) the timer task.

### Components

| component | state | operations | hard behaviour | what makes it correct |
|---|---|---|---|---|
| Valve outputs (`channelFactory`, `channelBase`, `channelAdapter`, hooks in `MainClass`) | mode, duty and timer of each channel; the reported state | set on or off, full to half power, end of the hold time, switch the others off | `set` and `onNotify` call each other; four threads and the timer task without a lock; a timer command queue that can be full | at most one valve on; what is on goes off; the report follows the output |
| Scheduler (`tasks`) | event queue, active task and item, time, states | start and stop requests, item after item, daily start | the settings are edited while a task plays; tasks are added after `setup` and have no state; requests, clock and end of an item fall together | nothing stays on; items in order; a run ends unless its chain is closed; what runs is what is reported; no configuration restarts the firmware again and again |
| OTA (`otaWorker`, `otaHandler`, `base85`) | worker state, decoder, digest, handle, time-out | announce, packet, finish, give up | packets cut anywhere; flash errors; a second announcement; the time-out in another thread | what passes the digest check is what was written; an update gets installed when nothing fails |
| Settings (`config`, `Cipher`) | key in NVS, file in SPIFFS, timer, RAM | start, change, delayed write, reset | power loss between any two steps; a change while the file is written | what was at rest comes back; what was reset does not |
| WiFi manager (`WifiManager`) | mode, event queue, timeout, WPS retries, connected | connect, scan, WPS, loss, change of mode | two threads; a timeout stopped without its lock; a driver that refuses; event data read after it was freed | back on the network in the end; MQTT runs while there is a connection |
| MQTT (`mqttWorker`, `MqttRepAdapter`), status (`statusnotifyer`) | client, connected flag, last receiver; change counter and its lock | connect, dispatch, publish; count, compose, reset | changes during a message; two locks in two orders; losses; setup order | a change is reported or still counted; nobody waits for ever |
| HTTP server (`components/http`, `RepositoryHandler`) | connections, handlers, parsed request | accept, parse, match, authenticate, answer, apply | handlers added while it serves; pieces of a request; a client that holds the server | what comes whole and is acknowledged is applied, what is refused is not, but for a body that a cut request finds; everybody is served or let go |
| Repository (`repository`, `property`) | the map, hooks, notifications | create, set, append, remove, stringify | lookup and iteration take no lock; an entry is emplaced before its property is made, and that before it can notify; bare references outlive the lock; hook, value and notification are separate steps | a command the control shows is what the valve was told; whoever is notified sees what is there; operations that do not clash in the map or at a property harm nothing |
| Wiring (`MainClass`, `app_main`) | buttons, exit flag | setup, button loop, restart | order of setup | partly: inside the other models |
| `LedFlasher`, `sntp`, `utilities`, `sht1x`, `echoServer`, `FreeRTOScpp` | | | | not modelled, see section 8 |

The hazards that the properties are aimed at are listed in `PROJECT.json`, each
at its line. Three have no property. A socket may be closed twice in the HTTP
server: which number lwIP gives out next depends on every other user of sockets.
A channel's report may be stale after overlapping calls: the model shows it, as
the code does it, and there is nothing to claim. What follows a failed flash
operation in the update is undefined or in vain: the model shows that as well,
and the properties except it.

## 2. Plan

Order: the valves and what protects them, the scheduler, the update, then what
connects the device (WiFi, MQTT and status, settings, HTTP), and the repository
in which they meet. All of these are done. The next steps, in this order:

1. Models: the composition of the scheduler with the channels (the control hook
   instead of an abstract switch), the counting of button presses in
   `MainClass`, the base-85 decoding as a function against its definition.
2. Proofs: what calls that overlap leave of `CoherentAtRest` (which agreements
   of output, mode, report and timer no interleaving breaks), and the
   composition above.

## 3. Modules

| module | models | composed with |
|---|---|---|
| `Channels` | the valve outputs, with their threads, notifiers and the timer task's queue | `ChannelsMC` instantiates it and `ExclusiveValves` |
| `ExclusiveValves` | what the valve outputs promise: one valve, on or holding, reported | refined by `Channels` |
| `TaskScheduler` | the scheduler, the clock, edits of its settings, and the restarts that these cause | `TaskSchedulerMC` gives the programs |
| `Ota` | the update from packet to boot | |
| `WifiManager` | state machine, event loop, driver, MQTT's start and stop | |
| `ConfigStore` | settings in RAM, file and NVS, restarts | |
| `StatusReport` | status timer, MQTT client and dispatch, setup order | |
| `HttpServer` | the server's task, its handlers, clients | `HttpServerMC` gives the requests |
| `Repository` | the map and its properties under the threads that share them | |
| `ChannelsProofs`, `TaskSchedulerProofs`, `OtaProofs`, `WifiManagerProofs`, `ConfigStoreProofs`, `StatusReportProofs`, `HttpServerProofs`, `RepositoryProofs` | theorems about the module each is named after | `ChannelsProofs` also has the refinement of `ExclusiveValves` |

Definitions with names such as `AheadOfOwn`, `SendAlways`, `LosesTimer` or
`OneName` belong to no specification. Each is a slip in the definition that
follows it, kept to show that a property can break; section 5 names them.

### Channels

`VARIABLES` are the mode, output (`duty`, abstracted to the mode it was computed
for) and one-shot timer of each channel, the repository's report, the bounded
queue of timer commands, and for each thread the stack of activations that
`set`, `half` and `onNotify` form. Each statement that reads or writes shared
state is an action: `SetDuty`, `SetPeriod`, `StartTimer`, `SetMode`, `Exclude`
with `SwitchOther` and `SkipOther`, `ReadState`, `WriteState`. The order of the
statements is that of the code, so the window between `half()`'s last test and
its assignment is there. A timer command that finds the queue full is dropped,
as after the code's wait of one tick.

### TaskScheduler

`Request` is `onControl`, `Loop` is one round of `task()`, cut where it takes an
event, ends an item, finds that there is a next one, starts it, looks at the
clock and sleeps. `TaskWrap` and `TasksItemWrap` read the repository whenever
they are asked, so `Valid`, `FirstOf`, `ChannelOf`, `TimeOf` and `NextOf` do as
well. The other threads change what these read at any time: a task's
configuration or an item's node comes and goes (`EditTask`, `EditNode`), and a
post changes a task's "first" (`EditFirst`) or an item's channel, time or "next"
(`EditItem`), to any item there is, so that a chain may lead back into itself;
the code plays such a chain for ever (`Endless`). The wall clock is a day of
`Minutes` minutes that may or may not advance with each round of the loop; the
minute at which a task starts by itself is a constant.

`known` is `m_states`, which `setup` fills and nothing else does: a task that is
posted later, like one whose state was deleted (`lost`), is a null pointer when
it is started, and `Restart` follows. The settings file (`saved`) holds what was
configured at this or an earlier time, since it is written a second later, and
the firmware begins anew from it. `running()` reads the state through a pointer
into a copy that is gone by then (`property.h:59`), so the scheduler may take a
task that runs for one that does not: `edited` then holds `misread`.

### Ota

The image is a sequence of characters in groups; packets are cuts of its text.
`Decoder` models `B85decode::decode` by what it buffers and what it hands on,
`Task` is one call of `OtaWorker::task`, from the MQTT task or from the timer.
A flash operation either works or fails, by `Works` and `Fails`.

### WifiManager

`task()` is cut where another thread can come between: the test of `active`, the
locked `expired()`, the handling of one event (with its `onLeave` and `onEnter`),
the comparison of the modes. `notifyConnect` and `notifyDisconnect` are cut
between the observers and the flag. The driver (`radio`) is external: what it
refuses and which events it sends is taken from how the code calls it.
`Drained` orders the time scales: the manager takes an event each 100 ms, while
timeouts and WPS take seconds, so those come when the queues are empty; what
comes after may still race with them. So does an address, but a late manager,
which an address overtakes while a loss still waits in its queue, is one of the
disturbances that the bound counts.

`MakeClient` is the moment when `setup` has added the observer and made the MQTT
client; before it `MqttWorker::connect` does nothing, and an address that comes
then starts no client (`mistold`). Setup never gets there when MQTT is not
enabled, which is not modelled, nor is the observer's `push_back` while
`notifyConnect` walks through the list.

The configured mode is station, access point or both, and a guest at the own
access point keeps WiFi from being stopped (`StopRequired`). In station mode the
driver does not give the number of guests and the code reads an uninitialized
one, which is any. The credentials are those of a network or not (`creds`): WPS
hands over a pointer that is read after the event loop freed what it points to.
The mode `WIFI_MODE_NULL` is not among those configured.

### ConfigStore

A setting is a version, and the key that one password is encrypted with. The
file name is the key's (`configFileName` encrypts a constant). Between `Truncate`
and `Close` the file is empty or partial, and `Crash` may come anywhere, as may
`EraseKey` and the restart that follows it. `GenKey` may produce a key with a
zero byte, which is stored as a string and cut off; what is then read back is
any key. `Start` is `m_timeout.start(1)`, whose command may find the timer's
queue full: that is logged and no more, and the change stays in RAM (`dropped`)
until another one starts the timer.

### StatusReport

The state is the number of its changes. `Change` is `property::set` up to the
notification, `Lock` and `Count` are `onSetNotify`. `Tick` begins `onTimeout`,
which itself sets two properties that are notified, composes, sends and resets
the counter. esp-mqtt's recursive lock is `api`: its task holds it while it
calls a handler, and `Publish` and `Stopped` need it. `GotIp` and `LostIp` are
the observers' calls, which have no effect before `MakeClient`.

### HttpServer

One action per step of `task()` and `handleConnection()`: poll, accept, parse,
match handler after handler, handle. A request is its method, path and
credentials, the form of its body, and where it is cut when it arrives in two
pieces, which are parsed as two: in its header lines or after them. `analyze()`
replaces the body only when it finds an empty line with a line behind it, so that
a text cut in its header lines finds the body of the text before it (`Body`), and
looks for one beyond the end of the text (`ReadBehind`). `append()` drops a body
that is no JSON, and one with an array ends in an assertion (`ApplyFails`). A
malformed authorization header is indexed out of range: what lies there is taken
for no password, or the access ends the firmware (`RefuseFails`). A restart is
`Boot`; the repository's content, which then comes from flash, begins anew with
it.

### Repository

One valve with its two paths. What is posted is a command ("ON" stands for the
three strings that the hook takes for it, "OFF" for all others), a value that is
no string, or no "value" at all. The nodes of the map are numbered as they are
emplaced, so that a reference (`act[t].node`) tells an entry from one that took
its place. An operation is cut where the lock is not held: `Emplace` puts a null
pointer, `Make` replaces it by a property, `Name` gives that its repository,
`Install` sets the write hook, and `property::set` is `Hook`, `Store`, `Notify`.
Until it has its repository a property notifies nobody: what is written to it
then is `unheard`. The hook of the control commands the valve if it is given a
string, and the valve's notifier sets the state, as an operation inside the other
(`outer`); what is no string is stored all the same.

A null pointer that is used is a `Restart`. What the C++ standard leaves
undefined is a restart or one of the outcomes that the build shows: a reference
to what was erased, or a lookup or an iteration while another thread puts in or
takes out an entry of any key (`Relinks`: the map is rehashed or relinked), is a
`Restart`, or the operation is lost (`Astray`), or it finds what it would have
found; two accesses to one property of which one writes are a `Restart` or come
one after the other (`Races`). Two histories record what happened: `clash`, that
two threads met in one of these ways or at an entry not yet complete or just
erased, and `disturbed`, that the control was written before its hook was there,
deleted, or written by two at once.

## 4. Runs and what they show

| run | module, cfg | properties | result |
|---|---|---|---|
| `channels_overlap` | `ChannelsMC`, `Channels_overlap.cfg` | `TypeOK` `OneFullAtRest` `DepthBounded` | hold: two threads and the timer task in every interleaving leave at most one channel at full power, with a command queue of length one that loses commands |
| `channels_serial` | `ChannelsMC`, `Channels_serial.cfg` | `OneOnAtRest` `CoherentAtRest` `ImplementsValves` | hold: calls that do not overlap implement the abstract valve, liveness included |
| `channels_two_valves` | `ChannelsMC`, `Channels_two_valves.cfg` | `OneOnAtRest` | violated, see section 7 |
| `scheduler` | `TaskSchedulerMC`, `TaskScheduler.cfg` | `TypeOK` `RunningIsActive` `NothingLeftOn` `PlaysProgram` `RestartsAreCaused` `RunEnds` `RequestsTaken` | hold |
| `ota` | `Ota`, `Ota.cfg` | `TypeOK` `NotInVain` `Installs` | hold |
| `ota_handle` | `Ota`, `Ota_handle.cfg` | `HandleFreed` | violated, see section 7 |
| `wifi` | `WifiManager`, `WifiManager.cfg` | `TypeOK` `NotStranded` `ClientMatches` `Serves` | hold |
| `config` | `ConfigStore`, `ConfigStore.cfg` | `TypeOK` `Durable` `Restores` `NoResurrection` `Saved` | hold |
| `config_plain` | `ConfigStore`, `ConfigStore_plain.cfg` | `SavedEncrypted` | violated, see section 7 |
| `status` | `StatusReport`, `StatusReport.cfg` | `TypeOK` `NotForgotten` `CacheOnlyAccelerates` `Reported` `Unblocked` | hold |
| `http` | `HttpServerMC`, `HttpServer.cfg` | `TypeOK` `AppliedIsAcked` `ReadsWrites` `OneAnswer` `Served` | hold |
| `repository` | `Repository`, `Repository.cfg` | `TypeOK` `CommandShown` `ObserverCurrent` `HarmNeedsClash` | hold: `setup`, HTTP, MQTT and the timer task at the same two entries |

Some properties name what excuses them. These exceptions are behaviour of the
code, and each is needed: without it TLC finds a counterexample.

- `Reported` excepts a change that is notified between the composing of a
  message and the reset of the counter (`raced`), and a message given up for
  want of a connection (`dropped`): the code resets the counter in both cases.
- `Serves` excepts a WPS session whose time-out was stopped by an address that
  came meanwhile (`Stuck`): nothing but another event then ends the session. It
  excepts an access point that was never started (`Dark`): when the mode is
  changed to station and back within the few steps of a reconnection, the
  uninitialized number of guests may keep `esp_wifi_start` from being called,
  and no timeout runs in access point mode. It excepts credentials of no network
  that WPS left and nobody corrects. And it excepts a link that holds although
  the MQTT client or the manager was told wrong (`Untold`): the address came
  before the client was made, or crossed a loss that the manager handled after
  it, and the timeout that would connect anew was stopped with the address's, or
  a guest at the own access point keeps the station from disconnecting.
- `ClientMatches` excepts the two steps in which the flag follows the observers,
  and, until the next call, one that came before the client was made or while
  the other thread was between its two steps (`mistold`): observers and flag are
  then left by different calls.
- `AppliedIsAcked` speaks of requests that came whole and whose body is JSON in
  one line: of any other, 201 says nothing, since a piece, a body of several
  lines and one that does not parse are lost. It excepts from "nothing else is
  there" what a POST cut in its header lines stores (`strays`), the body that the
  connection's last text left behind, even one that was refused.
- `OneAnswer` excepts the rest of a request that arrived in two pieces, which is
  answered for itself.
- `Durable` and `Saved` except a write that was cut short and a start of the timer
  that was dropped, with no change after it that started it: nobody tries again.
- `Restores` excepts a key that contained a zero byte and a file whose write was
  cut short (`torn`): such a file is taken for the defaults, or for no settings.
- `RunningIsActive` and `RunEnds` except a deleted task and a misread
  `running()`, after either of which two tasks may be marked as running.
  `RunEnds` also excepts a chain of items that leads back into itself
  (`Endless`), posted or configured: it plays on for as long as it is closed and
  its task is not stopped, and no longer. `NothingLeftOn` and `PlaysProgram`
  except every edit of the configuration, since the channel and the chain are
  read when needed.
- `RestartsAreCaused` excepts nothing, but counts what causes a restart: a task
  posted after `setup`, and a deleted state.
- `NotInVain` excepts flash errors, and the timer and the MQTT task in the worker
  at once (`spoiled`); not a packet that the timer wrote a second time, nor what
  became of an earlier announcement. `Installs` excepts every expiry as well.
- `CommandShown` speaks of a string, since what is none is stored and not
  commanded. It excepts a control that was posted to before its hook was
  installed, one that was deleted and with it the hook, and one that two threads
  wrote at once: their hooks and their values may come in different orders.
- `ObserverCurrent` excepts the value that `setup` creates, of which nobody is
  notified, and a last write that came to a property before it was given its
  repository (`unheard`); not what went astray.
- `HarmNeedsClash` names its exception: the two threads of a `Clash`. Since
  lookups and iteration take no lock, that is any emplace or erase beside them,
  of the other key as well; what it rules out is a restart or an unheard write
  that comes of whole operations, or of overlapping ones on entries that stay.
- `CoherentAtRest`, `OneOnAtRest` and `ImplementsValves` are claimed for calls that
  do not overlap; of calls that do, `OneFullAtRest` and `DepthBounded` only.

### Bounds

| bound | run | why it is enough |
|---|---|---|
| `N` = 2 or 3 channels, `Callers` two threads or one | channels | the adapter treats channels alike; two exclude each other, the third shows that a scan passes over the channels that are off. Two threads and the timer task are all the writers that can meet in the few statements at stake |
| `MaxCalls` 2 or 4, `QueueLen` 1 or 8 | channels | two overlapping calls and an expiry give every pair of steps; a queue of one loses commands already with two channels |
| three tasks of which two are configured at first, two items, two channels, two times, `Minutes` 2, `MaxInputs` 3 | scheduler | a task of two items and one of a single item, one started by the clock, sharing a node, and one that is added while the firmware runs; three inputs give a start, a stop and an edit in any order, or the edits that close a chain and open it again |
| `Group` 2, `Groups` 3, `Buffer` 3, `MaxStarts` 2, `MaxExpire` 2, `MaxFail` 1 | ota | a packet can hold less than a group, a group and a part, and never the image; a second announcement falls into every state |
| `Retries` 1, `MaxDisturb` 2 | wifi | each pair of disturbances (scan, WPS, mode, credentials, lost link, late address) in each order; a WPS session that times out is entered again, and finds no retry left; guests come and go without a bound |
| `MaxKeys` 2, `MaxVersions` 2, `MaxCrashes` 2, `MaxFails` 1, two threads | config | one write that fails or one start of the timer that is dropped, with a change before and one after it; a key before and one after a reset, settings before and after it, a failure of the power (or a restart, which writes nothing either) during the recovery from the first |
| `MaxChanges` 3, `MaxMessages` 2, `MaxOutages` 1, three changing threads | status | one change before, one during and one after a message; two messages reach each state of the cache |
| two clients, `MaxRequests` 3, nine kinds of request | http | one client waits behind another; a write, another client's read and a third request; a refused body, the cut request that finds it and a read of the result |
| one thread each of HTTP, MQTT, `setup` and the timer task, `MaxInputs` 3 | repository | three operations that overlap pairwise, beside `setup`: one that emplaces, one that erases, one that uses; every kind of value, and none, is posted |

### Fairness and time

- Every thread that can take a step takes one in the end (`WF` of its steps):
  FreeRTOS schedules by priority with time slices, and the loops sleep.
- A running timer expires, and the timer task takes its commands (`Channels`).
- `Ota`: the sender goes on sending. `StatusReport`: the network returns and the
  broker answers, since outages are bounded. `HttpServer`: a client that has
  nothing left to ask falls silent, since requests are bounded; then the five
  seconds pass.
- `WifiManager`: time passes (`SF` of `Tick`), and an access point that is asked
  again and again answers in time (`SF` of `GotIp` before the timeout), and `setup`
  makes the client in the end. `Drained` is the assumption on time scales of section 3.
- `TaskScheduler` has fairness of its loop only: no request is assumed.

- `Repository` has none: its properties are about safety.

The largest runs are those of overlapping channel calls (4.2 million states), WiFi
(1.9 million), the repository (1.7 million), the settings (1.5 million), the
scheduler (1.4 million) and the HTTP server (1.1 million); each takes about
three minutes or less on two workers.

Deadlock is checked in the runs of the scheduler, the update and WiFi. The
other configurations turn it off because their bounded inputs run out.

## 5. What breaks the properties

Every property of a passing run is broken by at least one small slip in the
code it is about. The slips are definitions in the modules; `PROJECT.json` pairs
each with its property.

| property | slip |
|---|---|
| `Channels` `TypeOK`, `OneFullAtRest`, `DepthBounded` | the full queue takes the command all the same; the scan looks only ahead of its own channel; the mode is assigned only when switching on |
| `OneOnAtRest`, `CoherentAtRest`, `ImplementsValves` | the scan stops at the second channel; switching off keeps the timer; half power does not start the timer |
| `TaskScheduler` `TypeOK`, `RunningIsActive`, `NothingLeftOn` | midnight is passed; a stop leaves the state "running"; a start over a running task |
| `RestartsAreCaused` | the states are made before the settings are loaded |
| `PlaysProgram`, `RunEnds`, `RequestsTaken` | the active item is started again in place of the next; a missing node lasts for ever; a refused start stays in the queue |
| `Ota` `TypeOK`, `NotInVain` | the decoder keeps whole groups; a chunk is written twice |
| `Installs` | the decoder drops what fills its buffer |
| `WifiManager` `TypeOK`, `NotStranded` | retries fall below none; a lost link starts no timeout |
| `ClientMatches`, `Serves` | a lost link keeps MQTT running; a finished scan only stops the timeout |
| `ConfigStore` `TypeOK`, `Durable`, `Restores` | no key at all; a change while the file is written arms no timer; the result of `readConfig` inverted |
| `NoResurrection`, `Saved` | one file name for all keys; the timer rearms itself |
| `StatusReport` `TypeOK`, `NotForgotten`, `CacheOnlyAccelerates` | the counter is decremented; the counter is given up when the lock is taken; no other receiver is asked |
| `Reported`, `Unblocked` | two changes are needed for a message; the counter's lock is held while publishing |
| `HttpServer` `TypeOK`, `AppliedIsAcked`, `ReadsWrites` | handlers are appended; a refused request is handled; the body of the last request is kept |
| `OneAnswer`, `Served` | the next handler is asked after a refusal; a silent connection is never closed |
| `Repository` `TypeOK`, `CommandShown` | the hook runs again after it returned; the hook is given the old value |
| `ObserverCurrent`, `HarmNeedsClash` | a deletion is not notified; `set` uses what `find` did not find |

## 6. What is proved

TLAPS proves the following for every value of the constants, from the named
assumptions on them (`ChannelsAssumption`, `SchedulerAssumption`,
`OtaAssumption`, `WifiAssumption`, `ConfigAssumption`, `StatusAssumption`,
`HttpAssumption`, `RepositoryAssumption`), which TLC evaluates on each run. These
say no more than that the bounds are numbers and the threads distinct. Every
invariant that a passing run checks is the property of a theorem. Each module
has its `TypeCorrect`.

**Valve outputs** (`ChannelsProofs`), however calls and expiries interleave:

- `AtMostOneFull`. `OneFullAtRest` says nothing while calls are under way, so it
  is not inductive. The strengthening is `FullPairSeen` (`FullPairsSeen`): of two
  channels at full power, some activation on some thread's stack has yet to look
  at one of them on behalf of the other, or is about to switch one off. It needs
  `FreshScan`, that a scan that has not begun will begin at the first channel.
- `NestingBounded`. The depth of a stack is not bounded by itself: a level can
  call another as long as channels come on again. `Budget` counts what can still
  come on: twice the threads whose `set(true)` has yet to assign its mode, the
  channels at full power (a `half()` may bring each on once more), and for each
  stack its live levels and the channels on that it does not account for
  (`Reach`). No step raises the sum, and a call, which may, raises it by two.
  `Shapes` (only a first level switches on, only the timer's is a `half()`) and
  `Started` (before the first call nothing runs) complete it.

and with the further hypothesis `~Overlap`, that a call or expiry begins only
when nothing is under way and the timer task has taken its commands, which is
the case these properties are claimed for:

- `OneOnAfterwards`, from `CallsInTurn`: there is one stack, in one of six forms,
  from `Starting` over `Scanning`, `Closing` the one other channel that is on,
  and `Closed` to `Ending`. A scan in progress has not passed that channel.
- `ValvesImplemented`: `Channels` starts as `ExclusiveValves` does, and each of
  its steps is, under the mapping of `ChannelsMC`, one of its steps or a stutter.
  The mode's assignment in a `set(true)` opens the valve, the one in the last
  `set(false)` closes it, `WriteState` shows it, and the nested `set(false)` of a
  displaced channel is invisible.
- `CoherentAfterwards`, with `QueueLen >= 3` as well (the build has 20; with less
  it is false). `RestInv` follows output, report, timer and queue through the
  stack: the output of the channel in hand is already what the call wants; a
  report that differs is still due; the commands in the queue, carried out,
  will make of every timer what the mode asks (`Timed`); they are those of one
  call, and stops of the channel it displaced (`OwnedIn`), so that their order
  cannot matter; and they are few enough that none is given up (`Fits`).

**Scheduler** (`TaskSchedulerProofs`): `RunningTaskIsActive`, `NoChannelLeftOn`
and `ProgramIsPlayed`, each from an invariant that ties the active task and item
to the reported states, to the channels owed and to what was played (while
nothing was edited the nodes are those of the file, `Unedited`);
`EveryRestartIsCaused`. A count of restarts is not inductive: the invariant
(`DebtInv`) says that every restart so far, and every one still due, has a cause
of its own, where those due are at most as many as there are tasks configured
without a state and states lost.

**Update** (`OtaProofs`): `NoUpdateInVain`, however the announcements, the cuts and
the timer fall. The type invariant already says what the decoder may hold back:
less than a group. `AloneInv` says, while no flash operation failed and the two
threads were never in the worker at once, how far what was written is behind what
the MD5 has seen, at each place where the one thread can be (`DataInv`,
`Agrees`): a chunk that the timer wrote again makes the flash longer than the
MD5, so that the digest check cannot pass with a whole image's length.

**WiFi** (`WifiManagerProofs`): `NobodyStranded` and `ClientIsMatched`. For the
first the configured mode must go (`StrandedInv`), since it can change at any
time; then every step keeps a rescuer of the station or puts another in its
place (`Noticed`: no link goes without notice in the event loop's queue, and
every address there is followed by the notice of its loss if it was lost,
`AddressInv`, `Answered`). The second follows the two threads through the two
steps of a call each (`ClientInv`); that no client runs before it was made is
part of it.

**Settings** (`ConfigStoreProofs`): `ChangesDurable`, `StartRestores` and
`ResetFinal`. `DurableInv` says of every point of a start and of a write what the
file, the RAM and the timer have in common (`SavedInv`), and which key's file may
be cut short (`CutInv`); a change that is in RAM alone has a thread about to start
the timer, the timer, the writer, or a start that was dropped. `KeptInv` carries what was at rest over the failures of
the power. `RecentInv` says that whatever a key gives access to was changed after
the last reset, and `KeysInv` that no file is there for a key yet to come.

**MQTT and status** (`StatusReportProofs`): `NothingIsForgotten` and
`CacheIsTransparent`. The first needs to know that from the composing of a
message to the reset of the counter the message holds every change that is not
raced or still waiting for the lock. `TypeCorrect` is not inductive as it stands,
since the counter counts without a bound: `Counted` ties it to the changes made
and the threads that have still to count.

**HTTP server** (`HttpServerProofs`): `StoredIsAcked` and `ReadsSeeWrites`. Between
the answer 201 and the change of the repository what was acknowledged is what was
applied and what comes with the body at hand (`AckedIsApplied`, `Comes`), and that
body is the request's own unless the request was cut in its header lines
(`BodyFits`). `OneAnswerEach`: a client is owed at least one answer for each of
its requests that waits or is in hand (`OwedEach`). A request has a number of its
own (`Once`) that is none of those to come (`Fresh`), and what is in hand waits
nowhere (`TakenOut`).

**Repository** (`RepositoryProofs`): `ObserverIsCurrent`, `HarmsNeedClash` and
`CommandIsShown` from one `Invariant` of six parts. `Shaped` says what each
kind of operation may refer to; `Fresh`, that only who put a null pointer into
the map replaces it; `Told`, that a path whose value differs from what its
observer saw has a thread that will still notify, or is unheard; `NoNullStays`,
that whoever put an entry there is about to replace its null pointer and then to
give the property its repository (`BeingMade`); `Sound`, that without a clash
every reference leads to a property, nothing is unheard and nothing restarted;
`Control`, that while nobody disturbs the control (`Disturbance`), what the valve
was told is the control's value or in the hands of the one thread that is about to
store it there (`Carrying`).

Only model-checked: what is about liveness (`RunEnds`, `RequestsTaken`,
`Installs`, `Serves`, `Saved`, `Reported`, `Unblocked`, `Served`, and the
fairness half of `ImplementsValves`), since the prover has neither fairness nor
`ENABLED`. The three violations of section 7 are TLC's: a counterexample is not
proved.

## 7. Where code and comments part

1. `channels_two_valves`: "only one channel should be active"
   (`main/MainClass.h:78`). `half()` runs in the timer task and assigns `ehalf`
   last; when another thread has meanwhile switched the channel off in favour of
   another, both stay on until the hold time of the first is over.
2. `ota_handle`: "must be freed via esp_ota_end()" (`main/otaWorker.h:81`). An
   announcement during an update takes a second handle and forgets the first.
3. `config_plain`: "saving password will encrypt it" (`main/config.cpp:449`). The
   defaults of a first start are written before the hook that encrypts exists.
   If power fails within the second before they are written again, the password
   stays plain in the file, and `getPass()` decrypts it to something else.

Observed while modelling, with no run of its own:

- "test, if task is already running" (`main/tasks.cpp:125`) asks first whether the
  active task is valid, which a task whose configuration was deleted is not:
  another one starts beside it, and both are reported as running.
- A task that is posted after `setup` has no state: starting it, by request or by
  the clock, uses a null pointer. The restart that follows finds it in the
  settings and makes a state for it.
- `mapped_type_proxy::get()` takes a pointer into the copy that `property::get()`
  returns, and reads it after the copy is gone (`main/property.h:59`).
- A chain of items may be posted or configured that leads back into itself: its
  task plays on until it is stopped.
- `HttpRequest::analyze` never clears the body: a request that is cut in its header
  lines by the 1024-byte read finds that of the request before it on the same
  connection, whether that was accepted or refused (`main`'s handlers apply it).
- An address that comes before `setup` has made the MQTT client starts none: MQTT
  waits for the next loss and reconnection.
- A change of the settings whose `m_timeout.start(1)` finds the timer's queue full
  is not saved until another change comes.
- A property that is written between `create`'s two assignments notifies nobody.
- A value that is no string is stored in a control and shown, and the valve is not
  told.
- A deleted control loses its write hook until the next restart: posts to it are
  shown and do nothing.
- `restart()` leaves the main loop and `app_main` restarts at once: a setting
  that was changed within the second before is lost.
- The number of guests at the access point is uninitialized when the driver
  refuses to give it (`main/WifiManager.cpp:290`).
- `readme.txt` configures the device with `curl -X PUT`; no handler takes PUT,
  and the default handler answers 404.
- An MQTT topic is compared as a C string although esp-mqtt gives it a length
  and no terminator.
- A settings file that is cut off is discarded as a whole without being
  rewritten: the device runs with defaults until a setting is changed.
- A scan or WPS request that the driver refuses restarts the firmware
  (`ESP_ERROR_CHECK`; the code has a FIXME there).
- `Timeout::expired()` sets `active` again whatever another thread did to it.
- `chanConf.init()` is never called, and `LedFlasher` is given a pin that it does
  not toggle.

## 8. What is not modelled, and why

- What undefined behaviour does beyond a restart, a lost operation or the
  outcomes of section 3: a model at the grain of the buckets of the
  `unordered_map` would say nothing of this program.
- `repository::link`, which nobody calls; the JSON parser, of which what one leaf
  does is modelled.
- Of the scheduler's configuration: an edit of a task's "auto" or "starttime"
  (`DueAt` is constant), and a post that writes a task's "running" itself.
- The base-85 arithmetic, the mode `WIFI_MODE_NULL`, and SSIDs and hostnames as
  texts.
- The counting of button presses and the clock's update in `MainClass::loop`;
  `spiffsInit` and the choice between NVS pages in `ConfigBase`.
- The numbers of sockets, hence the second `close` in the HTTP server.
- The cipher and the MD5: taken as ideal; what is buffered around them is
  modelled.
- HTTP for several connections at once, `stop()`, digest authentication and PUT
  of files: in the code, and not used by `setup`.
- `LedFlasher` (periodic output), `sntp` (set-up of a library), `utilities`
  (strings), `sht1x` (compiled, never instantiated), `echoServer` (not built),
  `FreeRTOScpp` (vendored), the web application in `app` and the tools.
