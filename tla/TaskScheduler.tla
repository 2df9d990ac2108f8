---------------------------- MODULE TaskScheduler ----------------------------
(***************************************************************************)
(* The watering scheduler (main/tasks.cpp, main/tasks.h).  A task is a     *)
(* chain of items, each a channel and the time it stays on; the thread of  *)
(* the scheduler plays one task at a time.  Start and stop requests come   *)
(* from the control hooks, run by the HTTP and MQTT threads, through a     *)
(* queue.  The configuration it plays lives in the repository, is read     *)
(* anew at every use and may be edited by those threads at any moment: a   *)
(* chain may be posted that leads back into itself, and plays for ever.    *)
(*                                                                         *)
(* setup() makes a state for every task that is configured then, and a     *)
(* control hook.  A task that is posted later has neither, and one whose   *)
(* state was deleted has no "running": the firmware restarts when it looks *)
(* for them, with the configuration that was last saved.                   *)
(*                                                                         *)
(* The loop of Tasks::task() is cut where another thread can be seen to    *)
(* step in: between the event and the watch over the active task, between  *)
(* the checks of startTask() and its start(), between switching an item    *)
(* off and looking for the next, and between finding that and reading its  *)
(* name again to start it.                                                 *)
(*                                                                         *)
(* TimeForever, StopStillRunning, MayStartOver, StartEventRetried,         *)
(* AdvanceAgain, SetupFirst and SleepPastMidnight are no part of the      *)
(* specification: each is a slip in the definition that follows it.        *)
(***************************************************************************)
EXTENDS Integers, Sequences, FiniteSets

CONSTANTS
  Task,       \* task numbers, 0..7 in the code
  Configured, \* those that are configured at first
  Item,       \* node names an item can have
  Channel,    \* channel names
  None,       \* the empty string: no task, no item, no channel
  Time,       \* times an item can stay on, in turns of the loop
  First,      \* "first" of every task's config at first
  Program,    \* every item's node at first
  DueAt,      \* the minute a task is started by itself, None: no auto mode
  Minutes,    \* bound: minutes in a day
  MaxInputs   \* bound: requests, edits and misreadings

\* The keys of an item's node that the scheduler reads.
Node == [name: Channel, next: Item \union {None}, time: Time]

ASSUME SchedulerAssumption ==
  /\ Task \subseteq Nat /\ IsFiniteSet(Task)
  /\ Configured \subseteq Task
  /\ None \notin Task \union Item \union Channel
  /\ Time \subseteq Nat
  /\ Minutes \in Nat \ {0}
  /\ First \in [Task -> Item]
  /\ Program \in [Item -> Node]
  /\ DueAt \in [Task -> 0..(Minutes - 1) \union {None}]
  /\ MaxInputs \in Nat

VARIABLES
  conf,      \* tasks whose config is in the repository
  nodes,     \* items whose node is in the repository
  first,     \* "first" of every task's config
  node,      \* what every item's node says
  saved,     \* the settings file: an earlier state of these four
  known,     \* m_states: the tasks setup() found
  running,   \* /tasks/<task>/state "running"
  lost,      \* tasks whose state was deleted, and "running" with it
  task,      \* m_activeTask: its name, and m_valid
  item,      \* m_activeItem: its node name, and m_valid
  elapsed,   \* steady_clock::now() - m_start, in turns of the loop
  eventq,    \* m_eventq
  minute,    \* wall-clock time
  pc,        \* where the scheduler's thread is in its loop
  owed,      \* channels this thread switched on and has yet to switch off
  played,    \* items the running task has switched on, in order, nothing edited yet
  edited,    \* "task": a task's config was deleted, "program": another edit of what
             \* is played, "misread": a state was
  causes,    \* tasks added after setup() and states deleted, so far
  restarts,  \* restarts so far
  inputs     \* inputs so far (bounds the model)

config == <<conf, nodes, first, node, saved, known>>
report == <<running, lost>>
active == <<task, item>>
history == <<edited, causes, restarts, inputs>>
vars == <<config, report, active, elapsed, eventq, minute, pc, owed, played, history>>

Starting == pc \in {"requested", "due"}

Event == [what: {"start", "stop"}, task: Task]

\* A TaskWrap or TasksItemWrap: whose config it reads, and m_valid.
Wrap(S) == [name: S \union {None}, valid: BOOLEAN]

-----------------------------------------------------------------------------
(* TaskWrap and TasksItemWrap read the repository at every call.           *)

Valid == task.valid /\ task.name \in conf      \* m_activeTask.valid()

FirstOf(t) == IF t \in conf THEN first[t] ELSE None

ChannelOf(i) == IF i \in nodes THEN node[i].name ELSE None

NextOf(i) == IF i \in nodes THEN node[i].next ELSE None

Longest == CHOOSE n \in Time : \A m \in Time : m <= n

TimeForever(i) == IF i \in nodes THEN node[i].time ELSE Longest + 1

TimeOf(i) == IF i \in nodes THEN node[i].time ELSE -1

Current == [conf |-> conf, nodes |-> nodes, first |-> first, node |-> node]

Init ==
  /\ conf = Configured /\ nodes = Item /\ first = First /\ node = Program
  /\ saved = Current
  /\ known = Configured
  /\ running = [t \in Task |-> FALSE] /\ lost = {}
  /\ task = [name |-> None, valid |-> FALSE]
  /\ item = [name |-> None, valid |-> FALSE]
  /\ elapsed = 0
  /\ eventq = <<>>
  /\ minute = 0
  /\ pc = "event"
  /\ owed = {} /\ played = <<>>
  /\ edited = {} /\ causes = 0 /\ restarts = 0
  /\ inputs = 0

-----------------------------------------------------------------------------
(* Other threads.                                                          *)

Input == inputs < MaxInputs /\ inputs' = inputs + 1

\* onControl(), in the thread that wrote /tasks/<t>/control, by the hook that
\* setup() installed.
Request(t, what) ==
  /\ t \in known
  /\ Input
  /\ eventq' = Append(eventq, [what |-> what, task |-> t])
  /\ UNCHANGED <<config, report, active, elapsed, minute, pc, owed, played,
                 edited, causes, restarts>>

\* The file is written a second after an edit, or after the last of several.
Edit ==
  /\ Input
  /\ saved' \in {saved, Current}
  /\ UNCHANGED <<known, active, elapsed, eventq, minute, pc, owed, played, restarts>>

\* A task's config is deleted, or posted again, or a new one is posted.
EditTask(t) ==
  /\ Edit
  /\ conf' = IF t \in conf THEN conf \ {t} ELSE conf \union {t}
  /\ edited' = IF t \in conf THEN edited \union {"task"} ELSE edited
  /\ causes' = IF t \in conf \union known THEN causes ELSE causes + 1
  /\ UNCHANGED <<nodes, first, node, report>>

EditProgram ==
  /\ Edit
  /\ edited' = edited \union {"program"}
  /\ UNCHANGED <<conf, report, causes>>

\* A task's "first" is posted.
EditFirst(t) ==
  /\ t \in conf
  /\ EditProgram
  /\ \E i \in (Item \union {None}) \ {first[t]} : first' = [first EXCEPT ![t] = i]
  /\ UNCHANGED <<nodes, node>>

\* An item's node is deleted, or posted again.
EditNode(i) ==
  /\ EditProgram
  /\ nodes' = IF i \in nodes THEN nodes \ {i} ELSE nodes \union {i}
  /\ UNCHANGED <<first, node>>

\* A key of an item's node is posted: its channel, its time or the item after it,
\* any item there is.
EditItem(i) ==
  /\ i \in nodes
  /\ EditProgram
  /\ node' \in {[node EXCEPT ![i].name = c] : c \in Channel}
              \union {[node EXCEPT ![i].time = n] : n \in Time}
              \union {[node EXCEPT ![i].next = j] : j \in Item \union {None}}
  /\ node' # node
  /\ UNCHANGED <<nodes, first>>

\* /tasks/<t>/state is deleted.
EditState(t) ==
  /\ t \in known \ lost
  /\ Input
  /\ lost' = lost \union {t}
  /\ running' = [running EXCEPT ![t] = FALSE]
  /\ causes' = causes + 1
  /\ UNCHANGED <<config, active, elapsed, eventq, minute, pc, owed, played,
                 edited, restarts>>

-----------------------------------------------------------------------------
(* Operations of the scheduler's thread.                                   *)

\* setChannel(): the write runs the channel's control hook.  An item whose
\* node is gone has the empty channel name, which controls nothing.
SwitchOn(i) ==
  owed' = owed \union ({ChannelOf(i)} \ {None})

SwitchOff(i) == owed' = owed \ {ChannelOf(i)}

\* start(): nothing happens when the item is not there.
Start(i, before) ==
  /\ item' = [name |-> i, valid |-> i \in nodes]
  /\ IF i \in nodes
     THEN SwitchOn(i) /\ elapsed' = 0 /\ played' = IF edited = {} THEN Append(before, i) ELSE <<>>
     ELSE played' = before /\ UNCHANGED <<owed, elapsed>>

\* running(): the value is read in a copy of the property that is gone by then,
\* and whose memory another thread may have used.
Reads(t, answer) ==
  /\ t \notin lost
  /\ \/ answer = running[t] /\ UNCHANGED history
     \/ /\ answer # running[t]
        /\ Input
        /\ edited' = edited \union {"misread"}
        /\ UNCHANGED <<causes, restarts>>

\* update(): what was deleted is there again.
Update(t, run) ==
  /\ running' = [running EXCEPT ![t] = run]
  /\ lost' = lost \ {t}

StopStillRunning(t) ==
  /\ UNCHANGED report
  /\ task' = [task EXCEPT !.valid = FALSE]
  /\ item' = [item EXCEPT !.valid = FALSE]

\* stop(): reset() keeps the names.
Stop(t) ==
  /\ Update(t, FALSE)
  /\ task' = [task EXCEPT !.valid = FALSE]
  /\ item' = [item EXCEPT !.valid = FALSE]

MayStartOver(t, busy) == t \in conf /\ FirstOf(t) \in nodes

\* The checks of startTask(); what passes them goes on to start().
MayStart(t, busy) == ~busy /\ t \in conf /\ FirstOf(t) \in nodes

StartTask(t, busy, from) ==
  IF MayStart(t, busy)
  THEN /\ task' = [name |-> t, valid |-> TRUE]
       /\ item' = [name |-> FirstOf(t), valid |-> TRUE]
       /\ pc' = [event |-> "requested", watch |-> "due"][from]
  ELSE /\ pc' = [event |-> "watch", watch |-> "sleep"][from]
       /\ UNCHANGED active

NoEvent ==
  /\ pc = "event"
  /\ eventq = <<>>
  /\ pc' = "watch"
  /\ UNCHANGED <<config, report, active, elapsed, eventq, minute, owed, played, history>>

Asked(what) == pc = "event" /\ eventq # <<>> /\ Head(eventq).what = what

StartEventRetried ==
  /\ Asked("start")
  /\ \E busy \in BOOLEAN :
       /\ IF Valid THEN Reads(task.name, busy) ELSE ~busy /\ UNCHANGED history
       /\ StartTask(Head(eventq).task, busy, "event")
       /\ eventq' = IF MayStart(Head(eventq).task, busy) THEN Tail(eventq) ELSE eventq
  /\ UNCHANGED <<config, report, elapsed, minute, owed, played>>

\* startTask() for a request, unless a task runs.
StartEvent ==
  /\ Asked("start")
  /\ \E busy \in BOOLEAN :
       /\ IF Valid THEN Reads(task.name, busy) ELSE ~busy /\ UNCHANGED history
       /\ StartTask(Head(eventq).task, busy, "event")
  /\ eventq' = Tail(eventq)
  /\ UNCHANGED <<config, report, elapsed, minute, owed, played>>

\* stopTask(): the channel that is switched off is the active item's, whatever
\* task is asked to stop.
StopEvent ==
  /\ Asked("stop")
  /\ \E runs \in BOOLEAN :
       /\ Reads(Head(eventq).task, runs)
       /\ IF runs
          THEN SwitchOff(item.name) /\ Stop(Head(eventq).task)
          ELSE UNCHANGED <<owed, report, active>>
  /\ eventq' = Tail(eventq)
  /\ pc' = "watch"
  /\ UNCHANGED <<config, elapsed, minute, played>>

\* The rest of startTask(): the task runs from here, item or not.
Begin ==
  /\ Starting
  /\ task.name \in known
  /\ Start(FirstOf(task.name), <<>>)
  /\ Update(task.name, TRUE)
  /\ pc' = IF pc = "requested" THEN "watch" ELSE "sleep"
  /\ UNCHANGED <<config, task, eventq, minute, history>>

\* No state to update, or no "running" in it.
Crashes ==
  \/ Starting /\ task.name \notin known
  \/ Asked("start") /\ Valid /\ task.name \in lost
  \/ Asked("stop") /\ Head(eventq).task \in lost

SetupFirst(c) == {}

\* setup(): the tasks that have a config then.
Setup(c) == c.conf

\* The firmware restarts with what is in the file.
Restart ==
  /\ Crashes
  /\ \E c \in {saved, Current} :
       /\ conf' = c.conf /\ nodes' = c.nodes /\ first' = c.first /\ node' = c.node
       /\ saved' = c
       /\ known' = Setup(c)
  /\ running' = [t \in Task |-> FALSE] /\ lost' = {}
  /\ task' = [name |-> None, valid |-> FALSE]
  /\ item' = [name |-> None, valid |-> FALSE]
  /\ elapsed' = 0
  /\ eventq' = <<>>
  /\ minute' \in 0..(Minutes - 1)
  /\ pc' = "event"
  /\ owed' = {} /\ played' = <<>>
  /\ restarts' = restarts + 1
  /\ UNCHANGED <<edited, causes, inputs>>

\* The active item's time is not over.
Wait ==
  /\ pc = "watch"
  /\ Valid
  /\ elapsed < TimeOf(item.name)
  /\ pc' = "sleep"
  /\ UNCHANGED <<config, report, active, elapsed, eventq, minute, owed, played, history>>

EndItem ==
  /\ pc = "watch"
  /\ Valid
  /\ elapsed >= TimeOf(item.name)
  /\ SwitchOff(item.name)
  /\ pc' = "advance"
  /\ UNCHANGED <<config, report, active, elapsed, eventq, minute, played, history>>

\* The next item is there.
NextItem ==
  /\ pc = "advance"
  /\ NextOf(item.name) \in nodes
  /\ pc' = "next"
  /\ UNCHANGED <<config, report, active, elapsed, eventq, minute, owed, played, history>>

AdvanceAgain ==
  /\ pc = "next"
  /\ Start(item.name, played)
  /\ pc' = "sleep"
  /\ UNCHANGED <<config, report, task, eventq, minute, history>>

\* The active item is the one that is next by now, there or not.
Advance ==
  /\ pc = "next"
  /\ Start(NextOf(item.name), played)
  /\ pc' = "sleep"
  /\ UNCHANGED <<config, report, task, eventq, minute, history>>

EndTask ==
  /\ pc = "advance"
  /\ NextOf(item.name) \notin nodes
  /\ Stop(task.name)
  /\ pc' = "sleep"
  /\ UNCHANGED <<config, elapsed, eventq, minute, owed, played, history>>

\* checkTimeString() starts the first task that is due, and no other.
Due(t) == t \in conf /\ DueAt[t] = minute

CheckTime ==
  /\ pc = "watch"
  /\ ~Valid
  /\ \/ \E t \in Task :
          /\ Due(t) /\ \A u \in Task : Due(u) => t <= u
          /\ StartTask(t, FALSE, "watch")
     \/ (\A t \in Task : ~Due(t)) /\ pc' = "sleep" /\ UNCHANGED active
  /\ UNCHANGED <<config, report, elapsed, eventq, minute, owed, played, history>>

SleepPastMidnight ==
  /\ pc = "sleep"
  /\ elapsed' = IF elapsed < Longest THEN elapsed + 1 ELSE elapsed
  /\ minute' \in {minute, minute + 1}
  /\ pc' = "event"
  /\ UNCHANGED <<config, report, active, eventq, owed, played, history>>

\* 500 ms later; a minute is many turns long.
Sleep ==
  /\ pc = "sleep"
  /\ elapsed' = IF elapsed < Longest THEN elapsed + 1 ELSE elapsed
  /\ minute' \in {minute, (minute + 1) % Minutes}
  /\ pc' = "event"
  /\ UNCHANGED <<config, report, active, eventq, owed, played, history>>

Turn ==
  \/ NoEvent \/ StartEvent \/ StopEvent \/ Begin
  \/ Wait \/ EndItem \/ NextItem \/ Advance \/ EndTask \/ CheckTime \/ Sleep

Loop == Turn \/ Restart

Next ==
  \/ Loop
  \/ \E t \in Task, what \in {"start", "stop"} : Request(t, what)
  \/ \E t \in Task : EditTask(t)
  \/ \E t \in Task : EditFirst(t)
  \/ \E i \in Item : EditNode(i) \/ EditItem(i)
  \/ \E t \in Task : EditState(t)

\* The loop goes round as long as the program runs.
Spec == Init /\ [][Next]_vars /\ WF_vars(Loop)

-----------------------------------------------------------------------------
(* Properties.                                                             *)

\* Every variable keeps its type.
TypeOK ==
  /\ conf \subseteq Task
  /\ nodes \subseteq Item
  /\ first \in [Task -> Item \union {None}]
  /\ node \in [Item -> Node]
  /\ saved \in [conf: SUBSET Task, nodes: SUBSET Item, first: [Task -> Item \union {None}],
             node: [Item -> Node]]
  /\ known \subseteq Task
  /\ running \in [Task -> BOOLEAN]
  /\ lost \subseteq known
  /\ task \in Wrap(Task)
  /\ item \in Wrap(Item)
  /\ task.valid => task.name \in Task
  /\ elapsed \in Nat
  /\ eventq \in Seq(Event)
  /\ minute \in 0..(Minutes - 1)
  /\ pc \in {"event", "requested", "due", "watch", "advance", "next", "sleep"}
  /\ Starting => task.valid
  /\ owed \subseteq Channel
  /\ played \in Seq(Item)
  /\ edited \subseteq {"task", "program", "misread"}
  /\ causes \in 0..inputs
  /\ restarts \in Nat
  /\ inputs \in 0..MaxInputs

\* What the repository reports as running is what the thread plays, even when
\* the items' nodes are edited or deleted under it, tasks are added and the
\* firmware restarts for it, as long as no task's config is deleted and no state
\* misread: else a task could be neither stopped nor brought to its end.
RunningIsActive ==
  edited \intersect {"task", "misread"} = {} =>
    \A t \in Task : running[t] <=> (Valid /\ task.name = t /\ ~Starting /\ t \notin lost)

\* As long as no configuration was changed or deleted, every channel the thread switched
\* on is the active item's: no path through stop, end and start leaves one on.
NothingLeftOn ==
  edited = {} => owed \subseteq (IF Valid /\ ~Starting THEN {ChannelOf(item.name)} ELSE {})

\* A running task has played the items of its program from the first to the
\* active one, none skipped, repeated or taken from another task.
PlaysProgram ==
  edited = {} /\ Valid /\ ~Starting =>
    /\ played # <<>>
    /\ played[1] = first[task.name]
    /\ \A k \in 1..(Len(played) - 1) : played[k + 1] = node[played[k]].next
    /\ played[Len(played)] = item.name

\* From the active item the chain leads back into itself.
Endless ==
  \E S \in SUBSET nodes : item.name \in S /\ \A i \in S : NextOf(i) \in S

\* A task that runs comes to an end, even when its items are deleted, timed anew or
\* led elsewhere under it (a missing node counts as an item whose time is over),
\* unless a config is deleted or a state misread.  It plays on for as long as the
\* chain it is in is closed, and no longer: opened again, it comes to an end.
RunEnds ==
  (\E t \in Task : running[t]) ~>
    \/ \A t \in Task : ~running[t]
    \/ Endless
    \/ edited \intersect {"task", "misread"} # {}

\* The firmware restarts once at most for a task that is posted after setup() or
\* a state that is deleted: what it finds in the file makes it restart no more.
RestartsAreCaused == restarts <= causes

\* Every request is taken from the queue, however long tasks play.
RequestsTaken == eventq # <<>> ~> eventq = <<>>
=============================================================================
