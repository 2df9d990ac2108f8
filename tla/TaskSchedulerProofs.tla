------------------------- MODULE TaskSchedulerProofs -------------------------
(***************************************************************************)
(* TaskScheduler, for every set of tasks, items and channels, every        *)
(* program and every bound: the variables keep their types, what is        *)
(* reported as running is what plays, no channel is left on, a task plays  *)
(* its items in order, and every restart has a cause of its own.           *)
(***************************************************************************)
EXTENDS TaskScheduler, FiniteSetTheorems, TLAPS

-----------------------------------------------------------------------------
(* Type correctness.                                                       *)

\* The readers of the repository return a name of the right kind or none.
LEMMA ReadersTyped ==
  ASSUME TypeOK
  PROVE  /\ \A t : FirstOf(t) \in Item \union {None}
         /\ \A i : NextOf(i) \in Item \union {None}
         /\ \A i \in nodes : i \in Item /\ ChannelOf(i) \in Channel /\ ChannelOf(i) # None
         /\ \A i : i \notin nodes => ChannelOf(i) = None
<1>1. nodes \subseteq Item /\ node \in [Item -> Node]
  BY DEF TypeOK
<1>2. conf \subseteq Task /\ first \in [Task -> Item \union {None}]
  BY DEF TypeOK
<1>3. \A t : FirstOf(t) \in Item \union {None}
  BY <1>2 DEF FirstOf
<1>4. \A i : NextOf(i) \in Item \union {None}
  BY <1>1 DEF NextOf, Node
<1>5. \A i \in nodes : i \in Item /\ ChannelOf(i) \in Channel
  BY <1>1 DEF ChannelOf, Node
<1> QED
  BY <1>3, <1>4, <1>5, SchedulerAssumption DEF ChannelOf

\* start() leaves well-typed what it changes.
LEMMA StartTyped ==
  ASSUME TypeOK, NEW i \in Item \union {None}, NEW before \in Seq(Item), Start(i, before)
  PROVE  /\ item' \in Wrap(Item)
         /\ elapsed' \in Nat
         /\ owed' \subseteq Channel
         /\ played' \in Seq(Item)
<1>1. item' \in Wrap(Item)
  <2>1. (i \in nodes) \in BOOLEAN
    OBVIOUS
  <2>2. item' = [name |-> i, valid |-> i \in nodes]
    BY DEF Start
  <2> QED
    BY <2>1, <2>2, Zenon DEF Wrap
<1>2. CASE i \in nodes
  <2>1. ChannelOf(i) \in Channel /\ ChannelOf(i) # None
    BY <1>2, ReadersTyped
  <2>2. /\ owed' = owed \union {ChannelOf(i)}
        /\ elapsed' = 0 /\ played' = IF edited = {} THEN Append(before, i) ELSE <<>>
    BY <1>2, <2>1 DEF Start, SwitchOn
  <2>3. i \in Item
    BY <1>2 DEF TypeOK
  <2>4. owed' \subseteq Channel
    BY <2>1, <2>2 DEF TypeOK
  <2>5. elapsed' \in Nat /\ played' \in Seq(Item)
    BY <2>2, <2>3
  <2> QED
    BY <1>1, <2>4, <2>5
<1>3. CASE i \notin nodes
  <2>1. played' = before /\ UNCHANGED <<owed, elapsed>>
    BY <1>3 DEF Start
  <2> QED
    BY <1>1, <2>1 DEF TypeOK
<1> QED
  BY <1>2, <1>3

\* startTask() leaves well-typed what it changes, and a task that is to begin
\* is valid.
LEMMA StartTaskTyped ==
  ASSUME TypeOK, NEW t \in Task, NEW busy \in BOOLEAN, NEW from \in {"event", "watch"},
         StartTask(t, busy, from)
  PROVE  /\ task' \in Wrap(Task) /\ item' \in Wrap(Item)
         /\ task'.valid => task'.name \in Task
         /\ pc' \in {"event", "requested", "due", "watch", "advance", "next", "sleep"}
         /\ Starting' => task'.valid
<1>1. CASE MayStart(t, busy)
  <2>1. /\ task' = [name |-> t, valid |-> TRUE]
        /\ item' = [name |-> FirstOf(t), valid |-> TRUE]
        /\ pc' \in {"requested", "due"}
    BY <1>1 DEF StartTask
  <2>2. FirstOf(t) \in Item \union {None}
    BY ReadersTyped
  <2> QED
    BY <2>1, <2>2 DEF Wrap
<1>2. CASE ~MayStart(t, busy)
  <2>1. pc' \in {"watch", "sleep"} /\ task' = task /\ item' = item
    BY <1>2 DEF StartTask, active
  <2> QED
    BY <2>1 DEF TypeOK, Starting
<1> QED
  BY <1>1, <1>2

\* stop() leaves well-typed what it changes, and no task valid.
LEMMA StopTyped ==
  ASSUME TypeOK, NEW t, Stop(t)
  PROVE  /\ running' \in [Task -> BOOLEAN] /\ lost' \subseteq known
         /\ task' \in Wrap(Task) /\ item' \in Wrap(Item)
         /\ task'.valid = FALSE
<1>1. running' \in [Task -> BOOLEAN] /\ lost' \subseteq known
  BY DEF TypeOK, Stop, Update
<1> QED
  BY <1>1 DEF TypeOK, Stop, Wrap

\* The request at the head of the queue is one for a task.
LEMMA HeadTyped ==
  ASSUME TypeOK, eventq # <<>>
  PROVE  Head(eventq).task \in Task /\ Tail(eventq) \in Seq(Event)
<1>1. eventq \in Seq(Event)
  BY DEF TypeOK
<1>2. Head(eventq) \in Event /\ Tail(eventq) \in Seq(Event)
  BY <1>1
<1> QED
  BY <1>2 DEF Event

\* What was edited, and what is counted.
HistoryTyped ==
  /\ edited \subseteq {"task", "program", "misread"}
  /\ causes \in 0..inputs
  /\ restarts \in Nat
  /\ inputs \in 0..MaxInputs

\* One more input leaves the counters well-typed.
LEMMA InputTyped ==
  ASSUME TypeOK, Input
  PROVE  /\ inputs' \in 0..MaxInputs
         /\ causes \in 0..inputs' /\ causes + 1 \in 0..inputs'
  BY SchedulerAssumption DEF TypeOK, Input

\* running() leaves well-typed what it changes.
LEMMA ReadsTyped ==
  ASSUME TypeOK, NEW t, NEW answer, Reads(t, answer) \/ UNCHANGED history
  PROVE  HistoryTyped'
<1>1. CASE UNCHANGED history
  BY <1>1 DEF history, HistoryTyped, TypeOK
<1>2. CASE ~UNCHANGED history
  <2>1. Input /\ edited' = edited \union {"misread"} /\ UNCHANGED <<causes, restarts>>
    BY <1>2 DEF Reads
  <2> QED
    BY <2>1, InputTyped DEF HistoryTyped, TypeOK
<1> QED
  BY <1>1, <1>2

\* Every turn of the scheduler's loop keeps the type invariant.
LEMMA TurnTyped ==
  ASSUME TypeOK, Turn
  PROVE  TypeOK'
<1>1. CASE NoEvent
  BY <1>1 DEF NoEvent, TypeOK, config, report, active, history, Starting
<1>2. CASE StartEvent
  <2>1. Head(eventq).task \in Task /\ Tail(eventq) \in Seq(Event)
    BY <1>2, HeadTyped DEF StartEvent, Asked
  <2>2. PICK busy \in BOOLEAN :
          /\ IF Valid THEN Reads(task.name, busy) ELSE ~busy /\ UNCHANGED history
          /\ StartTask(Head(eventq).task, busy, "event")
    BY <1>2 DEF StartEvent
  <2>3. /\ task' \in Wrap(Task) /\ item' \in Wrap(Item)
        /\ task'.valid => task'.name \in Task
        /\ pc' \in {"event", "requested", "due", "watch", "advance", "next", "sleep"}
        /\ Starting' => task'.valid
    BY <2>1, <2>2, StartTaskTyped
  <2>4. /\ eventq' \in Seq(Event)
        /\ UNCHANGED <<config, report, elapsed, minute, owed, played>>
    BY <1>2, <2>1 DEF StartEvent
  <2>5. Reads(task.name, busy) \/ UNCHANGED history
    BY <2>2
  <2>6. HistoryTyped'
    BY <2>5, ReadsTyped
  <2> QED
    BY <2>3, <2>4, <2>6 DEF TypeOK, config, report, HistoryTyped
<1>3. CASE StopEvent
  <2>1. Head(eventq).task \in Task /\ Tail(eventq) \in Seq(Event)
    BY <1>3, HeadTyped DEF StopEvent, Asked
  <2>2. PICK runs \in BOOLEAN :
          /\ Reads(Head(eventq).task, runs)
          /\ IF runs
             THEN SwitchOff(item.name) /\ Stop(Head(eventq).task)
             ELSE UNCHANGED <<owed, report, active>>
    BY <1>3 DEF StopEvent
  <2>3. HistoryTyped'
    BY <2>2, ReadsTyped
  <2>4. /\ eventq' \in Seq(Event) /\ pc' = "watch"
        /\ UNCHANGED <<config, elapsed, minute, played>>
    BY <1>3, <2>1 DEF StopEvent
  <2>5. /\ running' \in [Task -> BOOLEAN] /\ lost' \subseteq known
        /\ task' \in Wrap(Task) /\ item' \in Wrap(Item)
        /\ task'.valid => task'.name \in Task
        /\ owed' \subseteq Channel
    <3>1. CASE runs
      <4>1. owed' \subseteq Channel
        BY <2>2, <3>1 DEF SwitchOff, TypeOK
      <4>2. /\ running' \in [Task -> BOOLEAN] /\ lost' \subseteq known
            /\ task' \in Wrap(Task) /\ item' \in Wrap(Item)
            /\ task'.valid = FALSE
        BY <2>2, <3>1, StopTyped
      <4> QED
        BY <4>1, <4>2
    <3>2. CASE ~runs
      BY <2>2, <3>2 DEF TypeOK, report, active
    <3> QED
      BY <3>1, <3>2
  <2> QED
    BY <2>3, <2>4, <2>5 DEF TypeOK, config, HistoryTyped, Starting
<1>4. CASE Begin
  <2>1. Start(FirstOf(task.name), <<>>) /\ FirstOf(task.name) \in Item \union {None}
    BY <1>4, ReadersTyped DEF Begin
  <2>2. <<>> \in Seq(Item)
    OBVIOUS
  <2>3. /\ item' \in Wrap(Item)
        /\ elapsed' \in Nat
        /\ owed' \subseteq Channel
        /\ played' \in Seq(Item)
    BY <2>1, <2>2, StartTyped
  <2>4. pc' \in {"watch", "sleep"}
    BY <1>4 DEF Begin
  <2>5. running' \in [Task -> BOOLEAN] /\ lost' \subseteq known
    BY <1>4 DEF Begin, Update, TypeOK
  <2>6. UNCHANGED <<config, task, eventq, minute, history>>
    BY <1>4 DEF Begin
  <2> QED
    BY <2>3, <2>4, <2>5, <2>6 DEF TypeOK, config, history, Starting
<1>5. CASE Wait
  BY <1>5 DEF Wait, TypeOK, config, report, active, history, Starting
<1>6. CASE EndItem
  <2>1. owed' \subseteq Channel
    BY <1>6 DEF EndItem, SwitchOff, TypeOK
  <2> QED
    BY <1>6, <2>1 DEF EndItem, TypeOK, config, report, active, history, Starting
<1>11. CASE NextItem
  BY <1>11 DEF NextItem, TypeOK, config, report, active, history, Starting
<1>7. CASE Advance
  <2>1. Start(NextOf(item.name), played) /\ NextOf(item.name) \in Item \union {None}
    BY <1>7, ReadersTyped DEF Advance
  <2>2. /\ item' \in Wrap(Item)
        /\ elapsed' \in Nat
        /\ owed' \subseteq Channel
        /\ played' \in Seq(Item)
    BY <2>1, StartTyped DEF TypeOK
  <2>3. pc' = "sleep" /\ UNCHANGED <<config, report, task, eventq, minute, history>>
    BY <1>7 DEF Advance
  <2> QED
    BY <2>2, <2>3 DEF TypeOK, config, report, history, Starting
<1>8. CASE EndTask
  <2>1. Stop(task.name)
    BY <1>8 DEF EndTask
  <2> QED
    BY <1>8, <2>1, StopTyped DEF EndTask, TypeOK, config, history, Starting
<1>9. CASE CheckTime
  <2>1. CASE pc' = "sleep" /\ UNCHANGED active
    BY <1>9, <2>1 DEF CheckTime, TypeOK, config, report, active, history, Starting
  <2>2. CASE \E t \in Task : StartTask(t, FALSE, "watch")
    <3>1. PICK t \in Task : StartTask(t, FALSE, "watch")
      BY <2>2
    <3>2. /\ task' \in Wrap(Task) /\ item' \in Wrap(Item)
          /\ task'.valid => task'.name \in Task
          /\ pc' \in {"event", "requested", "due", "watch", "advance", "next", "sleep"}
          /\ Starting' => task'.valid
      BY <3>1, StartTaskTyped
    <3> QED
      BY <1>9, <3>2 DEF CheckTime, TypeOK, config, report, history
  <2> QED
    BY <1>9, <2>1, <2>2 DEF CheckTime
<1>10. CASE Sleep
  <2>1. minute' \in 0..(Minutes - 1)
    BY <1>10, SchedulerAssumption DEF Sleep, TypeOK
  <2>2. elapsed' \in Nat
    BY <1>10 DEF Sleep, TypeOK
  <2> QED
    BY <1>10, <2>1, <2>2 DEF Sleep, TypeOK, config, report, active, history, Starting
<1> QED
  BY <1>1, <1>2, <1>3, <1>4, <1>5, <1>6, <1>7, <1>8, <1>9, <1>10, <1>11 DEF Turn

\* A configuration as the settings file holds it.
File == [conf: SUBSET Task, nodes: SUBSET Item, first: [Task -> Item \union {None}],
         node: [Item -> Node]]

\* So does a restart, whichever configuration the file held.
LEMMA RestartTyped ==
  ASSUME TypeOK, Restart
  PROVE  TypeOK'
<1>1. PICK c \in {saved, Current} :
        /\ conf' = c.conf /\ nodes' = c.nodes /\ first' = c.first /\ node' = c.node
        /\ saved' = c
        /\ known' = Setup(c)
  BY DEF Restart
<1>2. c \in File
  BY DEF TypeOK, Current, File
<1>3. /\ conf' \subseteq Task /\ nodes' \subseteq Item
      /\ first' \in [Task -> Item \union {None}] /\ node' \in [Item -> Node]
      /\ saved' \in File
      /\ known' \subseteq Task
  BY <1>1, <1>2 DEF Setup, File
<1>4. /\ running' \in [Task -> BOOLEAN] /\ lost' \subseteq known'
      /\ task' \in Wrap(Task) /\ item' \in Wrap(Item) /\ ~task'.valid
      /\ eventq' \in Seq(Event) /\ played' \in Seq(Item)
  BY DEF Restart, Wrap
<1>5. /\ elapsed' \in Nat /\ minute' \in 0..(Minutes - 1)
      /\ pc' = "event" /\ owed' = {}
  BY DEF Restart
<1>6. /\ edited' \subseteq {"task", "program", "misread"}
      /\ causes' \in 0..inputs' /\ restarts' \in Nat /\ inputs' \in 0..MaxInputs
  BY DEF Restart, TypeOK
<1> QED
  BY <1>3, <1>4, <1>5, <1>6 DEF TypeOK, Starting, File

\* What the other threads do.
Others ==
  \/ \E t \in Task, what \in {"start", "stop"} : Request(t, what)
  \/ \E t \in Task : EditTask(t)
  \/ \E t \in Task : EditFirst(t)
  \/ \E i \in Item : EditNode(i) \/ EditItem(i)
  \/ \E t \in Task : EditState(t)

\* An edit leaves well-typed what it changes.
LEMMA EditTyped ==
  ASSUME TypeOK, Edit
  PROVE  /\ saved' \in File
         /\ inputs' \in 0..MaxInputs
         /\ causes \in 0..inputs' /\ causes + 1 \in 0..inputs'
<1>1. Current \in File
  BY DEF TypeOK, Current, File
<1>2. saved' \in {saved, Current} /\ Input
  BY DEF Edit
<1> QED
  BY <1>1, <1>2, InputTyped DEF TypeOK, File

\* Requests, channel commands and edits by other threads keep the type invariant.
LEMMA OthersTyped ==
  ASSUME TypeOK, Others
  PROVE  TypeOK'
<1>1. ASSUME NEW t \in Task, NEW what \in {"start", "stop"}, Request(t, what)
      PROVE  TypeOK'
  <2>1. [what |-> what, task |-> t] \in Event
    BY DEF Event
  <2>2. eventq' \in Seq(Event)
    BY <1>1, <2>1 DEF Request, TypeOK
  <2>3. inputs' \in 0..MaxInputs /\ causes \in 0..inputs'
    BY <1>1, InputTyped DEF Request
  <2> QED
    BY <1>1, <2>2, <2>3 DEF Request, TypeOK, config, report, active, Starting
<1>2. ASSUME Edit, causes' \in {causes, causes + 1}, UNCHANGED report,
             conf' \subseteq Task, nodes' \subseteq Item,
             first' \in [Task -> Item \union {None}], node' \in [Item -> Node],
             edited' \subseteq {"task", "program", "misread"}
      PROVE  TypeOK'
  <2>1. saved' \in File /\ inputs' \in 0..MaxInputs /\ causes' \in 0..inputs'
    BY <1>2, EditTyped
  <2> QED
    BY <1>2, <2>1 DEF Edit, TypeOK, File, report, active, Starting
<1>3. EditProgram => /\ Edit /\ UNCHANGED <<conf, report, causes>>
                     /\ edited' \subseteq {"task", "program", "misread"}
  BY DEF EditProgram, TypeOK
<1>4. ASSUME NEW t \in Task, EditTask(t)
      PROVE  TypeOK'
  BY <1>2, <1>4 DEF EditTask, TypeOK
<1>5. ASSUME NEW t \in Task, EditFirst(t)
      PROVE  TypeOK'
  <2>1. first' \in [Task -> Item \union {None}] /\ UNCHANGED <<nodes, node>> /\ EditProgram
    BY <1>5 DEF EditFirst, TypeOK
  <2> QED
    BY <1>2, <1>3, <2>1 DEF TypeOK
<1>6. ASSUME NEW i \in Item, EditNode(i) \/ EditItem(i)
      PROVE  TypeOK'
  <2>1. CASE EditNode(i)
    BY <1>2, <1>3, <2>1 DEF EditNode, TypeOK
  <2>2. CASE EditItem(i)
    <3>1. \/ \E c \in Channel : node' = [node EXCEPT ![i].name = c]
          \/ \E n \in Time : node' = [node EXCEPT ![i].time = n]
          \/ \E j \in Item \union {None} : node' = [node EXCEPT ![i].next = j]
      BY <2>2 DEF EditItem
    <3>2. node \in [Item -> Node] /\ node[i] \in Node
      BY DEF TypeOK
    <3>3. node' \in [Item -> Node]
      BY <3>1, <3>2 DEF Node
    <3>4. UNCHANGED <<nodes, first>> /\ EditProgram
      BY <2>2 DEF EditItem
    <3> QED
      BY <1>2, <1>3, <3>3, <3>4 DEF TypeOK
  <2> QED
    BY <1>6, <2>1, <2>2
<1>7. ASSUME NEW t \in Task, EditState(t)
      PROVE  TypeOK'
  <2>1. inputs' \in 0..MaxInputs /\ causes' \in 0..inputs'
    BY <1>7, InputTyped DEF EditState
  <2>2. running' \in [Task -> BOOLEAN] /\ lost' \subseteq known
    BY <1>7 DEF EditState, TypeOK
  <2> QED
    BY <1>7, <2>1, <2>2 DEF EditState, TypeOK, config, active, Starting
<1> QED
  BY <1>1, <1>4, <1>5, <1>6, <1>7 DEF Others

\* The scheduler keeps its types whatever other threads request and edit.
THEOREM TypeCorrect == Spec => []TypeOK
<1>1. Init => TypeOK
  BY SchedulerAssumption DEF Init, Current, TypeOK, Starting, Wrap
<1>2. TypeOK /\ [Next]_vars => TypeOK'
  <2> SUFFICES ASSUME TypeOK, [Next]_vars PROVE TypeOK'
    OBVIOUS
  <2>1. CASE Turn
    BY <2>1, TurnTyped
  <2>2. CASE Restart
    BY <2>2, RestartTyped
  <2>3. CASE Others
    BY <2>3, OthersTyped
  <2>4. CASE UNCHANGED vars
    BY <2>4 DEF vars, config, report, active, history, TypeOK, Starting
  <2> QED
    BY <2>1, <2>2, <2>3, <2>4 DEF Next, Loop, Others
<1> QED
  BY <1>1, <1>2, PTL DEF Spec

-----------------------------------------------------------------------------
(* What is reported as running is what plays.                              *)

\* As long as no config was deleted the active task has one, and as long as
\* nothing at all was, every item has its node, in the file as well.
Unedited ==
  /\ "task" \notin edited => (task.valid => task.name \in conf)
  /\ edited = {} => nodes = Item /\ saved.nodes = Item

\* startTask() makes no task active that has no config.
LEMMA StartTaskIn ==
  ASSUME NEW t, NEW busy, NEW from, StartTask(t, busy, from)
  PROVE  UNCHANGED task \/ task'.name \in conf
  BY DEF StartTask, MayStart, active

\* A turn of the loop leaves the configuration alone, and makes no task active
\* that has no config.
LEMMA TurnKeepsConfig ==
  ASSUME TypeOK, Turn
  PROVE  /\ UNCHANGED config
         /\ UNCHANGED task \/ task'.name \in conf \/ ~task'.valid
         /\ edited \subseteq edited'
<1>1. CASE NoEvent \/ Begin \/ Wait \/ EndItem \/ NextItem \/ Advance \/ Sleep
  BY <1>1 DEF NoEvent, Begin, Wait, EndItem, NextItem, Advance, Sleep, active, history
<1>2. CASE StartEvent
  <2>1. PICK busy \in BOOLEAN :
          /\ IF Valid THEN Reads(task.name, busy) ELSE ~busy /\ UNCHANGED history
          /\ StartTask(Head(eventq).task, busy, "event")
    BY <1>2 DEF StartEvent
  <2>2. edited \subseteq edited'
    BY <2>1 DEF Reads, history
  <2>3. UNCHANGED task \/ task'.name \in conf
    BY <2>1, StartTaskIn
  <2> QED
    BY <1>2, <2>2, <2>3 DEF StartEvent
<1>3. CASE StopEvent
  <2>1. PICK runs \in BOOLEAN :
          /\ Reads(Head(eventq).task, runs)
          /\ IF runs
             THEN SwitchOff(item.name) /\ Stop(Head(eventq).task)
             ELSE UNCHANGED <<owed, report, active>>
    BY <1>3 DEF StopEvent
  <2>2. edited \subseteq edited'
    BY <2>1 DEF Reads, history
  <2>3. UNCHANGED task \/ ~task'.valid
    BY <2>1, StopTyped DEF active
  <2> QED
    BY <1>3, <2>2, <2>3 DEF StopEvent
<1>4. CASE EndTask
  <2>1. ~task'.valid
    BY <1>4, StopTyped DEF EndTask
  <2> QED
    BY <1>4, <2>1 DEF EndTask, history
<1>5. CASE CheckTime
  <2>1. UNCHANGED task \/ task'.name \in conf
    BY <1>5, StartTaskIn DEF CheckTime, active
  <2> QED
    BY <1>5, <2>1 DEF CheckTime, history
<1> QED
  BY <1>1, <1>2, <1>3, <1>4, <1>5 DEF Turn

\* What is edited is never forgotten.
LEMMA EditsStay ==
  ASSUME TypeOK, [Next]_vars
  PROVE  edited \subseteq edited'
<1>1. CASE Turn
  BY <1>1, TurnKeepsConfig
<1>2. Restart => UNCHANGED edited
  BY DEF Restart
<1>3. Others => edited \subseteq edited'
  BY DEF Others, Request, EditTask, EditFirst, EditNode, EditItem, EditProgram, EditState, history
<1>4. UNCHANGED vars => UNCHANGED edited
  BY DEF vars, history
<1> QED
  BY <1>1, <1>2, <1>3, <1>4 DEF Next, Loop, Others

\* Spec keeps Unedited.
LEMMA UneditedStays ==
  ASSUME TypeOK, Unedited, [Next]_vars
  PROVE  Unedited'
<1>1. CASE UNCHANGED config /\ (UNCHANGED task \/ task'.name \in conf \/ ~task'.valid)
  BY <1>1, EditsStay DEF Unedited, config
<1>2. CASE Restart
  <2>1. PICK c \in {saved, Current} : nodes' = c.nodes /\ saved' = c
    BY <1>2 DEF Restart
  <2>2. c.nodes = saved.nodes \/ c.nodes = nodes
    BY <2>1 DEF Current
  <2>3. ~task'.valid /\ UNCHANGED edited
    BY <1>2 DEF Restart
  <2> QED
    BY <2>1, <2>2, <2>3 DEF Unedited
<1>3. ASSUME NEW t \in Task, EditTask(t)
      PROVE  Unedited'
  <2>1. /\ saved' \in {saved, Current}
        /\ UNCHANGED <<task, nodes>>
    BY <1>3 DEF EditTask, Edit, active
  <2>2. saved'.nodes = saved.nodes \/ saved'.nodes = nodes
    BY <2>1 DEF Current
  <2>3. CASE t \in conf
    <3>1. "task" \in edited'
      BY <1>3, <2>3 DEF EditTask
    <3> QED
      BY <3>1 DEF Unedited
  <2>4. CASE t \notin conf
    <3>1. conf' = conf \union {t} /\ edited' = edited
      BY <1>3, <2>4 DEF EditTask
    <3> QED
      BY <2>1, <2>2, <3>1 DEF Unedited
  <2> QED
    BY <2>3, <2>4
<1>4. ASSUME EditProgram
      PROVE  Unedited'
  <2>1. edited' # {} /\ UNCHANGED <<conf, task>> /\ edited \subseteq edited'
    BY <1>4 DEF EditProgram, Edit, active
  <2> QED
    BY <2>1 DEF Unedited
<1>5. CASE Turn
  BY <1>1, <1>5, TurnKeepsConfig
<1>6. /\ \A t \in Task, what \in {"start", "stop"} : Request(t, what) => UNCHANGED <<config, task>>
      /\ \A t \in Task : EditFirst(t) => EditProgram
      /\ \A i \in Item : EditNode(i) \/ EditItem(i) => EditProgram
      /\ \A t \in Task : EditState(t) => UNCHANGED <<config, task>>
      /\ UNCHANGED vars => UNCHANGED <<config, task>>
  BY DEF Request, EditState, EditFirst, EditNode, EditItem, vars, active
<1> QED
  BY <1>1, <1>2, <1>3, <1>4, <1>5, <1>6 DEF Next, Loop

\* With the active task's config in place, it is valid when it was set so.
LEMMA ValidMeans ==
  ASSUME Unedited, "task" \notin edited
  PROVE  Valid <=> task.valid
  BY DEF Unedited, Valid

\* What runs, told without the config.
Plays ==
  \A t \in Task :
    running[t] <=> (task.valid /\ task.name = t /\ ~Starting /\ t \notin lost)

\* What is neither misread nor deleted.
Sound == edited \intersect {"task", "misread"} = {}

\* Every turn of the loop keeps the report and the active task together.
LEMMA TurnPlays ==
  ASSUME TypeOK, Unedited, Sound, Sound', Plays, Turn
  PROVE  Plays'
<1>1. Valid <=> task.valid
  BY ValidMeans DEF Sound
<1>2. ASSUME UNCHANGED <<report, task>>, ~Starting, ~Starting'
      PROVE  Plays'
  BY <1>2 DEF Plays, report
<1>3. ASSUME NEW t \in Task, NEW busy \in BOOLEAN, NEW from \in {"event", "watch"},
             StartTask(t, busy, from), ~busy => ~task.valid, UNCHANGED report, ~Starting
      PROVE  Plays'
  <2>1. CASE MayStart(t, busy)
    <3>1. ~task.valid
      BY <1>3, <2>1 DEF MayStart
    <3>2. Starting'
      BY <1>3, <2>1 DEF StartTask, Starting
    <3> QED
      BY <1>3, <3>1, <3>2 DEF Plays, report
  <2>2. CASE ~MayStart(t, busy)
    <3>1. UNCHANGED task /\ pc' \in {"watch", "sleep"}
      BY <1>3, <2>2 DEF StartTask, active
    <3> QED
      BY <1>2, <1>3, <3>1 DEF Starting
  <2> QED
    BY <2>1, <2>2
<1>4. ASSUME NEW t, ~Starting, (t \in Task /\ running[t]) \/ (task.valid => t = task.name),
             Stop(t), ~Starting'
      PROVE  Plays'
  <2>1. ~task'.valid
    BY <1>4, StopTyped
  <2>2. running' = [running EXCEPT ![t] = FALSE] /\ running \in [Task -> BOOLEAN]
    BY <1>4 DEF Stop, Update, TypeOK
  <2>3. \A u \in Task : u # t => ~running[u]
    BY <1>4 DEF Plays
  <2>4. \A u \in Task : ~running'[u]
    BY <2>2, <2>3
  <2> QED
    BY <2>1, <2>4 DEF Plays
<1>5. ASSUME NEW t, NEW answer, Reads(t, answer)
      PROVE  answer = running[t] /\ t \notin lost
  BY <1>5 DEF Reads, Sound
<1>6. CASE NoEvent
  BY <1>2, <1>6 DEF NoEvent, active, Starting
<1>7. CASE StartEvent
  <2>1. Head(eventq).task \in Task /\ ~Starting /\ UNCHANGED report
    BY <1>7, HeadTyped DEF StartEvent, Asked, Starting
  <2>2. PICK busy \in BOOLEAN :
          /\ IF Valid THEN Reads(task.name, busy) ELSE ~busy /\ UNCHANGED history
          /\ StartTask(Head(eventq).task, busy, "event")
    BY <1>7 DEF StartEvent
  <2>3. CASE task.valid
    <3>1. busy = running[task.name] /\ task.name \notin lost
      BY <1>1, <1>5, <2>2, <2>3
    <3>2. task.name \in Task
      BY <2>3 DEF TypeOK
    <3>3. busy
      BY <2>1, <2>3, <3>1, <3>2 DEF Plays
    <3> QED
      BY <1>3, <2>1, <2>2, <3>3
  <2> QED
    BY <1>3, <2>1, <2>2, <2>3
<1>8. CASE StopEvent
  <2>1. Head(eventq).task \in Task /\ ~Starting /\ ~Starting'
    BY <1>8, HeadTyped DEF StopEvent, Asked, Starting
  <2>2. PICK runs \in BOOLEAN :
          /\ Reads(Head(eventq).task, runs)
          /\ IF runs
             THEN SwitchOff(item.name) /\ Stop(Head(eventq).task)
             ELSE UNCHANGED <<owed, report, active>>
    BY <1>8 DEF StopEvent
  <2>3. CASE runs
    <3>1. running[Head(eventq).task]
      BY <1>5, <2>2, <2>3
    <3> QED
      BY <1>4, <2>1, <2>2, <2>3, <3>1
  <2>4. CASE ~runs
    BY <1>2, <2>1, <2>2, <2>4 DEF active
  <2> QED
    BY <2>3, <2>4
<1>9. CASE Begin
  <2>1. Starting /\ ~Starting'
    BY <1>9 DEF Begin, Starting
  <2>2. task.valid /\ task.name \in Task
    BY <2>1 DEF TypeOK
  <2>3. /\ running \in [Task -> BOOLEAN] /\ running' = [running EXCEPT ![task.name] = TRUE]
        /\ lost' = lost \ {task.name} /\ task' = task
    BY <1>9 DEF Begin, Update, TypeOK
  <2>4. \A t \in Task : running'[t] <=> t = task.name
    BY <2>1, <2>3 DEF Plays
  <2> QED
    BY <2>1, <2>2, <2>3, <2>4 DEF Plays
<1>10. CASE Wait
  BY <1>2, <1>10 DEF Wait, active, Starting
<1>11. CASE EndItem
  BY <1>2, <1>11 DEF EndItem, active, Starting
<1>12. CASE NextItem \/ Advance
  BY <1>2, <1>12 DEF NextItem, Advance, active, Starting
<1>13. CASE EndTask
  <2>1. Stop(task.name) /\ ~Starting /\ ~Starting'
    BY <1>13 DEF EndTask, Starting
  <2> QED
    BY <1>4, <2>1
<1>14. CASE CheckTime
  <2>1. CASE pc' = "sleep" /\ UNCHANGED active
    BY <1>2, <1>14, <2>1 DEF CheckTime, active, Starting
  <2>2. CASE \E t \in Task : StartTask(t, FALSE, "watch")
    <3>1. ~task.valid /\ ~Starting /\ UNCHANGED report
      BY <1>1, <1>14 DEF CheckTime, Starting
    <3> QED
      BY <1>3, <2>2, <3>1
  <2> QED
    BY <1>14, <2>1, <2>2 DEF CheckTime
<1>15. CASE Sleep
  BY <1>2, <1>15 DEF Sleep, active, Starting
<1> QED
  BY <1>6, <1>7, <1>8, <1>9, <1>10, <1>11, <1>12, <1>13, <1>14, <1>15 DEF Turn

\* The inductive invariant behind RunningIsActive.
RunningInv == TypeOK /\ Unedited /\ RunningIsActive

\* Spec keeps it.
LEMMA RunningInvariant == Spec => []RunningInv
<1>1. Init => RunningInv
  <2> SUFFICES ASSUME Init PROVE TypeOK /\ Unedited /\ RunningIsActive
    BY DEF RunningInv
  <2>1. TypeOK
    BY SchedulerAssumption DEF Init, Current, TypeOK, Starting, Wrap
  <2>2. Unedited
    BY DEF Init, Current, Unedited
  <2>3. RunningIsActive
    BY DEF Init, RunningIsActive, Valid
  <2> QED
    BY <2>1, <2>2, <2>3
<1>2. RunningInv /\ TypeOK' /\ [Next]_vars => RunningInv'
  <2> SUFFICES ASSUME RunningInv, TypeOK', [Next]_vars PROVE RunningInv'
    OBVIOUS
  <2> USE DEF RunningInv
  <2>1. Unedited'
    BY UneditedStays
  <2>2. CASE ~Sound'
    BY <2>1, <2>2 DEF RunningIsActive, Sound
  <2>3. CASE Sound'
    <3>1. Sound
      BY <2>3, EditsStay DEF Sound
    <3>2. Valid <=> task.valid
      BY <3>1, ValidMeans DEF Sound
    <3>3. Plays
      BY <3>1, <3>2 DEF RunningIsActive, Plays, Sound
    <3>4. Valid' <=> task'.valid
      BY <2>1, <2>3 DEF Unedited, Valid, Sound
    <3>5. Plays'
      <4>1. CASE Turn
        BY <2>3, <3>1, <3>3, <4>1, TurnPlays
      <4>2. CASE Restart
        BY <4>2 DEF Restart, Plays
      <4>3. CASE \E t \in Task : EditState(t)
        <5>1. PICK t \in Task : EditState(t)
          BY <4>3
        <5>2. /\ running' = [running EXCEPT ![t] = FALSE] /\ lost' = lost \union {t}
              /\ UNCHANGED <<task, pc>> /\ running \in [Task -> BOOLEAN]
          BY <5>1 DEF EditState, active, TypeOK
        <5> QED
          BY <3>3, <5>2 DEF Plays, Starting
      <4>4. CASE UNCHANGED <<report, task, pc>>
        BY <3>3, <4>4 DEF Plays, Starting, report
      <4>5. Others => UNCHANGED <<report, task, pc>> \/ \E t \in Task : EditState(t)
        BY DEF Others, Request, EditTask, EditFirst, EditNode, EditItem, EditProgram, Edit, active
      <4>6. UNCHANGED vars => UNCHANGED <<report, task, pc>>
        BY DEF vars, active
      <4> QED
        BY <4>1, <4>2, <4>3, <4>4, <4>5, <4>6 DEF Next, Loop, Others
    <3>6. RunningIsActive'
      BY <3>4, <3>5 DEF Plays, RunningIsActive
    <3> QED
      BY <2>1, <3>6
  <2> QED
    BY <2>2, <2>3
<1> QED
  BY <1>1, <1>2, TypeCorrect, PTL DEF Spec

\* As long as no task's config is deleted and no state misread, the repository
\* reports a task as running exactly while the scheduler's thread plays it.
THEOREM RunningTaskIsActive == Spec => []RunningIsActive
<1>1. RunningInv => RunningIsActive
  BY DEF RunningInv
<1> QED
  BY <1>1, RunningInvariant, PTL

-----------------------------------------------------------------------------
(* No channel is left on, and the program is played in order.              *)

\* Between the end of an item and the next one nothing is on; and what a check
\* found is still there.
Between ==
  edited = {} =>
    /\ pc \in {"advance", "next"} => task.valid /\ owed = {}
    /\ pc = "next" => NextOf(item.name) \in Item
    /\ Starting => first[task.name] \in Item

\* What the thread owes, told without the config.
Owes ==
  owed \subseteq (IF task.valid /\ ~Starting THEN {ChannelOf(item.name)} ELSE {})

\* What was played, told without the config.
InOrder ==
  task.valid /\ ~Starting =>
    /\ played # <<>>
    /\ played[1] = first[task.name]
    /\ \A k \in 1..(Len(played) - 1) : played[k + 1] = node[played[k]].next
    /\ played[Len(played)] = item.name

\* An item played after the last one continues the program.
LEMMA AppendInOrder ==
  ASSUME TypeOK, InOrder, task.valid, ~Starting, NEW i \in Item, i = node[item.name].next
  PROVE  LET p == Append(played, i)
         IN  /\ p # <<>>
             /\ p[1] = first[task.name]
             /\ \A k \in 1..(Len(p) - 1) : p[k + 1] = node[p[k]].next
             /\ p[Len(p)] = i
<1> DEFINE p == Append(played, i)
           n == Len(played)
<1>1. /\ played \in Seq(Item) /\ n \in Nat \ {0}
      /\ played[1] = first[task.name]
      /\ \A k \in 1..(n - 1) : played[k + 1] = node[played[k]].next
      /\ played[n] = item.name
  <2>1. played \in Seq(Item)
    BY DEF TypeOK
  <2> QED
    BY <2>1 DEF InOrder
<1>2. /\ Len(p) = n + 1 /\ p[n + 1] = i
      /\ \A k \in 1..n : p[k] = played[k]
  BY <1>1
<1>3. ASSUME NEW k \in 1..n
      PROVE  p[k + 1] = node[p[k]].next
  <2>1. CASE k = n
    BY <1>1, <1>2, <2>1
  <2>2. CASE k # n
    <3>1. k \in 1..(n - 1) /\ k + 1 \in 1..n
      BY <1>1, <2>2
    <3> QED
      BY <1>1, <1>2, <3>1
  <2> QED
    BY <2>1, <2>2
<1>4. p # <<>> /\ p[1] = first[task.name]
  BY <1>1, <1>2
<1> QED
  BY <1>1, <1>2, <1>3, <1>4

\* Every turn of the loop, as long as nothing was edited.
LEMMA TurnClean ==
  ASSUME TypeOK, Unedited, Plays, Between, Owes, InOrder, edited = {}, edited' = {}, Turn
  PROVE  Between' /\ Owes' /\ InOrder'
<1>1. /\ Valid <=> task.valid
      /\ task.valid => task.name \in conf
      /\ nodes = Item
  BY ValidMeans DEF Unedited
<1>2. \A i : UNCHANGED <<nodes, first, node>> => ChannelOf(i)' = ChannelOf(i)
  BY DEF ChannelOf
<1>3. UNCHANGED <<nodes, first, node>>
  BY TurnKeepsConfig DEF config
<1>4. ASSUME UNCHANGED <<task, item, owed, played>>, ~Starting, ~Starting', pc' \notin {"advance", "next"}
      PROVE  Between' /\ Owes' /\ InOrder'
  <2>1. ChannelOf(item.name)' = ChannelOf(item.name)
    BY <1>3, <1>4 DEF ChannelOf
  <2>2. Owes'
    BY <1>4, <2>1 DEF Owes
  <2> QED
    BY <1>3, <1>4, <2>2 DEF Between, InOrder
<1>5. ASSUME NEW t \in Task, NEW busy \in BOOLEAN, NEW from \in {"event", "watch"},
             StartTask(t, busy, from), ~busy => ~task.valid,
             UNCHANGED <<owed, played>>, ~Starting
      PROVE  Between' /\ Owes' /\ InOrder'
  <2>1. CASE MayStart(t, busy)
    <3>1. ~task.valid
      BY <1>5, <2>1 DEF MayStart
    <3>2. Starting' /\ pc' \notin {"advance", "next"}
      BY <1>5, <2>1 DEF StartTask, Starting
    <3>4. first'[task'.name] \in Item
      BY <1>1, <1>3, <1>5, <2>1 DEF StartTask, MayStart, FirstOf
    <3>3. owed' = {}
      BY <1>5, <3>1 DEF Owes
    <3> QED
      BY <3>2, <3>3, <3>4 DEF Between, Owes, InOrder
  <2>2. CASE ~MayStart(t, busy)
    <3>1. UNCHANGED <<task, item>> /\ pc' \in {"watch", "sleep"}
      BY <1>5, <2>2 DEF StartTask, active
    <3> QED
      BY <1>4, <1>5, <3>1 DEF Starting
  <2> QED
    BY <2>1, <2>2
<1>0. ASSUME NEW t, NEW answer, Reads(t, answer)
      PROVE  answer = running[t] /\ t \notin lost
  BY <1>0 DEF Reads
<1>6. CASE NoEvent
  BY <1>4, <1>6 DEF NoEvent, active, Starting
<1>7. CASE StartEvent
  <2>1. Head(eventq).task \in Task /\ ~Starting /\ UNCHANGED <<owed, played>>
    BY <1>7, HeadTyped DEF StartEvent, Asked, Starting
  <2>2. PICK busy \in BOOLEAN :
          /\ IF Valid THEN Reads(task.name, busy) ELSE ~busy /\ UNCHANGED history
          /\ StartTask(Head(eventq).task, busy, "event")
    BY <1>7 DEF StartEvent
  <2>3. CASE task.valid
    <3>1. busy = running[task.name] /\ task.name \notin lost
      BY <1>0, <1>1, <2>2, <2>3
    <3>2. task.name \in Task
      BY <2>3 DEF TypeOK
    <3>3. busy
      BY <2>1, <2>3, <3>1, <3>2 DEF Plays
    <3> QED
      BY <1>5, <2>1, <2>2, <3>3
  <2> QED
    BY <1>5, <2>1, <2>2, <2>3
<1>8. CASE StopEvent
  <2>1. /\ Head(eventq).task \in Task /\ ~Starting /\ ~Starting' /\ pc' = "watch"
        /\ UNCHANGED played
    BY <1>8, HeadTyped DEF StopEvent, Asked, Starting
  <2>2. PICK runs \in BOOLEAN :
          /\ Reads(Head(eventq).task, runs)
          /\ IF runs
             THEN SwitchOff(item.name) /\ Stop(Head(eventq).task)
             ELSE UNCHANGED <<owed, report, active>>
    BY <1>8 DEF StopEvent
  <2>3. CASE runs
    <3>1. running[Head(eventq).task]
      BY <1>0, <2>2, <2>3
    <3>2. task.valid
      BY <2>1, <3>1 DEF Plays
    <3>3. owed \subseteq {ChannelOf(item.name)} /\ owed' = owed \ {ChannelOf(item.name)}
      BY <2>1, <2>2, <2>3, <3>2 DEF SwitchOff, Owes
    <3>4. ~task'.valid
      BY <2>2, <2>3, StopTyped
    <3> QED
      BY <2>1, <3>3, <3>4 DEF Between, Owes, InOrder
  <2>4. CASE ~runs
    BY <1>4, <2>1, <2>2, <2>4 DEF active
  <2> QED
    BY <2>3, <2>4
<1>9. CASE Begin
  <2>1. Starting /\ ~Starting' /\ pc' \notin {"advance", "next"} /\ task' = task
    BY <1>9 DEF Begin, Starting
  <2>2. task.valid /\ task.name \in Task
    BY <2>1 DEF TypeOK
  <2>3. FirstOf(task.name) = first[task.name] /\ first[task.name] \in Item
    BY <1>1, <2>1, <2>2 DEF FirstOf, Between
  <2> DEFINE i == first[task.name]
  <2>4. ChannelOf(i) # None
    BY <1>1, <2>3, ReadersTyped
  <2>5. Start(i, <<>>)
    BY <1>9, <2>3 DEF Begin
  <2>6. /\ item'.name = i /\ played' = <<i>>
        /\ owed' = owed \union {ChannelOf(i)}
    BY <1>1, <2>3, <2>4, <2>5 DEF Start, SwitchOn
  <2>7. owed = {}
    BY <2>1 DEF Owes
  <2>8. ChannelOf(item.name)' = ChannelOf(i)
    BY <1>3, <2>6 DEF ChannelOf
  <2>9. Owes'
    BY <2>1, <2>2, <2>6, <2>7, <2>8 DEF Owes
  <2>10. InOrder'
    BY <1>3, <2>1, <2>2, <2>6 DEF InOrder
  <2> QED
    BY <2>1, <2>9, <2>10 DEF Between
<1>10. CASE Wait
  BY <1>4, <1>10 DEF Wait, active, Starting
<1>11. CASE EndItem
  <2>1. /\ ~Starting /\ ~Starting' /\ UNCHANGED <<task, item, played>>
        /\ task.valid /\ owed' = owed \ {ChannelOf(item.name)}
    BY <1>1, <1>11 DEF EndItem, SwitchOff, Starting, active
  <2>2. owed' = {} /\ pc' = "advance"
    BY <1>11, <2>1 DEF EndItem, Owes
  <2> QED
    BY <1>3, <2>1, <2>2 DEF Between, Owes, InOrder
<1>16. CASE NextItem
  <2>1. /\ ~Starting /\ ~Starting' /\ UNCHANGED <<task, item, owed, played>>
        /\ task.valid /\ owed = {} /\ NextOf(item.name) \in Item
    BY <1>1, <1>16 DEF NextItem, Starting, Between, active
  <2>2. NextOf(item.name)' = NextOf(item.name)
    BY <1>3, <2>1 DEF NextOf
  <2> QED
    BY <1>3, <2>1, <2>2 DEF Between, Owes, InOrder
<1>12. CASE Advance
  <2>1. ~Starting /\ ~Starting' /\ pc' \notin {"advance", "next"} /\ task' = task
    BY <1>12 DEF Advance, Starting
  <2>2. task.valid /\ owed = {} /\ NextOf(item.name) \in Item
    BY <1>12 DEF Advance, Between
  <2>3. item.name = played[Len(played)] /\ played # <<>>
    BY <2>1, <2>2 DEF InOrder
  <2>4. item.name \in Item
    BY <2>3 DEF TypeOK
  <2> DEFINE i == NextOf(item.name)
  <2>5. i = node[item.name].next /\ i \in Item
    BY <1>1, <2>2, <2>4 DEF NextOf
  <2>6. ChannelOf(i) # None
    BY <1>1, <2>5, ReadersTyped
  <2>7. /\ item'.name = i /\ played' = Append(played, i)
        /\ owed' = owed \union {ChannelOf(i)}
    BY <1>1, <1>12, <2>5, <2>6 DEF Advance, Start, SwitchOn
  <2>8. ChannelOf(item.name)' = ChannelOf(i)
    BY <1>3, <2>7 DEF ChannelOf
  <2>9. Owes'
    BY <2>1, <2>2, <2>7, <2>8 DEF Owes
  <2>10. InOrder'
    <3> HIDE DEF i
    <3> QED
      BY <1>3, <2>1, <2>2, <2>5, <2>7, AppendInOrder DEF InOrder
  <2> QED
    BY <2>1, <2>9, <2>10 DEF Between
<1>13. CASE EndTask
  <2>1. ~task'.valid
    BY <1>13, StopTyped DEF EndTask
  <2>2. owed' = {} /\ pc' \notin {"advance", "next"} /\ ~Starting'
    BY <1>13 DEF EndTask, Between, Starting
  <2> QED
    BY <2>1, <2>2 DEF Between, Owes, InOrder
<1>14. CASE CheckTime
  <2>1. CASE pc' = "sleep" /\ UNCHANGED active
    BY <1>4, <1>14, <2>1 DEF CheckTime, active, Starting
  <2>2. CASE \E t \in Task : StartTask(t, FALSE, "watch")
    <3>1. ~task.valid /\ ~Starting /\ UNCHANGED <<owed, played>>
      BY <1>1, <1>14 DEF CheckTime, Starting
    <3> QED
      BY <1>5, <2>2, <3>1
  <2> QED
    BY <1>14, <2>1, <2>2 DEF CheckTime
<1>15. CASE Sleep
  BY <1>4, <1>15 DEF Sleep, active, Starting
<1> QED
  BY <1>6, <1>7, <1>8, <1>9, <1>10, <1>11, <1>12, <1>13, <1>14, <1>15, <1>16 DEF Turn

\* The inductive invariant behind NothingLeftOn and PlaysProgram.
CleanInv == edited = {} => Between /\ Owes /\ InOrder

\* Spec keeps it.
LEMMA CleanInvariant == Spec => []CleanInv
<1>1. Init => CleanInv
  <2> SUFFICES ASSUME Init PROVE Between /\ Owes /\ InOrder
    BY DEF CleanInv
  <2>1. pc = "event" /\ ~task.valid /\ owed = {} /\ ~Starting
    BY DEF Init, Starting
  <2> QED
    BY <2>1 DEF Between, Owes, InOrder
<1>2. CleanInv /\ RunningInv /\ [Next]_vars => CleanInv'
  <2> SUFFICES ASSUME CleanInv, RunningInv, [Next]_vars, edited' = {}
               PROVE  Between' /\ Owes' /\ InOrder'
    BY DEF CleanInv
  <2>1. edited = {}
    BY EditsStay DEF RunningInv
  <2>2. Between /\ Owes /\ InOrder
    BY <2>1 DEF CleanInv
  <2>3. Plays
    BY <2>1, ValidMeans DEF RunningInv, RunningIsActive, Plays
  <2>4. CASE Turn
    BY <2>1, <2>2, <2>3, <2>4, TurnClean DEF RunningInv
  <2>5. CASE UNCHANGED <<nodes, first, node, task, item, pc, owed, played>>
    <3>1. ChannelOf(item.name)' = ChannelOf(item.name)
      BY <2>5 DEF ChannelOf
    <3>2. NextOf(item.name)' = NextOf(item.name)
      BY <2>5 DEF NextOf
    <3> QED
      BY <2>1, <2>2, <2>5, <3>1, <3>2 DEF Between, Owes, InOrder, Starting
  <2>6. Others => UNCHANGED <<nodes, first, node, task, item, pc, owed, played>>
    <3>1. ASSUME Others
          PROVE  \/ UNCHANGED <<nodes, first, node, task, item, pc, owed, played>>
                 \/ edited' # {}
      BY <3>1 DEF Others, Request, EditTask, EditFirst, EditNode, EditItem, EditProgram, EditState,
                  Edit, config, active
    <3> QED
      BY <3>1
  <2>8. CASE Restart
    <3>1. ~task'.valid /\ owed' = {} /\ pc' = "event" /\ ~Starting'
      BY <2>8 DEF Restart, Starting
    <3> QED
      BY <3>1 DEF Between, Owes, InOrder
  <2>7. UNCHANGED vars => UNCHANGED <<nodes, first, node, task, item, pc, owed, played>>
    BY DEF vars, config, active
  <2> QED
    BY <2>4, <2>5, <2>6, <2>7, <2>8 DEF Next, Loop, Others
<1> QED
  BY <1>1, <1>2, RunningInvariant, PTL DEF Spec

\* As long as nothing configured is changed or deleted, no interleaving of start and stop
\* requests, the clock and the items' times leaves a channel on that the thread
\* switched on.
THEOREM NoChannelLeftOn == Spec => []NothingLeftOn
<1>1. CleanInv /\ RunningInv => NothingLeftOn
  BY ValidMeans DEF CleanInv, RunningInv, Owes, NothingLeftOn
<1> QED
  BY <1>1, CleanInvariant, RunningInvariant, PTL

\* As long as nothing configured is changed or deleted, a running task has played the
\* items of its own program, from the first to the active one.
THEOREM ProgramIsPlayed == Spec => []PlaysProgram
<1>1. CleanInv /\ RunningInv => PlaysProgram
  BY ValidMeans DEF CleanInv, RunningInv, InOrder, PlaysProgram
<1> QED
  BY <1>1, CleanInvariant, RunningInvariant, PTL

-----------------------------------------------------------------------------
(* The firmware restarts no more often than it is made to.                 *)

\* The tasks that may yet make it restart: those that are configured, or about to
\* begin, and have no state, and those whose state was deleted.
Debt ==
  ((conf \union (IF Starting THEN {task.name} ELSE {})) \ known) \union lost

\* A turn of the loop adds none.
LEMMA TurnDebt ==
  ASSUME TypeOK, Turn
  PROVE  Debt' \subseteq Debt /\ causes' = causes /\ restarts' = restarts
<1>1. UNCHANGED <<conf, known>>
  BY TurnKeepsConfig DEF config
<1>2. ASSUME ~Starting', lost' \subseteq lost
      PROVE  Debt' \subseteq Debt
  BY <1>1, <1>2 DEF Debt
<1>3. ASSUME NEW t, NEW busy, NEW from \in {"event", "watch"}, StartTask(t, busy, from),
             UNCHANGED lost
      PROVE  Debt' \subseteq Debt
  <2>1. CASE MayStart(t, busy)
    <3>1. task'.name \in conf
      BY <1>3, <2>1 DEF StartTask, MayStart
    <3> QED
      BY <1>1, <1>3, <3>1 DEF Debt
  <2>2. CASE ~MayStart(t, busy)
    <3>1. ~Starting'
      BY <1>3, <2>2 DEF StartTask, Starting
    <3> QED
      BY <1>2, <1>3, <3>1
  <2> QED
    BY <2>1, <2>2
<1>4. CASE NoEvent \/ Wait \/ EndItem \/ NextItem \/ Advance \/ Sleep
  BY <1>2, <1>4 DEF NoEvent, Wait, EndItem, NextItem, Advance, Sleep, report, history, Starting
<1>5. CASE StartEvent
  <2>1. PICK busy \in BOOLEAN :
          /\ IF Valid THEN Reads(task.name, busy) ELSE ~busy /\ UNCHANGED history
          /\ StartTask(Head(eventq).task, busy, "event")
    BY <1>5 DEF StartEvent
  <2>2. UNCHANGED <<causes, restarts>>
    BY <2>1 DEF Reads, history
  <2>3. UNCHANGED lost
    BY <1>5 DEF StartEvent, report
  <2> QED
    BY <1>3, <2>1, <2>2, <2>3
<1>6. CASE StopEvent
  <2>1. PICK runs \in BOOLEAN :
          /\ Reads(Head(eventq).task, runs)
          /\ IF runs
             THEN SwitchOff(item.name) /\ Stop(Head(eventq).task)
             ELSE UNCHANGED <<owed, report, active>>
    BY <1>6 DEF StopEvent
  <2>2. UNCHANGED <<causes, restarts>>
    BY <2>1 DEF Reads, history
  <2>3. lost' \subseteq lost
    BY <2>1 DEF Stop, Update, report
  <2>4. ~Starting'
    BY <1>6 DEF StopEvent, Starting
  <2> QED
    BY <1>2, <2>2, <2>3, <2>4
<1>7. CASE Begin
  BY <1>2, <1>7 DEF Begin, Update, history, Starting
<1>8. CASE EndTask
  BY <1>2, <1>8 DEF EndTask, Stop, Update, history, Starting
<1>9. CASE CheckTime
  <2>1. UNCHANGED lost /\ UNCHANGED <<causes, restarts>>
    BY <1>9 DEF CheckTime, report, history
  <2>2. CASE pc' = "sleep" /\ UNCHANGED active
    BY <1>2, <2>1, <2>2 DEF Starting
  <2>3. CASE \E t \in Task : StartTask(t, FALSE, "watch")
    BY <1>3, <2>1, <2>3
  <2> QED
    BY <1>9, <2>1, <2>2, <2>3 DEF CheckTime
<1> QED
  BY <1>4, <1>5, <1>6, <1>7, <1>8, <1>9 DEF Turn

\* A restart pays all of them, and there is one.
LEMMA RestartDebt ==
  ASSUME Restart
  PROVE  Debt # {} /\ Debt' = {} /\ causes' = causes /\ restarts' = restarts + 1
<1>1. Debt # {}
  BY DEF Restart, Crashes, Debt
<1>2. conf' = known' /\ lost' = {} /\ ~Starting'
  BY DEF Restart, Setup, Starting
<1> QED
  BY <1>1, <1>2 DEF Restart, Debt

\* What another thread adds, it is counted for.
LEMMA OthersDebt ==
  ASSUME TypeOK, Others
  PROVE  /\ restarts' = restarts
         /\ \/ Debt' \subseteq Debt /\ causes' = causes
            \/ \E t \in Task : Debt' \subseteq Debt \union {t} /\ causes' = causes + 1
<1>1. ASSUME NEW t \in Task, EditTask(t)
      PROVE  /\ restarts' = restarts
             /\ \/ Debt' \subseteq Debt /\ causes' = causes
                \/ Debt' \subseteq Debt \union {t} /\ causes' = causes + 1
  <2>1. UNCHANGED <<known, lost, task, pc, restarts>>
    BY <1>1 DEF EditTask, Edit, report, active
  <2>2. CASE t \in conf \union known
    <3>1. conf' \ known \subseteq conf \ known /\ causes' = causes
      BY <1>1, <2>2 DEF EditTask
    <3> QED
      BY <2>1, <3>1 DEF Debt, Starting
  <2>3. CASE t \notin conf \union known
    <3>1. conf' = conf \union {t} /\ causes' = causes + 1
      BY <1>1, <2>3 DEF EditTask
    <3> QED
      BY <2>1, <3>1 DEF Debt, Starting
  <2> QED
    BY <2>2, <2>3
<1>2. ASSUME NEW t \in Task, EditState(t)
      PROVE  restarts' = restarts /\ Debt' \subseteq Debt \union {t} /\ causes' = causes + 1
  BY <1>2 DEF EditState, config, active, Debt, Starting
<1>3. ASSUME UNCHANGED <<conf, known, lost, task, pc, causes, restarts>>
      PROVE  restarts' = restarts /\ Debt' \subseteq Debt /\ causes' = causes
  BY <1>3 DEF Debt, Starting
<1>4. /\ \A t \in Task, what \in {"start", "stop"} :
           Request(t, what) => UNCHANGED <<conf, known, lost, task, pc, causes, restarts>>
      /\ \A t \in Task : EditFirst(t) => UNCHANGED <<conf, known, lost, task, pc, causes, restarts>>
      /\ \A i \in Item : EditNode(i) \/ EditItem(i) =>
           UNCHANGED <<conf, known, lost, task, pc, causes, restarts>>
  BY DEF Request, EditFirst, EditNode, EditItem, EditProgram, Edit, config, report, active
<1> QED
  BY <1>1, <1>2, <1>3, <1>4 DEF Others

\* Every restart so far and every one that is due has a cause of its own.
DebtInv == restarts + Cardinality(Debt) <= causes

\* Tasks are few enough to count.
LEMMA DebtFinite ==
  ASSUME TypeOK
  PROVE  IsFiniteSet(Debt) /\ Cardinality(Debt) \in Nat
<1>1. Debt \subseteq Task
  BY DEF TypeOK, Debt
<1>2. IsFiniteSet(Debt)
  BY <1>1, SchedulerAssumption, FS_Subset
<1> QED
  BY <1>2, FS_CardinalityType

\* Spec keeps DebtInv.
LEMMA DebtInvariant == Spec => []DebtInv
<1>1. Init => DebtInv
  <2> SUFFICES ASSUME Init PROVE DebtInv
    OBVIOUS
  <2>1. Debt = {}
    BY DEF Init, Debt, Starting
  <2>2. Cardinality(Debt) = 0
    BY <2>1, FS_EmptySet
  <2> QED
    BY <2>2 DEF Init, DebtInv
<1>2. TypeOK /\ TypeOK' /\ DebtInv /\ [Next]_vars => DebtInv'
  <2> SUFFICES ASSUME TypeOK, TypeOK', DebtInv, [Next]_vars PROVE DebtInv'
    OBVIOUS
  <2>1. /\ IsFiniteSet(Debt) /\ Cardinality(Debt) \in Nat
        /\ restarts \in Nat /\ causes \in Nat
        /\ restarts + Cardinality(Debt) <= causes
    BY DebtFinite DEF TypeOK, DebtInv
  <2>2. IsFiniteSet(Debt') /\ Cardinality(Debt') \in Nat
    <3>1. Debt' \subseteq Task
      BY DEF TypeOK, Debt
    <3>2. IsFiniteSet(Debt')
      BY <3>1, SchedulerAssumption, FS_Subset
    <3> QED
      BY <3>2, FS_CardinalityType
  <2>3. CASE Debt' \subseteq Debt /\ causes' = causes /\ restarts' = restarts
    <3>1. Cardinality(Debt') <= Cardinality(Debt)
      BY <2>1, <2>3, FS_Subset
    <3> QED
      BY <2>1, <2>2, <2>3, <3>1 DEF DebtInv
  <2>4. CASE /\ \E t \in Task : Debt' \subseteq Debt \union {t}
             /\ causes' = causes + 1 /\ restarts' = restarts
    <3>1. PICK t \in Task : Debt' \subseteq Debt \union {t}
      BY <2>4
    <3>2. /\ IsFiniteSet(Debt \union {t})
          /\ Cardinality(Debt \union {t}) =
               IF t \in Debt THEN Cardinality(Debt) ELSE Cardinality(Debt) + 1
      BY <2>1, FS_AddElement
    <3>3. Cardinality(Debt') <= Cardinality(Debt \union {t})
      BY <3>1, <3>2, FS_Subset
    <3>4. Cardinality(Debt') <= Cardinality(Debt) + 1
      BY <2>1, <2>2, <3>2, <3>3
    <3> QED
      BY <2>1, <2>2, <2>4, <3>4 DEF DebtInv
  <2>5. CASE Restart
    <3>1. Debt # {} /\ Debt' = {} /\ causes' = causes /\ restarts' = restarts + 1
      BY <2>5, RestartDebt
    <3>2. Cardinality(Debt) # 0 /\ Cardinality(Debt') = 0
      BY <2>1, <3>1, FS_EmptySet
    <3> QED
      BY <2>1, <3>1, <3>2 DEF DebtInv
  <2>6. CASE Turn
    BY <2>3, <2>6, TurnDebt
  <2>7. CASE Others
    BY <2>3, <2>4, <2>7, OthersDebt
  <2>8. CASE UNCHANGED vars
    <3>1. Debt' = Debt /\ causes' = causes /\ restarts' = restarts
      BY <2>8 DEF vars, config, report, active, history, Debt, Starting
    <3> QED
      BY <2>3, <3>1
  <2> QED
    BY <2>5, <2>6, <2>7, <2>8 DEF Next, Loop, Others
<1> QED
  BY <1>1, <1>2, TypeCorrect, PTL DEF Spec

\* The firmware restarts at most once for every task that is added after setup()
\* and every state that is deleted.
THEOREM EveryRestartIsCaused == Spec => []RestartsAreCaused
<1>1. TypeOK /\ DebtInv => RestartsAreCaused
  <2> SUFFICES ASSUME TypeOK, DebtInv PROVE RestartsAreCaused
    OBVIOUS
  <2>1. Cardinality(Debt) \in Nat /\ restarts \in Nat /\ causes \in Nat
    BY DebtFinite DEF TypeOK
  <2> QED
    BY <2>1 DEF DebtInv, RestartsAreCaused
<1> QED
  BY <1>1, TypeCorrect, DebtInvariant, PTL
=============================================================================
