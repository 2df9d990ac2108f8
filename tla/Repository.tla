------------------------------ MODULE Repository ------------------------------
(***************************************************************************)
(* The repository (main/repository.cpp, main/repository.h) with its        *)
(* properties (main/property.cpp, main/property.h), as the threads of the  *)
(* firmware use it at once: setup() creates the entries of a valve and     *)
(* installs the write hook (main/MainClass.cpp), JSON is posted, deleted   *)
(* and read by HTTP (main/RepositoryHandler.cpp), posted over MQTT         *)
(* (main/MqttRepAdapter.cpp) and by the scheduler, and the timer task      *)
(* reports a valve and writes the map out.                                 *)
(*                                                                         *)
(* The map is an unordered_map whose lock is held while an entry is        *)
(* emplaced or erased and at no other time: find() and iteration take      *)
(* none.  create() emplaces a null pointer, replaces it by a property, and *)
(* then gives the property its name and repository; until it has them it   *)
(* notifies nobody.  What find(), create() and iteration return is a bare  *)
(* reference.  An operation is cut at each of these places.  One valve is  *)
(* modelled, with the two paths /actors/<valve>/control and .../state, and *)
(* JSON of one leaf: a longer one is the same thread's next operation.     *)
(*                                                                         *)
(* A null pointer that is used restarts the firmware.  A reference to what *)
(* was erased, and a lookup or an iteration while another thread relinks   *)
(* the map, is undefined: the firmware restarts, or the operation goes     *)
(* nowhere.  So are two unlocked accesses to one property, of which one    *)
(* writes: the firmware restarts, or they come one after the other.        *)
(*                                                                         *)
(* HookTwice, HookWithOld, EraseSilently and FindUnchecked are no part of  *)
(* the specification: each is a slip in the definition that follows it.    *)
(***************************************************************************)
EXTENDS Integers, FiniteSets

CONSTANTS
  Web,       \* threads of HTTP: they post, delete and read
  Writers,   \* threads that only post: the MQTT task, the scheduler
  Main,      \* the thread of setup()
  Timer,     \* the timer task
  None,      \* no value, no path
  Posted,    \* what is posted under "value"; None: nothing is
  MaxInputs  \* bound: operations that are asked for

Client == Web \union Writers
Thread == Client \union {Main, Timer}

\* "ON" stands for what the hook takes for it ("on", "On"), "OFF" for every other
\* string, "other" for what is no string.
Command == {"ON", "OFF"}
Value == Command \union {"other"}

ASSUME RepositoryAssumption ==
  /\ Main \notin Client \union {Timer}
  /\ Timer \notin Client
  /\ Web \intersect Writers = {}
  /\ None \notin {"control", "state"} \union Value
  /\ Posted \subseteq Value \union {None}
  /\ MaxInputs \in Nat

VARIABLES
  entry,      \* m_properties: the node of every path, and the property in it
  nodes,      \* how many nodes were ever emplaced
  act,        \* what every thread is doing
  outer,      \* ... and the operation whose write hook it does it for
  left,       \* of a thread that iterates: the paths it has yet to come to
  copied,     \* of a GET: the properties in its copy of the map, 0 a null pointer
  setup,      \* what setup() creates next
  commanded,  \* what the control hook last told the valve
  seen,       \* what a subscriber found when it was last notified of a path
  unheard,    \* paths whose last write notified nobody
  disturbed,  \* there was a Disturbance
  clash,      \* there was a Clash
  restarted,  \* the firmware has restarted
  inputs      \* operations asked for so far (bounds the model)

map == <<entry, nodes>>
reading == <<left, copied>>
outside == <<commanded, seen, unheard>>
history == <<disturbed, clash>>
vars == <<map, act, outer, reading, setup, outside, history, restarted, inputs>>

-----------------------------------------------------------------------------
Path == {"control", "state"}

\* An entry: node 0 is none; until the property is made the pointer is null.
Entry == [node: Nat, made: BOOLEAN, named: BOOLEAN, hook: BOOLEAN,
          value: Value \union {None}]
Absent == [node |-> 0, made |-> FALSE, named |-> FALSE, hook |-> FALSE, value |-> None]
Null(n) == [Absent EXCEPT !.node = n]

At == {"idle", "emplace", "make", "name", "install", "find", "hook", "store", "notify",
       "erase", "gone", "walk", "print"}

\* An operation under way: where it is, and the node it has a reference to.
Activation ==
  [at: At, path: Path \union {None}, node: Nat, value: Value \union {None}]
Idle == [at |-> "idle", path |-> None, node |-> 0, value |-> None]
Begun(at, p, v) == [at |-> at, path |-> p, node |-> 0, value |-> v]

Free(t) == act[t] = Idle

\* What stringify() shows of a path.
Shown(p) == entry[p].value

Present(p) == entry[p].node # 0

\* The reference leads to a property, to a null pointer, or to what was erased.
Live(a) == a.path # None /\ entry[a.path].node = a.node
Good(a) == Live(a) /\ entry[a.path].made
IsNull(a) == Live(a) /\ ~entry[a.path].made
Dead(a) == a.node # 0 /\ ~Live(a)

Busy(t, p) == \E a \in {act[t], outer[t]} : a.path = p /\ a.node # 0

\* The thread is about to put an entry into the map or to take one out.
Relinks(t) ==
  \/ act[t].at = "emplace" /\ ~Present(act[t].path)
  \/ act[t].at = "erase" /\ Present(act[t].path)

\* It has put one in that is not complete yet, or has just taken it out.
Altering(t, p) == Busy(t, p) /\ act[t].path = p /\ act[t].at \in {"make", "name", "gone"}

\* The properties whose values the thread reads or writes.
Handles(t) ==
  IF act[t].at = "print" THEN copied[t]
  ELSE IF act[t].at = "store" \/ (t = Timer /\ act[t].at = "walk") THEN {act[t].node}
  ELSE {}

\* Two unlocked accesses of which u's writes: to the map, to the values of a
\* property, or to its hook.
Races(t, u) ==
  \/ act[t].at \in {"find", "walk"} /\ Relinks(u)
  \/ act[u].at = "store" /\ act[u].node \in Handles(t)
  \/ act[t].at = "hook" /\ act[u].at = "install" /\ act[t].node = act[u].node

Clash ==
  \E t, u \in Thread :
    t # u /\ (Races(t, u) \/ \E p \in Path : Busy(t, p) /\ Altering(u, p))

SetupOver == setup = "over" /\ Free(Main)

\* Between the hook and the values of a write to the control.
Storing(t) == \E a \in {act[t], outer[t]} : a.path = "control" /\ a.at = "store"

\* The control is written before its hook is installed, is deleted (and with it
\* the hook), or is written by two threads at once.
Disturbance ==
  \/ ~SetupOver /\ \E t \in Client : act[t].path = "control" /\ act[t].at # "walk"
  \/ \E t \in Thread : act[t].path = "control" /\ act[t].at \in {"erase", "gone"}
  \/ \E t, u \in Thread : t # u /\ Storing(t) /\ Storing(u)

Init ==
  /\ entry = [p \in Path |-> Absent] /\ nodes = 0
  /\ act = [t \in Thread |-> Idle] /\ outer = [t \in Thread |-> Idle]
  /\ left = [t \in Thread |-> {}] /\ copied = [t \in Thread |-> {}]
  /\ setup = "state"
  /\ commanded = "OFF" /\ seen = [p \in Path |-> None] /\ unheard = {}
  /\ disturbed = FALSE /\ clash = FALSE
  /\ restarted = FALSE
  /\ inputs = 0

-----------------------------------------------------------------------------
(* What is asked for.                                                      *)

Input == inputs < MaxInputs /\ inputs' = inputs + 1

Begin(t, a) ==
  /\ Free(t)
  /\ act' = [act EXCEPT ![t] = a]
  /\ UNCHANGED <<map, outer, outside, restarted>>

\* append(), for a POST, an MQTT message, or the scheduler's operator[].
Post(t, p, v) ==
  /\ t \in Client
  /\ Input
  /\ Begin(t, Begun("emplace", p, v))
  /\ UNCHANGED <<reading, setup>>

\* remove(), for a DELETE.
Delete(t, p) ==
  /\ t \in Web
  /\ Input
  /\ Begin(t, Begun("erase", p, None))
  /\ UNCHANGED <<reading, setup>>

\* partial() and stringify() for a GET; stringify() in place for the status
\* message and the settings file.
Read(t) ==
  /\ t \in Web \union {Timer}
  /\ Input
  /\ Begin(t, Begun("walk", None, None))
  /\ left' = [left EXCEPT ![t] = Path]
  /\ copied' = [copied EXCEPT ![t] = {}]
  /\ UNCHANGED setup

\* A hold time ends: the valve goes off and its notifier sets the state.
Expire ==
  /\ commanded = "ON"
  /\ Input
  /\ Begin(Timer, Begun("find", "state", "OFF"))
  /\ UNCHANGED <<reading, setup>>

\* setup(): first the state's entry, then the control's.
SetupNext ==
  /\ setup \in Path
  /\ Begin(Main, Begun("emplace", setup, "OFF"))
  /\ setup' = IF setup = "state" THEN "control" ELSE "over"
  /\ UNCHANGED <<reading, inputs>>

-----------------------------------------------------------------------------
(* The steps of an operation.                                              *)

Goto(t, at) == act' = [act EXCEPT ![t].at = at] /\ UNCHANGED outer

Refer(t, at, n) == act' = [act EXCEPT ![t].at = at, ![t].node = n] /\ UNCHANGED outer

\* To the hook's caller, if there is one.
Return(t) ==
  /\ act' = [act EXCEPT ![t] = outer[t]]
  /\ outer' = [outer EXCEPT ![t] = Idle]

\* create() returns: append() writes to the property, setup() installs the
\* control's hook.
Created(t, n) ==
  IF t = Main /\ act[t].path = "state"
  THEN Return(t)
  ELSE Refer(t, IF t = Main THEN "install" ELSE "hook", n)

\* create(): emplace() finds the entry, which is used as it is, or makes one of a
\* null pointer.
Emplace(t) ==
  /\ act[t].at = "emplace"
  /\ LET p == act[t].path
     IN  IF Present(p)
         THEN Created(t, entry[p].node) /\ UNCHANGED map
         ELSE /\ nodes' = nodes + 1
              /\ entry' = [entry EXCEPT ![p] = Null(nodes + 1)]
              /\ Refer(t, "make", nodes + 1)
  /\ UNCHANGED <<reading, setup, outside, restarted, inputs>>

\* The null pointer is replaced by a property: without values for append(), with
\* the given one for setup() ...
Make(t) ==
  /\ act[t].at = "make" /\ Live(act[t])
  /\ entry' = [entry EXCEPT ![act[t].path].made = TRUE,
                            ![act[t].path].value = IF t = Main THEN act[t].value ELSE @]
  /\ Goto(t, "name")
  /\ UNCHANGED <<nodes, reading, setup, outside, restarted, inputs>>

\* ... which then gets its name and its repository; nobody is notified of it.
Name(t) ==
  /\ act[t].at = "name" /\ Good(act[t])
  /\ entry' = [entry EXCEPT ![act[t].path].named = TRUE]
  /\ Created(t, act[t].node)
  /\ UNCHANGED <<nodes, reading, setup, outside, restarted, inputs>>

Install(t) ==
  /\ act[t].at = "install" /\ Good(act[t])
  /\ entry' = [entry EXCEPT ![act[t].path].hook = TRUE]
  /\ Return(t)
  /\ UNCHANGED <<nodes, reading, setup, outside, restarted, inputs>>

FindUnchecked(t) ==
  /\ act[t].at = "find"
  /\ Refer(t, "hook", entry[act[t].path].node)
  /\ UNCHANGED <<map, reading, setup, outside, restarted, inputs>>

\* set(): what is not there is not created.
Find(t) ==
  /\ act[t].at = "find"
  /\ IF Present(act[t].path)
     THEN Refer(t, "hook", entry[act[t].path].node)
     ELSE Return(t)
  /\ UNCHANGED <<map, reading, setup, outside, restarted, inputs>>

HookTwice(t) ==
  /\ act[t].at = "hook" /\ Good(act[t])
  /\ IF entry[act[t].path].hook /\ act[t].value \in Command
     THEN /\ commanded' = act[t].value
          /\ outer' = [outer EXCEPT ![t] = act[t]]
          /\ act' = [act EXCEPT ![t] = Begun("find", "state", act[t].value)]
     ELSE Goto(t, "store") /\ UNCHANGED commanded
  /\ UNCHANGED <<map, reading, setup, seen, unheard, restarted, inputs>>

HookWithOld(t) ==
  /\ act[t].at = "hook" /\ Good(act[t])
  /\ IF entry[act[t].path].hook /\ Shown(act[t].path) \in Command
     THEN /\ commanded' = Shown(act[t].path)
          /\ outer' = [outer EXCEPT ![t] = [act[t] EXCEPT !.at = "store"]]
          /\ act' = [act EXCEPT ![t] = Begun("find", "state", Shown(act[t].path))]
     ELSE Goto(t, "store") /\ UNCHANGED commanded
  /\ UNCHANGED <<map, reading, setup, seen, unheard, restarted, inputs>>

\* property::set(): first the write hook.  The control's commands the valve if it
\* is given a string, and the valve's notifier sets the state before the hook
\* returns.
Hook(t) ==
  /\ act[t].at = "hook" /\ Good(act[t])
  /\ IF entry[act[t].path].hook /\ act[t].value \in Command
     THEN /\ commanded' = act[t].value
          /\ outer' = [outer EXCEPT ![t] = [act[t] EXCEPT !.at = "store"]]
          /\ act' = [act EXCEPT ![t] = Begun("find", "state", act[t].value)]
     ELSE Goto(t, "store") /\ UNCHANGED commanded
  /\ UNCHANGED <<map, reading, setup, seen, unheard, restarted, inputs>>

\* ... then the values, whatever they are, ...
Store(t) ==
  /\ act[t].at = "store" /\ Good(act[t])
  /\ entry' = [entry EXCEPT ![act[t].path].value =
                 IF act[t].value = None THEN @ ELSE act[t].value]
  /\ Goto(t, "notify")
  /\ UNCHANGED <<nodes, reading, setup, outside, restarted, inputs>>

\* ... then the notifications, which a property without a repository leaves out.
Notify(t) ==
  LET p == act[t].path
  IN  /\ act[t].at = "gone" \/ (act[t].at = "notify" /\ Good(act[t]))
      /\ IF act[t].at = "gone" \/ entry[p].named
         THEN seen' = [seen EXCEPT ![p] = Shown(p)] /\ unheard' = unheard \ {p}
         ELSE unheard' = unheard \union {p} /\ UNCHANGED seen
      /\ Return(t)
      /\ UNCHANGED <<map, reading, setup, commanded, restarted, inputs>>

EraseSilently(t) ==
  /\ act[t].at = "erase"
  /\ entry' = [entry EXCEPT ![act[t].path] = Absent]
  /\ Return(t)
  /\ UNCHANGED <<nodes, reading, setup, outside, restarted, inputs>>

\* unlink(): the repository notifies when there was something to erase.
Erase(t) ==
  /\ act[t].at = "erase"
  /\ entry' = [entry EXCEPT ![act[t].path] = Absent]
  /\ IF Present(act[t].path)
     THEN Refer(t, "gone", entry[act[t].path].node)
     ELSE Return(t)
  /\ UNCHANGED <<nodes, reading, setup, outside, restarted, inputs>>

\* The next entry.  partial() copies the pointer, stringify() uses it.
Visit(t, p) ==
  /\ act[t].at = "walk" /\ ~Dead(act[t])
  /\ p \in left[t] /\ Present(p)
  /\ t = Timer => ~IsNull(act[t])
  /\ act' = [act EXCEPT ![t].path = p, ![t].node = entry[p].node]
  /\ left' = [left EXCEPT ![t] = @ \ {p}]
  /\ copied' = [copied EXCEPT ![t] =
                  IF t = Timer THEN @
                  ELSE @ \union {IF entry[p].made THEN entry[p].node ELSE 0}]
  /\ UNCHANGED <<map, outer, setup, outside, restarted, inputs>>

EndWalk(t) ==
  /\ act[t].at = "walk" /\ ~Dead(act[t])
  /\ t = Timer => ~IsNull(act[t])
  /\ \A p \in left[t] : ~Present(p)
  /\ act' = [act EXCEPT ![t] = IF t = Timer THEN Idle ELSE Begun("print", None, None)]
  /\ left' = [left EXCEPT ![t] = {}]
  /\ UNCHANGED <<map, outer, copied, setup, outside, restarted, inputs>>

\* stringify() of the copies, which keep their properties alive.
Stringify(t) ==
  /\ act[t].at = "print" /\ 0 \notin copied[t]
  /\ Return(t)
  /\ copied' = [copied EXCEPT ![t] = {}]
  /\ UNCHANGED <<map, left, setup, outside, restarted, inputs>>

-----------------------------------------------------------------------------
\* The entry was erased since the thread got its reference.
Stale(t) ==
  /\ act[t].at \in {"make", "name", "install", "hook", "store", "notify", "walk"}
  /\ Dead(act[t])

\* A null pointer is used.
UsesNull(t) ==
  \/ act[t].at \in {"install", "hook"} /\ IsNull(act[t])
  \/ act[t].at = "print" /\ 0 \in copied[t]
  \/ t = Timer /\ act[t].at = "walk" /\ IsNull(act[t])

\* What the operation was after is not there.
Lost(t) ==
  \/ Stale(t)
  \/ act[t].at \in {"find", "walk"} /\ \E u \in Thread \ {t} : Relinks(u)

Astray(t) ==
  /\ Lost(t)
  /\ Return(t)
  /\ left' = [left EXCEPT ![t] = {}] /\ copied' = [copied EXCEPT ![t] = {}]
  /\ UNCHANGED <<map, setup, outside, restarted, inputs>>

\* The firmware begins anew; no state or control is in the settings file.
Restart ==
  /\ \E t \in Thread : Stale(t) \/ UsesNull(t) \/ \E u \in Thread \ {t} : Races(t, u)
  /\ entry' = [p \in Path |-> Absent] /\ nodes' = 0
  /\ act' = [t \in Thread |-> Idle] /\ outer' = [t \in Thread |-> Idle]
  /\ left' = [t \in Thread |-> {}] /\ copied' = [t \in Thread |-> {}]
  /\ setup' = "state"
  /\ commanded' = "OFF" /\ seen' = [p \in Path |-> None] /\ unheard' = {}
  /\ disturbed' = FALSE
  /\ restarted' = TRUE
  /\ UNCHANGED <<clash, inputs>>

Step(t) ==
  \/ Emplace(t) \/ Make(t) \/ Name(t) \/ Install(t)
  \/ Find(t) \/ Hook(t) \/ Store(t) \/ Notify(t) \/ Erase(t)
  \/ \E p \in Path : Visit(t, p)
  \/ EndWalk(t) \/ Stringify(t) \/ Astray(t)

Ask(t) ==
  \/ \E p \in Path, v \in Posted : Post(t, p, v)
  \/ \E p \in Path : Delete(t, p)
  \/ Read(t)

Act == SetupNext \/ Expire \/ \E t \in Thread : Ask(t) \/ Step(t)

Next ==
  \/ /\ Act
     /\ disturbed' = (disturbed \/ Disturbance')
     /\ clash' = (clash \/ Clash')
  \/ Restart

Spec == Init /\ [][Next]_vars

-----------------------------------------------------------------------------
(* Properties.                                                             *)

\* Every variable keeps its type; only a write that waits for its hook has an
\* operation above it.
TypeOK ==
  /\ entry \in [Path -> Entry]
  /\ \A p \in Path : entry[p].node <= nodes /\ (entry[p].node = 0 => entry[p] = Absent)
  /\ nodes \in Nat
  /\ act \in [Thread -> Activation]
  /\ outer \in [Thread -> Activation]
  /\ \A t \in Thread : outer[t].at \in {"idle", "store"}
  /\ left \in [Thread -> SUBSET Path]
  /\ copied \in [Thread -> SUBSET Nat]
  /\ setup \in Path \union {"over"}
  /\ commanded \in Command
  /\ seen \in [Path -> Value \union {None}]
  /\ unheard \subseteq Path
  /\ disturbed \in BOOLEAN
  /\ clash \in BOOLEAN
  /\ restarted \in BOOLEAN
  /\ inputs \in 0..MaxInputs

Quiet(p) == \A t \in Thread : act[t].path # p /\ outer[t].path # p

\* A string that the control shows once nobody is at work on it is what the valve
\* was last told, whatever was posted in between that is no string, unless the
\* control was written before its hook was installed, was deleted (and with it
\* the hook), or was between the hook and the values of two writes at once.
CommandShown ==
  Quiet("control") /\ ~disturbed /\ Shown("control") \in Command
  => Shown("control") = commanded

\* Whoever looks at a path whenever it is notified has seen what is there when
\* nobody is at work on it, however posts, deletions and hooks were mixed and
\* whatever went astray.  Two things come unnotified: the value that setup()
\* creates, and a last write to a property that was not given its repository yet.
ObserverCurrent ==
  \A p \in Path :
    Quiet(p) => \/ seen[p] = Shown(p)
                \/ seen[p] = None /\ Shown(p) = "OFF"
                \/ p \in unheard

\* The firmware restarts, and a write notifies nobody, only after two threads
\* clashed: one was in the map without its lock, or had an entry, when the other
\* put an entry in or took one out, or both were at one property and one wrote.  No
\* sequence of whole operations, nor of overlapping ones on entries that stay, does.
HarmNeedsClash == restarted \/ unheard # {} => clash
=============================================================================
