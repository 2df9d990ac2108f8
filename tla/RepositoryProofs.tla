--------------------------- MODULE RepositoryProofs ---------------------------
(***************************************************************************)
(* Facts about Repository, for any threads and any number of operations:   *)
(* its variables keep their types, a subscriber has seen what is there     *)
(* unless the last write went unheard, the firmware restarts and a write   *)
(* goes unheard only after two threads clashed, and a string that the      *)
(* control shows is what the valve was told.                               *)
(***************************************************************************)
EXTENDS Repository, TLAPS

-----------------------------------------------------------------------------
(* Strengthenings.                                                         *)

Pointing == {"make", "name", "install", "hook", "store", "notify", "gone"}
Starting == {"emplace", "find", "erase"}

\* What an operation holds, by the place where it is.
Shape(a) ==
  /\ a.at = "idle" => a = Idle
  /\ a.at \in Starting => a.path \in Path /\ a.node = 0
  /\ a.at \in Pointing => a.path \in Path /\ a.node # 0
  /\ a.at = "walk" => (a.path = None <=> a.node = 0)
  /\ a.at = "print" => a.path = None /\ a.node = 0
  /\ a.at = "find" => a.path = "state"
  /\ a.at = "install" => a.path = "control"

\* Only the control's hook calls for an operation, on the state.
Nested(a, b) ==
  /\ b.at \in {"idle", "store"}
  /\ b # Idle =>
       /\ b.path = "control"
       /\ a.path = "state" /\ a.at \in {"find", "hook", "store", "notify"}

\* Who does what.
Role(t, a, b) ==
  /\ a.at = "install" => t = Main
  /\ t = Main => a.at \in {"idle", "emplace", "make", "name", "install"}
  /\ t = Main /\ a.at # "idle" => a.value = "OFF"
  /\ t = Timer => a.at # "print" /\ (a.path = "control" => a.at = "walk")
  /\ t \in {Main, Timer} => b = Idle

Fits(t, a, b) ==
  a \in Activation /\ b \in Activation /\ Shape(a) /\ Shape(b) /\ Nested(a, b) /\ Role(t, a, b)

Frames ==
  \A t \in Thread :
    Fits(t, act[t], outer[t]) /\ act[t].node <= nodes /\ outer[t].node <= nodes

Map ==
  /\ entry \in [Path -> Entry]
  /\ nodes \in Nat
  /\ \A p \in Path : entry[p].node <= nodes /\ (entry[p].node = 0 => entry[p] = Absent)
  /\ entry["state"].hook = FALSE

\* The types of the rest but for the two histories, which every step extends alike.
Rest ==
  /\ left \in [Thread -> SUBSET Path]
  /\ copied \in [Thread -> SUBSET Nat]
  /\ setup \in Path \union {"over"}
  /\ commanded \in Command
  /\ seen \in [Path -> Value \union {None}]
  /\ unheard \subseteq Path
  /\ restarted \in BOOLEAN
  /\ inputs \in 0..MaxInputs

Threads ==
  /\ act \in [Thread -> Activation] /\ outer \in [Thread -> Activation]
  /\ Frames

Shaped == Map /\ Threads /\ Rest /\ disturbed \in BOOLEAN /\ clash \in BOOLEAN

\* Who put a null pointer into the map is the only one to replace it.
Fresh ==
  /\ \A t \in Thread : act[t].at = "make" /\ Live(act[t]) => ~entry[act[t].path].made
  /\ \A t, u \in Thread :
       t # u /\ act[t].at = "make" /\ act[u].at = "make" => act[t].node # act[u].node
  /\ \A p \in Path : ~entry[p].made => entry[p].value = None

\* Somebody has yet to tell the subscriber about p.
Telling(p) ==
  \E t \in Thread :
    /\ act[t].path = p
    /\ act[t].at = "gone" \/ (act[t].at = "notify" /\ Live(act[t]))

Told ==
  \A p \in Path :
    \/ seen[p] = Shown(p)
    \/ seen[p] = None /\ Shown(p) = "OFF"
    \/ p \in unheard
    \/ Telling(p)

\* Who put a null pointer there is about to replace it by a property, and to give
\* that its repository.
BeingMade(p) ==
  \E t \in Thread :
    /\ act[t].path = p /\ act[t].node = entry[p].node
    /\ act[t].at = IF entry[p].made THEN "name" ELSE "make"

NoNullStays ==
  \A p \in Path : Present(p) /\ ~(entry[p].made /\ entry[p].named) => BeingMade(p)

\* Without a clash every reference is good for use, except that a property which
\* was just erased is still referred to by who erased it.
Sound ==
  ~clash =>
    /\ ~Clash
    /\ \A t \in Thread : act[t].at # "gone" => ~Dead(act[t])
    /\ \A t \in Thread : ~Dead(outer[t])
    /\ \A t \in Thread : 0 \notin copied[t]
    /\ ~restarted
    /\ unheard = {}

\* The control while nobody disturbs it: setup() makes it, hook and all, before
\* anyone else comes, and a string that is to be stored was told the valve.
AfterSetup == \A t \in Client : outer[t].path = "control" => SetupOver

Pointed ==
  \A t \in Thread :
    /\ act[t].path = "control" /\ act[t].node # 0 => act[t].node = entry["control"].node
    /\ outer[t].path = "control" /\ outer[t].node # 0 => outer[t].node = entry["control"].node

InSetup ==
  /\ act[Main].path = "control" => setup = "over"
  /\ act[Main].path = "state" => setup # "over"
  /\ setup # "over" => entry["control"] = Absent
  /\ act[Main].at = "emplace" /\ act[Main].path = "control" => entry["control"] = Absent

Made ==
  /\ SetupOver => entry["control"].made /\ entry["control"].hook
  /\ ~SetupOver =>
       /\ commanded = "OFF"
       /\ entry["control"].value \in {None, "OFF"}
       /\ entry["control"].made => entry["control"].value = "OFF"

\* The thread is between the hook and the values of a write of a string.
Carrying(t) ==
  \E a \in {act[t], outer[t]} : a.path = "control" /\ a.at = "store" /\ a.value \in Command

Commanding ==
  /\ \A t \in Thread :
       /\ act[t].at = "store" /\ act[t].path = "control" /\ act[t].value \in Command
          => act[t].value = commanded
       /\ outer[t].at = "store" => outer[t].value = commanded
  /\ SetupOver =>
       \/ entry["control"].value = commanded
       \/ entry["control"].value \notin Command
       \/ \E t \in Thread : Carrying(t)

Controlled == ~Disturbance /\ AfterSetup /\ Pointed /\ InSetup /\ Made /\ Commanding

Control == ~disturbed => Controlled

IInv == Shaped /\ Fresh /\ Told /\ NoNullStays /\ Sound /\ Control

-----------------------------------------------------------------------------
(* Type correctness, with the shapes.                                      *)

\* A step of one thread moves that thread's operations only.
LEMMA Moved ==
  ASSUME Threads, nodes \in Nat, NEW t \in Thread, NEW a, NEW b,
         act' = [act EXCEPT ![t] = a], outer' = [outer EXCEPT ![t] = b],
         Fits(t, a, b), nodes' \in Nat, nodes <= nodes', a.node <= nodes', b.node <= nodes'
  PROVE  Threads'
<1>1. a \in Activation /\ b \in Activation
  BY DEF Fits
<1>2. act' \in [Thread -> Activation] /\ outer' \in [Thread -> Activation]
  BY <1>1 DEF Threads
<1>3. ASSUME NEW u \in Thread
      PROVE  Fits(u, act'[u], outer'[u]) /\ act'[u].node <= nodes' /\ outer'[u].node <= nodes'
  <2>1. CASE u = t
    BY <2>1 DEF Threads
  <2>2. CASE u # t
    <3>1. act'[u] = act[u] /\ outer'[u] = outer[u]
      BY <2>2 DEF Threads
    <3>2. Fits(u, act[u], outer[u]) /\ act[u].node <= nodes /\ outer[u].node <= nodes
      BY DEF Threads, Frames
    <3>3. act[u].node \in Nat /\ outer[u].node \in Nat
      BY DEF Threads, Activation
    <3> QED
      BY <3>1, <3>2, <3>3
  <2> QED
    BY <2>1, <2>2
<1> QED
  BY <1>2, <1>3 DEF Threads, Frames

\* A new entry leaves the map well-formed, if its node is one that was numbered.
LEMMA Entered ==
  ASSUME Map, NEW p \in Path, NEW e \in Entry, entry' = [entry EXCEPT ![p] = e],
         nodes' \in Nat, nodes <= nodes', e.node <= nodes', e.node = 0 => e = Absent,
         p = "state" => e.hook = FALSE
  PROVE  Map'
  BY DEF Map, Entry, Path

\* The operation that a thread is at.
LEMMA ActOf ==
  ASSUME Threads, NEW t \in Thread
  PROVE  /\ Fits(t, act[t], outer[t]) /\ act[t].node <= nodes /\ outer[t].node <= nodes
         /\ act[t] \in [at: At, path: Path \union {None}, node: Nat, value: Value \union {None}]
         /\ outer[t] \in [at: At, path: Path \union {None}, node: Nat, value: Value \union {None}]
  BY DEF Threads, Frames, Activation

\* No operation is a well-formed operation.
LEMMA IdleFits == ASSUME NEW t \in Thread PROVE Fits(t, Idle, Idle) /\ Idle.node = 0
  BY RepositoryAssumption
  DEF Fits, Shape, Nested, Role, Idle, Activation, At, Starting, Pointing, Path

\* A write that returns from the nested operation goes on as it was.
LEMMA OuterFits ==
  ASSUME NEW t \in Thread, NEW a, NEW b, Fits(t, a, b)
  PROVE  Fits(t, b, Idle)
<1>1. CASE b = Idle
  BY <1>1, IdleFits
<1>2. CASE b # Idle
  <2>1. b.at = "store" /\ t \notin {Main, Timer}
    BY <1>2 DEF Fits, Nested, Shape, Role
  <2>2. Shape(b) /\ Shape(Idle) /\ b \in Activation /\ Idle \in Activation
    BY IdleFits DEF Fits
  <2>3. Nested(b, Idle)
    BY DEF Nested, Idle
  <2>4. Role(t, b, Idle)
    BY <2>1 DEF Role
  <2> QED
    BY <2>2, <2>3, <2>4 DEF Fits
<1> QED
  BY <1>1, <1>2

\* A thread that returns keeps the threads in shape.
LEMMA Returned ==
  ASSUME Threads, nodes \in Nat, NEW t \in Thread, Return(t), nodes' = nodes
  PROVE  Threads'
<1>1. Fits(t, act[t], outer[t]) /\ outer[t].node <= nodes
  BY ActOf
<1>2. Fits(t, outer[t], Idle) /\ Idle.node = 0
  BY <1>1, OuterFits, IdleFits
<1>3. nodes' \in Nat /\ nodes <= nodes' /\ outer[t].node <= nodes' /\ Idle.node <= nodes'
  BY <1>1, <1>2
<1>4. act' = [act EXCEPT ![t] = outer[t]] /\ outer' = [outer EXCEPT ![t] = Idle]
  BY DEF Return
<1> QED
  BY <1>2, <1>3, <1>4, Moved

\* The same, for a step that leaves the operation below alone.
LEMMA Advanced ==
  ASSUME Threads, nodes \in Nat, NEW t \in Thread, NEW a, act' = [act EXCEPT ![t] = a],
         outer' = outer, Fits(t, a, outer[t]), nodes' \in Nat, nodes <= nodes', a.node <= nodes'
  PROVE  Threads'
<1>1. outer' = [outer EXCEPT ![t] = outer[t]]
  BY DEF Threads
<1>2. outer[t].node <= nodes'
  BY ActOf
<1> QED
  BY <1>1, <1>2, Moved

\* Goto and Refer, as one update of the operation.
LEMMA Referred ==
  ASSUME Threads, NEW t \in Thread, NEW at, NEW n, Refer(t, at, n)
  PROVE  act' = [act EXCEPT ![t] = [act[t] EXCEPT !.at = at, !.node = n]] /\ outer' = outer
  BY DEF Threads, Refer

\* Goto changes where a thread is, and no more.
LEMMA Went ==
  ASSUME Threads, NEW t \in Thread, NEW at, Goto(t, at)
  PROVE  act' = [act EXCEPT ![t] = [act[t] EXCEPT !.at = at]] /\ outer' = outer
  BY DEF Threads, Goto

\* A thread that goes on at another entry keeps the threads in shape,
LEMMA Jumped ==
  ASSUME Threads, nodes \in Nat, NEW t \in Thread, NEW at, NEW n \in Nat, Refer(t, at, n),
         Fits(t, [act[t] EXCEPT !.at = at, !.node = n], outer[t]),
         nodes' \in Nat, nodes <= nodes', n <= nodes'
  PROVE  Threads'
<1> DEFINE b == [act[t] EXCEPT !.at = at, !.node = n]
<1>1. act' = [act EXCEPT ![t] = b] /\ outer' = outer
  BY Referred
<1>2. Fits(t, b, outer[t]) /\ b.node <= nodes'
  BY ActOf
<1> HIDE DEF b
<1> QED
  BY <1>1, <1>2, Advanced

\* and so does one that goes on at the same.
LEMMA Walked ==
  ASSUME Threads, nodes \in Nat, NEW t \in Thread, NEW at, Goto(t, at),
         Fits(t, [act[t] EXCEPT !.at = at], outer[t]), nodes' = nodes
  PROVE  Threads'
<1> DEFINE b == [act[t] EXCEPT !.at = at]
<1>1. act' = [act EXCEPT ![t] = b] /\ outer' = outer
  BY Went
<1>2. Fits(t, b, outer[t]) /\ b.node <= nodes'
  BY ActOf
<1>3. nodes' \in Nat /\ nodes <= nodes'
  OBVIOUS
<1> HIDE DEF b
<1> QED
  BY <1>1, <1>2, <1>3, Advanced

\* An entry that was just emplaced.
LEMMA NullEntry ==
  ASSUME NEW n \in Nat
  PROVE  Null(n) \in Entry /\ Null(n).node = n /\ Null(n).hook = FALSE
  BY DEF Null, Absent, Entry

\* A thread that has created an entry goes on in shape.
LEMMA CreatedShaped ==
  ASSUME Threads, nodes \in Nat, NEW t \in Thread, NEW n \in Nat \ {0}, Created(t, n),
         act[t].at \in {"emplace", "name"}, n <= nodes, nodes' = nodes
  PROVE  Threads'
<1> DEFINE a == act[t]
<1>0. /\ Fits(t, a, outer[t]) /\ a.path \in Path /\ a.at \in {"emplace", "name"} /\ Main # Timer
      /\ a \in [at: At, path: Path \union {None}, node: Nat, value: Value \union {None}]
  BY ActOf, RepositoryAssumption DEF Fits, Shape, Starting, Pointing
<1>a. n \in Nat /\ nodes' \in Nat /\ nodes <= nodes' /\ n <= nodes'
  OBVIOUS
<1> HIDE DEF a
<1>1. CASE Return(t)
  BY <1>1, Returned
<1>2. CASE t = Main /\ a.path # "state" /\ Refer(t, "install", n)
  <2>1. a.path = "control"
    BY <1>0, <1>2 DEF Path
  <2>2. Fits(t, [a EXCEPT !.at = "install", !.node = n], outer[t])
    BY <1>0, <1>2, <2>1 DEF Fits, Shape, Nested, Role, Starting, Pointing, Activation, At, Idle
  <2> QED
    BY <1>a, <1>2, <2>2, Jumped DEF a
<1>3. CASE t # Main /\ Refer(t, "hook", n)
  <2>1. t # Timer \/ a.path # "control"
    BY <1>0 DEF Fits, Role
  <2>2. Fits(t, [a EXCEPT !.at = "hook", !.node = n], outer[t])
    BY <1>0, <1>3, <2>1 DEF Fits, Shape, Nested, Role, Starting, Pointing, Activation, At, Idle
  <2> QED
    BY <1>a, <1>3, <2>2, Jumped DEF a
<1> QED
  BY <1>1, <1>2, <1>3 DEF Created, a

\* Every step of an operation keeps the shape.
LEMMA StepShaped ==
  ASSUME Map, Threads, Rest, NEW t \in Thread, Step(t)
  PROVE  Map' /\ Threads' /\ Rest'
<1> DEFINE a == act[t]
<1>0. /\ Fits(t, a, outer[t]) /\ a.node <= nodes /\ outer[t].node <= nodes
      /\ a.at \in At /\ a.path \in Path \union {None} /\ a.node \in Nat
      /\ a.value \in Value \union {None} /\ outer[t].node \in Nat
      /\ a = [at |-> a.at, path |-> a.path, node |-> a.node, value |-> a.value]
      /\ nodes \in Nat /\ entry \in [Path -> Entry] /\ act \in [Thread -> Activation]
      /\ outer \in [Thread -> Activation]
  BY ActOf DEF Map, Threads
<1>a. outer[t] \in [at: At, path: Path \union {None}, node: Nat, value: Value \union {None}]
  BY ActOf
<1> HIDE DEF a
<1>1. CASE Emplace(t)
  <2>1. a.at = "emplace" /\ a.path \in Path
    BY <1>1, <1>0 DEF Emplace, Fits, Shape, Starting, a
  <2>2. Rest'
    BY <1>1 DEF Emplace, reading, outside, Rest
  <2>3. CASE ~Present(a.path)
    <3>1. /\ nodes' = nodes + 1 /\ entry' = [entry EXCEPT ![a.path] = Null(nodes + 1)]
          /\ Refer(t, "make", nodes + 1)
      BY <1>1, <1>a, <2>3 DEF Emplace, a
    <3>2. Null(nodes + 1) \in Entry /\ Null(nodes + 1).node = nodes + 1 /\ Null(nodes + 1).hook = FALSE
      <4>1. nodes + 1 \in Nat
        BY <1>0
      <4> QED
        BY <4>1, NullEntry
    <3>3. Map'
      <4>1. /\ nodes' \in Nat /\ nodes <= nodes' /\ Null(nodes + 1).node <= nodes'
            /\ Null(nodes + 1).node # 0
        BY <1>0, <3>1, <3>2
      <4> QED
        BY <2>1, <3>1, <3>2, <4>1, Entered
    <3>4. Fits(t, [a EXCEPT !.at = "make", !.node = nodes + 1], outer[t])
      <4>1. nodes + 1 \in Nat /\ nodes + 1 # 0
        BY <1>0
      <4> QED
        BY <1>0, <2>1, <4>1 DEF Fits, Shape, Nested, Role, Starting, Pointing, Activation, At, Idle
    <3>5. nodes + 1 \in Nat /\ nodes' \in Nat /\ nodes <= nodes' /\ nodes + 1 <= nodes'
      BY <1>0, <3>1
    <3>6. Threads'
      BY <1>0, <3>1, <3>4, <3>5, Jumped DEF a
    <3> QED
      BY <2>2, <3>3, <3>6
  <2>4. CASE Present(a.path)
    <3>1. nodes' = nodes /\ entry' = entry /\ Created(t, entry[a.path].node)
      BY <1>1, <1>a, <2>4 DEF Emplace, map, a
    <3>2. entry[a.path].node \in Nat \ {0} /\ entry[a.path].node <= nodes
      BY <1>0, <2>1, <2>4 DEF Map, Entry, Present
    <3>3. Map'
      BY <3>1 DEF Map
    <3>4. Threads'
      BY <1>0, <2>1, <3>1, <3>2, CreatedShaped DEF a
    <3> QED
      BY <2>2, <3>3, <3>4
  <2> QED
    BY <2>3, <2>4
<1>3. CASE Make(t)
  <2>1. a.at = "make" /\ a.path \in Path /\ a.node # 0 /\ entry[a.path].node = a.node
    BY <1>3, <1>0 DEF Make, Live, Good, Fits, Shape, Pointing, a
  <2>2. Rest'
    BY <1>3 DEF Make, reading, outside, Rest
  <2> DEFINE e == [entry[a.path] EXCEPT !.made = TRUE,
                                        !.value = IF t = Main THEN a.value ELSE @]
  <2>3. nodes' = nodes /\ entry' = [entry EXCEPT ![a.path] = e]
    BY <1>3, <2>1, <1>0 DEF Make, a
  <2>4. /\ e \in Entry /\ e.node = a.node
        /\ e.hook = entry[a.path].hook
    BY <1>0, <2>1 DEF Entry
  <2>5. Map'
    BY <1>0, <2>1, <2>3, <2>4, Entered DEF Map
  <2>6. Goto(t, "name")
    BY <1>3, <1>a DEF Make, a
  <2>7. Fits(t, [a EXCEPT !.at = "name"], outer[t])
    BY <1>0, <2>1 DEF Fits, Shape, Nested, Role, Starting, Pointing, Activation, At, Idle
  <2> QED
    BY <1>0, <2>2, <2>3, <2>5, <2>6, <2>7, Walked DEF a
<1>4. CASE Name(t)
  <2>1. a.at = "name" /\ a.path \in Path /\ a.node # 0 /\ entry[a.path].node = a.node
    BY <1>4, <1>0 DEF Name, Live, Good, Fits, Shape, Pointing, a
  <2>2. Rest'
    BY <1>4 DEF Name, reading, outside, Rest
  <2> DEFINE e == [entry[a.path] EXCEPT !.named = TRUE]
  <2>3. nodes' = nodes /\ entry' = [entry EXCEPT ![a.path] = e]
    BY <1>4, <2>1, <1>0 DEF Name, a
  <2>4. /\ e \in Entry /\ e.node = a.node
        /\ e.hook = entry[a.path].hook
    BY <1>0, <2>1 DEF Entry
  <2>5. Map'
    BY <1>0, <2>1, <2>3, <2>4, Entered DEF Map
  <2>6. Created(t, a.node)
    BY <1>4 DEF Name, a
  <2>7. a.node \in Nat \ {0}
    BY <1>0, <2>1
  <2>8. Threads'
    BY <1>0, <2>1, <2>3, <2>6, <2>7, CreatedShaped DEF a
  <2> QED
    BY <2>2, <2>5, <2>8
<1>5. CASE Install(t)
  <2>1. a.at = "install" /\ a.path \in Path /\ a.node # 0 /\ entry[a.path].node = a.node
    BY <1>5, <1>0 DEF Install, Live, Good, Fits, Shape, Pointing, a
  <2>2. Rest'
    BY <1>5 DEF Install, reading, outside, Rest
  <2> DEFINE e == [entry[a.path] EXCEPT !.hook = TRUE]
  <2>3. nodes' = nodes /\ entry' = [entry EXCEPT ![a.path] = e]
    BY <1>5, <2>1, <1>0 DEF Install, a
  <2>4. /\ e \in Entry /\ e.node = a.node
        /\ a.path = "control"
    BY <1>0, <2>1 DEF Entry, Fits, Shape
  <2>5. Map'
    BY <1>0, <2>1, <2>3, <2>4, Entered DEF Map
  <2>6. Return(t)
    BY <1>5 DEF Install
  <2> QED
    BY <1>0, <2>2, <2>3, <2>5, <2>6, Returned
<1>6. CASE Find(t)
  <2>1. a.at = "find" /\ a.path \in Path
    BY <1>6, <1>0 DEF Find, Fits, Shape, Starting, a
  <2>2. Rest' /\ Map' /\ nodes' = nodes
    BY <1>6 DEF Find, map, reading, outside, Rest, Map
  <2>3. CASE Present(a.path)
    <3>1. Refer(t, "hook", entry[a.path].node)
      BY <1>6, <1>a, <2>3 DEF Find, a
    <3>2. entry[a.path].node \in Nat \ {0} /\ entry[a.path].node <= nodes
      BY <1>0, <2>1, <2>3 DEF Map, Entry, Present
    <3>3. Fits(t, [a EXCEPT !.at = "hook", !.node = entry[a.path].node], outer[t])
      BY <1>0, <2>1, <3>2 DEF Fits, Shape, Nested, Role, Starting, Pointing, Activation, At, Idle
    <3>4. Map' /\ nodes' \in Nat /\ nodes <= nodes' /\ entry[a.path].node <= nodes'
      BY <1>0, <2>2, <3>2
    <3>5. Threads'
      BY <1>0, <3>1, <3>2, <3>3, <3>4, Jumped DEF a
    <3> QED
      BY <2>2, <3>4, <3>5
  <2>4. CASE ~Present(a.path)
    BY <1>6, <1>0, <2>2, <2>4, Returned DEF Find, a
  <2> QED
    BY <2>3, <2>4
<1>7. CASE Hook(t)
  <2>1. a.at = "hook" /\ a.path \in Path /\ a.node # 0
    BY <1>7, <1>0 DEF Hook, Fits, Shape, Pointing, a
  <2>2. Rest' /\ Map' /\ nodes' = nodes
    BY <1>7, <2>1 DEF Hook, map, reading, Rest, Map, a
  <2>3. CASE entry[a.path].hook /\ a.value \in Command
    <3> DEFINE b == [a EXCEPT !.at = "store"]
               c == Begun("find", "state", a.value)
    <3>1. act' = [act EXCEPT ![t] = c] /\ outer' = [outer EXCEPT ![t] = b]
      BY <1>7, <2>3 DEF Hook, a
    <3>2. a.path = "control" /\ t \notin {Main, Timer}
      BY <1>0, <2>1, <2>3 DEF Map, Path, Fits, Role
    <3>3. Fits(t, c, b) /\ c.node = 0 /\ b.node = a.node
      BY <1>0, <2>1, <2>3, <3>2 DEF Value, Fits, Shape, Nested, Role, Starting, Pointing, Activation, At, Idle, Begun, Path
    <3>4. nodes' \in Nat /\ nodes <= nodes' /\ c.node <= nodes' /\ b.node <= nodes'
      <4> HIDE DEF b, c
      <4> QED
        BY <1>0, <2>2, <3>3
    <3> HIDE DEF b, c
    <3>5. Threads'
      BY <1>0, <3>1, <3>3, <3>4, Moved
    <3> QED
      BY <2>2, <3>5
  <2>4. CASE ~(entry[a.path].hook /\ a.value \in Command)
    <3>1. Goto(t, "store")
      BY <1>7, <1>a, <2>4 DEF Hook, a
    <3>2. Fits(t, [a EXCEPT !.at = "store"], outer[t])
      BY <1>0, <2>1 DEF Fits, Shape, Nested, Role, Starting, Pointing, Activation, At, Idle
    <3> QED
      BY <1>0, <2>2, <3>1, <3>2, Walked DEF a
  <2> QED
    BY <2>3, <2>4
<1>8. CASE Store(t)
  <2>1. a.at = "store" /\ a.path \in Path /\ a.node # 0 /\ entry[a.path].node = a.node
    BY <1>8, <1>0 DEF Store, Live, Good, Fits, Shape, Pointing, a
  <2>2. Rest'
    BY <1>8 DEF Store, reading, outside, Rest
  <2> DEFINE e == [entry[a.path] EXCEPT !.value = IF a.value = None THEN @ ELSE a.value]
  <2>3. nodes' = nodes /\ entry' = [entry EXCEPT ![a.path] = e]
    BY <1>8, <2>1, <1>0 DEF Store, a
  <2>4. /\ e \in Entry /\ e.node = a.node
        /\ e.hook = entry[a.path].hook
    BY <1>0, <2>1 DEF Entry
  <2>5. Map'
    BY <1>0, <2>1, <2>3, <2>4, Entered DEF Map
  <2>6. Goto(t, "notify")
    BY <1>8, <1>a DEF Store, a
  <2>7. Fits(t, [a EXCEPT !.at = "notify"], outer[t])
    BY <1>0, <2>1 DEF Fits, Shape, Nested, Role, Starting, Pointing, Activation, At, Idle
  <2> QED
    BY <1>0, <2>2, <2>3, <2>5, <2>6, <2>7, Walked DEF a
<1>9. CASE Notify(t)
  <2>1. a.path \in Path
    BY <1>9, <1>0 DEF Notify, Fits, Shape, Pointing, a
  <2>2. Map' /\ nodes' = nodes
    BY <1>9 DEF Notify, map, Map
  <2>3. Shown(a.path) \in Value \union {None}
    BY <1>0, <2>1 DEF Shown, Entry
  <2>4. Rest'
    <3>1. unheard' \subseteq Path /\ seen' \in [Path -> Value \union {None}]
      BY <1>9, <2>1, <2>3 DEF Notify, Rest, a
    <3> QED
      BY <1>9, <3>1 DEF Notify, reading, Rest
  <2> QED
    BY <1>9, <1>0, <2>2, <2>4, Returned DEF Notify
<1>10. CASE Erase(t)
  <2>1. a.at = "erase" /\ a.path \in Path
    BY <1>10, <1>0 DEF Erase, Fits, Shape, Starting, a
  <2>2. Rest' /\ nodes' = nodes
    BY <1>10 DEF Erase, reading, outside, Rest
  <2>3. entry' = [entry EXCEPT ![a.path] = Absent]
    BY <1>10 DEF Erase, a
  <2>4. Absent \in Entry /\ Absent.node = 0 /\ Absent.hook = FALSE
    BY DEF Absent, Entry
  <2>5. Map'
    <3>1. nodes' \in Nat /\ nodes <= nodes' /\ Absent.node <= nodes'
      BY <1>0, <2>2, <2>4
    <3> QED
      BY <2>1, <2>3, <2>4, <3>1, Entered
  <2>6. CASE Present(a.path)
    <3>1. Refer(t, "gone", entry[a.path].node)
      BY <1>10, <1>a, <2>6 DEF Erase, a
    <3>2. entry[a.path].node \in Nat \ {0} /\ entry[a.path].node <= nodes
      BY <1>0, <2>1, <2>6 DEF Map, Entry, Present
    <3>3. Fits(t, [a EXCEPT !.at = "gone", !.node = entry[a.path].node], outer[t])
      BY <1>0, <2>1, <3>2 DEF Fits, Shape, Nested, Role, Starting, Pointing, Activation, At, Idle
    <3>4. nodes' \in Nat /\ nodes <= nodes' /\ entry[a.path].node <= nodes'
      BY <1>0, <2>2, <3>2
    <3>5. Threads'
      BY <1>0, <3>1, <3>2, <3>3, <3>4, Jumped DEF a
    <3> QED
      BY <2>2, <2>5, <3>5
  <2>7. CASE ~Present(a.path)
    BY <1>10, <1>0, <2>2, <2>5, <2>7, Returned DEF Erase, a
  <2> QED
    BY <2>6, <2>7
<1>11. CASE \E p \in Path : Visit(t, p)
  <2>1. PICK p \in Path : Visit(t, p)
    BY <1>11
  <2>2. Map' /\ Rest' /\ nodes' = nodes
    <3>1. {IF entry[p].made THEN entry[p].node ELSE 0} \subseteq Nat
      BY <1>0 DEF Entry
    <3>2. copied' \in [Thread -> SUBSET Nat] /\ left' \in [Thread -> SUBSET Path]
      BY <2>1, <3>1 DEF Visit, Rest
    <3> QED
      BY <2>1, <3>2 DEF Visit, map, outside, Map, Rest
  <2> DEFINE b == [a EXCEPT !.path = p, !.node = entry[p].node]
  <2>3. act' = [act EXCEPT ![t] = b] /\ outer' = outer
    BY <2>1, <1>a DEF Visit, a
  <2>4. entry[p].node \in Nat \ {0} /\ entry[p].node <= nodes /\ a.at = "walk"
    BY <1>0, <2>1 DEF Map, Entry, Present, Visit, a
  <2>5. Fits(t, b, outer[t])
    BY <1>0, <2>4, RepositoryAssumption DEF Fits, Shape, Nested, Role, Starting, Pointing, Activation, At, Idle, Path
  <2>6. nodes' \in Nat /\ nodes <= nodes' /\ b.node <= nodes'
    BY <1>0, <2>2, <2>4
  <2> HIDE DEF b
  <2>7. Threads'
    BY <1>0, <2>3, <2>5, <2>6, Advanced
  <2> QED
    BY <2>2, <2>7
<1>12. CASE EndWalk(t)
  <2>1. Map' /\ Rest' /\ nodes' = nodes /\ a.at = "walk"
    BY <1>12 DEF EndWalk, map, outside, Map, Rest, a
  <2> DEFINE b == IF t = Timer THEN Idle ELSE Begun("print", None, None)
  <2>2. act' = [act EXCEPT ![t] = b] /\ outer' = outer
    BY <1>12, <1>a DEF EndWalk
  <2>3. outer[t] = Idle /\ t # Main
    BY <1>0, <2>1 DEF Fits, Nested, Role
  <2>4. Fits(t, b, outer[t]) /\ b.node = 0
    BY <2>3, RepositoryAssumption DEF Fits, Shape, Nested, Role, Starting, Pointing, Activation, At, Idle, Begun, Path
  <2>5. nodes' \in Nat /\ nodes <= nodes' /\ b.node <= nodes'
    BY <1>0, <2>1, <2>4
  <2> HIDE DEF b
  <2>6. Threads'
    BY <1>0, <2>2, <2>4, <2>5, Advanced
  <2> QED
    BY <2>1, <2>6
<1>13. CASE Stringify(t)
  BY <1>13, <1>0, Returned DEF Stringify, map, outside, Map, Rest
<1>14. CASE Astray(t)
  BY <1>14, <1>0, Returned DEF Astray, map, outside, Map, Rest
<1> QED
  BY <1>1, <1>3, <1>4, <1>5, <1>6, <1>7, <1>8, <1>9, <1>10, <1>11, <1>12, <1>13, <1>14 DEF Step

\* An operation that begins is well-formed.
LEMMA Started ==
  ASSUME Map, Threads, NEW t \in Thread, NEW at \in {"emplace", "find", "erase", "walk"},
         NEW p \in Path \union {None}, NEW v \in Value \union {None}, Begin(t, Begun(at, p, v)),
         p = None <=> at = "walk", at = "find" => p = "state",
         t = Main => at = "emplace" /\ v = "OFF",
         t = Timer => p # "control"
  PROVE  Map' /\ Threads'
<1> DEFINE b == Begun(at, p, v)
<1>1. act' = [act EXCEPT ![t] = b] /\ outer' = outer /\ act[t] = Idle
  BY DEF Begin, Free
<1>2. Map' /\ nodes' = nodes
  BY DEF Begin, map, Map
<1>3. Fits(t, act[t], outer[t])
  BY ActOf
<1>4. outer[t] = Idle
  BY <1>1, <1>3, RepositoryAssumption DEF Fits, Nested, Idle
<1>5. b.at = at /\ b.path = p /\ b.node = 0 /\ b.value = v /\ b \in Activation
  BY DEF Begun, Activation, At
<1> HIDE DEF b
<1>6. Shape(b)
  BY <1>5, RepositoryAssumption DEF Shape, Starting, Pointing, Path
<1>7. Nested(b, Idle) /\ Role(t, b, Idle)
  BY <1>5, RepositoryAssumption DEF Nested, Role, Idle, Thread
<1>8. Fits(t, b, outer[t])
  BY <1>4, <1>5, <1>6, <1>7, IdleFits DEF Fits
<1>9. nodes \in Nat /\ nodes' \in Nat /\ nodes <= nodes' /\ b.node <= nodes'
  BY <1>2, <1>5 DEF Map
<1>10. Threads'
  BY <1>1, <1>8, <1>9, Advanced
<1> QED
  BY <1>2, <1>10

\* The inputs stay within their bound.
LEMMA Counted == ASSUME inputs \in 0..MaxInputs, Input PROVE inputs' \in 0..MaxInputs
  BY RepositoryAssumption DEF Input

\* Whoever asks for an operation keeps the shape.
LEMMA AskShaped ==
  ASSUME Map, Threads, Rest, SetupNext \/ Expire \/ \E t \in Thread : Ask(t)
  PROVE  Map' /\ Threads' /\ Rest'
<1>1. ASSUME NEW t \in Thread, NEW p \in Path, NEW v \in Posted, Post(t, p, v)
      PROVE  Map' /\ Threads' /\ Rest'
  <2>1. /\ Begin(t, Begun("emplace", p, v)) /\ t # Main /\ t # Timer /\ p # None
        /\ v \in Value \union {None}
    BY <1>1, RepositoryAssumption DEF Post, Path
  <2>2. Map' /\ Threads'
    BY <2>1, Started
  <2>3. Rest'
    BY <1>1, Counted DEF Post, Rest, Begin, reading, outside
  <2> QED
    BY <2>2, <2>3
<1>2. ASSUME NEW t \in Thread, NEW p \in Path, Delete(t, p)
      PROVE  Map' /\ Threads' /\ Rest'
  <2>1. Begin(t, Begun("erase", p, None)) /\ t # Main /\ t # Timer /\ p # None
    BY <1>2, RepositoryAssumption DEF Delete, Path, Client
  <2>2. Map' /\ Threads'
    BY <2>1, Started
  <2>3. Rest'
    BY <1>2, Counted DEF Delete, Rest, Begin, reading, outside
  <2> QED
    BY <2>2, <2>3
<1>3. ASSUME NEW t \in Thread, Read(t)
      PROVE  Map' /\ Threads' /\ Rest'
  <2>1. Begin(t, Begun("walk", None, None)) /\ t # Main /\ None # "control"
    BY <1>3, RepositoryAssumption DEF Read, Client
  <2>2. Map' /\ Threads'
    BY <2>1, Started
  <2>3. Rest'
    <3>1. left' \in [Thread -> SUBSET Path] /\ copied' \in [Thread -> SUBSET Nat]
      BY <1>3 DEF Read, Rest
    <3>2. inputs' \in 0..MaxInputs
      BY <1>3, Counted DEF Read, Rest
    <3> QED
      BY <1>3, <3>1, <3>2 DEF Read, Rest, Begin, outside
  <2> QED
    BY <2>2, <2>3
<1>4. CASE SetupNext
  <2>1. /\ Begin(Main, Begun("emplace", setup, "OFF")) /\ setup \in Path /\ setup # None
        /\ Main \in Thread /\ Main # Timer
    BY <1>4, RepositoryAssumption DEF SetupNext, Path, Thread
  <2>2. Map' /\ Threads'
    BY <2>1, Started DEF Value, Command
  <2>3. Rest'
    BY <1>4 DEF SetupNext, Rest, Begin, reading, outside, Path
  <2> QED
    BY <2>2, <2>3
<1>5. CASE Expire
  <2>1. /\ Begin(Timer, Begun("find", "state", "OFF")) /\ "state" # None
        /\ Timer \in Thread /\ Main # Timer
    BY <1>5, RepositoryAssumption DEF Expire, Thread
  <2>2. Map' /\ Threads'
    BY <2>1, Started DEF Value, Command, Path
  <2>3. Rest'
    BY <1>5, Counted DEF Expire, Rest, Begin, reading, outside
  <2> QED
    BY <2>2, <2>3
<1> QED
  BY <1>1, <1>2, <1>3, <1>4, <1>5 DEF Ask

\* Threads without operations are in shape.
LEMMA AllIdle ==
  ASSUME nodes' \in Nat, act' = [t \in Thread |-> Idle], outer' = [t \in Thread |-> Idle]
  PROVE  Threads'
<1>1. act' \in [Thread -> Activation] /\ outer' \in [Thread -> Activation]
  BY IdleFits DEF Fits
<1>2. ASSUME NEW t \in Thread
      PROVE  Fits(t, act'[t], outer'[t]) /\ act'[t].node <= nodes' /\ outer'[t].node <= nodes'
  BY IdleFits
<1> QED
  BY <1>1, <1>2 DEF Threads, Frames

\* A restart keeps the shape.
LEMMA RestartShaped == ASSUME Shaped, Restart PROVE Shaped'
<1>1. nodes' = 0
  BY DEF Restart
<1>2. Threads'
  BY <1>1, AllIdle DEF Restart
<1>3. Map'
  BY <1>1 DEF Restart, Map, Absent, Entry, Path
<1>4. Rest'
  BY DEF Restart, Shaped, Rest, Path, Command
<1> QED
  BY <1>2, <1>3, <1>4 DEF Restart, Shaped

\* The repository starts in shape,
LEMMA InitShaped == Init => Shaped
<1> SUFFICES ASSUME Init PROVE Shaped
  OBVIOUS
<1>1. Map
  BY DEF Init, Map, Absent, Entry, Path
<1>2. Rest
  <2>1. left \in [Thread -> SUBSET Path] /\ copied \in [Thread -> SUBSET Nat]
    BY DEF Init
  <2>2. setup \in Path \union {"over"} /\ commanded \in Command
    BY DEF Init, Path, Command
  <2>5. unheard \subseteq Path
    BY DEF Init
  <2>3. seen \in [Path -> Value \union {None}]
    BY DEF Init
  <2>4. restarted \in BOOLEAN /\ inputs \in 0..MaxInputs
    <3>1. restarted = FALSE /\ inputs = 0
      BY DEF Init
    <3>2. MaxInputs \in Nat
      BY RepositoryAssumption
    <3>3. restarted \in BOOLEAN
      BY <3>1
    <3>4. inputs \in 0..MaxInputs
      BY <3>1, <3>2
    <3> QED
      BY <3>3, <3>4
  <2> QED
    BY <2>1, <2>2, <2>3, <2>4, <2>5 DEF Rest
<1>3. Threads
  <2>1. act \in [Thread -> Activation] /\ outer \in [Thread -> Activation]
    BY IdleFits DEF Fits, Init
  <2>2. ASSUME NEW t \in Thread
        PROVE  Fits(t, act[t], outer[t]) /\ act[t].node <= nodes /\ outer[t].node <= nodes
    BY IdleFits DEF Init
  <2> QED
    BY <2>1, <2>2 DEF Threads, Frames
<1> QED
  BY <1>1, <1>2, <1>3 DEF Init, Shaped

\* and every step keeps it so.
LEMMA NextShaped == ASSUME Shaped, [Next]_vars PROVE Shaped'
<1>1. CASE /\ Act
           /\ disturbed' = (disturbed \/ Disturbance') /\ clash' = (clash \/ Clash')
  <2>1. Map /\ Threads /\ Rest
    BY DEF Shaped
  <2>2. Map' /\ Threads' /\ Rest'
    BY <1>1, <2>1, StepShaped, AskShaped DEF Act
  <2>3. disturbed' \in BOOLEAN
    BY <1>1
  <2>4. clash' \in BOOLEAN
    BY <1>1
  <2> QED
    BY <2>2, <2>3, <2>4 DEF Shaped
<1>2. CASE Restart
  BY <1>2, RestartShaped
<1>3. CASE UNCHANGED vars
  <2>1. UNCHANGED map /\ UNCHANGED <<act, outer>> /\ UNCHANGED reading /\ UNCHANGED setup
        /\ UNCHANGED outside /\ UNCHANGED history /\ UNCHANGED restarted
        /\ UNCHANGED inputs
    BY <1>3 DEF vars
  <2>2. Map' /\ Threads'
    BY <2>1 DEF map, Shaped, Map, Threads, Frames
  <2>3. Rest'
    BY <2>1 DEF reading, outside, Shaped, Rest
  <2> QED
    BY <2>1, <2>2, <2>3 DEF Shaped, history
<1> QED
  BY <1>1, <1>2, <1>3 DEF Next

\* Every variable keeps its type, and only a write that waits for its hook has an
\* operation above it.
THEOREM TypeCorrect == Spec => []TypeOK
<1>1. Shaped => TypeOK
  <2> SUFFICES ASSUME Shaped PROVE TypeOK
    OBVIOUS
  <2>1. \A t \in Thread : outer[t].at \in {"idle", "store"}
    BY ActOf DEF Shaped, Fits, Nested
  <2> QED
    BY <2>1 DEF Shaped, TypeOK, Map, Threads, Rest
<1> QED
  BY <1>1, InitShaped, NextShaped, PTL DEF Spec

-----------------------------------------------------------------------------
(* What a step does to the others and to an entry.                         *)

\* A step of one thread leaves the operations of the others alone.
LEMMA Others ==
  ASSUME Threads, NEW t \in Thread, NEW u \in Thread \ {t}, Step(t)
  PROVE  act'[u] = act[u] /\ outer'[u] = outer[u]
<1>1. act \in [Thread -> Activation] /\ outer \in [Thread -> Activation]
  BY DEF Threads
<1>2. \/ act' = [act EXCEPT ![t] = act'[t]] /\ outer' = [outer EXCEPT ![t] = outer'[t]]
      \/ act'[u] = act[u] /\ outer'[u] = outer[u]
  <2>1. CASE Emplace(t) \/ Name(t)
    BY <1>1, <2>1 DEF Emplace, Name, Created, Refer, Return
  <2>2. CASE Make(t) \/ Install(t) \/ Find(t)
    BY <1>1, <2>2 DEF Make, Install, Find, Goto, Refer, Return
  <2>3. CASE Hook(t)
    BY <1>1, <2>3 DEF Hook, Goto
  <2>4. CASE Store(t) \/ Notify(t) \/ Erase(t) \/ Stringify(t) \/ Astray(t)
    BY <1>1, <2>4 DEF Store, Notify, Erase, Stringify, Astray, Goto, Refer, Return
  <2>5. CASE (\E p \in Path : Visit(t, p)) \/ EndWalk(t)
    BY <1>1, <2>5 DEF Visit, EndWalk
  <2> QED
    BY <2>1, <2>2, <2>3, <2>4, <2>5 DEF Step
<1> QED
  BY <1>1, <1>2

\* A node is put into the map, ...
Enters(t, q) ==
  /\ act[t].at = "emplace" /\ act[t].path = q
  /\ entry[q] = Absent /\ entry'[q] = Null(nodes + 1)
  /\ act'[t].at = "make" /\ act'[t].path = q /\ act'[t].node = nodes + 1
  /\ outer' = outer /\ UNCHANGED <<seen, unheard>>

\* ... gets a property, ...
Gets(t, q) ==
  /\ act[t].at = "make" /\ act[t].path = q /\ Live(act[t])
  /\ entry'[q].node = entry[q].node /\ entry'[q].made
  /\ entry'[q].value = IF t = Main THEN act[t].value ELSE entry[q].value
  /\ entry'[q].hook = entry[q].hook /\ entry'[q].named = entry[q].named
  /\ act'[t].at = "name" /\ act'[t].path = q /\ act'[t].node = act[t].node
  /\ UNCHANGED <<seen, unheard>>

\* ... its repository ...
Joins(t, q) ==
  /\ act[t].at = "name" /\ act[t].path = q /\ Good(act[t])
  /\ entry'[q].node = entry[q].node /\ entry'[q].made /\ entry'[q].named
  /\ entry'[q].value = entry[q].value /\ entry'[q].hook = entry[q].hook
  /\ UNCHANGED <<seen, unheard>>

\* ... or its hook, ...
Hooks(t, q) ==
  /\ act[t].at = "install" /\ act[t].path = q /\ Good(act[t])
  /\ entry'[q].node = entry[q].node /\ entry'[q].made /\ entry'[q].value = entry[q].value
  /\ entry'[q].hook /\ entry'[q].named = entry[q].named
  /\ UNCHANGED <<seen, unheard>>

\* ... or a value ...
Takes(t, q) ==
  /\ act[t].at = "store" /\ act[t].path = q /\ Good(act[t])
  /\ entry'[q].node = entry[q].node /\ entry'[q].made
  /\ entry'[q].value = IF act[t].value = None THEN entry[q].value ELSE act[t].value
  /\ entry'[q].hook = entry[q].hook /\ entry'[q].named = entry[q].named
  /\ act'[t].at = "notify" /\ act'[t].path = q /\ act'[t].node = act[t].node
  /\ UNCHANGED <<seen, unheard>>

\* ... or leaves.
Leaves(t, q) ==
  /\ act[t].at = "erase" /\ act[t].path = q
  /\ Present(q) /\ entry'[q] = Absent
  /\ act'[t].at = "gone" /\ act'[t].path = q /\ act'[t].node = entry[q].node
  /\ UNCHANGED <<seen, unheard>>

\* A step does one of six things to an entry, or none.
LEMMA Changes ==
  ASSUME Map, Threads, NEW t \in Thread, Step(t), NEW q \in Path
  PROVE  \/ entry'[q] = entry[q]
         \/ Enters(t, q) \/ Gets(t, q) \/ Joins(t, q) \/ Hooks(t, q) \/ Takes(t, q)
         \/ Leaves(t, q)
<1>0. /\ entry \in [Path -> Entry] /\ nodes \in Nat
      /\ act \in [Thread -> Activation] /\ outer \in [Thread -> Activation]
      /\ act[t] \in Activation /\ entry[q] \in Entry
  BY DEF Map, Threads
<1>1. CASE Emplace(t)
  <2>1. CASE act[t].path = q /\ ~Present(q)
    BY <1>0, <1>1, <2>1 DEF Emplace, Refer, Enters, Map, Present, outside, Activation
  <2>2. CASE act[t].path # q
    BY <1>0, <1>1, <2>2 DEF Emplace, map
  <2>3. CASE Present(act[t].path)
    BY <1>0, <1>1, <2>3 DEF Emplace, map
  <2> QED
    BY <2>1, <2>2, <2>3
<1>2. CASE Make(t)
  BY <1>0, <1>2 DEF Make, Goto, Gets, Entry, outside, Activation
<1>3. CASE Name(t)
  BY <1>0, <1>3 DEF Name, Joins, Good, Entry, outside
<1>4. CASE Install(t)
  BY <1>0, <1>4 DEF Install, Hooks, Good, Entry, outside
<1>5. CASE Store(t)
  BY <1>0, <1>5 DEF Store, Goto, Takes, Good, Entry, outside, Activation
<1>6. CASE Erase(t)
  <2>1. CASE act[t].path = q /\ Present(q)
    BY <1>0, <1>6, <2>1 DEF Erase, Refer, Leaves, outside, Activation
  <2>2. CASE act[t].path # q
    BY <1>0, <1>6, <2>2 DEF Erase
  <2>3. CASE act[t].path = q /\ ~Present(q)
    BY <1>0, <1>6, <2>3 DEF Erase, Map, Present
  <2> QED
    BY <2>1, <2>2, <2>3
<1>7. CASE Find(t) \/ Hook(t) \/ Notify(t) \/ (\E p \in Path : Visit(t, p)) \/ EndWalk(t)
           \/ Stringify(t) \/ Astray(t)
  BY <1>7 DEF Find, Hook, Notify, Visit, EndWalk, Stringify, Astray, map
<1> QED
  BY <1>1, <1>2, <1>3, <1>4, <1>5, <1>6, <1>7 DEF Step

\* Only who puts a node into the map comes to replace its null pointer.
LEMMA Makes ==
  ASSUME Map, Threads, NEW t \in Thread, Step(t), act'[t].at = "make"
  PROVE  act'[t].path \in Path /\ Enters(t, act'[t].path)
<1>0. /\ entry \in [Path -> Entry] /\ nodes \in Nat
      /\ act \in [Thread -> Activation] /\ outer \in [Thread -> Activation]
      /\ act[t] \in Activation /\ outer[t].at \in {"idle", "store"}
      /\ Fits(t, act[t], outer[t])
  BY ActOf DEF Map, Threads, Fits, Nested
<1>1. ~Return(t)
  BY <1>0 DEF Return
<1>2. ASSUME NEW at, Goto(t, at) PROVE at = "make"
  BY <1>0, <1>2 DEF Goto, Activation
<1>3. ASSUME NEW at, NEW n, Refer(t, at, n) PROVE at = "make"
  BY <1>0, <1>3 DEF Refer, Activation
<1>c. ASSUME NEW n PROVE ~Created(t, n)
  BY <1>1, <1>3 DEF Created
<1>4. CASE Emplace(t)
  <2>1. ~Present(act[t].path) /\ act[t].path \in Path
    BY <1>0, <1>c, <1>4 DEF Emplace, Fits, Shape, Starting
  <2>2. act'[t].path = act[t].path
    BY <1>0, <1>4, <2>1 DEF Emplace, Refer, Activation
  <2>3. entry'[act[t].path] = Null(nodes + 1) /\ entry[act[t].path] = Absent
    BY <1>0, <1>4, <2>1 DEF Emplace, Map, Present
  <2>4. act'[t].node = nodes + 1 /\ outer' = outer /\ UNCHANGED <<seen, unheard>>
    BY <1>0, <1>4, <2>1 DEF Emplace, Refer, Activation, outside
  <2>5. act[t].at = "emplace"
    BY <1>4 DEF Emplace
  <2> QED
    BY <2>1, <2>2, <2>3, <2>4, <2>5 DEF Enters
<1>5. ~Make(t) /\ ~Name(t) /\ ~Install(t)
  BY <1>1, <1>2, <1>c DEF Make, Name, Install
<1>6. ~Find(t) /\ ~Store(t) /\ ~Notify(t) /\ ~Erase(t) /\ ~Stringify(t) /\ ~Astray(t)
  BY <1>1, <1>2, <1>3 DEF Find, Store, Notify, Erase, Stringify, Astray
<1>7. ~Hook(t)
  BY <1>0, <1>2 DEF Hook, Begun
<1>8. ~EndWalk(t)
  BY <1>0 DEF EndWalk, Begun, Idle
<1>9. ASSUME NEW p \in Path PROVE ~Visit(t, p)
  BY <1>0 DEF Visit, Activation
<1> QED
  BY <1>4, <1>5, <1>6, <1>7, <1>8, <1>9 DEF Step

\* What is asked for begins with no reference.
LEMMA Asked ==
  ASSUME Threads, Rest, SetupNext \/ Expire \/ \E t \in Thread : Ask(t)
  PROVE  /\ UNCHANGED <<entry, nodes, outer, commanded, seen, unheard, restarted>>
         /\ \A t \in Thread : copied'[t] \subseteq copied[t]
         /\ \E t \in Thread :
              /\ act[t] = Idle
              /\ act'[t].at \in Starting \union {"walk"} /\ act'[t].node = 0
              /\ \A u \in Thread \ {t} : act'[u] = act[u]
<1>1. PICK t \in Thread, a \in {Begun(at, p, v) : at \in Starting \union {"walk"},
                                             p \in Path \union {None}, v \in Value \union {None}} :
        Begin(t, a)
  <2>1. CASE SetupNext
    <3>1. Begin(Main, Begun("emplace", setup, "OFF")) /\ setup \in Path /\ Main \in Thread
      BY <2>1 DEF SetupNext, Thread
    <3> QED
      BY <3>1 DEF Starting, Value, Command
  <2>2. CASE Expire
    <3>1. Begin(Timer, Begun("find", "state", "OFF")) /\ Timer \in Thread
      BY <2>2 DEF Expire, Thread
    <3> QED
      BY <3>1 DEF Starting, Value, Command, Path
  <2>3. ASSUME NEW t \in Thread, Ask(t)
        PROVE  \E a \in {Begun(at, p, v) : at \in Starting \union {"walk"},
                                        p \in Path \union {None}, v \in Value \union {None}} :
                 Begin(t, a)
    BY <2>3, RepositoryAssumption DEF Ask, Post, Delete, Read, Starting
  <2> QED
    BY <2>1, <2>2, <2>3
<1>2. a.at \in Starting \union {"walk"} /\ a.node = 0
  BY DEF Begun
<1> HIDE DEF Begun
<1>3. act[t] = Idle /\ act'[t] = a /\ \A u \in Thread \ {t} : act'[u] = act[u]
  BY <1>1 DEF Begin, Free, Threads
<1>4. UNCHANGED <<entry, nodes, outer, commanded, seen, unheard, restarted>>
  BY <1>1 DEF Begin, map, outside
<1>5. \A u \in Thread : copied'[u] \subseteq copied[u]
  BY DEF SetupNext, Expire, Ask, Post, Delete, Read, reading, Rest
<1> QED
  BY <1>2, <1>3, <1>4, <1>5

\* Only who emplaced a null pointer replaces it.
LEMMA NextFresh == ASSUME Shaped, Fresh, [Next]_vars PROVE Fresh'
<1>0. Map /\ Threads /\ Rest /\ Map' /\ Threads'
  BY NextShaped DEF Shaped
<1>1. ASSUME NEW t \in Thread, Step(t) PROVE Fresh'
  <2>0. \A u \in Thread : act[u].node <= nodes /\ act[u].node \in Nat /\ nodes \in Nat
    BY <1>0, ActOf DEF Map
  <2>1. ASSUME NEW u \in Thread, act'[u].at = "make", Live(act[u])'
        PROVE  ~entry'[act'[u].path].made
    <3>1. CASE u = t
      <4>1. entry'[act'[t].path] = Null(nodes + 1)
        BY <1>0, <1>1, <2>1, <3>1, Makes DEF Enters
      <4> QED
        BY <3>1, <4>1 DEF Null, Absent
    <3>2. CASE u # t
      <4> DEFINE q == act[u].path
      <4>1. act'[u] = act[u]
        BY <1>0, <1>1, <3>2, Others
      <4>2. q \in Path /\ act[u].node # 0 /\ entry'[q].node = act[u].node
        BY <1>0, <2>1, <4>1, ActOf DEF Fits, Shape, Pointing, Live
      <4>3. CASE entry'[q] = entry[q]
        BY <2>1, <4>1, <4>2, <4>3 DEF Fresh, Live
      <4>4. ~Enters(t, q)
        <5>1. nodes + 1 \in Nat /\ act[u].node # nodes + 1
          BY <2>0
        <5> QED
          BY <4>2, <5>1, NullEntry DEF Enters
      <4>5. ~Gets(t, q)
        BY <2>1, <3>2, <4>1, <4>2 DEF Gets, Fresh, Live
      <4>6. ~Joins(t, q) /\ ~Hooks(t, q) /\ ~Takes(t, q)
        BY <2>1, <4>1, <4>2 DEF Joins, Hooks, Takes, Good, Fresh, Live
      <4>7. ~Leaves(t, q)
        BY <4>2 DEF Leaves, Absent
      <4> QED
        BY <1>0, <1>1, <4>1, <4>2, <4>3, <4>4, <4>5, <4>6, <4>7, Changes
    <3> QED
      BY <3>1, <3>2
  <2>2. ASSUME NEW u \in Thread, NEW w \in Thread, u # w,
               act'[u].at = "make", act'[w].at = "make"
        PROVE  act'[u].node # act'[w].node
    <3>1. ASSUME NEW x \in Thread \ {t}
          PROVE  act'[x] = act[x] /\ act[x].node <= nodes /\ act[x].node \in Nat
      BY <1>0, <1>1, <2>0, Others
    <3>2. ASSUME act'[t].at = "make" PROVE act'[t].node = nodes + 1
      BY <1>0, <1>1, <3>2, Makes DEF Enters
    <3>3. CASE u # t /\ w # t
      BY <2>2, <3>1, <3>3 DEF Fresh
    <3>4. CASE u = t \/ w = t
      BY <2>0, <2>2, <3>1, <3>2, <3>4
    <3> QED
      BY <3>3, <3>4
  <2>3. ASSUME NEW p \in Path, ~entry'[p].made PROVE entry'[p].value = None
    <3>1. CASE entry'[p] = entry[p]
      BY <2>3, <3>1 DEF Fresh
    <3>2. CASE Enters(t, p) \/ Leaves(t, p)
      BY <3>2 DEF Enters, Leaves, Null, Absent
    <3> QED
      BY <1>0, <1>1, <2>3, <3>1, <3>2, Changes DEF Gets, Joins, Hooks, Takes
  <2> QED
    BY <2>1, <2>2, <2>3 DEF Fresh
<1>2. CASE SetupNext \/ Expire \/ \E t \in Thread : Ask(t)
  <2>1. UNCHANGED entry
    BY <1>0, <1>2, Asked
  <2>2. PICK t \in Thread : /\ act'[t].at \in Starting \union {"walk"}
                           /\ \A u \in Thread \ {t} : act'[u] = act[u]
    BY <1>0, <1>2, Asked
  <2>3. \A u \in Thread : act'[u].at = "make" => u # t /\ act'[u] = act[u]
    BY <2>2 DEF Starting
  <2> QED
    BY <2>1, <2>3 DEF Fresh, Live
<1>3. CASE Restart
  <2>1. entry' = [p \in Path |-> Absent] /\ act' = [t \in Thread |-> Idle]
    BY <1>3 DEF Restart
  <2> QED
    BY <2>1 DEF Fresh, Absent, Idle
<1>4. CASE UNCHANGED vars
  BY <1>4 DEF vars, map, Fresh, Live
<1> QED
  BY <1>1, <1>2, <1>3, <1>4 DEF Next, Act

-----------------------------------------------------------------------------
(* A null pointer has somebody at work who replaces it.                    *)

\* What is in the map is complete or about to be completed.
LEMMA NextNoNull == ASSUME Shaped, NoNullStays, [Next]_vars PROVE NoNullStays'
<1>0. Map /\ Threads /\ Rest /\ Map' /\ Threads'
  BY NextShaped DEF Shaped
<1>1. ASSUME NEW t \in Thread, Step(t), NEW p \in Path, Present(p)',
             ~(entry'[p].made /\ entry'[p].named)
      PROVE  BeingMade(p)'
  <2>1. CASE Enters(t, p)
    <3>1. nodes + 1 \in Nat
      BY <1>0 DEF Map
    <3>2. entry'[p].node = nodes + 1 /\ ~entry'[p].made
      BY <2>1, <3>1, NullEntry DEF Enters, Null, Absent
    <3> QED
      BY <2>1, <3>2 DEF Enters, BeingMade
  <2>2. CASE Gets(t, p)
    BY <2>2 DEF Gets, BeingMade, Live
  <2>3. CASE /\ entry'[p].node = entry[p].node /\ (entry'[p].made <=> entry[p].made)
             /\ (entry'[p].named <=> entry[p].named)
    <3>1. PICK w \in Thread :
            /\ act[w].path = p /\ act[w].node = entry[p].node
            /\ act[w].at = IF entry[p].made THEN "name" ELSE "make"
      BY <1>1, <2>3 DEF NoNullStays, BeingMade, Present
    <3>2. CASE w # t
      BY <1>0, <1>1, <2>3, <3>1, <3>2, Others DEF BeingMade
    <3>3. CASE w = t
      <4>1. Live(act[t]) /\ act[t].node # 0 /\ act[t].at \in {"make", "name"}
        BY <1>1, <2>3, <3>1, <3>3, RepositoryAssumption DEF Live, Present, Path
      <4>2. ~Astray(t)
        BY <4>1 DEF Astray, Lost, Stale, Dead
      <4>3. Make(t) \/ Name(t)
        BY <1>1, <4>1, <4>2
        DEF Step, Emplace, Install, Find, Hook, Store, Notify, Erase, Visit, EndWalk, Stringify
      <4>4. CASE Make(t)
        <5>1. entry'[p].made /\ ~entry[p].made
          BY <1>0, <3>1, <3>3, <4>4 DEF Make, Map, Entry
        <5> QED
          BY <2>3, <5>1
      <4>5. CASE Name(t)
        <5>1. entry'[p].made /\ entry'[p].named
          BY <1>0, <3>1, <3>3, <4>5 DEF Name, Good, Map, Entry
        <5> QED
          BY <1>1, <5>1
      <4> QED
        BY <4>3, <4>4, <4>5
    <3> QED
      BY <3>2, <3>3
  <2>4. CASE Hooks(t, p) \/ Takes(t, p)
    BY <2>3, <2>4 DEF Hooks, Takes, Good
  <2>5. ~Joins(t, p) /\ ~Leaves(t, p)
    BY <1>1 DEF Joins, Leaves, Absent, Present
  <2> QED
    BY <1>0, <1>1, <2>1, <2>2, <2>3, <2>4, <2>5, Changes
<1>2. CASE SetupNext \/ Expire \/ \E t \in Thread : Ask(t)
  <2>1. UNCHANGED entry
    BY <1>0, <1>2, Asked
  <2>2. PICK t \in Thread : act[t] = Idle /\ \A u \in Thread \ {t} : act'[u] = act[u]
    BY <1>0, <1>2, Asked
  <2>3. \A u \in Thread : act[u].at \in {"make", "name"} => act'[u] = act[u]
    BY <2>2 DEF Idle
  <2> QED
    BY <2>1, <2>3 DEF NoNullStays, BeingMade, Present
<1>3. CASE Restart
  <2>1. entry' = [p \in Path |-> Absent]
    BY <1>3 DEF Restart
  <2> QED
    BY <2>1 DEF NoNullStays, Absent, Present
<1>4. CASE UNCHANGED vars
  BY <1>4 DEF vars, map, NoNullStays, BeingMade, Present
<1> QED
  BY <1>1, <1>2, <1>3, <1>4 DEF Next, Act, NoNullStays

-----------------------------------------------------------------------------
(* Subscribers.                                                            *)

\* Whose value the observer has not seen will still be notified.
LEMMA NextTold == ASSUME Shaped, Fresh, Told, [Next]_vars PROVE Told'
<1>0. Map /\ Threads /\ Rest /\ Map' /\ Threads'
  BY NextShaped DEF Shaped
<1> DEFINE Tells(p) == \/ seen[p] = Shown(p) \/ (seen[p] = None /\ Shown(p) = "OFF")
                       \/ p \in unheard \/ Telling(p)
<1>1. ASSUME NEW t \in Thread, Step(t), NEW p \in Path
      PROVE  Tells(p)'
  <2>0. Tells(p)
    BY DEF Told
  <2>1. CASE Notify(t) /\ act[t].path = p
    <3>1. (seen'[p] = Shown(p) \/ p \in unheard') /\ entry' = entry
      BY <2>1, <1>0 DEF Notify, map, Shaped, Rest
    <3> QED
      BY <3>1 DEF Shown
  <2>2. CASE Notify(t) /\ act[t].path # p
    <3>1. seen'[p] = seen[p] /\ (p \in unheard => p \in unheard') /\ entry' = entry
      BY <2>2, <1>0 DEF Notify, map, Shaped, Rest
    <3>2. ASSUME Telling(p) PROVE Telling(p)'
      <4>1. PICK w \in Thread :
              act[w].path = p /\ (act[w].at = "gone" \/ (act[w].at = "notify" /\ Live(act[w])))
        BY <3>2 DEF Telling
      <4>2. act'[w] = act[w]
        BY <1>0, <1>1, <2>2, <4>1, Others
      <4> QED
        BY <3>1, <4>1, <4>2 DEF Telling, Live
    <3> QED
      BY <2>0, <3>1, <3>2 DEF Shown
  <2>3. CASE ~Notify(t)
    <3>1. seen' = seen /\ unheard' = unheard
      BY <1>1, <2>3 DEF Step, Emplace, Make, Name, Install, Find, Hook, Store, Erase,
         Visit, EndWalk, Stringify, Astray, outside
    <3>2. ASSUME Telling(p), entry'[p].node = entry[p].node PROVE Telling(p)'
      <4>1. PICK w \in Thread :
              act[w].path = p /\ (act[w].at = "gone" \/ (act[w].at = "notify" /\ Live(act[w])))
        BY <3>2 DEF Telling
      <4>2. w # t
        BY <1>1, <2>3, <4>1 DEF Step, Emplace, Make, Name, Install, Find, Hook, Store,
           Erase, Visit, EndWalk, Stringify, Astray, Lost, Stale, Dead, Notify, Live, Good
      <4>3. act'[w] = act[w]
        BY <1>0, <1>1, <4>2, Others
      <4> QED
        BY <3>2, <4>1, <4>3 DEF Telling, Live
    <3>3. CASE entry'[p] = entry[p]
      BY <2>0, <3>1, <3>2, <3>3 DEF Shown
    <3>4. CASE Enters(t, p)
      <4>1. entry'[p].value = None /\ Shown(p) = None
        BY <3>4 DEF Enters, Null, Absent, Shown
      <4>2. ASSUME Telling(p) PROVE Telling(p)'
        <5>1. PICK w \in Thread :
                act[w].path = p /\ (act[w].at = "gone" \/ (act[w].at = "notify" /\ Live(act[w])))
          BY <4>2 DEF Telling
        <5>2. act[w].at = "gone" /\ w # t
          BY <1>0, <3>4, <5>1, ActOf DEF Enters, Fits, Shape, Pointing, Live, Absent
        <5>3. act'[w] = act[w]
          BY <1>0, <1>1, <5>2, Others
        <5> QED
          BY <5>1, <5>2, <5>3 DEF Telling
      <4> QED
        BY <2>0, <3>1, <4>1, <4>2, RepositoryAssumption DEF Shown
    <3>5. CASE Gets(t, p)
      <4>1. CASE t = Main
        <5>1. entry[p].value = None
          BY <3>5 DEF Gets, Fresh
        <5>2. entry'[p].value = "OFF"
          BY <1>0, <3>5, <4>1, ActOf DEF Gets, Fits, Role
        <5> QED
          BY <2>0, <3>1, <3>2, <3>5, <5>1, <5>2, RepositoryAssumption DEF Shown, Gets
      <4>2. CASE t # Main
        BY <2>0, <3>1, <3>2, <3>5, <4>2 DEF Shown, Gets
      <4> QED
        BY <4>1, <4>2
    <3>6. CASE Hooks(t, p)
      BY <2>0, <3>1, <3>2, <3>6 DEF Shown, Hooks
    <3>9. CASE Joins(t, p)
      BY <2>0, <3>1, <3>2, <3>9 DEF Shown, Joins
    <3>7. CASE Takes(t, p)
      BY <3>7 DEF Takes, Telling, Live, Good
    <3>8. CASE Leaves(t, p)
      BY <3>8 DEF Leaves, Telling
    <3> QED
      BY <1>0, <1>1, <3>3, <3>4, <3>5, <3>6, <3>7, <3>8, <3>9, Changes
  <2> QED
    BY <2>1, <2>2, <2>3
<1>2. CASE SetupNext \/ Expire \/ \E t \in Thread : Ask(t)
  <2>1. UNCHANGED <<entry, seen, unheard>>
    BY <1>0, <1>2, Asked
  <2>2. PICK t \in Thread : act[t] = Idle /\ \A u \in Thread \ {t} : act'[u] = act[u]
    BY <1>0, <1>2, Asked
  <2>3. \A u \in Thread : act[u].at \in {"gone", "notify"} => act'[u] = act[u]
    BY <2>2 DEF Idle
  <2>4. ASSUME NEW p \in Path, Telling(p) PROVE Telling(p)'
    BY <2>1, <2>3, <2>4 DEF Telling, Live
  <2> QED
    BY <2>1, <2>4 DEF Told, Shown
<1>3. CASE Restart
  <2>1. entry' = [p \in Path |-> Absent] /\ seen' = [p \in Path |-> None]
    BY <1>3 DEF Restart
  <2> QED
    BY <2>1 DEF Told, Shown, Absent
<1>4. CASE UNCHANGED vars
  BY <1>4 DEF vars, map, outside, Told, Telling, Shown, Live
<1> QED
  BY <1>1, <1>2, <1>3, <1>4 DEF Next, Act, Told

-----------------------------------------------------------------------------
(* Restarts.                                                               *)

\* Whoever refers to what is not complete clashes with who is about to complete it.
LEMMA NullClashes ==
  ASSUME Threads, NoNullStays, NEW t \in Thread, act[t].path \in Path, act[t].node # 0,
         act[t].at \notin {"make", "name"}, Live(act[t]),
         ~(entry[act[t].path].made /\ entry[act[t].path].named)
  PROVE  Clash
<1>1. PICK w \in Thread :
        act[w].path = act[t].path /\ act[w].node = act[t].node /\ act[w].at \in {"make", "name"}
  BY DEF NoNullStays, BeingMade, Live, Present
<1>2. w # t /\ Busy(t, act[t].path) /\ Altering(w, act[t].path)
  BY <1>1 DEF Busy, Altering
<1> QED
  BY <1>2 DEF Clash

\* Without a clash nothing restarts.
LEMMA NoRestart == ASSUME Shaped, NoNullStays, Sound, ~clash PROVE ~Restart
<1>0. Map /\ Threads
  BY DEF Shaped
<1>1. ASSUME NEW t \in Thread PROVE ~Stale(t)
  BY DEF Sound, Stale
<1>2. ASSUME NEW t \in Thread, UsesNull(t) PROVE FALSE
  <2>1. ~(act[t].at = "print" /\ 0 \in copied[t])
    BY DEF Sound
  <2>2. act[t].at \in {"install", "hook", "walk"} /\ IsNull(act[t])
    BY <1>2, <2>1 DEF UsesNull
  <2>3. act[t].path \in Path /\ act[t].node # 0
    BY <1>0, <2>2, ActOf DEF Fits, Shape, Pointing, IsNull, Live
  <2>4. Clash
    BY <1>0, <2>2, <2>3, NullClashes DEF IsNull
  <2> QED
    BY <2>4 DEF Sound
<1>3. ASSUME NEW t \in Thread, NEW u \in Thread \ {t} PROVE ~Races(t, u)
  BY DEF Sound, Clash
<1> QED
  BY <1>1, <1>2, <1>3 DEF Restart

\* Without a clash every reference leads to a property.
LEMMA NextSound == ASSUME Shaped, Fresh, NoNullStays, Sound, [Next]_vars PROVE Sound'
<1> SUFFICES ASSUME ~clash' PROVE Sound'
  BY DEF Sound
<1>0. Map /\ Threads /\ Rest /\ Map' /\ Threads' /\ NoNullStays'
  BY NextShaped, NextNoNull DEF Shaped
<1>1. CASE UNCHANGED vars
  <2>1. /\ UNCHANGED <<entry, act, outer, copied, clash, restarted, unheard>>
    BY <1>1 DEF vars, map, reading, outside, history
  <2>2. Clash' <=> Clash
    BY <2>1 DEF Clash, Races, Relinks, Handles, Present, Busy, Altering
  <2> QED
    BY <2>1, <2>2 DEF Sound, Dead, Live
<1>2. CASE Act /\ clash' = (clash \/ Clash')
  <2>1. ~clash /\ ~Clash'
    BY <1>2
  <2>2. /\ \A w \in Thread : act[w].at # "gone" => ~Dead(act[w])
        /\ \A w \in Thread : ~Dead(outer[w]) /\ 0 \notin copied[w]
        /\ ~restarted /\ unheard = {} /\ ~Clash
    BY <2>1 DEF Sound
  <2>3. CASE SetupNext \/ Expire \/ \E t \in Thread : Ask(t)
    <3>1. UNCHANGED <<entry, outer, restarted, unheard>> /\ \A w \in Thread : 0 \notin copied'[w]
      BY <1>0, <2>2, <2>3, Asked
    <3>2. PICK t \in Thread : act'[t].node = 0 /\ \A u \in Thread \ {t} : act'[u] = act[u]
      BY <1>0, <2>3, Asked
    <3>3. ASSUME NEW w \in Thread, act'[w].at # "gone" PROVE ~Dead(act[w])'
      BY <2>2, <3>1, <3>2, <3>3 DEF Dead, Live
    <3>4. ASSUME NEW w \in Thread PROVE ~Dead(outer[w])'
      BY <2>2, <3>1 DEF Dead, Live
    <3> QED
      BY <2>1, <2>2, <3>1, <3>3, <3>4 DEF Sound
  <2>4. ASSUME NEW t \in Thread, Step(t) PROVE Sound'
    <3>1. ASSUME NEW u \in Thread \ {t}, NEW b \in {act[u], outer[u]}, b.at # "gone"
          PROVE  ~Dead(b)'
      <4>1. ~Dead(b) /\ act'[u] = act[u] /\ outer'[u] = outer[u]
        BY <1>0, <2>2, <2>4, <3>1, Others, ActOf DEF Fits, Nested
      <4>2. CASE b.node = 0
        BY <4>1, <4>2 DEF Dead
      <4>3. CASE b.node # 0
        <5> DEFINE q == b.path
        <5>1. q \in Path /\ entry[q].node = b.node
          BY <1>0, <4>1, <4>3, ActOf DEF Dead, Live, Fits, Activation
        <5>2. CASE entry'[q].node = entry[q].node
          BY <4>1, <5>1, <5>2 DEF Dead, Live
        <5>3. ~Enters(t, q)
          BY <4>3, <5>1 DEF Enters, Absent
        <5>4. ~Leaves(t, q)
          <6> SUFFICES ASSUME Leaves(t, q) PROVE FALSE
            OBVIOUS
          <6>1. Busy(u, q)'
            BY <3>1, <4>1, <4>3 DEF Busy
          <6>2. Altering(t, q)'
            BY <4>3, <5>1 DEF Busy, Altering, Leaves
          <6> QED
            BY <2>1, <5>1, <6>1, <6>2 DEF Clash
        <5> QED
          BY <1>0, <2>4, <5>1, <5>2, <5>3, <5>4, Changes DEF Gets, Joins, Hooks, Takes
      <4> QED
        BY <4>2, <4>3
    <3>2. ~Dead(outer[t])' /\ (act'[t].at # "gone" => ~Dead(act[t])')
      <4>0. /\ entry \in [Path -> Entry] /\ nodes \in Nat
            /\ act \in [Thread -> Activation] /\ outer \in [Thread -> Activation]
            /\ act[t] \in Activation /\ Fits(t, act[t], outer[t])
            /\ ~Dead(outer[t]) /\ (act[t].at # "gone" => ~Dead(act[t]))
        BY <1>0, <2>2, ActOf DEF Map, Threads
      <4>1. CASE Return(t)
        <5>1. act'[t] = outer[t] /\ outer'[t] = Idle
          BY <4>0, <4>1 DEF Return
        <5>2. CASE outer[t] = Idle
          BY <5>1, <5>2 DEF Dead, Idle
        <5>3. CASE outer[t] # Idle
          <6>1. act[t].at \in {"find", "hook", "store", "notify"} /\ outer[t].path = "control"
            BY <4>0, <5>3 DEF Fits, Nested
          <6>2. entry'["control"].node = entry["control"].node
            BY <1>0, <2>4, <6>1, Changes DEF Enters, Gets, Joins, Hooks, Takes, Leaves, Path
          <6> QED
            BY <4>0, <5>1, <6>1, <6>2 DEF Dead, Live, Idle
        <5> QED
          BY <5>2, <5>3
      <4>2. CASE outer'[t] = outer[t]
        <5>1. ~Dead(outer[t])'
          <6>1. CASE outer[t] = Idle
            BY <4>2, <6>1 DEF Dead, Idle
          <6>2. CASE outer[t] # Idle
            <7>1. act[t].at \in {"find", "hook", "store", "notify"} /\ outer[t].path = "control"
              BY <4>0, <6>2 DEF Fits, Nested
            <7>2. entry'["control"].node = entry["control"].node
              BY <1>0, <2>4, <7>1, Changes DEF Enters, Gets, Joins, Hooks, Takes, Leaves, Path
            <7> QED
              BY <4>0, <4>2, <7>1, <7>2 DEF Dead, Live
          <6> QED
            BY <6>1, <6>2
        <5>2. CASE act'[t].node = 0
          BY <5>1, <5>2 DEF Dead
        <5>3. CASE act'[t].path = act[t].path /\ act'[t].node = act[t].node /\ Live(act[t])
                     /\ act[t].at \in {"make", "name", "hook", "store"}
          <6> DEFINE q == act[t].path
          <6>1. q \in Path /\ entry[q].node = act[t].node
            BY <4>0, <5>3 DEF Live, Activation
          <6>2. entry'[q].node = entry[q].node
            BY <1>0, <2>4, <5>3, <6>1, Changes DEF Enters, Gets, Joins, Hooks, Takes, Leaves
          <6> QED
            BY <5>1, <5>3, <6>1, <6>2 DEF Dead, Live
        <5>4. CASE /\ act'[t].path \in Path /\ act'[t].node = entry[act'[t].path].node
                   /\ entry' = entry
          BY <5>1, <5>4, RepositoryAssumption DEF Dead, Live, Path
        <5>5. CASE act'[t].path \in Path /\ Enters(t, act'[t].path)
          <6>1. entry'[act'[t].path].node = nodes + 1
            <7>1. nodes + 1 \in Nat
              BY <4>0
            <7> QED
              BY <5>5, <7>1, NullEntry DEF Enters
          <6>2. act'[t].path # None /\ act'[t].node = nodes + 1
            BY <5>5, RepositoryAssumption DEF Enters, Path
          <6> QED
            BY <5>1, <6>1, <6>2 DEF Dead, Live
        <5>6. CASE act'[t].at = "gone"
          BY <5>1, <5>6
        <5> QED
          <6>1. CASE Emplace(t)
            <7>0. act[t].path \in Path
              BY <4>0, <6>1 DEF Emplace, Fits, Shape, Starting
            <7>1. CASE ~Present(act[t].path)
              <8>1. act'[t].at = "make"
                BY <4>0, <6>1, <7>1 DEF Emplace, Refer, Activation
              <8> QED
                BY <1>0, <2>4, <5>5, <8>1, Makes
            <7>2. CASE Present(act[t].path) /\ ~Return(t)
              <8>1. entry' = entry /\ Created(t, entry[act[t].path].node)
                BY <6>1, <7>2 DEF Emplace, map
              <8>2. act'[t].path = act[t].path /\ act'[t].node = entry[act[t].path].node
                BY <4>0, <7>2, <8>1 DEF Created, Refer, Activation
              <8> QED
                BY <5>4, <7>0, <8>1, <8>2
            <7> QED
              BY <4>1, <7>1, <7>2
          <6>2. CASE Make(t) \/ Name(t) \/ Store(t)
            <7>1. CASE ~Return(t)
              <8>1. act'[t].path = act[t].path /\ act'[t].node = act[t].node
                BY <4>0, <6>2, <7>1 DEF Make, Name, Store, Created, Goto, Refer, Activation
              <8> QED
                BY <5>3, <6>2, <8>1 DEF Make, Name, Store, Good
            <7> QED
              BY <4>1, <7>1
          <6>3. CASE Hook(t)
            <7>1. CASE ~(entry[act[t].path].hook /\ act[t].value \in Command)
              <8>1. act'[t].path = act[t].path /\ act'[t].node = act[t].node
                BY <4>0, <6>3, <7>1 DEF Hook, Goto, Activation
              <8> QED
                BY <5>3, <6>3, <8>1 DEF Hook, Good
            <7>2. CASE entry[act[t].path].hook /\ act[t].value \in Command
              BY <4>0, <5>2, <6>3, <7>2 DEF Hook, Begun
            <7> QED
              BY <7>1, <7>2
          <6>4. CASE Find(t)
            <7>1. CASE ~Return(t)
              <8>1. act'[t].path = act[t].path /\ act'[t].node = entry[act[t].path].node
                BY <4>0, <6>4, <7>1 DEF Find, Refer, Activation
              <8>2. act[t].path \in Path /\ entry' = entry
                BY <4>0, <6>4 DEF Find, Fits, Shape, Starting, map
              <8> QED
                BY <5>4, <8>1, <8>2
            <7> QED
              BY <4>1, <7>1
          <6>5. CASE Erase(t)
            <7>1. CASE ~Return(t)
              BY <4>0, <5>6, <6>5, <7>1 DEF Erase, Refer, Activation
            <7> QED
              BY <4>1, <7>1
          <6>6. ASSUME NEW p \in Path, Visit(t, p)
                PROVE  ~Dead(outer[t])' /\ (act'[t].at # "gone" => ~Dead(act[t])')
            <7>1. act'[t].path = p /\ act'[t].node = entry[p].node /\ entry' = entry
              BY <4>0, <6>6 DEF Visit, map, Activation
            <7> QED
              BY <5>4, <7>1
          <6>7. CASE EndWalk(t)
            BY <4>0, <5>2, <6>7 DEF EndWalk, Begun, Idle
          <6>8. CASE Install(t) \/ Notify(t) \/ Stringify(t) \/ Astray(t)
            BY <4>1, <6>8 DEF Install, Notify, Stringify, Astray
          <6> QED
            BY <2>4, <6>1, <6>2, <6>3, <6>4, <6>5, <6>6, <6>7, <6>8 DEF Step
      <4>3. CASE Hook(t) /\ entry[act[t].path].hook /\ act[t].value \in Command
        <5>1. /\ act'[t].node = 0 /\ entry' = entry /\ Live(act[t])
              /\ outer'[t].path = act[t].path /\ outer'[t].node = act[t].node
          BY <4>0, <4>3 DEF Hook, Begun, map, Good, Activation
        <5> QED
          BY <5>1 DEF Dead, Live
      <4>4. \/ outer' = outer \/ Return(t)
            \/ Hook(t) /\ entry[act[t].path].hook /\ act[t].value \in Command
        BY <2>4 DEF Step, Emplace, Make, Name, Created, Install, Find, Hook, Store, Notify,
           Erase, Visit, EndWalk, Stringify, Astray, Goto, Refer
      <4> QED
        BY <4>1, <4>2, <4>3, <4>4
    <3>3. ASSUME NEW w \in Thread PROVE 0 \notin copied'[w]
      <4>1. CASE copied' = copied \/ copied' = [copied EXCEPT ![t] = {}]
        BY <1>0, <2>2, <4>1 DEF Rest
      <4>2. ASSUME NEW p \in Path, Visit(t, p) PROVE 0 \notin copied'[w]
        <5>1. entry[p].made
          <6> SUFFICES ASSUME ~entry[p].made PROVE FALSE
            OBVIOUS
          <6>1. /\ Present(p) /\ Present(p)' /\ ~entry'[p].made
                /\ act'[t].path = p /\ act'[t].node = entry'[p].node /\ act'[t].at = "walk"
            BY <1>0, <4>2 DEF Visit, map, Present, Threads, Activation
          <6>2. Clash'
            <7>1. act'[t].node # 0
              BY <6>1 DEF Present
            <7>2. PICK x \in Thread : /\ act'[x].path = p /\ act'[x].node = entry'[p].node
                                     /\ act'[x].at = "make"
              BY <1>0, <6>1 DEF NoNullStays, BeingMade
            <7>3. x # t /\ Busy(t, p)' /\ Altering(x, p)'
              BY <6>1, <7>1, <7>2 DEF Busy, Altering
            <7> QED
              BY <7>3 DEF Clash
          <6> QED
            BY <2>1, <6>2
        <5>2. entry[p].node # 0
          BY <4>2 DEF Visit, Present
        <5> QED
          BY <1>0, <2>2, <4>2, <5>1, <5>2 DEF Visit, Rest
      <4> QED
        BY <2>4, <4>1, <4>2 DEF Step, Emplace, Make, Name, Install, Find, Hook, Store, Notify,
           Erase, EndWalk, Stringify, Astray, reading
    <3>4. ~restarted'
      BY <2>2, <2>4 DEF Step, Emplace, Make, Name, Install, Find, Hook, Store, Notify,
         Erase, Visit, EndWalk, Stringify, Astray
    <3>6. unheard' = {}
      <4>1. CASE Notify(t)
        <5>1. act[t].at = "notify" => act[t].path \in Path /\ act[t].node # 0
          BY <1>0, ActOf DEF Fits, Shape, Pointing
        <5>2. act[t].at = "gone" \/ entry[act[t].path].named
          BY <1>0, <2>2, <4>1, <5>1, NullClashes DEF Notify, Good
        <5> QED
          BY <2>2, <4>1, <5>2 DEF Notify
      <4>2. CASE ~Notify(t)
        BY <2>2, <2>4, <4>2 DEF Step, Emplace, Make, Name, Install, Find, Hook, Store,
           Erase, Visit, EndWalk, Stringify, Astray, outside
      <4> QED
        BY <4>1, <4>2
    <3>5. ASSUME NEW u \in Thread
          PROVE  (act'[u].at # "gone" => ~Dead(act[u])') /\ ~Dead(outer[u])'
      <4>1. CASE u = t
        BY <3>2, <4>1
      <4>2. CASE u # t
        <5>1. act'[u] = act[u] /\ outer'[u] = outer[u] /\ outer[u].at # "gone"
          BY <1>0, <2>4, <4>2, Others, ActOf DEF Fits, Nested
        <5> QED
          BY <3>1, <4>2, <5>1 DEF Dead, Live
      <4> QED
        BY <4>1, <4>2
    <3> QED
      BY <2>1, <3>3, <3>4, <3>5, <3>6 DEF Sound
  <2> QED
    BY <1>2, <2>3, <2>4 DEF Act
<1>3. CASE Restart
  <2>1. clash' = clash
    BY <1>3 DEF Restart
  <2> QED
    BY <1>3, <2>1, NoRestart
<1> QED
  BY <1>1, <1>2, <1>3 DEF Next

-----------------------------------------------------------------------------
(* The control.                                                            *)

\* How the thread that steps goes on: with the same operation, ...
Onward(t) ==
  /\ UNCHANGED commanded /\ outer'[t] = outer[t]
  /\ act[t].at # "walk"
  /\ act'[t].path = act[t].path /\ act'[t].value = act[t].value
  /\ act'[t].at \notin {"idle", "emplace", "erase", "walk"}
  /\ act'[t].at = "gone" => act[t].at = "erase"
  /\ act'[t].at = "store" =>
       act[t].at = "hook" /\ ~(entry[act[t].path].hook /\ act[t].value \in Command)
  /\ act'[t].at = "gone" \/ act'[t].node \in {act[t].node, entry'[act[t].path].node}

\* ... with the one its hook calls for, ...
Calls(t) ==
  /\ act[t].at = "hook" /\ entry[act[t].path].hook
  /\ act[t].value \in Command /\ commanded' = act[t].value
  /\ act'[t].path = "state" /\ act'[t].at = "find"
  /\ outer'[t].at = "store" /\ outer'[t].path = act[t].path
  /\ outer'[t].node = act[t].node /\ outer'[t].value = act[t].value
  /\ entry' = entry

\* ... or with the next entry, or the end, of its walk.
Walks(t) ==
  /\ UNCHANGED commanded /\ outer'[t] = outer[t]
  /\ act[t].at = "walk"
  /\ \/ act'[t].path = None /\ act'[t].at \in {"idle", "print"}
     \/ act'[t].path \in Path /\ act'[t].at = "walk" /\ act'[t].node = entry'[act'[t].path].node

\* A step returns, goes on, calls, or walks on.
LEMMA Moves ==
  ASSUME Map, Threads, NEW t \in Thread, Step(t)
  PROVE  /\ act[t].at # "idle"
         /\ (Return(t) /\ UNCHANGED commanded) \/ Onward(t) \/ Calls(t) \/ Walks(t)
<1>0. /\ entry \in [Path -> Entry] /\ nodes \in Nat
      /\ act \in [Thread -> Activation] /\ outer \in [Thread -> Activation]
      /\ act[t] \in Activation /\ Fits(t, act[t], outer[t])
  BY ActOf DEF Map, Threads
<1>1. ASSUME NEW at, NEW n, Refer(t, at, n)
      PROVE  /\ act'[t].path = act[t].path /\ act'[t].value = act[t].value
             /\ act'[t].at = at /\ act'[t].node = n /\ outer' = outer
  BY <1>0, <1>1 DEF Refer, Activation
<1>2. ASSUME NEW at, Goto(t, at)
      PROVE  /\ act'[t].path = act[t].path /\ act'[t].value = act[t].value
             /\ act'[t].at = at /\ act'[t].node = act[t].node /\ outer' = outer
  BY <1>0, <1>2 DEF Goto, Activation
<1>c. ASSUME NEW n, Created(t, n)
      PROVE  \/ Return(t)
             \/ /\ act'[t].path = act[t].path /\ act'[t].value = act[t].value
                /\ act'[t].at \in {"install", "hook"} /\ act'[t].node = n /\ outer' = outer
  BY <1>1, <1>c DEF Created
<1>3. CASE Emplace(t)
  <2>1. act[t].path \in Path /\ act[t].at = "emplace" /\ UNCHANGED commanded
    BY <1>0, <1>3 DEF Emplace, Fits, Shape, Starting, outside
  <2>2. CASE Present(act[t].path)
    <3>1. entry' = entry /\ Created(t, entry[act[t].path].node)
      BY <1>3, <2>2 DEF Emplace, map
    <3> QED
      BY <1>c, <2>1, <3>1 DEF Onward
  <2>3. CASE ~Present(act[t].path)
    <3>1. nodes + 1 \in Nat
      BY <1>0
    <3>2. entry'[act[t].path].node = nodes + 1
      BY <1>0, <1>3, <2>1, <2>3, <3>1, NullEntry DEF Emplace
    <3>3. Refer(t, "make", nodes + 1)
      BY <1>3, <2>3 DEF Emplace
    <3> QED
      BY <1>1, <2>1, <3>2, <3>3 DEF Onward
  <2> QED
    BY <2>2, <2>3
<1>4. CASE Make(t) \/ Store(t)
  BY <1>2, <1>4 DEF Make, Store, Onward, outside
<1>5. CASE Name(t)
  <2>1. Created(t, act[t].node) /\ UNCHANGED commanded /\ act[t].at = "name"
    BY <1>5 DEF Name, outside
  <2> QED
    BY <1>c, <2>1 DEF Onward
<1>13. CASE Find(t)
  BY <1>1, <1>13 DEF Find, Onward, outside, map
<1>6. CASE Hook(t)
  <2>1. CASE entry[act[t].path].hook /\ act[t].value \in Command
    BY <1>0, <1>6, <2>1 DEF Hook, Begun, Calls, Activation, map
  <2>2. CASE ~(entry[act[t].path].hook /\ act[t].value \in Command)
    BY <1>2, <1>6, <2>2 DEF Hook, Onward
  <2> QED
    BY <2>1, <2>2
<1>7. CASE Erase(t)
  BY <1>1, <1>7 DEF Erase, Onward, outside
<1>8. CASE Install(t) \/ Notify(t) \/ Stringify(t) \/ Astray(t)
  <2>1. Return(t) /\ UNCHANGED commanded
    BY <1>8 DEF Install, Notify, Stringify, Astray, outside
  <2> QED
    BY <1>8, <2>1 DEF Install, Notify, Stringify, Astray, Lost, Stale
<1>9. ASSUME NEW p \in Path, Visit(t, p) PROVE Walks(t)
  BY <1>0, <1>9 DEF Visit, Walks, outside, map, Activation
<1>10. CASE EndWalk(t)
  BY <1>0, <1>10 DEF EndWalk, Walks, outside, Begun, Idle
<1> QED
  BY <1>3, <1>4, <1>5, <1>6, <1>7, <1>8, <1>9, <1>10, <1>13 DEF Step, Walks

\* Once setup is over the control keeps its entry and its hook; until then
\* only setup makes and hooks it.
LEMMA ControlEntry ==
  ASSUME Shaped, Controlled, NEW t \in Thread, Step(t)
  PROVE  /\ SetupOver =>
              /\ t # Main
              /\ entry'["control"].made /\ entry'["control"].hook
              /\ entry'["control"].node = entry["control"].node
              /\ entry'["control"].value = entry["control"].value \/ Takes(t, "control")
         /\ ~SetupOver =>
              \/ entry'["control"] = entry["control"]
              \/ /\ t = Main /\ act[Main].path = "control"
                 /\ entry'["control"].value \in {None, "OFF"}
                 /\ entry'["control"].made => entry'["control"].value = "OFF"
                 /\ entry'["control"].node = entry["control"].node \/ entry["control"] = Absent
<1>0. Map /\ Threads /\ Fits(t, act[t], outer[t]) /\ "control" \in Path /\ act[t].at # "idle"
  BY ActOf, Moves DEF Shaped, Path
<1>1. SetupOver => t # Main
  BY <1>0 DEF SetupOver, Free, Idle
<1>2. ASSUME act[t].path = "control", act[t].at # "walk" PROVE t = Main \/ SetupOver
  BY <1>0, <1>2, RepositoryAssumption DEF Fits, Role, Thread, Controlled, Disturbance
<1>3. CASE entry'["control"] = entry["control"]
  BY <1>1, <1>3 DEF Controlled, Made
<1>4. CASE Enters(t, "control")
  <2>1. ~SetupOver /\ t = Main
    BY <1>1, <1>2, <1>4 DEF Enters, Controlled, Made, Absent
  <2>2. entry'["control"].value = None /\ ~entry'["control"].made
    BY <1>4 DEF Enters, Null, Absent
  <2> QED
    BY <1>4, <2>1, <2>2 DEF Enters
<1>5. CASE Gets(t, "control")
  <2>1. t = Main => act[t].value = "OFF"
    BY <1>0 DEF Fits, Role
  <2> QED
    BY <1>1, <1>2, <1>5, <2>1 DEF Gets, Controlled, Made
<1>9. CASE Joins(t, "control")
  <2>1. entry["control"].made
    BY <1>9 DEF Joins, Good
  <2> QED
    BY <1>1, <1>2, <1>9, <2>1 DEF Joins, Controlled, Made
<1>6. CASE Hooks(t, "control")
  <2>1. t = Main /\ ~SetupOver
    BY <1>0, <1>1, <1>6 DEF Hooks, Fits, Role
  <2>2. entry["control"].value = "OFF"
    BY <1>6, <2>1 DEF Hooks, Good, Controlled, Made
  <2> QED
    BY <1>6, <2>1, <2>2 DEF Hooks
<1>7. CASE Takes(t, "control")
  <2>1. SetupOver
    BY <1>0, <1>2, <1>7 DEF Takes, Fits, Role
  <2> QED
    BY <1>1, <1>7, <2>1 DEF Takes, Controlled, Made
<1>8. ~Leaves(t, "control")
  BY DEF Leaves, Controlled, Disturbance
<1> QED
  BY <1>0, <1>3, <1>4, <1>5, <1>6, <1>7, <1>8, <1>9, Changes

\* Every step keeps the control and the valve together,
LEMMA StepControlled ==
  ASSUME Shaped, Controlled, NEW t \in Thread, Step(t), ~Disturbance', Threads', Map'
  PROVE  Controlled'
<1>0. /\ Map /\ Threads /\ "control" \in Path /\ Main \in Thread
      /\ Fits(t, act[t], outer[t]) /\ act[t].node \in Nat
      /\ act[t].at # "idle"
      /\ (Return(t) /\ UNCHANGED commanded) \/ Onward(t) \/ Calls(t) \/ Walks(t)
  BY ActOf, Moves DEF Shaped, Path, Thread
<1>1. /\ ~Disturbance /\ AfterSetup /\ Pointed /\ InSetup /\ Made /\ Commanding
  BY DEF Controlled
<1>2. ASSUME NEW u \in Thread \ {t} PROVE act'[u] = act[u] /\ outer'[u] = outer[u]
  BY <1>0, Others
<1>3. ASSUME Return(t) PROVE act'[t] = outer[t] /\ outer'[t] = Idle
  BY <1>0, <1>3 DEF Return, Threads
<1>4. setup' = setup
  BY DEF Step, Emplace, Make, Name, Install, Find, Hook, Store, Notify,
     Erase, Visit, EndWalk, Stringify, Astray
<1>5. Client \subseteq Thread \ {Main} /\ Timer \in Thread
  BY RepositoryAssumption DEF Thread
<1>6. t # Main => SetupOver' = SetupOver
  BY <1>0, <1>2, <1>4 DEF SetupOver, Free
<1>7. SetupOver => t # Main /\ SetupOver'
  BY <1>6, ControlEntry
<1>8. ASSUME act[t].path = "control", act[t].at \in {"hook", "store", "notify"}
      PROVE  SetupOver
  BY <1>0, <1>1, <1>8 DEF Fits, Role, Thread, Disturbance
<1>9. Calls(t) => act[t].path = "control" /\ SetupOver
  BY <1>0, <1>8 DEF Calls, Fits, Shape, Pointing, Map, Path
\* A reference to the control stays one.
<1>10. ASSUME NEW n \in Nat \ {0}, n = entry["control"].node PROVE n = entry'["control"].node
  BY <1>10, ControlEntry DEF Absent
<1>11. ~SetupOver' => ~SetupOver /\ UNCHANGED commanded
  BY <1>0, <1>7, <1>9 DEF Onward, Walks
<1>13. AfterSetup'
  <2>1. ASSUME NEW u \in Client PROVE outer'[u].path = "control" => SetupOver
    <3>1. CASE u # t
      BY <1>1, <1>2, <1>5, <3>1 DEF AfterSetup
    <3>2. CASE u = t
      BY <1>0, <1>1, <1>3, <1>9, <2>1, <3>2, RepositoryAssumption
      DEF AfterSetup, Onward, Calls, Walks, Idle
    <3> QED
      BY <3>1, <3>2
  <2> QED
    BY <1>7, <2>1 DEF AfterSetup
<1>14. Pointed'
  <2>0. ASSUME NEW u \in Thread
        PROVE  act[u].node \in Nat /\ outer[u].node \in Nat
    BY <1>0, ActOf
  <2>1. ASSUME NEW u \in Thread \ {t}
        PROVE  /\ act'[u].path = "control" /\ act'[u].node # 0
                    => act'[u].node = entry'["control"].node
               /\ outer'[u].path = "control" /\ outer'[u].node # 0
                    => outer'[u].node = entry'["control"].node
    BY <1>1, <1>2, <1>10, <2>0, <2>1 DEF Pointed
  <2>2. outer'[t].path = "control" /\ outer'[t].node # 0 => outer'[t].node = entry'["control"].node
    BY <1>0, <1>1, <1>3, <1>10, <2>0 DEF Pointed, Onward, Calls, Walks, Idle
  <2>3. act'[t].path = "control" /\ act'[t].node # 0 => act'[t].node = entry'["control"].node
    <3>1. CASE Return(t)
      BY <1>1, <1>3, <1>10, <2>0, <3>1 DEF Pointed
    <3>2. CASE Onward(t)
      <4>1. act'[t].at = "gone" => act'[t].path # "control"
        BY <1>1, <3>2 DEF Onward, Disturbance
      <4> QED
        BY <1>1, <1>10, <2>0, <3>2, <4>1 DEF Pointed, Onward
    <3>3. CASE Calls(t) \/ Walks(t)
      BY <3>3, RepositoryAssumption DEF Calls, Walks
    <3> QED
      BY <1>0, <3>1, <3>2, <3>3
  <2> QED
    BY <2>1, <2>2, <2>3 DEF Pointed
<1>15. InSetup'
  <2>1. t = Main => outer[t] = Idle /\ act[t].at \in {"emplace", "make", "name", "install"}
    BY <1>0 DEF Fits, Role
  <2>2. t = Main => (act'[Main] = Idle \/ (act'[Main].path = act[Main].path /\ act'[Main].at # "emplace"))
    BY <1>0, <1>3, <2>1 DEF Onward, Calls, Walks
  <2>3. t # Main => act'[Main] = act[Main]
    BY <1>0, <1>2
  <2>4. act'[Main].path \in {"control", "state"} => act'[Main].path = act[Main].path
    BY <2>2, <2>3, RepositoryAssumption DEF Idle
  <2>5. setup # "over" => entry'["control"] = Absent
    <3>1. ASSUME setup # "over" PROVE ~SetupOver /\ act[Main].path # "control"
      BY <1>1, <3>1 DEF InSetup, SetupOver
    <3> QED
      BY <1>1, <3>1, ControlEntry DEF InSetup
  <2>6. act'[Main].at = "emplace" /\ act'[Main].path = "control" => entry'["control"] = Absent
    <3>1. ASSUME act'[Main].at = "emplace", act'[Main].path = "control"
          PROVE  t # Main /\ act[Main].at = "emplace" /\ act[Main].path = "control" /\ ~SetupOver
      BY <2>2, <2>3, <3>1 DEF Idle, SetupOver, Free
    <3> QED
      BY <1>1, <3>1, ControlEntry DEF InSetup
  <2> QED
    BY <1>1, <1>4, <2>4, <2>5, <2>6 DEF InSetup
<1>16. Made'
  <2>1. CASE SetupOver
    BY <1>7, <2>1, ControlEntry DEF Made
  <2>2. CASE ~SetupOver /\ SetupOver'
    <3>1. t = Main /\ setup = "over" /\ act'[Main] = Idle
      BY <1>4, <1>6, <2>2 DEF SetupOver, Free
    <3>2. act[Main].at \in {"emplace", "make", "name", "install"} /\ act[Main].path \in Path
      BY <1>0, <3>1 DEF Fits, Role, Shape, Starting, Pointing
    <3>3. act[Main].path = "control"
      BY <1>1, <3>1, <3>2 DEF InSetup, Path
    <3>4. act'[Main].at = "idle" /\ act \in [Thread -> Activation]
      BY <1>0, <3>1 DEF Idle, Threads
    <3>5. ~Return(Main) => FALSE
      BY <1>0, <3>1, <3>2, <3>4 DEF Onward, Calls, Walks
    <3>6. ASSUME NEW at, NEW n, Refer(Main, at, n) PROVE at = "idle"
      BY <1>0, <3>4, <3>6 DEF Refer, Activation
    <3>7. ASSUME NEW n PROVE ~Created(Main, n)
      BY <3>3, <3>6 DEF Created
    <3>8. ~Emplace(Main) /\ ~Name(Main)
      BY <3>6, <3>7 DEF Emplace, Name
    <3>9. ~Make(Main)
      BY <1>0, <3>4 DEF Make, Goto, Activation
    <3>10. ~Astray(Main)
      BY <1>1, <3>2, <3>3, RepositoryAssumption DEF Astray, Lost, Stale, Dead, Live, Pointed, Thread
    <3>13. Install(Main)
      BY <3>1, <3>2, <3>8, <3>9, <3>10 DEF Step, Find, Hook, Store, Notify, Erase, Visit, EndWalk,
         Stringify
    <3>14. entry'["control"].made /\ entry'["control"].hook
      BY <1>0, <3>3, <3>13 DEF Install, Good, Map, Entry
    <3> QED
      BY <2>2, <3>14 DEF Made
  <2>3. CASE ~SetupOver'
    BY <1>1, <1>11, <2>3, ControlEntry DEF Made
  <2> QED
    BY <2>1, <2>2, <2>3
<1>17. Commanding'
  <2>1. ASSUME NEW u \in Thread
        PROVE  /\ act'[u].at = "store" /\ act'[u].path = "control" /\ act'[u].value \in Command
                  => act'[u].value = commanded'
               /\ outer'[u].at = "store" => outer'[u].value = commanded'
    <3>1. CASE u # t /\ commanded' = commanded
      BY <1>1, <1>2, <3>1 DEF Commanding
    <3>2. CASE u # t /\ Calls(t)
      <4>1. Storing(t)'
        BY <1>9, <3>2 DEF Storing, Calls
      <4>2. ~Storing(u)'
        BY <3>2, <4>1 DEF Disturbance
      <4>3. Fits(u, act'[u], outer'[u])
        BY <1>0, <1>2, <3>2, ActOf
      <4> QED
        BY <4>2, <4>3 DEF Storing, Fits, Nested, Idle
    <3>3. CASE u = t /\ Return(t)
      BY <1>0, <1>1, <1>3, <3>3 DEF Commanding, Idle, Calls, Onward, Walks
    <3>4. CASE u = t /\ Onward(t)
      <4>1. ~(act'[t].at = "store" /\ act'[t].path = "control" /\ act'[t].value \in Command)
        BY <1>1, <1>8, <3>4 DEF Onward, Made
      <4> QED
        BY <1>1, <3>4, <4>1 DEF Onward, Commanding
    <3>5. CASE u = t /\ Calls(t)
      BY <3>5 DEF Calls
    <3>6. CASE u = t /\ Walks(t)
      BY <1>1, <3>6 DEF Walks, Commanding
    <3> QED
      BY <1>0, <3>1, <3>2, <3>3, <3>4, <3>5, <3>6 DEF Onward, Walks
  <2> DEFINE Matches == \/ entry["control"].value = commanded
                         \/ entry["control"].value \notin Command
                         \/ \E u \in Thread : Carrying(u)
  <2>2. ASSUME SetupOver' PROVE Matches'
    <3>1. CASE ~SetupOver
      <4>1. commanded' = "OFF"
        BY <1>0, <1>1, <1>9, <3>1 DEF Made, Onward, Walks
      <4>2. entry'["control"].made
        BY <1>16, <2>2 DEF Made
      <4> QED
        BY <1>1, <3>1, <4>1, <4>2, ControlEntry DEF Made
    <3>2. CASE SetupOver /\ Calls(t)
      BY <1>9, <3>2 DEF Calls, Carrying
    <3>3. CASE SetupOver /\ Takes(t, "control") /\ commanded' = commanded
      <4>1. CASE act[t].value # None
        BY <1>1, <3>3, <4>1 DEF Takes, Commanding
      <4>2. CASE act[t].value = None
        <5>1. entry'["control"].value = entry["control"].value
          BY <3>3, <4>2 DEF Takes
        <5>2. ASSUME NEW u \in Thread, Carrying(u) PROVE FALSE
          <6>1. Storing(t) /\ Storing(u)
            BY <3>3, <5>2 DEF Takes, Storing, Carrying
          <6>2. ~Carrying(t)
            BY <1>0, <3>3, <4>2, RepositoryAssumption DEF Takes, Carrying, Fits, Nested, Idle, Value
          <6>3. u # t
            BY <5>2, <6>2
          <6> QED
            BY <1>1, <6>1, <6>3 DEF Disturbance
        <5> QED
          BY <1>1, <3>3, <5>1, <5>2 DEF Commanding
      <4> QED
        BY <4>1, <4>2
    <3>4. CASE /\ SetupOver /\ entry'["control"].value = entry["control"].value
               /\ commanded' = commanded /\ ~Calls(t) /\ ~Takes(t, "control")
      <4>1. CASE entry["control"].value = commanded \/ entry["control"].value \notin Command
        BY <3>4, <4>1
      <4>2. ASSUME NEW u \in Thread, Carrying(u)
            PROVE  Carrying(u)' \/ entry'["control"].value = commanded'
        <5>1. CASE u # t
          BY <1>2, <4>2, <5>1 DEF Carrying
        <5>2. CASE u = t /\ Return(t) /\ outer[t].at = "store"
          <6>1. outer[t].path = "control"
            BY <1>0, <5>2 DEF Fits, Nested, Idle
          <6>2. act[t].path # "control"
            BY <1>0, <5>2 DEF Fits, Nested, Idle
          <6> QED
            BY <1>3, <4>2, <5>2, <6>1, <6>2 DEF Carrying
        <5>3. CASE u = t /\ ~Return(t) /\ outer[t].at = "store"
          BY <1>0, <3>4, <4>2, <5>3 DEF Carrying, Onward, Walks, Fits, Nested, Idle
        <5>4. CASE u = t /\ act[t].at = "store" /\ act[t].path = "control" /\ act[t].value \in Command
          <6>1. ~Astray(t)
            BY <1>0, <1>1, <5>4, RepositoryAssumption DEF Astray, Lost, Stale, Dead, Live, Pointed
          <6>2. Store(t)
            BY <5>4, <6>1 DEF Step, Emplace, Make, Name, Install, Find, Hook, Notify,
               Erase, Visit, EndWalk, Stringify
          <6>3. entry'["control"].value = act[t].value
            BY <1>0, <5>4, <6>2, RepositoryAssumption DEF Store, Map, Entry, Value
          <6> QED
            BY <1>1, <3>4, <5>4, <6>3 DEF Commanding
        <5> QED
          BY <4>2, <5>1, <5>2, <5>3, <5>4 DEF Carrying
      <4> QED
        BY <1>1, <3>4, <4>1, <4>2 DEF Commanding
    <3> QED
      BY <1>0, <3>1, <3>2, <3>3, <3>4, ControlEntry DEF Onward, Walks, Takes, Calls
  <2> QED
    BY <2>1, <2>2 DEF Commanding
<1> QED
  BY <1>13, <1>14, <1>15, <1>16, <1>17 DEF Controlled

\* and so does whoever asks for an operation,
LEMMA AskControlled ==
  ASSUME Shaped, Controlled, SetupNext \/ Expire \/ \E t \in Thread : Ask(t),
         ~Disturbance'
  PROVE  Controlled'
<1>0. /\ Threads /\ Rest /\ Client \subseteq Thread \ {Main, Timer} /\ Main \in Thread /\ Timer \in Thread
      /\ Main # Timer /\ "control" \in Path /\ None # "control" /\ None # "state"
  BY RepositoryAssumption DEF Shaped, Path, Thread
<1>1. /\ ~Disturbance /\ AfterSetup /\ Pointed /\ InSetup /\ Made /\ Commanding
  BY DEF Controlled
<1>2. UNCHANGED <<entry, outer, commanded>>
  BY <1>0, Asked
<1>3. PICK t \in Thread, at \in Starting \union {"walk"}, p \in Path \union {None},
           v \in Value \union {None} :
        /\ Begin(t, Begun(at, p, v))
        /\ \/ t # Main /\ setup' = setup
           \/ t = Main /\ at = "emplace" /\ p = setup /\ setup \in Path
              /\ setup' = IF setup = "state" THEN "control" ELSE "over"
  <2>1. CASE SetupNext
    <3>1. /\ Begin(Main, Begun("emplace", setup, "OFF")) /\ setup \in Path
          /\ setup' = IF setup = "state" THEN "control" ELSE "over"
      BY <2>1 DEF SetupNext
    <3> QED
      BY <1>0, <3>1 DEF Starting, Value, Command
  <2>2. CASE Expire
    <3>1. Begin(Timer, Begun("find", "state", "OFF")) /\ setup' = setup
      BY <2>2 DEF Expire, reading
    <3> QED
      BY <1>0, <3>1 DEF Starting, Value, Command, Path
  <2>3. ASSUME NEW u \in Thread, NEW q \in Path, NEW w \in Posted, Post(u, q, w)
        PROVE  /\ Begin(u, Begun("emplace", q, w)) /\ u # Main /\ setup' = setup
               /\ w \in Value \union {None}
    BY <1>0, <2>3, RepositoryAssumption DEF Post, reading
  <2>4. ASSUME NEW u \in Thread, NEW q \in Path, Delete(u, q)
        PROVE  Begin(u, Begun("erase", q, None)) /\ u # Main /\ setup' = setup
    BY <1>0, <2>4 DEF Delete, reading, Client
  <2>5. ASSUME NEW u \in Thread, Read(u)
        PROVE  Begin(u, Begun("walk", None, None)) /\ u # Main /\ setup' = setup
    BY <1>0, <2>5 DEF Read, Client
  <2>6. CASE \E u \in Thread : Ask(u)
    <3>1. PICK u \in Thread : Ask(u)
      BY <2>6
    <3>2. CASE Read(u)
      BY <1>0, <2>5, <3>2
    <3>3. ASSUME NEW q \in Path, Delete(u, q)
          PROVE  /\ Begin(u, Begun("erase", q, None)) /\ "erase" \in Starting \union {"walk"}
                 /\ u # Main /\ setup' = setup
      BY <2>4, <3>3 DEF Starting
    <3>4. ASSUME NEW q \in Path, NEW w \in Posted, Post(u, q, w)
          PROVE  /\ Begin(u, Begun("emplace", q, w)) /\ "emplace" \in Starting \union {"walk"}
                 /\ u # Main /\ setup' = setup /\ w \in Value \union {None}
      BY <2>3, <3>4 DEF Starting
    <3> QED
      BY <3>1, <3>2, <3>3, <3>4 DEF Ask
  <2> QED
    BY <2>1, <2>2, <2>6
<1>4. /\ act[t] = Idle
      /\ act'[t].at = at /\ act'[t].path = p /\ act'[t].node = 0
      /\ \A u \in Thread \ {t} : act'[u] = act[u]
  BY <1>0, <1>3 DEF Begin, Begun, Free, Threads
<1>5. at \notin {"store", "gone", "idle"}
  BY DEF Starting
<1>6. SetupOver' <=> SetupOver
  <2>1. CASE t # Main
    BY <1>0, <1>3, <1>4, <2>1 DEF SetupOver, Free
  <2>2. CASE t = Main
    <3>1. setup # "over"
      BY <1>3, <2>2 DEF Path
    <3>2. act'[Main] # Idle
      BY <1>4, <1>5, <2>2 DEF Idle
    <3> QED
      BY <3>1, <3>2 DEF SetupOver, Free
  <2> QED
    BY <2>1, <2>2
<1>8. AfterSetup'
  BY <1>0, <1>1, <1>2, <1>3, <1>4, <1>6 DEF AfterSetup
<1>9. Pointed'
  BY <1>1, <1>2, <1>4 DEF Pointed
<1>10. InSetup'
  <2>1. CASE t # Main
    BY <1>0, <1>1, <1>2, <1>3, <1>4, <2>1 DEF InSetup
  <2>2. CASE t = Main
    BY <1>0, <1>1, <1>2, <1>3, <1>4, <2>2 DEF InSetup, Path
  <2> QED
    BY <2>1, <2>2
<1>11. Made'
  BY <1>1, <1>2, <1>6 DEF Made
<1>12. Commanding'
  <2>1. ASSUME NEW u \in Thread, Carrying(u) PROVE Carrying(u)'
    BY <1>2, <1>4, <2>1 DEF Carrying, Idle
  <2>2. ASSUME NEW u \in Thread, act'[u].at = "store" PROVE act'[u] = act[u]
    BY <1>4, <1>5, <2>2
  <2> QED
    BY <1>1, <1>2, <1>6, <2>1, <2>2 DEF Commanding
<1> QED
  BY <1>8, <1>9, <1>10, <1>11, <1>12 DEF Controlled

AtStart ==
  /\ entry = [p \in Path |-> Absent]
  /\ act = [t \in Thread |-> Idle] /\ outer = [t \in Thread |-> Idle]
  /\ setup = "state" /\ commanded = "OFF"

\* and so does the start.
LEMMA BegunControlled == AtStart => Controlled
<1> SUFFICES ASSUME AtStart PROVE Controlled
  OBVIOUS
<1>0. Main \in Thread /\ Client \subseteq Thread /\ "control" \in Path /\ None # "control" /\ None # "state"
  BY RepositoryAssumption DEF Thread, Path
<1>1. act[Main] = Idle /\ \A t \in Thread : act[t] = Idle /\ outer[t] = Idle
  BY <1>0 DEF AtStart
<1>2. ~Disturbance
  BY <1>0, <1>1 DEF Disturbance, Storing, Idle
<1>3. AfterSetup /\ Pointed
  BY <1>0, <1>1 DEF AfterSetup, Pointed, Idle
<1>4. InSetup /\ Made /\ Commanding
  BY <1>0, <1>1 DEF AtStart, InSetup, Made, Commanding, SetupOver, Absent, Idle
<1> QED
  BY <1>2, <1>3, <1>4 DEF Controlled

\* While nobody disturbs the control it shows what the valve was told.
LEMMA NextControl == ASSUME Shaped, Control, [Next]_vars PROVE Control'
<1> SUFFICES ASSUME ~disturbed' PROVE Controlled'
  BY DEF Control
<1>0. Map' /\ Threads'
  BY NextShaped DEF Shaped
<1>1. CASE Act /\ disturbed' = (disturbed \/ Disturbance')
  <2>1. ~Disturbance' /\ ~disturbed
    BY <1>1
  <2>2. Controlled
    BY <2>1 DEF Control
  <2> QED
    BY <1>0, <1>1, <2>1, <2>2, StepControlled, AskControlled DEF Act
<1>2. CASE Restart
  <2>1. Controlled'
    <3>1. AtStart'
      BY <1>2 DEF Restart, AtStart
    <3> QED
      BY <3>1, BegunControlled, PTL
  <2> QED
    BY <2>1
<1>3. CASE UNCHANGED vars
  <2>1. UNCHANGED <<entry, act, outer, setup, commanded, disturbed>>
    BY <1>3 DEF vars, map, outside, history
  <2>2. Disturbance' <=> Disturbance
    BY <2>1 DEF Disturbance, Storing, SetupOver, Free
  <2> QED
    BY <2>1, <2>2 DEF Control, Controlled, AfterSetup, SetupOver, Free, Pointed, InSetup, Made,
       Commanding, Carrying
<1> QED
  BY <1>1, <1>2, <1>3 DEF Next

-----------------------------------------------------------------------------
\* The firmware starts with an empty map and nothing under way.
LEMMA InitInvariant == Init => IInv
<1> SUFFICES ASSUME Init PROVE IInv
  OBVIOUS
<1>1. Shaped
  BY InitShaped
<1>2. \A t \in Thread : act[t] = Idle /\ outer[t] = Idle
  BY DEF Init
<1>3. Fresh /\ Told /\ NoNullStays
  BY <1>2 DEF Init, Fresh, Told, NoNullStays, Idle, Absent, Shown, Present
<1>4. Sound
  BY <1>2 DEF Init, Sound, Clash, Races, Relinks, Handles, Busy, Dead, Idle
<1>5. Control
  BY BegunControlled DEF Init, AtStart, Control
<1> QED
  BY <1>1, <1>3, <1>4, <1>5 DEF IInv

\* Every step keeps the invariant.
LEMMA NextInvariant == IInv /\ [Next]_vars => IInv'
  BY NextShaped, NextFresh, NextTold, NextNoNull, NextSound, NextControl DEF IInv

\* What the three theorems that follow rest on: the shape of every operation under
\* way, and what each owes to whom.
THEOREM Invariant == Spec => []IInv
  BY InitInvariant, NextInvariant, PTL DEF Spec

\* Whoever looks at a path whenever it is notified has seen what is there, but for
\* what setup() creates and for a last write that found no repository to notify.
THEOREM ObserverIsCurrent == Spec => []ObserverCurrent
<1>1. IInv => ObserverCurrent
  BY DEF IInv, Told, ObserverCurrent, Telling, Quiet
<1> QED
  BY <1>1, Invariant, PTL

\* The firmware restarts, and a write goes unheard, only after two threads clashed.
THEOREM HarmsNeedClash == Spec => []HarmNeedsClash
<1>1. IInv => HarmNeedsClash
  BY DEF IInv, Sound, HarmNeedsClash
<1> QED
  BY <1>1, Invariant, PTL

\* A string that the control shows is what the valve was last told, unless the
\* control was written before its hook was installed, deleted, or written by two
\* threads at once.
THEOREM CommandIsShown == Spec => []CommandShown
<1>1. IInv => CommandShown
  <2> SUFFICES ASSUME IInv, Quiet("control"), ~disturbed, Shown("control") \in Command
               PROVE  Shown("control") = commanded
    BY DEF CommandShown
  <2>1. Made /\ Commanding
    BY DEF IInv, Control, Controlled
  <2>2. \A t \in Thread : ~Carrying(t)
    BY DEF Quiet, Carrying
  <2>3. Shown("control") # None
    BY RepositoryAssumption DEF Value
  <2> QED
    BY <2>1, <2>2, <2>3 DEF Made, Commanding, Shown
<1> QED
  BY <1>1, Invariant, PTL

=============================================================================
