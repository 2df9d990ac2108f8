-------------------------- MODULE StatusReportProofs --------------------------
(***************************************************************************)
(* Three facts about StatusReport, for any number of threads, changes,     *)
(* messages and outages: its variables keep their types, which bounds what *)
(* is counted; a change of the state is not forgotten, unless it races     *)
(* with a message; and to ask the last receiver first changes nobody's     *)
(* messages.                                                               *)
(***************************************************************************)
EXTENDS StatusReport, FiniteSetTheorems, TLAPS

\* Where the timer has composed a message and not yet reset the counter.
Composed == {"send", "publish", "clear"}

Waiting == \E t \in Thread : pc[t] = "lock"

Typed ==
  /\ count \in Nat
  /\ DOMAIN pc = Thread
  /\ last \in Receiver \cup {None}

\* What the counter is about to forget is in the message that was composed.
InMessage == pc["timer"] \in Composed => text = value \/ Waiting \/ raced

Inv == Typed /\ NotForgotten /\ InMessage

\* The threads that are named are threads.
LEMMA TimerIsThread == "timer" \in Thread /\ "mqtt" \in Thread /\ "wifi" \in Thread
BY DEF Thread

\* Either no thread of those that wait for the lock begins or ceases to, and
\* neither the timer's phase nor what it compares changes.
Quiet ==
  /\ UNCHANGED <<value, count, text, raced>>
  /\ Waiting => Waiting'
  /\ pc'["timer"] \in Composed => pc["timer"] \in Composed

\* A step that leaves the counter and the messages alone.
LEMMA QuietKeeps ==
  ASSUME Inv, Quiet, Typed'
  PROVE Inv'
BY DEF Inv, Quiet, NotForgotten, InMessage, Waiting

\* What the first invariant needs of types holds at first,
LEMMA TypedInit == Init => Typed
BY DEF Init, Typed, None

\* Who takes a message is one of the receivers, or nobody.
LEMMA TakerIsReceiver ==
  ASSUME Typed, NEW topic \in Topic
  PROVE Taker(topic) \in Receiver \cup {None}
BY DEF Typed, Taker, FirstTaker, Receiver

\* and after every step.
LEMMA TypedStep ==
  ASSUME Typed, [Next]_vars
  PROVE Typed'
<1>1. CASE UNCHANGED vars
  BY <1>1 DEF Typed, vars, notifier, routing
<1>2. ASSUME NEW t \in Thread, Count(t) PROVE Typed'
  BY <1>2 DEF Count, Go, Typed, routing
<1>3. ASSUME NEW topic \in Topic, Message(topic) PROVE Typed'
  BY <1>3, TakerIsReceiver DEF Message, Go, Typed, notifier
<1>4. CASE Clear
  BY <1>4 DEF Clear, Go, Typed, routing
<1>5. ASSUME NEW t \in Thread, Lock(t) PROVE Typed'
  BY <1>5 DEF Lock, Typed, routing
<1>6. CASE Main
  BY <1>6 DEF Main, AddObserver, MakeClient, Typed, notifier, routing
<1>7. CASE Tick \/ Compose \/ Send \/ Publish
  BY <1>7 DEF Tick, Compose, Send, Publish, Go, Typed, notifier, routing
<1>8. ASSUME NEW t \in Thread, Change(t) PROVE Typed'
  BY <1>8 DEF Change, Go, Typed, notifier, routing
<1>9. CASE Connected \/ Disconnected \/ Deliver \/ OtaEnds
  BY <1>9 DEF Connected, Disconnected, Deliver, OtaEnds, Typed, notifier, routing
<1>10. CASE GotIp \/ LostIp \/ Stopped
  BY <1>10 DEF GotIp, LostIp, Stopped, Go, Typed, notifier, routing
<1> QED
  BY <1>1, <1>2, <1>3, <1>4, <1>5, <1>6, <1>7, <1>8, <1>9, <1>10
  DEF Next, OnTimeout, Run, Thread

\* Every step keeps the invariant,
LEMMA InvStep ==
  ASSUME Inv, [Next]_vars
  PROVE Inv'
<1> USE TimerIsThread
<1>t. Typed /\ Typed'
  BY TypedStep DEF Inv
<1>1. CASE UNCHANGED vars
  <2>1. Quiet
    BY <1>1 DEF Quiet, Waiting, vars, notifier, ghosts
  <2> QED BY <2>1, <1>t, QuietKeeps
<1>2. ASSUME NEW t \in Thread, Count(t) PROVE Inv'
  <2>1. count' > 0
    BY <1>2, <1>t DEF Count, Typed
  <2>2. NotForgotten'
    BY <2>1 DEF NotForgotten
  <2>3. InMessage'
    <3>1. SUFFICES ASSUME pc'["timer"] \in Composed PROVE raced'
      BY DEF InMessage
    <3>2. pc["timer"] \in Composed
      BY <3>1, <1>2, <1>t DEF Count, Go, Typed, Composed
    <3> QED BY <3>2, <1>2 DEF Count, Composed
  <2> QED BY <2>2, <2>3, <1>t DEF Inv
<1>3. ASSUME NEW t \in Thread, Change(t) PROVE Inv'
  <2>1. Waiting'
    BY <1>3, <1>t DEF Change, Go, Typed, Waiting
  <2> QED BY <2>1, <1>t DEF Inv, NotForgotten, InMessage, Waiting
<1>4. ASSUME NEW topic \in Topic, Message(topic) PROVE Inv'
  <2>1. CASE UNCHANGED <<value, api, pc>>
    <3>1. Quiet
      BY <2>1, <1>4 DEF Message, Quiet, Waiting, notifier, ghosts
    <3> QED BY <3>1, <1>t, QuietKeeps
  <2>2. CASE Go("mqtt", "lock")
    <3>1. Waiting'
      BY <2>2, <1>t DEF Go, Typed, Waiting
    <3> QED BY <3>1, <1>t DEF Inv, NotForgotten, InMessage, Waiting
  <2> QED BY <2>1, <2>2, <1>4 DEF Message
<1>5. CASE Clear
  <2>1. pc["timer"] \in Composed /\ pc'["timer"] = "idle"
    BY <1>5, <1>t DEF Clear, Go, Typed, Composed
  <2>2. text = value \/ Waiting \/ raced
    BY <2>1 DEF Inv, InMessage
  <2>3. UNCHANGED <<text, value, raced>>
    BY <1>5 DEF Clear, ghosts
  <2>4. Waiting => Waiting'
    BY <1>5, <1>t DEF Clear, Go, Typed, Waiting
  <2>5. NotForgotten'
    BY <2>2, <2>3, <2>4 DEF NotForgotten, Waiting
  <2> QED BY <2>1, <2>5, <1>t DEF Inv, InMessage, Composed
<1>6. CASE Compose
  <2>1. text' = value'
    BY <1>6 DEF Compose
  <2> QED BY <2>1, <1>t DEF Inv, NotForgotten, InMessage
<1>7. CASE Tick
  <2>1. Quiet
    BY <1>7, <1>t DEF Tick, Go, Typed, Quiet, Waiting, Composed, notifier, ghosts
  <2> QED BY <2>1, <1>t, QuietKeeps
<1>8. CASE Send \/ Publish
  <2>1. Quiet
    BY <1>8, <1>t DEF Send, Publish, Go, Typed, Quiet, Waiting, Composed, notifier
  <2> QED BY <2>1, <1>t, QuietKeeps
<1>9. ASSUME NEW t \in Thread, Lock(t) PROVE Inv'
  <2>1. Quiet
    BY <1>9 DEF Lock, Quiet, Waiting, ghosts
  <2> QED BY <2>1, <1>t, QuietKeeps
<1>10. CASE Main
  <2>1. Quiet
    BY <1>10 DEF Main, AddObserver, MakeClient, Quiet, Waiting, notifier, ghosts
  <2> QED BY <2>1, <1>t, QuietKeeps
<1>11. CASE Connected \/ Disconnected \/ Deliver \/ OtaEnds \/ GotIp
  <2>1. Quiet
    BY <1>11 DEF Connected, Disconnected, Deliver, OtaEnds, GotIp, Quiet, Waiting, notifier, ghosts
  <2> QED BY <2>1, <1>t, QuietKeeps
<1>12. CASE LostIp \/ Stopped
  <2>1. Quiet
    BY <1>12, <1>t DEF LostIp, Stopped, Go, Typed, Quiet, Waiting, Composed, notifier, ghosts
  <2> QED BY <2>1, <1>t, QuietKeeps
<1> QED
  BY <1>1, <1>2, <1>3, <1>4, <1>5, <1>6, <1>7, <1>8, <1>9, <1>10, <1>11, <1>12
  DEF Next, OnTimeout, Run, Thread

\* so it always holds.
LEMMA InvAlways == Spec => []Inv
<1>1. Init => Inv
  BY TypedInit, TimerIsThread DEF Init, Inv, NotForgotten, InMessage, Composed
<1>2. Inv /\ [Next]_vars => Inv'
  BY InvStep
<1> QED BY <1>1, <1>2, PTL DEF Spec

\* A change of the device's state that no status message holds is counted, or its
\* thread is about to count it, or it came between the composing of the message
\* and the reset of the counter (StatusNotifyer::onTimeout).
THEOREM NothingIsForgotten == Spec => []NotForgotten
<1>1. Inv => NotForgotten
  BY DEF Inv
<1> QED BY <1>1, InvAlways, PTL

\* "provide message to last handler for accelerated test" (mqttWorker.cpp): the
\* receiver that is asked first takes what it would have got anyway.
THEOREM CacheIsTransparent == Spec => []CacheOnlyAccelerates
<1>1. Typed => CacheOnlyAccelerates
  <2> SUFFICES ASSUME Typed, NEW topic \in Topic PROVE Taker(topic) = FirstTaker(topic)
    BY DEF CacheOnlyAccelerates
  <2>1. CASE last = "ota"
    BY <2>1 DEF Taker, FirstTaker
  <2>2. CASE last = "config"
    <3>1. Takes("config", topic) => topic = "config" /\ ~Takes("ota", topic)
      BY DEF Takes
    <3> QED BY <2>2, <3>1 DEF Taker, FirstTaker
  <2>3. CASE last = None
    BY <2>3 DEF Taker
  <2> QED BY <2>1, <2>2, <2>3 DEF Typed, Receiver
<1>2. Inv => Typed
  BY DEF Inv
<1> QED BY <1>1, <1>2, InvAlways, PTL

-----------------------------------------------------------------------------
(* Types.  The counter needs an argument: what it counts are changes and   *)
(* the two properties that onTimeout() sets itself.                        *)

\* The threads that changed the state and did not count it yet.
Waiters == {t \in Thread : pc[t] = "lock"}

\* How many of the date and the time are counted since the last reset.
Own ==
  IF pc["timer"] = "time" THEN 1
  ELSE IF pc["timer"] \in {"compose", "send", "publish", "clear"} THEN 2 ELSE 0

TypedNumbers ==
  /\ value \in 0..MaxChanges /\ text \in 0..MaxChanges /\ reported \in 0..MaxChanges
  /\ count \in Nat
  /\ out \in Seq(0..MaxChanges)
  /\ messages \in 0..MaxMessages /\ outages \in 0..MaxOutages

TypedFlags ==
  /\ boot \in {"observer", "client", "run"} /\ online \in BOOLEAN
  /\ last \in Receiver \cup {None} /\ ota \in {"never", "live", "ended"}
  /\ raced \in BOOLEAN /\ dropped \in BOOLEAN

TypedThreads ==
  /\ lock \in Thread \cup {"free"} /\ api \in BOOLEAN
  /\ client \in [made : BOOLEAN, runs : BOOLEAN, up : BOOLEAN, flag : BOOLEAN]
  /\ pc \in [Thread -> {"idle", "lock", "date", "time", "compose", "send",
                        "publish", "clear", "stop"}]
  /\ \A t \in Thread \ {"timer"} : pc[t] \in {"idle", "lock", "stop"}

Counted ==
  /\ IsFiniteSet(Waiters)
  /\ Cardinality(Waiters) <= value
  /\ count + Cardinality(Waiters) <= value + Own

TypeInv == TypedNumbers /\ TypedFlags /\ TypedThreads /\ Counted

\* What StatusAssumption says of the bounds.
LEMMA Bounds == MaxChanges \in Nat /\ MaxMessages \in Nat /\ MaxOutages \in Nat
BY StatusAssumption

\* A thread begins to wait for the counter, has counted, or moves elsewhere.
LEMMA WaitersMove ==
  ASSUME TypedThreads, IsFiniteSet(Waiters), NEW t \in Thread, NEW where, Go(t, where)
  PROVE  /\ IsFiniteSet(Waiters') /\ Cardinality(Waiters) \in Nat
         /\ Cardinality(Waiters') =
              IF pc[t] = "lock" /\ where # "lock" THEN Cardinality(Waiters) - 1
              ELSE IF pc[t] # "lock" /\ where = "lock" THEN Cardinality(Waiters) + 1
              ELSE Cardinality(Waiters)
<1>1. /\ \A u \in Thread \ {t} : pc'[u] = pc[u]
      /\ pc'[t] = where
  BY DEF Go, TypedThreads
<1>2. CASE pc[t] = "lock" /\ where # "lock"
  <2>1. Waiters' = Waiters \ {t} /\ t \in Waiters
    BY <1>1, <1>2, Zenon DEF Waiters
  <2> QED
    BY <1>2, <2>1, FS_RemoveElement, FS_CardinalityType
<1>3. CASE pc[t] # "lock" /\ where = "lock"
  <2>1. \A u \in Thread : pc'[u] = "lock" <=> pc[u] = "lock" \/ u = t
    BY <1>1, <1>3
  <2>2. Waiters' = Waiters \cup {t} /\ t \notin Waiters
    BY <1>3, <2>1, Zenon DEF Waiters
  <2> QED
    BY <1>3, <2>2, FS_AddElement, FS_CardinalityType
<1>4. CASE (pc[t] = "lock") = (where = "lock")
  <2>1. Waiters' = Waiters
    BY <1>1, <1>4, Zenon DEF Waiters
  <2> QED
    BY <1>4, <2>1, FS_CardinalityType
<1> QED
  BY <1>2, <1>3, <1>4

\* The variables start well-typed.
LEMMA TypeInvInit == Init => TypeInv
<1> SUFFICES ASSUME Init
             PROVE  TypeInv
  OBVIOUS
<1>1. <<>> \in Seq(0..MaxChanges)
  OBVIOUS
<1>2. TypedNumbers
  BY <1>1, Bounds DEF Init, TypedNumbers
<1>3. TypedFlags
  BY DEF Init, TypedFlags
<1>4. TypedThreads
  BY DEF Init, TypedThreads
<1>5. Waiters = {} /\ Own = 0
  <2>1. Waiters = {}
    BY Zenon DEF Init, Waiters
  <2> QED
    BY <2>1, TimerIsThread DEF Init, Own
<1>6. Counted
  BY <1>5, FS_EmptySet DEF Init, Counted
<1> QED
  BY <1>2, <1>3, <1>4, <1>6 DEF TypeInv

\* The numbers keep their types,
LEMMA TypedNumbersStep == TypeInv /\ [Next]_vars => TypedNumbers'
<1> SUFFICES ASSUME TypedNumbers, [Next]_vars
             PROVE  TypedNumbers'
  BY DEF TypeInv
<1> USE Bounds DEF TypedNumbers
<1>1. <<>> \in Seq(0..MaxChanges)
  OBVIOUS
<1>2. CASE UNCHANGED vars
  BY <1>2 DEF vars, notifier, mqtt, routing
<1>3. ASSUME NEW t \in Thread, Run(t) \/ Change(t)
      PROVE  TypedNumbers'
  <2>1. CASE Lock(t)
    BY <2>1 DEF Lock, mqtt, routing
  <2>2. CASE Count(t)
    BY <2>2 DEF Count, routing
  <2>3. CASE Change(t)
    BY <2>3 DEF Change, MayChange, notifier, mqtt, routing
  <2> QED
    BY <1>3, <2>1, <2>2, <2>3 DEF Run
<1>4. CASE Main \/ Tick \/ Compose \/ Send \/ Clear
  BY <1>4 DEF Main, AddObserver, MakeClient, Tick, Compose, Send, Clear, notifier, mqtt, routing
<1>5. CASE Publish
  BY <1>5 DEF Publish, notifier, routing
<1>6. CASE Connected \/ Disconnected \/ OtaEnds
  <2>1. CASE Connected \/ OtaEnds
    BY <2>1 DEF Connected, OtaEnds, notifier, mqtt, routing
  <2>2. CASE Disconnected
    <3>1. out' \in Seq(0..MaxChanges)
      BY <1>1, <2>2 DEF Disconnected, Lose
    <3>2. /\ outages < MaxOutages /\ outages' = outages + 1
          /\ UNCHANGED <<value, text, reported, count, messages>>
      BY <2>2 DEF Disconnected, notifier, routing
    <3> QED
      BY <3>1, <3>2
  <2> QED
    BY <1>6, <2>1, <2>2
<1>7. CASE Deliver
  <2>1. Head(out) \in 0..MaxChanges /\ Tail(out) \in Seq(0..MaxChanges)
    BY <1>7 DEF Deliver
  <2> QED
    BY <1>7, <2>1 DEF Deliver, notifier, routing
<1>8. ASSUME NEW topic \in Topic, Message(topic)
      PROVE  TypedNumbers'
  BY <1>8 DEF Message, MayChange, notifier
<1>9. CASE GotIp \/ LostIp \/ Stopped
  <2>1. CASE GotIp \/ LostIp
    BY <2>1 DEF GotIp, LostIp, notifier, mqtt, routing
  <2>2. CASE Stopped
    <3>1. out' = out \/ out' = <<>>
      BY <2>2 DEF Stopped, Lose
    <3> QED
      BY <1>1, <2>2, <3>1 DEF Stopped, notifier, routing
  <2> QED
    BY <1>9, <2>1, <2>2
<1> QED
  BY <1>2, <1>3, <1>4, <1>5, <1>6, <1>7, <1>8, <1>9 DEF Next, OnTimeout, Thread

\* the flags,
LEMMA TypedFlagsStep == TypeInv /\ [Next]_vars => TypedFlags'
<1> SUFFICES ASSUME TypedFlags, [Next]_vars
             PROVE  TypedFlags'
  BY DEF TypeInv
<1> USE DEF TypedFlags
<1>1. CASE UNCHANGED vars
  BY <1>1 DEF vars, routing, ghosts
<1>2. ASSUME NEW t \in Thread, Count(t)
      PROVE  TypedFlags'
  <2>1. raced' \in BOOLEAN
    BY <1>2, Zenon DEF Count
  <2> QED
    BY <1>2, <2>1 DEF Count, routing
<1>3. ASSUME NEW t \in Thread, Lock(t) \/ Change(t)
      PROVE  TypedFlags'
  BY <1>3 DEF Lock, Change, routing, ghosts
<1>4. CASE Main
  BY <1>4 DEF Main, AddObserver, MakeClient, routing, ghosts
<1>5. CASE OnTimeout
  BY <1>5 DEF OnTimeout, Tick, Compose, Send, Publish, Clear, routing, ghosts
<1>6. CASE Connected \/ Disconnected \/ Deliver \/ OtaEnds
  BY <1>6 DEF Connected, Disconnected, Deliver, OtaEnds, Lose, routing, ghosts
<1>7. ASSUME NEW topic \in Topic, Message(topic)
      PROVE  TypedFlags'
  <2>1. Taker(topic) \in Receiver \cup {None}
    BY DEF Taker, FirstTaker, Receiver
  <2> QED
    BY <1>7, <2>1 DEF Message, ghosts
<1>8. CASE GotIp \/ LostIp \/ Stopped
  BY <1>8 DEF GotIp, LostIp, Stopped, Lose, routing, ghosts
<1> QED
  BY <1>1, <1>2, <1>3, <1>4, <1>5, <1>6, <1>7, <1>8 DEF Next, Run, Thread

\* and the threads.
LEMMA TypedThreadsStep == TypeInv /\ [Next]_vars => TypedThreads'
<1> SUFFICES ASSUME TypedThreads, [Next]_vars
             PROVE  TypedThreads'
  BY DEF TypeInv
<1> USE TimerIsThread DEF TypedThreads
<1>1. CASE UNCHANGED vars
  BY <1>1 DEF vars, notifier, mqtt
<1>2. ASSUME NEW t \in Thread, Lock(t)
      PROVE  TypedThreads'
  BY <1>2 DEF Lock, mqtt
<1>3. ASSUME NEW t \in Thread, Count(t)
      PROVE  TypedThreads'
  <2>1. api' \in BOOLEAN /\ lock' = "free" /\ client' = client
    BY <1>3 DEF Count
  <2>2. CASE pc[t] = "lock"
    BY <1>3, <2>1, <2>2 DEF Count, Go
  <2>3. CASE pc[t] = "date"
    BY <1>3, <2>1, <2>3 DEF Count, Go
  <2>4. CASE pc[t] = "time"
    BY <1>3, <2>1, <2>4 DEF Count, Go
  <2> QED
    BY <1>3, <2>2, <2>3, <2>4 DEF Count
<1>4. ASSUME NEW t \in Thread, Change(t)
      PROVE  TypedThreads'
  BY <1>4 DEF Change, Go, notifier, mqtt
<1>5. CASE Main
  BY <1>5 DEF Main, AddObserver, MakeClient, notifier, mqtt
<1>6. CASE OnTimeout
  BY <1>6 DEF OnTimeout, Tick, Compose, Send, Publish, Clear, Go, notifier, mqtt
<1>7. CASE Connected \/ Disconnected \/ Deliver \/ OtaEnds
  BY <1>7 DEF Connected, Disconnected, Deliver, OtaEnds, notifier, mqtt
<1>8. ASSUME NEW topic \in Topic, Message(topic)
      PROVE  TypedThreads'
  BY <1>8 DEF Message, Go, notifier
<1>9. CASE GotIp \/ Stopped
  BY <1>9 DEF GotIp, Stopped, Go, notifier
<1>10. CASE LostIp
  BY <1>10 DEF LostIp, Go, notifier, mqtt
<1> QED
  BY <1>1, <1>2, <1>3, <1>4, <1>5, <1>6, <1>7, <1>8, <1>9, <1>10 DEF Next, Run, Thread

\* Whatever is counted was a change, or is the date or the time of this message.
LEMMA CountedStep == TypeInv /\ [Next]_vars => Counted'
<1> SUFFICES ASSUME TypedNumbers, TypedThreads, Counted, [Next]_vars
             PROVE  Counted'
  BY DEF TypeInv
<1> USE TimerIsThread
<1>0. /\ value \in Nat /\ count \in Nat
      /\ IsFiniteSet(Waiters) /\ Cardinality(Waiters) \in Nat
      /\ Cardinality(Waiters) <= value
      /\ count + Cardinality(Waiters) <= value + Own
      /\ Own \in 0..2
  BY Bounds, FS_CardinalityType DEF TypedNumbers, Counted, Own
<1> DEFINE W == Cardinality(Waiters)
<1>1. ASSUME UNCHANGED <<pc, value, count>>
      PROVE  Counted'
  BY <1>1 DEF Counted, Waiters, Own
<1>2. ASSUME NEW t \in Thread, NEW where, Go(t, where)
      PROVE  /\ IsFiniteSet(Waiters')
             /\ W' = IF pc[t] = "lock" /\ where # "lock" THEN W - 1
                     ELSE IF pc[t] # "lock" /\ where = "lock" THEN W + 1 ELSE W
             /\ pc'[t] = where
             /\ t # "timer" => pc'["timer"] = pc["timer"]
  <2>1. pc'[t] = where /\ (t # "timer" => pc'["timer"] = pc["timer"])
    BY <1>2 DEF Go, TypedThreads
  <2> QED
    BY <1>0, <1>2, <2>1, WaitersMove
<1>3. ASSUME NEW t \in Thread, Count(t)
      PROVE  Counted'
  <2>1. count' = count + 1 /\ value' = value
    BY <1>3 DEF Count
  <2>2. CASE pc[t] = "lock"
    <3>1. Go(t, "idle")
      BY <1>3, <2>2 DEF Count
    <3>2. IsFiniteSet(Waiters') /\ W' = W - 1
      BY <1>2, <2>2, <3>1
    <3>3. Own' = Own
      BY <1>2, <2>2, <3>1 DEF Own
    <3> QED
      BY <1>0, <2>1, <3>2, <3>3 DEF Counted
  <2>3. CASE pc[t] = "date"
    <3>1. Go(t, "time") /\ t = "timer"
      BY <1>3, <2>3 DEF Count, TypedThreads
    <3>2. IsFiniteSet(Waiters') /\ W' = W
      BY <1>2, <2>3, <3>1
    <3>3. Own' = Own + 1
      BY <1>2, <2>3, <3>1 DEF Own
    <3> QED
      BY <1>0, <2>1, <3>2, <3>3 DEF Counted
  <2>4. CASE pc[t] = "time"
    <3>1. Go(t, "compose") /\ t = "timer"
      BY <1>3, <2>4 DEF Count, TypedThreads
    <3>2. IsFiniteSet(Waiters') /\ W' = W
      BY <1>2, <2>4, <3>1
    <3>3. Own' = Own + 1
      BY <1>2, <2>4, <3>1 DEF Own
    <3> QED
      BY <1>0, <2>1, <3>2, <3>3 DEF Counted
  <2> QED
    BY <1>3, <2>2, <2>3, <2>4 DEF Count
<1>4. ASSUME NEW t \in Thread, pc[t] = "idle", Go(t, "lock"), value' = value + 1,
             count' = count
      PROVE  Counted'
  <2>1. IsFiniteSet(Waiters') /\ W' = W + 1
    BY <1>2, <1>4
  <2>2. Own' = Own
    BY <1>2, <1>4 DEF Own
  <2> QED
    BY <1>0, <1>4, <2>1, <2>2 DEF Counted
<1>5. ASSUME NEW t \in Thread, NEW where, Go(t, where), pc[t] # "lock", where # "lock",
             Own' = Own, UNCHANGED <<value, count>>
      PROVE  Counted'
  <2>1. IsFiniteSet(Waiters') /\ W' = W
    BY <1>2, <1>5
  <2> QED
    BY <1>0, <1>5, <2>1 DEF Counted
<1>6. CASE Clear
  <2>1. Go("timer", "idle") /\ pc["timer"] = "clear" /\ count' = 0 /\ value' = value
    BY <1>6 DEF Clear
  <2>2. IsFiniteSet(Waiters') /\ W' = W /\ pc'["timer"] = "idle"
    BY <1>2, <2>1
  <2>3. Own' = 0
    BY <2>2 DEF Own
  <2> QED
    BY <1>0, <2>1, <2>2, <2>3 DEF Counted
<1>7. CASE Tick
  <2>1. Go("timer", "date") /\ pc["timer"] = "idle" /\ UNCHANGED <<value, count>>
    BY <1>7 DEF Tick, notifier
  <2>2. Own' = Own
    BY <1>2, <2>1 DEF Own
  <2> QED
    BY <1>5, <2>1, <2>2
<1>8. CASE Compose \/ Send \/ Publish
  <2>1. /\ pc["timer"] \in {"compose", "send", "publish"}
        /\ \E where \in {"send", "publish", "clear"} : Go("timer", where)
        /\ UNCHANGED <<value, count>>
    BY <1>8 DEF Compose, Send, Publish, notifier
  <2>2. PICK where \in {"send", "publish", "clear"} : Go("timer", where)
    BY <2>1
  <2>3. pc'["timer"] = where
    BY <1>2, <2>2
  <2>4. Own' = Own
    BY <2>1, <2>3 DEF Own
  <2> QED
    BY <1>5, <2>1, <2>2, <2>4
<1>9. ASSUME NEW t \in Thread, Lock(t)
      PROVE  Counted'
  BY <1>1, <1>9 DEF Lock
<1>10. ASSUME NEW t \in Thread, Change(t)
       PROVE  Counted'
  BY <1>4, <1>10 DEF Change, notifier
<1>11. ASSUME NEW topic \in Topic, Message(topic)
       PROVE  Counted'
  <2>1. CASE UNCHANGED <<value, api, pc>>
    BY <1>1, <1>11, <2>1 DEF Message, notifier
  <2>2. CASE value' = value + 1 /\ Go("mqtt", "lock")
    BY <1>4, <1>11, <2>2 DEF Message, MqttIdle, notifier
  <2> QED
    BY <1>11, <2>1, <2>2 DEF Message
<1>12. CASE Main \/ Connected \/ Disconnected \/ Deliver \/ OtaEnds \/ GotIp \/ UNCHANGED vars
  BY <1>1, <1>12 DEF vars, Main, AddObserver, MakeClient, Connected, Disconnected, Deliver,
     OtaEnds, GotIp, notifier
<1>13. CASE LostIp \/ Stopped
  <2>1. /\ pc["wifi"] \in {"idle", "stop"}
        /\ \E where \in {"idle", "stop"} : Go("wifi", where)
        /\ UNCHANGED <<value, count>>
    BY <1>13 DEF LostIp, Stopped, notifier
  <2>2. PICK where \in {"idle", "stop"} : Go("wifi", where)
    BY <2>1
  <2>3. Own' = Own
    BY <1>2, <2>2 DEF Own
  <2> QED
    BY <1>5, <2>1, <2>2, <2>3
<1> QED
  BY <1>3, <1>6, <1>7, <1>8, <1>9, <1>10, <1>11, <1>12, <1>13 DEF Next, OnTimeout, Run, Thread

\* Every variable of the notifier, the MQTT client and its tasks keeps its type;
\* the counter never exceeds the changes of the state and the two properties that
\* the timer sets itself (StatusNotifyer::onTimeout).
THEOREM TypeCorrect == Spec => []TypeOK
<1>1. TypeInv => TypeOK
  <2> SUFFICES ASSUME TypeInv
               PROVE  TypeOK
    OBVIOUS
  <2>1. count \in 0..MaxChanges + 2
    <3>1. Cardinality(Waiters) \in Nat /\ Own \in 0..2
      BY FS_CardinalityType DEF TypeInv, Counted, Own
    <3> QED
      BY <3>1, Bounds DEF TypeInv, Counted, TypedNumbers
  <2> QED
    BY <2>1 DEF TypeInv, TypedNumbers, TypedFlags, TypedThreads, TypeOK
<1>2. Init => TypeInv
  BY TypeInvInit
<1>3. TypeInv /\ [Next]_vars => TypeInv'
  BY TypedNumbersStep, TypedFlagsStep, TypedThreadsStep, CountedStep DEF TypeInv
<1> QED
  BY <1>1, <1>2, <1>3, PTL DEF Spec
===============================================================================
