------------------------------ MODULE Channels ------------------------------
(***************************************************************************)
(* The valve outputs: LedcChan (main/channelFactory.cpp), the              *)
(* ExclusiveAdapter that lets only one of them be on                       *)
(* (main/channelAdapter.cpp), and the notifiers and the control hook that  *)
(* MainClass::setup hangs on them.                                         *)
(*                                                                         *)
(* A channel is driven by several threads at once and has no lock: the     *)
(* scheduler's thread, the HTTP server and the MQTT client call set()      *)
(* through the repository, and the FreeRTOS timer task calls onTimer().    *)
(* Each thread has a call stack of activations of set() and half(), and    *)
(* an action is one access of such an activation to shared state.  set()   *)
(* notifies, the adapter may then call set() of another channel, and so    *)
(* the stack grows.                                                        *)
(*                                                                         *)
(* SendAlways, AheadOfOwn, HalfWithoutTimer, KeepTimer, SetModeOnlyOn and  *)
(* PastTwo are no part of the specification: each is a slip in the         *)
(* definition that follows it, and breaks a property below.                *)
(***************************************************************************)
EXTENDS Integers, Sequences

CONSTANTS
  N,          \* channels; m_vchannel holds them in the order 1..N
  Callers,    \* threads that reach a control hook: scheduler, HTTP, MQTT
  TimerTask,  \* the thread that runs the timer callbacks
  MaxCalls,   \* bound: calls of a control hook in a behaviour
  QueueLen,   \* length of the timer command queue (20 in the build)
  Overlap     \* FALSE: a call or expiry begins only when nothing is under way

ASSUME ChannelsAssumption ==
  /\ N \in Nat \ {0}
  /\ TimerTask \notin Callers
  /\ MaxCalls \in Nat
  /\ QueueLen \in Nat \ {0}
  /\ Overlap \in BOOLEAN

Chan    == 1..N
Threads == Callers \union {TimerTask}
Mode    == {"eoff", "ehalf", "efull"}

VARIABLES
  mode,      \* _mode of every channel
  duty,      \* the mode whose duty the LEDC output was last given
  reported,  \* value of /actors/<name>/state in the repository
  timer,     \* the one-shot timer of every channel, as the timer task knows it
  cmds,      \* FreeRTOS timer command queue
  stack,     \* every thread's activations, the innermost last
  calls      \* control hooks called so far (bounds the model)

vars == <<mode, duty, reported, timer, cmds, stack, calls>>

(***************************************************************************)
(* An activation brings channel chan to mode "to": set(true) to efull,     *)
(* set(false) to eoff, half() to ehalf.                                    *)
(***************************************************************************)
PC == {"duty", "period", "start", "stop", "mode", "exclude", "scan", "read", "write"}

Activation == [chan: Chan, to: Mode, pc: PC, next: 1..(N + 1), value: {"ON", "OFF"}]

Activate(c, m) == [chan |-> c, to |-> m, pc |-> "duty", next |-> 1, value |-> "OFF"]

Command == [chan: Chan, what: {"pulse", "hold", "start", "stop"}]

Timer == [running: BOOLEAN, period: {"pulse", "hold"}]

On(c) == mode[c] \in {"ehalf", "efull"}    \* LedcChan::get()

Top(t) == stack[t][Len(stack[t])]

At(t, pc) == stack[t] # <<>> /\ Top(t).pc = pc

Replace(s, f) == [s EXCEPT ![Len(s)] = f]

Pop(s) == SubSeq(s, 1, Len(s) - 1)

Go(t, pc) == stack' = [stack EXCEPT ![t] = Replace(@, [Top(t) EXCEPT !.pc = pc])]

Return(t) == stack' = [stack EXCEPT ![t] = Pop(@)]

SendAlways(what, c) == cmds' = Append(cmds, [chan |-> c, what |-> what])

AheadOfOwn(f) == {d \in f.next..N : d > f.chan}

\* The channels the adapter's loop has yet to look at.
Ahead(f) == {d \in f.next..N : d # f.chan}

\* A command that finds the queue full is given up after a tick; the failure
\* is only logged.
Send(what, c) ==
  cmds' = IF Len(cmds) < QueueLen THEN Append(cmds, [chan |-> c, what |-> what])
                                  ELSE cmds

AtRest == \A t \in Threads : stack[t] = <<>>

MayBegin == Overlap \/ (AtRest /\ cmds = <<>>)

Init ==
  /\ mode = [c \in Chan |-> "eoff"]
  /\ duty = [c \in Chan |-> "eoff"]
  /\ reported = [c \in Chan |-> "OFF"]
  /\ timer = [c \in Chan |-> [running |-> FALSE, period |-> "hold"]]
  /\ cmds = <<>>
  /\ stack = [t \in Threads |-> <<>>]
  /\ calls = 0

-----------------------------------------------------------------------------
(* What calls into a channel.                                              *)

\* The control hook of channel c, run by the thread that wrote its property.
Control(t, c, on) ==
  /\ stack[t] = <<>>
  /\ MayBegin
  /\ calls < MaxCalls
  /\ calls' = calls + 1
  /\ stack' = [stack EXCEPT ![t] = <<Activate(c, IF on THEN "efull" ELSE "eoff")>>]
  /\ UNCHANGED <<mode, duty, reported, timer, cmds>>

\* The one-shot timer of c expires and onTimer() branches on the mode: a full
\* pulse goes on at reduced power, anything else is switched off.
OnTimer(c) ==
  /\ stack[TimerTask] = <<>>
  /\ MayBegin
  /\ timer[c].running
  /\ timer' = [timer EXCEPT ![c].running = FALSE]
  /\ stack' = [stack EXCEPT ![TimerTask] =
                 <<Activate(c, IF mode[c] = "efull" THEN "ehalf" ELSE "eoff")>>]
  /\ UNCHANGED <<mode, duty, reported, cmds, calls>>

\* The timer task takes a command from its queue; a new period starts the timer.
TimerCommand ==
  /\ stack[TimerTask] = <<>>
  /\ cmds # <<>>
  /\ cmds' = Tail(cmds)
  /\ LET c == Head(cmds).chan
         w == Head(cmds).what
     IN  timer' = [timer EXCEPT
           ![c] = [running |-> w # "stop",
                   period  |-> IF w \in {"pulse", "hold"} THEN w ELSE @.period]]
  /\ UNCHANGED <<mode, duty, reported, stack, calls>>

-----------------------------------------------------------------------------
(* The steps of set() and half().                                          *)

HalfWithoutTimer(t) ==
  /\ At(t, "duty")
  /\ duty' = [duty EXCEPT ![Top(t).chan] = Top(t).to]
  /\ Go(t, CASE Top(t).to = "efull" -> "period"
             [] Top(t).to = "ehalf" -> "mode"
             [] Top(t).to = "eoff"  -> "stop")
  /\ UNCHANGED <<mode, reported, timer, cmds, calls>>

SetDuty(t) ==
  /\ At(t, "duty")
  /\ duty' = [duty EXCEPT ![Top(t).chan] = Top(t).to]
  /\ Go(t, IF Top(t).to = "eoff" THEN "stop" ELSE "period")
  /\ UNCHANGED <<mode, reported, timer, cmds, calls>>

SetPeriod(t) ==
  /\ At(t, "period")
  /\ Send(IF Top(t).to = "efull" THEN "pulse" ELSE "hold", Top(t).chan)
  /\ Go(t, "start")
  /\ UNCHANGED <<mode, duty, reported, timer, calls>>

StartTimer(t) ==
  /\ At(t, "start")
  /\ Send("start", Top(t).chan)
  /\ Go(t, "mode")
  /\ UNCHANGED <<mode, duty, reported, timer, calls>>

KeepTimer(t) ==
  /\ At(t, "stop")
  /\ Go(t, "mode")
  /\ UNCHANGED <<mode, duty, reported, timer, cmds, calls>>

StopTimer(t) ==
  /\ At(t, "stop")
  /\ Send("stop", Top(t).chan)
  /\ Go(t, "mode")
  /\ UNCHANGED <<mode, duty, reported, timer, calls>>

SetModeOnlyOn(t) ==
  /\ At(t, "mode")
  /\ mode' = IF Top(t).to = "eoff" THEN mode ELSE [mode EXCEPT ![Top(t).chan] = Top(t).to]
  /\ IF Top(t).to = "ehalf" THEN Return(t) ELSE Go(t, "exclude")
  /\ UNCHANGED <<duty, reported, timer, cmds, calls>>

\* half() ends with the assignment of the mode and notifies nobody.
SetMode(t) ==
  /\ At(t, "mode")
  /\ mode' = [mode EXCEPT ![Top(t).chan] = Top(t).to]
  /\ IF Top(t).to = "ehalf" THEN Return(t) ELSE Go(t, "exclude")
  /\ UNCHANGED <<duty, reported, timer, cmds, calls>>

-----------------------------------------------------------------------------
(* notify(): first the adapter, then the report to the repository.         *)

Exclude(t) ==
  /\ At(t, "exclude")
  /\ Go(t, IF On(Top(t).chan) THEN "scan" ELSE "read")
  /\ UNCHANGED <<mode, duty, reported, timer, cmds, calls>>

\* The one it looks at now.
LooksAt(f, d) == d \in Ahead(f) /\ \A e \in Ahead(f) : d <= e

PastTwo(f, d) == [f EXCEPT !.next = IF d < N THEN d + 2 ELSE d + 1]

Past(f, d) == [f EXCEPT !.next = d + 1]

\* The loop finds another channel on and calls its set(false).
SwitchOther(t) ==
  /\ At(t, "scan")
  /\ \E d \in Chan :
       /\ LooksAt(Top(t), d)
       /\ On(d)
       /\ stack' = [stack EXCEPT ![t] =
                      Append(Replace(@, Past(Top(t), d)), Activate(d, "eoff"))]
  /\ UNCHANGED <<mode, duty, reported, timer, cmds, calls>>

SkipOther(t) ==
  /\ At(t, "scan")
  /\ \E d \in Chan :
       /\ LooksAt(Top(t), d)
       /\ ~On(d)
       /\ stack' = [stack EXCEPT ![t] = Replace(@, Past(Top(t), d))]
  /\ UNCHANGED <<mode, duty, reported, timer, cmds, calls>>

\* Notified after the adapter: the report reads the mode, then writes the state.
ReadState(t) ==
  /\ At(t, "read") \/ (At(t, "scan") /\ Ahead(Top(t)) = {})
  /\ stack' = [stack EXCEPT ![t] =
       Replace(@, [Top(t) EXCEPT !.pc = "write",
                                 !.value = IF On(Top(t).chan) THEN "ON" ELSE "OFF"])]
  /\ UNCHANGED <<mode, duty, reported, timer, cmds, calls>>

WriteState(t) ==
  /\ At(t, "write")
  /\ reported' = [reported EXCEPT ![Top(t).chan] = Top(t).value]
  /\ Return(t)
  /\ UNCHANGED <<mode, duty, timer, cmds, calls>>

Step(t) ==
  \/ SetDuty(t) \/ SetPeriod(t) \/ StartTimer(t) \/ StopTimer(t) \/ SetMode(t)
  \/ Exclude(t) \/ SwitchOther(t) \/ SkipOther(t)
  \/ ReadState(t) \/ WriteState(t)

Next ==
  \/ \E t \in Callers, c \in Chan, on \in BOOLEAN : Control(t, c, on)
  \/ \E c \in Chan : OnTimer(c)
  \/ TimerCommand
  \/ \E t \in Threads : Step(t)

Spec == Init /\ [][Next]_vars

\* Every thread is scheduled, commands are taken and running timers expire.
Fairness ==
  /\ \A t \in Threads : WF_vars(Step(t))
  /\ WF_vars(TimerCommand)
  /\ \A c \in Chan : WF_vars(OnTimer(c))

FairSpec == Spec /\ Fairness

-----------------------------------------------------------------------------
(* Properties.                                                             *)

\* Every variable keeps its type; a scan never indexes past the last channel
\* and the command queue never outgrows its length.
TypeOK ==
  /\ mode \in [Chan -> Mode]
  /\ duty \in [Chan -> Mode]
  /\ reported \in [Chan -> {"ON", "OFF"}]
  /\ timer \in [Chan -> Timer]
  /\ cmds \in Seq(Command) /\ Len(cmds) <= QueueLen
  /\ stack \in [Threads -> Seq(Activation)]
  /\ calls \in 0..MaxCalls

(***************************************************************************)
(* Why two channels are never both left at full power.  An activation sees *)
(* to the pair c, d when it has yet to look at d on behalf of c, or is     *)
(* about to assign d the mode eoff.                                        *)
(***************************************************************************)
SeesTo(f, c, d) ==
  \/ f.chan = c /\ f.pc \in {"exclude", "scan"} /\ f.next <= d
  \/ f.chan = d /\ f.to = "eoff" /\ f.pc \in {"duty", "stop", "mode"}

Seen(c, d) ==
  \E t \in Threads : \E k \in 1..Len(stack[t]) : SeesTo(stack[t][k], c, d)

\* At every moment, of two channels at full power one is about to be switched
\* off by an activation that is under way (inductive, with FreshScan).
FullPairSeen ==
  \A c, d \in Chan :
    c # d /\ mode[c] = "efull" /\ mode[d] = "efull" => Seen(c, d) \/ Seen(d, c)

\* A scan starts with the first channel.
FreshScan ==
  \A t \in Threads : \A k \in 1..Len(stack[t]) :
    stack[t][k].pc \notin {"scan", "read", "write"} => stack[t][k].next = 1

\* However the calls of several threads and the timer interleave, once they
\* have all returned at most one channel is left at full power: a set(true)
\* writes its mode before it scans the others (ExclusiveAdapter::onNotify).
OneFullAtRest ==
  AtRest => \A c, d \in Chan : mode[c] = "efull" /\ mode[d] = "efull" => c = d

\* "only one channel should be active" (main/MainClass.h:78), read when no call
\* is under way: during the hand-over from one channel to the next both are on.
OneOnAtRest ==
  AtRest => \A c, d \in Chan : On(c) /\ On(d) => c = d

\* At rest, with the timer commands taken, the LEDC output, the repository's
\* state and the timer of every channel agree with its mode: what is reported
\* OFF draws no current, what is on is timed with the period of its phase.
CoherentAtRest ==
  AtRest /\ cmds = <<>> =>
    \A c \in Chan :
      /\ duty[c] = mode[c]
      /\ reported[c] = IF On(c) THEN "ON" ELSE "OFF"
      /\ timer[c].running <=> On(c)
      /\ mode[c] = "efull" => timer[c].period = "pulse"
      /\ mode[c] = "ehalf" => timer[c].period = "hold"

\* set() and onNotify() call each other, and a channel that comes on again
\* between the two makes the recursion deeper.  A call can bring its channel on
\* twice, by efull and by the ehalf of a half() that overlaps a set(false), and
\* no more: the depth of the stack stays within twice the number of calls.
DepthBounded ==
  \A t \in Threads : Len(stack[t]) <= 2 * calls
=============================================================================
