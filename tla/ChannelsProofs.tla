--------------------------- MODULE ChannelsProofs ---------------------------
(***************************************************************************)
(* Channels, for every number of channels and threads, every bound and     *)
(* either value of Overlap: the variables keep their types, two channels   *)
(* are never both left at full power, and the calls of set() and           *)
(* onNotify() nest no deeper than twice the calls of a control hook.       *)
(* When calls do not overlap: one channel at most is left on, every step   *)
(* is a step of the exclusive valve or a stutter, and output, report and   *)
(* timer end up in agreement with the mode.                                *)
(***************************************************************************)
EXTENDS ChannelsMC, SequenceTheorems, FiniteSetTheorems, TLAPS

-----------------------------------------------------------------------------
(* Stacks.                                                                 *)

\* Replacing the last element of a stack leaves its length and the others alone.
LEMMA ReplaceLast ==
  ASSUME NEW S, NEW s \in Seq(S), s # <<>>, NEW f \in S
  PROVE  /\ Replace(s, f) \in Seq(S)
         /\ Len(Replace(s, f)) = Len(s)
         /\ Replace(s, f)[Len(s)] = f
         /\ \A k \in 1..Len(s) : k # Len(s) => Replace(s, f)[k] = s[k]
  BY DEF Replace

\* Popping a stack keeps the elements below its last one.
LEMMA PopLast ==
  ASSUME NEW S, NEW s \in Seq(S), s # <<>>
  PROVE  /\ Pop(s) \in Seq(S)
         /\ Len(Pop(s)) = Len(s) - 1
         /\ \A k \in 1..(Len(s) - 1) : Pop(s)[k] = s[k]
<1>1. /\ Len(s) \in Nat \ {0}
      /\ \A k \in 1..Len(s) : s[k] \in S
  OBVIOUS
<1> DEFINE n == Len(s) - 1
<1>2. n \in Int /\ 1 \in Int /\ \A i \in 1..n : s[i] \in S
  BY <1>1
<1>3. /\ SubSeq(s, 1, n) \in Seq(S)
      /\ Len(SubSeq(s, 1, n)) = IF 1 <= n THEN n - 1 + 1 ELSE 0
      /\ \A i \in 1..(n - 1 + 1) : SubSeq(s, 1, n)[i] = s[1 + i - 1]
  BY <1>2, SubSeqProperties
<1>4. n \in Nat
  BY <1>1
<1>5. /\ Len(SubSeq(s, 1, n)) = n
      /\ \A i \in 1..n : SubSeq(s, 1, n)[i] = s[i]
  <2> HIDE DEF n
  <2>1. Len(SubSeq(s, 1, n)) = n
    BY <1>3, <1>4
  <2>2. ASSUME NEW i \in 1..n
        PROVE  SubSeq(s, 1, n)[i] = s[i]
    <3>1. i \in 1..(n - 1 + 1) /\ 1 + i - 1 = i
      BY <1>4
    <3> QED
      BY <1>3, <3>1
  <2> QED
    BY <2>1, <2>2
<1> QED
  BY <1>3, <1>5 DEF Pop

\* The innermost activation of a thread that has one.
LEMMA TopTyped ==
  ASSUME TypeOK, NEW t \in Threads, stack[t] # <<>>
  PROVE  Top(t) \in Activation /\ Len(stack[t]) \in 1..Len(stack[t])
  BY DEF TypeOK, Top

\* A step that gives the innermost activation a new program counter.
LEMMA GoTyped ==
  ASSUME TypeOK, NEW t \in Threads, stack[t] # <<>>, NEW pc \in PC, Go(t, pc)
  PROVE  stack' \in [Threads -> Seq(Activation)]
<1> DEFINE f == [Top(t) EXCEPT !.pc = pc]
<1>1. f \in Activation
  BY TopTyped DEF Activation
<1>2. Replace(stack[t], f) \in Seq(Activation)
  BY <1>1, ReplaceLast DEF TypeOK
<1> QED
  BY <1>2 DEF Go, TypeOK

\* A step that ends the innermost activation.
LEMMA ReturnTyped ==
  ASSUME TypeOK, NEW t \in Threads, stack[t] # <<>>, Return(t)
  PROVE  stack' \in [Threads -> Seq(Activation)]
<1>1. Pop(stack[t]) \in Seq(Activation)
  BY PopLast DEF TypeOK
<1> QED
  BY <1>1 DEF Return, TypeOK

\* A posted command is well formed and never overfills the queue.
LEMMA SendTyped ==
  ASSUME TypeOK, NEW c \in Chan, NEW w \in {"pulse", "hold", "start", "stop"}, Send(w, c)
  PROVE  cmds' \in Seq(Command) /\ Len(cmds)' <= QueueLen
<1>1. [chan |-> c, what |-> w] \in Command
  BY DEF Command
<1> QED
  BY <1>1, ChannelsAssumption DEF Send, TypeOK

\* A new activation of set() or half() is well formed.
LEMMA ActivateTyped ==
  ASSUME NEW c \in Chan, NEW m \in Mode
  PROVE  Activate(c, m) \in Activation
  BY ChannelsAssumption DEF Activate, Activation, Chan, PC

\* The loop's cursor moves past channel d and nothing else changes.
LEMMA PastTyped ==
  ASSUME NEW f \in Activation, NEW d \in Chan
  PROVE  /\ Past(f, d) \in Activation
         /\ Past(f, d).chan = f.chan
         /\ Past(f, d).pc = f.pc
         /\ Past(f, d).next = d + 1
  BY ChannelsAssumption DEF Past, Activation, Chan

-----------------------------------------------------------------------------
(* Type correctness.                                                       *)

\* Every step of set(), half() and the notifiers keeps the type invariant.
LEMMA StepTyped ==
  ASSUME TypeOK, NEW t \in Threads, Step(t)
  PROVE  TypeOK'
<1> stack[t] # <<>>
  BY DEF Step, At, SetDuty, SetPeriod, StartTimer, StopTimer, SetMode, Exclude,
         SwitchOther, SkipOther, ReadState, WriteState
<1> DEFINE f == Top(t)
<1>1. f \in Activation
  BY TopTyped
<1>2. /\ f.chan \in Chan /\ f.to \in Mode /\ f.value \in {"ON", "OFF"}
      /\ \A pc : [f EXCEPT !.pc = pc] = [Top(t) EXCEPT !.pc = pc]
  BY <1>1 DEF Activation
<1>3. CASE SetDuty(t)
  <2>1. stack' \in [Threads -> Seq(Activation)]
    BY <1>3, GoTyped DEF SetDuty, PC
  <2> QED
    BY <1>2, <1>3, <2>1 DEF SetDuty, TypeOK
<1>4. CASE SetPeriod(t)
  <2>1. stack' \in [Threads -> Seq(Activation)]
    BY <1>4, GoTyped DEF SetPeriod, PC
  <2>2. cmds' \in Seq(Command) /\ Len(cmds)' <= QueueLen
    BY <1>2, <1>4, SendTyped DEF SetPeriod
  <2> QED
    BY <1>4, <2>1, <2>2 DEF SetPeriod, TypeOK
<1>5. CASE StartTimer(t)
  <2>1. stack' \in [Threads -> Seq(Activation)]
    BY <1>5, GoTyped DEF StartTimer, PC
  <2>2. cmds' \in Seq(Command) /\ Len(cmds)' <= QueueLen
    BY <1>2, <1>5, SendTyped DEF StartTimer
  <2> QED
    BY <1>5, <2>1, <2>2 DEF StartTimer, TypeOK
<1>6. CASE StopTimer(t)
  <2>1. stack' \in [Threads -> Seq(Activation)]
    BY <1>6, GoTyped DEF StopTimer, PC
  <2>2. cmds' \in Seq(Command) /\ Len(cmds)' <= QueueLen
    BY <1>2, <1>6, SendTyped DEF StopTimer
  <2> QED
    BY <1>6, <2>1, <2>2 DEF StopTimer, TypeOK
<1>7. CASE SetMode(t)
  <2>1. stack' \in [Threads -> Seq(Activation)]
    BY <1>7, GoTyped, ReturnTyped DEF SetMode, PC
  <2> QED
    BY <1>2, <1>7, <2>1 DEF SetMode, TypeOK
<1>8. CASE Exclude(t)
  <2>1. stack' \in [Threads -> Seq(Activation)]
    BY <1>8, GoTyped DEF Exclude, PC
  <2> QED
    BY <1>8, <2>1 DEF Exclude, TypeOK
<1>9. CASE SwitchOther(t)
  <2>1. PICK d \in Chan :
          stack' = [stack EXCEPT ![t] =
                      Append(Replace(@, Past(f, d)), Activate(d, "eoff"))]
    BY <1>9 DEF SwitchOther
  <2>2. Past(f, d) \in Activation
    BY <1>1, PastTyped
  <2>3. Activate(d, "eoff") \in Activation
    BY ActivateTyped DEF Mode
  <2>4. Append(Replace(stack[t], Past(f, d)), Activate(d, "eoff")) \in Seq(Activation)
    BY <2>2, <2>3, ReplaceLast DEF TypeOK
  <2> QED
    BY <1>9, <2>1, <2>4 DEF SwitchOther, TypeOK
<1>10. CASE SkipOther(t)
  <2>1. PICK d \in Chan : stack' = [stack EXCEPT ![t] = Replace(@, Past(f, d))]
    BY <1>10 DEF SkipOther
  <2>2. Past(f, d) \in Activation
    BY <1>1, PastTyped
  <2>3. Replace(stack[t], Past(f, d)) \in Seq(Activation)
    BY <2>2, ReplaceLast DEF TypeOK
  <2> QED
    BY <1>10, <2>1, <2>3 DEF SkipOther, TypeOK
<1>11. CASE ReadState(t)
  <2> DEFINE g == [f EXCEPT !.pc = "write", !.value = IF On(f.chan) THEN "ON" ELSE "OFF"]
  <2>1. g \in Activation
    BY <1>1 DEF Activation, PC
  <2>2. Replace(stack[t], g) \in Seq(Activation)
    BY <2>1, ReplaceLast DEF TypeOK
  <2> QED
    BY <1>11, <2>2 DEF ReadState, TypeOK
<1>12. CASE WriteState(t)
  <2>1. stack' \in [Threads -> Seq(Activation)]
    BY <1>12, ReturnTyped DEF WriteState
  <2> QED
    BY <1>2, <1>12, <2>1 DEF WriteState, TypeOK
<1> QED
  BY <1>3, <1>4, <1>5, <1>6, <1>7, <1>8, <1>9, <1>10, <1>11, <1>12 DEF Step

\* Spec keeps the type invariant: no scan runs past the last channel and the
\* command queue stays within its length (LedcChan, xTimerGenericCommand).
THEOREM TypeCorrect == Spec => []TypeOK
<1>1. Init => TypeOK
  BY ChannelsAssumption DEF Init, TypeOK, Mode, Timer
<1>2. ASSUME TypeOK, [Next]_vars
      PROVE  TypeOK'
  <2>1. CASE \E t \in Callers, c \in Chan, on \in BOOLEAN : Control(t, c, on)
    <3>1. PICK t \in Callers, c \in Chan, on \in BOOLEAN : Control(t, c, on)
      BY <2>1
    <3>2. Activate(c, IF on THEN "efull" ELSE "eoff") \in Activation
      BY ActivateTyped DEF Mode
    <3>3. <<Activate(c, IF on THEN "efull" ELSE "eoff")>> \in Seq(Activation)
      BY <3>2
    <3> QED
      BY <1>2, <3>1, <3>3, ChannelsAssumption DEF Control, TypeOK, Threads
  <2>2. CASE \E c \in Chan : OnTimer(c)
    <3>1. PICK c \in Chan : OnTimer(c)
      BY <2>2
    <3>2. Activate(c, IF mode[c] = "efull" THEN "ehalf" ELSE "eoff") \in Activation
      BY ActivateTyped DEF Mode
    <3>3. <<Activate(c, IF mode[c] = "efull" THEN "ehalf" ELSE "eoff")>> \in Seq(Activation)
      BY <3>2
    <3>4. timer' \in [Chan -> Timer]
      BY <1>2, <3>1 DEF OnTimer, TypeOK, Timer
    <3> QED
      BY <1>2, <3>1, <3>3, <3>4 DEF OnTimer, TypeOK
  <2>3. CASE TimerCommand
    <3>1. Head(cmds) \in Command /\ Tail(cmds) \in Seq(Command) /\ Len(Tail(cmds)) <= QueueLen
      BY <1>2, <2>3, ChannelsAssumption DEF TimerCommand, TypeOK
    <3>2. timer' \in [Chan -> Timer]
      BY <1>2, <2>3, <3>1 DEF TimerCommand, TypeOK, Timer, Command
    <3> QED
      BY <1>2, <2>3, <3>1, <3>2 DEF TimerCommand, TypeOK
  <2>4. CASE \E t \in Threads : Step(t)
    BY <1>2, <2>4, StepTyped
  <2>5. CASE UNCHANGED vars
    BY <1>2, <2>5 DEF vars, TypeOK
  <2> QED
    BY <1>2, <2>1, <2>2, <2>3, <2>4, <2>5 DEF Next
<1> QED
  BY <1>1, <1>2, PTL DEF Spec

-----------------------------------------------------------------------------
(* Two channels are never both left at full power.                         *)

\* What an activation sees to, one that takes its place on the stack still sees to.
LEMMA SeenReplace ==
  ASSUME TypeOK, NEW t \in Threads, stack[t] # <<>>, NEW f \in Activation,
         stack' = [stack EXCEPT ![t] = Replace(@, f)],
         NEW c \in Chan, NEW d \in Chan, Seen(c, d),
         SeesTo(Top(t), c, d) => SeesTo(f, c, d)
  PROVE  Seen(c, d)'
<1>1. PICK u \in Threads : \E k \in 1..Len(stack[u]) : SeesTo(stack[u][k], c, d)
  BY DEF Seen
<1>2. PICK k \in 1..Len(stack[u]) : SeesTo(stack[u][k], c, d)
  BY <1>1
<1> DEFINE s == stack[t]
<1>3. s \in Seq(Activation) /\ s # <<>>
  BY DEF TypeOK
<1>4. /\ Len(Replace(s, f)) = Len(s)
      /\ Replace(s, f)[Len(s)] = f
      /\ \A j \in 1..Len(s) : j # Len(s) => Replace(s, f)[j] = s[j]
  <2> HIDE DEF s
  <2> QED BY <1>3, ReplaceLast
<1>5. stack'[t] = Replace(s, f) /\ \A v \in Threads : v # t => stack'[v] = stack[v]
  BY DEF TypeOK
<1>6. /\ \A v \in Threads : v # t => stack'[v] = stack[v]
      /\ Len(stack'[t]) = Len(stack[t])
      /\ stack'[t][Len(stack[t])] = f
      /\ \A j \in 1..Len(stack[t]) : j # Len(stack[t]) => stack'[t][j] = stack[t][j]
  BY <1>4, <1>5
<1>7. k \in 1..Len(stack'[u]) /\ SeesTo(stack'[u][k], c, d)
  BY <1>2, <1>6 DEF Top
<1> QED
  BY <1>7 DEF Seen, SeesTo

\* The same when the adapter calls set(false) of another channel, which may be
\* what the caller no longer sees to itself.
LEMMA SeenPush ==
  ASSUME TypeOK, NEW t \in Threads, stack[t] # <<>>,
         NEW f \in Activation, NEW g \in Activation,
         stack' = [stack EXCEPT ![t] = Append(Replace(@, f), g)],
         NEW c \in Chan, NEW d \in Chan, Seen(c, d),
         SeesTo(Top(t), c, d) => SeesTo(f, c, d) \/ SeesTo(g, c, d)
  PROVE  Seen(c, d)'
<1> DEFINE n == Len(stack[t])
<1>0. PICK u \in Threads : \E k \in 1..Len(stack[u]) : SeesTo(stack[u][k], c, d)
  BY DEF Seen
<1>1. PICK k \in 1..Len(stack[u]) : SeesTo(stack[u][k], c, d)
  BY <1>0
<1>2. n \in Nat \ {0} /\ stack[t] \in Seq(Activation)
  BY DEF TypeOK
<1>3. /\ Replace(stack[t], f) \in Seq(Activation)
      /\ Len(Replace(stack[t], f)) = n
      /\ Replace(stack[t], f)[n] = f
      /\ \A j \in 1..n : j # n => Replace(stack[t], f)[j] = stack[t][j]
  <2> DEFINE s == stack[t]
  <2>1. s \in Seq(Activation) /\ s # <<>>
    BY <1>2
  <2>2. /\ Replace(s, f) \in Seq(Activation)
        /\ Len(Replace(s, f)) = Len(s)
        /\ Replace(s, f)[Len(s)] = f
        /\ \A j \in 1..Len(s) : j # Len(s) => Replace(s, f)[j] = s[j]
    <3> HIDE DEF s
    <3> QED BY <2>1, ReplaceLast
  <2> QED BY <2>2
<1>4. /\ \A v \in Threads : v # t => stack'[v] = stack[v]
      /\ stack'[t] = Append(Replace(stack[t], f), g)
  BY DEF TypeOK
<1>5. /\ Len(stack'[t]) = n + 1
      /\ stack'[t][n + 1] = g
      /\ stack'[t][n] = f
      /\ \A j \in 1..n : j # n => stack'[t][j] = stack[t][j]
  BY <1>2, <1>3, <1>4
<1>6. CASE u # t \/ k # n
  <2>1. k \in 1..Len(stack'[u]) /\ SeesTo(stack'[u][k], c, d)
    BY <1>1, <1>2, <1>4, <1>5, <1>6
  <2> QED
    BY <2>1 DEF Seen, SeesTo
<1>7. CASE u = t /\ k = n
  <2>1. SeesTo(stack'[t][n], c, d) \/ SeesTo(stack'[t][n + 1], c, d)
    BY <1>1, <1>5, <1>7 DEF Top
  <2>2. n \in 1..Len(stack'[t]) /\ n + 1 \in 1..Len(stack'[t])
    BY <1>2, <1>5
  <2> QED
    BY <2>1, <2>2 DEF Seen, SeesTo
<1> QED
  BY <1>6, <1>7

\* An activation that sees to nothing may return.
LEMMA SeenPop ==
  ASSUME TypeOK, NEW t \in Threads, stack[t] # <<>>, Return(t),
         NEW c \in Chan, NEW d \in Chan, Seen(c, d), ~SeesTo(Top(t), c, d)
  PROVE  Seen(c, d)'
<1>0. PICK u \in Threads : \E k \in 1..Len(stack[u]) : SeesTo(stack[u][k], c, d)
  BY DEF Seen
<1>1. PICK k \in 1..Len(stack[u]) : SeesTo(stack[u][k], c, d)
  BY <1>0
<1>2. /\ \A v \in Threads : v # t => stack'[v] = stack[v]
      /\ Len(stack'[t]) = Len(stack[t]) - 1
      /\ \A j \in 1..(Len(stack[t]) - 1) : stack'[t][j] = stack[t][j]
  BY PopLast DEF TypeOK, Return
<1>3. u = t => k # Len(stack[t])
  BY <1>1 DEF Top
<1>4. k \in 1..Len(stack'[u]) /\ SeesTo(stack'[u][k], c, d)
  BY <1>1, <1>2, <1>3 DEF TypeOK
<1> QED
  BY <1>4 DEF Seen, SeesTo

\* A call on an idle thread takes nothing away from the others.
LEMMA SeenCall ==
  ASSUME TypeOK, NEW t \in Threads, stack[t] = <<>>, NEW s,
         stack' = [stack EXCEPT ![t] = s],
         NEW c \in Chan, NEW d \in Chan, Seen(c, d)
  PROVE  Seen(c, d)'
<1>0. PICK u \in Threads : \E k \in 1..Len(stack[u]) : SeesTo(stack[u][k], c, d)
  BY DEF Seen
<1>1. PICK k \in 1..Len(stack[u]) : SeesTo(stack[u][k], c, d)
  BY <1>0
<1>2. u # t /\ stack'[u] = stack[u]
  BY <1>1 DEF TypeOK
<1> QED
  BY <1>1, <1>2 DEF Seen, SeesTo

\* Every step of a thread but the assignment of a mode leaves a pair of
\* channels at full power to an activation that sees to it.
LEMMA SeenStays ==
  ASSUME TypeOK, NEW t \in Threads, Step(t), ~SetMode(t),
         NEW c \in Chan, NEW d \in Chan, c # d,
         mode[c] = "efull", mode[d] = "efull", Seen(c, d)
  PROVE  Seen(c, d)'
<1> stack[t] # <<>>
  BY DEF Step, At, SetDuty, SetPeriod, StartTimer, StopTimer, SetMode, Exclude,
         SwitchOther, SkipOther, ReadState, WriteState
<1> DEFINE f == Top(t)
           go(pc) == [f EXCEPT !.pc = pc]
<1>1. f \in Activation
  BY TopTyped
<1>2. \A pc \in PC : /\ go(pc) \in Activation
                     /\ go(pc).pc = pc /\ go(pc).to = f.to
                     /\ go(pc).chan = f.chan /\ go(pc).next = f.next
  BY <1>1 DEF Activation
<1>3. ASSUME NEW pc \in PC, Go(t, pc), SeesTo(f, c, d) => SeesTo(go(pc), c, d)
      PROVE  Seen(c, d)'
  <2>1. stack' = [stack EXCEPT ![t] = Replace(@, go(pc))]
    BY <1>3 DEF Go
  <2> QED
    BY <1>2, <1>3, <2>1, SeenReplace
<1>4. CASE SetDuty(t)
  <2>1. ~ (f.to = "eoff") => ~SeesTo(f, c, d)
    BY <1>4 DEF SetDuty, At, SeesTo
  <2>2. f.to = "eoff" => (SeesTo(f, c, d) => SeesTo(go("stop"), c, d))
    BY <1>2, <1>4 DEF SetDuty, At, SeesTo, PC
  <2> QED
    BY <1>3, <1>4, <2>1, <2>2 DEF SetDuty, PC
<1>5. CASE SetPeriod(t)
  <2>1. ~SeesTo(f, c, d)
    BY <1>5 DEF SetPeriod, At, SeesTo
  <2> QED
    BY <1>3, <1>5, <2>1 DEF SetPeriod, PC
<1>6. CASE StartTimer(t)
  <2>1. ~SeesTo(f, c, d)
    BY <1>6 DEF StartTimer, At, SeesTo
  <2> QED
    BY <1>3, <1>6, <2>1 DEF StartTimer, PC
<1>7. CASE StopTimer(t)
  <2>1. SeesTo(f, c, d) => SeesTo(go("mode"), c, d)
    BY <1>2, <1>7 DEF StopTimer, At, SeesTo, PC
  <2> QED
    BY <1>3, <1>7, <2>1 DEF StopTimer, PC
<1>8. CASE Exclude(t)
  <2>1. SeesTo(f, c, d) => f.chan = c /\ On(f.chan)
    BY <1>8 DEF Exclude, At, SeesTo, On
  <2>2. SeesTo(f, c, d) => SeesTo(go("scan"), c, d)
    BY <1>2, <1>8 DEF Exclude, At, SeesTo, PC
  <2> QED
    BY <1>3, <1>8, <2>1, <2>2 DEF Exclude, PC
<1>9. CASE SwitchOther(t)
  <2>1. PICK e \in Chan :
          /\ LooksAt(f, e)
          /\ stack' = [stack EXCEPT ![t] =
                         Append(Replace(@, Past(f, e)), Activate(e, "eoff"))]
    BY <1>9 DEF SwitchOther
  <2>2. /\ Past(f, e) \in Activation
        /\ Past(f, e).chan = f.chan /\ Past(f, e).pc = f.pc /\ Past(f, e).next = e + 1
    BY <1>1, PastTyped
  <2>3. Activate(e, "eoff") \in Activation
    BY ActivateTyped DEF Mode
  <2>4. SeesTo(f, c, d) => f.chan = c /\ f.pc = "scan" /\ f.next <= d
    BY <1>9 DEF SwitchOther, At, SeesTo
  <2>5. SeesTo(f, c, d) => e <= d
    BY <1>1, <2>1, <2>4, ChannelsAssumption DEF LooksAt, Ahead, Activation, Chan
  <2>6. SeesTo(f, c, d) /\ e # d => SeesTo(Past(f, e), c, d)
    BY <2>2, <2>4, <2>5 DEF SeesTo, Chan
  <2>7. e = d => SeesTo(Activate(e, "eoff"), c, d)
    BY DEF SeesTo, Activate
  <2> QED
    BY <2>1, <2>2, <2>3, <2>6, <2>7, SeenPush
<1>10. CASE SkipOther(t)
  <2>1. PICK e \in Chan :
          /\ LooksAt(f, e)
          /\ ~On(e)
          /\ stack' = [stack EXCEPT ![t] = Replace(@, Past(f, e))]
    BY <1>10 DEF SkipOther
  <2>2. /\ Past(f, e) \in Activation
        /\ Past(f, e).chan = f.chan /\ Past(f, e).pc = f.pc /\ Past(f, e).next = e + 1
    BY <1>1, PastTyped
  <2>3. e # d
    BY <2>1 DEF On
  <2>4. SeesTo(f, c, d) => f.chan = c /\ f.pc = "scan" /\ f.next <= d
    BY <1>10 DEF SkipOther, At, SeesTo
  <2>5. SeesTo(f, c, d) => e <= d
    BY <1>1, <2>1, <2>4, ChannelsAssumption DEF LooksAt, Ahead, Activation, Chan
  <2>6. SeesTo(f, c, d) => SeesTo(Past(f, e), c, d)
    BY <2>2, <2>3, <2>4, <2>5 DEF SeesTo, Chan
  <2> QED
    BY <2>1, <2>2, <2>6, SeenReplace
<1>11. CASE ReadState(t)
  <2> DEFINE g == [f EXCEPT !.pc = "write", !.value = IF On(f.chan) THEN "ON" ELSE "OFF"]
  <2>1. g \in Activation
    BY <1>1 DEF Activation, PC
  <2>2. SeesTo(f, c, d) => d \in Ahead(f)
    BY <1>1, <1>11, ChannelsAssumption DEF ReadState, At, SeesTo, Ahead, Activation, Chan
  <2>3. ~SeesTo(f, c, d)
    BY <1>11, <2>2 DEF ReadState, At, SeesTo
  <2> QED
    BY <1>11, <2>1, <2>3, SeenReplace DEF ReadState
<1>12. CASE WriteState(t)
  <2>1. ~SeesTo(f, c, d)
    BY <1>12 DEF WriteState, At, SeesTo
  <2> QED
    BY <1>12, <2>1, SeenPop DEF WriteState
<1> QED
  BY <1>4, <1>5, <1>6, <1>7, <1>8, <1>9, <1>10, <1>11, <1>12 DEF Step

\* A scan starts with the first channel, after any step of a thread.
LEMMA FreshStays ==
  ASSUME TypeOK, FreshScan, NEW t \in Threads, Step(t)
  PROVE  FreshScan'
<1> stack[t] # <<>>
  BY DEF Step, At, SetDuty, SetPeriod, StartTimer, StopTimer, SetMode, Exclude,
         SwitchOther, SkipOther, ReadState, WriteState
<1> DEFINE Fresh(f) == f.pc \notin {"scan", "read", "write"} => f.next = 1
           s == stack[t]
<1>1. /\ s \in Seq(Activation) /\ s # <<>> /\ Len(s) \in Nat
      /\ Top(t) = s[Len(s)] /\ Top(t) \in Activation
      /\ \A k \in 1..Len(s) : Fresh(s[k])
  BY TopTyped DEF TypeOK, FreshScan, Top
<1>2. Fresh(Top(t))
  BY <1>1
<1>3. ASSUME NEW r, stack' = [stack EXCEPT ![t] = r], \A k \in 1..Len(r) : Fresh(r[k])
      PROVE  FreshScan'
  BY <1>3 DEF FreshScan, TypeOK
<1>4. ASSUME NEW g \in Activation, Fresh(g)
      PROVE  /\ Replace(s, g) \in Seq(Activation)
             /\ Len(Replace(s, g)) = Len(s)
             /\ \A k \in 1..Len(Replace(s, g)) : Fresh(Replace(s, g)[k])
  <2>1. /\ Replace(s, g) \in Seq(Activation)
        /\ Len(Replace(s, g)) = Len(s)
        /\ Replace(s, g)[Len(s)] = g
        /\ \A k \in 1..Len(s) : k # Len(s) => Replace(s, g)[k] = s[k]
    <3> HIDE DEF s, Fresh
    <3> QED BY <1>1, <1>4, ReplaceLast
  <2>2. ASSUME NEW k \in 1..Len(s)
        PROVE  Fresh(Replace(s, g)[k])
    <3> HIDE DEF s, Fresh
    <3>1. CASE k = Len(s)
      BY <1>4, <2>1, <3>1
    <3>2. CASE k # Len(s)
      BY <1>1, <2>1, <3>2
    <3> QED
      BY <3>1, <3>2
  <2> HIDE DEF s, Fresh
  <2> QED BY <2>1, <2>2
<1>5. ASSUME NEW pc \in PC, Go(t, pc), pc \in {"scan", "read", "write"} \/ Top(t).pc \notin {"scan", "read", "write"}
      PROVE  FreshScan'
  <2> DEFINE g == [Top(t) EXCEPT !.pc = pc]
  <2>1. g \in Activation /\ Fresh(g)
    BY <1>1, <1>2, <1>5 DEF Activation
  <2>2. stack' = [stack EXCEPT ![t] = Replace(s, g)]
    BY <1>5 DEF Go
  <2> QED
    BY <1>3, <1>4, <2>1, <2>2
<1>6. CASE Return(t)
  <2>1. \A k \in 1..Len(Pop(s)) : Fresh(Pop(s)[k])
    <3> HIDE DEF s
    <3> QED BY <1>1, PopLast
  <2> QED
    BY <1>3, <1>6, <2>1 DEF Return
<1>7. CASE SwitchOther(t)
  <2>1. PICK e \in Chan :
          stack' = [stack EXCEPT ![t] = Append(Replace(s, Past(Top(t), e)), Activate(e, "eoff"))]
    BY <1>7 DEF SwitchOther
  <2> DEFINE r == Replace(s, Past(Top(t), e))
  <2>2. Past(Top(t), e) \in Activation /\ Fresh(Past(Top(t), e))
    <3>1. Top(t).pc = "scan"
      BY <1>7 DEF SwitchOther, At
    <3>2. Past(Top(t), e) \in Activation /\ Past(Top(t), e).pc = Top(t).pc
      BY <1>1, PastTyped
    <3> QED
      BY <3>1, <3>2
  <2>3. r \in Seq(Activation) /\ \A k \in 1..Len(r) : Fresh(r[k])
    BY <1>4, <2>2
  <2>4. Activate(e, "eoff") \in Activation /\ Fresh(Activate(e, "eoff"))
    BY ActivateTyped DEF Mode, Activate
  <2>5. \A k \in 1..Len(Append(r, Activate(e, "eoff"))) : Fresh(Append(r, Activate(e, "eoff"))[k])
    <3> HIDE DEF r
    <3> QED BY <2>3, <2>4
  <2> QED
    BY <1>3, <2>1, <2>5
<1>8. CASE SkipOther(t)
  <2>1. PICK e \in Chan : stack' = [stack EXCEPT ![t] = Replace(s, Past(Top(t), e))]
    BY <1>8 DEF SkipOther
  <2>2. Past(Top(t), e) \in Activation /\ Fresh(Past(Top(t), e))
    <3>1. Top(t).pc = "scan"
      BY <1>8 DEF SkipOther, At
    <3>2. Past(Top(t), e) \in Activation /\ Past(Top(t), e).pc = Top(t).pc
      BY <1>1, PastTyped
    <3> QED
      BY <3>1, <3>2
  <2> QED
    BY <1>3, <1>4, <2>1, <2>2
<1>9. CASE ReadState(t)
  <2> DEFINE g == [Top(t) EXCEPT !.pc = "write", !.value = IF On(Top(t).chan) THEN "ON" ELSE "OFF"]
  <2>1. g \in Activation /\ Fresh(g)
    BY <1>1 DEF Activation, PC
  <2> QED
    BY <1>3, <1>4, <1>9, <2>1 DEF ReadState
<1>10. CASE SetMode(t)
  BY <1>5, <1>6, <1>10 DEF SetMode, At, PC
<1>11. CASE SetDuty(t) \/ SetPeriod(t) \/ StartTimer(t) \/ StopTimer(t) \/ Exclude(t)
  BY <1>5, <1>11 DEF SetDuty, SetPeriod, StartTimer, StopTimer, Exclude, At, PC
<1>12. CASE WriteState(t)
  BY <1>6, <1>12 DEF WriteState
<1> QED
  BY <1>7, <1>8, <1>9, <1>10, <1>11, <1>12 DEF Step

\* The assignment of a mode: a channel that reaches full power is seen to by
\* the activation that brought it there, and no other pair is disturbed.
LEMMA SetModeSeen ==
  ASSUME TypeOK, FreshScan, FullPairSeen, NEW t \in Threads, SetMode(t)
  PROVE  FullPairSeen'
<1> stack[t] # <<>>
  BY DEF At, SetMode
<1> DEFINE f == Top(t)
           g == [f EXCEPT !.pc = "exclude"]
<1>1. f \in Activation /\ f.pc = "mode" /\ f.next = 1
  BY TopTyped DEF SetMode, At, FreshScan, Top
<1>2. g \in Activation /\ g.chan = f.chan /\ g.pc = "exclude" /\ g.next = 1
  BY <1>1 DEF Activation, PC
<1>3. mode' = [mode EXCEPT ![f.chan] = f.to]
  BY DEF SetMode
<1> SUFFICES ASSUME NEW c \in Chan, NEW d \in Chan, c # d,
                    mode'[c] = "efull", mode'[d] = "efull"
             PROVE  Seen(c, d)' \/ Seen(d, c)'
  BY DEF FullPairSeen
<1>4. ASSUME f.to # "ehalf", NEW e \in Chan, NEW x \in Chan, f.chan = e
      PROVE  Seen(e, x)'
  <2>1. stack' = [stack EXCEPT ![t] = Replace(@, g)]
    BY <1>4 DEF SetMode, Go
  <2> DEFINE s == stack[t]
  <2>2. s \in Seq(Activation) /\ s # <<>> /\ Len(s) \in 1..Len(s)
    BY DEF TypeOK
  <2>3. Len(Replace(s, g)) = Len(s) /\ Replace(s, g)[Len(s)] = g
    <3> HIDE DEF s
    <3> QED BY <1>2, <2>2, ReplaceLast
  <2>4. stack'[t] = Replace(s, g)
    BY <2>1 DEF TypeOK
  <2>5. SeesTo(g, e, x)
    BY <1>2, <1>4 DEF SeesTo, Chan
  <2> QED
    BY <2>2, <2>3, <2>4, <2>5 DEF Seen, SeesTo
<1>5. CASE f.chan \in {c, d}
  <2>1. f.to = "efull"
    BY <1>1, <1>3, <1>5 DEF TypeOK
  <2> QED
    BY <1>4, <1>5, <2>1
<1>6. CASE f.chan \notin {c, d}
  <2>1. mode[c] = "efull" /\ mode[d] = "efull"
    BY <1>3, <1>6 DEF TypeOK
  <2>2. ~SeesTo(f, c, d) /\ ~SeesTo(f, d, c)
    BY <1>6 DEF SeesTo
  <2>3. Seen(c, d) \/ Seen(d, c)
    BY <2>1 DEF FullPairSeen
  <2>4. CASE f.to = "ehalf"
    BY <2>2, <2>3, <2>4, SeenPop DEF SetMode
  <2>5. CASE f.to # "ehalf"
    <3>1. stack' = [stack EXCEPT ![t] = Replace(@, g)]
      BY <2>5 DEF SetMode, Go
    <3> QED
      BY <1>2, <2>2, <2>3, <3>1, SeenReplace
  <2> QED
    BY <2>4, <2>5
<1> QED
  BY <1>5, <1>6

\* No step of a thread leaves two channels at full power to nobody.
LEMMA StepSeen ==
  ASSUME TypeOK, FreshScan, FullPairSeen, NEW t \in Threads, Step(t)
  PROVE  FullPairSeen'
<1>1. CASE SetMode(t)
  BY <1>1, SetModeSeen
<1>2. CASE ~SetMode(t)
  <2>1. mode' = mode
    BY <1>2 DEF Step, SetDuty, SetPeriod, StartTimer, StopTimer, Exclude,
                SwitchOther, SkipOther, ReadState, WriteState
  <2> QED
    BY <1>2, <2>1, SeenStays DEF FullPairSeen
<1> QED
  BY <1>1, <1>2

\* A call or an expiry on an idle thread.
LEMMA CallSeen ==
  ASSUME TypeOK, FreshScan, FullPairSeen, mode' = mode,
         NEW t \in Threads, stack[t] = <<>>, NEW c \in Chan, NEW m \in Mode,
         stack' = [stack EXCEPT ![t] = <<Activate(c, m)>>]
  PROVE  FreshScan' /\ FullPairSeen'
<1>1. Activate(c, m).next = 1
  BY DEF Activate
<1>2. FreshScan'
  BY <1>1 DEF FreshScan, TypeOK
<1>3. FullPairSeen'
  BY SeenCall DEF FullPairSeen
<1> QED
  BY <1>2, <1>3

\* At every moment one of two channels at full power is about to be switched
\* off: ExclusiveAdapter::onNotify scans after LedcChan::set wrote the mode.
THEOREM FullPairsSeen == Spec => [](FreshScan /\ FullPairSeen)
<1> DEFINE IInv == TypeOK /\ FreshScan /\ FullPairSeen
<1>1. Init => FreshScan /\ FullPairSeen
  BY DEF Init, FreshScan, FullPairSeen
<1>2. ASSUME TypeOK, FreshScan, FullPairSeen, [Next]_vars
      PROVE  FreshScan' /\ FullPairSeen'
  <2>1. ASSUME NEW t \in Callers, NEW c \in Chan, NEW on \in BOOLEAN, Control(t, c, on)
        PROVE  FreshScan' /\ FullPairSeen'
    BY <1>2, <2>1, CallSeen DEF Control, Threads, Mode
  <2>2. ASSUME NEW c \in Chan, OnTimer(c)
        PROVE  FreshScan' /\ FullPairSeen'
    BY <1>2, <2>2, CallSeen DEF OnTimer, Threads, Mode
  <2>3. CASE TimerCommand \/ UNCHANGED vars
    BY <1>2, <2>3 DEF TimerCommand, vars, FreshScan, FullPairSeen, Seen, SeesTo
  <2>4. ASSUME NEW t \in Threads, Step(t)
        PROVE  FreshScan' /\ FullPairSeen'
    BY <1>2, <2>4, FreshStays, StepSeen
  <2> QED
    BY <1>2, <2>1, <2>2, <2>3, <2>4 DEF Next
<1> QED
  BY <1>1, <1>2, TypeCorrect, PTL DEF Spec

\* Once every call has returned at most one channel is at full power, whatever
\* the interleaving of the scheduler, HTTP, MQTT and timer threads was.
THEOREM AtMostOneFull == Spec => []OneFullAtRest
<1>1. TypeOK /\ FullPairSeen => OneFullAtRest
  <2> SUFFICES ASSUME FullPairSeen, AtRest, NEW c \in Chan, NEW d \in Chan,
                      mode[c] = "efull", mode[d] = "efull", c # d
               PROVE  FALSE
    BY DEF OneFullAtRest
  <2>1. Seen(c, d) \/ Seen(d, c)
    BY DEF FullPairSeen
  <2> QED
    BY <2>1 DEF Seen, AtRest
<1> QED
  BY <1>1, TypeCorrect, FullPairsSeen, PTL
-----------------------------------------------------------------------------
(* How deep the calls nest.  A level of a stack is live from when its      *)
(* channel is found on at the notification to the end of its scan: only    *)
(* then it can call another.  After set(false) of its channel a level      *)
(* becomes live only when another thread switches that channel on again,   *)
(* so what bounds the depth is how often channels can still come on.       *)

Before == {"duty", "period", "start", "stop", "mode"}

IsOn(m, c) == m[c] \in {"ehalf", "efull"}

\* Threads whose set(true) has yet to assign its mode,
UnwrittenFull(s) == s # <<>> /\ s[1].to = "efull" /\ s[1].pc \in Before

Coming == {t \in Threads : UnwrittenFull(stack[t])}

\* and channels that the timer may bring to reduced power, or is about to.
HalfOf(s, c) == s # <<>> /\ s[1].to = "ehalf" /\ s[1].chan = c

FullOnes == {c \in Chan : mode[c] = "efull" \/ HalfOf(stack[TimerTask], c)}

\* A channel that a stack accounts for: it is that of a live level, or the one
\* whose call made the second level.
HoldsLevel(k, f) == f.pc \in {"exclude", "scan"} \/ (k = 2 /\ f.pc \in Before)

Holds(s, d) == \E k \in 1..Len(s) : s[k].chan = d /\ HoldsLevel(k, s[k])

\* The channels on that it does not account for.
FreeOf(s, m) == {d \in Chan : IsOn(m, d) /\ ~Holds(s, d)}

Live(f, m) == f.pc = "scan" \/ (f.pc = "exclude" /\ IsOn(m, f.chan))

\* The live levels, and one for what the second was called for.
Height(s, m) ==
  IF s = <<>> THEN 0
  ELSE (Len(s) - 1) + (IF Live(s[Len(s)], m) THEN 1 ELSE 0) + (IF Len(s) >= 2 THEN 1 ELSE 0)

Reach(s, m) == Height(s, m) + Cardinality(FreeOf(s, m))

\* What a stack has used and what it may still use of the comings on of channels:
\* two for every call.
Budget ==
  /\ IsFiniteSet(Coming)
  /\ \A t \in Threads :
       2 * Cardinality(Coming) + Cardinality(FullOnes) + Reach(stack[t], mode) <= 2 * calls

\* All levels but the first switch a channel off, and a half() is the timer's.
Shape(t, s) ==
  \A k \in 1..Len(s) :
    /\ k > 1 => s[k].to = "eoff"
    /\ t # TimerTask => s[k].to # "ehalf"

Shapes == \A t \in Threads : Shape(t, stack[t])

\* Nothing runs before the first call.
Started == calls = 0 => AtRest /\ cmds = <<>> /\ \A c \in Chan : ~timer[c].running

\* A stack that takes the place of another and is no earlier in its first level.
KeepsFirst(s, q) ==
  /\ UnwrittenFull(q) => UnwrittenFull(s)
  /\ \A c \in Chan : HalfOf(q, c) => HalfOf(s, c)

\* A stack and what its last level accounts for.
Below(s, d) == \E k \in 1..(Len(s) - 1) : s[k].chan = d /\ HoldsLevel(k, s[k])

\* The channels a stack does not account for are finitely many.
LEMMA FreeFinite ==
  ASSUME NEW s, NEW m
  PROVE  IsFiniteSet(FreeOf(s, m)) /\ Cardinality(FreeOf(s, m)) \in Nat
<1>1. FreeOf(s, m) \in SUBSET Chan
  BY Zenon DEF FreeOf
<1>2. IsFiniteSet(Chan)
  BY FS_Interval, ChannelsAssumption DEF Chan
<1> QED
  BY <1>1, <1>2, FS_Subset, FS_CardinalityType

\* Cardinalities of sets that lose, keep or gain one element.
LEMMA FewerOrSame ==
  ASSUME NEW T, IsFiniteSet(T), NEW S, S \subseteq T
  PROVE  /\ IsFiniteSet(S) /\ Cardinality(S) \in Nat /\ Cardinality(T) \in Nat
         /\ Cardinality(S) <= Cardinality(T)
<1>1. S \in SUBSET T
  OBVIOUS
<1> QED
  BY <1>1, FS_Subset, FS_CardinalityType

\* A set that may have one member more is at most one larger,
LEMMA OneMore ==
  ASSUME NEW T, IsFiniteSet(T), NEW x, NEW S, S \subseteq T \cup {x}
  PROVE  /\ IsFiniteSet(S) /\ Cardinality(S) \in Nat /\ Cardinality(T) \in Nat
         /\ Cardinality(S) <= Cardinality(T) + 1
<1>1. /\ IsFiniteSet(T \cup {x}) /\ Cardinality(T) \in Nat
      /\ Cardinality(T \cup {x}) = IF x \in T THEN Cardinality(T) ELSE Cardinality(T) + 1
  BY FS_AddElement, FS_CardinalityType
<1> QED
  BY <1>1, FewerOrSame, FS_CardinalityType

\* and one that has lost a member is smaller by one.
LEMMA OneLess ==
  ASSUME NEW T, IsFiniteSet(T), NEW x \in T, NEW S, S \subseteq T \ {x}
  PROVE  /\ IsFiniteSet(S) /\ Cardinality(S) \in Nat /\ Cardinality(T) \in Nat
         /\ Cardinality(S) <= Cardinality(T) - 1
<1>1. IsFiniteSet(T \ {x}) /\ Cardinality(T \ {x}) = Cardinality(T) - 1
  BY FS_RemoveElement
<1> QED
  BY <1>1, FewerOrSame, FS_CardinalityType

\* A stack accounts for what its lower levels and its last one account for.
LEMMA HoldsSplit ==
  ASSUME NEW s \in Seq(Activation), s # <<>>, NEW d
  PROVE  Holds(s, d) <=>
           Below(s, d) \/ (s[Len(s)].chan = d /\ HoldsLevel(Len(s), s[Len(s)]))
<1>1. /\ Len(s) \in 1..Len(s)
      /\ \A k \in 1..Len(s) : k = Len(s) \/ k \in 1..(Len(s) - 1)
      /\ \A k \in 1..(Len(s) - 1) : k \in 1..Len(s)
  OBVIOUS
<1> QED
  BY <1>1, Zenon DEF Holds, Below

\* Replacing the last level changes what that level accounts for,
LEMMA HoldsReplace ==
  ASSUME NEW s \in Seq(Activation), s # <<>>, NEW g \in Activation, NEW d
  PROVE  Holds(Replace(s, g), d) <=> Below(s, d) \/ (g.chan = d /\ HoldsLevel(Len(s), g))
<1> DEFINE r == Replace(s, g)
<1>1. /\ r \in Seq(Activation) /\ Len(r) = Len(s) /\ r[Len(s)] = g
      /\ \A k \in 1..Len(s) : k # Len(s) => r[k] = s[k]
  BY ReplaceLast
<1>2. r # <<>> /\ \A k \in 1..(Len(s) - 1) : r[k] = s[k]
  BY <1>1
<1> HIDE DEF r
<1>3. Below(r, d) <=> Below(s, d)
  BY <1>1, <1>2, Zenon DEF Below
<1>4. Holds(r, d) <=> Below(r, d) \/ (r[Len(r)].chan = d /\ HoldsLevel(Len(r), r[Len(r)]))
  BY <1>1, <1>2, HoldsSplit
<1> QED
  BY <1>1, <1>3, <1>4 DEF r

\* popping it leaves the others,
LEMMA HoldsPop ==
  ASSUME NEW s \in Seq(Activation), s # <<>>, NEW d
  PROVE  Holds(Pop(s), d) <=> Below(s, d)
<1>1. Len(Pop(s)) = Len(s) - 1 /\ \A k \in 1..(Len(s) - 1) : Pop(s)[k] = s[k]
  BY PopLast
<1> QED
  BY <1>1, Zenon DEF Holds, Below

\* and a call adds its own.
LEMMA HoldsPush ==
  ASSUME NEW s \in Seq(Activation), NEW h \in Activation, NEW d
  PROVE  Holds(Append(s, h), d) <=>
           Holds(s, d) \/ (h.chan = d /\ HoldsLevel(Len(s) + 1, h))
<1> DEFINE r == Append(s, h)
<1>1. /\ r \in Seq(Activation) /\ r # <<>> /\ Len(r) = Len(s) + 1 /\ r[Len(s) + 1] = h
      /\ \A k \in 1..Len(s) : r[k] = s[k]
  OBVIOUS
<1>2. Len(r) - 1 = Len(s)
  BY <1>1
<1> HIDE DEF r
<1>3. Below(r, d) <=> Holds(s, d)
  BY <1>1, <1>2, Zenon DEF Below, Holds
<1>4. Holds(r, d) <=> Below(r, d) \/ (r[Len(r)].chan = d /\ HoldsLevel(Len(r), r[Len(r)]))
  BY <1>1, HoldsSplit
<1> QED
  BY <1>1, <1>3, <1>4 DEF r

\* Height and reach are numbers.
LEMMA HeightTyped ==
  ASSUME NEW s \in Seq(Activation), NEW m
  PROVE  Height(s, m) \in Nat /\ Reach(s, m) \in Nat
<1>1. Len(s) \in Nat /\ (s # <<>> => Len(s) >= 1)
  OBVIOUS
<1>2. Height(s, m) \in Nat
  <2>1. CASE s = <<>>
    BY <2>1 DEF Height
  <2>2. CASE s # <<>>
    <3> DEFINE a == IF Live(s[Len(s)], m) THEN 1 ELSE 0
    <3>1. Height(s, m) = (Len(s) - 1) + a + (IF Len(s) >= 2 THEN 1 ELSE 0)
      BY <2>2 DEF Height
    <3>2. a \in Nat
      OBVIOUS
    <3> HIDE DEF a
    <3> QED
      BY <1>1, <2>2, <3>1, <3>2
  <2> QED
    BY <2>1, <2>2
<1> QED
  BY <1>2, FreeFinite DEF Reach

\* A level that goes on does not reach further: it becomes live only where it was,
\* and drops a channel that is on only where it ceases to be.
LEMMA ReplaceReach ==
  ASSUME NEW s \in Seq(Activation), s # <<>>, NEW g \in Activation, NEW m,
         g.chan = s[Len(s)].chan,
         Live(g, m) => Live(s[Len(s)], m),
         IsOn(m, g.chan) /\ HoldsLevel(Len(s), s[Len(s)]) /\ ~HoldsLevel(Len(s), g)
           => Live(s[Len(s)], m) /\ ~Live(g, m)
  PROVE  Reach(Replace(s, g), m) <= Reach(s, m)
<1> DEFINE r == Replace(s, g)
           n == Len(s)
           f == s[n]
<1>1. r \in Seq(Activation) /\ Len(r) = n /\ r[n] = g /\ n \in Nat /\ n >= 1 /\ r # <<>>
  BY ReplaceLast
<1>2. Height(r, m) = (n - 1) + (IF Live(g, m) THEN 1 ELSE 0) + (IF n >= 2 THEN 1 ELSE 0)
  BY <1>1 DEF Height
<1>3. Height(s, m) = (n - 1) + (IF Live(f, m) THEN 1 ELSE 0) + (IF n >= 2 THEN 1 ELSE 0)
  BY DEF Height
<1>4. /\ \A d : Holds(r, d) <=> Below(s, d) \/ (g.chan = d /\ HoldsLevel(n, g))
      /\ \A d : Holds(s, d) <=> Below(s, d) \/ (f.chan = d /\ HoldsLevel(n, f))
  BY HoldsReplace, HoldsSplit
<1> HIDE DEF r, n, f
<1>5. IsFiniteSet(FreeOf(s, m))
  BY FreeFinite
<1>6. CASE IsOn(m, g.chan) /\ HoldsLevel(n, f) /\ ~HoldsLevel(n, g)
  <2>1. FreeOf(r, m) \subseteq FreeOf(s, m) \cup {g.chan}
    BY <1>4, Zenon DEF FreeOf, f, n
  <2>2. Cardinality(FreeOf(r, m)) <= Cardinality(FreeOf(s, m)) + 1
        /\ Cardinality(FreeOf(r, m)) \in Nat /\ Cardinality(FreeOf(s, m)) \in Nat
    BY <1>5, <2>1, OneMore
  <2>3. Live(f, m) /\ ~Live(g, m)
    BY <1>6 DEF f, n
  <2> QED
    BY <1>1, <1>2, <1>3, <2>2, <2>3 DEF Reach, r
<1>7. CASE ~(IsOn(m, g.chan) /\ HoldsLevel(n, f) /\ ~HoldsLevel(n, g))
  <2>1. f.chan = g.chan
    BY DEF f, n
  <2>2. FreeOf(r, m) \subseteq FreeOf(s, m)
    BY <1>4, <1>7, <2>1, Zenon DEF FreeOf
  <2>3. Cardinality(FreeOf(r, m)) <= Cardinality(FreeOf(s, m))
        /\ Cardinality(FreeOf(r, m)) \in Nat /\ Cardinality(FreeOf(s, m)) \in Nat
    BY <1>5, <2>2, FewerOrSame
  <2>4. Live(g, m) => Live(f, m)
    BY DEF f, n
  <2> QED
    BY <1>1, <1>2, <1>3, <2>3, <2>4 DEF Reach, r
<1> QED
  BY <1>6, <1>7

\* A call uses up a channel that is on, or a level that became live.
LEMMA PushReach ==
  ASSUME NEW s \in Seq(Activation), s # <<>>, NEW g \in Activation, NEW h \in Activation,
         NEW m, s[Len(s)].pc = "scan", g.chan = s[Len(s)].chan, g.pc = "scan",
         h.pc = "duty", h.chan # g.chan, IsOn(m, h.chan), h.chan \in Chan
  PROVE  Reach(Append(Replace(s, g), h), m) <= Reach(s, m)
<1> DEFINE r == Replace(s, g)
           q == Append(r, h)
           n == Len(s)
<1>1. r \in Seq(Activation) /\ Len(r) = n /\ n \in Nat /\ n >= 1
  BY ReplaceLast
<1>2. q # <<>> /\ Len(q) = n + 1 /\ q[n + 1] = h
  BY <1>1
<1>3. Height(q, m) = n + 1
  <2>1. ~Live(h, m)
    BY DEF Live
  <2>2. Height(q, m) = ((n + 1) - 1) + (IF Live(h, m) THEN 1 ELSE 0)
                        + (IF n + 1 >= 2 THEN 1 ELSE 0)
    BY <1>2 DEF Height
  <2> HIDE DEF q, r, n
  <2> QED
    BY <1>1, <2>1, <2>2
<1>4. Height(s, m) = n + (IF n >= 2 THEN 1 ELSE 0)
  <2>1. Live(s[n], m)
    BY DEF Live
  <2>2. Height(s, m) = (n - 1) + (IF Live(s[n], m) THEN 1 ELSE 0) + (IF n >= 2 THEN 1 ELSE 0)
    BY DEF Height
  <2> HIDE DEF q, r, n
  <2> QED
    BY <1>1, <2>1, <2>2
<1>5. /\ \A d : Holds(s, d) <=> Below(s, d) \/ g.chan = d
      /\ \A d : Holds(r, d) <=> Below(s, d) \/ g.chan = d
  <2>1. HoldsLevel(n, s[n]) /\ HoldsLevel(n, g)
    BY DEF HoldsLevel
  <2> QED
    BY <2>1, HoldsSplit, HoldsReplace
<1>6. \A d : Holds(q, d) <=> Holds(r, d) \/ (h.chan = d /\ HoldsLevel(n + 1, h))
  BY <1>1, HoldsPush
<1> HIDE DEF q, r, n
<1>7. IsFiniteSet(FreeOf(s, m))
  BY FreeFinite
<1>8. CASE n >= 2
  <2>1. FreeOf(q, m) \subseteq FreeOf(s, m)
    BY <1>5, <1>6, Zenon DEF FreeOf
  <2>2. Cardinality(FreeOf(q, m)) <= Cardinality(FreeOf(s, m))
        /\ Cardinality(FreeOf(q, m)) \in Nat /\ Cardinality(FreeOf(s, m)) \in Nat
    BY <1>7, <2>1, FewerOrSame
  <2> QED
    BY <1>1, <1>3, <1>4, <1>8, <2>2 DEF Reach, q, r
<1>9. CASE n = 1
  <2>1. HoldsLevel(n + 1, h)
    BY <1>9 DEF HoldsLevel, Before
  <2>2. ~Below(s, h.chan)
    <3>1. \A k : k \notin 1..(Len(s) - 1)
      BY <1>9 DEF n
    <3> QED
      BY <3>1, Zenon DEF Below
  <2>3. h.chan \in FreeOf(s, m)
    BY <1>5, <2>2, Zenon DEF FreeOf
  <2>4. FreeOf(q, m) \subseteq FreeOf(s, m) \ {h.chan}
    BY <1>5, <1>6, <2>1, Zenon DEF FreeOf
  <2>5. Cardinality(FreeOf(q, m)) <= Cardinality(FreeOf(s, m)) - 1
        /\ Cardinality(FreeOf(q, m)) \in Nat /\ Cardinality(FreeOf(s, m)) \in Nat
    BY <1>7, <2>3, <2>4, OneLess
  <2> QED
    BY <1>3, <1>4, <1>9, <2>5 DEF Reach, q, r
<1> QED
  BY <1>1, <1>8, <1>9

\* A level that returns after its report reaches nothing.
LEMMA PopReach ==
  ASSUME NEW s \in Seq(Activation), s # <<>>, NEW m, s[Len(s)].pc = "write"
  PROVE  Reach(Pop(s), m) <= Reach(s, m)
<1> DEFINE r == Pop(s)
           n == Len(s)
<1>1. /\ r \in Seq(Activation) /\ Len(r) = n - 1 /\ n \in Nat /\ n >= 1
      /\ \A k \in 1..(n - 1) : r[k] = s[k]
  BY PopLast
<1>2. ~Live(s[n], m) /\ ~HoldsLevel(n, s[n])
  BY DEF Live, HoldsLevel, Before
<1>3. Height(s, m) = (n - 1) + (IF n >= 2 THEN 1 ELSE 0)
  <2>1. Height(s, m) = (n - 1) + (IF Live(s[n], m) THEN 1 ELSE 0) + (IF n >= 2 THEN 1 ELSE 0)
    BY DEF Height
  <2> HIDE DEF n
  <2> QED
    BY <1>1, <1>2, <2>1
<1>4. Height(r, m) <= Height(s, m) /\ Height(r, m) \in Nat /\ Height(s, m) \in Nat
  <2>1. CASE n = 1
    <3>1. r = <<>>
      BY <1>1, <2>1
    <3> QED
      BY <1>3, <2>1, <3>1 DEF Height
  <2>2. CASE n >= 2
    <3>1. r # <<>>
      BY <1>1, <2>2
    <3>2. Height(r, m) = ((n - 1) - 1) + (IF Live(r[n - 1], m) THEN 1 ELSE 0)
                          + (IF n - 1 >= 2 THEN 1 ELSE 0)
      BY <1>1, <3>1 DEF Height
    <3> HIDE DEF r, n
    <3> QED
      BY <1>1, <1>3, <2>2, <3>2
  <2> QED
    BY <1>1, <2>1, <2>2
<1>5. \A d : Holds(r, d) <=> Holds(s, d)
  BY <1>2, HoldsSplit, HoldsPop
<1> HIDE DEF r
<1>6. FreeOf(r, m) = FreeOf(s, m)
  BY <1>5, Zenon DEF FreeOf
<1> QED
  BY <1>4, <1>6, FreeFinite DEF Reach, r

\* What the assignment of a mode does to the reach of a stack: off extends no
\* stack's, on extends it by one.
LEMMA OffReach ==
  ASSUME NEW s \in Seq(Activation), NEW m, NEW m2, \A d \in Chan : IsOn(m2, d) => IsOn(m, d)
  PROVE  Reach(s, m2) <= Reach(s, m)
<1>1. IsFiniteSet(FreeOf(s, m)) /\ Height(s, m) \in Nat /\ Height(s, m2) \in Nat
  BY FreeFinite, HeightTyped
<1>2. FreeOf(s, m2) \subseteq FreeOf(s, m)
  BY Zenon DEF FreeOf
<1>3. /\ Cardinality(FreeOf(s, m2)) <= Cardinality(FreeOf(s, m))
      /\ Cardinality(FreeOf(s, m2)) \in Nat /\ Cardinality(FreeOf(s, m)) \in Nat
  BY <1>1, <1>2, FewerOrSame
<1>4. Height(s, m2) <= Height(s, m)
  <2>1. CASE s = <<>>
    BY <2>1 DEF Height
  <2>2. CASE s # <<>>
    <3> DEFINE f == s[Len(s)]
    <3>1. f \in Activation /\ Len(s) \in Nat
      BY <2>2
    <3>2. Live(f, m2) => Live(f, m)
      BY <3>1 DEF Live, Activation
    <3>3. /\ Height(s, m) = (Len(s) - 1) + (IF Live(f, m) THEN 1 ELSE 0)
                             + (IF Len(s) >= 2 THEN 1 ELSE 0)
          /\ Height(s, m2) = (Len(s) - 1) + (IF Live(f, m2) THEN 1 ELSE 0)
                              + (IF Len(s) >= 2 THEN 1 ELSE 0)
      BY <2>2 DEF Height
    <3> HIDE DEF f
    <3> QED
      BY <3>1, <3>2, <3>3
  <2> QED
    BY <2>1, <2>2
<1> QED
  BY <1>1, <1>3, <1>4 DEF Reach

\* A channel that comes on raises the reach by one at most.
LEMMA OnReach ==
  ASSUME NEW s \in Seq(Activation), NEW m, NEW m2, NEW c \in Chan,
         \A d \in Chan : d # c /\ IsOn(m2, d) => IsOn(m, d)
  PROVE  Reach(s, m2) <= Reach(s, m) + 1
<1>1. IsFiniteSet(FreeOf(s, m)) /\ Height(s, m) \in Nat /\ Height(s, m2) \in Nat
  BY FreeFinite, HeightTyped
<1> DEFINE f == s[Len(s)]
<1>2. CASE s # <<>> /\ f.pc = "exclude" /\ f.chan = c
  <2>1. Len(s) \in 1..Len(s) /\ Len(s) \in Nat
    BY <1>2
  <2>2. Holds(s, c)
    BY <1>2, <2>1, Zenon DEF Holds, HoldsLevel
  <2>3. FreeOf(s, m2) \subseteq FreeOf(s, m)
    BY <2>2, Zenon DEF FreeOf
  <2>4. /\ Cardinality(FreeOf(s, m2)) <= Cardinality(FreeOf(s, m))
        /\ Cardinality(FreeOf(s, m2)) \in Nat /\ Cardinality(FreeOf(s, m)) \in Nat
    BY <1>1, <2>3, FewerOrSame
  <2>5. /\ Height(s, m) = (Len(s) - 1) + (IF Live(f, m) THEN 1 ELSE 0)
                           + (IF Len(s) >= 2 THEN 1 ELSE 0)
        /\ Height(s, m2) = (Len(s) - 1) + (IF Live(f, m2) THEN 1 ELSE 0)
                            + (IF Len(s) >= 2 THEN 1 ELSE 0)
    BY <1>2 DEF Height
  <2> HIDE DEF f
  <2>6. Height(s, m2) <= Height(s, m) + 1
    <3> DEFINE a == IF Live(f, m) THEN 1 ELSE 0
               b == IF Live(f, m2) THEN 1 ELSE 0
               n == (Len(s) - 1) + (IF Len(s) >= 2 THEN 1 ELSE 0)
    <3>1. Height(s, m) = n + a /\ Height(s, m2) = n + b
      <4> HIDE DEF a, b
      <4>1. a \in Nat /\ b \in Nat
        BY DEF a, b
      <4>2. /\ Height(s, m) = (Len(s) - 1) + a + (IF Len(s) >= 2 THEN 1 ELSE 0)
            /\ Height(s, m2) = (Len(s) - 1) + b + (IF Len(s) >= 2 THEN 1 ELSE 0)
        BY <2>5 DEF a, b
      <4> QED
        BY <2>1, <4>1, <4>2
    <3>2. a \in 0..1 /\ b \in 0..1 /\ n \in Nat
      BY <2>1
    <3> HIDE DEF a, b, n
    <3> QED
      BY <3>1, <3>2
  <2> QED
    BY <1>1, <2>4, <2>6 DEF Reach
<1>3. CASE ~(s # <<>> /\ f.pc = "exclude" /\ f.chan = c)
  <2>1. FreeOf(s, m2) \subseteq FreeOf(s, m) \cup {c}
    BY Zenon DEF FreeOf
  <2>2. /\ Cardinality(FreeOf(s, m2)) <= Cardinality(FreeOf(s, m)) + 1
        /\ Cardinality(FreeOf(s, m2)) \in Nat /\ Cardinality(FreeOf(s, m)) \in Nat
    BY <1>1, <2>1, OneMore
  <2>3. Height(s, m2) <= Height(s, m)
    <3>1. CASE s = <<>>
      BY <3>1 DEF Height
    <3>2. CASE s # <<>>
      <4>1. f \in Activation /\ Len(s) \in Nat
        BY <3>2
      <4>2. Live(f, m2) => Live(f, m)
        BY <1>3, <3>2, <4>1 DEF Live, Activation
      <4>3. /\ Height(s, m) = (Len(s) - 1) + (IF Live(f, m) THEN 1 ELSE 0)
                               + (IF Len(s) >= 2 THEN 1 ELSE 0)
            /\ Height(s, m2) = (Len(s) - 1) + (IF Live(f, m2) THEN 1 ELSE 0)
                                + (IF Len(s) >= 2 THEN 1 ELSE 0)
        BY <3>2 DEF Height
      <4> HIDE DEF f
      <4> QED
        BY <4>1, <4>2, <4>3
    <3> QED
      BY <3>1, <3>2
  <2> QED
    BY <1>1, <2>2, <2>3 DEF Reach
<1> QED
  BY <1>2, <1>3

\* The level that assigned eoff has what it had,
LEMMA WriteOffReach ==
  ASSUME NEW s \in Seq(Activation), s # <<>>, NEW g \in Activation, NEW m, NEW m2,
         s[Len(s)].pc = "mode", g.pc = "exclude", ~IsOn(m2, g.chan),
         \A d \in Chan : d # g.chan /\ IsOn(m2, d) => IsOn(m, d), g.chan = s[Len(s)].chan
  PROVE  Reach(Replace(s, g), m2) <= Reach(s, m)
<1> DEFINE r == Replace(s, g)
           n == Len(s)
<1>1. r \in Seq(Activation) /\ Len(r) = n /\ r[n] = g /\ n \in Nat /\ n >= 1 /\ r # <<>>
  BY ReplaceLast
<1>2. ~Live(g, m2) /\ ~Live(s[n], m)
  BY DEF Live
<1>3. /\ Height(r, m2) = (n - 1) + (IF Live(g, m2) THEN 1 ELSE 0) + (IF n >= 2 THEN 1 ELSE 0)
      /\ Height(s, m) = (n - 1) + (IF Live(s[n], m) THEN 1 ELSE 0) + (IF n >= 2 THEN 1 ELSE 0)
  BY <1>1 DEF Height
<1>4. /\ \A d : Holds(r, d) <=> Below(s, d) \/ (g.chan = d /\ HoldsLevel(n, g))
      /\ \A d : Holds(s, d) <=> Below(s, d) \/ (s[n].chan = d /\ HoldsLevel(n, s[n]))
  BY HoldsReplace, HoldsSplit
<1>5. g.chan = s[n].chan
  OBVIOUS
<1> HIDE DEF r, n
<1>6. FreeOf(r, m2) \subseteq FreeOf(s, m)
  BY <1>4, <1>5, Zenon DEF FreeOf
<1>7. /\ Cardinality(FreeOf(r, m2)) <= Cardinality(FreeOf(s, m))
      /\ Cardinality(FreeOf(r, m2)) \in Nat /\ Cardinality(FreeOf(s, m)) \in Nat
  BY <1>6, FreeFinite, FewerOrSame
<1> QED
  BY <1>1, <1>2, <1>3, <1>7 DEF Reach, r

\* A stack is empty or has a level.
LEMMA EmptyOrNot ==
  ASSUME NEW S, NEW s \in Seq(S)
  PROVE  s # <<>> <=> Len(s) >= 1
  OBVIOUS

\* A stack of one level.
LEMMA OneLevel ==
  ASSUME NEW s \in Seq(Activation), Len(s) = 1
  PROVE  /\ s # <<>>
         /\ Pop(s) = <<>>
         /\ \A g \in Activation : /\ Replace(s, g) \in Seq(Activation)
                                 /\ Len(Replace(s, g)) = 1
                                 /\ Replace(s, g)[1] = g
                                 /\ Replace(s, g) # <<>>
<1>1. s # <<>>
  BY EmptyOrNot
<1>2. Pop(s) = <<>>
  <2>1. Pop(s) \in Seq(Activation) /\ Len(Pop(s)) = 0
    BY <1>1, PopLast
  <2> QED
    BY <2>1, EmptyOrNot
<1>3. ASSUME NEW g \in Activation
      PROVE  /\ Replace(s, g) \in Seq(Activation) /\ Len(Replace(s, g)) = 1 /\ Replace(s, g)[1] = g
             /\ Replace(s, g) # <<>>
  <2>1. Replace(s, g) \in Seq(Activation) /\ Len(Replace(s, g)) = Len(s) /\ Replace(s, g)[Len(s)] = g
    BY <1>1, ReplaceLast
  <2>2. Replace(s, g) # <<>>
    BY <2>1, EmptyOrNot
  <2> QED
    BY <2>1, <2>2
<1> QED
  BY <1>1, <1>2, <1>3

\* that which assigned efull has become live,
LEMMA WriteFullReach ==
  ASSUME NEW s \in Seq(Activation), Len(s) = 1, NEW g \in Activation, NEW m, NEW m2,
         s[1].pc = "mode", g.pc = "exclude",
         \A d \in Chan : d # g.chan /\ IsOn(m2, d) => IsOn(m, d), g.chan = s[1].chan
  PROVE  Reach(Replace(s, g), m2) <= Reach(s, m) + 1
<1> DEFINE r == Replace(s, g)
<1>0. s # <<>>
  BY OneLevel, Zenon
<1>1. r \in Seq(Activation) /\ Len(r) = 1 /\ r[1] = g /\ r # <<>>
  BY OneLevel, Zenon
<1>2. ~Live(s[1], m)
  BY DEF Live
<1>3. /\ Height(r, m2) = (1 - 1) + (IF Live(g, m2) THEN 1 ELSE 0) + (IF 1 >= 2 THEN 1 ELSE 0)
      /\ Height(s, m) = (1 - 1) + (IF Live(s[1], m) THEN 1 ELSE 0) + (IF 1 >= 2 THEN 1 ELSE 0)
  BY <1>0, <1>1 DEF Height
<1>4. Height(r, m2) <= 1 /\ Height(r, m2) \in Nat /\ Height(s, m) = 0
  BY <1>2, <1>3
<1>5. /\ \A d : Holds(r, d) <=> Below(s, d) \/ (g.chan = d /\ HoldsLevel(1, g))
      /\ \A d : Holds(s, d) <=> Below(s, d) \/ (s[1].chan = d /\ HoldsLevel(1, s[1]))
  BY <1>0, <1>1, HoldsReplace, HoldsSplit
<1>6. HoldsLevel(1, g) /\ ~HoldsLevel(1, s[1])
  BY DEF HoldsLevel, Before
<1> HIDE DEF r
<1>7. FreeOf(r, m2) \subseteq FreeOf(s, m)
  BY <1>5, <1>6, Zenon DEF FreeOf
<1>8. /\ Cardinality(FreeOf(r, m2)) <= Cardinality(FreeOf(s, m))
      /\ Cardinality(FreeOf(r, m2)) \in Nat /\ Cardinality(FreeOf(s, m)) \in Nat
  BY <1>7, FreeFinite, FewerOrSame
<1> QED
  BY <1>4, <1>8 DEF Reach, r

\* and a half() returns and leaves its channel on.
LEMMA WriteHalfReach ==
  ASSUME NEW s \in Seq(Activation), Len(s) = 1, NEW m, NEW m2, NEW c \in Chan,
         s[1].pc = "mode", \A d \in Chan : d # c /\ IsOn(m2, d) => IsOn(m, d)
  PROVE  Reach(Pop(s), m2) <= Reach(s, m) + 1
<1>2. s # <<>> /\ Pop(s) = <<>>
  BY OneLevel, Zenon
<1>3. Height(Pop(s), m2) = 0 /\ Height(s, m) \in Nat
  BY <1>2, HeightTyped DEF Height
<1>4. ~HoldsLevel(1, s[1])
  BY DEF HoldsLevel, Before
<1>5. \A d : ~Holds(s, d)
  <2>1. \A k : k \in 1..Len(s) => k = 1
    OBVIOUS
  <2> QED
    BY <1>4, <2>1, Zenon DEF Holds
<1>6. FreeOf(Pop(s), m2) \subseteq FreeOf(s, m) \cup {c}
  BY <1>5, Zenon DEF FreeOf
<1>7. /\ Cardinality(FreeOf(Pop(s), m2)) <= Cardinality(FreeOf(s, m)) + 1
      /\ Cardinality(FreeOf(Pop(s), m2)) \in Nat /\ Cardinality(FreeOf(s, m)) \in Nat
  BY <1>6, FreeFinite, OneMore
<1> QED
  BY <1>3, <1>7 DEF Reach

\* A call on an idle thread.
LEMMA CallReach ==
  ASSUME NEW h \in Activation, h.pc = "duty", NEW m
  PROVE  Reach(<<h>>, m) <= Reach(<<>>, m)
<1> DEFINE s == <<h>>
<1>1. s \in Seq(Activation) /\ Len(s) = 1 /\ s[1] = h /\ s # <<>>
  OBVIOUS
<1>2. ~HoldsLevel(1, h) /\ ~Live(h, m)
  BY DEF HoldsLevel, Before, Live
<1> HIDE DEF s
<1>3. Height(s, m) = 0 /\ Height(<<>>, m) = 0
  <2>1. Height(s, m) = (1 - 1) + (IF Live(h, m) THEN 1 ELSE 0) + (IF 1 >= 2 THEN 1 ELSE 0)
    BY <1>1 DEF Height
  <2>2. Height(s, m) = 0
    BY <1>2, <2>1
  <2> QED
    BY <2>2 DEF Height
<1>4. \A d : ~Holds(s, d) /\ ~Holds(<<>>, d)
  <2>1. /\ \A k : k \in 1..Len(s) => k = 1
        /\ \A k : k \notin 1..Len(<<>>)
    BY <1>1
  <2> QED
    BY <1>1, <1>2, <2>1, Zenon DEF Holds
<1>5. FreeOf(s, m) = FreeOf(<<>>, m)
  BY <1>4, Zenon DEF FreeOf
<1> QED
  BY <1>3, <1>5, FreeFinite DEF Reach, s

-----------------------------------------------------------------------------
(* The depth of the calls.                                                 *)

\* A level that goes on, a call and a return leave a first level that is not
\* earlier than it was.
LEMMA FirstReplace ==
  ASSUME NEW s \in Seq(Activation), s # <<>>, NEW g \in Activation,
         g.chan = s[Len(s)].chan, g.to = s[Len(s)].to,
         g.pc \in Before => s[Len(s)].pc \in Before
  PROVE  KeepsFirst(s, Replace(s, g))
<1> DEFINE r == Replace(s, g)
<1>1. /\ r \in Seq(Activation) /\ Len(r) = Len(s) /\ r[Len(s)] = g
      /\ \A k \in 1..Len(s) : k # Len(s) => r[k] = s[k]
  BY ReplaceLast
<1>2. 1 \in 1..Len(s)
  BY EmptyOrNot
<1>3. r[1] = s[1] \/ (Len(s) = 1 /\ r[1] = g)
  BY <1>1, <1>2
<1> HIDE DEF r
<1>4. /\ r[1].chan = s[1].chan /\ r[1].to = s[1].to
      /\ r[1].pc \in Before => s[1].pc \in Before
  BY <1>3, Zenon
<1> QED
  BY <1>4, Zenon DEF KeepsFirst, UnwrittenFull, HalfOf, r

LEMMA FirstPush ==
  ASSUME NEW s \in Seq(Activation), s # <<>>, NEW h \in Activation
  PROVE  KeepsFirst(s, Append(s, h))
<1>1. Append(s, h)[1] = s[1]
  BY EmptyOrNot
<1> QED
  BY <1>1, Zenon DEF KeepsFirst, UnwrittenFull, HalfOf

LEMMA FirstPop ==
  ASSUME NEW s \in Seq(Activation), s # <<>>
  PROVE  KeepsFirst(s, Pop(s))
<1>1. /\ Pop(s) \in Seq(Activation) /\ Len(Pop(s)) = Len(s) - 1
      /\ \A k \in 1..(Len(s) - 1) : Pop(s)[k] = s[k]
  BY PopLast
<1>2. Pop(s) # <<>> => Len(Pop(s)) >= 1
  BY <1>1, EmptyOrNot
<1>3. Pop(s) # <<>> => Pop(s)[1] = s[1]
  BY <1>1, <1>2
<1> QED
  BY <1>3, Zenon DEF KeepsFirst, UnwrittenFull, HalfOf

\* The channels at full power are finitely many.
LEMMA FullOnesFinite ==
  IsFiniteSet(FullOnes) /\ Cardinality(FullOnes) \in Nat
<1>1. FullOnes \in SUBSET Chan
  BY Zenon DEF FullOnes
<1>2. IsFiniteSet(Chan)
  BY FS_Interval, ChannelsAssumption DEF Chan
<1> QED
  BY <1>1, <1>2, FS_Subset, FS_CardinalityType

\* The arithmetic of a step.
LEMMA Balance ==
  ASSUME NEW a \in Nat, NEW b \in Nat, NEW r \in Nat, NEW n \in Nat,
         NEW a2 \in Nat, NEW b2 \in Nat, NEW r2 \in Nat, NEW n2 \in Nat,
         NEW x \in Int, NEW y \in Int, NEW z \in Int,
         2 * a + b + r <= 2 * n,
         a2 <= a + x, b2 <= b + y, r2 <= r + z, 2 * x + y + z <= 2 * (n2 - n)
  PROVE  2 * a2 + b2 + r2 <= 2 * n2
  OBVIOUS

\* What a step takes from the budget it gives back.
LEMMA BudgetKept ==
  ASSUME TypeOK, TypeOK', Budget, NEW x \in Int, NEW y \in Int, NEW z \in Int,
         IsFiniteSet(Coming)', Cardinality(Coming)' <= Cardinality(Coming) + x,
         IsFiniteSet(FullOnes)', Cardinality(FullOnes)' <= Cardinality(FullOnes) + y,
         \A u \in Threads : Reach(stack'[u], mode') <= Reach(stack[u], mode) + z,
         2 * x + y + z <= 2 * (calls' - calls)
  PROVE  Budget'
<1>1. calls \in Nat /\ calls' \in Nat
  BY DEF TypeOK
<1>2. /\ Cardinality(Coming) \in Nat /\ Cardinality(Coming)' \in Nat
      /\ Cardinality(FullOnes)' \in Nat
  BY FS_CardinalityType DEF Budget
<1>3. Cardinality(FullOnes) \in Nat
  BY FullOnesFinite
<1>4. ASSUME NEW u \in Threads
      PROVE  2 * Cardinality(Coming)' + Cardinality(FullOnes)' + Reach(stack'[u], mode')
               <= 2 * calls'
  <2>1. stack[u] \in Seq(Activation) /\ stack'[u] \in Seq(Activation)
    BY DEF TypeOK
  <2>2. Reach(stack[u], mode) \in Nat /\ Reach(stack'[u], mode') \in Nat
    BY <2>1, HeightTyped
  <2>3. /\ 2 * Cardinality(Coming) + Cardinality(FullOnes) + Reach(stack[u], mode) <= 2 * calls
        /\ Reach(stack'[u], mode') <= Reach(stack[u], mode) + z
    BY DEF Budget
  <2> QED
    BY <1>1, <1>2, <1>3, <2>2, <2>3, Balance
<1> QED
  BY <1>4 DEF Budget

\* A thread's step and the two sets, for what it leaves on its stack.
LEMMA ComingKept ==
  ASSUME TypeOK, NEW t \in Threads, NEW q, stack' = [stack EXCEPT ![t] = q],
         KeepsFirst(stack[t], q)
  PROVE  Coming' \subseteq Coming
<1>1. \A u \in Threads : UnwrittenFull(stack'[u]) => UnwrittenFull(stack[u])
  <2>1. stack'[t] = q /\ \A u \in Threads : u # t => stack'[u] = stack[u]
    BY DEF TypeOK
  <2> QED
    BY <2>1, Zenon DEF KeepsFirst
<1> QED
  BY <1>1, Zenon DEF Coming

\* Such a stack makes no half() of the timer task begin.
LEMMA HalfKept ==
  ASSUME TypeOK, NEW t \in Threads, NEW q, stack' = [stack EXCEPT ![t] = q],
         KeepsFirst(stack[t], q)
  PROVE  \A c \in Chan : HalfOf(stack'[TimerTask], c) => HalfOf(stack[TimerTask], c)
<1>1. stack'[t] = q /\ \A u \in Threads : u # t => stack'[u] = stack[u]
  BY DEF TypeOK
<1>2. TimerTask \in Threads
  BY DEF Threads
<1> QED
  BY <1>1, <1>2, Zenon DEF KeepsFirst

\* A step that assigns no mode and begins no call.
LEMMA QuietStep ==
  ASSUME TypeOK, TypeOK', Budget, NEW t \in Threads, NEW q,
         stack' = [stack EXCEPT ![t] = q], mode' = mode, calls' = calls,
         KeepsFirst(stack[t], q), Reach(q, mode) <= Reach(stack[t], mode)
  PROVE  Budget'
<1>1. Coming' \subseteq Coming
  BY ComingKept
<1>2. FullOnes' \subseteq FullOnes
  BY HalfKept, Zenon DEF FullOnes
<1>3. IsFiniteSet(Coming)' /\ Cardinality(Coming)' <= Cardinality(Coming) + 0
  BY <1>1, FewerOrSame DEF Budget
<1>4. IsFiniteSet(FullOnes)' /\ Cardinality(FullOnes)' <= Cardinality(FullOnes) + 0
  BY <1>2, FullOnesFinite, FewerOrSame
<1>5. ASSUME NEW u \in Threads
      PROVE  Reach(stack'[u], mode') <= Reach(stack[u], mode) + 0
  <2>1. Reach(stack[u], mode) \in Nat
    BY HeightTyped DEF TypeOK
  <2>2. stack'[u] = IF u = t THEN q ELSE stack[u]
    BY DEF TypeOK
  <2> QED
    BY <2>1, <2>2
<1>6. 2 * 0 + 0 + 0 <= 2 * (calls' - calls)
  BY DEF TypeOK
<1> QED
  BY <1>3, <1>4, <1>5, <1>6, BudgetKept

\* The assignment of a mode: what set(true) had coming becomes a channel at full
\* power and a longer reach, and what half() held becomes a longer reach.
LEMMA SetModeBudget ==
  ASSUME TypeOK, TypeOK', Shapes, Budget, NEW t \in Threads, SetMode(t)
  PROVE  Budget'
<1> DEFINE s == stack[t]
           f == Top(t)
           g == [f EXCEPT !.pc = "exclude"]
<1>1. s \in Seq(Activation) /\ s # <<>> /\ f = s[Len(s)] /\ Len(s) \in 1..Len(s)
  BY TopTyped DEF TypeOK, SetMode, At, Top
<1>2. f \in Activation /\ f.chan \in Chan /\ f.to \in Mode /\ f.pc = "mode"
  BY <1>1, TopTyped DEF SetMode, At, Activation
<1>3. g \in Activation /\ g.chan = f.chan /\ g.to = f.to /\ g.pc = "exclude"
  BY <1>2 DEF Activation, PC
<1>4. mode' = [mode EXCEPT ![f.chan] = f.to] /\ calls' = calls
  BY DEF SetMode
<1>5. mode'[f.chan] = f.to /\ \A d \in Chan : d # f.chan => mode'[d] = mode[d]
  BY <1>2, <1>4 DEF TypeOK
<1>6. \A d \in Chan : d # f.chan /\ IsOn(mode', d) => IsOn(mode, d)
  BY <1>5, Zenon DEF IsOn
<1>7. f.to = "ehalf" \/ stack' = [stack EXCEPT ![t] = Replace(s, g)]
  BY DEF SetMode, Go
<1>8. \A u \in Threads : u # t => stack'[u] = stack[u]
  BY DEF SetMode, Go, Return, TypeOK
<1>9. calls \in Nat
  BY DEF TypeOK
<1>10. /\ IsFiniteSet(Coming) /\ Cardinality(Coming) \in Nat
       /\ IsFiniteSet(FullOnes) /\ Cardinality(FullOnes) \in Nat
  BY FullOnesFinite, FS_CardinalityType DEF Budget
<1>11. f.to # "eoff" => Len(s) = 1
  <2>1. Len(s) > 1 => f.to = "eoff"
    BY <1>1, Zenon DEF Shapes, Shape
  <2> HIDE DEF s, f
  <2>2. Len(s) >= 1
    BY <1>1, EmptyOrNot, Zenon
  <2>3. Len(s) \in Nat
    <3>1. s \in Seq(Activation)
      BY <1>1
    <3> QED
      BY <3>1
  <2> DEFINE n == Len(s)
  <2>4. n = 1 \/ n > 1
    <3> HIDE DEF n
    <3> QED
      BY <2>2, <2>3 DEF n
  <2> QED
    BY <2>1, <2>4, Zenon
<1>12. f.to = "ehalf" => t = TimerTask
  BY <1>1, Zenon DEF Shapes, Shape
<1>13. KeepsFirst(s, Replace(s, g))
  <2>1. g.pc \notin Before
    BY <1>3 DEF Before
  <2> HIDE DEF s, g
  <2> QED
    BY <1>1, <1>3, <2>1, FirstReplace
<1>14. \A u \in Threads : stack[u] \in Seq(Activation)
  BY DEF TypeOK
<1> HIDE DEF s, f, g
<1>15. CASE f.to = "eoff"
  <2>1. stack' = [stack EXCEPT ![t] = Replace(s, g)]
    BY <1>7, <1>15
  <2>2. Coming' \subseteq Coming
    BY <1>13, <2>1, ComingKept DEF s
  <2>3. \A c \in Chan : mode'[c] = "efull" => mode[c] = "efull"
    BY <1>5, <1>15
  <2>4. FullOnes' \subseteq FullOnes
    <3>1. \A c \in Chan : HalfOf(stack'[TimerTask], c) => HalfOf(stack[TimerTask], c)
      BY <1>13, <2>1, HalfKept DEF s
    <3> QED
      BY <2>3, <3>1, Zenon DEF FullOnes
  <2>5. ~IsOn(mode', f.chan)
    BY <1>5, <1>15 DEF IsOn
  <2>6. ASSUME NEW u \in Threads
        PROVE  Reach(stack'[u], mode') <= Reach(stack[u], mode) + 0
    <3>1. Reach(stack[u], mode) \in Nat
      BY <1>14, HeightTyped
    <3>2. CASE u = t
      <4>1. Reach(Replace(s, g), mode') <= Reach(s, mode)
        BY <1>1, <1>2, <1>3, <1>6, <2>5, WriteOffReach
      <4>2. stack'[u] = Replace(s, g)
        BY <2>1, <3>2 DEF TypeOK
      <4> QED
        BY <3>1, <3>2, <4>1, <4>2 DEF s
    <3>3. CASE u # t
      <4>1. \A d \in Chan : IsOn(mode', d) => IsOn(mode, d)
        BY <1>6, <2>5, Zenon
      <4>2. Reach(stack[u], mode') <= Reach(stack[u], mode)
        BY <1>14, <4>1, OffReach
      <4> QED
        BY <1>8, <3>1, <3>3, <4>2
    <3> QED
      BY <3>2, <3>3
  <2>7. IsFiniteSet(Coming)' /\ Cardinality(Coming)' <= Cardinality(Coming) + 0
    BY <1>10, <2>2, FewerOrSame
  <2>8. IsFiniteSet(FullOnes)' /\ Cardinality(FullOnes)' <= Cardinality(FullOnes) + 0
    BY <1>10, <2>4, FewerOrSame
  <2>9. 2 * 0 + 0 + 0 <= 2 * (calls' - calls)
    BY <1>4, <1>9
  <2> QED
    BY <2>6, <2>7, <2>8, <2>9, BudgetKept
<1>16. ASSUME NEW q, stack'[t] = q, Reach(q, mode') <= Reach(s, mode) + 1
       PROVE  \A u \in Threads : Reach(stack'[u], mode') <= Reach(stack[u], mode) + 1
  <2>1. ASSUME NEW u \in Threads, u # t
        PROVE  Reach(stack[u], mode') <= Reach(stack[u], mode) + 1
    BY <1>2, <1>6, <1>14, <2>1, OnReach
  <2> QED
    BY <1>8, <1>16, <2>1 DEF s
<1>17. CASE f.to = "efull"
  <2>1. stack' = [stack EXCEPT ![t] = Replace(s, g)]
    BY <1>7, <1>17
  <2>2. stack'[t] = Replace(s, g)
    BY <2>1 DEF TypeOK
  <2>3. Len(s) = 1 /\ f = s[1]
    BY <1>1, <1>11, <1>17
  <2>4. t \in Coming
    <3>1. UnwrittenFull(s)
      BY <1>1, <1>2, <1>17, <2>3 DEF UnwrittenFull, Before
    <3> QED
      BY <3>1, Zenon DEF Coming, s
  <2>5. ~UnwrittenFull(stack'[t])
    <3>1. Replace(s, g)[1] = g
      BY <1>1, <1>3, <2>3, OneLevel
    <3> QED
      BY <1>3, <2>2, <3>1 DEF UnwrittenFull, Before
  <2>6. Coming' \subseteq Coming \ {t}
    <3>1. Coming' \subseteq Coming
      BY <1>13, <2>1, ComingKept DEF s
    <3>2. t \notin Coming'
      BY <2>5, Zenon DEF Coming
    <3> QED
      BY <3>1, <3>2
  <2>7. FullOnes' \subseteq FullOnes \cup {f.chan}
    <3>1. \A c \in Chan : HalfOf(stack'[TimerTask], c) => HalfOf(stack[TimerTask], c)
      BY <1>13, <2>1, HalfKept DEF s
    <3> QED
      BY <1>5, <3>1, Zenon DEF FullOnes
  <2>8. \A u \in Threads : Reach(stack'[u], mode') <= Reach(stack[u], mode) + 1
    <3>1. Reach(Replace(s, g), mode') <= Reach(s, mode) + 1
      BY <1>1, <1>2, <1>3, <1>6, <2>3, WriteFullReach
    <3> QED
      BY <1>16, <2>2, <3>1
  <2>9. IsFiniteSet(Coming)' /\ Cardinality(Coming)' <= Cardinality(Coming) + (-1)
    <3>1. IsFiniteSet(Coming)' /\ Cardinality(Coming)' \in Nat
          /\ Cardinality(Coming)' <= Cardinality(Coming) - 1
      BY <1>10, <2>4, <2>6, OneLess
    <3> QED
      BY <1>10, <3>1
  <2>10. IsFiniteSet(FullOnes)' /\ Cardinality(FullOnes)' <= Cardinality(FullOnes) + 1
    BY <1>10, <2>7, OneMore
  <2>11. 2 * (-1) + 1 + 1 <= 2 * (calls' - calls) /\ -1 \in Int
    BY <1>4, <1>9
  <2> QED
    BY <2>8, <2>9, <2>10, <2>11, BudgetKept
<1>18. CASE f.to = "ehalf"
  <2>1. stack' = [stack EXCEPT ![t] = Pop(s)]
    BY <1>18 DEF SetMode, Return, f, s
  <2>2. stack'[t] = Pop(s)
    BY <2>1 DEF TypeOK
  <2>3. Len(s) = 1 /\ f = s[1] /\ t = TimerTask
    BY <1>1, <1>11, <1>12, <1>18
  <2>4. f.chan \in FullOnes
    <3>1. HalfOf(s, f.chan)
      BY <1>1, <1>18, <2>3 DEF HalfOf
    <3> QED
      BY <1>2, <2>3, <3>1, Zenon DEF FullOnes, s
  <2>5. Coming' \subseteq Coming
    <3>1. KeepsFirst(s, Pop(s))
      BY <1>1, FirstPop
    <3> QED
      BY <2>1, <3>1, ComingKept DEF s
  <2>6. FullOnes' \subseteq FullOnes \ {f.chan}
    <3>1. Pop(s) = <<>>
      BY <1>1, <2>3, OneLevel
    <3>2. \A c \in Chan : ~HalfOf(stack'[TimerTask], c)
      BY <2>2, <2>3, <3>1, Zenon DEF HalfOf
    <3>3. mode'[f.chan] # "efull"
      BY <1>5, <1>18
    <3> QED
      BY <1>5, <3>2, <3>3, Zenon DEF FullOnes
  <2>7. \A u \in Threads : Reach(stack'[u], mode') <= Reach(stack[u], mode) + 1
    <3>1. Reach(Pop(s), mode') <= Reach(s, mode) + 1
      BY <1>1, <1>2, <1>6, <2>3, WriteHalfReach
    <3> QED
      BY <1>16, <2>2, <3>1
  <2>8. IsFiniteSet(Coming)' /\ Cardinality(Coming)' <= Cardinality(Coming) + 0
    BY <1>10, <2>5, FewerOrSame
  <2>9. IsFiniteSet(FullOnes)' /\ Cardinality(FullOnes)' <= Cardinality(FullOnes) + (-1)
    <3>1. IsFiniteSet(FullOnes)' /\ Cardinality(FullOnes)' \in Nat
          /\ Cardinality(FullOnes)' <= Cardinality(FullOnes) - 1
      BY <1>10, <2>4, <2>6, OneLess
    <3> QED
      BY <1>10, <3>1
  <2>10. 2 * 0 + (-1) + 1 <= 2 * (calls' - calls) /\ -1 \in Int
    BY <1>4, <1>9
  <2> QED
    BY <2>7, <2>8, <2>9, <2>10, BudgetKept
<1> QED
  BY <1>2, <1>15, <1>17, <1>18 DEF Mode

\* Every other step of a thread reaches no further than the level it continues.
LEMMA StepBudget ==
  ASSUME TypeOK, TypeOK', Shapes, Budget, NEW t \in Threads, Step(t)
  PROVE  Budget'
<1> DEFINE s == stack[t]
           f == Top(t)
           go(pc) == [f EXCEPT !.pc = pc]
<1>1. s \in Seq(Activation) /\ s # <<>> /\ f = s[Len(s)]
  BY DEF TypeOK, Top, Step, At, SetDuty, SetPeriod, StartTimer, StopTimer, SetMode, Exclude,
         SwitchOther, SkipOther, ReadState, WriteState
<1>2. f \in Activation
  BY <1>1, TopTyped
<1>3. \A pc \in PC : /\ go(pc) \in Activation /\ go(pc).pc = pc
                     /\ go(pc).to = f.to /\ go(pc).chan = f.chan
  BY <1>2 DEF Activation
<1>4. \A c : On(c) <=> IsOn(mode, c)
  BY DEF On, IsOn
<1>5. ASSUME NEW g \in Activation, stack' = [stack EXCEPT ![t] = Replace(s, g)],
             mode' = mode, calls' = calls, g.chan = f.chan, g.to = f.to,
             g.pc \in Before => f.pc \in Before,
             Live(g, mode) => Live(f, mode),
             IsOn(mode, g.chan) /\ HoldsLevel(Len(s), f) /\ ~HoldsLevel(Len(s), g)
               => Live(f, mode) /\ ~Live(g, mode)
      PROVE  Budget'
  <2> HIDE DEF s, f
  <2>1. KeepsFirst(s, Replace(s, g))
    BY <1>1, <1>5, FirstReplace
  <2>2. Reach(Replace(s, g), mode) <= Reach(s, mode)
    BY <1>1, <1>5, ReplaceReach
  <2> QED
    BY <1>5, <2>1, <2>2, QuietStep DEF s
<1>6. ASSUME NEW pc \in Before, f.pc \in Before, Go(t, pc), mode' = mode, calls' = calls
      PROVE  Budget'
  <2>1. go(pc) \in Activation /\ go(pc).pc = pc /\ go(pc).to = f.to /\ go(pc).chan = f.chan
    BY <1>3 DEF Before, PC
  <2>2. stack' = [stack EXCEPT ![t] = Replace(s, go(pc))]
    BY <1>6 DEF Go
  <2> HIDE DEF go, s, f
  <2>3. HoldsLevel(Len(s), f) => HoldsLevel(Len(s), go(pc))
    BY <1>6, <2>1, Zenon DEF HoldsLevel, Before
  <2>4. ~Live(go(pc), mode)
    BY <1>6, <2>1 DEF Live, Before
  <2> QED
    BY <1>5, <1>6, <2>1, <2>2, <2>3, <2>4
<1>7. CASE SetDuty(t)
  <2>1. f.pc \in Before
    BY <1>7 DEF SetDuty, At, Before
  <2>2. \E pc \in Before : Go(t, pc)
    BY <1>7 DEF SetDuty, Before
  <2> QED
    BY <1>6, <1>7, <2>1, <2>2 DEF SetDuty
<1>8. CASE SetPeriod(t)
  <2>1. f.pc \in Before /\ "start" \in Before
    BY <1>8 DEF SetPeriod, At, Before
  <2> QED
    BY <1>6, <1>8, <2>1 DEF SetPeriod
<1>9. CASE StartTimer(t)
  <2>1. f.pc \in Before /\ "mode" \in Before
    BY <1>9 DEF StartTimer, At, Before
  <2> QED
    BY <1>6, <1>9, <2>1 DEF StartTimer
<1>10. CASE StopTimer(t)
  <2>1. f.pc \in Before /\ "mode" \in Before
    BY <1>10 DEF StopTimer, At, Before
  <2> QED
    BY <1>6, <1>10, <2>1 DEF StopTimer
<1>11. CASE SetMode(t)
  BY <1>11, SetModeBudget
<1>12. CASE Exclude(t)
  <2> DEFINE pc == IF On(f.chan) THEN "scan" ELSE "read"
  <2>1. f.pc = "exclude" /\ Go(t, pc) /\ mode' = mode /\ calls' = calls
    BY <1>12 DEF Exclude, At
  <2>2. pc \in {"scan", "read"} /\ pc \in PC /\ (pc = "scan" <=> IsOn(mode, f.chan))
    BY <1>4 DEF PC
  <2> HIDE DEF pc
  <2>3. go(pc) \in Activation /\ go(pc).pc = pc /\ go(pc).to = f.to /\ go(pc).chan = f.chan
    BY <1>3, <2>2
  <2>4. stack' = [stack EXCEPT ![t] = Replace(s, go(pc))]
    BY <2>1 DEF Go
  <2> HIDE DEF go, s, f
  <2>5. go(pc).pc \notin Before
    BY <2>2, <2>3 DEF Before
  <2>6. Live(go(pc), mode) => Live(f, mode)
    BY <2>1, <2>2, <2>3 DEF Live
  <2>7. IsOn(mode, go(pc).chan) => HoldsLevel(Len(s), go(pc))
    BY <2>2, <2>3 DEF HoldsLevel
  <2> QED
    BY <1>5, <2>1, <2>3, <2>4, <2>5, <2>6, <2>7
<1>13. CASE SwitchOther(t)
  <2>1. PICK d \in Chan :
          /\ LooksAt(f, d)
          /\ On(d)
          /\ stack' = [stack EXCEPT ![t] = Append(Replace(s, Past(f, d)), Activate(d, "eoff"))]
    BY <1>13 DEF SwitchOther
  <2> DEFINE g == Past(f, d)
             h == Activate(d, "eoff")
             r == Replace(s, g)
  <2>2. f.pc = "scan" /\ mode' = mode /\ calls' = calls
    BY <1>13 DEF SwitchOther, At
  <2>3. d # f.chan
    BY <2>1 DEF LooksAt, Ahead
  <2>4. g \in Activation /\ g.chan = f.chan /\ g.pc = f.pc /\ g.to = f.to
    BY <1>2, PastTyped DEF Past, Activation
  <2>5. h \in Activation /\ h.pc = "duty" /\ h.chan = d
    BY ActivateTyped DEF Mode, Activate
  <2>6. IsOn(mode, h.chan)
    BY <1>4, <2>1, <2>5
  <2>7. g.pc \notin Before
    BY <2>2, <2>4 DEF Before
  <2> HIDE DEF s, f, g, h
  <2>8. Reach(Append(r, h), mode) <= Reach(s, mode)
    BY <1>1, <2>2, <2>3, <2>4, <2>5, <2>6, PushReach
  <2>9. KeepsFirst(s, r) /\ KeepsFirst(r, Append(r, h))
    <3>1. r \in Seq(Activation) /\ r # <<>>
      <4>1. r \in Seq(Activation) /\ Len(r) = Len(s)
        BY <1>1, <2>4, ReplaceLast
      <4> HIDE DEF r
      <4> QED
        BY <1>1, <4>1, EmptyOrNot
    <3>2. KeepsFirst(s, r)
      BY <1>1, <2>4, <2>7, FirstReplace
    <3> HIDE DEF r
    <3> QED
      BY <2>5, <3>1, <3>2, FirstPush
  <2>10. KeepsFirst(s, Append(r, h))
    BY <2>9, Zenon DEF KeepsFirst
  <2>11. stack' = [stack EXCEPT ![t] = Append(r, h)]
    BY <2>1 DEF g, h
  <2> HIDE DEF r
  <2> QED
    BY <2>2, <2>8, <2>10, <2>11, QuietStep DEF s
<1>14. CASE SkipOther(t)
  <2>1. PICK d \in Chan : stack' = [stack EXCEPT ![t] = Replace(s, Past(f, d))]
    BY <1>14 DEF SkipOther
  <2>2. f.pc = "scan" /\ mode' = mode /\ calls' = calls
    BY <1>14 DEF SkipOther, At
  <2> DEFINE g == Past(f, d)
  <2>3. g \in Activation /\ g.chan = f.chan /\ g.pc = f.pc /\ g.to = f.to
    BY <1>2, PastTyped DEF Past, Activation
  <2> HIDE DEF s, f, g
  <2>4. Live(f, mode) /\ HoldsLevel(Len(s), g) /\ g.pc \notin Before
    BY <2>2, <2>3 DEF Live, HoldsLevel, Before
  <2> QED
    BY <1>5, <2>1, <2>2, <2>3, <2>4 DEF g
<1>15. CASE ReadState(t)
  <2> DEFINE g == [f EXCEPT !.pc = "write", !.value = IF On(f.chan) THEN "ON" ELSE "OFF"]
  <2>1. stack' = [stack EXCEPT ![t] = Replace(s, g)] /\ mode' = mode /\ calls' = calls
    BY <1>15 DEF ReadState
  <2>2. f.pc \in {"read", "scan"}
    BY <1>15 DEF ReadState, At
  <2>3. g \in Activation /\ g.pc = "write" /\ g.chan = f.chan /\ g.to = f.to
    BY <1>2 DEF Activation, PC
  <2> HIDE DEF s, f, g
  <2>4. ~Live(g, mode) /\ g.pc \notin Before
    BY <2>3 DEF Live, Before
  <2>5. HoldsLevel(Len(s), f) => Live(f, mode)
    BY <2>2 DEF Live, HoldsLevel, Before
  <2> QED
    BY <1>5, <2>1, <2>3, <2>4, <2>5
<1>16. CASE WriteState(t)
  <2>1. stack' = [stack EXCEPT ![t] = Pop(s)] /\ mode' = mode /\ calls' = calls /\ f.pc = "write"
    BY <1>16 DEF WriteState, Return, At
  <2> HIDE DEF s, f
  <2>2. KeepsFirst(s, Pop(s)) /\ Reach(Pop(s), mode) <= Reach(s, mode)
    BY <1>1, <2>1, FirstPop, PopReach
  <2> QED
    BY <2>1, <2>2, QuietStep DEF s
<1> QED
  BY <1>7, <1>8, <1>9, <1>10, <1>11, <1>12, <1>13, <1>14, <1>15, <1>16 DEF Step

\* A call or an expiry on an idle thread.
LEMMA CallBudget ==
  ASSUME TypeOK, TypeOK', Budget, NEW t \in Threads, stack[t] = <<>>, mode' = mode,
         NEW c \in Chan, NEW m \in Mode, stack' = [stack EXCEPT ![t] = <<Activate(c, m)>>],
         m = "ehalf" => mode[c] = "efull",
         \/ m # "efull" /\ calls' = calls
         \/ calls' = calls + 1
  PROVE  Budget'
<1> DEFINE h == Activate(c, m)
<1>1. h \in Activation /\ h.pc = "duty" /\ h.chan = c /\ h.to = m
  BY ActivateTyped DEF Activate
<1>2. stack'[t] = <<h>> /\ \A u \in Threads : u # t => stack'[u] = stack[u]
  BY DEF TypeOK
<1>3. <<h>>[1] = h /\ <<h>> # <<>>
  OBVIOUS
<1> HIDE DEF h
<1>4. FullOnes' \subseteq FullOnes
  <2>1. ASSUME NEW e \in Chan, HalfOf(stack'[TimerTask], e), ~HalfOf(stack[TimerTask], e)
        PROVE  mode[e] = "efull"
    <3>1. TimerTask = t
      BY <1>2, <2>1 DEF Threads
    <3>2. HalfOf(<<h>>, e)
      BY <1>2, <2>1, <3>1
    <3> QED
      BY <1>1, <1>3, <3>2 DEF HalfOf
  <2> QED
    BY <2>1, Zenon DEF FullOnes
<1>5. IsFiniteSet(FullOnes)' /\ Cardinality(FullOnes)' <= Cardinality(FullOnes) + 0
  BY <1>4, FullOnesFinite, FewerOrSame
<1>6. \A u \in Threads : Reach(stack'[u], mode') <= Reach(stack[u], mode) + 0
  <2>1. ASSUME NEW u \in Threads
        PROVE  Reach(stack'[u], mode') <= Reach(stack[u], mode) + 0
    <3>1. Reach(stack[u], mode) \in Nat
      BY HeightTyped DEF TypeOK
    <3>2. Reach(<<h>>, mode) <= Reach(<<>>, mode)
      BY <1>1, CallReach
    <3> QED
      BY <1>2, <3>1, <3>2
  <2> QED
    BY <2>1
<1>7. calls \in Nat /\ IsFiniteSet(Coming)
  BY DEF TypeOK, Budget
<1>8. CASE m # "efull" /\ calls' = calls
  <2>1. ~UnwrittenFull(<<h>>)
    BY <1>1, <1>3, <1>8 DEF UnwrittenFull
  <2>2. Coming' \subseteq Coming
    BY <1>2, <2>1, Zenon DEF Coming
  <2>3. IsFiniteSet(Coming)' /\ Cardinality(Coming)' <= Cardinality(Coming) + 0
    BY <1>7, <2>2, FewerOrSame
  <2>4. 2 * 0 + 0 + 0 <= 2 * (calls' - calls)
    BY <1>7, <1>8
  <2> QED
    BY <1>5, <1>6, <2>3, <2>4, BudgetKept
<1>9. CASE calls' = calls + 1
  <2>1. Coming' \subseteq Coming \cup {t}
    BY <1>2, Zenon DEF Coming
  <2>2. IsFiniteSet(Coming)' /\ Cardinality(Coming)' <= Cardinality(Coming) + 1
    BY <1>7, <2>1, OneMore
  <2>3. 2 * 1 + 0 + 0 <= 2 * (calls' - calls)
    BY <1>7, <1>9
  <2> QED
    BY <1>5, <1>6, <2>2, <2>3, BudgetKept
<1> QED
  BY <1>8, <1>9

\* Only the first level of a stack switches on, and only the timer's is a half().
LEMMA ShapeReplace ==
  ASSUME NEW t, NEW s \in Seq(Activation), s # <<>>, NEW g \in Activation,
         g.to = s[Len(s)].to, Shape(t, s)
  PROVE  Shape(t, Replace(s, g))
<1> DEFINE r == Replace(s, g)
<1>1. /\ Len(r) = Len(s) /\ r[Len(s)] = g
      /\ \A k \in 1..Len(s) : k # Len(s) => r[k] = s[k]
  BY ReplaceLast
<1> HIDE DEF r
<1>2. \A k \in 1..Len(s) : r[k].to = s[k].to
  BY <1>1
<1> QED
  BY <1>1, <1>2, Zenon DEF Shape, r

\* A level that switches a channel off keeps the shape,
LEMMA ShapePush ==
  ASSUME NEW t, NEW s \in Seq(Activation), s # <<>>, NEW h \in Activation,
         h.to = "eoff", Shape(t, s)
  PROVE  Shape(t, Append(s, h))
<1> DEFINE r == Append(s, h)
<1>1. /\ Len(r) = Len(s) + 1 /\ r[Len(s) + 1] = h /\ Len(s) \in Nat
      /\ \A k \in 1..Len(s) : r[k] = s[k]
  OBVIOUS
<1> HIDE DEF r
<1>2. ASSUME NEW k \in 1..Len(r)
      PROVE  (k > 1 => r[k].to = "eoff") /\ (t # TimerTask => r[k].to # "ehalf")
  <2>1. CASE k = Len(s) + 1
    BY <1>1, <2>1
  <2>2. CASE k # Len(s) + 1
    <3>1. k \in 1..Len(s) /\ r[k] = s[k]
      BY <1>1, <1>2, <2>2
    <3> QED
      BY <3>1, Zenon DEF Shape
  <2> QED
    BY <2>1, <2>2
<1> QED
  BY <1>2, Zenon DEF Shape, r

\* and so does returning.
LEMMA ShapePop ==
  ASSUME NEW t, NEW s \in Seq(Activation), s # <<>>, Shape(t, s)
  PROVE  Shape(t, Pop(s))
<1>1. /\ Len(Pop(s)) = Len(s) - 1 /\ Len(s) \in Nat
      /\ \A k \in 1..(Len(s) - 1) : Pop(s)[k] = s[k]
  BY PopLast
<1>2. \A k \in 1..(Len(s) - 1) : k \in 1..Len(s)
  BY <1>1
<1> QED
  BY <1>1, <1>2, Zenon DEF Shape

\* Every step of a thread keeps the shape of the stacks,
LEMMA StepShapes ==
  ASSUME TypeOK, Shapes, NEW t \in Threads, Step(t)
  PROVE  Shapes'
<1> DEFINE s == stack[t]
           f == Top(t)
<1>1. s \in Seq(Activation) /\ s # <<>> /\ f = s[Len(s)] /\ Shape(t, s)
  BY DEF TypeOK, Top, Step, At, SetDuty, SetPeriod, StartTimer, StopTimer, SetMode, Exclude,
         SwitchOther, SkipOther, ReadState, WriteState, Shapes
<1>2. f \in Activation
  BY <1>1, TopTyped
<1>3. ASSUME NEW q, stack' = [stack EXCEPT ![t] = q], Shape(t, q)
      PROVE  Shapes'
  <2>1. stack'[t] = q /\ \A u \in Threads : u # t => stack'[u] = stack[u]
    BY <1>3 DEF TypeOK
  <2> QED
    BY <1>3, <2>1, Zenon DEF Shapes
<1>4. ASSUME NEW g \in Activation, stack' = [stack EXCEPT ![t] = Replace(s, g)], g.to = f.to
      PROVE  Shapes'
  <2> HIDE DEF s, f
  <2>1. Shape(t, Replace(s, g))
    BY <1>1, <1>4, ShapeReplace
  <2> QED
    BY <1>3, <1>4, <2>1
<1>5. ASSUME NEW pc \in PC, Go(t, pc)
      PROVE  Shapes'
  <2> DEFINE g == [f EXCEPT !.pc = pc]
  <2>1. g \in Activation /\ g.to = f.to
    BY <1>2 DEF Activation
  <2>2. stack' = [stack EXCEPT ![t] = Replace(s, g)]
    BY <1>5 DEF Go
  <2> HIDE DEF g, s, f
  <2> QED
    BY <1>4, <2>1, <2>2
<1>6. CASE Return(t)
  <2>1. stack' = [stack EXCEPT ![t] = Pop(s)]
    BY <1>6 DEF Return
  <2> HIDE DEF s
  <2>2. Shape(t, Pop(s))
    BY <1>1, ShapePop
  <2> QED
    BY <1>3, <2>1, <2>2
<1>7. CASE SwitchOther(t)
  <2>1. PICK d \in Chan :
          stack' = [stack EXCEPT ![t] = Append(Replace(s, Past(f, d)), Activate(d, "eoff"))]
    BY <1>7 DEF SwitchOther
  <2> DEFINE g == Past(f, d)
             h == Activate(d, "eoff")
             r == Replace(s, g)
  <2>2. g \in Activation /\ g.to = f.to
    BY <1>2, PastTyped DEF Past, Activation
  <2>3. h \in Activation /\ h.to = "eoff"
    BY ActivateTyped DEF Mode, Activate
  <2> HIDE DEF s, f, g, h
  <2>4. r \in Seq(Activation) /\ r # <<>>
    <3>1. r \in Seq(Activation) /\ Len(r) = Len(s)
      BY <1>1, <2>2, ReplaceLast
    <3> HIDE DEF r
    <3> QED
      BY <1>1, <3>1, EmptyOrNot
  <2>5. Shape(t, r)
    BY <1>1, <2>2, ShapeReplace
  <2> HIDE DEF r
  <2>6. Shape(t, Append(r, h))
    BY <2>3, <2>4, <2>5, ShapePush
  <2> QED
    BY <1>3, <2>1, <2>6 DEF g, h, r
<1>8. CASE SkipOther(t)
  <2>1. PICK d \in Chan : stack' = [stack EXCEPT ![t] = Replace(s, Past(f, d))]
    BY <1>8 DEF SkipOther
  <2>2. Past(f, d) \in Activation /\ Past(f, d).to = f.to
    BY <1>2, PastTyped DEF Past, Activation
  <2> QED
    BY <1>4, <2>1, <2>2
<1>9. CASE ReadState(t)
  <2> DEFINE g == [f EXCEPT !.pc = "write", !.value = IF On(f.chan) THEN "ON" ELSE "OFF"]
  <2>1. stack' = [stack EXCEPT ![t] = Replace(s, g)]
    BY <1>9 DEF ReadState
  <2>2. g \in Activation /\ g.to = f.to
    BY <1>2 DEF Activation, PC
  <2> HIDE DEF s, f, g
  <2> QED
    BY <1>4, <2>1, <2>2
<1>10. CASE SetMode(t)
  BY <1>5, <1>6, <1>10 DEF SetMode, PC
<1>11. CASE SetDuty(t) \/ SetPeriod(t) \/ StartTimer(t) \/ StopTimer(t) \/ Exclude(t)
  BY <1>5, <1>11 DEF SetDuty, SetPeriod, StartTimer, StopTimer, Exclude, PC
<1>12. CASE WriteState(t)
  BY <1>6, <1>12 DEF WriteState
<1> QED
  BY <1>7, <1>8, <1>9, <1>10, <1>11, <1>12 DEF Step

\* and so does a call or an expiry.
LEMMA CallShapes ==
  ASSUME TypeOK, Shapes, NEW t \in Threads, NEW c, NEW m,
         stack' = [stack EXCEPT ![t] = <<Activate(c, m)>>], t # TimerTask => m # "ehalf"
  PROVE  Shapes'
<1>1. stack'[t] = <<Activate(c, m)>> /\ \A u \in Threads : u # t => stack'[u] = stack[u]
  BY DEF TypeOK
<1>2. Shape(t, <<Activate(c, m)>>)
  BY DEF Shape, Activate
<1> QED
  BY <1>1, <1>2, Zenon DEF Shapes

\* Nothing starts before the first call.
LEMMA StartedStays ==
  ASSUME TypeOK, Started, [Next]_vars
  PROVE  Started'
<1>1. ASSUME NEW t \in Callers, NEW c \in Chan, NEW on \in BOOLEAN, Control(t, c, on)
      PROVE  Started'
  <2>1. calls' # 0
    BY <1>1 DEF Control, TypeOK
  <2> QED
    BY <2>1 DEF Started
<1>2. ASSUME NEW c \in Chan, OnTimer(c)
      PROVE  Started'
  <2>1. calls' = calls /\ calls # 0
    BY <1>2 DEF OnTimer, Started
  <2> QED
    BY <2>1 DEF Started
<1>3. CASE TimerCommand
  <2>1. calls' = calls /\ calls # 0
    BY <1>3 DEF TimerCommand, Started
  <2> QED
    BY <2>1 DEF Started
<1>4. ASSUME NEW t \in Threads, Step(t)
      PROVE  Started'
  <2>1. stack[t] # <<>> /\ calls' = calls
    BY <1>4 DEF Step, At, SetDuty, SetPeriod, StartTimer, StopTimer, SetMode, Exclude,
         SwitchOther, SkipOther, ReadState, WriteState
  <2>2. calls # 0
    BY <2>1 DEF Started, AtRest
  <2> QED
    BY <2>1, <2>2 DEF Started
<1>5. CASE UNCHANGED vars
  BY <1>5 DEF vars, Started, AtRest
<1> QED
  BY <1>1, <1>2, <1>3, <1>4, <1>5 DEF Next

\* No step overdraws the budget,
LEMMA BudgetStep ==
  ASSUME TypeOK, TypeOK', Shapes, Budget, [Next]_vars
  PROVE  Shapes' /\ Budget'
<1>1. ASSUME NEW t \in Callers, NEW c \in Chan, NEW on \in BOOLEAN, Control(t, c, on)
      PROVE  Shapes' /\ Budget'
  <2> DEFINE m == IF on THEN "efull" ELSE "eoff"
  <2>1. t \in Threads /\ t # TimerTask
    BY ChannelsAssumption DEF Threads
  <2>2. m \in Mode /\ m # "ehalf"
    BY DEF Mode
  <2>3. /\ stack[t] = <<>> /\ mode' = mode /\ calls' = calls + 1
        /\ stack' = [stack EXCEPT ![t] = <<Activate(c, m)>>]
    BY <1>1 DEF Control
  <2> HIDE DEF m
  <2> QED
    BY <2>1, <2>2, <2>3, CallShapes, CallBudget
<1>2. ASSUME NEW c \in Chan, OnTimer(c)
      PROVE  Shapes' /\ Budget'
  <2> DEFINE m == IF mode[c] = "efull" THEN "ehalf" ELSE "eoff"
  <2>1. m \in Mode /\ m # "efull" /\ (m = "ehalf" => mode[c] = "efull") /\ TimerTask \in Threads
    BY DEF Mode, Threads
  <2>2. /\ stack[TimerTask] = <<>> /\ mode' = mode /\ calls' = calls
        /\ stack' = [stack EXCEPT ![TimerTask] = <<Activate(c, m)>>]
    BY <1>2 DEF OnTimer
  <2> HIDE DEF m
  <2> QED
    BY <2>1, <2>2, CallShapes, CallBudget
<1>3. CASE TimerCommand \/ UNCHANGED vars
  <2>1. stack' = stack /\ mode' = mode /\ calls' = calls
    BY <1>3 DEF TimerCommand, vars
  <2>2. Coming' = Coming /\ FullOnes' = FullOnes
    BY <2>1, Zenon DEF Coming, FullOnes
  <2> QED
    BY <2>1, <2>2 DEF Shapes, Budget
<1>4. ASSUME NEW t \in Threads, Step(t)
      PROVE  Shapes' /\ Budget'
  BY <1>4, StepShapes, StepBudget
<1> QED
  BY <1>1, <1>2, <1>3, <1>4 DEF Next

\* and at the start nothing is used.
LEMMA BudgetInit ==
  ASSUME Init
  PROVE  Shapes /\ Budget /\ Started
<1>1. \A t \in Threads : stack[t] = <<>>
  BY DEF Init
<1>2. Shapes
  BY <1>1 DEF Shapes, Shape
<1>3. Started
  BY DEF Init, Started, AtRest
<1>4. Coming = {} /\ FullOnes = {}
  <2>1. \A t \in Threads : ~UnwrittenFull(stack[t])
    BY <1>1, Zenon DEF UnwrittenFull
  <2>2. \A c \in Chan : mode[c] # "efull" /\ ~HalfOf(stack[TimerTask], c)
    BY <1>1 DEF HalfOf, Threads, Init
  <2> QED
    BY <2>1, <2>2, Zenon DEF Coming, FullOnes
<1>5. \A t \in Threads : Reach(stack[t], mode) = 0
  <2>1. \A c \in Chan : ~IsOn(mode, c)
    BY DEF Init, IsOn
  <2>2. FreeOf(<<>>, mode) = {}
    BY <2>1, Zenon DEF FreeOf
  <2>3. Reach(<<>>, mode) = 0
    BY <2>2, FS_EmptySet DEF Reach, Height
  <2> QED
    BY <1>1, <2>3
<1>6. IsFiniteSet({}) /\ Cardinality({}) = 0 /\ calls = 0
  BY FS_EmptySet DEF Init
<1>7. Budget
  BY <1>4, <1>5, <1>6 DEF Budget
<1> QED
  BY <1>2, <1>3, <1>7

\* The calls of set() and onNotify() nest no deeper than twice the calls of a
\* control hook, however many channels and threads there are: LedcChan::set,
\* ExclusiveAdapter::onNotify and half() can keep no recursion going.
THEOREM NestingBounded == Spec => []DepthBounded
<1>1. ASSUME TypeOK, Budget, Started
      PROVE  DepthBounded
  <2> SUFFICES ASSUME NEW t \in Threads
               PROVE  Len(stack[t]) <= 2 * calls
    BY DEF DepthBounded
  <2> DEFINE s == stack[t]
             n == Len(s)
  <2>1. s \in Seq(Activation) /\ n \in Nat /\ calls \in Nat
    BY <1>1 DEF TypeOK
  <2>2. s # <<>> => calls # 0
    BY <1>1 DEF Started, AtRest
  <2>3. s # <<>> <=> n >= 1
    BY <2>1, EmptyOrNot
  <2>4. /\ 2 * Cardinality(Coming) + Cardinality(FullOnes) + Reach(s, mode) <= 2 * calls
        /\ Cardinality(Coming) \in Nat /\ Cardinality(FullOnes) \in Nat
    BY <1>1, FullOnesFinite, FS_CardinalityType DEF Budget
  <2>5. Reach(s, mode) >= Height(s, mode) /\ Height(s, mode) \in Nat /\ Reach(s, mode) \in Nat
    <3>1. Height(s, mode) \in Nat /\ Reach(s, mode) \in Nat /\ Cardinality(FreeOf(s, mode)) \in Nat
      BY <2>1, HeightTyped, FreeFinite
    <3> QED
      BY <3>1 DEF Reach
  <2> HIDE DEF s
  <2>6. n >= 2 => Height(s, mode) >= n
    <3> SUFFICES ASSUME n >= 2
                 PROVE  Height(s, mode) >= n
      OBVIOUS
    <3> DEFINE a == IF Live(s[n], mode) THEN 1 ELSE 0
    <3>1. Height(s, mode) = (n - 1) + a + (IF n >= 2 THEN 1 ELSE 0)
      BY <2>1, <2>3 DEF Height
    <3>2. a \in Nat
      OBVIOUS
    <3> HIDE DEF a, n
    <3> QED
      BY <2>1, <3>1, <3>2
  <2> HIDE DEF n
  <2>7. n <= 2 * calls
    BY <2>1, <2>2, <2>3, <2>4, <2>5, <2>6
  <2> QED
    BY <2>7 DEF s, n
<1>2. ASSUME TypeOK, TypeOK', Shapes, Budget, Started, [Next]_vars
      PROVE  Shapes' /\ Budget' /\ Started'
  BY <1>2, BudgetStep, StartedStays
<1>3. Init => Shapes /\ Budget /\ Started
  BY BudgetInit
<1> QED
  BY <1>1, <1>2, <1>3, TypeCorrect, PTL DEF Spec

-----------------------------------------------------------------------------
(* Calls that do not overlap.  One thread at most is under way; its stack  *)
(* has one level, or two while the first has another channel closed.       *)

Single(m) == \A c, d \in Chan : IsOn(m, c) /\ IsOn(m, d) => c = d

Shows(m, c) == IF IsOn(m, c) THEN "ON" ELSE "OFF"

\* set() or half() on the way to its assignment of the mode,
Starting(f, m) ==
  /\ f.pc \in IF f.to = "eoff" THEN {"duty", "stop", "mode"}
                               ELSE {"duty", "period", "start", "mode"}
  /\ f.to = "ehalf" => m[f.chan] = "efull"
  /\ Single(m)

\* set(true) that looks for the one other channel that may be on,
Scanning(f, m) ==
  /\ f.to = "efull" /\ f.pc \in {"exclude", "scan"}
  /\ m[f.chan] = "efull"
  /\ \A d \in Chan : d # f.chan /\ IsOn(m, d) => f.next <= d
  /\ \A c, d \in Chan : c # f.chan /\ d # f.chan /\ IsOn(m, c) /\ IsOn(m, d) => c = d

\* has found it and switches it off,
Closing(f, g, m) ==
  /\ f.to = "efull" /\ f.pc = "scan" /\ m[f.chan] = "efull"
  /\ g.to = "eoff" /\ g.chan # f.chan /\ g.pc \in {"duty", "stop", "mode"}
  /\ \A d \in Chan : IsOn(m, d) => d \in {f.chan, g.chan}

\* waits for its report,
Closed(f, g, m) ==
  /\ f.to = "efull" /\ f.pc = "scan" /\ m[f.chan] = "efull"
  /\ g.to = "eoff" /\ g.chan # f.chan /\ g.pc \in {"exclude", "read", "write"}
  /\ g.pc = "write" => g.value = "OFF"
  /\ \A d \in Chan : IsOn(m, d) => d = f.chan

\* and at last makes its own.
Ending(f, m) ==
  /\ \/ f.pc = "exclude" /\ f.to = "eoff"
     \/ f.pc = "read" /\ f.to = "eoff"
     \/ f.pc = "write" /\ f.to # "ehalf"
  /\ f.pc # "write" => ~IsOn(m, f.chan)
  /\ f.pc = "write" => f.value = Shows(m, f.chan)
  /\ Single(m)

Calm(s, m) ==
  \/ s = <<>> /\ Single(m)
  \/ \E f \in Activation :
       s = <<f>> /\ (Starting(f, m) \/ Scanning(f, m) \/ Ending(f, m))
  \/ \E f, g \in Activation :
       s = <<f, g>> /\ (Closing(f, g, m) \/ Closed(f, g, m))

\* The thread that is under way, or any when none is.
Acts(t) == stack[t] # <<>> \/ AtRest

Alone == \A t, u \in Threads : stack[t] # <<>> /\ stack[u] # <<>> => t = u

CalmInv == Alone /\ \A t \in Threads : Acts(t) => Calm(stack[t], mode)

\* Stacks of one level and of two.
LEMMA OneTuple ==
  ASSUME NEW f \in Activation, NEW h \in Activation
  PROVE  /\ <<f>> \in Seq(Activation) /\ <<f>> # <<>> /\ Len(<<f>>) = 1 /\ <<f>>[1] = f
         /\ Replace(<<f>>, h) = <<h>>
         /\ Pop(<<f>>) = <<>>
         /\ Append(<<f>>, h) = <<f, h>>
<1> DEFINE s == <<f>>
<1>0. Append(<<f>>, h) = <<f, h>>
  <2> DEFINE q == Append(<<f>>, h)
             r == <<f, h>>
  <2>1. q \in Seq(Activation) /\ Len(q) = 2 /\ q[1] = f /\ q[2] = h
    OBVIOUS
  <2>2. r \in Seq(Activation) /\ Len(r) = 2 /\ r[1] = f /\ r[2] = h
    OBVIOUS
  <2> HIDE DEF q, r
  <2>3. \A i \in 1..Len(q) : q[i] = r[i]
    BY <2>1, <2>2
  <2>4. q = r
    BY <2>1, <2>2, <2>3, SeqEqual
  <2> QED
    BY <2>4 DEF q, r
<1>1. s \in Seq(Activation) /\ Len(s) = 1 /\ s[1] = f
  OBVIOUS
<1>2. Replace(s, h) = <<h>>
  BY DEF Replace
<1> HIDE DEF s
<1>3. s # <<>> /\ Pop(s) = <<>>
  BY <1>1, OneLevel
<1> QED
  BY <1>0, <1>1, <1>2, <1>3 DEF s

\* The same for two levels.
LEMMA TwoTuple ==
  ASSUME NEW f \in Activation, NEW g \in Activation, NEW h \in Activation
  PROVE  /\ <<f, g>> \in Seq(Activation) /\ <<f, g>> # <<>> /\ Len(<<f, g>>) = 2
         /\ <<f, g>>[1] = f /\ <<f, g>>[2] = g
         /\ Replace(<<f, g>>, h) = <<f, h>>
         /\ Pop(<<f, g>>) = <<f>>
<1> DEFINE s == <<f, g>>
<1>1. s \in Seq(Activation) /\ Len(s) = 2 /\ s[1] = f /\ s[2] = g
  OBVIOUS
<1>2. Replace(s, h) = <<f, h>>
  BY DEF Replace
<1>3. s # <<>>
  OBVIOUS
<1> HIDE DEF s
<1>4. Pop(s) \in Seq(Activation) /\ Len(Pop(s)) = 1 /\ Pop(s)[1] = s[1]
  <2>1. /\ Pop(s) \in Seq(Activation) /\ Len(Pop(s)) = Len(s) - 1
        /\ \A k \in 1..(Len(s) - 1) : Pop(s)[k] = s[k]
    BY <1>1, <1>3, PopLast
  <2> QED
    BY <1>1, <2>1
<1>5. Pop(s) = <<f>>
  BY <1>1, <1>4
<1> QED
  BY <1>1, <1>2, <1>3, <1>5 DEF s

\* The thread that acts is alone and stays so.
LEMMA ActsAlone ==
  ASSUME TypeOK, NEW t \in Threads, \A u \in Threads : u # t => stack[u] = <<>>,
         NEW q, stack' = [stack EXCEPT ![t] = q]
  PROVE  /\ Alone'
         /\ \A u \in Threads : Acts(u)' => stack'[u] = q
<1>1. stack'[t] = q /\ \A u \in Threads : u # t => stack'[u] = <<>>
  BY DEF TypeOK
<1>2. Alone'
  BY <1>1 DEF Alone
<1>3. \A u \in Threads : Acts(u)' => stack'[u] = q
  BY <1>1 DEF Acts, AtRest
<1> QED
  BY <1>2, <1>3

\* When a thread acts, no other has a call under way.
LEMMA OthersIdle ==
  ASSUME Alone, NEW t \in Threads, Acts(t)
  PROVE  \A u \in Threads : u # t => stack[u] = <<>>
  BY DEF Alone, Acts, AtRest

\* The forms of a stack by its last level.
LEMMA CalmForms ==
  ASSUME NEW s, s # <<>>, NEW m, Calm(s, m)
  PROVE  \/ \E f \in Activation :
              /\ s = <<f>> /\ s[Len(s)] = f
              /\ Starting(f, m) \/ Scanning(f, m) \/ Ending(f, m)
         \/ \E f, g \in Activation :
              /\ s = <<f, g>> /\ s[Len(s)] = g
              /\ Closing(f, g, m) \/ Closed(f, g, m)
<1>1. ASSUME NEW f \in Activation
      PROVE  <<f>>[Len(<<f>>)] = f
  OBVIOUS
<1>2. ASSUME NEW f \in Activation, NEW g \in Activation
      PROVE  <<f, g>>[Len(<<f, g>>)] = g
  OBVIOUS
<1>3. CASE \E f \in Activation :
             s = <<f>> /\ (Starting(f, m) \/ Scanning(f, m) \/ Ending(f, m))
  BY <1>1, <1>3, Zenon
<1>4. CASE \E f, g \in Activation :
             s = <<f, g>> /\ (Closing(f, g, m) \/ Closed(f, g, m))
  <2>1. PICK f \in Activation, g \in Activation :
               s = <<f, g>> /\ (Closing(f, g, m) \/ Closed(f, g, m))
    BY <1>4, Zenon
  <2>2. s[Len(s)] = g
    BY <1>2, <2>1, Zenon
  <2> QED
    BY <2>1, <2>2, Zenon
<1> QED
  BY <1>3, <1>4, Zenon DEF Calm

\* Two levels are in a form of their own.
LEMMA CalmTwo ==
  ASSUME NEW f \in Activation, NEW g \in Activation, NEW m,
         Closing(f, g, m) \/ Closed(f, g, m)
  PROVE  Calm(<<f, g>>, m)
<1>1. \E x, y \in Activation : <<f, g>> = <<x, y>> /\ (Closing(x, y, m) \/ Closed(x, y, m))
  OBVIOUS
<1> QED
  BY <1>1, Zenon DEF Calm

\* A step of the thread that acts brings its stack from one form to the next.
LEMMA CalmStep ==
  ASSUME TypeOK, FreshScan, CalmInv, NEW t \in Threads, Step(t)
  PROVE  CalmInv'
<1> DEFINE s == stack[t]
           e == Top(t)
           go(pc) == [e EXCEPT !.pc = pc]
<1>1. s \in Seq(Activation) /\ s # <<>> /\ e = s[Len(s)]
  BY DEF TypeOK, Top, Step, At, SetDuty, SetPeriod, StartTimer, StopTimer, SetMode, Exclude,
         SwitchOther, SkipOther, ReadState, WriteState
<1>2. e \in Activation
  BY <1>1, TopTyped
<1>3. \A pc \in PC : /\ go(pc) \in Activation /\ go(pc).pc = pc
                     /\ go(pc).to = e.to /\ go(pc).chan = e.chan
                     /\ go(pc).next = e.next /\ go(pc).value = e.value
  BY <1>2 DEF Activation
<1>4. Calm(s, mode) /\ Alone /\ \A u \in Threads : u # t => stack[u] = <<>>
  BY <1>1, OthersIdle DEF CalmInv, Acts
<1>5. ASSUME NEW q, stack' = [stack EXCEPT ![t] = q], Calm(q, mode')
      PROVE  CalmInv'
  <2>1. Alone' /\ \A u \in Threads : Acts(u)' => stack'[u] = q
    BY <1>4, <1>5, ActsAlone
  <2> QED
    BY <1>5, <2>1 DEF CalmInv
<1>6. \A c : On(c) <=> IsOn(mode, c)
  BY DEF On, IsOn
<1>7. \/ \E f \in Activation :
            s = <<f>> /\ e = f /\ (Starting(f, mode) \/ Scanning(f, mode) \/ Ending(f, mode))
      \/ \E f, g \in Activation :
            s = <<f, g>> /\ e = g /\ (Closing(f, g, mode) \/ Closed(f, g, mode))
  <2> HIDE DEF s, e
  <2> QED
    BY <1>1, <1>4, CalmForms, Zenon
<1>8. ASSUME NEW f \in Activation, NEW h \in Activation, s = <<f>>,
             stack' = [stack EXCEPT ![t] = Replace(s, h)],
             Starting(h, mode') \/ Scanning(h, mode') \/ Ending(h, mode')
      PROVE  CalmInv'
  <2>1. Replace(s, h) = <<h>>
    BY <1>8, OneTuple, Zenon
  <2>2. Calm(<<h>>, mode')
    BY <1>8, Zenon DEF Calm
  <2> HIDE DEF s
  <2> QED
    BY <1>5, <1>8, <2>1, <2>2
<1>9. ASSUME NEW f \in Activation, NEW g \in Activation, NEW h \in Activation, s = <<f, g>>,
             stack' = [stack EXCEPT ![t] = Replace(s, h)],
             Closing(f, h, mode') \/ Closed(f, h, mode')
      PROVE  CalmInv'
  <2>1. Replace(s, h) = <<f, h>>
    <3>1. Replace(<<f, g>>, h) = <<f, h>>
      BY <1>9, TwoTuple
    <3> HIDE DEF s
    <3> QED
      BY <1>9, <3>1
  <2>2. Calm(<<f, h>>, mode')
    BY <1>9, CalmTwo
  <2> HIDE DEF s
  <2> QED
    BY <1>5, <1>9, <2>1, <2>2
<1> HIDE DEF s, e
\* Before the mode is assigned.
<1>10. ASSUME NEW pc \in PC, stack' = [stack EXCEPT ![t] = Replace(s, go(pc))], mode' = mode,
              e.pc \in {"duty", "period", "start", "stop"},
              pc \in IF e.to = "eoff" THEN {"stop", "mode"} ELSE {"period", "start", "mode"}
       PROVE  CalmInv'
  <2> DEFINE h == go(pc)
  <2>1. h \in Activation /\ h.pc = pc /\ h.to = e.to /\ h.chan = e.chan
    BY <1>3
  <2> HIDE DEF h
  <2>2. CASE \E f \in Activation :
               s = <<f>> /\ e = f /\ (Starting(f, mode) \/ Scanning(f, mode) \/ Ending(f, mode))
    <3>1. PICK f \in Activation :
               s = <<f>> /\ e = f /\ (Starting(f, mode) \/ Scanning(f, mode) \/ Ending(f, mode))
      BY <2>2
    <3>2. Starting(e, mode)
      BY <1>10, <3>1 DEF Scanning, Ending
    <3>3. Starting(h, mode')
      BY <1>10, <2>1, <3>2 DEF Starting
    <3> QED
      BY <1>8, <1>10, <2>1, <3>1, <3>3 DEF h
  <2>3. CASE \E f, g \in Activation :
               s = <<f, g>> /\ e = g /\ (Closing(f, g, mode) \/ Closed(f, g, mode))
    <3>1. PICK f \in Activation, g \in Activation :
               s = <<f, g>> /\ e = g /\ (Closing(f, g, mode) \/ Closed(f, g, mode))
      BY <2>3
    <3>2. Closing(f, e, mode)
      BY <1>10, <3>1 DEF Closed
    <3>3. Closing(f, h, mode')
      BY <1>10, <2>1, <3>2 DEF Closing
    <3> QED
      BY <1>9, <1>10, <2>1, <3>1, <3>3 DEF h
  <2> QED
    BY <1>7, <2>2, <2>3
<1>11. /\ e.pc \in {"period", "start"} => e.to # "eoff"
       /\ e.pc = "stop" => e.to = "eoff"
  BY <1>7 DEF Starting, Scanning, Ending, Closing, Closed
<1>12. CASE SetDuty(t)
  BY <1>10, <1>12 DEF SetDuty, Go, At, PC, e, s
<1>13. CASE SetPeriod(t)
  BY <1>10, <1>11, <1>13 DEF SetPeriod, Go, At, PC, e, s
<1>14. CASE StartTimer(t)
  BY <1>10, <1>11, <1>14 DEF StartTimer, Go, At, PC, e, s
<1>15. CASE StopTimer(t)
  BY <1>10, <1>11, <1>15 DEF StopTimer, Go, At, PC, e, s
<1>16. CASE SetMode(t)
  <2> DEFINE h == go("exclude")
  <2>1. e.pc = "mode" /\ mode' = [mode EXCEPT ![e.chan] = e.to] /\ e.chan \in Chan
    BY <1>2, <1>16 DEF SetMode, At, e, Activation
  <2>2. mode'[e.chan] = e.to /\ \A d \in Chan : d # e.chan => mode'[d] = mode[d]
    BY <2>1 DEF TypeOK
  <2>3. \A d \in Chan : d # e.chan => (IsOn(mode', d) <=> IsOn(mode, d))
    BY <2>2, Zenon DEF IsOn
  <2>4. e.to = "eoff" => ~IsOn(mode', e.chan)
    BY <2>2 DEF IsOn
  <2>5. h \in Activation /\ h.pc = "exclude" /\ h.to = e.to /\ h.chan = e.chan /\ h.next = e.next
    BY <1>3 DEF PC
  <2>6. e.to # "ehalf" => stack' = [stack EXCEPT ![t] = Replace(s, h)]
    BY <1>16 DEF SetMode, Go, e, s
  <2> HIDE DEF h
  <2>7. ASSUME NEW f \in Activation, s = <<f>>, e = f,
               Starting(f, mode) \/ Scanning(f, mode) \/ Ending(f, mode)
        PROVE  CalmInv'
    <3>1. Starting(e, mode)
      BY <2>1, <2>7 DEF Scanning, Ending
    <3>2. Single(mode)
      BY <3>1 DEF Starting
    <3>3. CASE e.to = "efull"
      <4>1. e.next = 1
        BY <1>1, <2>1 DEF FreshScan, s
      <4>2. \A c, d \in Chan : c # h.chan /\ d # h.chan /\ IsOn(mode', c) /\ IsOn(mode', d) => c = d
        BY <2>3, <2>5, <3>2, Zenon DEF Single
      <4>3. \A d \in Chan : h.next <= d
        BY <2>5, <4>1, ChannelsAssumption DEF Chan
      <4>4. mode'[h.chan] = "efull"
        BY <2>2, <2>5, <3>3
      <4>5. Scanning(h, mode')
        BY <2>5, <3>3, <4>2, <4>3, <4>4 DEF Scanning
      <4> QED
        BY <1>8, <2>5, <2>6, <2>7, <3>3, <4>5
    <3>4. CASE e.to = "eoff"
      <4>1. Single(mode')
        BY <2>3, <2>4, <3>2, <3>4, Zenon DEF Single
      <4>2. Ending(h, mode')
        BY <2>4, <2>5, <3>4, <4>1 DEF Ending
      <4> QED
        BY <1>8, <2>5, <2>6, <2>7, <3>4, <4>2
    <3>5. CASE e.to = "ehalf"
      <4>1. IsOn(mode, e.chan)
        BY <3>1, <3>5 DEF Starting, IsOn
      <4>2. Single(mode')
        BY <2>3, <3>2, <4>1, Zenon DEF Single
      <4>3. stack' = [stack EXCEPT ![t] = Pop(s)]
        BY <1>16, <3>5 DEF SetMode, Return, e, s
      <4>4. Pop(s) = <<>>
        BY <2>7, OneTuple
      <4>5. Calm(<<>>, mode')
        BY <4>2 DEF Calm
      <4> QED
        BY <1>5, <4>3, <4>4, <4>5
    <3> QED
      BY <1>2, <3>3, <3>4, <3>5 DEF Activation, Mode
  <2>8. ASSUME NEW f \in Activation, NEW g \in Activation, s = <<f, g>>, e = g,
               Closing(f, g, mode) \/ Closed(f, g, mode)
        PROVE  CalmInv'
    <3>1. Closing(f, e, mode)
      BY <2>1, <2>8 DEF Closed
    <3>2. e.to = "eoff" /\ f.chan # e.chan /\ f.chan \in Chan
      BY <3>1 DEF Closing, Activation
    <3>3. mode'[f.chan] = mode[f.chan]
      BY <2>2, <3>2
    <3>4. \A d \in Chan : IsOn(mode', d) => d = f.chan
      BY <2>3, <2>4, <3>1, <3>2 DEF Closing
    <3>5. Closed(f, h, mode')
      BY <2>5, <3>1, <3>2, <3>3, <3>4 DEF Closing, Closed
    <3> QED
      BY <1>9, <2>5, <2>6, <2>8, <3>2, <3>5
  <2> QED
    BY <1>7, <2>7, <2>8
<1>17. CASE Exclude(t)
  <2> DEFINE pc == IF On(e.chan) THEN "scan" ELSE "read"
             h == go(pc)
  <2>1. e.pc = "exclude" /\ mode' = mode /\ stack' = [stack EXCEPT ![t] = Replace(s, h)]
    BY <1>17 DEF Exclude, Go, At, e, s
  <2>2. h \in Activation /\ h.pc = pc /\ h.to = e.to /\ h.chan = e.chan /\ h.next = e.next
    BY <1>3 DEF PC
  <2>3. pc = IF IsOn(mode, e.chan) THEN "scan" ELSE "read"
    BY <1>6
  <2> HIDE DEF h, pc
  <2>4. ASSUME NEW f \in Activation, s = <<f>>, e = f,
               Starting(f, mode) \/ Scanning(f, mode) \/ Ending(f, mode)
        PROVE  CalmInv'
    <3>1. Scanning(e, mode) \/ Ending(e, mode)
      BY <2>1, <2>4 DEF Starting
    <3>2. CASE Scanning(e, mode)
      <4>1. IsOn(mode, e.chan)
        BY <3>2 DEF Scanning, IsOn
      <4>2. Scanning(h, mode')
        BY <2>1, <2>2, <2>3, <3>2, <4>1 DEF Scanning
      <4> QED
        BY <1>8, <2>1, <2>2, <2>4, <4>2
    <3>3. CASE Ending(e, mode)
      <4>1. Ending(h, mode')
        BY <2>1, <2>2, <2>3, <3>3 DEF Ending
      <4> QED
        BY <1>8, <2>1, <2>2, <2>4, <4>1
    <3> QED
      BY <3>1, <3>2, <3>3
  <2>5. ASSUME NEW f \in Activation, NEW g \in Activation, s = <<f, g>>, e = g,
               Closing(f, g, mode) \/ Closed(f, g, mode)
        PROVE  CalmInv'
    <3>1. Closed(f, e, mode)
      BY <2>1, <2>5 DEF Closing
    <3>2. ~IsOn(mode, e.chan)
      BY <1>2, <3>1 DEF Closed, Activation
    <3>3. Closed(f, h, mode')
      BY <2>1, <2>2, <2>3, <3>1, <3>2 DEF Closed
    <3> QED
      BY <1>9, <2>1, <2>2, <2>5, <3>3
  <2> QED
    BY <1>7, <2>4, <2>5
<1>18. ASSUME e.pc = "scan"
       PROVE  s = <<e>> /\ Scanning(e, mode)
  BY <1>7, <1>18 DEF Starting, Ending, Closing, Closed
<1>19. CASE SwitchOther(t)
  <2>1. PICK d \in Chan :
          /\ LooksAt(e, d)
          /\ On(d)
          /\ stack' = [stack EXCEPT ![t] = Append(Replace(s, Past(e, d)), Activate(d, "eoff"))]
    BY <1>19 DEF SwitchOther, e, s
  <2> DEFINE g == Past(e, d)
             h == Activate(d, "eoff")
  <2>2. e.pc = "scan" /\ mode' = mode
    BY <1>19 DEF SwitchOther, At, e
  <2>3. s = <<e>> /\ Scanning(e, mode)
    BY <1>18, <2>2
  <2>4. d # e.chan
    BY <2>1 DEF LooksAt, Ahead
  <2>5. g \in Activation /\ g.chan = e.chan /\ g.pc = "scan" /\ g.to = e.to
    BY <1>2, <2>2, PastTyped DEF Past, Activation
  <2>6. h \in Activation /\ h.pc = "duty" /\ h.chan = d /\ h.to = "eoff"
    BY ActivateTyped DEF Mode, Activate
  <2>7. stack' = [stack EXCEPT ![t] = Append(Replace(s, g), h)]
    BY <2>1
  <2> HIDE DEF g, h
  <2>8. Append(Replace(s, g), h) = <<g, h>>
    BY <1>2, <2>3, <2>5, <2>6, OneTuple
  <2>9. \A c \in Chan : IsOn(mode, c) => c \in {e.chan, d}
    BY <1>6, <2>1, <2>3, <2>4 DEF Scanning
  <2>10. Closing(g, h, mode)
    BY <2>3, <2>4, <2>5, <2>6, <2>9 DEF Scanning, Closing
  <2>11. Calm(<<g, h>>, mode)
    BY <2>5, <2>6, <2>10, Zenon DEF Calm
  <2> QED
    BY <1>5, <2>2, <2>7, <2>8, <2>11
<1>20. CASE SkipOther(t)
  <2>1. PICK d \in Chan :
          LooksAt(e, d) /\ ~On(d) /\ stack' = [stack EXCEPT ![t] = Replace(s, Past(e, d))]
    BY <1>20 DEF SkipOther, e, s
  <2> DEFINE g == Past(e, d)
  <2>2. e.pc = "scan" /\ mode' = mode
    BY <1>20 DEF SkipOther, At, e
  <2>3. s = <<e>> /\ Scanning(e, mode)
    BY <1>18, <2>2
  <2>4. g \in Activation /\ g.chan = e.chan /\ g.pc = "scan" /\ g.to = e.to /\ g.next = d + 1
    BY <1>2, <2>2, PastTyped DEF Past, Activation
  <2> HIDE DEF g
  <2>5. \A c \in Chan : c # e.chan /\ IsOn(mode, c) => d + 1 <= c
    <3> SUFFICES ASSUME NEW c \in Chan, c # e.chan, IsOn(mode, c)
                 PROVE  d + 1 <= c
      OBVIOUS
    <3>1. e.next <= c /\ c # d
      BY <1>6, <2>1, <2>3 DEF Scanning
    <3>2. c \in Ahead(e)
      BY <1>2, <3>1, ChannelsAssumption DEF Ahead, Chan, Activation
    <3>3. d <= c
      BY <2>1, <3>2 DEF LooksAt
    <3> QED
      BY <3>1, <3>3, ChannelsAssumption DEF Chan
  <2>6. Scanning(g, mode')
    BY <2>2, <2>3, <2>4, <2>5 DEF Scanning
  <2> QED
    BY <1>2, <1>8, <2>1, <2>3, <2>4, <2>6 DEF g
<1>21. CASE ReadState(t)
  <2> DEFINE v == IF On(e.chan) THEN "ON" ELSE "OFF"
             h == [e EXCEPT !.pc = "write", !.value = v]
  <2>1. stack' = [stack EXCEPT ![t] = Replace(s, h)] /\ mode' = mode
    BY <1>21 DEF ReadState, e, s
  <2>2. e.pc = "read" \/ (e.pc = "scan" /\ Ahead(e) = {})
    BY <1>21 DEF ReadState, At, e
  <2>3. h \in Activation /\ h.pc = "write" /\ h.chan = e.chan /\ h.to = e.to /\ h.value = v
    BY <1>2 DEF Activation, PC
  <2>4. v = Shows(mode, e.chan)
    BY <1>6 DEF Shows
  <2> HIDE DEF h, v
  <2>5. ASSUME NEW f \in Activation, s = <<f>>, e = f,
               Starting(f, mode) \/ Scanning(f, mode) \/ Ending(f, mode)
        PROVE  CalmInv'
    <3>1. Scanning(e, mode) \/ Ending(e, mode)
      BY <2>2, <2>5 DEF Starting
    <3>2. Single(mode) /\ e.to # "ehalf"
      <4>1. CASE Ending(e, mode)
        BY <4>1 DEF Ending
      <4>2. CASE Scanning(e, mode)
        <5>1. Ahead(e) = {}
          BY <2>2, <4>2 DEF Scanning
        <5>2. ASSUME NEW d \in Chan, IsOn(mode, d), d # e.chan
              PROVE  FALSE
          <6>1. e.next <= d
            BY <4>2, <5>2 DEF Scanning
          <6>2. d \in Ahead(e)
            BY <1>2, <5>2, <6>1, ChannelsAssumption DEF Ahead, Chan, Activation
          <6> QED
            BY <5>1, <6>2
        <5>3. Single(mode)
          BY <5>2, Zenon DEF Single
        <5> QED
          BY <4>2, <5>3 DEF Scanning
      <4> QED
        BY <3>1, <4>1, <4>2
    <3>3. Ending(h, mode')
      BY <2>1, <2>3, <2>4, <3>2 DEF Ending
    <3> QED
      BY <1>8, <2>1, <2>3, <2>5, <3>3
  <2>6. ASSUME NEW f \in Activation, NEW g \in Activation, s = <<f, g>>, e = g,
               Closing(f, g, mode) \/ Closed(f, g, mode)
        PROVE  CalmInv'
    <3>1. Closed(f, e, mode)
      BY <2>2, <2>6 DEF Closing
    <3>2. ~IsOn(mode, e.chan)
      BY <1>2, <3>1 DEF Closed, Activation
    <3>3. v = "OFF"
      BY <2>4, <3>2 DEF Shows
    <3>4. Closed(f, h, mode')
      BY <2>1, <2>3, <3>1, <3>3 DEF Closed
    <3> QED
      BY <1>9, <2>1, <2>3, <2>6, <3>4
  <2> QED
    BY <1>7, <2>5, <2>6
<1>22. CASE WriteState(t)
  <2>1. e.pc = "write" /\ mode' = mode /\ stack' = [stack EXCEPT ![t] = Pop(s)]
    BY <1>22 DEF WriteState, Return, At, e, s
  <2>2. ASSUME NEW f \in Activation, s = <<f>>, e = f,
               Starting(f, mode) \/ Scanning(f, mode) \/ Ending(f, mode)
        PROVE  CalmInv'
    <3>1. Ending(e, mode)
      BY <2>1, <2>2 DEF Starting, Scanning
    <3>2. Calm(<<>>, mode)
      BY <3>1 DEF Ending, Calm
    <3>3. Pop(s) = <<>>
      BY <2>2, OneTuple
    <3> QED
      BY <1>5, <2>1, <3>2, <3>3
  <2>3. ASSUME NEW f \in Activation, NEW g \in Activation, s = <<f, g>>, e = g,
               Closing(f, g, mode) \/ Closed(f, g, mode)
        PROVE  CalmInv'
    <3>1. Closed(f, e, mode)
      BY <2>1, <2>3 DEF Closing
    <3>2. Scanning(f, mode)
      BY <3>1 DEF Closed, Scanning
    <3>3. Calm(<<f>>, mode)
      BY <3>2, Zenon DEF Calm
    <3>4. Pop(s) = <<f>>
      BY <2>3, TwoTuple
    <3> QED
      BY <1>5, <2>1, <3>3, <3>4
  <2> QED
    BY <1>7, <2>2, <2>3
<1> QED
  BY <1>12, <1>13, <1>14, <1>15, <1>16, <1>17, <1>19, <1>20, <1>21, <1>22 DEF Step

\* A call or an expiry begins when no other is under way.
LEMMA CalmCall ==
  ASSUME TypeOK, CalmInv, AtRest, NEW t \in Threads, NEW c \in Chan, NEW m \in Mode,
         mode' = mode, stack' = [stack EXCEPT ![t] = <<Activate(c, m)>>],
         m = "ehalf" => mode[c] = "efull"
  PROVE  CalmInv'
<1> DEFINE h == Activate(c, m)
<1>1. h \in Activation /\ h.pc = "duty" /\ h.chan = c /\ h.to = m
  BY ActivateTyped DEF Activate
<1>2. \A u \in Threads : u # t => stack[u] = <<>>
  BY DEF AtRest
<1>3. Single(mode)
  <2>1. Calm(<<>>, mode)
    BY DEF CalmInv, Acts, AtRest
  <2>2. \A f, g : <<>> # <<f>> /\ <<>> # <<f, g>>
    OBVIOUS
  <2> QED
    BY <2>1, <2>2, Zenon DEF Calm
<1> HIDE DEF h
<1>4. Starting(h, mode)
  BY <1>1, <1>3 DEF Starting
<1>5. Calm(<<h>>, mode)
  BY <1>1, <1>4, Zenon DEF Calm
<1>6. Alone' /\ \A u \in Threads : Acts(u)' => stack'[u] = <<h>>
  BY <1>2, ActsAlone DEF h
<1> QED
  BY <1>5, <1>6 DEF CalmInv

\* Whatever happens, the stack goes from one form to the next.
LEMMA CalmNext ==
  ASSUME ~Overlap, TypeOK, FreshScan, CalmInv, [Next]_vars
  PROVE  CalmInv'
<1>1. ASSUME NEW t \in Callers, NEW c \in Chan, NEW on \in BOOLEAN, Control(t, c, on)
      PROVE  CalmInv'
  <2> DEFINE m == IF on THEN "efull" ELSE "eoff"
  <2>1. t \in Threads /\ m \in Mode /\ m # "ehalf"
    BY DEF Threads, Mode
  <2>2. AtRest /\ mode' = mode /\ stack' = [stack EXCEPT ![t] = <<Activate(c, m)>>]
    BY <1>1 DEF Control, MayBegin
  <2> HIDE DEF m
  <2> QED
    BY <2>1, <2>2, CalmCall
<1>2. ASSUME NEW c \in Chan, OnTimer(c)
      PROVE  CalmInv'
  <2> DEFINE m == IF mode[c] = "efull" THEN "ehalf" ELSE "eoff"
  <2>1. TimerTask \in Threads /\ m \in Mode /\ (m = "ehalf" => mode[c] = "efull")
    BY DEF Threads, Mode
  <2>2. AtRest /\ mode' = mode /\ stack' = [stack EXCEPT ![TimerTask] = <<Activate(c, m)>>]
    BY <1>2 DEF OnTimer, MayBegin
  <2> HIDE DEF m
  <2> QED
    BY <2>1, <2>2, CalmCall
<1>3. CASE TimerCommand \/ UNCHANGED vars
  BY <1>3 DEF TimerCommand, vars, CalmInv, Alone, Acts, AtRest
<1>4. ASSUME NEW t \in Threads, Step(t)
      PROVE  CalmInv'
  BY <1>4, CalmStep
<1> QED
  BY <1>1, <1>2, <1>3, <1>4 DEF Next

\* At first nothing is under way and every channel is off.
LEMMA CalmInit ==
  ASSUME Init
  PROVE  CalmInv
<1>1. \A t \in Threads : stack[t] = <<>>
  BY DEF Init
<1>2. Single(mode)
  BY DEF Init, Single, IsOn
<1>3. Calm(<<>>, mode)
  BY <1>2, Zenon DEF Calm
<1> QED
  BY <1>1, <1>3 DEF CalmInv, Alone

\* What calls that do not overlap do to the stacks and the modes.
THEOREM CallsInTurn ==
  ASSUME ~Overlap
  PROVE  Spec => []CalmInv
<1>1. ASSUME TypeOK, FreshScan, CalmInv, [Next]_vars
      PROVE  CalmInv'
  BY <1>1, CalmNext
<1>2. Init => CalmInv
  BY CalmInit
<1> QED
  BY <1>1, <1>2, TypeCorrect, FullPairsSeen, PTL DEF Spec

\* When calls do not overlap, at most one channel is on once they have returned
\* ("only one channel should be active", main/MainClass.h:78): the scan of
\* ExclusiveAdapter::onNotify finds the other one wherever it is in the order.
THEOREM OneOnAfterwards ==
  ASSUME ~Overlap
  PROVE  Spec => []OneOnAtRest
<1>1. CalmInv => OneOnAtRest
  <2> SUFFICES ASSUME CalmInv, AtRest
               PROVE  \A c, d \in Chan : On(c) /\ On(d) => c = d
    BY DEF OneOnAtRest
  <2>1. Calm(<<>>, mode)
    BY DEF CalmInv, Acts, AtRest, Threads
  <2>2. \A f, g : <<>> # <<f>> /\ <<>> # <<f, g>>
    OBVIOUS
  <2>3. Single(mode)
    BY <2>1, <2>2, Zenon DEF Calm
  <2> QED
    BY <2>3 DEF Single, On, IsOn
<1> QED
  BY <1>1, CallsInTurn, PTL

-----------------------------------------------------------------------------
(* Every step is one of ExclusiveValves, or none.                          *)

\* The channel that a stack has open: the one it displaces the others for, or
\* the one that is on.
Displaces(s, c) ==
  \E k \in 1..Len(s) : s[k].chan = c /\ s[k].to = "efull" /\ s[k].pc \in {"exclude", "scan"}

OpenIn(s, m) ==
  IF \E c \in Chan : Displaces(s, c) THEN {c \in Chan : Displaces(s, c)}
                                     ELSE {c \in Chan : IsOn(m, c)}

\* While one thread acts its stack alone tells which valve is open,
LEMMA OpenNow ==
  ASSUME NEW t \in Threads, \A u \in Threads : u # t => stack[u] = <<>>
  PROVE  OpenValve = OpenIn(stack[t], mode)
<1>1. \A k : k \notin 1..Len(<<>>)
  OBVIOUS
<1>2. \A c \in Chan : Displacing(c) <=> Displaces(stack[t], c)
  BY <1>1, Zenon DEF Displacing, Displaces
<1>3. \A c \in Chan : On(c) <=> IsOn(mode, c)
  BY DEF On, IsOn
<1>4. /\ {c \in Chan : Displacing(c)} = {c \in Chan : Displaces(stack[t], c)}
      /\ {c \in Chan : On(c)} = {c \in Chan : IsOn(mode, c)}
      /\ (\E c \in Chan : Displacing(c)) <=> (\E c \in Chan : Displaces(stack[t], c))
  BY <1>2, <1>3, Zenon
<1> QED
  BY <1>4, Zenon DEF OpenValve, OpenIn

\* before a step and after it.
LEMMA OpenNext ==
  ASSUME TypeOK, NEW t \in Threads, \A u \in Threads : u # t => stack[u] = <<>>,
         NEW q, stack' = [stack EXCEPT ![t] = q]
  PROVE  OpenValve' = OpenIn(q, mode')
<1>1. \A k : k \notin 1..Len(<<>>)
  OBVIOUS
<1>2. stack'[t] = q /\ \A u \in Threads : u # t => stack'[u] = <<>>
  BY DEF TypeOK
<1>3. \A c \in Chan : Displacing(c)' <=> Displaces(q, c)
  BY <1>1, <1>2, Zenon DEF Displacing, Displaces
<1>4. \A c \in Chan : On(c)' <=> IsOn(mode', c)
  BY DEF On, IsOn
<1>5. /\ {c \in Chan : Displacing(c)}' = {c \in Chan : Displaces(q, c)}
      /\ {c \in Chan : On(c)}' = {c \in Chan : IsOn(mode', c)}
      /\ (\E c \in Chan : Displacing(c))' <=> (\E c \in Chan : Displaces(q, c))
  BY <1>3, <1>4, Zenon
<1> QED
  BY <1>5, Zenon DEF OpenValve, OpenIn

\* What is open in each form.
LEMMA OpenForms ==
  ASSUME NEW f \in Activation, NEW g \in Activation, NEW m
  PROVE  /\ OpenIn(<<>>, m) = {c \in Chan : IsOn(m, c)}
         /\ f.pc \in Before \/ f.to = "eoff" \/ f.pc \in {"read", "write"}
              => OpenIn(<<f>>, m) = {c \in Chan : IsOn(m, c)}
         /\ f.to = "efull" /\ f.pc \in {"exclude", "scan"} => OpenIn(<<f>>, m) = {f.chan}
         /\ f.to = "efull" /\ f.pc = "scan" /\ g.to = "eoff" => OpenIn(<<f, g>>, m) = {f.chan}
<1>1. f.chan \in Chan
  BY DEF Activation
<1>2. /\ \A c : ~Displaces(<<>>, c)
      /\ \A c : Displaces(<<f>>, c) <=>
                  f.chan = c /\ f.to = "efull" /\ f.pc \in {"exclude", "scan"}
      /\ \A c : Displaces(<<f, g>>, c) <=>
                  \/ f.chan = c /\ f.to = "efull" /\ f.pc \in {"exclude", "scan"}
                  \/ g.chan = c /\ g.to = "efull" /\ g.pc \in {"exclude", "scan"}
  <2>1. \A k : k \notin 1..Len(<<>>)
    OBVIOUS
  <2>2. /\ <<f>>[1] = f /\ 1 \in 1..Len(<<f>>)
        /\ \A k \in 1..Len(<<f>>) : k = 1
    OBVIOUS
  <2>3. /\ <<f, g>>[1] = f /\ <<f, g>>[2] = g /\ 1 \in 1..Len(<<f, g>>) /\ 2 \in 1..Len(<<f, g>>)
        /\ \A k \in 1..Len(<<f, g>>) : k = 1 \/ k = 2
    OBVIOUS
  <2>4. \A c : ~Displaces(<<>>, c)
    BY <2>1, Zenon DEF Displaces
  <2>5. \A c : Displaces(<<f>>, c) <=>
                 f.chan = c /\ f.to = "efull" /\ f.pc \in {"exclude", "scan"}
    <3> DEFINE s == <<f>>
    <3>1. s[1] = f /\ 1 \in 1..Len(s) /\ \A k \in 1..Len(s) : k = 1
      BY <2>2
    <3> HIDE DEF s
    <3> QED
      BY <3>1, Zenon DEF Displaces, s
  <2>6. \A c : Displaces(<<f, g>>, c) <=>
                 \/ f.chan = c /\ f.to = "efull" /\ f.pc \in {"exclude", "scan"}
                 \/ g.chan = c /\ g.to = "efull" /\ g.pc \in {"exclude", "scan"}
    <3> DEFINE s == <<f, g>>
    <3>1. s[1] = f /\ s[2] = g /\ 1 \in 1..Len(s) /\ 2 \in 1..Len(s)
          /\ \A k \in 1..Len(s) : k = 1 \/ k = 2
      BY <2>3
    <3> HIDE DEF s
    <3> QED
      BY <3>1, Zenon DEF Displaces, s
  <2> QED
    BY <2>4, <2>5, <2>6
<1>3. OpenIn(<<>>, m) = {c \in Chan : IsOn(m, c)}
  BY <1>2, Zenon DEF OpenIn
<1>4. ASSUME f.pc \in Before \/ f.to = "eoff" \/ f.pc \in {"read", "write"}
      PROVE  OpenIn(<<f>>, m) = {c \in Chan : IsOn(m, c)}
  <2>1. ~(f.to = "efull" /\ f.pc \in {"exclude", "scan"})
    BY <1>4 DEF Before
  <2>2. \A c : ~Displaces(<<f>>, c)
    BY <1>2, <2>1, Zenon
  <2> QED
    BY <2>2, Zenon DEF OpenIn
<1>5. ASSUME NEW s, \A c \in Chan : Displaces(s, c) <=> f.chan = c
      PROVE  OpenIn(s, m) = {f.chan}
  <2>1. {c \in Chan : Displaces(s, c)} = {f.chan}
    BY <1>1, <1>5, Zenon
  <2> QED
    BY <1>1, <1>5, <2>1, Zenon DEF OpenIn
<1>6. f.to = "efull" /\ f.pc \in {"exclude", "scan"} => OpenIn(<<f>>, m) = {f.chan}
  BY <1>2, <1>5, Zenon
<1>7. ASSUME f.to = "efull" /\ f.pc = "scan" /\ g.to = "eoff"
      PROVE  OpenIn(<<f, g>>, m) = {f.chan}
  <2>1. g.to # "efull" /\ f.pc \in {"exclude", "scan"}
    BY <1>7
  <2>2. \A c \in Chan : Displaces(<<f, g>>, c) <=> f.chan = c
    BY <1>2, <1>7, <2>1, Zenon
  <2> QED
    BY <1>5, <2>2
<1> QED
  BY <1>3, <1>4, <1>6, <1>7

\* A step of set(), half(), the adapter or the report opens or closes a valve,
\* shows one, or does nothing that ExclusiveValves sees.
LEMMA ValveStep ==
  ASSUME TypeOK, CalmInv, NEW t \in Threads, Step(t)
  PROVE  [Valves!Next]_(Valves!vars)
<1> DEFINE s == stack[t]
           e == Top(t)
           go(pc) == [e EXCEPT !.pc = pc]
           Ons(m) == {c \in Chan : IsOn(m, c)}
<1>1. s \in Seq(Activation) /\ s # <<>> /\ e = s[Len(s)]
  BY DEF TypeOK, Top, Step, At, SetDuty, SetPeriod, StartTimer, StopTimer, SetMode, Exclude,
         SwitchOther, SkipOther, ReadState, WriteState
<1>2. e \in Activation
  BY <1>1, TopTyped
<1>3. \A pc \in PC : /\ go(pc) \in Activation /\ go(pc).pc = pc
                     /\ go(pc).to = e.to /\ go(pc).chan = e.chan
  BY <1>2 DEF Activation
<1>4. Calm(s, mode) /\ \A u \in Threads : u # t => stack[u] = <<>>
  BY <1>1, OthersIdle DEF CalmInv, Acts
<1>5. OpenValve = OpenIn(s, mode)
  BY <1>4, OpenNow
<1>6. \A q : stack' = [stack EXCEPT ![t] = q] => OpenValve' = OpenIn(q, mode')
  BY <1>4, OpenNext
<1>7. \/ \E f \in Activation :
            s = <<f>> /\ e = f /\ (Starting(f, mode) \/ Scanning(f, mode) \/ Ending(f, mode))
      \/ \E f, g \in Activation :
            s = <<f, g>> /\ e = g /\ (Closing(f, g, mode) \/ Closed(f, g, mode))
  <2> HIDE DEF s, e
  <2> QED
    BY <1>1, <1>4, CalmForms, Zenon
<1>8. ASSUME OpenValve' = OpenValve, reported' = reported
      PROVE  [Valves!Next]_(Valves!vars)
  BY <1>8 DEF Valves!vars
<1>9. /\ OpenIn(<<>>, mode') = Ons(mode')
      /\ \A f \in Activation :
           /\ f.pc \in Before \/ f.to = "eoff" \/ f.pc \in {"read", "write"}
                => OpenIn(<<f>>, mode) = Ons(mode) /\ OpenIn(<<f>>, mode') = Ons(mode')
           /\ f.to = "efull" /\ f.pc \in {"exclude", "scan"}
                => OpenIn(<<f>>, mode) = {f.chan} /\ OpenIn(<<f>>, mode') = {f.chan}
      /\ \A f, g \in Activation :
           f.to = "efull" /\ f.pc = "scan" /\ g.to = "eoff"
                => OpenIn(<<f, g>>, mode) = {f.chan} /\ OpenIn(<<f, g>>, mode') = {f.chan}
  <2>1. ASSUME NEW f \in Activation, NEW g \in Activation, NEW m
        PROVE  /\ OpenIn(<<>>, m) = Ons(m)
               /\ f.pc \in Before \/ f.to = "eoff" \/ f.pc \in {"read", "write"}
                    => OpenIn(<<f>>, m) = Ons(m)
               /\ f.to = "efull" /\ f.pc \in {"exclude", "scan"} => OpenIn(<<f>>, m) = {f.chan}
               /\ f.to = "efull" /\ f.pc = "scan" /\ g.to = "eoff"
                    => OpenIn(<<f, g>>, m) = {f.chan}
    BY OpenForms, Zenon
  <2> HIDE DEF Ons
  <2> QED
    BY <1>2, <2>1
<1> HIDE DEF s, e, Ons
\* The second level neither opens nor closes what the first holds open.
<1>10. ASSUME NEW f \in Activation, NEW g \in Activation, NEW h \in Activation, s = <<f, g>>,
              stack' = [stack EXCEPT ![t] = Replace(s, h)], h.to = g.to, reported' = reported,
              Closing(f, g, mode) \/ Closed(f, g, mode)
       PROVE  [Valves!Next]_(Valves!vars)
  <2>1. f.to = "efull" /\ f.pc = "scan" /\ g.to = "eoff" /\ h.to = "eoff"
    BY <1>10 DEF Closing, Closed
  <2>2. Replace(s, h) = <<f, h>>
    BY <1>10, TwoTuple
  <2>3. OpenIn(s, mode) = {f.chan} /\ OpenIn(<<f, h>>, mode') = {f.chan}
    BY <1>9, <1>10, <2>1
  <2>4. OpenValve' = OpenValve
    BY <1>5, <1>6, <1>10, <2>2, <2>3
  <2> QED
    BY <1>8, <1>10, <2>4
\* Nor does a first level that goes on but at its assignment of a mode.
<1>11. ASSUME NEW f \in Activation, NEW h \in Activation, s = <<f>>,
              stack' = [stack EXCEPT ![t] = Replace(s, h)], reported' = reported,
              OpenIn(<<h>>, mode') = OpenIn(<<f>>, mode)
       PROVE  [Valves!Next]_(Valves!vars)
  <2>1. Replace(s, h) = <<h>>
    BY <1>11, OneTuple
  <2>2. OpenValve' = OpenValve
    BY <1>5, <1>6, <1>11, <2>1
  <2> QED
    BY <1>8, <1>11, <2>2
<1>12. ASSUME NEW pc \in PC, stack' = [stack EXCEPT ![t] = Replace(s, go(pc))],
              mode' = mode, reported' = reported,
              \/ e.pc \in Before \ {"mode"} /\ pc \in Before
              \/ e.pc = "exclude" /\ pc = IF IsOn(mode, e.chan) THEN "scan" ELSE "read"
       PROVE  [Valves!Next]_(Valves!vars)
  <2> DEFINE h == go(pc)
  <2>1. h \in Activation /\ h.pc = pc /\ h.to = e.to /\ h.chan = e.chan
    BY <1>3
  <2> HIDE DEF h
  <2>2. ASSUME NEW f \in Activation, s = <<f>>, e = f,
               Starting(f, mode) \/ Scanning(f, mode) \/ Ending(f, mode)
        PROVE  [Valves!Next]_(Valves!vars)
    <3>1. OpenIn(<<h>>, mode') = OpenIn(<<f>>, mode)
      <4>1. CASE e.pc \in Before \ {"mode"} /\ pc \in Before
        BY <1>9, <1>12, <2>1, <2>2, <4>1
      <4>2. CASE e.pc = "exclude" /\ pc = IF IsOn(mode, e.chan) THEN "scan" ELSE "read"
        <5>1. CASE Scanning(f, mode)
          <6>1. pc = "scan"
            BY <2>2, <4>2, <5>1 DEF Scanning, IsOn
          <6> QED
            BY <1>9, <1>12, <2>1, <2>2, <4>2, <5>1, <6>1 DEF Scanning
        <5>2. CASE Ending(f, mode)
          <6>1. f.to = "eoff"
            BY <2>2, <4>2, <5>2 DEF Ending
          <6> QED
            BY <1>9, <1>12, <2>1, <2>2, <6>1
        <5> QED
          BY <2>2, <4>2, <5>1, <5>2 DEF Starting
      <4> QED
        BY <1>12, <4>1, <4>2
    <3> QED
      BY <1>11, <1>12, <2>1, <2>2, <3>1 DEF h
  <2>3. ASSUME NEW f \in Activation, NEW g \in Activation, s = <<f, g>>, e = g,
               Closing(f, g, mode) \/ Closed(f, g, mode)
        PROVE  [Valves!Next]_(Valves!vars)
    BY <1>10, <1>12, <2>1, <2>3 DEF h
  <2> QED
    BY <1>7, <2>2, <2>3
<1>13. CASE SetDuty(t)
  BY <1>12, <1>13 DEF SetDuty, Go, At, PC, Before, e, s
<1>14. CASE SetPeriod(t)
  BY <1>12, <1>14 DEF SetPeriod, Go, At, PC, Before, e, s
<1>15. CASE StartTimer(t)
  BY <1>12, <1>15 DEF StartTimer, Go, At, PC, Before, e, s
<1>16. CASE StopTimer(t)
  BY <1>12, <1>16 DEF StopTimer, Go, At, PC, Before, e, s
<1>17. CASE SetMode(t)
  <2> DEFINE h == go("exclude")
  <2>1. e.pc = "mode" /\ mode' = [mode EXCEPT ![e.chan] = e.to] /\ e.chan \in Chan
        /\ reported' = reported
    BY <1>2, <1>17 DEF SetMode, At, e, Activation
  <2>2. mode'[e.chan] = e.to /\ \A d \in Chan : d # e.chan => mode'[d] = mode[d]
    BY <2>1 DEF TypeOK
  <2>3. \A d \in Chan : d # e.chan => (IsOn(mode', d) <=> IsOn(mode, d))
    BY <2>2, Zenon DEF IsOn
  <2>4. h \in Activation /\ h.pc = "exclude" /\ h.to = e.to /\ h.chan = e.chan
    BY <1>3 DEF PC
  <2>5. e.to # "ehalf" => stack' = [stack EXCEPT ![t] = Replace(s, h)]
    BY <1>17 DEF SetMode, Go, e, s
  <2> HIDE DEF h
  <2>6. ASSUME NEW f \in Activation, s = <<f>>, e = f,
               Starting(f, mode) \/ Scanning(f, mode) \/ Ending(f, mode)
        PROVE  [Valves!Next]_(Valves!vars)
    <3>1. Starting(e, mode) /\ Single(mode)
      BY <2>1, <2>6 DEF Starting, Scanning, Ending
    <3>2. OpenValve = Ons(mode)
      BY <1>5, <1>9, <2>1, <2>6 DEF Before
    <3>3. Replace(s, h) = <<h>> /\ Pop(s) = <<>>
      BY <2>4, <2>6, OneTuple
    <3>4. CASE e.to = "efull"
      <4>1. OpenValve' = {e.chan}
        BY <1>6, <1>9, <2>4, <2>5, <3>3, <3>4
      <4>2. CASE IsOn(mode, e.chan)
        <5>1. Ons(mode) = {e.chan}
          BY <2>1, <3>1, <4>2, Zenon DEF Ons, Single
        <5> QED
          BY <1>8, <2>1, <3>2, <4>1, <5>1
      <4>3. CASE ~IsOn(mode, e.chan)
        <5>1. e.chan \notin OpenValve
          BY <3>2, <4>3, Zenon DEF Ons
        <5>2. Valves!Open(e.chan)
          BY <2>1, <4>1, <5>1 DEF Valves!Open
        <5> QED
          BY <2>1, <5>2 DEF Valves!Next
      <4> QED
        BY <4>2, <4>3
    <3>5. CASE e.to = "eoff"
      <4>1. OpenValve' = Ons(mode')
        BY <1>6, <1>9, <2>4, <2>5, <3>3, <3>5
      <4>2. ~IsOn(mode', e.chan)
        BY <2>2, <3>5 DEF IsOn
      <4>3. CASE IsOn(mode, e.chan)
        <5>1. Ons(mode') = {} /\ e.chan \in Ons(mode)
          BY <2>1, <2>3, <3>1, <4>2, <4>3, Zenon DEF Ons, Single
        <5>2. Valves!Close(e.chan)
          BY <2>1, <3>2, <4>1, <5>1 DEF Valves!Close
        <5> QED
          BY <2>1, <5>2 DEF Valves!Next
      <4>4. CASE ~IsOn(mode, e.chan)
        <5>1. Ons(mode') = Ons(mode)
          BY <2>3, <4>2, <4>4, Zenon DEF Ons
        <5> QED
          BY <1>8, <2>1, <3>2, <4>1, <5>1
      <4> QED
        BY <4>3, <4>4
    <3>6. CASE e.to = "ehalf"
      <4>1. stack' = [stack EXCEPT ![t] = Pop(s)]
        BY <1>17, <3>6 DEF SetMode, Return, e, s
      <4>2. OpenValve' = Ons(mode')
        BY <1>6, <1>9, <3>3, <4>1
      <4>3. IsOn(mode, e.chan) /\ IsOn(mode', e.chan)
        BY <2>2, <3>1, <3>6 DEF Starting, IsOn
      <4>4. Ons(mode') = Ons(mode)
        BY <2>3, <4>3, Zenon DEF Ons
      <4> QED
        BY <1>8, <2>1, <3>2, <4>2, <4>4
    <3> QED
      BY <1>2, <3>4, <3>5, <3>6 DEF Activation, Mode
  <2>7. ASSUME NEW f \in Activation, NEW g \in Activation, s = <<f, g>>, e = g,
               Closing(f, g, mode) \/ Closed(f, g, mode)
        PROVE  [Valves!Next]_(Valves!vars)
    <3>1. e.to = "eoff"
      BY <2>7 DEF Closing, Closed
    <3> QED
      BY <1>10, <2>1, <2>4, <2>5, <2>7, <3>1
  <2> QED
    BY <1>7, <2>6, <2>7
<1>18. CASE Exclude(t)
  <2> DEFINE pc == IF On(e.chan) THEN "scan" ELSE "read"
  <2>1. e.pc = "exclude" /\ mode' = mode /\ reported' = reported
        /\ stack' = [stack EXCEPT ![t] = Replace(s, go(pc))]
    BY <1>18 DEF Exclude, Go, At, e, s
  <2>2. pc = (IF IsOn(mode, e.chan) THEN "scan" ELSE "read") /\ pc \in PC
    BY DEF On, IsOn, PC
  <2> HIDE DEF pc
  <2> QED
    BY <1>12, <2>1, <2>2
<1>19. ASSUME e.pc = "scan"
       PROVE  s = <<e>> /\ Scanning(e, mode)
  BY <1>7, <1>19 DEF Starting, Ending, Closing, Closed
<1>20. CASE SwitchOther(t)
  <2>1. PICK d \in Chan :
          stack' = [stack EXCEPT ![t] = Append(Replace(s, Past(e, d)), Activate(d, "eoff"))]
    BY <1>20 DEF SwitchOther, e, s
  <2> DEFINE g == Past(e, d)
             h == Activate(d, "eoff")
  <2>2. e.pc = "scan" /\ reported' = reported
    BY <1>20 DEF SwitchOther, At, e
  <2>3. s = <<e>> /\ Scanning(e, mode)
    BY <1>19, <2>2
  <2>4. g \in Activation /\ g.chan = e.chan /\ g.pc = "scan" /\ g.to = e.to
    BY <1>2, <2>2, PastTyped DEF Past, Activation
  <2>5. h \in Activation /\ h.to = "eoff"
    BY ActivateTyped DEF Mode, Activate
  <2> HIDE DEF g, h
  <2>6. Append(Replace(s, g), h) = <<g, h>>
    BY <1>2, <2>3, <2>4, <2>5, OneTuple
  <2>7. e.to = "efull"
    BY <2>3 DEF Scanning
  <2>8. OpenIn(s, mode) = {e.chan} /\ OpenIn(<<g, h>>, mode') = {e.chan}
    BY <1>2, <1>9, <2>2, <2>3, <2>4, <2>5, <2>7
  <2>9. OpenValve' = OpenValve
    BY <1>5, <1>6, <2>1, <2>6, <2>8 DEF g, h
  <2> QED
    BY <1>8, <2>2, <2>9
<1>21. CASE SkipOther(t)
  <2>1. PICK d \in Chan : stack' = [stack EXCEPT ![t] = Replace(s, Past(e, d))]
    BY <1>21 DEF SkipOther, e, s
  <2> DEFINE g == Past(e, d)
  <2>2. e.pc = "scan" /\ reported' = reported
    BY <1>21 DEF SkipOther, At, e
  <2>3. s = <<e>> /\ e.to = "efull"
    BY <1>19, <2>2 DEF Scanning
  <2>4. g \in Activation /\ g.chan = e.chan /\ g.pc = "scan" /\ g.to = e.to
    BY <1>2, <2>2, PastTyped DEF Past, Activation
  <2> HIDE DEF g
  <2>5. OpenIn(<<g>>, mode') = OpenIn(<<e>>, mode)
    BY <1>2, <1>9, <2>2, <2>3, <2>4
  <2> QED
    BY <1>2, <1>11, <2>1, <2>2, <2>3, <2>4, <2>5 DEF g
<1>22. CASE ReadState(t)
  <2> DEFINE h == [e EXCEPT !.pc = "write", !.value = IF On(e.chan) THEN "ON" ELSE "OFF"]
  <2>1. stack' = [stack EXCEPT ![t] = Replace(s, h)] /\ mode' = mode /\ reported' = reported
    BY <1>22 DEF ReadState, e, s
  <2>2. e.pc = "read" \/ (e.pc = "scan" /\ Ahead(e) = {})
    BY <1>22 DEF ReadState, At, e
  <2>3. h \in Activation /\ h.pc = "write" /\ h.chan = e.chan /\ h.to = e.to
    BY <1>2 DEF Activation, PC
  <2> HIDE DEF h
  <2>4. ASSUME NEW f \in Activation, s = <<f>>, e = f,
               Starting(f, mode) \/ Scanning(f, mode) \/ Ending(f, mode)
        PROVE  [Valves!Next]_(Valves!vars)
    <3>1. OpenIn(<<h>>, mode') = Ons(mode)
      BY <1>9, <2>1, <2>3
    <3>2. OpenIn(<<f>>, mode) = Ons(mode)
      <4>1. CASE e.pc = "read"
        BY <1>9, <2>4, <4>1
      <4>2. CASE e.pc = "scan" /\ Ahead(e) = {}
        <5>1. Scanning(e, mode)
          BY <1>19, <4>2
        <5>2. \A d \in Chan : IsOn(mode, d) => d = e.chan
          <6> SUFFICES ASSUME NEW d \in Chan, IsOn(mode, d), d # e.chan
                       PROVE  FALSE
            OBVIOUS
          <6>1. e.next <= d
            BY <5>1 DEF Scanning
          <6>2. d \in Ahead(e)
            BY <1>2, <6>1, ChannelsAssumption DEF Ahead, Chan, Activation
          <6> QED
            BY <4>2, <6>2
        <5>3. IsOn(mode, e.chan) /\ e.chan \in Chan /\ e.to = "efull"
          BY <1>2, <5>1 DEF Scanning, IsOn, Activation
        <5>4. Ons(mode) = {e.chan}
          BY <5>2, <5>3, Zenon DEF Ons
        <5> QED
          BY <1>9, <2>4, <4>2, <5>3, <5>4
      <4> QED
        BY <2>2, <4>1, <4>2
    <3> QED
      BY <1>11, <2>1, <2>3, <2>4, <3>1, <3>2
  <2>5. ASSUME NEW f \in Activation, NEW g \in Activation, s = <<f, g>>, e = g,
               Closing(f, g, mode) \/ Closed(f, g, mode)
        PROVE  [Valves!Next]_(Valves!vars)
    BY <1>10, <2>1, <2>3, <2>5
  <2> QED
    BY <1>7, <2>4, <2>5
<1>23. CASE WriteState(t)
  <2>1. /\ e.pc = "write" /\ mode' = mode /\ stack' = [stack EXCEPT ![t] = Pop(s)]
        /\ reported' = [reported EXCEPT ![e.chan] = e.value]
    BY <1>23 DEF WriteState, Return, At, e, s
  <2>2. e.chan \in Chan
    BY <1>2 DEF Activation
  <2>3. ASSUME OpenValve' = OpenValve, e.value = IF e.chan \in OpenValve THEN "ON" ELSE "OFF"
        PROVE  [Valves!Next]_(Valves!vars)
    <3> DEFINE shown == {c \in Chan : reported[c] = "ON"}
               shown2 == {c \in Chan : reported'[c] = "ON"}
    <3>1. reported'[e.chan] = e.value /\ \A c \in Chan : c # e.chan => reported'[c] = reported[c]
      BY <2>1, <2>2 DEF TypeOK
    <3>2. shown2 = IF e.chan \in OpenValve THEN shown \cup {e.chan} ELSE shown \ {e.chan}
      <4>1. CASE e.chan \in OpenValve
        <5>1. reported'[e.chan] = "ON"
          BY <2>3, <3>1, <4>1
        <5>2. shown2 = shown \cup {e.chan}
          BY <2>2, <3>1, <5>1, Zenon
        <5> QED
          BY <4>1, <5>2, Zenon
      <4>2. CASE e.chan \notin OpenValve
        <5>1. reported'[e.chan] # "ON"
          BY <2>3, <3>1, <4>2
        <5>2. shown2 = shown \ {e.chan}
          BY <2>2, <3>1, <5>1, Zenon
        <5> QED
          BY <4>2, <5>2, Zenon
      <4> QED
        BY <4>1, <4>2
    <3>3. PICK x \in Chan : x = e.chan
      BY <2>2
    <3>4. Valves!Show(x)
      <4>1. shown2 = IF x \in OpenValve THEN shown \cup {x} ELSE shown \ {x}
        BY <3>2, <3>3, Zenon
      <4> QED
        BY <2>3, <4>1, Zenon DEF Valves!Show
    <3>5. Valves!Next
      BY <3>4, Zenon DEF Valves!Next
    <3> QED
      BY <3>5, Zenon
  <2>4. ASSUME NEW f \in Activation, s = <<f>>, e = f,
               Starting(f, mode) \/ Scanning(f, mode) \/ Ending(f, mode)
        PROVE  [Valves!Next]_(Valves!vars)
    <3>1. Ending(e, mode)
      BY <2>1, <2>4 DEF Starting, Scanning
    <3>2. Pop(s) = <<>>
      BY <2>4, OneTuple
    <3>3. OpenValve = Ons(mode) /\ OpenValve' = Ons(mode)
      BY <1>5, <1>6, <1>9, <2>1, <2>4, <3>2
    <3>4. e.value = IF e.chan \in Ons(mode) THEN "ON" ELSE "OFF"
      <4>1. e.chan \in Ons(mode) <=> IsOn(mode, e.chan)
        BY <2>2, Zenon DEF Ons
      <4> QED
        BY <2>1, <3>1, <4>1 DEF Ending, Shows
    <3> QED
      BY <2>3, <3>3, <3>4
  <2>5. ASSUME NEW f \in Activation, NEW g \in Activation, s = <<f, g>>, e = g,
               Closing(f, g, mode) \/ Closed(f, g, mode)
        PROVE  [Valves!Next]_(Valves!vars)
    <3>1. Closed(f, g, mode)
      BY <2>1, <2>5 DEF Closing
    <3>2. Pop(s) = <<f>>
      BY <2>5, TwoTuple
    <3>3. OpenIn(s, mode) = {f.chan} /\ OpenIn(<<f>>, mode') = {f.chan}
      BY <1>9, <2>5, <3>1 DEF Closed
    <3>4. OpenValve = {f.chan} /\ OpenValve' = {f.chan}
      BY <1>5, <1>6, <2>1, <3>2, <3>3
    <3>5. e.chan # f.chan /\ e.value = "OFF"
      BY <2>1, <2>5, <3>1 DEF Closed
    <3> QED
      BY <2>3, <3>4, <3>5
  <2> QED
    BY <1>7, <2>4, <2>5
<1> QED
  BY <1>13, <1>14, <1>15, <1>16, <1>17, <1>18, <1>20, <1>21, <1>22, <1>23 DEF Step

\* A call or an expiry opens and closes nothing yet.
LEMMA ValveCall ==
  ASSUME TypeOK, AtRest, NEW t \in Threads, NEW c \in Chan, NEW m \in Mode,
         mode' = mode, reported' = reported, stack' = [stack EXCEPT ![t] = <<Activate(c, m)>>]
  PROVE  OpenValve' = OpenValve
<1> DEFINE h == Activate(c, m)
<1>1. h \in Activation /\ h.pc \in Before
  BY ActivateTyped DEF Activate, Before
<1>2. \A u \in Threads : stack[u] = <<>>
  BY DEF AtRest
<1> HIDE DEF h
<1>3. OpenIn(<<h>>, mode) = OpenIn(<<>>, mode)
  BY <1>1, OpenForms
<1>4. OpenValve = OpenIn(<<>>, mode)
  BY <1>2, OpenNow
<1>5. OpenValve' = OpenIn(<<h>>, mode')
  BY <1>2, OpenNext DEF h
<1> QED
  BY <1>3, <1>4, <1>5

\* When calls do not overlap the code is an exclusive valve: it starts as one and
\* every step of set(), half(), onNotify() and the report is one of its steps or
\* none.  That a valve does not stay open is left to model checking.
THEOREM ValvesImplemented ==
  ASSUME ~Overlap
  PROVE  Spec => Valves!Init /\ [][Valves!Next]_(Valves!vars)
<1>1. Init => Valves!Init
  <2> SUFFICES ASSUME Init
               PROVE  Valves!Init
    OBVIOUS
  <2>1. TimerTask \in Threads /\ \A u \in Threads : stack[u] = <<>>
    BY DEF Init, Threads
  <2>2. \A c \in Chan : ~IsOn(mode, c) /\ reported[c] # "ON"
    BY DEF Init, IsOn
  <2>3. OpenValve = OpenIn(<<>>, mode)
    BY <2>1, OpenNow
  <2>4. OpenValve = {c \in Chan : IsOn(mode, c)}
    <3>1. \A k : k \notin 1..Len(<<>>)
      OBVIOUS
    <3>2. \A c : ~Displaces(<<>>, c)
      BY <3>1, Zenon DEF Displaces
    <3> QED
      BY <2>3, <3>2, Zenon DEF OpenIn
  <2>5. OpenValve = {} /\ {c \in Chan : reported[c] = "ON"} = {}
    BY <2>2, <2>4, Zenon
  <2> QED
    BY <2>5 DEF Valves!Init
<1>2. ASSUME TypeOK, CalmInv, [Next]_vars
      PROVE  [Valves!Next]_(Valves!vars)
  <2>1. ASSUME NEW t \in Callers, NEW c \in Chan, NEW on \in BOOLEAN, Control(t, c, on)
        PROVE  [Valves!Next]_(Valves!vars)
    <3> DEFINE m == IF on THEN "efull" ELSE "eoff"
    <3>1. t \in Threads /\ m \in Mode
      BY DEF Threads, Mode
    <3>2. AtRest /\ mode' = mode /\ reported' = reported
          /\ stack' = [stack EXCEPT ![t] = <<Activate(c, m)>>]
      BY <2>1 DEF Control, MayBegin
    <3> HIDE DEF m
    <3>3. OpenValve' = OpenValve
      BY <1>2, <3>1, <3>2, ValveCall
    <3> QED
      BY <3>2, <3>3 DEF Valves!vars
  <2>2. ASSUME NEW c \in Chan, OnTimer(c)
        PROVE  [Valves!Next]_(Valves!vars)
    <3> DEFINE m == IF mode[c] = "efull" THEN "ehalf" ELSE "eoff"
    <3>1. TimerTask \in Threads /\ m \in Mode
      BY DEF Threads, Mode
    <3>2. AtRest /\ mode' = mode /\ reported' = reported
          /\ stack' = [stack EXCEPT ![TimerTask] = <<Activate(c, m)>>]
      BY <2>2 DEF OnTimer, MayBegin
    <3> HIDE DEF m
    <3>3. OpenValve' = OpenValve
      BY <1>2, <3>1, <3>2, ValveCall
    <3> QED
      BY <3>2, <3>3 DEF Valves!vars
  <2>3. CASE TimerCommand \/ UNCHANGED vars
    <3>1. stack' = stack /\ mode' = mode /\ reported' = reported
      BY <2>3 DEF TimerCommand, vars
    <3>2. OpenValve' = OpenValve
      BY <3>1 DEF OpenValve, Displacing, On
    <3> QED
      BY <3>1, <3>2 DEF Valves!vars
  <2>4. ASSUME NEW t \in Threads, Step(t)
        PROVE  [Valves!Next]_(Valves!vars)
    BY <1>2, <2>4, ValveStep
  <2> QED
    BY <1>2, <2>1, <2>2, <2>3, <2>4 DEF Next
<1> QED
  BY <1>1, <1>2, TypeCorrect, CallsInTurn, PTL DEF Spec

-----------------------------------------------------------------------------
(* What calls that do not overlap make of the output, the report and the   *)
(* timer.  Each follows the innermost level of the stack that acts.        *)

NoLevel == [chan |-> 0, to |-> "eoff", pc |-> "none"]

Innermost(s) == IF s = <<>> THEN NoLevel ELSE s[Len(s)]

LastAt(e, c, P) == e.chan = c /\ e.pc \in P

\* The output follows set() from its first step,
DutyIn(e, dt, m) ==
  \A c \in Chan :
    dt[c] = IF LastAt(e, c, {"period", "start", "stop", "mode"}) THEN e.to ELSE m[c]

\* the report is due from the assignment of the mode.
Due(s, c) == \E k \in 1..Len(s) : s[k].chan = c /\ s[k].pc \notin Before

ReportIn(s, rp, m) ==
  \A c \in Chan : rp[c] = Shows(m, c) \/ Due(s, c)

\* What the commands in the queue will make of a timer.
Pending(q, c, w) == \E i \in 1..Len(q) : q[i].chan = c /\ q[i].what = w

WillRun(q, tm, c) ==
  \/ Pending(q, c, "pulse") \/ Pending(q, c, "hold") \/ Pending(q, c, "start")
  \/ tm[c].running /\ ~Pending(q, c, "stop")

WillBe(q, tm, c) ==
  IF Pending(q, c, "pulse") THEN "pulse"
  ELSE IF Pending(q, c, "hold") THEN "hold" ELSE tm[c].period

Timed(q, tm, c, m) ==
  /\ WillRun(q, tm, c) <=> m # "eoff"
  /\ m = "efull" => WillBe(q, tm, c) = "pulse"
  /\ m = "ehalf" => WillBe(q, tm, c) = "hold"

TimerIn(e, q, tm, m) ==
  \A c \in Chan :
    \/ LastAt(e, c, {"duty", "period", "stop"})
    \/ Timed(q, tm, c, IF LastAt(e, c, {"start", "mode"}) THEN e.to ELSE m[c])

\* The commands are those of one call for its channel o, and stops of others.
Words(m) ==
  CASE m = "efull" -> {"pulse", "start"}
    [] m = "ehalf" -> {"hold", "start"}
    [] m = "eoff"  -> {"stop"}

Owned(q, o, m) ==
  \A i \in 1..Len(q) : q[i].what \in IF q[i].chan = o THEN Words(m) ELSE {"stop"}

OwnedIn(s, q) ==
  \E o \in Chan, m \in Mode :
    Owned(q, o, m) /\ (s # <<>> => s[1].chan = o /\ s[1].to = m)

\* They are three at most, so that none finds the queue full: n are in it.
Fits(k, e, m, n) ==
  /\ k = 1 =>
       /\ e.pc \in {"duty", "period", "stop"} => n = 0
       /\ e.pc = "start" => n <= 1
       /\ e.pc = "mode" => n <= 2
       /\ e.pc \in {"exclude", "scan"} /\ (\E d \in Chan : d # e.chan /\ IsOn(m, d)) => n <= 2
  /\ k = 2 /\ e.pc \in {"duty", "stop"} => n <= 2

Rest(s) ==
  /\ DutyIn(Innermost(s), duty, mode)
  /\ ReportIn(s, reported, mode)
  /\ TimerIn(Innermost(s), cmds, timer, mode)
  /\ OwnedIn(s, cmds)
  /\ Fits(Len(s), Innermost(s), mode, Len(cmds))

RestInv == \A t \in Threads : Acts(t) => Rest(stack[t])

\* What a queue holds after a command was added, or taken.
LEMMA PendingAppend ==
  ASSUME NEW q \in Seq(Command), NEW x
  PROVE  \A d, v : Pending(Append(q, x), d, v) <=> Pending(q, d, v) \/ (x.chan = d /\ x.what = v)
<1> DEFINE r == Append(q, x)
           n == Len(q)
<1>1. /\ Len(r) = n + 1 /\ r[n + 1] = x /\ n \in Nat
      /\ \A i \in 1..n : r[i] = q[i]
  OBVIOUS
<1> HIDE DEF r
<1>2. /\ n + 1 \in 1..Len(r) /\ \A i \in 1..n : i \in 1..Len(r)
      /\ \A i \in 1..Len(r) : i \in 1..n \/ i = n + 1
  BY <1>1
<1>3. \A d, v : Pending(r, d, v) <=> Pending(q, d, v) \/ (x.chan = d /\ x.what = v)
  BY <1>1, <1>2, Zenon DEF Pending
<1> QED
  BY <1>3 DEF r

\* or taken from it.
LEMMA PendingTail ==
  ASSUME NEW q \in Seq(Command), q # <<>>
  PROVE  \A d, v : Pending(q, d, v) <=>
                     Pending(Tail(q), d, v) \/ (Head(q).chan = d /\ Head(q).what = v)
<1> DEFINE r == Tail(q)
           n == Len(r)
<1>1. /\ n \in Nat /\ Len(q) = n + 1 /\ q[1] = Head(q)
      /\ \A i \in 1..n : r[i] = q[i + 1]
  OBVIOUS
<1> HIDE DEF r
<1>2. ASSUME NEW d, NEW v, Pending(q, d, v)
      PROVE  Pending(r, d, v) \/ (Head(q).chan = d /\ Head(q).what = v)
  <2>1. PICK i \in 1..Len(q) : q[i].chan = d /\ q[i].what = v
    BY <1>2, Zenon DEF Pending
  <2>2. CASE i = 1
    BY <1>1, <2>1, <2>2
  <2>3. CASE i # 1
    <3>1. i - 1 \in 1..n /\ r[i - 1] = q[i]
      BY <1>1, <2>1, <2>3
    <3> QED
      BY <2>1, <3>1 DEF Pending
  <2> QED
    BY <2>2, <2>3
<1>3. ASSUME NEW d, NEW v, Pending(r, d, v)
      PROVE  Pending(q, d, v)
  <2>1. PICK i \in 1..n : r[i].chan = d /\ r[i].what = v
    BY <1>3, Zenon DEF Pending
  <2>2. i + 1 \in 1..Len(q) /\ q[i + 1] = r[i]
    BY <1>1, <2>1
  <2> QED
    BY <2>1, <2>2 DEF Pending
<1>4. Pending(q, Head(q).chan, Head(q).what)
  BY <1>1 DEF Pending
<1> QED
  BY <1>2, <1>3, <1>4 DEF r

\* Commands of one call do not contradict each other.
LEMMA OwnedPending ==
  ASSUME NEW q, NEW o, NEW m, Owned(q, o, m), NEW c, NEW w, Pending(q, c, w)
  PROVE  w \in IF c = o THEN Words(m) ELSE {"stop"}
<1>1. PICK i \in 1..Len(q) : q[i].chan = c /\ q[i].what = w
  BY Zenon DEF Pending
<1> QED
  BY <1>1 DEF Owned

\* A command of the call, or a stop of another channel, keeps them so,
LEMMA OwnedAppend ==
  ASSUME NEW q \in Seq(Command), NEW o, NEW m, Owned(q, o, m), NEW x,
         x.what \in IF x.chan = o THEN Words(m) ELSE {"stop"}
  PROVE  Owned(Append(q, x), o, m)
<1> DEFINE r == Append(q, x)
           n == Len(q)
<1>1. /\ Len(r) = n + 1 /\ r[n + 1] = x /\ n \in Nat
      /\ \A i \in 1..n : r[i] = q[i]
  OBVIOUS
<1> HIDE DEF r
<1>2. ASSUME NEW i \in 1..Len(r)
      PROVE  r[i].what \in IF r[i].chan = o THEN Words(m) ELSE {"stop"}
  <2>1. CASE i = n + 1
    BY <1>1, <2>1
  <2>2. CASE i # n + 1
    <3>1. i \in 1..n /\ r[i] = q[i]
      BY <1>1, <2>2
    <3> QED
      BY <3>1 DEF Owned
  <2> QED
    BY <2>1, <2>2
<1> QED
  BY <1>2 DEF Owned, r

\* and so does taking one.
LEMMA OwnedTail ==
  ASSUME NEW q \in Seq(Command), q # <<>>, NEW o, NEW m, Owned(q, o, m)
  PROVE  Owned(Tail(q), o, m)
<1> DEFINE r == Tail(q)
<1>1. \A i \in 1..Len(r) : i + 1 \in 1..Len(q) /\ r[i] = q[i + 1]
  OBVIOUS
<1> HIDE DEF r
<1> QED
  BY <1>1 DEF Owned, r

\* What commands make of a timer: those of another channel nothing,
LEMMA TimedOther ==
  ASSUME NEW q \in Seq(Command), NEW tm, NEW x, NEW d, x.chan # d, NEW m, Timed(q, tm, d, m)
  PROVE  Timed(Append(q, x), tm, d, m)
<1> DEFINE r == Append(q, x)
<1>1. \A v : Pending(r, d, v) <=> Pending(q, d, v)
  BY PendingAppend
<1> HIDE DEF r
<1>2. (WillRun(r, tm, d) <=> WillRun(q, tm, d)) /\ WillBe(r, tm, d) = WillBe(q, tm, d)
  BY <1>1 DEF WillRun, WillBe
<1> QED
  BY <1>2 DEF Timed, r

\* a period that the mode asks for sets and starts it,
LEMMA TimedPeriod ==
  ASSUME NEW q \in Seq(Command), NEW tm, NEW x, NEW m \in {"efull", "ehalf"},
         Owned(q, x.chan, m), x.what = IF m = "efull" THEN "pulse" ELSE "hold"
  PROVE  Timed(Append(q, x), tm, x.chan, m)
<1> DEFINE r == Append(q, x)
           c == x.chan
           w == x.what
<1>1. \A v : Pending(r, c, v) <=> Pending(q, c, v) \/ v = w
  BY PendingAppend
<1>2. Pending(q, c, "pulse") => m = "efull"
  BY OwnedPending DEF Words
<1> HIDE DEF r
<1>3. WillRun(r, tm, c)
  BY <1>1 DEF WillRun
<1>4. WillBe(r, tm, c) = w
  BY <1>1, <1>2 DEF WillBe
<1> QED
  BY <1>3, <1>4 DEF Timed, r

\* a start keeps it going,
LEMMA TimedStart ==
  ASSUME NEW q \in Seq(Command), NEW tm, NEW x, x.what = "start", NEW m, m # "eoff",
         Timed(q, tm, x.chan, m)
  PROVE  Timed(Append(q, x), tm, x.chan, m)
<1> DEFINE r == Append(q, x)
           c == x.chan
<1>1. \A v : Pending(r, c, v) <=> Pending(q, c, v) \/ v = "start"
  BY PendingAppend
<1> HIDE DEF r
<1>2. WillRun(r, tm, c) /\ WillBe(r, tm, c) = WillBe(q, tm, c)
  BY <1>1 DEF WillRun, WillBe
<1> QED
  BY <1>2 DEF Timed, r

\* a stop ends it,
LEMMA TimedStop ==
  ASSUME NEW q \in Seq(Command), NEW tm, NEW x, x.what = "stop",
         \A v : Pending(q, x.chan, v) => v = "stop"
  PROVE  Timed(Append(q, x), tm, x.chan, "eoff")
<1> DEFINE r == Append(q, x)
           c == x.chan
<1>1. \A v : Pending(r, c, v) <=> Pending(q, c, v) \/ v = "stop"
  BY PendingAppend
<1> HIDE DEF r
<1>2. ~WillRun(r, tm, c)
  <2>1. ~Pending(r, c, "pulse") /\ ~Pending(r, c, "hold") /\ ~Pending(r, c, "start")
    BY <1>1
  <2> QED
    BY <1>1, <2>1 DEF WillRun
<1> QED
  BY <1>2 DEF Timed, r

\* and to carry one out changes nothing of what is to come.
LEMMA TimedTake ==
  ASSUME NEW q \in Seq(Command), q # <<>>, NEW o, NEW om, om \in Mode, Owned(q, o, om),
         NEW tm \in [Chan -> Timer], NEW tm2, NEW w, NEW x, w = Head(q).what, x = Head(q).chan,
         tm2 = [tm EXCEPT ![x] = [running |-> w # "stop",
                                  period  |-> IF w \in {"pulse", "hold"} THEN w ELSE @.period]],
         NEW c \in Chan, NEW m, Timed(q, tm, c, m)
  PROVE  Timed(Tail(q), tm2, c, m)
<1> DEFINE r == Tail(q)
<1>1. \A v : Pending(q, c, v) <=> Pending(r, c, v) \/ (x = c /\ w = v)
  BY PendingTail, Zenon
<1>2. w \in {"pulse", "hold", "start", "stop"}
  <2>1. Head(q) \in Command
    OBVIOUS
  <2> QED
    BY <2>1 DEF Command
<1> HIDE DEF r
<1>3. CASE x # c
  <2>1. tm2[c] = tm[c]
    BY <1>3
  <2>2. \A v : Pending(q, c, v) <=> Pending(r, c, v)
    BY <1>1, <1>3, Zenon
  <2> QED
    BY <2>1, <2>2 DEF Timed, WillRun, WillBe, r
<1>4. CASE x = c
  <2>1. /\ tm2[c].running = (w # "stop")
        /\ tm2[c].period = IF w \in {"pulse", "hold"} THEN w ELSE tm[c].period
    BY <1>4
  <2>2. Pending(q, c, w)
    BY <1>1, <1>4
  <2>3. \A v : Pending(q, c, v) => (w = "stop" <=> v = "stop")
                                  /\ (w = "pulse" => v # "hold") /\ (w = "hold" => v # "pulse")
    <3> SUFFICES ASSUME NEW v, Pending(q, c, v)
                 PROVE  (w = "stop" <=> v = "stop")
                        /\ (w = "pulse" => v # "hold") /\ (w = "hold" => v # "pulse")
      OBVIOUS
    <3>1. /\ v \in IF c = o THEN Words(om) ELSE {"stop"}
          /\ w \in IF c = o THEN Words(om) ELSE {"stop"}
      BY <2>2, OwnedPending
    <3>2. CASE c # o
      BY <3>1, <3>2
    <3>3. CASE om = "efull" /\ c = o
      BY <3>1, <3>3 DEF Words
    <3>4. CASE om = "ehalf" /\ c = o
      BY <3>1, <3>4 DEF Words
    <3>5. CASE om = "eoff" /\ c = o
      BY <3>1, <3>5 DEF Words
    <3> QED
      BY <3>2, <3>3, <3>4, <3>5 DEF Mode
  <2>4. WillRun(r, tm2, c) <=> WillRun(q, tm, c)
    <3>1. CASE w = "stop"
      <4>1. /\ ~Pending(r, c, "pulse") /\ ~Pending(r, c, "hold") /\ ~Pending(r, c, "start")
            /\ ~Pending(q, c, "pulse") /\ ~Pending(q, c, "hold") /\ ~Pending(q, c, "start")
        BY <1>1, <2>3, <3>1
      <4> QED
        BY <2>1, <2>2, <3>1, <4>1 DEF WillRun
    <3>2. CASE w # "stop"
      <4>1. ~Pending(r, c, "stop")
        BY <1>1, <2>3, <3>2
      <4>2. WillRun(r, tm2, c)
        BY <2>1, <3>2, <4>1 DEF WillRun
      <4>3. WillRun(q, tm, c)
        BY <1>2, <2>2, <3>2 DEF WillRun
      <4> QED
        BY <4>2, <4>3
    <3> QED
      BY <3>1, <3>2
  <2>5. WillBe(r, tm2, c) = WillBe(q, tm, c)
    <3>1. CASE w = "pulse"
      BY <1>1, <1>4, <2>1, <2>3, <3>1 DEF WillBe
    <3>2. CASE w = "hold"
      BY <1>1, <1>4, <2>1, <2>3, <3>2 DEF WillBe
    <3>3. CASE w \notin {"pulse", "hold"}
      BY <1>1, <1>4, <2>1, <3>3 DEF WillBe
    <3> QED
      BY <3>1, <3>2, <3>3
  <2> QED
    BY <2>4, <2>5 DEF Timed, r
<1> QED
  BY <1>3, <1>4

\* What the form of a stack says of its innermost level.
LEMMA CalmLast ==
  ASSUME NEW s, s # <<>>, NEW m, Calm(s, m), NEW e, e = s[Len(s)]
  PROVE  /\ \/ Len(s) = 1 /\ s[1] = e
            \/ /\ Len(s) = 2 /\ s[1].chan # e.chan /\ s[1].to = "efull" /\ s[1].pc = "scan"
               /\ e.to = "eoff" /\ e.pc \notin {"period", "start", "scan"}
               /\ e.pc = "write" => \A d \in Chan : IsOn(m, d) => d = s[1].chan
         /\ e.pc \in {"period", "start"} => e.to \in {"efull", "ehalf"}
         /\ e.pc = "stop" => e.to = "eoff"
         /\ e.pc = "mode" /\ e.to = "ehalf" => m[e.chan] = "efull"
         /\ e.pc = "write" => e.value = Shows(m, e.chan)
<1>1. CASE \E f \in Activation :
             /\ s = <<f>> /\ s[Len(s)] = f
             /\ Starting(f, m) \/ Scanning(f, m) \/ Ending(f, m)
  <2>1. PICK f \in Activation :
             /\ s = <<f>> /\ s[Len(s)] = f
             /\ Starting(f, m) \/ Scanning(f, m) \/ Ending(f, m)
    BY <1>1
  <2>2. Len(s) = 1 /\ s[1] = e
    BY <2>1
  <2>3. f = e /\ f.to \in Mode
    BY <2>1 DEF Activation
  <2> QED
    BY <2>1, <2>2, <2>3 DEF Starting, Scanning, Ending, Mode
<1>2. CASE \E f, g \in Activation :
             /\ s = <<f, g>> /\ s[Len(s)] = g
             /\ Closing(f, g, m) \/ Closed(f, g, m)
  <2>1. PICK f \in Activation, g \in Activation :
             /\ s = <<f, g>> /\ s[Len(s)] = g
             /\ Closing(f, g, m) \/ Closed(f, g, m)
    BY <1>2
  <2>2. Len(s) = 2 /\ s[1] = f
    BY <2>1
  <2>3. g = e /\ g.chan \in Chan
    BY <2>1 DEF Activation
  <2>4. e.pc = "write" => e.value = Shows(m, e.chan)
    <3> SUFFICES ASSUME e.pc = "write"
                 PROVE  e.value = Shows(m, e.chan)
      OBVIOUS
    <3>1. Closed(f, e, m)
      BY <2>1, <2>3 DEF Closing
    <3>2. ~IsOn(m, e.chan)
      BY <2>3, <3>1 DEF Closed
    <3> QED
      BY <3>1, <3>2 DEF Closed, Shows
  <2> QED
    BY <2>1, <2>2, <2>3, <2>4 DEF Closing, Closed
<1> QED
  BY <1>1, <1>2, CalmForms, Zenon

\* Replacing the innermost level, and returning from it.
LEMMA LastReplace ==
  ASSUME NEW s \in Seq(Activation), s # <<>>, NEW e, e = s[Len(s)], NEW h \in Activation,
         h.chan = e.chan, h.to = e.to, h.pc \in Before => e.pc \in Before,
         NEW q, q = Replace(s, h)
  PROVE  /\ Innermost(q) = h /\ Len(q) = Len(s)
         /\ q # <<>> /\ q[1].chan = s[1].chan /\ q[1].to = s[1].to
         /\ \A c : Due(s, c) => Due(q, c)
<1>1. /\ q \in Seq(Activation) /\ Len(q) = Len(s) /\ q[Len(s)] = h
      /\ \A k \in 1..Len(s) : k # Len(s) => q[k] = s[k]
  BY ReplaceLast
<1>2. q # <<>> /\ Len(s) >= 1 /\ Len(s) \in Nat
  BY <1>1, EmptyOrNot
<1>3. q[1].chan = s[1].chan /\ q[1].to = s[1].to
  BY <1>1, <1>2
<1>4. ASSUME NEW c, Due(s, c)
      PROVE  Due(q, c)
  <2>1. PICK k \in 1..Len(s) : s[k].chan = c /\ s[k].pc \notin Before
    BY <1>4, Zenon DEF Due
  <2>2. q[k].chan = c /\ q[k].pc \notin Before /\ k \in 1..Len(q)
    BY <1>1, <2>1
  <2> QED
    BY <2>2 DEF Due
<1> QED
  BY <1>1, <1>2, <1>3, <1>4 DEF Innermost

\* The same for a level that returns,
LEMMA LastPop ==
  ASSUME NEW s \in Seq(Activation), s # <<>>, NEW e, e = s[Len(s)], NEW q, q = Pop(s)
  PROVE  /\ Len(s) = 1 => q = <<>> /\ Innermost(q) = NoLevel
         /\ Len(s) = 2 => q # <<>> /\ q[1] = s[1] /\ Innermost(q) = s[1] /\ Len(q) = 1
         /\ \A c : Due(s, c) => Due(q, c) \/ (e.chan = c /\ e.pc \notin Before)
<1>1. /\ q \in Seq(Activation) /\ Len(q) = Len(s) - 1
      /\ \A k \in 1..(Len(s) - 1) : q[k] = s[k]
  BY PopLast
<1>2. Len(s) >= 1 /\ Len(s) \in Nat
  BY EmptyOrNot
<1>3. Len(s) = 1 => q = <<>>
  BY OneLevel
<1>4. Len(s) = 2 => q # <<>> /\ q[1] = s[1] /\ q[Len(q)] = s[1] /\ Len(q) = 1
  BY <1>1, EmptyOrNot
<1>5. ASSUME NEW c, Due(s, c), ~(e.chan = c /\ e.pc \notin Before)
      PROVE  Due(q, c)
  <2>1. PICK k \in 1..Len(s) : s[k].chan = c /\ s[k].pc \notin Before
    BY <1>5, Zenon DEF Due
  <2>2. k # Len(s)
    BY <1>5, <2>1
  <2>3. q[k].chan = c /\ q[k].pc \notin Before /\ k \in 1..Len(q)
    BY <1>1, <1>2, <2>1, <2>2
  <2> QED
    BY <2>3 DEF Due
<1> QED
  BY <1>3, <1>4, <1>5 DEF Innermost

\* and for one that is called.
LEMMA LastPush ==
  ASSUME NEW s \in Seq(Activation), NEW h \in Activation, NEW q, q = Append(s, h)
  PROVE  /\ Innermost(q) = h /\ Len(q) = Len(s) + 1 /\ q # <<>>
         /\ s # <<>> => q[1] = s[1]
         /\ \A c : Due(s, c) => Due(q, c)
<1>1. /\ q \in Seq(Activation) /\ Len(q) = Len(s) + 1 /\ q[Len(q)] = h /\ Len(s) \in Nat
      /\ \A k \in 1..Len(s) : q[k] = s[k]
  OBVIOUS
<1>2. q # <<>>
  BY <1>1, EmptyOrNot
<1>3. s # <<>> => q[1] = s[1]
  BY <1>1, EmptyOrNot
<1>4. ASSUME NEW c, Due(s, c)
      PROVE  Due(q, c)
  <2>1. PICK k \in 1..Len(s) : s[k].chan = c /\ s[k].pc \notin Before
    BY <1>4, Zenon DEF Due
  <2>2. k \in 1..Len(q) /\ q[k] = s[k]
    BY <1>1, <2>1
  <2> QED
    BY <2>1, <2>2 DEF Due
<1> QED
  BY <1>1, <1>2, <1>3, <1>4 DEF Innermost

\* A command of the call under way is never given up: the queue has room.
LEMMA StepRests ==
  ASSUME QueueLen >= 3, TypeOK, FreshScan, CalmInv, RestInv, NEW t \in Threads, Step(t)
  PROVE  RestInv'
<1> DEFINE s == stack[t]
           e == Top(t)
           n == Len(cmds)
           own == IF Len(s) = 1 THEN Words(e.to) ELSE {"stop"}
<1>1. s \in Seq(Activation) /\ s # <<>> /\ e = s[Len(s)]
  BY DEF TypeOK, Top, Step, At, SetDuty, SetPeriod, StartTimer, StopTimer, SetMode, Exclude,
         SwitchOther, SkipOther, ReadState, WriteState
<1>2. e \in Activation /\ e.chan \in Chan
  BY <1>1, TopTyped DEF Activation
<1>3. Calm(s, mode) /\ \A u \in Threads : u # t => stack[u] = <<>>
  BY <1>1, OthersIdle DEF CalmInv, Acts
<1>4. /\ DutyIn(e, duty, mode) /\ ReportIn(s, reported, mode) /\ TimerIn(e, cmds, timer, mode)
      /\ OwnedIn(s, cmds) /\ Fits(Len(s), e, mode, n)
  <2>1. Innermost(s) = e
    BY <1>1 DEF Innermost
  <2>2. Rest(s)
    BY <1>1 DEF RestInv, Acts
  <2> HIDE DEF s, e
  <2> QED
    BY <2>1, <2>2 DEF Rest
<1>5. /\ \/ Len(s) = 1 /\ s[1] = e
         \/ /\ Len(s) = 2 /\ s[1].chan # e.chan /\ s[1].to = "efull" /\ s[1].pc = "scan"
            /\ e.to = "eoff" /\ e.pc \notin {"period", "start", "scan"}
            /\ e.pc = "write" => \A d \in Chan : IsOn(mode, d) => d = s[1].chan
      /\ e.pc \in {"period", "start"} => e.to \in {"efull", "ehalf"}
      /\ e.pc = "stop" => e.to = "eoff"
      /\ e.pc = "mode" /\ e.to = "ehalf" => mode[e.chan] = "efull"
      /\ e.pc = "write" => e.value = Shows(mode, e.chan)
  <2> HIDE DEF s, e
  <2> QED
    BY <1>1, <1>3, CalmLast
<1>6. ASSUME NEW q, stack' = [stack EXCEPT ![t] = q],
             DutyIn(Innermost(q), duty', mode'), ReportIn(q, reported', mode'),
             TimerIn(Innermost(q), cmds', timer', mode'), OwnedIn(q, cmds'),
             Fits(Len(q), Innermost(q), mode', Len(cmds'))
      PROVE  RestInv'
  <2>1. \A u \in Threads : Acts(u)' => stack'[u] = q
    BY <1>3, <1>6, ActsAlone
  <2>2. Rest(q)'
    BY <1>6 DEF Rest
  <2> QED
    BY <2>1, <2>2 DEF RestInv
<1> HIDE DEF s, e
\* The innermost level goes on; what is due, and the first level, stay.
<1>7. ASSUME NEW h \in Activation, h.chan = e.chan, h.to = e.to,
             h.pc \in Before => e.pc \in Before,
             stack' = [stack EXCEPT ![t] = Replace(s, h)],
             DutyIn(h, duty', mode'),
             ReportIn(s, reported', mode') \/ ReportIn(Replace(s, h), reported', mode'),
             TimerIn(h, cmds', timer', mode'), OwnedIn(s, cmds'),
             Fits(Len(s), h, mode', Len(cmds'))
      PROVE  RestInv'
  <2> DEFINE q == Replace(s, h)
  <2>1. /\ Innermost(q) = h /\ Len(q) = Len(s)
        /\ q # <<>> /\ q[1].chan = s[1].chan /\ q[1].to = s[1].to
        /\ \A c : Due(s, c) => Due(q, c)
    BY <1>1, <1>7, LastReplace
  <2>2. ReportIn(q, reported', mode')
    BY <1>7, <2>1 DEF ReportIn
  <2>3. OwnedIn(q, cmds')
    BY <1>1, <1>7, <2>1 DEF OwnedIn
  <2>4. stack' = [stack EXCEPT ![t] = q]
    BY <1>7
  <2> HIDE DEF q
  <2> QED
    BY <1>6, <1>7, <2>1, <2>2, <2>3, <2>4
<1>8. ASSUME NEW pc \in PC
      PROVE  LET h == [e EXCEPT !.pc = pc]
             IN  h \in Activation /\ h.pc = pc /\ h.chan = e.chan /\ h.to = e.to
  BY <1>2 DEF Activation
<1>9. cmds \in Seq(Command) /\ n \in Nat /\ n <= QueueLen
  BY DEF TypeOK
\* A command of this call.
<1>10. ASSUME NEW w \in own, Send(w, e.chan), n <= 2
       PROVE  \E x : /\ x.chan = e.chan /\ x.what = w /\ cmds' = Append(cmds, x)
                     /\ OwnedIn(s, cmds') /\ Len(cmds') = n + 1
  <2> DEFINE x == [chan |-> e.chan, what |-> w]
  <2>1. cmds' = Append(cmds, x)
    BY <1>9, <1>10, ChannelsAssumption DEF Send
  <2>2. x.chan = e.chan /\ x.what = w
    OBVIOUS
  <2> HIDE DEF x
  <2>3. Len(cmds') = n + 1
    BY <1>9, <2>1
  <2>4. PICK o \in Chan, m \in Mode : Owned(cmds, o, m) /\ s[1].chan = o /\ s[1].to = m
    BY <1>1, <1>4 DEF OwnedIn
  <2>5. x.what \in IF x.chan = o THEN Words(m) ELSE {"stop"}
    <3>1. CASE Len(s) = 1
      <4>1. w \in Words(e.to)
        BY <1>10, <3>1
      <4> QED
        BY <1>5, <2>2, <2>4, <3>1, <4>1
    <3>2. CASE Len(s) = 2
      <4>1. w = "stop"
        BY <1>10, <3>2
      <4> QED
        BY <1>5, <2>2, <2>4, <3>2, <4>1
    <3> QED
      BY <1>5, <3>1, <3>2
  <2>6. Owned(cmds', o, m)
    BY <1>9, <2>1, <2>4, <2>5, OwnedAppend
  <2>7. OwnedIn(s, cmds')
    BY <2>4, <2>6 DEF OwnedIn
  <2> QED
    BY <2>1, <2>2, <2>3, <2>7
<1> HIDE DEF n, own
<1>11. ASSUME Len(s) = 1
       PROVE  Owned(cmds, e.chan, e.to)
  BY <1>1, <1>4, <1>5, <1>11 DEF OwnedIn
<1>20. CASE SetDuty(t)
  <2> DEFINE pc == IF e.to = "eoff" THEN "stop" ELSE "period"
             h == [e EXCEPT !.pc = pc]
  <2>1. /\ e.pc = "duty" /\ duty' = [duty EXCEPT ![e.chan] = e.to]
        /\ stack' = [stack EXCEPT ![t] = Replace(s, h)]
        /\ mode' = mode /\ reported' = reported /\ timer' = timer /\ cmds' = cmds
    BY <1>20 DEF SetDuty, Go, At, e, s
  <2>2. h \in Activation /\ h.pc = pc /\ h.chan = e.chan /\ h.to = e.to
    BY <1>8 DEF PC
  <2>3. pc \in {"stop", "period"}
    OBVIOUS
  <2> HIDE DEF h, pc
  <2>4. DutyIn(h, duty', mode')
    BY <1>2, <1>4, <2>1, <2>2, <2>3 DEF DutyIn, LastAt, TypeOK
  <2>5. TimerIn(h, cmds', timer', mode')
    BY <1>4, <2>1, <2>2, <2>3 DEF TimerIn, LastAt
  <2>6. Fits(Len(s), h, mode', Len(cmds'))
    BY <1>4, <1>5, <2>1, <2>2, <2>3 DEF Fits, n
  <2>7. ReportIn(s, reported', mode') /\ OwnedIn(s, cmds')
    BY <1>4, <2>1
  <2> QED
    BY <1>7, <2>1, <2>2, <2>4, <2>5, <2>6, <2>7 DEF Before
<1>21. CASE SetPeriod(t)
  <2> DEFINE w == IF e.to = "efull" THEN "pulse" ELSE "hold"
             h == [e EXCEPT !.pc = "start"]
  <2>1. /\ e.pc = "period" /\ Send(w, e.chan)
        /\ stack' = [stack EXCEPT ![t] = Replace(s, h)]
        /\ mode' = mode /\ reported' = reported /\ timer' = timer /\ duty' = duty
    BY <1>21 DEF SetPeriod, Go, At, e, s
  <2>2. h \in Activation /\ h.pc = "start" /\ h.chan = e.chan /\ h.to = e.to
    BY <1>8 DEF PC
  <2> HIDE DEF h
  <2>3. Len(s) = 1 /\ e.to \in {"efull", "ehalf"} /\ n = 0
    BY <1>4, <1>5, <2>1 DEF Fits
  <2>4. w \in Words(e.to)
    BY <2>3 DEF Words
  <2>5. PICK x : /\ x.chan = e.chan /\ x.what = w /\ cmds' = Append(cmds, x)
                 /\ OwnedIn(s, cmds') /\ Len(cmds') = n + 1
    <3> HIDE DEF w
    <3>1. n <= 2 /\ w \in own
      BY <2>3, <2>4 DEF own
    <3> QED
      BY <1>10, <2>1, <3>1
  <2>6. Owned(cmds, e.chan, e.to)
    BY <1>11, <2>3
  <2>7. Timed(cmds', timer, e.chan, e.to)
    BY <1>9, <2>3, <2>5, <2>6, TimedPeriod
  <2>8. \A c \in Chan : c # e.chan => Timed(cmds', timer, c, mode[c])
    <3> SUFFICES ASSUME NEW c \in Chan, c # e.chan
                 PROVE  Timed(cmds', timer, c, mode[c])
      OBVIOUS
    <3>1. Timed(cmds, timer, c, mode[c])
      BY <1>4 DEF TimerIn, LastAt
    <3> QED
      BY <1>9, <2>5, <3>1, TimedOther
  <2>9. TimerIn(h, cmds', timer', mode')
    BY <2>1, <2>2, <2>7, <2>8 DEF TimerIn, LastAt
  <2>10. DutyIn(h, duty', mode')
    BY <1>4, <2>1, <2>2 DEF DutyIn, LastAt
  <2>11. Fits(Len(s), h, mode', Len(cmds'))
    BY <2>2, <2>3, <2>5 DEF Fits
  <2>12. ReportIn(s, reported', mode')
    BY <1>4, <2>1
  <2> QED
    BY <1>7, <2>1, <2>2, <2>5, <2>9, <2>10, <2>11, <2>12 DEF Before
<1>22. CASE StartTimer(t)
  <2> DEFINE h == [e EXCEPT !.pc = "mode"]
  <2>1. /\ e.pc = "start" /\ Send("start", e.chan)
        /\ stack' = [stack EXCEPT ![t] = Replace(s, h)]
        /\ mode' = mode /\ reported' = reported /\ timer' = timer /\ duty' = duty
    BY <1>22 DEF StartTimer, Go, At, e, s
  <2>2. h \in Activation /\ h.pc = "mode" /\ h.chan = e.chan /\ h.to = e.to
    BY <1>8 DEF PC
  <2> HIDE DEF h
  <2>3. Len(s) = 1 /\ e.to \in {"efull", "ehalf"} /\ n <= 1
    BY <1>4, <1>5, <2>1 DEF Fits
  <2>4. "start" \in Words(e.to)
    BY <2>3 DEF Words
  <2>5. PICK x : /\ x.chan = e.chan /\ x.what = "start" /\ cmds' = Append(cmds, x)
                 /\ OwnedIn(s, cmds') /\ Len(cmds') = n + 1
    <3>1. n <= 2 /\ "start" \in own
      BY <1>9, <2>3, <2>4 DEF own
    <3> QED
      BY <1>10, <2>1, <3>1
  <2>6. Timed(cmds, timer, e.chan, e.to)
    BY <1>2, <1>4, <2>1 DEF TimerIn, LastAt
  <2>7. Timed(cmds', timer, e.chan, e.to)
    BY <1>9, <2>3, <2>5, <2>6, TimedStart
  <2>8. \A c \in Chan : c # e.chan => Timed(cmds', timer, c, mode[c])
    <3> SUFFICES ASSUME NEW c \in Chan, c # e.chan
                 PROVE  Timed(cmds', timer, c, mode[c])
      OBVIOUS
    <3>1. Timed(cmds, timer, c, mode[c])
      BY <1>4 DEF TimerIn, LastAt
    <3> QED
      BY <1>9, <2>5, <3>1, TimedOther
  <2>9. TimerIn(h, cmds', timer', mode')
    BY <2>1, <2>2, <2>7, <2>8 DEF TimerIn, LastAt
  <2>10. DutyIn(h, duty', mode')
    BY <1>4, <2>1, <2>2 DEF DutyIn, LastAt
  <2>11. Fits(Len(s), h, mode', Len(cmds'))
    BY <1>9, <2>2, <2>3, <2>5 DEF Fits
  <2>12. ReportIn(s, reported', mode')
    BY <1>4, <2>1
  <2> QED
    BY <1>7, <2>1, <2>2, <2>5, <2>9, <2>10, <2>11, <2>12 DEF Before
<1>23. CASE StopTimer(t)
  <2> DEFINE h == [e EXCEPT !.pc = "mode"]
  <2>1. /\ e.pc = "stop" /\ Send("stop", e.chan)
        /\ stack' = [stack EXCEPT ![t] = Replace(s, h)]
        /\ mode' = mode /\ reported' = reported /\ timer' = timer /\ duty' = duty
    BY <1>23 DEF StopTimer, Go, At, e, s
  <2>2. h \in Activation /\ h.pc = "mode" /\ h.chan = e.chan /\ h.to = e.to
    BY <1>8 DEF PC
  <2> HIDE DEF h
  <2>3. e.to = "eoff" /\ Len(s) \in {1, 2} /\ (Len(s) = 1 => n = 0) /\ n <= 2
    BY <1>4, <1>5, <2>1 DEF Fits
  <2>4. "stop" \in Words(e.to)
    BY <2>3 DEF Words
  <2>5. PICK x : /\ x.chan = e.chan /\ x.what = "stop" /\ cmds' = Append(cmds, x)
                 /\ OwnedIn(s, cmds') /\ Len(cmds') = n + 1
    <3>1. n <= 2 /\ "stop" \in own
      BY <2>3, <2>4 DEF own
    <3> QED
      BY <1>10, <2>1, <3>1
  <2>6. \A v : Pending(cmds, e.chan, v) => v = "stop"
    <3> SUFFICES ASSUME NEW v, Pending(cmds, e.chan, v)
                 PROVE  v = "stop"
      OBVIOUS
    <3>1. PICK o \in Chan, m \in Mode : Owned(cmds, o, m) /\ s[1].chan = o /\ s[1].to = m
      BY <1>1, <1>4 DEF OwnedIn
    <3>2. v \in IF e.chan = o THEN Words(m) ELSE {"stop"}
      BY <3>1, OwnedPending
    <3>3. e.chan = o => m = "eoff"
      BY <1>5, <2>3, <3>1
    <3> QED
      BY <3>2, <3>3 DEF Words
  <2>7. Timed(cmds', timer, e.chan, e.to)
    BY <1>9, <2>3, <2>5, <2>6, TimedStop
  <2>8. \A c \in Chan : c # e.chan => Timed(cmds', timer, c, mode[c])
    <3> SUFFICES ASSUME NEW c \in Chan, c # e.chan
                 PROVE  Timed(cmds', timer, c, mode[c])
      OBVIOUS
    <3>1. Timed(cmds, timer, c, mode[c])
      BY <1>4 DEF TimerIn, LastAt
    <3> QED
      BY <1>9, <2>5, <3>1, TimedOther
  <2>9. TimerIn(h, cmds', timer', mode')
    BY <2>1, <2>2, <2>7, <2>8 DEF TimerIn, LastAt
  <2>10. DutyIn(h, duty', mode')
    BY <1>4, <2>1, <2>2 DEF DutyIn, LastAt
  <2>11. Fits(Len(s), h, mode', Len(cmds'))
    BY <1>9, <2>2, <2>3, <2>5 DEF Fits
  <2>12. ReportIn(s, reported', mode')
    BY <1>4, <2>1
  <2> QED
    BY <1>7, <2>1, <2>2, <2>5, <2>9, <2>10, <2>11, <2>12 DEF Before
<1>24. CASE SetMode(t)
  <2> DEFINE h == [e EXCEPT !.pc = "exclude"]
  <2>1. /\ e.pc = "mode" /\ mode' = [mode EXCEPT ![e.chan] = e.to]
        /\ stack' = [stack EXCEPT ![t] = IF e.to = "ehalf" THEN Pop(s) ELSE Replace(s, h)]
        /\ reported' = reported /\ timer' = timer /\ duty' = duty /\ cmds' = cmds
    BY <1>24 DEF SetMode, Go, Return, At, e, s
  <2>2. h \in Activation /\ h.pc = "exclude" /\ h.chan = e.chan /\ h.to = e.to
    BY <1>8 DEF PC
  <2> HIDE DEF h
  <2>3. mode'[e.chan] = e.to /\ \A c \in Chan : c # e.chan => mode'[c] = mode[c]
    BY <1>2, <2>1 DEF TypeOK
  \* The mode is what the output and the commands have been told.
  <2>4. ASSUME NEW g, g.pc \notin {"duty", "period", "start", "stop", "mode"}
        PROVE  DutyIn(g, duty', mode') /\ TimerIn(g, cmds', timer', mode')
    <3>1. \A c \in Chan : duty[c] = IF e.chan = c THEN e.to ELSE mode[c]
      BY <1>4, <2>1 DEF DutyIn, LastAt
    <3>2. \A c \in Chan : Timed(cmds, timer, c, IF e.chan = c THEN e.to ELSE mode[c])
      BY <1>4, <2>1 DEF TimerIn, LastAt
    <3>3. DutyIn(g, duty', mode')
      BY <2>1, <2>3, <2>4, <3>1 DEF DutyIn, LastAt
    <3>4. \A c \in Chan : mode'[c] = IF e.chan = c THEN e.to ELSE mode[c]
      BY <2>3
    <3>5. TimerIn(g, cmds', timer', mode')
      BY <2>1, <2>4, <3>2, <3>4 DEF TimerIn, LastAt
    <3> QED
      BY <3>3, <3>5
  <2>5. CASE e.to # "ehalf"
    <3> DEFINE q == Replace(s, h)
    <3>1. stack' = [stack EXCEPT ![t] = q]
      BY <2>1, <2>5
    <3>2. q \in Seq(Activation) /\ Len(q) = Len(s) /\ q[Len(s)] = h
          /\ \A k \in 1..Len(s) : k # Len(s) => q[k] = s[k]
      BY <1>1, <2>2, ReplaceLast
    <3>3. Innermost(q) = h /\ q # <<>> /\ q[1].chan = s[1].chan /\ q[1].to = s[1].to
          /\ \A c : Due(s, c) => Due(q, c)
      BY <1>1, <2>1, <2>2, LastReplace DEF Before
    <3> HIDE DEF q
    <3>4. Due(q, e.chan)
      <4>1. Len(s) \in 1..Len(q)
        BY <1>5, <3>2
      <4> QED
        BY <2>2, <3>2, <4>1 DEF Due, Before
    <3>5. ReportIn(q, reported', mode')
      <4> SUFFICES ASSUME NEW c \in Chan, c # e.chan
                   PROVE  reported[c] = Shows(mode', c) \/ Due(q, c)
        BY <2>1, <3>4 DEF ReportIn
      <4>1. reported[c] = Shows(mode, c) \/ Due(s, c)
        BY <1>4 DEF ReportIn
      <4> QED
        BY <2>3, <3>3, <4>1 DEF Shows, IsOn
    <3>6. OwnedIn(q, cmds')
      BY <1>1, <1>4, <2>1, <3>3 DEF OwnedIn
    <3>7. Fits(Len(q), h, mode', Len(cmds'))
      BY <1>4, <2>1, <2>2, <3>2 DEF Fits, n
    <3>8. DutyIn(h, duty', mode') /\ TimerIn(h, cmds', timer', mode')
      BY <2>2, <2>4
    <3> QED
      BY <1>6, <3>1, <3>3, <3>5, <3>6, <3>7, <3>8
  <2>6. CASE e.to = "ehalf"
    <3> DEFINE q == Pop(s)
    <3>1. stack' = [stack EXCEPT ![t] = q]
      BY <2>1, <2>6
    <3>2. Len(s) = 1 /\ s[1] = e /\ mode[e.chan] = "efull"
      BY <1>5, <2>1, <2>6
    <3>3. q = <<>> /\ Innermost(q) = NoLevel
      BY <1>1, <3>2, LastPop
    <3> HIDE DEF q
    <3>4. \A c : ~Due(s, c)
      <4>1. \A k \in 1..Len(s) : s[k].pc \in Before
        BY <2>1, <3>2 DEF Before
      <4> QED
        BY <4>1, Zenon DEF Due
    <3>5. ReportIn(q, reported', mode')
      <4> SUFFICES ASSUME NEW c \in Chan
                   PROVE  reported[c] = Shows(mode', c)
        BY <2>1 DEF ReportIn
      <4>1. reported[c] = Shows(mode, c)
        BY <1>4, <3>4 DEF ReportIn
      <4> QED
        BY <2>3, <2>6, <3>2, <4>1 DEF Shows, IsOn
    <3>6. OwnedIn(q, cmds')
      BY <1>4, <2>1, <3>3 DEF OwnedIn
    <3>7. Len(q) = 0
      BY <3>3
    <3>8. Fits(Len(q), Innermost(q), mode', Len(cmds'))
      BY <3>7 DEF Fits
    <3>9. DutyIn(NoLevel, duty', mode') /\ TimerIn(NoLevel, cmds', timer', mode')
      BY <2>4 DEF NoLevel
    <3> QED
      BY <1>6, <3>1, <3>3, <3>5, <3>6, <3>8, <3>9
  <2> QED
    BY <2>5, <2>6
\* The rest changes neither modes, outputs nor commands.
<1>25. ASSUME NEW h, e.pc \notin Before, h.pc \notin {"period", "start", "stop", "mode"},
              UNCHANGED <<mode, duty, timer, cmds>>
       PROVE  DutyIn(h, duty', mode') /\ TimerIn(h, cmds', timer', mode')
  <2>1. \A c \in Chan : duty[c] = mode[c] /\ Timed(cmds, timer, c, mode[c])
    BY <1>4, <1>25 DEF DutyIn, TimerIn, LastAt, Before
  <2> QED
    BY <1>25, <2>1 DEF DutyIn, TimerIn, LastAt
<1>26. ASSUME NEW h \in Activation, h.chan = e.chan, h.to = e.to, e.pc \notin Before,
              h.pc \notin Before, stack' = [stack EXCEPT ![t] = Replace(s, h)],
              UNCHANGED <<mode, duty, reported, timer, cmds>>,
              h.pc \in {"exclude", "scan"} => e.pc \in {"exclude", "scan"}
       PROVE  RestInv'
  <2>1. DutyIn(h, duty', mode') /\ TimerIn(h, cmds', timer', mode')
    BY <1>25, <1>26 DEF Before
  <2>2. Fits(Len(s), h, mode', Len(cmds'))
    BY <1>4, <1>26 DEF Fits, Before, n
  <2>3. ReportIn(s, reported', mode') /\ OwnedIn(s, cmds')
    BY <1>4, <1>26
  <2> QED
    BY <1>7, <1>26, <2>1, <2>2, <2>3
<1>27. CASE Exclude(t)
  <2> DEFINE pc == IF On(e.chan) THEN "scan" ELSE "read"
             h == [e EXCEPT !.pc = pc]
  <2>1. /\ e.pc = "exclude" /\ stack' = [stack EXCEPT ![t] = Replace(s, h)]
        /\ UNCHANGED <<mode, duty, reported, timer, cmds>>
    BY <1>27 DEF Exclude, Go, At, e, s
  <2>2. h \in Activation /\ h.pc = pc /\ h.chan = e.chan /\ h.to = e.to
    BY <1>8 DEF PC
  <2>3. pc \in {"scan", "read"}
    OBVIOUS
  <2> HIDE DEF h, pc
  <2> QED
    BY <1>26, <2>1, <2>2, <2>3 DEF Before
<1>28. CASE SwitchOther(t)
  <2>1. PICK d \in Chan :
          /\ LooksAt(e, d)
          /\ On(d)
          /\ stack' = [stack EXCEPT ![t] = Append(Replace(s, Past(e, d)), Activate(d, "eoff"))]
    BY <1>28 DEF SwitchOther, e, s
  <2>2. e.pc = "scan" /\ UNCHANGED <<mode, duty, reported, timer, cmds>>
    BY <1>28 DEF SwitchOther, At, e
  <2> DEFINE f == Past(e, d)
             h == Activate(d, "eoff")
             r == Replace(s, f)
             q == Append(r, h)
  <2>3. d # e.chan /\ IsOn(mode, d)
    BY <2>1 DEF LooksAt, Ahead, On, IsOn
  <2>4. f \in Activation /\ f.chan = e.chan /\ f.pc = "scan" /\ f.to = e.to
    BY <1>2, <2>2, PastTyped DEF Past, Activation
  <2>5. h \in Activation /\ h.pc = "duty"
    BY ActivateTyped DEF Mode, Activate
  <2>6. stack' = [stack EXCEPT ![t] = q]
    BY <2>1
  <2> HIDE DEF f, h
  <2>7. r \in Seq(Activation) /\ Len(r) = Len(s) /\ r # <<>>
        /\ r[1].chan = s[1].chan /\ r[1].to = s[1].to
        /\ \A c : Due(s, c) => Due(r, c)
    <3>1. r \in Seq(Activation)
      BY <1>1, <2>4, ReplaceLast
    <3> QED
      BY <1>1, <2>2, <2>4, <3>1, LastReplace DEF Before
  <2> HIDE DEF r
  <2>8. Innermost(q) = h /\ Len(q) = Len(r) + 1 /\ q # <<>> /\ q[1] = r[1]
        /\ \A c : Due(r, c) => Due(q, c)
    BY <2>5, <2>7, LastPush
  <2> HIDE DEF q
  <2>9. Len(s) = 1 /\ n <= 2
    BY <1>4, <1>5, <2>1, <2>2, <2>3 DEF Fits
  <2>10. DutyIn(h, duty', mode') /\ TimerIn(h, cmds', timer', mode')
    BY <1>25, <2>2, <2>5 DEF Before
  <2>11. ReportIn(q, reported', mode')
    BY <1>4, <2>2, <2>7, <2>8 DEF ReportIn
  <2>12. OwnedIn(q, cmds')
    BY <1>1, <1>4, <2>2, <2>7, <2>8 DEF OwnedIn
  <2>13. Fits(Len(q), h, mode', Len(cmds'))
    BY <2>2, <2>5, <2>7, <2>8, <2>9 DEF Fits, n
  <2> QED
    BY <1>6, <2>6, <2>8, <2>10, <2>11, <2>12, <2>13
<1>29. CASE SkipOther(t)
  <2>1. PICK d \in Chan : stack' = [stack EXCEPT ![t] = Replace(s, Past(e, d))]
    BY <1>29 DEF SkipOther, e, s
  <2>2. e.pc = "scan" /\ UNCHANGED <<mode, duty, reported, timer, cmds>>
    BY <1>29 DEF SkipOther, At, e
  <2> DEFINE h == Past(e, d)
  <2>3. h \in Activation /\ h.chan = e.chan /\ h.pc = "scan" /\ h.to = e.to
    BY <1>2, <2>2, PastTyped DEF Past, Activation
  <2>4. stack' = [stack EXCEPT ![t] = Replace(s, h)]
    BY <2>1
  <2> HIDE DEF h
  <2> QED
    BY <1>26, <2>2, <2>3, <2>4 DEF Before
<1>30. CASE ReadState(t)
  <2> DEFINE v == IF On(e.chan) THEN "ON" ELSE "OFF"
             h == [e EXCEPT !.pc = "write", !.value = v]
  <2>1. /\ stack' = [stack EXCEPT ![t] = Replace(s, h)]
        /\ UNCHANGED <<mode, duty, reported, timer, cmds>>
    BY <1>30 DEF ReadState, e, s
  <2>2. e.pc \in {"read", "scan"}
    BY <1>30 DEF ReadState, At, e
  <2>3. h \in Activation /\ h.pc = "write" /\ h.chan = e.chan /\ h.to = e.to
    BY <1>2 DEF Activation, PC
  <2> HIDE DEF h, v
  <2> QED
    BY <1>26, <2>1, <2>2, <2>3 DEF Before
<1>31. CASE WriteState(t)
  <2> DEFINE q == Pop(s)
  <2>1. /\ e.pc = "write" /\ reported' = [reported EXCEPT ![e.chan] = e.value]
        /\ stack' = [stack EXCEPT ![t] = q] /\ UNCHANGED <<mode, duty, timer, cmds>>
    BY <1>31 DEF WriteState, Return, At, e, s
  <2>2. /\ Len(s) = 1 => q = <<>> /\ Innermost(q) = NoLevel
        /\ Len(s) = 2 => q # <<>> /\ q[1] = s[1] /\ Innermost(q) = s[1] /\ Len(q) = 1
        /\ \A c : Due(s, c) => Due(q, c) \/ (e.chan = c /\ e.pc \notin Before)
    BY <1>1, LastPop
  <2> HIDE DEF q
  <2>3. reported'[e.chan] = Shows(mode, e.chan)
        /\ \A c \in Chan : c # e.chan => reported'[c] = reported[c]
    BY <1>2, <1>5, <2>1 DEF TypeOK
  <2>4. ReportIn(q, reported', mode')
    <3> SUFFICES ASSUME NEW c \in Chan, c # e.chan
                 PROVE  reported[c] = Shows(mode, c) \/ Due(q, c)
      BY <2>1, <2>3 DEF ReportIn
    <3>1. reported[c] = Shows(mode, c) \/ Due(s, c)
      BY <1>4 DEF ReportIn
    <3> QED
      BY <2>2, <3>1
  <2>5. Innermost(q).pc \in {"none", "scan"}
    BY <1>5, <2>1, <2>2 DEF NoLevel
  <2>6. DutyIn(Innermost(q), duty', mode') /\ TimerIn(Innermost(q), cmds', timer', mode')
    <3> DEFINE h == Innermost(q)
    <3>1. h.pc \in {"none", "scan"}
      BY <2>5
    <3> HIDE DEF h
    <3>2. DutyIn(h, duty', mode') /\ TimerIn(h, cmds', timer', mode')
      BY <1>25, <2>1, <3>1 DEF Before
    <3> QED
      BY <3>2 DEF h
  <2>7. OwnedIn(q, cmds')
    BY <1>1, <1>4, <1>5, <2>1, <2>2 DEF OwnedIn
  <2>8. Fits(Len(q), Innermost(q), mode', Len(cmds'))
    <3>1. CASE Len(s) = 1
      <4>1. Len(q) = 0
        BY <2>2, <3>1
      <4> QED
        BY <4>1 DEF Fits
    <3>2. CASE Len(s) = 2
      <4>1. Len(q) = 1 /\ Innermost(q) = s[1] /\ s[1].pc = "scan"
        BY <1>5, <2>2, <3>2
      <4>2. \A d \in Chan : ~(d # s[1].chan /\ IsOn(mode, d))
        BY <1>5, <2>1, <3>2
      <4> QED
        BY <2>1, <4>1, <4>2 DEF Fits
    <3> QED
      BY <1>5, <3>1, <3>2
  <2> QED
    BY <1>6, <2>1, <2>4, <2>6, <2>7, <2>8
<1> QED
  BY <1>20, <1>21, <1>22, <1>23, <1>24, <1>27, <1>28, <1>29, <1>30, <1>31 DEF Step

\* A call or an expiry begins with nothing under way and every command taken.
LEMMA CallRests ==
  ASSUME TypeOK, RestInv, AtRest, cmds = <<>>, NEW t \in Threads, NEW c \in Chan, NEW m \in Mode,
         UNCHANGED <<mode, duty, reported, cmds>>,
         stack' = [stack EXCEPT ![t] = <<Activate(c, m)>>],
         \A d \in Chan : d # c => timer'[d] = timer[d]
  PROVE  RestInv'
<1> DEFINE h == Activate(c, m)
           q == <<h>>
<1>1. h \in Activation /\ h.pc = "duty" /\ h.chan = c /\ h.to = m
  BY ActivateTyped DEF Activate
<1>2. \A u \in Threads : u # t => stack[u] = <<>>
  BY DEF AtRest
<1>3. \A u \in Threads : Acts(u)' => stack'[u] = q
  BY <1>2, ActsAlone
<1>4. Rest(<<>>)
  BY DEF RestInv, Acts, AtRest
<1> HIDE DEF h
<1>5. Len(q) = 1 /\ q[1] = h /\ q # <<>> /\ Len(cmds) = 0
  OBVIOUS
<1> HIDE DEF q
<1>6. Innermost(q) = h /\ Innermost(<<>>) = NoLevel
  BY <1>5 DEF Innermost
<1>7. /\ \A d \in Chan : duty[d] = mode[d]
      /\ \A d \in Chan : Timed(cmds, timer, d, mode[d])
  BY <1>4, <1>6 DEF Rest, DutyIn, TimerIn, LastAt, NoLevel
<1>8. \A d \in Chan : reported[d] = Shows(mode, d)
  <2>1. \A k : k \notin 1..Len(<<>>)
    OBVIOUS
  <2>2. \A d : ~Due(<<>>, d)
    BY <2>1, Zenon DEF Due
  <2> QED
    BY <1>4, <2>2 DEF Rest, ReportIn
<1>9. DutyIn(h, duty', mode')
  BY <1>1, <1>7 DEF DutyIn, LastAt
<1>10. ReportIn(q, reported', mode')
  BY <1>8 DEF ReportIn
<1>11. TimerIn(h, cmds', timer', mode')
  <2> SUFFICES ASSUME NEW d \in Chan, d # c
               PROVE  Timed(cmds', timer', d, mode'[d])
    BY <1>1 DEF TimerIn, LastAt
  <2>1. Timed(cmds, timer, d, mode[d])
    BY <1>7
  <2> QED
    BY <2>1 DEF Timed, WillRun, WillBe
<1>12. OwnedIn(q, cmds')
  <2>1. \A i : i \notin 1..Len(cmds')
    BY <1>5
  <2>2. Owned(cmds', c, m)
    BY <2>1, Zenon DEF Owned
  <2> QED
    BY <1>1, <1>5, <2>2 DEF OwnedIn
<1>13. Fits(Len(q), h, mode', Len(cmds'))
  BY <1>1, <1>5 DEF Fits
<1>14. Rest(q)'
  BY <1>6, <1>9, <1>10, <1>11, <1>12, <1>13 DEF Rest
<1> QED
  BY <1>3, <1>14 DEF RestInv

\* The timer task takes a command.
LEMMA TakeRests ==
  ASSUME TypeOK, RestInv, TimerCommand
  PROVE  RestInv'
<1>1. /\ cmds \in Seq(Command) /\ cmds # <<>> /\ cmds' = Tail(cmds) /\ timer \in [Chan -> Timer]
      /\ Len(cmds) \in Nat /\ Len(cmds') \in Nat /\ Len(cmds') <= Len(cmds)
  BY DEF TimerCommand, TypeOK
<1>2. UNCHANGED <<mode, duty, reported, stack>>
  BY DEF TimerCommand
<1>3. ASSUME NEW s, s \in Seq(Activation), Rest(s)
      PROVE  Rest(s)'
  <2> DEFINE e == Innermost(s)
  <2>1. PICK o \in Chan, m \in Mode :
          Owned(cmds, o, m) /\ (s # <<>> => s[1].chan = o /\ s[1].to = m)
    BY <1>3 DEF Rest, OwnedIn
  <2>2. ASSUME NEW c \in Chan, NEW cm, Timed(cmds, timer, c, cm)
        PROVE  Timed(cmds', timer', c, cm)
    <3>1. timer' = [timer EXCEPT
            ![Head(cmds).chan] = [running |-> Head(cmds).what # "stop",
                                  period  |-> IF Head(cmds).what \in {"pulse", "hold"}
                                                THEN Head(cmds).what ELSE @.period]]
      BY DEF TimerCommand
    <3> QED
      BY <1>1, <2>1, <2>2, <3>1, TimedTake
  <2>3. Owned(cmds', o, m)
    BY <1>1, <2>1, OwnedTail
  <2>4. OwnedIn(s, cmds')
    BY <2>1, <2>3 DEF OwnedIn
  <2>5. /\ DutyIn(e, duty, mode) /\ ReportIn(s, reported, mode)
        /\ TimerIn(e, cmds, timer, mode) /\ Fits(Len(s), e, mode, Len(cmds))
    BY <1>3 DEF Rest
  <2> HIDE DEF e
  <2>6. TimerIn(e, cmds', timer', mode)
    BY <2>2, <2>5 DEF TimerIn
  <2> DEFINE k == Len(s)
             n == Len(cmds)
             n2 == Len(cmds')
  <2>7. Fits(k, e, mode, n2)
    <3>1. Fits(k, e, mode, n) /\ n \in Nat /\ n2 \in Nat /\ n2 <= n
      BY <1>1, <2>5
    <3> HIDE DEF k, n, n2
    <3> QED
      BY <3>1 DEF Fits
  <2> QED
    BY <1>2, <2>4, <2>5, <2>6, <2>7 DEF Rest, e
<1>4. \A t \in Threads : (Acts(t)' <=> Acts(t)) /\ stack[t] \in Seq(Activation)
  BY <1>2 DEF Acts, AtRest, TypeOK
<1> QED
  BY <1>2, <1>3, <1>4 DEF RestInv

\* Whatever happens, output, report and timer follow the stack.
LEMMA NextRests ==
  ASSUME ~Overlap, QueueLen >= 3, TypeOK, FreshScan, CalmInv, RestInv, [Next]_vars
  PROVE  RestInv'
<1>1. ASSUME NEW t \in Callers, NEW c \in Chan, NEW on \in BOOLEAN, Control(t, c, on)
      PROVE  RestInv'
  <2> DEFINE m == IF on THEN "efull" ELSE "eoff"
  <2>1. t \in Threads /\ m \in Mode
    BY DEF Threads, Mode
  <2>2. /\ AtRest /\ cmds = <<>> /\ UNCHANGED <<mode, duty, reported, cmds>> /\ timer' = timer
        /\ stack' = [stack EXCEPT ![t] = <<Activate(c, m)>>]
    BY <1>1 DEF Control, MayBegin
  <2> HIDE DEF m
  <2> QED
    BY <2>1, <2>2, CallRests
<1>2. ASSUME NEW c \in Chan, OnTimer(c)
      PROVE  RestInv'
  <2> DEFINE m == IF mode[c] = "efull" THEN "ehalf" ELSE "eoff"
  <2>1. TimerTask \in Threads /\ m \in Mode
    BY DEF Threads, Mode
  <2>2. /\ AtRest /\ cmds = <<>> /\ UNCHANGED <<mode, duty, reported, cmds>>
        /\ timer' = [timer EXCEPT ![c].running = FALSE]
        /\ stack' = [stack EXCEPT ![TimerTask] = <<Activate(c, m)>>]
    BY <1>2 DEF OnTimer, MayBegin
  <2>3. \A d \in Chan : d # c => timer'[d] = timer[d]
    BY <2>2 DEF TypeOK
  <2> HIDE DEF m
  <2> QED
    BY <2>1, <2>2, <2>3, CallRests
<1>3. CASE TimerCommand
  BY <1>3, TakeRests
<1>4. ASSUME NEW t \in Threads, Step(t)
      PROVE  RestInv'
  BY <1>4, StepRests
<1>5. CASE UNCHANGED vars
  <2>1. UNCHANGED <<mode, duty, reported, timer, cmds, stack>>
    BY <1>5 DEF vars
  <2>2. ASSUME NEW t \in Threads, Acts(t)'
        PROVE  Rest(stack[t])'
    <3>1. Acts(t)
      BY <2>1, <2>2 DEF Acts, AtRest
    <3>2. Rest(stack[t])
      BY <3>1 DEF RestInv
    <3> QED
      BY <2>1, <3>2 DEF Rest
  <2> QED
    BY <2>2 DEF RestInv
<1> QED
  BY <1>1, <1>2, <1>3, <1>4, <1>5 DEF Next

\* At first all agree.
LEMMA InitRests ==
  ASSUME Init
  PROVE  RestInv
<1>1. \A t \in Threads : stack[t] = <<>>
  BY DEF Init
<1>2. /\ \A c \in Chan : duty[c] = "eoff" /\ mode[c] = "eoff" /\ reported[c] = "OFF"
                       /\ timer[c].running = FALSE
      /\ cmds = <<>> /\ Len(cmds) = 0 /\ Len(<<>>) = 0
  BY DEF Init
<1>3. DutyIn(NoLevel, duty, mode) /\ ReportIn(<<>>, reported, mode)
  BY <1>2 DEF DutyIn, LastAt, NoLevel, ReportIn, Shows, IsOn
<1>4. TimerIn(NoLevel, cmds, timer, mode)
  <2>1. \A c, w : ~Pending(cmds, c, w)
    <3>1. \A i : i \notin 1..Len(cmds)
      BY <1>2
    <3> QED
      BY <3>1, Zenon DEF Pending
  <2>2. ASSUME NEW c \in Chan
        PROVE  Timed(cmds, timer, c, "eoff")
    BY <1>2, <2>1 DEF Timed, WillRun
  <2> QED
    BY <1>2, <2>2 DEF TimerIn, LastAt, NoLevel
<1>5. OwnedIn(<<>>, cmds)
  <2>1. \A i : i \notin 1..Len(cmds)
    BY <1>2
  <2>2. 1 \in Chan /\ "eoff" \in Mode
    BY ChannelsAssumption DEF Chan, Mode
  <2>3. Owned(cmds, 1, "eoff")
    BY <2>1, Zenon DEF Owned
  <2> QED
    BY <2>2, <2>3 DEF OwnedIn
<1>6. Fits(0, NoLevel, mode, Len(cmds))
  BY DEF Fits
<1>7. Rest(<<>>)
  BY <1>2, <1>3, <1>4, <1>5, <1>6 DEF Rest, Innermost
<1> QED
  BY <1>1, <1>7 DEF RestInv

\* When calls do not overlap and the command queue holds the three commands a
\* call can send, the output, the report and the timer of every channel agree
\* with its mode whenever nothing is under way and no command is left.
THEOREM CoherentAfterwards ==
  ASSUME ~Overlap, QueueLen >= 3
  PROVE  Spec => []CoherentAtRest
<1>1. TypeOK /\ RestInv => CoherentAtRest
  <2> SUFFICES ASSUME TypeOK, RestInv, AtRest, cmds = <<>>, NEW c \in Chan
               PROVE  /\ duty[c] = mode[c]
                      /\ reported[c] = IF On(c) THEN "ON" ELSE "OFF"
                      /\ timer[c].running <=> On(c)
                      /\ mode[c] = "efull" => timer[c].period = "pulse"
                      /\ mode[c] = "ehalf" => timer[c].period = "hold"
    BY DEF CoherentAtRest
  <2>1. Rest(<<>>)
    BY DEF RestInv, Acts, AtRest, Threads
  <2>2. Innermost(<<>>) = NoLevel /\ Len(<<>>) = 0
    BY DEF Innermost
  <2>3. \A i : i \notin 1..Len(<<>>)
    OBVIOUS
  <2>4. duty[c] = mode[c] /\ Timed(cmds, timer, c, mode[c])
    BY <2>1, <2>2 DEF Rest, DutyIn, TimerIn, LastAt, NoLevel
  <2>5. ~Due(<<>>, c) /\ \A w : ~Pending(cmds, c, w)
    BY <2>3, Zenon DEF Due, Pending
  <2>6. reported[c] = Shows(mode, c)
    BY <2>1, <2>5 DEF Rest, ReportIn
  <2>7. /\ timer[c].running <=> mode[c] # "eoff"
        /\ mode[c] = "efull" => timer[c].period = "pulse"
        /\ mode[c] = "ehalf" => timer[c].period = "hold"
    BY <2>4, <2>5 DEF Timed, WillRun, WillBe
  <2>8. On(c) <=> mode[c] # "eoff"
    BY DEF On, TypeOK, Mode
  <2> QED
    BY <2>4, <2>6, <2>7, <2>8 DEF Shows, On, IsOn
<1>2. ASSUME TypeOK, FreshScan, CalmInv, RestInv, [Next]_vars
      PROVE  RestInv'
  BY <1>2, NextRests
<1>3. Init => RestInv
  BY InitRests
<1> QED
  BY <1>1, <1>2, <1>3, TypeCorrect, FullPairsSeen, CallsInTurn, PTL DEF Spec
=============================================================================
