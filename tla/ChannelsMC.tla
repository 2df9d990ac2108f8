----------------------------- MODULE ChannelsMC -----------------------------
(* Instances of Channels for TLC, and the refinement of ExclusiveValves.   *)
EXTENDS Channels, TLC

\* Two threads that call control hooks are interchangeable.
CallerSymmetry == Permutations(Callers)

(***************************************************************************)
(* The abstract valve opens when set(true) assigns its mode: from there to *)
(* the end of its scan the others still on are already displaced.          *)
(***************************************************************************)
Displacing(c) ==
  \E t \in Threads : \E k \in 1..Len(stack[t]) :
    LET f == stack[t][k]
    IN  f.chan = c /\ f.to = "efull" /\ f.pc \in {"exclude", "scan"}

OpenValve ==
  IF \E c \in Chan : Displacing(c)
  THEN {c \in Chan : Displacing(c)}
  ELSE {c \in Chan : On(c)}

Valves == INSTANCE ExclusiveValves WITH
  open  <- OpenValve,
  shown <- {c \in Chan : reported[c] = "ON"}

\* Calls that do not overlap make the code a correct exclusive valve: every
\* step of set(), half(), onNotify() and the report is a step of
\* ExclusiveValves or a stutter, and no valve is left open for good.
ImplementsValves == Valves!Spec
=============================================================================
