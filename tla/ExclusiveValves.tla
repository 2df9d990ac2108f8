--------------------------- MODULE ExclusiveValves ---------------------------
(***************************************************************************)
(* What the channels and the ExclusiveAdapter promise together when their  *)
(* calls do not overlap: at most one valve is open, opening one closes the *)
(* other in the same step, a valve that is open is closed again, and what  *)
(* is shown of each valve follows.                                         *)
(***************************************************************************)
CONSTANT Chan

VARIABLES
  open,   \* the open valve, as a set of at most one
  shown   \* the valves shown as open

vars == <<open, shown>>

TypeOK ==
  /\ open \in {{}} \union {{c} : c \in Chan}
  /\ shown \in SUBSET Chan

Init == open = {} /\ shown = {}

Open(c) ==
  /\ c \notin open
  /\ open' = {c}
  /\ UNCHANGED shown

Close(c) ==
  /\ c \in open
  /\ open' = {}
  /\ UNCHANGED shown

Show(c) ==
  /\ shown' = IF c \in open THEN shown \union {c} ELSE shown \ {c}
  /\ UNCHANGED open

Next == \E c \in Chan : Open(c) \/ Close(c) \/ Show(c)

\* An open valve does not stay open, and what is shown catches up with it.
Spec ==
  /\ Init
  /\ [][Next]_vars
  /\ \A c \in Chan : WF_vars(Close(c)) /\ WF_vars(Show(c))
=============================================================================
