--------------------------- MODULE TaskSchedulerMC ---------------------------
(* An instance of TaskScheduler for TLC: task 0 plays i1 and then i2 and is *)
(* started by the clock, task 1 plays i2 alone.  Task 2, which plays i2 a   *)
(* minute earlier, is not configured at first.                              *)
EXTENDS TaskScheduler

CONSTANTS i1, i2, c1, c2

MCFirst == [t \in Task |-> IF t = 0 THEN i1 ELSE i2]
MCDueAt == [t \in Task |-> IF t = 0 THEN 1 ELSE IF t = 2 THEN 0 ELSE None]

MCProgram ==
  [i \in Item |-> IF i = i1 THEN [name |-> c1, next |-> i2, time |-> 1]
                           ELSE [name |-> c2, next |-> None, time |-> 2]]
=============================================================================
