------------------------------- MODULE JobSlot -------------------------------
(***************************************************************************)
(* What each of the three servers promises to a client that sends one long *)
(* operation, polls until the server is idle and then reads the outcome:   *)
(* operations one at a time, and between two of them the outcome of the    *)
(* last one.  Once somebody sends stop it promises nothing.                *)
(***************************************************************************)
EXTENDS Naturals

CONSTANT Ops      \* numbers of the operations, from 1

VARIABLES
  op,             \* the operation accepted last, or 0
  busy,           \* is it still in progress?
  reported,       \* the operation whose outcome can be read, or 0
  interrupted     \* has a stop been sent?

vars == <<op, busy, reported, interrupted>>

Init == op = 0 /\ ~ busy /\ reported = 0 /\ ~ interrupted

\* A new operation is accepted and the former outcome forgotten.
Accept(i) ==
  /\ ~ busy /\ i > op
  /\ op' = i /\ busy' = TRUE /\ reported' = 0
  /\ UNCHANGED interrupted

\* The outcome is published, and, then or later, the server is idle again.
Finish ==
  /\ busy /\ reported' = op
  /\ busy' \in BOOLEAN /\ UNCHANGED <<op, interrupted>>

\* A stop, or anything after one.
Interrupt == interrupted'

Next == Interrupt \/ Finish \/ \E i \in Ops : Accept(i)

Spec == Init /\ [][Next]_vars
=============================================================================
