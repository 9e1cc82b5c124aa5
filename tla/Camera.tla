------------------------------- MODULE Camera -------------------------------
(***************************************************************************)
(* One camera: a thread that captures frames into a queue of one, and the  *)
(* readers, who get the last frame again when there is none.               *)
(*                                                                         *)
(* A frame is its number.                                                  *)
(***************************************************************************)
EXTENDS Integers

CONSTANT MaxShots   \* bound on the frames captured

ASSUME CameraAssumption == MaxShots \in Nat

VARIABLES
  shots,        \* history: the frames captured
  slot,         \* the queue of one
  last_frame

cameraVars == <<shots, slot, last_frame>>

None == -1

CameraInit == shots = 0 /\ slot = None /\ last_frame = None

\* A frame that nobody has taken is thrown away before the next is put, so
\* that the put never waits; in between a reader finds none.
Captures ==
  /\ shots < MaxShots /\ UNCHANGED last_frame
  /\ \/ slot # None /\ slot' = None /\ UNCHANGED shots
     \/ slot = None /\ slot' = shots + 1 /\ shots' = shots + 1

Fresh == IF slot # None THEN slot ELSE last_frame

\* read waits for a frame, but not for ever, and then does as read_nowait.
Read == last_frame' = Fresh /\ slot' = None /\ UNCHANGED shots

ReadNowait == last_frame' = Fresh /\ slot' = None /\ UNCHANGED shots
=============================================================================
