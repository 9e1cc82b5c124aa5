--------------------------- MODULE KeyboardTeleop ---------------------------
(***************************************************************************)
(* teleop/keyboard_teleop.py: a listener thread that notes which keys are  *)
(* down, and the control loop that reads them.  What a key does to the arm *)
(* is left out.                                                            *)
(*                                                                         *)
(* The listener may get a press late, and gets it again while the key is   *)
(* down.                                                                   *)
(***************************************************************************)
EXTENDS Integers

Keys == {"space", "enter", "esc"}

VARIABLES
  held,           \* the keys that are down
  late,           \* those whose press has not reached the listener
  pressed_keys, exit_requested, last_gripper, close_pressed, open_pressed

keyVars == <<held, late, pressed_keys, exit_requested, last_gripper,
             close_pressed, open_pressed>>
latchVars == <<last_gripper, close_pressed, open_pressed>>

KeyboardInit ==
  /\ held = {} /\ late = {} /\ pressed_keys = {} /\ exit_requested = FALSE
  /\ last_gripper = "open" /\ close_pressed = FALSE /\ open_pressed = FALSE

OnPress(key) ==
  /\ pressed_keys' = pressed_keys \union {key}
  /\ exit_requested' = (exit_requested \/ key = "esc")

PressKey(key) ==
  /\ key \notin held /\ held' = held \union {key}
  /\ \/ OnPress(key) /\ UNCHANGED late
     \/ late' = late \union {key}
        /\ UNCHANGED <<pressed_keys, exit_requested>>
  /\ UNCHANGED latchVars

ListenerPresses ==
  /\ \E key \in held : late' = late \ {key} /\ OnPress(key)
  /\ UNCHANGED <<held, latchVars>>

\* Mutant of ReleaseKey: letting Esc go takes the request back.
ReleaseKeyForgets ==
  /\ \E key \in held \ late :
       /\ held' = held \ {key} /\ pressed_keys' = pressed_keys \ {key}
       /\ exit_requested' = (exit_requested /\ key # "esc")
  /\ UNCHANGED <<late, latchVars>>

ReleaseKey ==
  /\ \E key \in held \ late :
       held' = held \ {key} /\ pressed_keys' = pressed_keys \ {key}
  /\ UNCHANGED <<late, exit_requested, latchVars>>

\* The gripper goes by the edges, and the request to exit is consumed.
GetAction ==
  /\ LET close_now == "space" \in pressed_keys
         open_now  == "enter" \in pressed_keys
     IN /\ last_gripper' =
             IF close_now /\ ~ close_pressed THEN "close"
             ELSE IF open_now /\ ~ open_pressed THEN "open"
             ELSE last_gripper
        /\ close_pressed' = close_now /\ open_pressed' = open_now
  /\ exit_requested' = FALSE /\ UNCHANGED <<held, late, pressed_keys>>

\* A key that is still down is forgotten with the others, until the listener
\* gets it again.
ClearPressedKeys ==
  /\ pressed_keys' = {} /\ close_pressed' = FALSE /\ open_pressed' = FALSE
  /\ UNCHANGED last_gripper
=============================================================================
