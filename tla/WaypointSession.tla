--------------------------- MODULE WaypointSession ---------------------------
(***************************************************************************)
(* scripts/collect_waypoints.py with the keyboard: the operator drives the *)
(* arm, records waypoints, makes routes of them and saves them.            *)
(*                                                                         *)
(* The commands that ask something take lines from the terminal while the  *)
(* listener goes on noting keys.  The arm and what the operator types are  *)
(* left out, but for the pose that is recorded.                            *)
(***************************************************************************)
EXTENDS Routes, KeyboardTeleop

CONSTANTS
  Poses,
  RouteNames,
  Typed,       \* the routes the operator makes
  MaxInputs,   \* bound on the commands and keys
  MaxFaults    \* bound on the calls that raise

ASSUME SessionAssumption == MaxInputs \in Nat /\ MaxFaults \in Nat

VARIABLES
  pc,
  cmd,          \* the command at its prompt
  typed,        \* history: keys that went down at a prompt, and still are
  save_failed,  \* history: the last save raised
  inputs, faults

sessionVars == <<cmd, typed, save_failed, inputs>>

SessionInit ==
  /\ KeyboardInit /\ cmd = "none" /\ typed = {} /\ save_failed = FALSE
  /\ inputs = 0 /\ faults = 0

Goto(at) == pc' = at
Fault == faults < MaxFaults /\ faults' = faults + 1
KeepKeys == UNCHANGED keyVars
KeepStore == UNCHANGED storeVars
Input == inputs < MaxInputs /\ inputs' = inputs + 1

NotesTyped ==
  typed' = held' \intersect
             (typed \union (IF pc = "prompt" THEN held' \ held ELSE {}))

\* The keyboard's own steps, at any time before the session is over.
Operates ==
  /\ pc \in {"loop", "step", "prompt"} /\ Input
  /\ \E key \in Keys : PressKey(key)
  /\ NotesTyped
  /\ UNCHANGED <<storeVars, pc, cmd, save_failed, faults>>

LetsGo ==
  /\ pc \in {"loop", "step", "prompt"} /\ (ReleaseKey \/ ListenerPresses)
  /\ NotesTyped
  /\ UNCHANGED <<storeVars, pc, cmd, save_failed, inputs, faults>>

-----------------------------------------------------------------------------
(* The session. *)

\* The store is loaded, if there is a file; reset may raise.
Opens ==
  /\ pc = "open" /\ Load
  /\ \/ Goto("loop") /\ UNCHANGED faults
     \/ Fault /\ Goto("finally")
  /\ KeepKeys /\ UNCHANGED sessionVars

Prompts == {"record", "goto", "route", "delete"}

\* A command that asks.
Command ==
  /\ pc = "loop" /\ Input
  /\ \E c \in Prompts : cmd' = c /\ Goto("prompt")
  /\ KeepStore /\ KeepKeys /\ UNCHANGED <<typed, save_failed, faults>>

\* One that only prints.
CommandList ==
  /\ pc = "loop" /\ Input /\ ClearPressedKeys /\ Goto("step")
  /\ KeepStore
  /\ UNCHANGED <<held, late, exit_requested, cmd, typed, save_failed, faults>>

CommandSave ==
  /\ pc = "loop" /\ Input /\ ClearPressedKeys
  /\ \/ Save /\ save_failed' = FALSE /\ Goto("step") /\ UNCHANGED faults
     \/ SaveFails /\ save_failed' = TRUE /\ Fault /\ Goto("finally")
  /\ UNCHANGED <<held, late, exit_requested, cmd, typed>>

\* What the command does in the end, or nothing if it is cancelled.
Handles ==
  \/ /\ cmd = "record"
     /\ \E name \in Names, pose \in Poses : AddWaypoint(name, pose)
  \/ /\ cmd = "route"
     /\ \E name \in RouteNames, route \in Typed :
          /\ \A k \in DOMAIN route.points : route.points[k] \in DOMAIN waypoints
          /\ AddRoute(name, route)
  \/ /\ cmd = "delete"
     /\ \/ \E name \in Names : RemoveWaypoint(name)
        \/ \E name \in RouteNames : RemoveRoute(name)
  \/ KeepStore

\* The last line ends with Enter, which the listener gets too: before the
\* keys are cleared or, if it is late, after.
Answers ==
  /\ pc = "prompt" /\ "enter" \notin held /\ held' = held \union {"enter"}
  /\ Handles /\ Goto("step") /\ cmd' = "none"
  /\ ClearPressedKeys /\ late' \in {late, late \union {"enter"}}
  /\ typed' = typed \union {"enter"}
  /\ UNCHANGED <<exit_requested, save_failed, inputs, faults>>

\* Ctrl-C at a prompt, or goto's move raises.
PromptBreaks ==
  /\ pc = "prompt" /\ Goto("finally") /\ cmd' = "none"
  /\ \/ Input /\ UNCHANGED faults
     \/ cmd = "goto" /\ Fault /\ UNCHANGED inputs
  /\ KeepStore /\ KeepKeys /\ UNCHANGED <<typed, save_failed>>

\* Ctrl-C, which is a key here.
ExitKey ==
  /\ pc = "loop" /\ Input /\ Goto("finally")
  /\ KeepStore /\ KeepKeys /\ UNCHANGED <<cmd, typed, save_failed, faults>>

\* The step of teleoperation that ends each round.
Step ==
  /\ pc \in {"loop", "step"} /\ GetAction
  /\ Goto(IF exit_requested THEN "finally" ELSE "loop")
  /\ KeepStore /\ UNCHANGED <<sessionVars, faults>>

\* env.step raises.
StepFails ==
  /\ pc \in {"loop", "step"} /\ GetAction
  /\ ~ exit_requested /\ Fault /\ Goto("finally")
  /\ KeepStore /\ UNCHANGED sessionVars

Leaves ==
  /\ pc = "finally" /\ Goto("over")
  /\ \/ /\ IF dirty THEN Save /\ save_failed' = FALSE
           ELSE KeepStore /\ UNCHANGED save_failed
        /\ UNCHANGED faults
     \/ dirty /\ SaveFails /\ save_failed' = TRUE /\ Fault
  /\ KeepKeys /\ UNCHANGED <<cmd, typed, inputs>>

SessionNext ==
  \/ Opens \/ Command \/ CommandList \/ CommandSave \/ Answers
  \/ PromptBreaks \/ ExitKey \/ Step \/ StepFails \/ Leaves
=============================================================================
