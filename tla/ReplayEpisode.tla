---------------------------- MODULE ReplayEpisode ----------------------------
(***************************************************************************)
(* scripts/replay_lerobot_episode.py and scripts/replay_studio_episode.py: *)
(* a recorded episode streamed to the arm, with the gripper's actions.     *)
(*                                                                         *)
(* A frame is its index and where the gripper was sent in it: None in      *)
(* recordings without a gripper, and Unknown for an action that the studio *)
(* has no command for.  The studio's 0 is open and Full is closed.         *)
(***************************************************************************)
EXTENDS ArmScript, Sorted, SequencesExt

CONSTANT Recordings   \* the episodes on disk, each its gripper actions

Unknown == Full + 1

VARIABLES
  episode,      \* the frames selected
  frame,        \* how many of them the loop has done
  last_action,  \* of the studio's gripper
  missed        \* the frames whose gripper action was refused

replayVars == <<episode, frame, last_action, missed>>

\* Mutant of Selected: the end is left out.
SelectedBefore(rec, sel) ==
  LET from == IF sel.start = None THEN 0 ELSE sel.start
      Chosen(n) == /\ from <= n /\ (sel.end = None \/ n < sel.end)
                   /\ (n - from) % sel.stride = 0
      frames == Sorted({n \in 0..Len(rec) - 1 : Chosen(n)})
  IN [i \in DOMAIN frames |->
        [index |-> frames[i], grip |-> rec[frames[i] + 1]]]

\* The frames of a recording from start to end, every stride-th, counted
\* from the start or, in a LeRobot dataset, else from its first frame.  The
\* LeRobot replay sorts them; the studio's takes them in the order of the file,
\* which is a recorder's, so that the frames are in order in it.
Selected(rec, sel) ==
  LET from == IF sel.start = None THEN 0 ELSE sel.start
      Chosen(n) == /\ from <= n /\ (sel.end = None \/ n <= sel.end)
                   /\ (n - from) % sel.stride = 0
      frames == Sorted({n \in 0..Len(rec) - 1 : Chosen(n)})
  IN [i \in DOMAIN frames |->
        [index |-> frames[i], grip |-> rec[frames[i] + 1]]]

ReplayInit ==
  /\ \E rec \in Recordings :
       /\ script = "lerobot" => \/ Range(rec) = {None}
                               \/ Range(rec) \intersect {None, Unknown} = {}
       /\ episode = Selected(rec, opts)
  /\ episode # <<>>
  /\ frame = 0 /\ last_action = None /\ missed = {}

Studio == script = "studio"
KeepReplay == UNCHANGED replayVars
ReplayRaises ==
  Fault /\ KeepReplay /\ UNCHANGED <<script, opts, interrupted, armVars>>

-----------------------------------------------------------------------------
(* Before the stream. *)

\* connect and switch: the controller is the PID one.
ConnectArm ==
  /\ pc = "connect"
  /\ \/ Goto("hand") /\ Unbothered /\ KeepReplay /\ UNCHANGED armVars
     \/ ReplayRaises

\* A Robotiq is activated.  The studio moves to the first frame before the
\* operator is asked.
ConnectHand ==
  /\ pc = "hand"
  /\ \/ Goto(IF Studio /\ ~ opts.skip THEN "move" ELSE "confirm")
        /\ Unbothered /\ KeepReplay /\ UNCHANGED armVars
     \/ ReplayRaises

ConfirmsReplay ==
  /\ pc = "confirm" /\ KeepReplay
  /\ Answer(IF Studio THEN "initial"
            ELSE IF opts.skip THEN "frames" ELSE "move")

\* A move that fails may have begun.
MoveToFirst ==
  /\ pc = "move" /\ moved' = TRUE
  /\ \/ Goto(IF Studio THEN "confirm" ELSE "frames") /\ Unbothered
     \/ Fault /\ UNCHANGED <<script, opts, interrupted>>
  /\ KeepReplay /\ UNCHANGED <<asked, sent, hand, handBusy>>

\* The studio's command, waited for or not; one that fails raises.
Commands(action, wait) ==
  /\ last_action' = action
  /\ IF action = Unknown THEN UNCHANGED <<hand, handBusy>>
     ELSE /\ ~ handBusy /\ hand' = action /\ handBusy' = ~ wait

Failing == handBusy /\ Goto("finally") /\ KeepReplay
           /\ Unbothered /\ UNCHANGED armVars

Initial ==
  /\ pc = "initial"
  /\ LET first == episode[1].grip
     IN IF opts.kind = "none" \/ ~ opts.initial \/ first = None
        THEN Goto("frames") /\ Unbothered /\ KeepReplay /\ UNCHANGED armVars
        ELSE \/ /\ Commands(first, TRUE) /\ Goto("frames") /\ Unbothered
                /\ UNCHANGED <<episode, frame, missed, moved, asked, sent>>
             \/ ReplayRaises

-----------------------------------------------------------------------------
(* The stream.  The wait for a frame's time changes nothing.  The gripper  *)
(* comes first, then the arm.                                              *)

Current == episode[frame + 1]

Sends ==
  /\ sent' = Append(sent, Current.index) /\ frame' = frame + 1
  /\ Goto("frames")

\* Mutant of StudioFrame: an action that was refused counts as done.
StudioFrameGoesOn ==
  /\ pc = "frames" /\ Studio /\ frame < Len(episode)
  /\ IF \/ opts.kind = "none" \/ Current.grip = None
        \/ Current.grip = last_action
     THEN UNCHANGED <<hand, handBusy, last_action>>
     ELSE \/ Commands(Current.grip, opts.wait)
          \/ last_action' = Current.grip /\ Refuses
  /\ Sends /\ Unbothered /\ UNCHANGED <<episode, missed, moved, asked>>

StudioFrame ==
  /\ pc = "frames" /\ Studio /\ frame < Len(episode)
  /\ \/ /\ IF \/ opts.kind = "none" \/ Current.grip = None
              \/ Current.grip = last_action
           THEN UNCHANGED <<hand, handBusy, last_action>>
           ELSE Commands(Current.grip, opts.wait)
        /\ Sends /\ Unbothered /\ UNCHANGED <<episode, missed, moved, asked>>
     \/ /\ opts.kind # "none"
        /\ Current.grip \notin {None, Unknown, last_action}
        /\ Failing
     \/ ReplayRaises

\* _apply_gripper sends an action each time, whatever was sent before.
Applies(target) ==
  \/ Accepts(target) /\ UNCHANGED missed
  \/ Refuses /\ missed' = missed \union {Current.index}

LeRobotFrame ==
  /\ pc = "frames" /\ ~ Studio /\ frame < Len(episode)
  /\ \/ /\ IF opts.kind = "none" \/ Current.grip = None
           THEN UNCHANGED <<hand, handBusy, missed>>
           ELSE Applies(Current.grip)
        /\ Sends /\ Unbothered
        /\ UNCHANGED <<episode, last_action, moved, asked>>
     \/ ReplayRaises

ReplayEnds ==
  /\ pc = "frames" /\ frame = Len(episode) /\ Goto("finally")
  /\ Unbothered /\ KeepReplay /\ UNCHANGED armVars

ReplayFinally ==
  /\ pc = "finally" /\ Goto("over")
  /\ Unbothered /\ KeepReplay /\ UNCHANGED armVars

\* KeyboardInterrupt, wherever the script is.
ReplayCtrlC ==
  Goto(IF pc = "finally" THEN "over" ELSE "finally") /\ UNCHANGED faults

ReplayNext ==
  \/ ConnectArm \/ ConnectHand \/ ConfirmsReplay \/ MoveToFirst \/ Initial
  \/ StudioFrame \/ LeRobotFrame \/ ReplayEnds \/ ReplayFinally
=============================================================================
