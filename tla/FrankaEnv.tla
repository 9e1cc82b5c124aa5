------------------------------ MODULE FrankaEnv ------------------------------
(***************************************************************************)
(* The Gym environment: a call of its user is a sequence of calls to the   *)
(* robot's and the gripper's server, any of which may fail, with the arm   *)
(* and the gripper moving in between.                                      *)
(*                                                                         *)
(* The arm has one joint; its pose stands for the joint angle and for the  *)
(* end-effector pose it gives, so desired_qpos and desired_ee are poses.   *)
(* What the environment knows of the arm is the state that the server, its *)
(* stream and the client keep, which may be behind the arm.  The cached    *)
(* gripper width or position is the last target, with which the code       *)
(* always sets it.                                                         *)
(***************************************************************************)
EXTENDS Integers

CONSTANTS
  Modes,          \* the action modes in use
  GripperTypes,   \* "none", "franka_hand", "robotiq"
  Low, High,      \* joint limits
  Home,           \* home_qpos
  Zero,           \* the pose of zeros, which the server's cache starts with
  Delta,          \* bound of a delta action
  Margin,         \* bound on how far a delta target leaves the limits
  Targets,        \* gripper positions
  Open,           \* the one reset asks for
  MaxFaults       \* bound on the remote calls that fail

ASSUME EnvAssumption ==
  /\ Modes \subseteq {"joint_abs", "joint_delta", "ee_abs", "ee_delta"}
  /\ GripperTypes \subseteq {"none", "franka_hand", "robotiq"}
  /\ Low \in Int /\ High \in Int /\ Home \in Low .. High
  /\ Delta \in Nat \ {0} /\ Margin \in Nat
  /\ Zero \in Low - Margin .. High + Margin
  /\ Targets \subseteq Nat /\ Open \in Targets /\ MaxFaults \in Nat

Poses   == Low .. High
Desired == Low - Margin .. High + Margin
Known   == Poses \union {Zero}
Unknown == -1

VARIABLES
  action_mode, gripper_type,
  robot,                   \* _robot is set
  current_qpos,            \* the pose read last
  desired_qpos, desired_ee,
  gripper,                 \* _gripper is set
  last_gripper_target,
  pc,                      \* the remote call the environment is in
  call, arg,               \* the user's call, and its argument
  faults,
  remote, arm, goal,       \* robot server: its controller, or "down"; the
                           \* arm; what it tracks
  cached,                  \* the state last polled, as far as it has come
  held,                    \* the client has it: _streaming_state is not None
  ready, fingers, job,     \* gripper server: activated, position, and what
                           \* its job moves to
  accepted,                \* history: the target of the last job, or the
                           \* position read when the gripper was connected
  sound                    \* history: what no failed call has left in doubt
                           \* since it was last set

envVars   == <<action_mode, gripper_type>>
poseVars  == <<current_qpos, desired_qpos, desired_ee>>
linkVars  == <<robot, gripper>>
callVars  == <<pc, call, arg>>
robotVars == <<remote, arm, goal>>
stateVars == <<cached, held>>
handVars  == <<ready, fingers, job, accepted>>
vars == <<envVars, linkVars, poseVars, last_gripper_target, callVars, faults,
          robotVars, stateVars, handVars, sound>>

IsJoint(mode) == mode \in {"joint_abs", "joint_delta"}
IsDelta(mode) == mode \in {"joint_delta", "ee_delta"}
CtrlOf(mode)  == IF IsJoint(mode) THEN "pid" ELSE "osc"
ctrl_type     == CtrlOf(action_mode)
use_gripper   == gripper_type # "none"
Clip(x) == IF x < Low THEN Low ELSE IF x > High THEN High ELSE x

Init ==
  /\ action_mode \in Modes /\ gripper_type \in GripperTypes
  /\ robot = FALSE /\ gripper = FALSE /\ last_gripper_target = Unknown
  /\ current_qpos = Home /\ desired_qpos = Home /\ desired_ee = Home
  /\ pc = "idle" /\ call = "none" /\ arg = Home /\ faults = 0
  /\ remote = "none" /\ arm \in Poses /\ goal = arm
  /\ cached = Zero /\ held = FALSE
  /\ ready = FALSE /\ fingers \in Targets /\ job = Unknown
  /\ accepted = Unknown /\ sound = {}

-----------------------------------------------------------------------------
(* The remote calls and how they end. *)

Goes(next) == pc' = next /\ UNCHANGED <<call, arg>>
Returns    == pc' = "idle" /\ call' = "none" /\ arg' = Home

\* It returns False or raises, and so does the user's call.
Raises(doubt) == Returns /\ sound' = sound \ doubt
Fault         == faults < MaxFaults /\ faults' = faults + 1

\* _refresh_state reads RobotClient.state, which is what the client has or,
\* if it has nothing yet, what the server answers; that may fail.
Refresh ==
  /\ held \/ remote # "down"
  /\ current_qpos' = cached /\ UNCHANGED faults

RefreshFails ==
  /\ ~ held /\ UNCHANGED current_qpos
  /\ IF remote = "down" THEN UNCHANGED faults ELSE Fault

\* _sync_desired_state: the targets may be as far off as the state is.
SyncTo(pose) == desired_qpos' = pose /\ desired_ee' = pose
Synced(pose) == IF pose = arm THEN {"targets"} ELSE {}

\* A controller starts where the arm is.
Controls(type) == remote' = type /\ goal' = arm /\ UNCHANGED arm

\* A robot call that fails may have been carried out, as its answer may be
\* what is missing.  Without a controller only connect succeeds; a server
\* that has stopped answers nothing.
CanServe(at) == remote \in {"pid", "osc"} \/ (remote = "none" /\ at = "connect")

RobotCall(at, effect, onSuccess) ==
  /\ pc = at
  /\ \/ CanServe(at) /\ effect /\ onSuccess /\ UNCHANGED faults
     \/ /\ IF CanServe(at) THEN Fault /\ (effect \/ UNCHANGED robotVars)
                            ELSE UNCHANGED <<faults, robotVars>>
        /\ Raises({"controller", "targets"})
        /\ UNCHANGED <<action_mode, poseVars>>
        /\ UNCHANGED held
  /\ UNCHANGED <<gripper_type, linkVars, last_gripper_target, handVars,
                 cached>>

-----------------------------------------------------------------------------
(* The user's calls. *)

Calls(name, argument, first) ==
  /\ pc = "idle" /\ call' = name /\ arg' = argument /\ pc' = first
  /\ UNCHANGED <<envVars, gripper, poseVars, last_gripper_target, faults,
                 robotVars, stateVars, handVars, sound>>

\* connect sets _robot before it knows whether it succeeds; _ensure_connected
\* looks at no more than that.
CallConnect == ~ robot /\ Calls("connect", Home, "connect") /\ robot' = TRUE

CallReset ==
  /\ Calls("reset", Home, IF robot THEN "toPid" ELSE "connect")
  /\ robot' = TRUE

CallMoveTo ==
  robot /\ UNCHANGED robot /\ \E q \in Poses : Calls("move_to", q, "toPid")

CallSetMode ==
  /\ robot /\ UNCHANGED robot
  /\ \E mode \in Modes : Calls("set_action_mode", mode, "setMode")

\* What a step asks for (_compute_robot_target).
Target(action) ==
  CASE action_mode = "joint_delta" -> desired_qpos + action
    [] action_mode = "ee_delta"    -> desired_ee + action
    [] OTHER                       -> action

\* The arguments are clipped to the action space.
CallStep ==
  /\ robot /\ UNCHANGED robot
  /\ \E a \in IF IsDelta(action_mode) THEN - Delta .. Delta ELSE Poses,
        g \in IF use_gripper THEN Targets ELSE {Open} :
       Target(a) \in Desired /\ Calls("step", <<a, g>>, "send")

GetObservation ==
  /\ pc = "idle" /\ robot /\ (Refresh \/ RefreshFails)
  /\ UNCHANGED <<envVars, linkVars, desired_qpos, desired_ee, callVars,
                 last_gripper_target, robotVars, stateVars, handVars, sound>>

\* The robot is disconnected, unless the call fails, which is not looked at.
\* The gripper's server is left as it is, and the robot's keeps its cache.
Close ==
  /\ pc = "idle" /\ robot /\ robot' = FALSE /\ gripper' = FALSE /\ sound' = {}
  /\ held' = FALSE
  /\ \/ /\ remote' = IF remote = "down" THEN "down" ELSE "none"
        /\ goal' = arm /\ UNCHANGED faults
     \/ Fault /\ UNCHANGED <<remote, goal>>
  /\ UNCHANGED <<envVars, poseVars, last_gripper_target, callVars, arm,
                 cached, handVars>>

-----------------------------------------------------------------------------
(* connect *)

ConnectRobot ==
  /\ RobotCall("connect", Controls(ctrl_type),
               /\ Goes(IF use_gripper THEN "homing" ELSE "readState")
               /\ sound' = {"controller"} /\ held' = TRUE
               /\ UNCHANGED <<action_mode, poseVars>>)

\* The client is there before the gripper is homed or activated.
MakeGripper ==
  /\ pc = "homing" /\ ~ gripper /\ gripper' = TRUE
  /\ UNCHANGED <<envVars, robot, poseVars, last_gripper_target, callVars,
                 faults, robotVars, stateVars, handVars, sound>>

\* A gripper at work refuses; homing opens the hand.
Homing ==
  /\ pc = "homing" /\ gripper
  /\ \/ /\ job = Unknown /\ ready' = TRUE
        /\ fingers' = IF gripper_type = "franka_hand" THEN Open ELSE fingers
        /\ Goes("gripperState") /\ UNCHANGED <<faults, sound>>
     \/ /\ job # Unknown /\ Raises({}) /\ UNCHANGED <<ready, fingers, faults>>
     \/ Fault /\ Raises({}) /\ UNCHANGED <<ready, fingers>>
  /\ UNCHANGED <<envVars, linkVars, poseVars, last_gripper_target, job,
                 accepted, robotVars, stateVars>>

\* Mutant of GripperState: the last target outlives the connection.
GripperStateKeepsTarget ==
  /\ pc = "gripperState"
  /\ \/ /\ last_gripper_target' = IF last_gripper_target = Unknown
                                    THEN fingers ELSE last_gripper_target
        /\ accepted' = fingers /\ Goes("readState")
        /\ sound' = sound \union {"gripper"} /\ UNCHANGED faults
     \/ Fault /\ Raises({}) /\ UNCHANGED <<last_gripper_target, accepted>>
  /\ UNCHANGED <<envVars, linkVars, poseVars, ready, fingers, job, robotVars,
                 stateVars>>

GripperState ==
  /\ pc = "gripperState"
  /\ \/ /\ last_gripper_target' = fingers /\ accepted' = fingers
        /\ Goes("readState") /\ sound' = sound \union {"gripper"}
        /\ UNCHANGED faults
     \/ Fault /\ Raises({}) /\ UNCHANGED <<last_gripper_target, accepted>>
  /\ UNCHANGED <<envVars, linkVars, poseVars, ready, fingers, job, robotVars,
                 stateVars>>

\* The targets are set to the pose read, and a reset goes on.  The client's
\* connect has left it a state, but it may be from before the first poll.
ReadState ==
  /\ pc = "readState" /\ Refresh /\ SyncTo(cached)
  /\ sound' = sound \union Synced(cached)
  /\ IF call = "reset" THEN Goes("toPid") ELSE Returns
  /\ UNCHANGED <<envVars, linkVars, last_gripper_target, robotVars, stateVars,
                 handVars>>

-----------------------------------------------------------------------------
(* move_to, the rest of reset, and set_action_mode *)

ToPid ==
  RobotCall("toPid", Controls("pid"),
            /\ Goes("move")
            /\ UNCHANGED <<action_mode, poseVars, sound, held>>)

\* A move that fails may have stopped anywhere.
Move ==
  /\ pc = "move"
  /\ \/ /\ arm' = arg /\ goal' = arg /\ Goes("fromPid") /\ held' = TRUE
        /\ UNCHANGED <<faults, sound>>
     \/ /\ arm' \in Poses /\ goal' = arm' /\ UNCHANGED held
        /\ Fault /\ Raises({"controller", "targets"})
  /\ UNCHANGED <<envVars, linkVars, poseVars, last_gripper_target, remote,
                 cached, handVars>>

\* What move_to ends with, and a reset goes on with.
Moved ==
  /\ sound' = (sound \ {"targets"}) \union {"controller"} \union Synced(cached)
  /\ IF call = "reset" /\ gripper THEN Goes("open") ELSE Returns
  /\ UNCHANGED <<action_mode, held>>

\* Mutant of FromPid: the delta targets stay where they were.
FromPidNoSync ==
  RobotCall("fromPid", Controls(ctrl_type),
            Refresh /\ UNCHANGED <<desired_qpos, desired_ee>> /\ Moved)

\* Mutant of FromPid: the controller stays that of the move.
FromPidStays ==
  RobotCall("fromPid", Controls("pid"), Refresh /\ SyncTo(cached) /\ Moved)

FromPid ==
  RobotCall("fromPid", Controls(ctrl_type),
            Refresh /\ SyncTo(cached) /\ Moved)

\* The gripper that is at work refuses to open, which makes reset raise.
CanWork == job = Unknown /\ (gripper_type = "robotiq" => ready)

OpenGripper ==
  /\ pc = "open"
  /\ IF CanWork
     THEN job' = Open /\ accepted' = Open /\ Goes("opening") /\ UNCHANGED sound
     ELSE Raises({}) /\ UNCHANGED <<job, accepted>>
  /\ UNCHANGED <<envVars, linkVars, poseVars, last_gripper_target, faults,
                 robotVars, stateVars, ready, fingers>>

\* It waits for the end, or for too long.
GripperOpened ==
  /\ pc = "opening"
  /\ \/ /\ job = Unknown /\ last_gripper_target' = Open /\ Returns
        /\ sound' = sound \union {"gripper"} /\ UNCHANGED faults
     \/ Fault /\ Raises({"gripper"}) /\ UNCHANGED last_gripper_target
  /\ UNCHANGED <<envVars, linkVars, poseVars, robotVars, stateVars, handVars>>

\* The targets are set to the pose read by an earlier call.
SetMode ==
  RobotCall("setMode", Controls(CtrlOf(arg)),
            /\ action_mode' = arg /\ SyncTo(current_qpos) /\ Returns
            /\ sound' = (sound \ {"targets"}) \union {"controller"}
                          \union Synced(current_qpos)
            /\ UNCHANGED <<current_qpos, held>>)

-----------------------------------------------------------------------------
(* step *)

\* Joint targets are clipped here, poses by the controller; the desired ones
\* they are computed from are not.  Nobody waits for an answer; a server
\* without a controller stops when it is sent a target.  Whatever the targets
\* were set to, the robot tracks them from here on.
Send ==
  /\ pc = "send"
  /\ LET target == Target(arg[1]) IN
       /\ desired_qpos' =
            IF action_mode = "joint_delta" THEN target ELSE desired_qpos
       /\ desired_ee' = IF action_mode = "ee_delta" THEN target ELSE desired_ee
       /\ \/ /\ goal' = IF remote # ctrl_type THEN goal ELSE Clip(target)
             /\ remote' = IF remote = "none" THEN "down" ELSE remote
             /\ sound' = sound \union
                  (IF "controller" \in sound THEN {"targets"} ELSE {})
             /\ Goes("gripper") /\ UNCHANGED faults
          \/ Fault /\ Raises({"targets"}) /\ UNCHANGED <<remote, goal>>
  /\ UNCHANGED <<envVars, linkVars, current_qpos, last_gripper_target, arm,
                 stateVars, handVars>>

\* The pose is read at the end.
ReadsAfter ==
  /\ pc = "gripper" /\ (Refresh \/ RefreshFails) /\ Returns
  /\ UNCHANGED <<envVars, linkVars, desired_qpos, desired_ee, robotVars,
                 stateVars, ready, fingers>>

\* Mutant of ApplyGripper: a refused target counts as reached.
ApplyGripperRemembersRefused ==
  /\ ReadsAfter
  /\ last_gripper_target' = IF gripper THEN arg[2] ELSE last_gripper_target
  /\ IF ~ gripper \/ last_gripper_target = arg[2] \/ ~ CanWork
     THEN UNCHANGED <<job, accepted, sound>>
     ELSE /\ job' = arg[2] /\ accepted' = arg[2]
          /\ sound' = sound \union {"gripper"}

\* A target that was accepted last is not sent again; one that is refused is
\* forgotten.
ApplyGripper ==
  /\ ReadsAfter
  /\ IF ~ gripper \/ last_gripper_target = arg[2] \/ ~ CanWork
     THEN UNCHANGED <<last_gripper_target, job, accepted, sound>>
     ELSE /\ last_gripper_target' = arg[2]
          /\ job' = arg[2] /\ accepted' = arg[2]
          /\ sound' = sound \union {"gripper"}

-----------------------------------------------------------------------------
(* The robot and the gripper. *)

ArmMoves ==
  /\ arm # goal /\ arm' = IF arm < goal THEN arm + 1 ELSE arm - 1
  /\ UNCHANGED <<envVars, linkVars, poseVars, last_gripper_target, callVars,
                 faults, remote, goal, stateVars, handVars, sound>>

\* The controller thread polls, and the stream brings what it read.  A poll may
\* fail, and the stream be late: it is bound to nothing.
StatePolled ==
  /\ remote \in {"pid", "osc"} /\ cached' = arm /\ held' = robot
  /\ UNCHANGED <<envVars, linkVars, poseVars, last_gripper_target, callVars,
                 faults, robotVars, handVars, sound>>

GripperEnds ==
  /\ job # Unknown /\ fingers' = job /\ job' = Unknown
  /\ UNCHANGED <<envVars, linkVars, poseVars, last_gripper_target, callVars,
                 faults, robotVars, stateVars, ready, accepted, sound>>

Call ==
  \/ CallConnect \/ CallReset \/ CallMoveTo \/ CallSetMode \/ CallStep
  \/ GetObservation \/ Close

Work ==
  \/ ConnectRobot \/ MakeGripper \/ Homing \/ GripperState \/ ReadState
  \/ ToPid \/ Move \/ FromPid \/ OpenGripper \/ GripperOpened \/ SetMode
  \/ Send \/ ApplyGripper

Next == Call \/ Work \/ ArmMoves \/ StatePolled \/ GripperEnds

Spec == Init /\ [][Next]_vars /\ WF_vars(Work) /\ WF_vars(GripperEnds)

-----------------------------------------------------------------------------
(* Properties. *)

TypeOK ==
  /\ action_mode \in Modes /\ gripper_type \in GripperTypes
  /\ robot \in BOOLEAN /\ gripper \in BOOLEAN
  /\ {arm, goal} \subseteq Poses /\ {current_qpos, cached} \subseteq Known
  /\ {desired_qpos, desired_ee} \subseteq Desired
  /\ {last_gripper_target, job, accepted} \subseteq Targets \union {Unknown}
  /\ fingers \in Targets /\ {ready, held} \subseteq BOOLEAN
  /\ remote \in {"none", "pid", "osc", "down"} /\ faults \in 0 .. MaxFaults
  /\ pc = "idle" <=> call = "none"
  /\ sound \subseteq {"controller", "targets", "gripper"}

\* Between two calls the remote controller is that of the action mode,
\* through every move_to and mode change, unless a robot call has failed
\* since the last one that set the controller (franka_env.py:341, :369).
ControllerAgrees ==
  pc = "idle" /\ "controller" \in sound => remote = ctrl_type

\* In a delta mode a step moves what the robot tracks by at most Delta,
\* whatever moved the arm before and by whatever calls, once the targets were
\* set to a state that was not behind the arm, or a step has been carried out
\* since, and if no robot call has failed after that (_sync_desired_state,
\* franka_env.py:518).
JumpBounded ==
  [][Send /\ IsDelta(action_mode) /\ "targets" \in sound
       => goal' - goal \in - Delta .. Delta]_vars

\* The target a step does not send again is the one the gripper was asked
\* for last, unless the opening of a reset was waited for too long.
LastTargetAccepted ==
  "gripper" \in sound /\ pc # "opening" => last_gripper_target = accepted

\* A gripper that is busy refuses; as long as its user goes on stepping with
\* the same target it gets there all the same.
GripperFollows ==
  \A g \in Targets :
    /\ <>[](gripper /\ "gripper" \in sound /\ call \in {"step", "none"})
    /\ []<><<ApplyGripper>>_vars
    /\ <>[][ApplyGripper => arg[2] = g]_vars
    => <>[](fingers = g)

\* "Sync delta mode targets to current actual state" (franka_env.py:519), which
\* must be done after set_action_mode, connect, move_to and reset (:521).
ModeChangeSyncs ==
  [][SetMode /\ faults' = faults
       => desired_qpos' = arm /\ desired_ee' = arm]_vars

ConnectSyncs ==
  [][ReadState => desired_qpos' = arm /\ desired_ee' = arm]_vars
=============================================================================
