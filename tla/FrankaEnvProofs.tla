--------------------------- MODULE FrankaEnvProofs ---------------------------
(***************************************************************************)
(* Theorems about the environment, for any joint limits, any size of a     *)
(* delta action, any gripper targets and any number of failing calls.      *)
(***************************************************************************)
EXTENDS FrankaEnv, TLAPS

\* Which calls are at which remote call, and what their arguments are.
ConnectPlaces == {"connect", "homing", "gripperState", "readState"}
MovePlaces    == {"toPid", "move", "fromPid"}

ArgOK ==
  \/ pc = "idle" /\ call = "none" /\ arg = Home
  \/ pc \in ConnectPlaces /\ call \in {"connect", "reset"} /\ arg = Home
  \/ pc \in MovePlaces /\ call = "move_to" /\ arg \in Poses
  \/ pc \in MovePlaces /\ call = "reset" /\ arg = Home
  \/ pc \in {"open", "opening"} /\ call = "reset" /\ arg = Home
  \/ pc = "setMode" /\ call = "set_action_mode" /\ arg \in Modes
  \/ /\ pc = "send" /\ call = "step" /\ arg \in Int \X Targets
     /\ Target(arg[1]) \in Desired
     /\ IsDelta(action_mode) => arg[1] \in - Delta .. Delta
  \/ pc = "gripper" /\ call = "step" /\ arg \in Int \X Targets

Types == TypeOK /\ ArgOK

\* The controller is that of the mode but in the middle of a move, which may
\* have exchanged it.
ControllerInv ==
  "controller" \in sound /\ pc \notin {"move", "fromPid"} => remote = ctrl_type

\* A reset that waits for the gripper has been accepted.
HandInv ==
  /\ pc = "opening" => accepted = Open
  /\ "gripper" \in sound /\ pc # "opening" => last_gripper_target = accepted

\* While connect goes on the arm stays where its controller found it; once the
\* targets are sound, and but in the middle of a move, the target of a delta
\* mode is what the robot tracks, except for the limits.
DeltaTarget == IF action_mode = "joint_delta" THEN desired_qpos ELSE desired_ee

TargetInv ==
  /\ pc \in {"homing", "gripperState", "readState"} =>
       /\ goal = arm /\ "controller" \in sound /\ "targets" \notin sound
  /\ "targets" \in sound => "controller" \in sound
  /\ "targets" \in sound /\ IsDelta(action_mode)
       /\ pc \notin {"move", "fromPid"} => Clip(DeltaTarget) = goal

Inv == ControllerInv /\ HandInv /\ TargetInv

-----------------------------------------------------------------------------
(* Steps that are alike. *)

\* A limit is kept.
LEMMA ClipType ==
  ASSUME NEW x \in Int
  PROVE  Clip(x) \in Poses
BY EnvAssumption DEF EnvAssumption, Clip, Poses

\* Clipping does not widen a distance.
LEMMA ClipNear ==
  ASSUME NEW x \in Int, NEW a \in - Delta .. Delta
  PROVE  Clip(x + a) - Clip(x) \in - Delta .. Delta
BY EnvAssumption DEF EnvAssumption, Clip

-----------------------------------------------------------------------------
(* Types. *)

\* A call that fails is counted, and leaves the doubts it names.
LEMMA FaultType ==
  ASSUME Types, Fault \/ UNCHANGED faults
  PROVE  faults' \in 0 .. MaxFaults
BY EnvAssumption DEF EnvAssumption, Types, TypeOK, Fault

LEMMA RaisesType ==
  ASSUME Types, NEW doubt, Raises(doubt)
  PROVE  ArgOK' /\ sound' \subseteq {"controller", "targets", "gripper"}
         /\ (pc' = "idle" <=> call' = "none")
BY DEF Types, TypeOK, ArgOK, Raises, Returns

LEMMA TypesInit == Init => Types
<1> SUFFICES ASSUME Init PROVE Types
  OBVIOUS
<1>1. Home \in Poses /\ Home \in Desired /\ 0 \in 0 .. MaxFaults
  BY EnvAssumption DEF EnvAssumption, Poses, Desired
<1> QED
  BY <1>1, EnvAssumption
     DEF EnvAssumption, Init, Types, TypeOK, ArgOK, Known, Unknown

LEMMA TypesCalls ==
  ASSUME Types, Call
  PROVE  Types'
<1> USE EnvAssumption
    DEF EnvAssumption, Types, TypeOK, ArgOK, ConnectPlaces, MovePlaces, Poses,
        envVars, poseVars, linkVars, callVars, robotVars, stateVars, handVars
<1>1. CASE CallConnect
  BY <1>1 DEF CallConnect, Calls
<1>2. CASE CallReset
  BY <1>2 DEF CallReset, Calls
<1>3. CASE CallMoveTo
  BY <1>3 DEF CallMoveTo, Calls
<1>4. CASE CallSetMode
  BY <1>4 DEF CallSetMode, Calls
<1>5. CASE CallStep
  <2>1. PICK a \in IF IsDelta(action_mode) THEN - Delta .. Delta ELSE Poses,
             g \in IF use_gripper THEN Targets ELSE {Open} :
               Target(a) \in Desired /\ Calls("step", <<a, g>>, "send")
    BY <1>5, Zenon DEF CallStep
  <2>2. a \in Int /\ (IsDelta(action_mode) => a \in - Delta .. Delta)
    BY <2>1
  <2>3. g \in Targets
    BY <2>1
  <2>4. arg' = <<a, g>> /\ arg'[1] = a
    BY <2>1 DEF Calls
  <2>5. UNCHANGED <<action_mode, desired_qpos, desired_ee>>
    BY <2>1 DEF Calls
  <2>6. Target(arg[1])' = Target(a)
    BY <2>4, <2>5 DEF Target
  <2>7. ArgOK'
    BY <2>1, <2>2, <2>3, <2>4, <2>5, <2>6 DEF Calls, IsDelta
  <2> QED
    BY <1>5, <2>1, <2>7 DEF Calls, CallStep
<1>6. CASE GetObservation
  BY <1>6, FaultType DEF GetObservation, Refresh, RefreshFails, Known, Target
<1>7. CASE Close
  <2>1. faults' \in 0 .. MaxFaults /\ goal' \in Poses
    BY <1>7, FaultType DEF Close
  <2>2. remote' \in {"none", "pid", "osc", "down"}
    BY <1>7 DEF Close
  <2>3. ArgOK'
    BY <1>7 DEF Close
  <2> QED
    BY <1>7, <2>1, <2>2, <2>3 DEF Close
<1> QED
  BY <1>1, <1>2, <1>3, <1>4, <1>5, <1>6, <1>7, Zenon DEF Call

LEMMA TypesWork ==
  ASSUME Types, Work
  PROVE  Types'
<1>0. Known \subseteq Desired
  BY EnvAssumption DEF EnvAssumption, Known, Poses, Desired
<1>1. Fault \/ UNCHANGED faults
  BY Zenon DEF Work, ConnectRobot, MakeGripper, Homing, GripperState, ReadState,
     ToPid, Move, FromPid, OpenGripper, GripperOpened, SetMode, Send,
     ApplyGripper, ReadsAfter, Refresh, RefreshFails, RobotCall, handVars,
     robotVars
<1>2. faults' \in 0 .. MaxFaults
  BY <1>1, FaultType
<1> USE <1>2, EnvAssumption
    DEF EnvAssumption, Types, TypeOK, ArgOK, ConnectPlaces, MovePlaces, Poses,
        Unknown, Goes, Returns, Raises, envVars, poseVars, linkVars, callVars,
        robotVars, stateVars, handVars
<1>3. CASE ConnectRobot
  <2>1. remote' \in {"none", "pid", "osc", "down"} /\ goal' \in Poses
    BY <1>3 DEF ConnectRobot, RobotCall, Controls, ctrl_type, CtrlOf
  <2>2. ArgOK' /\ (pc' = "idle" <=> call' = "none")
    BY <1>3 DEF ConnectRobot, RobotCall
  <2> QED
    BY <1>3, <2>1, <2>2 DEF ConnectRobot, RobotCall, Controls
<1>4. CASE MakeGripper
  BY <1>4 DEF MakeGripper
<1>5. CASE Homing
  BY <1>5 DEF Homing
<1>6. CASE GripperState
  BY <1>6 DEF GripperState
<1>7. CASE ReadState
  BY <1>0, <1>7 DEF ReadState, Refresh, SyncTo, Synced
<1>8. CASE ToPid
  <2>1. ArgOK' /\ (pc' = "idle" <=> call' = "none")
    BY <1>8 DEF ToPid, RobotCall
  <2> QED
    BY <1>8, <2>1 DEF ToPid, RobotCall, Controls
<1>9. CASE Move
  <2>1. ArgOK' /\ (pc' = "idle" <=> call' = "none")
    BY <1>9 DEF Move
  <2> QED
    BY <1>9, <2>1 DEF Move
<1>10. CASE FromPid
  <2>1. remote' \in {"none", "pid", "osc", "down"} /\ goal' \in Poses
    BY <1>10 DEF FromPid, RobotCall, Controls, ctrl_type, CtrlOf
  <2>2. ArgOK' /\ (pc' = "idle" <=> call' = "none")
    BY <1>10 DEF FromPid, RobotCall, Moved
  <2> QED
    BY <1>0, <1>10, <2>1, <2>2
       DEF FromPid, RobotCall, Controls, Refresh, SyncTo, Moved, Synced
<1>11. CASE OpenGripper
  BY <1>11 DEF OpenGripper
<1>12. CASE GripperOpened
  BY <1>12 DEF GripperOpened
<1>13. CASE SetMode
  <2>1. ArgOK' /\ (pc' = "idle" <=> call' = "none")
    BY <1>13 DEF SetMode, RobotCall
  <2>2. remote' \in {"none", "pid", "osc", "down"} /\ goal' \in Poses
    BY <1>13 DEF SetMode, RobotCall, Controls, CtrlOf
  <2> QED
    BY <1>0, <1>13, <2>1, <2>2
       DEF SetMode, RobotCall, Controls, SyncTo, Synced
<1>14. CASE Send
  <2>1. pc = "send" /\ Target(arg[1]) \in Desired
    BY <1>14, Zenon DEF Send
  <2>2. goal' \in Poses
    BY <1>14, <2>1, ClipType DEF Send, Desired
  <2>3. ArgOK' /\ (pc' = "idle" <=> call' = "none")
    BY <1>14 DEF Send
  <2>4. {desired_qpos', desired_ee'} \subseteq Desired
    BY <1>14, <2>1 DEF Send
  <2> QED
    BY <1>14, <2>2, <2>3, <2>4 DEF Send
<1>15. CASE ApplyGripper
  BY <1>15 DEF ApplyGripper, ReadsAfter, Refresh, RefreshFails
<1> QED
  BY <1>3, <1>4, <1>5, <1>6, <1>7, <1>8, <1>9, <1>10, <1>11, <1>12, <1>13,
     <1>14, <1>15, Zenon DEF Work

LEMMA TypesStep ==
  ASSUME Types, [Next]_vars
  PROVE  Types'
<1> USE DEF Types, TypeOK, ArgOK, envVars, poseVars, linkVars, callVars,
            robotVars, stateVars, handVars
<1>1. CASE ArmMoves
  BY <1>1, EnvAssumption DEF EnvAssumption, ArmMoves, Poses, Target
<1>2. CASE GripperEnds
  BY <1>2 DEF GripperEnds, Target
<1>3. CASE UNCHANGED vars
  BY <1>3 DEF vars, Target
<1>4. CASE StatePolled
  BY <1>4 DEF StatePolled, Known, Target
<1> QED
  BY <1>1, <1>2, <1>3, <1>4, TypesCalls, TypesWork, Zenon DEF Next

\* The values of every variable, and which call is at which remote call with
\* which arguments (FrankaEnv.__init__ onwards).
THEOREM EnvTypeCorrect == Spec => []Types
BY TypesInit, TypesStep, PTL DEF Spec

-----------------------------------------------------------------------------
(* What sound promises. *)

LEMMA InvInit == Init => Inv
BY DEF Init, Inv, ControllerInv, HandInv, TargetInv

\* A user's call leaves all that sound speaks of alone, but for close, which
\* takes back all of it.
LEMMA InvCalls ==
  ASSUME Types, Inv, Call
  PROVE  Inv'
<1> USE DEF Inv, ControllerInv, HandInv, TargetInv, DeltaTarget, ctrl_type,
            Calls, envVars, poseVars, linkVars, callVars, robotVars, stateVars,
            handVars
<1>1. CASE CallConnect
  BY <1>1 DEF CallConnect
<1>2. CASE CallReset
  BY <1>2 DEF CallReset
<1>3. CASE CallMoveTo
  BY <1>3 DEF CallMoveTo
<1>4. CASE CallSetMode
  BY <1>4 DEF CallSetMode
<1>5. CASE CallStep
  BY <1>5 DEF CallStep
<1>6. CASE GetObservation
  BY <1>6 DEF GetObservation
<1>7. CASE Close
  BY <1>7 DEF Close
<1> QED
  BY <1>1, <1>2, <1>3, <1>4, <1>5, <1>6, <1>7, Zenon DEF Call

\* Remote calls that set the controller: it starts where the arm is, and the
\* targets are set to the same pose before sound speaks of them.
LEMMA InvControls ==
  ASSUME Types, Inv, ConnectRobot \/ ToPid \/ FromPid \/ SetMode
  PROVE  Inv'
<1> USE DEF Types, TypeOK, ArgOK, ConnectPlaces, MovePlaces, RobotCall, Raises,
            Returns, Goes, Controls, ctrl_type, DeltaTarget,
            linkVars, poseVars, callVars, handVars, robotVars, stateVars
<1>0. \A x \in Poses : Clip(x) = x
  BY EnvAssumption DEF EnvAssumption, Poses, Clip
<1>1. CASE ConnectRobot
  <2>1. ControllerInv'
    BY <1>1 DEF ConnectRobot, ControllerInv
  <2>2. HandInv'
    BY <1>1 DEF ConnectRobot, HandInv, Inv
  <2>3. TargetInv'
    BY <1>1 DEF ConnectRobot, TargetInv, Inv
  <2> QED
    BY <2>1, <2>2, <2>3 DEF Inv
<1>2. CASE ToPid
  <2>1. ControllerInv'
    BY <1>2 DEF ToPid, ControllerInv
  <2>2. HandInv'
    BY <1>2 DEF ToPid, HandInv, Inv
  <2>3. TargetInv'
    BY <1>2 DEF ToPid, TargetInv, Inv
  <2> QED
    BY <2>1, <2>2, <2>3 DEF Inv
<1>3. CASE FromPid
  <2>1. ControllerInv'
    BY <1>3 DEF FromPid, ControllerInv, Moved, Synced
  <2>2. HandInv'
    BY <1>3 DEF FromPid, HandInv, Inv, Moved, Synced
  <2>3. TargetInv'
    BY <1>0, <1>3
       DEF FromPid, TargetInv, Inv, Refresh, SyncTo, Moved, Synced
  <2> QED
    BY <2>1, <2>2, <2>3 DEF Inv
<1>4. CASE SetMode
  <2>1. ControllerInv'
    BY <1>4 DEF SetMode, ControllerInv, Synced
  <2>2. HandInv'
    BY <1>4 DEF SetMode, HandInv, Inv, Synced
  <2>3. TargetInv'
    BY <1>0, <1>4 DEF SetMode, TargetInv, Inv, SyncTo, Synced
  <2> QED
    BY <2>1, <2>2, <2>3 DEF Inv
<1> QED
  BY <1>1, <1>2, <1>3, <1>4

\* The rest of connect, of a move and of a reset.
LEMMA InvMoves ==
  ASSUME Types, Inv,
         \/ MakeGripper \/ Homing \/ GripperState \/ ReadState \/ Move
         \/ OpenGripper \/ GripperOpened
  PROVE  Inv'
<1> USE DEF Types, TypeOK, ArgOK, ConnectPlaces, MovePlaces, Inv, ControllerInv,
            HandInv, TargetInv, DeltaTarget, ctrl_type, Raises, Returns, Goes,
            envVars, linkVars, poseVars, callVars, handVars, robotVars,
            stateVars
<1>0. \A x \in Poses : Clip(x) = x
  BY EnvAssumption DEF EnvAssumption, Poses, Clip
<1>1. CASE MakeGripper
  BY <1>1 DEF MakeGripper
<1>2. CASE Homing
  BY <1>2 DEF Homing
<1>3. CASE GripperState
  BY <1>3 DEF GripperState
<1>4. CASE ReadState
  BY <1>0, <1>4 DEF ReadState, Refresh, SyncTo, Synced
<1>5. CASE Move
  BY <1>5 DEF Move
<1>6. CASE OpenGripper
  BY <1>6 DEF OpenGripper
<1>7. CASE GripperOpened
  BY <1>7 DEF GripperOpened
<1> QED
  BY <1>1, <1>2, <1>3, <1>4, <1>5, <1>6, <1>7

\* A step: what the robot tracks is the target, within the limits.
LEMMA InvSteps ==
  ASSUME Types, Inv, Send \/ ApplyGripper
  PROVE  Inv'
<1> USE DEF Types, TypeOK, ArgOK, ConnectPlaces, MovePlaces, Raises, Returns,
            Goes, envVars, linkVars, poseVars, callVars, handVars, robotVars,
            stateVars
<1>1. CASE Send
  <2>1. pc = "send" /\ UNCHANGED <<action_mode, accepted, last_gripper_target>>
    BY <1>1, Zenon DEF Send, envVars, handVars
  <2>2. ControllerInv'
    BY <1>1, <2>1 DEF Send, ControllerInv, Inv, ctrl_type, CtrlOf
  <2>3. HandInv'
    BY <1>1, <2>1 DEF Send, HandInv, Inv
  <2>4. TargetInv'
    BY <1>1, <2>1
       DEF Send, ControllerInv, TargetInv, Inv, ctrl_type, DeltaTarget, Target,
           IsDelta
  <2> QED
    BY <2>2, <2>3, <2>4 DEF Inv
<1>2. CASE ApplyGripper
  BY <1>2 DEF ApplyGripper, ReadsAfter, Refresh, RefreshFails, Inv,
              ControllerInv, HandInv, TargetInv, DeltaTarget, ctrl_type
<1> QED
  BY <1>1, <1>2

LEMMA InvStep ==
  ASSUME Types, Inv, [Next]_vars
  PROVE  Inv'
<1> USE DEF Inv, ControllerInv, HandInv, TargetInv, DeltaTarget, ctrl_type,
            envVars, poseVars, linkVars, callVars, robotVars, stateVars,
            handVars
<1>1. CASE ArmMoves
  BY <1>1 DEF ArmMoves
<1>2. CASE GripperEnds
  BY <1>2 DEF GripperEnds
<1>3. CASE UNCHANGED vars
  BY <1>3 DEF vars
<1>4. CASE Call
  BY <1>4, InvCalls
<1>5. CASE Work
  BY <1>5, InvControls, InvMoves, InvSteps, Zenon DEF Work
<1>6. CASE StatePolled
  BY <1>6 DEF StatePolled
<1> QED
  BY <1>1, <1>2, <1>3, <1>4, <1>5, <1>6, Zenon DEF Next

\* The inductive invariant: in each place of each call, what sound says of the
\* controller, the gripper's target and the targets of the delta modes.
THEOREM SoundMeansSound == Spec => []Inv
BY InvInit, InvStep, EnvTypeCorrect, PTL DEF Spec

\* Between two calls the controller is that of the action mode, through any
\* sequence of moves, mode changes and failures (franka_env.py:341, :369).
THEOREM ControllerIsOfMode == Spec => []ControllerAgrees
<1>1. Inv => ControllerAgrees
  BY DEF Inv, ControllerInv, ControllerAgrees
<1> QED
  BY <1>1, SoundMeansSound, PTL

\* The target that a step leaves out is the one the gripper accepted last, for
\* any targets and failures (_apply_gripper).
THEOREM TargetWasAccepted == Spec => []LastTargetAccepted
<1>1. Inv => LastTargetAccepted
  BY DEF Inv, HandInv, LastTargetAccepted
<1> QED
  BY <1>1, SoundMeansSound, PTL

\* A step in a delta mode moves what the robot tracks by at most the bound of
\* an action, for any limits and any bound (franka_env.py:518).
THEOREM NoJump == Spec => JumpBounded
<1>1. ASSUME Types, Inv, Send, IsDelta(action_mode), "targets" \in sound
      PROVE  goal' - goal \in - Delta .. Delta
  <2> USE EnvAssumption DEF EnvAssumption, Types, TypeOK, Poses, Desired
  <2>1. /\ pc = "send" /\ arg[1] \in - Delta .. Delta
        /\ Target(arg[1]) = DeltaTarget + arg[1] /\ DeltaTarget \in Int
    BY <1>1 DEF Send, ArgOK, ConnectPlaces, MovePlaces, Target, DeltaTarget,
                IsDelta
  <2>2. Clip(DeltaTarget) = goal
    BY <1>1, <2>1 DEF Inv, TargetInv
  <2>3. goal' = goal \/ goal' = Clip(Target(arg[1]))
    BY <1>1, Zenon DEF Send
  <2>4. 0 \in - Delta .. Delta /\ goal \in Int
    BY <1>1
  <2>5. Clip(DeltaTarget + arg[1]) - Clip(DeltaTarget) \in - Delta .. Delta
    BY <2>1, ClipNear
  <2> QED
    BY <2>1, <2>2, <2>3, <2>4, <2>5
<1>2. Types /\ Inv /\ [Next]_vars
        => [Send /\ IsDelta(action_mode) /\ "targets" \in sound
              => goal' - goal \in - Delta .. Delta]_vars
  BY <1>1
<1> QED
  BY <1>2, EnvTypeCorrect, SoundMeansSound, PTL DEF Spec, JumpBounded
=============================================================================
