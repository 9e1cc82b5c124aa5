--------------------------- MODULE OpenPIInference ---------------------------
(***************************************************************************)
(* scripts/openpi_inference.py with its adapter, its policy client and its *)
(* queue of actions, against a policy server and two cameras.              *)
(*                                                                         *)
(* An action is the step whose observation it was computed from, its place *)
(* in the chunk, and the closed fraction that it asks for.                 *)
(***************************************************************************)
EXTENDS ArmScript, ActionQueue

CONSTANTS
  Cams,      \* the high and the wrist camera
  Horizon,   \* --return-horizon
  MaxSteps   \* --max-steps

ASSUME OpenPIAssumption == Horizon \in Nat \ {0} /\ MaxSteps \in Nat

VARIABLES
  running,
  last_images,  \* the cameras of which there is an image
  seen,         \* the observation of this step, or Nothing
  action,       \* the action of this step, or Nothing
  request       \* what the server was sent, or Nothing

openpiVars == <<running, last_images, seen, action, request>>

Nothing == [at |-> None]

OpenPIInit ==
  /\ QueueInit /\ running = TRUE /\ last_images = {}
  /\ seen = Nothing /\ action = Nothing /\ request = Nothing

HasGripper == opts.kind # "none"

Keep == UNCHANGED <<queueVars, openpiVars>>
KeepArm == UNCHANGED armVars
Raises == Fault /\ Keep /\ KeepArm /\ UNCHANGED <<script, opts, interrupted>>

-----------------------------------------------------------------------------
(* What the adapter does with the gripper.  The policy knows the fraction  *)
(* by which it is closed; --invert-gripper-state turns what it is shown    *)
(* round once more, and not what it asks for.  The width that              *)
(* --gripper-max-width names is taken to be the hand's.                    *)

Inverts == opts.kind = "franka_hand"

GripperState ==
  IF ~ HasGripper THEN 0
  ELSE IF Inverts # opts.invert THEN Full - hand ELSE hand

\* Mutant of ToEnv: the fraction is taken for the width of a hand.
ToEnvAsIs(fraction) == fraction

ToEnv(fraction) == IF Inverts THEN Full - fraction ELSE fraction

\* An image stays until there is another of its camera.
Images(new) == last_images \union new

Observation(images) ==
  [at |-> global_step, images |-> images, grip |-> GripperState]

-----------------------------------------------------------------------------
(* Before the loop. *)

\* Waits until there is an image of each camera, or until the timeout.  A
\* camera may have none yet, or only a depth image.
WaitForImages ==
  /\ pc = "cameras"
  /\ \/ \E new \in SUBSET Cams :
          /\ last_images' = Images(new)
          /\ Goto(IF Cams \subseteq last_images' THEN "connect" ELSE "cameras")
        /\ Unbothered /\ KeepArm
        /\ UNCHANGED <<queueVars, running, seen, action, request>>
     \/ Raises

\* reset moves the arm home and opens the gripper.
ConnectEnv ==
  /\ pc = "connect"
  /\ moved' = opts.reset
  /\ hand' = IF opts.reset /\ HasGripper
             THEN (IF Inverts THEN Full ELSE 0) ELSE hand
  /\ \/ Goto("policy") /\ Unbothered
     \/ Fault /\ UNCHANGED <<script, opts, interrupted>>
  /\ Keep /\ UNCHANGED <<asked, sent, handBusy>>

ConnectPolicy ==
  /\ pc = "policy"
  /\ \/ Goto("confirm") /\ QueueReset /\ Unbothered /\ KeepArm
        /\ UNCHANGED openpiVars
     \/ Raises

Confirms ==
  /\ pc = "confirm" /\ Keep
  /\ IF opts.dry THEN Goto("loop") /\ Unbothered /\ KeepArm
     ELSE Answer("loop")

-----------------------------------------------------------------------------
(* One step of the loop. *)

Loop ==
  /\ pc = "loop"
  /\ Goto(IF running /\ global_step < MaxSteps THEN "observe" ELSE "finally")
  /\ Unbothered /\ Keep /\ KeepArm

\* The preview may be asked to stop.
Observe ==
  /\ pc = "observe"
  /\ \/ /\ \E new \in SUBSET Cams : last_images' = Images(new)
        /\ seen' = Observation(last_images')
        /\ Goto("next") \/ Goto("finally")
        /\ Unbothered /\ KeepArm
        /\ UNCHANGED <<queueVars, running, action, request>>
     \/ Raises

NextAction ==
  /\ pc = "next" /\ pending # <<>> /\ Pop(pending)
  /\ action' = pending[1] /\ Goto("act")
  /\ Unbothered /\ KeepArm
  /\ UNCHANGED <<reset_pending, global_step, closed, running, last_images,
                 seen, request>>

\* Mutant of Infer: no chunk is asked for, but waited for, after Ctrl-C.
InferWhileRunning ==
  /\ pc = "next" /\ pending = <<>> /\ Requested /\ running
  /\ request' = [obs |-> seen, reset |-> reset_pending] /\ Goto("infer")
  /\ Unbothered /\ KeepArm
  /\ UNCHANGED <<pending, global_step, closed, running, last_images, seen,
                 action>>

Infer ==
  /\ pc = "next" /\ pending = <<>> /\ Requested
  /\ request' = [obs |-> seen, reset |-> reset_pending] /\ Goto("infer")
  /\ Unbothered /\ KeepArm
  /\ UNCHANGED <<pending, global_step, closed, running, last_images, seen,
                 action>>

\* The server's chunk, whose first action is next.
Chunk(grip) ==
  [i \in 1..Horizon |->
    [at |-> request.obs.at, place |-> i,
     grip |-> IF i = 1 THEN grip ELSE request.obs.grip]]

\* A text instead of a chunk, one of another length, and a connection that
\* ends are errors.
ServerAnswers ==
  /\ pc = "infer"
  /\ \/ /\ \E grip \in {request.obs.grip, 0, Full} :
             action' = Chunk(grip)[1] /\ Pop(Chunk(grip))
        /\ request' = Nothing /\ Goto("act")
        /\ Unbothered /\ KeepArm
        /\ UNCHANGED <<reset_pending, global_step, closed, running,
                       last_images, seen>>
     \/ Raises

\* FrankaEnv.step sends the arm's target, and the gripper's if it is new.
Act ==
  /\ pc = "act"
  /\ \/ /\ IF opts.dry THEN KeepArm
           ELSE /\ sent' = Append(sent, action)
                /\ IF ~ HasGripper \/ ToEnv(action.grip) = hand
                   THEN UNCHANGED <<hand, handBusy>>
                   ELSE Accepts(ToEnv(action.grip)) \/ Refuses
                /\ UNCHANGED <<moved, asked>>
        /\ MarkExecuted /\ Goto("loop") 
        /\ seen' = Nothing /\ action' = Nothing
        /\ Unbothered
        /\ UNCHANGED <<pending, reset_pending, closed, running, last_images,
                       request>>
     \/ Raises

OpenPIFinally ==
  /\ pc = "finally" /\ QueueClose /\ Goto("over")
  /\ Unbothered /\ KeepArm /\ UNCHANGED openpiVars

OpenPICtrlC == running' = FALSE /\ UNCHANGED <<pc, faults>>

OpenPINext ==
  \/ WaitForImages \/ ConnectEnv \/ ConnectPolicy \/ Confirms \/ Loop
  \/ Observe \/ NextAction \/ Infer \/ ServerAnswers \/ Act \/ OpenPIFinally
=============================================================================
