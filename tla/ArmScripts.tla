----------------------------- MODULE ArmScripts -----------------------------
(***************************************************************************)
(* The scripts that stream targets to the arm.  A robot's server has one   *)
(* client at a time, so one of them runs, with the options it was given.   *)
(***************************************************************************)
EXTENDS OpenPIInference, ReplayEpisode

CONSTANTS
  Scripts,      \* of "openpi", "lerobot" and "studio"
  LastFrame     \* of a recording

ASSUME ScriptsAssumption ==
  /\ Scripts \subseteq {"openpi", "lerobot", "studio"} /\ LastFrame \in Nat
  /\ \A rec \in Recordings :
       rec \in Seq(None..Unknown) /\ Len(rec) = LastFrame + 1

vars == <<baseVars, pc, armVars, queueVars, openpiVars, replayVars>>

\* What a script has no option for is FALSE or None.
Options(s) ==
  { o \in [yes : BOOLEAN, reset : BOOLEAN, dry : BOOLEAN, invert : BOOLEAN,
           skip : BOOLEAN, initial : BOOLEAN, wait : BOOLEAN,
           kind : {"robotiq", "franka_hand", "none"},
           start : {None, 1}, end : {None, LastFrame - 1}, stride : 1..2] :
      /\ s = "openpi" => /\ ~ o.skip /\ o.start = None /\ o.end = None
                         /\ o.stride = 1
      /\ s # "openpi" => ~ o.reset /\ ~ o.dry /\ ~ o.invert
      /\ s # "studio" => ~ o.initial /\ ~ o.wait
      /\ s = "studio" => o.kind # "franka_hand" }

Init ==
  /\ script \in Scripts /\ opts \in Options(script)
  /\ pc = IF script = "openpi" THEN "cameras" ELSE "connect"
  /\ ArmInit /\ OpenPIInit
  /\ IF script = "openpi"
     THEN episode = <<>> /\ frame = 0 /\ last_action = None /\ missed = {}
     ELSE ReplayInit

\* Of the replays neither looks at running.
CtrlC ==
  /\ interrupted = None /\ pc # "over" /\ interrupted' = Len(sent)
  /\ IF script = "openpi" THEN OpenPICtrlC
     ELSE ReplayCtrlC /\ UNCHANGED running
  /\ UNCHANGED <<script, opts, armVars, queueVars, last_images, seen, action,
                 request, replayVars>>

HandMoves == HandEnds /\ UNCHANGED <<queueVars, openpiVars, replayVars>>

Openpi == script = "openpi" /\ OpenPINext /\ UNCHANGED replayVars
Replay ==
  script # "openpi" /\ ReplayNext /\ UNCHANGED <<queueVars, openpiVars>>

Next == Openpi \/ Replay \/ HandMoves \/ CtrlC

\* The scripts go on and the gripper gets there: that is, the cameras have
\* images or the wait for them times out, the operator answers, and so does
\* the policy server, which the script waits for without a timeout.
Fairness ==
  /\ WF_vars(Openpi) /\ WF_vars(Replay) /\ WF_vars(HandMoves)
  /\ SF_vars(Openpi /\ pc = "cameras" /\ pc' # "cameras")

Spec == Init /\ [][Next]_vars /\ Fairness

-----------------------------------------------------------------------------
(* Types: the step at which an action is computed is the queue's. *)

TypeOK ==
  /\ script \in Scripts /\ opts \in Options(script)
  /\ hand \in 0..Full /\ handBusy \in BOOLEAN
  /\ Len(pending) < Horizon /\ global_step \in 0..MaxSteps
  /\ running \in BOOLEAN /\ last_images \subseteq Cams
  /\ seen # Nothing => seen.at = global_step
  /\ closed => pc = "over" /\ pending = <<>>
  /\ frame \in 0..Len(episode)
  /\ missed \subseteq {episode[i].index : i \in 1..frame}
  /\ interrupted \in None..Len(sent) /\ faults \in 0..MaxFaults

(***************************************************************************)
(* action_queue.py:38-56.  The k-th action that reaches the arm is the one *)
(* its chunk has for this step: the i-th of a chunk is carried out i - 1   *)
(* steps after the observation it was computed from, none is left out and  *)
(* none comes twice.                                                       *)
(***************************************************************************)
ChunkInStep ==
  script = "openpi" =>
    \A k \in DOMAIN sent : sent[k].at + sent[k].place = k

(***************************************************************************)
(* adapter.py:86-91 and 97-113, openpi_inference.py:359.  An action that   *)
(* asks for the gripper as it was observed in this step leaves it where it *)
(* is: what the state is turned into and what the action is turned into    *)
(* agree for each kind of gripper, and nothing has moved it in between.    *)
(* With --invert-gripper-state (:319), which turns only the state round,   *)
(* that action is the opposite of what the policy was shown.               *)
(***************************************************************************)
HoldsWhatItSaw ==
  [][(/\ Openpi /\ pc = "act" /\ sent' # sent /\ HasGripper
      /\ action.grip = IF opts.invert THEN Full - seen.grip ELSE seen.grip)
       => hand' = hand]_vars

(***************************************************************************)
(* load_episode and replay_episode of both replays.  The arm gets the      *)
(* frames from start to end, stride apart, in order, and all of them when  *)
(* the replay completes; and when it has been sent to a frame, the gripper *)
(* has been sent where it was in that frame, unless the frame is among     *)
(* those the LeRobot replay has counted as rejected.                       *)
(***************************************************************************)
FollowsRecording ==
  script # "openpi" =>
    LET first == IF opts.start = None THEN 0 ELSE opts.start
        last  == IF opts.end = None THEN LastFrame ELSE opts.end
        known == {i \in 1..frame : episode[i].grip \in 0..Full}
    IN /\ \A k \in DOMAIN sent : sent[k] = first + (k - 1) * opts.stride
       /\ pc = "frames" /\ frame = Len(episode) =>
            Len(sent) = (last - first) \div opts.stride + 1
       /\ pc = "frames" /\ opts.kind # "none" /\ known # {} =>
            \/ hand = episode[Max(known)].grip
            \/ episode[Max(known)].index \in missed

(***************************************************************************)
(* After Ctrl-C the replays send nothing any more, the inference loop,     *)
(* whose handler only lowers a flag, at most the action of the step it is  *)
(* in, however much of a chunk is left; and the scripts end, whatever they *)
(* were at.                                                                *)
(***************************************************************************)
InterruptEnds ==
  /\ [](interrupted # None =>
          Len(sent) <= interrupted + (IF script = "openpi" THEN 1 ELSE 0))
  /\ interrupted # None ~> pc = "over"

(***************************************************************************)
(* README.md:323: "The script asks for RUN before moving the real robot    *)
(* unless --yes is passed."                                                *)
(***************************************************************************)
AsksBeforeMoving == script = "openpi" /\ moved => opts.yes \/ asked
=============================================================================
