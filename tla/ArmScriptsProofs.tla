-------------------------- MODULE ArmScriptsProofs --------------------------
(***************************************************************************)
(* Theorems about the scripts that stream targets to the arm, for chunks   *)
(* of any length, any number of steps and recordings of any length.        *)
(***************************************************************************)
EXTENDS ArmScripts, FiniteSetTheorems, SequenceTheorems, TLAPS

Actions == [at : Nat, place : 1 .. Horizon, grip : 0 .. Full]
Observations == [at : Nat, images : SUBSET Cams, grip : 0 .. Full]
Requests == [obs : Observations, reset : BOOLEAN]
Frames == [index : 0 .. LastFrame, grip : None .. Unknown]

Open == script = "openpi"

\* Before the loop, and in it.
Starting == pc \in {"cameras", "connect", "policy", "confirm"}
Stepping == pc \in {"loop", "observe", "next", "infer", "act"}

(***************************************************************************)
(* Types.                                                                  *)
(***************************************************************************)
BaseTypes ==
  /\ script \in Scripts /\ opts \in Options(script)
  /\ hand \in 0 .. Full /\ handBusy \in BOOLEAN /\ faults \in 0 .. MaxFaults

OpenTypes ==
  /\ pc \in {"cameras", "connect", "policy", "confirm", "loop", "observe",
             "next", "infer", "act", "finally", "over"}
  /\ sent \in Seq(Actions) /\ pending \in Seq(Actions)
  /\ global_step \in 0 .. MaxSteps /\ running \in BOOLEAN
  /\ reset_pending \in BOOLEAN /\ closed \in BOOLEAN
  /\ last_images \subseteq Cams
  /\ seen \in Observations \union {Nothing}
  /\ action \in Actions \union {Nothing}
  /\ request \in Requests \union {Nothing}
  /\ interrupted \in None .. Len(sent)

ReplayTypes ==
  /\ pc \in {"connect", "hand", "confirm", "move", "initial", "frames",
             "finally", "over"}
  /\ sent \in Seq(0 .. LastFrame) /\ episode \in Seq(Frames)
  /\ frame \in 0 .. Len(episode) /\ last_action \in None .. Unknown
  /\ interrupted \in None .. Len(sent)

(***************************************************************************)
(* The inference's queue.  While a step is under way, what is left of the  *)
(* chunk starts with the action of the next step, and what was sent ends   *)
(* with that of the last one.                                              *)
(***************************************************************************)
StartInv ==
  Starting => /\ sent = <<>> /\ pending = <<>> /\ global_step = 0
              /\ seen = Nothing

CountInv == Stepping => Len(sent) = IF opts.dry THEN 0 ELSE global_step

\* The action of the step is no longer in the queue.
Taken == IF pc = "act" THEN 1 ELSE 0

PendingInv ==
  Stepping =>
    \A i \in DOMAIN pending :
      pending[i].at + pending[i].place = global_step + Taken + i

StageInv ==
  /\ pc \in {"observe", "next", "infer", "act"} => global_step < MaxSteps
  /\ pc = "next" => seen \in Observations /\ seen.at = global_step
  /\ pc = "infer" => /\ pending = <<>> /\ request \in Requests
                     /\ request.obs.at = global_step
  /\ pc = "act" => action \in Actions /\ action.at + action.place
                                         = global_step + 1

SentInv == \A k \in DOMAIN sent : sent[k].at + sent[k].place = k

\* The gripper is where it was when this step observed it.
SeenInv ==
  pc \in {"next", "infer", "act"} =>
    seen \in Observations /\ seen.grip = GripperState

QueueInv ==
  /\ Len(pending) < Horizon
  /\ seen # Nothing => seen.at = global_step
  /\ closed => pc = "over" /\ pending = <<>>

StopInv ==
  interrupted # None =>
    /\ ~ running
    /\ \/ Len(sent) = interrupted
       \/ pc \in {"loop", "finally", "over"} /\ Len(sent) = interrupted + 1

OpenInv ==
  /\ OpenTypes /\ StartInv /\ CountInv /\ PendingInv /\ StageInv /\ SentInv
  /\ SeenInv /\ QueueInv /\ StopInv
  /\ episode = <<>> /\ frame = 0 /\ missed = {}

(***************************************************************************)
(* The replays.  The episode is the selection, and never changes; what was *)
(* sent is as much of it as frame says.                                    *)
(***************************************************************************)
First == IF opts.start = None THEN 0 ELSE opts.start
Final == IF opts.end = None THEN LastFrame ELSE opts.end

Selection ==
  /\ episode # <<>> /\ episode[1].index = First
  /\ \A i \in 1 .. Len(episode) - 1 :
       episode[i + 1].index = episode[i].index + opts.stride
  /\ episode[Len(episode)].index <= Final
  /\ Final < episode[Len(episode)].index + opts.stride
  /\ script = "lerobot" =>
       \A i \in DOMAIN episode : episode[i].grip # Unknown

\* The queue is the inference's.
QueueIdle ==
  /\ pending = <<>> /\ global_step = 0 /\ closed = FALSE /\ running = TRUE
  /\ last_images = {} /\ seen = Nothing

FollowInv ==
  /\ Len(sent) = frame
  /\ pc \in {"connect", "hand", "confirm", "move", "initial"} => frame = 0
  /\ \A k \in DOMAIN sent :
       sent[k] = episode[k].index /\ sent[k] = First + (k - 1) * opts.stride

\* The frames done that have a command for the gripper.
Commanded == {i \in 1 .. frame : episode[i].grip \in 0 .. Full}

HandInv ==
  /\ missed \subseteq {episode[i].index : i \in 1 .. frame}
  /\ script = "studio" /\ last_action \in 0 .. Full => hand = last_action
  /\ opts.kind # "none" /\ Commanded # {} =>
       \E m \in Commanded :
         /\ \A j \in Commanded : j <= m
         /\ hand = episode[m].grip \/ episode[m].index \in missed

QuitInv ==
  interrupted # None => pc \in {"finally", "over"} /\ Len(sent) = interrupted

ReplayInv ==
  /\ ReplayTypes /\ Selection /\ QueueIdle /\ FollowInv /\ HandInv /\ QuitInv

ScriptsInv == BaseTypes /\ IF Open THEN OpenInv ELSE ReplayInv

-----------------------------------------------------------------------------
(* Types of the constants and of the options. *)

LEMMA ConstantTypes ==
  /\ Full \in Nat \ {0} /\ MaxFaults \in Nat /\ Horizon \in Nat \ {0}
  /\ MaxSteps \in Nat /\ LastFrame \in Nat
  /\ None = -1 /\ Unknown = Full + 1
  /\ Scripts \subseteq {"openpi", "lerobot", "studio"}
  /\ \A rec \in Recordings :
       rec \in Seq(None .. Unknown) /\ Len(rec) = LastFrame + 1
BY ArmAssumption, OpenPIAssumption, ScriptsAssumption DEF None, Unknown

LEMMA OptionTypes ==
  ASSUME NEW s, NEW o \in Options(s)
  PROVE  /\ o.yes \in BOOLEAN /\ o.reset \in BOOLEAN /\ o.dry \in BOOLEAN
         /\ o.invert \in BOOLEAN /\ o.skip \in BOOLEAN
         /\ o.initial \in BOOLEAN /\ o.wait \in BOOLEAN
         /\ o.kind \in {"robotiq", "franka_hand", "none"}
         /\ o.start \in {None, 1} /\ o.end \in {None, LastFrame - 1}
         /\ o.stride \in 1 .. 2
BY DEF Options

\* What the policy is shown of the gripper depends on nothing else.
LEMMA SameGripper ==
  ASSUME UNCHANGED <<opts, hand>>
  PROVE  GripperState' = GripperState
BY DEF GripperState, HasGripper, Inverts

-----------------------------------------------------------------------------
(* What the steps of the inference may change. *)

\* A step that leaves the stream and its queue alone.
Quiet ==
  /\ UNCHANGED <<sent, pending, reset_pending, global_step, closed, running,
                 seen, action, request, interrupted, script, opts, episode,
                 frame, missed>>
  /\ last_images' \subseteq Cams
  /\ hand' \in 0 .. Full /\ handBusy' \in BOOLEAN /\ faults' \in 0 .. MaxFaults
  /\ \/ Starting /\ Starting'
     \/ pc = "confirm" /\ pc' = "loop"
     \/ pc = "loop" /\ running /\ global_step < MaxSteps /\ pc' = "observe"
     \/ pc \notin {"finally", "over"} /\ pc' = "finally"

LEMMA RaisesIsQuiet ==
  ASSUME Raises, UNCHANGED replayVars, OpenTypes, BaseTypes,
         pc \notin {"finally", "over"}
  PROVE  Quiet
BY ConstantTypes
   DEF Raises, Fault, Goto, Keep, KeepArm, armVars, queueVars, openpiVars,
       replayVars, BaseTypes, OpenTypes, Quiet

LEMMA QuietSteps ==
  ASSUME OpenTypes, BaseTypes, UNCHANGED replayVars,
         WaitForImages \/ ConnectEnv \/ Confirms \/ Loop
  PROVE  Quiet
PROOF
<1>. /\ hand \in 0 .. Full /\ handBusy \in BOOLEAN /\ faults \in 0 .. MaxFaults
     /\ last_images \subseteq Cams
  BY DEF BaseTypes, OpenTypes
<1>. USE ConstantTypes DEF replayVars, Quiet, baseVars, armVars, queueVars,
           openpiVars, Goto, Unbothered, Keep, KeepArm
<1>1. CASE WaitForImages
  BY <1>1, RaisesIsQuiet DEF WaitForImages, Images, Starting
<1>2. CASE ConnectEnv
  BY <1>2 DEF ConnectEnv, Fault, HasGripper, Inverts, Starting
<1>3. CASE Confirms
  BY <1>3 DEF Confirms, Answer, Starting
<1>4. CASE Loop
  BY <1>4 DEF Loop
<1>. QED
  BY <1>1, <1>2, <1>3, <1>4

LEMMA QuietKeepsInv ==
  ASSUME OpenInv, BaseTypes, Quiet
  PROVE  OpenInv' /\ BaseTypes'
PROOF
<1>. USE DEF Quiet
<1>1. BaseTypes'
  BY DEF BaseTypes
<1>2. OpenTypes'
  BY DEF OpenInv, OpenTypes, Starting
<1>3. StartInv' /\ CountInv' /\ StageInv' /\ SentInv'
  BY ConstantTypes
    DEF OpenInv, OpenTypes, StartInv, CountInv, StageInv, SentInv, Starting,
        Stepping
<1>4. QueueInv' /\ StopInv'
  BY ConstantTypes
    DEF OpenInv, OpenTypes, QueueInv, StopInv, Starting, Stepping
<1>5. PendingInv'
  BY DEF OpenInv, StartInv, PendingInv, Starting, Stepping, Taken
<1>6. SeenInv'
  BY DEF SeenInv, Starting
<1>. QED
  BY <1>1, <1>2, <1>3, <1>4, <1>5, <1>6 DEF OpenInv

(***************************************************************************)
(* Each step of the inference keeps the invariant.                         *)
(***************************************************************************)
LEMMA OpenStep ==
  ASSUME Open, OpenInv, BaseTypes, Openpi
  PROVE  OpenInv' /\ BaseTypes'
PROOF
<1>. OpenTypes /\ UNCHANGED replayVars /\ OpenPINext
  BY DEF OpenInv, Openpi
<1>1. CASE WaitForImages \/ ConnectEnv \/ Confirms \/ Loop
  BY <1>1, QuietSteps, QuietKeepsInv
<1>2. CASE Raises /\ pc \notin {"finally", "over"}
  BY <1>2, RaisesIsQuiet, QuietKeepsInv
<1>3. CASE ConnectPolicy /\ ~ Raises
  <2>1. /\ pc = "policy" /\ pc' = "confirm"
        /\ pending' = <<>> /\ reset_pending' = TRUE /\ global_step' = 0
        /\ UNCHANGED <<closed, baseVars, armVars, openpiVars>>
    BY <1>3 DEF ConnectPolicy, QueueReset, Goto, Unbothered, KeepArm
  <2>2. BaseTypes'
    BY <2>1 DEF BaseTypes, baseVars, armVars
  <2>3. OpenTypes'
    BY <2>1, ConstantTypes, EmptySeq
      DEF OpenTypes, baseVars, armVars, openpiVars
  <2>4. /\ StartInv' /\ CountInv' /\ PendingInv' /\ StageInv' /\ SentInv'
        /\ QueueInv' /\ StopInv'
    BY <2>1, ConstantTypes, EmptySeq
      DEF OpenInv, StartInv, CountInv, PendingInv, StageInv, SentInv, QueueInv,
          StopInv, Starting, Stepping, baseVars, armVars, openpiVars
  <2>5. SeenInv'
    BY <2>1 DEF SeenInv
  <2>. QED
    BY <2>2, <2>3, <2>4, <2>5 DEF OpenInv, replayVars
<1>4. CASE Observe /\ ~ Raises
  <2>1. /\ pc = "observe" /\ pc' \in {"next", "finally"}
        /\ seen' \in Observations /\ seen'.at = global_step
        /\ seen'.grip = GripperState
        /\ last_images' \subseteq Cams
        /\ UNCHANGED <<baseVars, armVars, queueVars, running, action, request>>
    <3>1. GripperState \in 0 .. Full
      BY ConstantTypes DEF GripperState, HasGripper, BaseTypes
    <3>. QED
      BY <1>4, <3>1, ConstantTypes
        DEF Observe, Images, Observation, Observations, Goto, Unbothered,
            KeepArm, OpenTypes
  <2>2. BaseTypes' /\ OpenTypes'
    BY <2>1 DEF BaseTypes, OpenTypes, baseVars, armVars, queueVars
  <2>3. /\ StartInv' /\ CountInv' /\ PendingInv' /\ StageInv' /\ SentInv'
        /\ QueueInv' /\ StopInv'
    BY <2>1, ConstantTypes
      DEF OpenInv, StartInv, CountInv, PendingInv, StageInv, SentInv, QueueInv,
          StopInv, Starting, Stepping, Taken, baseVars, armVars, queueVars
  <2>4. SeenInv'
    BY <2>1, SameGripper DEF SeenInv, baseVars, armVars
  <2>. QED
    BY <2>2, <2>3, <2>4 DEF OpenInv, replayVars
<1>5. CASE NextAction
  <2>1. /\ pc = "next" /\ pending # <<>> /\ pending' = Tail(pending)
        /\ action' = pending[1] /\ pc' = "act"
        /\ UNCHANGED <<baseVars, armVars, reset_pending, global_step, closed,
                       running, last_images, seen, request>>
    BY <1>5 DEF NextAction, Pop, Goto, Unbothered, KeepArm
  <2>2. /\ 1 \in DOMAIN pending /\ pending' \in Seq(Actions)
        /\ pending[1] \in Actions /\ Len(pending') = Len(pending) - 1
        /\ \A i \in DOMAIN pending' :
             i + 1 \in DOMAIN pending /\ pending'[i] = pending[i + 1]
    BY <2>1 DEF OpenTypes
  <2>3. BaseTypes' /\ OpenTypes'
    BY <2>1, <2>2 DEF BaseTypes, OpenTypes, baseVars, armVars
  <2>4. PendingInv' /\ StageInv'
    <3>1. \A i \in DOMAIN pending :
            pending[i].at + pending[i].place = global_step + i
      BY <2>1 DEF OpenInv, OpenTypes, PendingInv, Stepping, Taken
    <3>. QED
      BY <2>1, <2>2, <3>1
        DEF OpenInv, OpenTypes, PendingInv, StageInv, Stepping, Taken
  <2>5. /\ StartInv' /\ CountInv' /\ SentInv' /\ QueueInv' /\ StopInv'
    BY <2>1, <2>2, ConstantTypes
      DEF OpenInv, OpenTypes, StartInv, CountInv, SentInv, QueueInv, StopInv,
          Starting, Stepping, baseVars, armVars
  <2>6. SeenInv'
    BY <2>1, SameGripper DEF OpenInv, SeenInv, baseVars, armVars
  <2>. QED
    BY <2>3, <2>4, <2>5, <2>6 DEF OpenInv, replayVars
<1>6. CASE Infer
  <2>1. /\ pc = "next" /\ pending = <<>> /\ reset_pending' = FALSE
        /\ request' = [obs |-> seen, reset |-> reset_pending] /\ pc' = "infer"
        /\ UNCHANGED <<baseVars, armVars, pending, global_step, closed, running,
                       last_images, seen, action>>
    BY <1>6 DEF Infer, Requested, Goto, Unbothered, KeepArm
  <2>2. seen \in Observations /\ request' \in Requests
    BY <2>1 DEF OpenInv, OpenTypes, StageInv, Requests
  <2>3. BaseTypes' /\ OpenTypes'
    BY <2>1, <2>2 DEF BaseTypes, OpenTypes, baseVars, armVars
  <2>4. /\ StartInv' /\ CountInv' /\ PendingInv' /\ StageInv' /\ SentInv'
        /\ QueueInv' /\ StopInv'
    BY <2>1, <2>2, ConstantTypes
      DEF OpenInv, StartInv, CountInv, PendingInv, StageInv, SentInv, QueueInv,
          StopInv, Starting, Stepping, Taken, baseVars, armVars
  <2>5. SeenInv'
    BY <2>1, SameGripper DEF OpenInv, SeenInv, baseVars, armVars
  <2>. QED
    BY <2>3, <2>4, <2>5 DEF OpenInv, replayVars
<1>7. CASE ServerAnswers /\ ~ Raises
  <2>0. pc = "infer" /\ request \in Requests /\ request.obs \in Observations
    BY <1>7 DEF ServerAnswers, OpenInv, StageInv, Requests
  <2>1. PICK grip \in 0 .. Full :
          /\ action' = Chunk(grip)[1] /\ pending' = Tail(Chunk(grip))
          /\ request' = Nothing /\ pc' = "act"
          /\ UNCHANGED <<baseVars, armVars, reset_pending, global_step, closed,
                         running, last_images, seen>>
    BY <1>7, <2>0, ConstantTypes
      DEF ServerAnswers, Pop, Goto, Unbothered, KeepArm, Observations
  <2>2. /\ Chunk(grip) \in Seq(Actions) /\ Len(Chunk(grip)) = Horizon
        /\ \A i \in 1 .. Horizon : /\ Chunk(grip)[i].at = global_step
                                   /\ Chunk(grip)[i].place = i
    <3>1. /\ request.obs.at = global_step /\ request.obs.at \in Nat
          /\ request.obs.grip \in 0 .. Full
      BY <2>0 DEF OpenInv, StageInv, Observations
    <3>2. Chunk(grip) \in [1 .. Horizon -> Actions]
      BY <3>1, ConstantTypes DEF Chunk, Actions
    <3>3. Chunk(grip) \in Seq(Actions)
      BY <3>2, ConstantTypes, SeqDef
    <3>4. Len(Chunk(grip)) = Horizon
      BY <3>2, <3>3, ConstantTypes, LenProperties
    <3>. QED
      BY <3>1, <3>3, <3>4, ConstantTypes DEF Chunk
  <2>3. /\ action' \in Actions /\ action'.at + action'.place = global_step + 1
        /\ pending' \in Seq(Actions) /\ Len(pending') = Horizon - 1
        /\ \A i \in DOMAIN pending' :
             pending'[i].at + pending'[i].place = global_step + 1 + i
    <3> DEFINE chunk == Chunk(grip)
    <3> HIDE DEF chunk
    <3>1. /\ chunk \in Seq(Actions) /\ Len(chunk) = Horizon
          /\ \A i \in 1 .. Horizon : chunk[i].at = global_step
                                   /\ chunk[i].place = i
          /\ action' = chunk[1] /\ pending' = Tail(chunk)
      BY <2>1, <2>2 DEF chunk
    <3>2. /\ chunk[1] \in Actions /\ Tail(chunk) \in Seq(Actions)
          /\ Len(Tail(chunk)) = Horizon - 1
          /\ \A i \in 1 .. Horizon - 1 : Tail(chunk)[i] = chunk[i + 1]
      BY <3>1, ConstantTypes
    <3>3. \A i \in 1 .. Horizon - 1 :
            Tail(chunk)[i].at + Tail(chunk)[i].place = global_step + 1 + i
      <4>1. global_step \in Nat
        BY ConstantTypes DEF OpenTypes
      <4>. SUFFICES ASSUME NEW i \in 1 .. Horizon - 1
                    PROVE  chunk[i + 1].at + chunk[i + 1].place
                             = global_step + 1 + i
        BY <3>2
      <4>2. i + 1 \in 1 .. Horizon
        BY ConstantTypes
      <4>3. chunk[i + 1].at = global_step /\ chunk[i + 1].place = i + 1
        BY <3>1, <4>2
      <4>4. i \in Int
        BY ConstantTypes
      <4>. QED
        BY <4>1, <4>3, <4>4
    <3>. QED
      BY <3>1, <3>2, <3>3, ConstantTypes DEF OpenTypes
  <2>4. BaseTypes' /\ OpenTypes'
    BY <2>1, <2>3 DEF BaseTypes, OpenTypes, baseVars, armVars
  <2>5. PendingInv' /\ StageInv'
    BY <2>0, <2>1, <2>3 DEF OpenInv, PendingInv, StageInv, Stepping, Taken
  <2>6. /\ StartInv' /\ CountInv' /\ SentInv' /\ QueueInv' /\ StopInv'
    BY <2>0, <2>1, <2>3, ConstantTypes
      DEF OpenInv, StartInv, CountInv, SentInv, QueueInv, StopInv, Starting,
          Stepping, baseVars, armVars
  <2>7. SeenInv'
    BY <2>0, <2>1, SameGripper DEF OpenInv, SeenInv, baseVars, armVars
  <2>. QED
    BY <2>4, <2>5, <2>6, <2>7 DEF OpenInv, replayVars
<1>8. CASE Act /\ ~ Raises
  <2>1. /\ pc = "act" /\ pc' = "loop" /\ global_step' = global_step + 1
        /\ seen' = Nothing /\ action' = Nothing
        /\ sent' = IF opts.dry THEN sent ELSE Append(sent, action)
        /\ UNCHANGED <<baseVars, pending, reset_pending, closed, running,
                       last_images, request>>
    BY <1>8 DEF Act, MarkExecuted, Goto, Unbothered, KeepArm, armVars
  <2>2. /\ action \in Actions /\ action.at + action.place = global_step + 1
        /\ global_step < MaxSteps
        /\ sent \in Seq(Actions) /\ global_step \in 0 .. MaxSteps
        /\ Len(sent) = IF opts.dry THEN 0 ELSE global_step
    BY <2>1 DEF OpenInv, OpenTypes, StageInv, CountInv, Stepping
  <2>3. hand' \in 0 .. Full /\ handBusy' \in BOOLEAN
    <3>1. ToEnv(action.grip) \in 0 .. Full
      BY <2>2, ConstantTypes DEF ToEnv, Actions
    <3>. QED
      BY <1>8, <3>1 DEF Act, BaseTypes, Accepts, Refuses, KeepArm, armVars
  <2>4. /\ sent' \in Seq(Actions) /\ Len(sent') \in {Len(sent), Len(sent) + 1}
        /\ Len(sent') = IF opts.dry THEN 0 ELSE global_step'
        /\ SentInv'
    <3>1. CASE opts.dry
      BY <2>1, <2>2, <3>1 DEF OpenInv, SentInv
    <3>2. CASE ~ opts.dry
      BY <2>1, <2>2, <3>2 DEF OpenInv, SentInv
    <3>. QED
      BY <3>1, <3>2
  <2>5. BaseTypes' /\ OpenTypes'
    BY <2>1, <2>2, <2>3, <2>4, ConstantTypes DEF BaseTypes, OpenTypes, baseVars
  <2>6. /\ StartInv' /\ CountInv' /\ PendingInv' /\ StageInv'
        /\ QueueInv' /\ StopInv'
    BY <2>1, <2>2, <2>4, ConstantTypes
      DEF OpenInv, StartInv, CountInv, PendingInv, StageInv, QueueInv, StopInv,
          Starting, Stepping, Taken, baseVars
  <2>7. SeenInv'
    BY <2>1 DEF SeenInv
  <2>. QED
    BY <2>4, <2>5, <2>6, <2>7 DEF OpenInv, replayVars
<1>9. CASE OpenPIFinally
  <2>1. /\ pc = "finally" /\ pc' = "over" /\ closed' = TRUE /\ pending' = <<>>
        /\ UNCHANGED <<reset_pending, global_step, baseVars, armVars,
                       openpiVars>>
    BY <1>9 DEF OpenPIFinally, QueueClose, Goto, Unbothered, KeepArm
  <2>2. BaseTypes' /\ OpenTypes'
    BY <2>1, EmptySeq DEF BaseTypes, OpenTypes, baseVars, armVars, openpiVars
  <2>3. /\ StartInv' /\ CountInv' /\ PendingInv' /\ StageInv' /\ SentInv'
        /\ QueueInv' /\ StopInv'
    BY <2>1, EmptySeq, ConstantTypes
      DEF OpenInv, StartInv, CountInv, PendingInv, StageInv, SentInv, QueueInv,
          StopInv, Starting, Stepping, baseVars, armVars, openpiVars
  <2>4. SeenInv'
    BY <2>1 DEF SeenInv
  <2>. QED
    BY <2>2, <2>3, <2>4 DEF OpenInv, replayVars
<1>10. pc \in {"cameras", "policy", "observe", "infer", "act"} =>
         pc \notin {"finally", "over"}
  OBVIOUS
<1>11. ConnectPolicy \/ Observe \/ ServerAnswers \/ Act =>
         pc \in {"policy", "observe", "infer", "act"}
  BY DEF ConnectPolicy, Observe, ServerAnswers, Act
<1>. QED
  BY Zenon, <1>1, <1>2, <1>3, <1>4, <1>5, <1>6, <1>7, <1>8, <1>9, <1>10, <1>11
    DEF OpenPINext

-----------------------------------------------------------------------------
(* What a recording's selection looks like. *)

\* The numbers from a to b, d apart.
Progression(a, b, d) == {n \in a .. b : (n - a) % d = 0}

\* Two neighbours of a progression are d apart.
LEMMA ProgressionSteps ==
  ASSUME NEW a \in Nat, NEW b \in Nat, NEW d \in 1 .. 2,
         NEW n \in Progression(a, b, d)
  PROVE  /\ n + d <= b => n + d \in Progression(a, b, d)
         /\ \A k \in Progression(a, b, d) : n < k => n + d <= k
PROOF
<1>1. CASE d = 1
  BY <1>1 DEF Progression
<1>2. CASE d = 2
  BY <1>2 DEF Progression
<1>. QED
  BY <1>1, <1>2

\* The k-th number of a progression.
LEMMA ProgressionCount ==
  ASSUME NEW a \in Nat, NEW b \in Nat, NEW d \in 1 .. 2, a <= b
  PROVE  /\ (b - a) \div d + 1 \in Nat \ {0}
         /\ \A k \in 1 .. (b - a) \div d + 1 :
              a + (k - 1) * d \in Progression(a, b, d)
         /\ \A i, j \in 1 .. (b - a) \div d + 1 :
              i < j => a + (i - 1) * d < a + (j - 1) * d
         /\ \A n \in Progression(a, b, d) :
              \E k \in 1 .. (b - a) \div d + 1 : n = a + (k - 1) * d
PROOF
<1>1. CASE d = 1
  <2>1. (b - a) \div d + 1 = b - a + 1
    BY <1>1
  <2>2. \A n \in a .. b : n - a + 1 \in 1 .. b - a + 1
                          /\ n = a + (n - a + 1 - 1) * 1
    OBVIOUS
  <2>. QED
    BY <1>1, <2>1, <2>2 DEF Progression
<1>2. CASE d = 2
  <2>1. \A k \in 1 .. (b - a) \div 2 + 1 :
          /\ a + (k - 1) * 2 \in a .. b
          /\ (a + (k - 1) * 2 - a) % 2 = 0
    OBVIOUS
  <2>2. \A n \in a .. b :
          (n - a) % 2 = 0 =>
            /\ (n - a) \div 2 + 1 \in 1 .. (b - a) \div 2 + 1
            /\ n = a + ((n - a) \div 2 + 1 - 1) * 2
    OBVIOUS
  <2>3. /\ (b - a) \div 2 + 1 \in Nat \ {0}
        /\ \A i, j \in 1 .. (b - a) \div 2 + 1 :
             i < j => a + (i - 1) * 2 < a + (j - 1) * 2
    OBVIOUS
  <2>4. \A n \in Progression(a, b, 2) :
          \E k \in 1 .. (b - a) \div 2 + 1 : n = a + (k - 1) * 2
    <3>. SUFFICES ASSUME NEW n \in Progression(a, b, 2)
                  PROVE  \E k \in 1 .. (b - a) \div 2 + 1 :
                           n = a + (k - 1) * 2
      OBVIOUS
    <3>1. n \in a .. b /\ (n - a) % 2 = 0
      BY DEF Progression
    <3> DEFINE w == (n - a) \div 2 + 1
    <3>2. w \in 1 .. (b - a) \div 2 + 1 /\ n = a + (w - 1) * 2
      BY <2>2, <3>1
    <3>. HIDE DEF w
    <3>. QED
      BY <3>2
  <2>. QED
    BY <1>2, <2>1, <2>3, <2>4 DEF Progression
<1>. QED
  BY <1>1, <1>2

(***************************************************************************)
(* The sequence that Sorted chooses from a progression has all of it, from *)
(* the first number on, each d after the one before.                       *)
(***************************************************************************)
LEMMA SortedProgression ==
  ASSUME NEW a \in Nat, NEW b \in Nat, NEW d \in 1 .. 2, a <= b
  PROVE  LET s == Sorted(Progression(a, b, d))
         IN /\ s \in Seq(Progression(a, b, d)) /\ s # <<>>
            /\ s[1] = a
            /\ \A i \in 1 .. Len(s) - 1 : s[i + 1] = s[i] + d
            /\ b < s[Len(s)] + d
PROOF
<1> DEFINE S == Progression(a, b, d)
           m == (b - a) \div d + 1
           e == [k \in 1 .. m |-> a + (k - 1) * d]
           s == Sorted(S)
<1>1. m \in Nat \ {0}
  BY ProgressionCount
<1>2. /\ e \in [1 .. m -> S]
      /\ \A i, j \in 1 .. m : i < j => e[i] < e[j]
      /\ \A n \in S : \E k \in 1 .. m : n = e[k]
  <2>1. /\ \A k \in 1 .. m : a + (k - 1) * d \in S
        /\ \A i, j \in 1 .. m : i < j => a + (i - 1) * d < a + (j - 1) * d
        /\ \A n \in S : \E k \in 1 .. m : n = a + (k - 1) * d
    BY ProgressionCount, Zenon
  <2>2. \A k \in 1 .. m : e[k] = a + (k - 1) * d
    OBVIOUS
  <2>3. e \in [1 .. m -> S]
    BY <2>1, Zenon
  <2>. QED
    BY <2>1, <2>2, <2>3, Zenon
<1>3. /\ a \in S /\ \A n \in S : n \in Int /\ a <= n /\ n <= b
      /\ \A n \in S : /\ n + d <= b => n + d \in S
                      /\ \A k \in S : n < k => n + d <= k
  <2>1. a \in S /\ \A n \in S : n \in Int /\ a <= n /\ n <= b
    <3>1. (a - a) % d = 0
      <4>1. a - a = 0 /\ (d = 1 \/ d = 2)
        OBVIOUS
      <4>. QED
        BY <4>1
    <3>. QED
      BY <3>1 DEF Progression
  <2>2. ASSUME NEW n \in S
        PROVE  /\ n + d <= b => n + d \in S
               /\ \A k \in S : n < k => n + d <= k
    BY ProgressionSteps
  <2>. QED
    BY <2>1, <2>2
<1>. HIDE DEF S, m, e
<1>4. /\ IsFiniteSet(S) /\ Cardinality(S) = m
      /\ IsFiniteSet(1 .. m) /\ Cardinality(1 .. m) = m
  <2>1. \A i, j \in 1 .. m : e[i] = e[j] => i = j
    <3>1. \A i \in 1 .. m : e[i] \in Int
      BY <1>2, <1>3
    <3>. QED
      BY <1>1, <1>2, <3>1
  <2>2. e \in Bijection(1 .. m, S)
    BY <1>2, <2>1, Zenon DEF Bijection, Injection, Surjection, IsInjective
  <2>3. IsFiniteSet(1 .. m) /\ Cardinality(1 .. m) = m
    <3>1. Cardinality(1 .. m) = IF 1 > m THEN 0 ELSE m - 1 + 1
      BY <1>1, FS_Interval
    <3>. QED
      BY <1>1, <3>1, FS_Interval
  <2>. QED
    BY <2>2, <2>3, FS_Bijection DEF ExistsBijection
<1>5. /\ s \in [1 .. m -> S]
      /\ \A i, j \in 1 .. m : i < j => s[i] < s[j]
  <2>1. \E f \in [1 .. Cardinality(S) -> S] :
          \A i, j \in DOMAIN f : i < j => f[i] < f[j]
    BY <1>2, <1>4
  <2>2. /\ s \in [1 .. Cardinality(S) -> S]
        /\ \A i, j \in DOMAIN s : i < j => s[i] < s[j]
    BY <2>1, Zenon DEF Sorted
  <2>. QED
    BY <2>2, <1>4
<1>. HIDE DEF s
<1>6. \A n \in S : \E k \in 1 .. m : s[k] = n
  <2>1. \A i, j \in 1 .. m : s[i] = s[j] => i = j
    <3>1. \A i \in 1 .. m : s[i] \in Int
      BY <1>5, <1>3
    <3>. QED
      BY <1>1, <1>5, <3>1
  <2>2. s \in Injection(1 .. m, S)
    BY <1>5, <2>1, Zenon DEF Injection, IsInjective
  <2>3. s \in Surjection(1 .. m, S)
    BY <2>2, <1>4, FS_Injection
  <2>. QED
    BY <2>3 DEF Surjection
<1>7. s \in Seq(S) /\ Len(s) = m
  <2>1. s \in Seq(S)
    BY <1>1, <1>5, SeqDef
  <2>. QED
    BY <2>1, <1>1, <1>5, LenProperties
<1>8. \A i \in 1 .. m : s[i] \in S /\ s[i] \in Int /\ s[i] >= a
  BY <1>3, <1>5
<1>9. s[1] = a
  <2>1. PICK k \in 1 .. m : s[k] = a
    BY <1>3, <1>6
  <2>2. k = 1 \/ s[1] < s[k]
    BY <1>1, <1>5
  <2>. QED
    BY <1>1, <1>8, <2>1, <2>2
<1>10. ASSUME NEW i \in 1 .. m - 1
       PROVE  s[i + 1] = s[i] + d
  <2>1. i \in 1 .. m /\ i + 1 \in 1 .. m /\ i < i + 1 /\ m \in Int
    BY <1>1
  <2>2. s[i] + d <= s[i + 1] /\ s[i + 1] <= b
    BY <2>1, <1>3, <1>5, <1>8
  <2>3. PICK k \in 1 .. m : s[k] = s[i] + d
    BY <2>1, <2>2, <1>3, <1>6, <1>8
  <2>4. k > i
    BY <2>1, <2>3, <1>5, <1>8
  <2>5. k = i + 1 \/ s[i + 1] < s[k]
    BY <2>1, <2>4, <1>5
  <2>. QED
    BY <2>1, <2>2, <2>3, <2>5, <1>8
<1>11. b < s[m] + d
  <2>1. SUFFICES ASSUME s[m] + d <= b PROVE FALSE
    BY <1>1, <1>8
  <2>2. PICK k \in 1 .. m : s[k] = s[m] + d
    BY <1>1, <2>1, <1>3, <1>6, <1>8
  <2>3. k = m \/ s[k] < s[m]
    BY <1>1, <1>5
  <2>. QED
    BY <1>1, <2>2, <2>3, <1>8
<1>12. s # <<>>
  BY <1>1, <1>7, EmptySeq
<1>. QED
  BY <1>7, <1>9, <1>10, <1>11, <1>12 DEF S, s

\* What a replay is given to stream.
LEMMA SelectedEpisode ==
  ASSUME ReplayInit, opts \in Options(script)
  PROVE  episode \in Seq(Frames) /\ Selection
PROOF
<1>1. /\ opts.start \in {None, 1} /\ opts.end \in {None, LastFrame - 1}
      /\ opts.stride \in 1 .. 2
  BY OptionTypes
<1>2. PICK rec \in Recordings :
        /\ script = "lerobot" => \/ Range(rec) = {None}
                                \/ Range(rec) \intersect {None, Unknown} = {}
        /\ episode = Selected(rec, opts)
  BY DEF ReplayInit
<1>3. rec \in Seq(None .. Unknown) /\ Len(rec) = LastFrame + 1
  BY ConstantTypes
<1>4. /\ First \in Nat /\ Final \in Int /\ Final <= LastFrame
      /\ LastFrame \in Nat
  BY <1>1, ConstantTypes DEF First, Final
<1> DEFINE S == Progression(First, Final, opts.stride)
           s == Sorted(S)
<1>5. episode = [i \in DOMAIN s |-> [index |-> s[i], grip |-> rec[s[i] + 1]]]
  <2>1. {n \in 0 .. Len(rec) - 1 :
           /\ First <= n /\ (opts.end = None \/ n <= opts.end)
           /\ (n - First) % opts.stride = 0} = S
    <3>1. \A n \in Int :
            /\ n \in 0 .. Len(rec) - 1 /\ First <= n
            /\ opts.end = None \/ n <= opts.end
            <=> n \in First .. Final
      BY <1>1, <1>3, <1>4, ConstantTypes DEF Final
    <3>. QED
      BY <1>1, <1>3, <1>4, <3>1 DEF Progression
  <2>. QED
    BY <1>2, <2>1, Zenon DEF Selected, First
<1>6. First <= Final
  <2>. SUFFICES ASSUME Final < First PROVE FALSE
    BY <1>4
  <2>1. S = {}
    BY <1>4 DEF Progression
  <2>2. Sorted({}) \in [1 .. 0 -> {}]
    <3>1. Cardinality({}) = 0
      BY FS_EmptySet
    <3>2. [i \in 1 .. 0 |-> i] \in [1 .. 0 -> {}]
      OBVIOUS
    <3>3. \E f \in [1 .. Cardinality({}) -> {}] :
            \A i, j \in DOMAIN f : i < j => f[i] < f[j]
      BY <3>1, <3>2
    <3>4. Sorted({}) \in [1 .. Cardinality({}) -> {}]
      BY <3>3, Zenon DEF Sorted
    <3>. QED
      BY <3>1, <3>4
  <2>3. DOMAIN s = 1 .. 0
    BY <2>1, <2>2
  <2>4. episode \in [1 .. 0 -> Int]
    BY <1>5, <2>3
  <2>5. episode \in Seq(Int) /\ Len(episode) = 0
    <3>1. episode \in Seq(Int)
      BY <2>4, SeqDef
    <3>. QED
      BY <2>4, <3>1, LenProperties
  <2>. QED
    BY <2>5, EmptySeq DEF ReplayInit
<1>7. /\ s \in Seq(S) /\ s # <<>> /\ s[1] = First
      /\ \A i \in 1 .. Len(s) - 1 : s[i + 1] = s[i] + opts.stride
      /\ Final < s[Len(s)] + opts.stride
  <2>1. First \in Nat /\ Final \in Nat /\ opts.stride \in 1 .. 2
    BY <1>1, <1>4, <1>6
  <2>. QED
    BY <1>6, <2>1, SortedProgression, Zenon
<1>8. \A n \in S : n \in 0 .. LastFrame /\ n <= Final
  BY <1>4 DEF Progression
<1>. HIDE DEF S, s
<1>9. /\ Len(s) \in Nat \ {0} /\ DOMAIN s = 1 .. Len(s)
      /\ \A i \in 1 .. Len(s) : s[i] \in 0 .. LastFrame /\ s[i] <= Final
  <2>1. Len(s) \in Nat \ {0} /\ DOMAIN s = 1 .. Len(s)
    BY <1>7, EmptySeq, LenProperties
  <2>2. \A i \in 1 .. Len(s) : s[i] \in S
    BY <1>7, ElementOfSeq
  <2>. QED
    BY <1>8, <2>1, <2>2
<1>10. /\ episode \in [1 .. Len(s) -> Frames]
       /\ \A i \in 1 .. Len(s) : /\ episode[i].index = s[i]
                                 /\ episode[i].grip = rec[s[i] + 1]
  <2>1. \A n \in 0 .. LastFrame : rec[n + 1] \in None .. Unknown
    BY <1>3, ConstantTypes
  <2>. QED
    BY <1>5, <1>9, <2>1 DEF Frames
<1>11. episode \in Seq(Frames) /\ Len(episode) = Len(s)
  <2>1. episode \in Seq(Frames)
    BY <1>9, <1>10, SeqDef
  <2>. QED
    BY <1>9, <1>10, <2>1, LenProperties
<1>12. script = "lerobot" => \A i \in DOMAIN episode : episode[i].grip # Unknown
  <2>. SUFFICES ASSUME script = "lerobot", NEW i \in 1 .. Len(s)
                PROVE  rec[s[i] + 1] # Unknown
    BY <1>10
  <2>1. rec[s[i] + 1] \in Range(rec)
    <3>1. s[i] + 1 \in DOMAIN rec
      BY <1>3, <1>9, ConstantTypes
    <3>. QED
      BY <3>1 DEF Range
  <2>2. Unknown # None
    BY ConstantTypes
  <2>. QED
    BY <1>2, <2>1, <2>2
<1>13. episode # <<>>
  BY DEF ReplayInit
<1>14. /\ episode[1].index = First
       /\ episode[Len(episode)].index <= Final
       /\ Final < episode[Len(episode)].index + opts.stride
  <2>. 1 \in 1 .. Len(s) /\ Len(s) \in 1 .. Len(s)
    BY <1>9
  <2>1. episode[1].index = s[1] /\ episode[Len(s)].index = s[Len(s)]
    BY <1>10
  <2>. QED
    BY <1>7, <1>9, <1>11, <2>1
<1>15. \A i \in 1 .. Len(episode) - 1 :
         episode[i + 1].index = episode[i].index + opts.stride
  <2>. SUFFICES ASSUME NEW i \in 1 .. Len(s) - 1
                PROVE  episode[i + 1].index = episode[i].index + opts.stride
    BY <1>11
  <2>1. i \in 1 .. Len(s) /\ i + 1 \in 1 .. Len(s)
    BY <1>9
  <2>. QED
    BY <1>7, <1>10, <2>1
<1>. QED
  BY <1>11, <1>12, <1>13, <1>14, <1>15 DEF Selection

-----------------------------------------------------------------------------
(* What the steps of the replays may change. *)

Early == pc \in {"connect", "hand", "confirm", "move", "initial"}

\* A step that sends nothing, to the arm or to the gripper.
Plain ==
  /\ UNCHANGED <<script, opts, sent, hand, handBusy, interrupted>>
  /\ UNCHANGED <<replayVars, queueVars, openpiVars>>
  /\ faults' \in 0 .. MaxFaults
  /\ \/ Early /\ (Early' \/ pc' = "frames")
     \/ pc \in {"connect", "hand", "confirm", "move", "initial", "frames"}
        /\ pc' = "finally"
     \/ pc = "finally" /\ pc' = "over"

LEMMA PlainSteps ==
  ASSUME BaseTypes, UNCHANGED <<queueVars, openpiVars>>,
         \/ ConnectArm
         \/ ConnectHand
         \/ ConfirmsReplay
         \/ MoveToFirst
         \/ ReplayEnds
         \/ ReplayFinally
         \/ /\ pc \in {"initial", "frames"}
            /\ ReplayRaises \/ Failing
  PROVE  Plain
PROOF
<1>. faults \in 0 .. MaxFaults
  BY DEF BaseTypes
<1>. USE ConstantTypes DEF Plain, Early, Goto, Unbothered, KeepReplay, baseVars,
           armVars, ReplayRaises, Fault
<1>1. CASE ConnectArm
  BY <1>1 DEF ConnectArm
<1>2. CASE ConnectHand
  BY <1>2 DEF ConnectHand
<1>3. CASE ConfirmsReplay
  BY <1>3 DEF ConfirmsReplay, Answer
<1>4. CASE MoveToFirst
  BY <1>4 DEF MoveToFirst
<1>5. CASE ReplayEnds
  BY <1>5 DEF ReplayEnds
<1>6. CASE ReplayFinally
  BY <1>6 DEF ReplayFinally
<1>7. CASE pc \in {"initial", "frames"} /\ (ReplayRaises \/ Failing)
  BY <1>7 DEF Failing
<1>. QED
  BY <1>1, <1>2, <1>3, <1>4, <1>5, <1>6, <1>7

LEMMA PlainKeepsInv ==
  ASSUME BaseTypes, ReplayInv, Plain
  PROVE  BaseTypes' /\ ReplayInv'
PROOF
<1>. USE DEF Plain, Early, replayVars, queueVars, openpiVars
<1>1. BaseTypes'
  BY DEF BaseTypes
<1>2. ReplayTypes' /\ QueueIdle'
  BY DEF ReplayInv, ReplayTypes, QueueIdle
<1>3. Selection'
  BY Zenon DEF ReplayInv, Selection, First, Final
<1>4. FollowInv' /\ HandInv'
  BY Zenon DEF ReplayInv, FollowInv, HandInv, Commanded, First
<1>5. QuitInv'
  BY DEF ReplayInv, QuitInv
<1>. QED
  BY <1>1, <1>2, <1>3, <1>4, <1>5 DEF ReplayInv

\* The gripper's first action, before the stream.
LEMMA FirstActionKeepsInv ==
  ASSUME BaseTypes, ReplayInv, Initial, ~ ReplayRaises,
         UNCHANGED <<queueVars, openpiVars>>
  PROVE  BaseTypes' /\ ReplayInv'
PROOF
<1>1. /\ pc = "initial" /\ pc' = "frames" /\ frame = 0 /\ frame' = 0
      /\ UNCHANGED <<script, opts, interrupted, faults, episode, missed, sent>>
  BY DEF Initial, Goto, Unbothered, KeepReplay, baseVars, armVars, replayVars,
    ReplayInv, FollowInv
<1>2. \/ UNCHANGED <<last_action, hand, handBusy>>
      \/ /\ last_action' = episode[1].grip /\ handBusy' \in BOOLEAN
         /\ hand' = IF episode[1].grip = Unknown THEN hand ELSE episode[1].grip
         /\ episode[1].grip # None
  BY DEF Initial, Commands, KeepReplay, replayVars, armVars, BaseTypes
<1>3. episode[1].grip \in None .. Unknown
  <2>1. episode \in Seq(Frames) /\ 1 \in 1 .. Len(episode)
    BY EmptySeq DEF ReplayInv, ReplayTypes, Selection
  <2>2. episode[1] \in Frames
    BY <2>1, ElementOfSeq
  <2>. QED
    BY <2>2 DEF Frames
<1>4. BaseTypes'
  BY <1>1, <1>2, <1>3, ConstantTypes DEF BaseTypes
<1>5. ReplayTypes' /\ QueueIdle'
  BY <1>1, <1>2, <1>3
    DEF ReplayInv, ReplayTypes, QueueIdle, queueVars, openpiVars
<1>6. Selection'
  BY <1>1, Zenon DEF ReplayInv, Selection, First, Final
<1>7. FollowInv'
  <2>1. /\ Len(sent') = frame' /\ frame' = 0
        /\ \A k \in DOMAIN sent' :
             /\ sent'[k] = episode'[k].index
             /\ sent'[k] = First' + (k - 1) * opts'.stride
    BY <1>1, Zenon DEF ReplayInv, FollowInv, First
  <2>. QED
    BY <2>1, Zenon DEF FollowInv
<1>8. HandInv'
  <2>1. Commanded' = {}
    BY <1>1 DEF Commanded
  <2>2. missed' \subseteq {episode'[i].index : i \in 1 .. frame'}
    BY <1>1, Zenon DEF ReplayInv, HandInv
  <2>3. (script = "studio" /\ last_action \in 0 .. Full => hand = last_action)'
    BY <1>1, <1>2, ConstantTypes DEF ReplayInv, HandInv
  <2>. QED
    BY <2>1, <2>2, <2>3, Zenon DEF HandInv
<1>9. QuitInv'
  BY <1>1 DEF ReplayInv, QuitInv
<1>. QED
  BY <1>4, <1>5, <1>6, <1>7, <1>8, <1>9 DEF ReplayInv

\* A frame has been streamed.
Streams ==
  /\ pc = "frames" /\ pc' = "frames" /\ frame < Len(episode)
  /\ frame' = frame + 1 /\ sent' = Append(sent, Current.index)
  /\ UNCHANGED <<script, opts, interrupted, faults, episode>>
  /\ handBusy' \in BOOLEAN

LEMMA StreamsFollows ==
  ASSUME BaseTypes, ReplayInv, Streams
  PROVE  Selection' /\ FollowInv' /\ QuitInv' /\ sent' \in Seq(0 .. LastFrame)
PROOF
<1>1. /\ frame \in Nat /\ Len(episode) \in Nat
      /\ frame + 1 \in 1 .. Len(episode)
      /\ Current \in Frames /\ sent \in Seq(0 .. LastFrame) /\ Len(sent) = frame
      /\ Current = episode[frame + 1]
  BY DEF Streams, ReplayInv, ReplayTypes, FollowInv, Current
<1>2. /\ sent' \in Seq(0 .. LastFrame) /\ Len(sent') = frame + 1
      /\ \A k \in 1 .. frame : sent'[k] = sent[k]
      /\ sent'[frame + 1] = Current.index
      /\ DOMAIN sent' = 1 .. frame + 1
  BY <1>1 DEF Streams, Frames
<1>3. Selection'
  BY Zenon DEF ReplayInv, Selection, First, Final, Streams
<1>4. Current.index = First + (frame + 1 - 1) * opts.stride
  <2>1. opts.stride \in {1, 2} /\ First \in Int
    BY OptionTypes, ConstantTypes DEF BaseTypes, First
  <2>2. CASE frame = 0
    BY <1>1, <2>1, <2>2 DEF ReplayInv, Selection
  <2>3. CASE frame > 0
    <3>1. frame \in 1 .. Len(episode) - 1 /\ frame \in DOMAIN sent
      BY <1>1, <2>3
    <3>2. episode[frame + 1].index = episode[frame].index + opts.stride
      BY <3>1, Zenon DEF ReplayInv, Selection
    <3>3. /\ sent[frame] = episode[frame].index
          /\ sent[frame] = First + (frame - 1) * opts.stride
      BY <3>1, Zenon DEF ReplayInv, FollowInv
    <3>4. First + (frame - 1) * opts.stride + opts.stride
            = First + (frame + 1 - 1) * opts.stride
      <4>1. CASE opts.stride = 1
        BY <1>1, <2>1, <4>1
      <4>2. CASE opts.stride = 2
        BY <1>1, <2>1, <4>2
      <4>. QED
        BY <2>1, <4>1, <4>2
    <3>. QED
      BY <1>1, <3>2, <3>3, <3>4
  <2>. QED
    BY <1>1, <2>2, <2>3
<1>5. FollowInv'
  <2>1. ASSUME NEW k \in 1 .. frame + 1
        PROVE  /\ sent'[k] = episode[k].index
               /\ sent'[k] = First + (k - 1) * opts.stride
    <3>1. CASE k = frame + 1
      <4>1. /\ sent'[frame + 1] = episode[frame + 1].index
            /\ sent'[frame + 1] = First + (frame + 1 - 1) * opts.stride
        BY <1>1, <1>2, <1>4
      <4>2. /\ sent'[k] = sent'[frame + 1] /\ episode[k] = episode[frame + 1]
            /\ k - 1 = frame + 1 - 1
        BY <1>1, <3>1
      <4>. QED
        BY <4>1, <4>2, Zenon
    <3>2. CASE k # frame + 1
      <4>1. k \in 1 .. frame /\ k \in DOMAIN sent
        BY <1>1, <3>2
      <4>. QED
        BY <1>2, <4>1, Zenon DEF ReplayInv, FollowInv
    <3>. QED
      BY <3>1, <3>2
  <2>2. First' = First
    BY DEF First, Streams
  <2>3. \A k \in DOMAIN sent' : /\ sent'[k] = episode'[k].index
                                /\ sent'[k] = First' + (k - 1) * opts'.stride
    BY <1>2, <2>1, <2>2, Zenon DEF Streams
  <2>4. pc' \notin {"connect", "hand", "confirm", "move", "initial"}
    BY DEF Streams
  <2>. QED
    BY <1>2, <2>3, <2>4, Zenon DEF FollowInv, Streams
<1>6. QuitInv'
  BY DEF ReplayInv, QuitInv, Streams
<1>. QED
  BY <1>2, <1>3, <1>5, <1>6

\* The last frame with a command for the gripper is now this one.
LEMMA NewCommand ==
  ASSUME BaseTypes, ReplayInv, Streams, Current.grip \in 0 .. Full,
         hand' = Current.grip \/ Current.index \in missed'
  PROVE  \E m \in Commanded' : /\ \A j \in Commanded' : j <= m
                               /\ \/ hand' = episode'[m].grip
                                  \/ episode'[m].index \in missed'
PROOF
<1>1. /\ frame \in Nat /\ frame' = frame + 1 /\ episode' = episode
      /\ Current = episode[frame + 1]
  BY DEF Streams, ReplayInv, ReplayTypes, Current
<1>2. frame + 1 \in Commanded' /\ \A j \in Commanded' : j <= frame + 1
  BY <1>1 DEF Commanded
<1>. QED
  BY <1>1, <1>2

\* It still is the one before.
LEMMA NoNewCommand ==
  ASSUME BaseTypes, ReplayInv, Streams, UNCHANGED hand,
         missed \subseteq missed', Current.grip \notin 0 .. Full,
         opts.kind # "none", Commanded' # {}
  PROVE  \E m \in Commanded' : /\ \A j \in Commanded' : j <= m
                               /\ \/ hand' = episode'[m].grip
                                  \/ episode'[m].index \in missed'
PROOF
<1>1. /\ frame \in Nat /\ frame' = frame + 1 /\ episode' = episode
      /\ Current = episode[frame + 1]
  BY DEF Streams, ReplayInv, ReplayTypes, Current
<1>2. Commanded' = Commanded
  BY <1>1 DEF Commanded
<1>3. PICK m \in Commanded : /\ \A j \in Commanded : j <= m
                             /\ \/ hand = episode[m].grip
                                \/ episode[m].index \in missed
  BY <1>2 DEF ReplayInv, HandInv
<1>. QED
  BY <1>1, <1>2, <1>3

\* The indices of the frames done grow by the frame's.
LEMMA MissedGrows ==
  ASSUME BaseTypes, ReplayInv, Streams,
         missed' \subseteq missed \union {Current.index}
  PROVE  missed' \subseteq {episode'[i].index : i \in 1 .. frame'}
PROOF
<1>1. /\ frame \in Nat /\ frame' = frame + 1 /\ episode' = episode
      /\ Current = episode[frame + 1]
  BY DEF Streams, ReplayInv, ReplayTypes, Current
<1>2. missed \subseteq {episode[i].index : i \in 1 .. frame}
  BY Zenon DEF ReplayInv, HandInv
<1>3. /\ \A i \in 1 .. frame : i \in 1 .. frame + 1
      /\ frame + 1 \in 1 .. frame + 1
  BY <1>1
<1>. QED
  BY <1>1, <1>2, <1>3

LEMMA StudioFrameKeepsInv ==
  ASSUME BaseTypes, ReplayInv, StudioFrame, ~ ReplayRaises, ~ Failing,
         UNCHANGED <<queueVars, openpiVars>>
  PROVE  BaseTypes' /\ ReplayInv'
PROOF
<1>1. script = "studio" /\ handBusy \in BOOLEAN
  BY DEF StudioFrame, Studio, BaseTypes
<1>2. /\ Streams /\ UNCHANGED missed
      /\ \/ /\ UNCHANGED <<hand, handBusy, last_action>>
            /\ \/ opts.kind = "none" \/ Current.grip = None
               \/ Current.grip = last_action
         \/ /\ last_action' = Current.grip
            /\ hand' = IF Current.grip = Unknown THEN hand ELSE Current.grip
            /\ Current.grip # None
  BY <1>1
    DEF StudioFrame, Streams, Sends, Goto, Unbothered, baseVars, Commands
<1>3. Current \in Frames
  BY DEF StudioFrame, ReplayInv, ReplayTypes, Current
<1>4. Current.grip \in None .. Unknown
  BY <1>3 DEF Frames
<1>5. Selection' /\ FollowInv' /\ QuitInv' /\ sent' \in Seq(0 .. LastFrame)
  BY <1>2, StreamsFollows
<1>6. BaseTypes'
  BY <1>2, <1>4, ConstantTypes DEF BaseTypes, Streams
<1>7. ReplayTypes' /\ QueueIdle'
  BY <1>2, <1>4, <1>5
    DEF ReplayInv, ReplayTypes, FollowInv, QueueIdle, queueVars, openpiVars,
        Streams
<1>8. HandInv'
  <2>1. /\ script = "studio" /\ last_action \in 0 .. Full => hand = last_action
        /\ script' = "studio" /\ opts' = opts
    BY <1>1, <1>2 DEF ReplayInv, HandInv, Streams
  <2>2. (script = "studio" /\ last_action \in 0 .. Full => hand = last_action)'
    <3>. SUFFICES ASSUME last_action' \in 0 .. Full PROVE hand' = last_action'
      OBVIOUS
    <3>1. last_action' # Unknown
      BY ConstantTypes
    <3>. QED
      BY <1>1, <1>2, <2>1, <3>1
  <2>3. ASSUME opts.kind # "none", Commanded' # {}
        PROVE  \E m \in Commanded' : /\ \A j \in Commanded' : j <= m
                                     /\ \/ hand' = episode'[m].grip
                                        \/ episode'[m].index \in missed'
    <3>1. CASE Current.grip \in 0 .. Full
      <4>1. hand' = Current.grip
        BY <1>1, <1>2, <2>1, <2>3, <3>1, ConstantTypes
      <4>. QED
        BY <1>2, <3>1, <4>1, NewCommand
    <3>2. CASE Current.grip \notin 0 .. Full
      <4>1. UNCHANGED hand
        BY <1>2, <1>4, <3>2, ConstantTypes
      <4>. QED
        BY <1>2, <2>3, <3>2, <4>1, NoNewCommand
    <3>. QED
      BY <3>1, <3>2
  <2>4. missed' \subseteq {episode'[i].index : i \in 1 .. frame'}
    BY <1>2, MissedGrows
  <2>. QED
    BY <2>1, <2>2, <2>3, <2>4, Zenon DEF HandInv
<1>. QED
  BY <1>5, <1>6, <1>7, <1>8 DEF ReplayInv

LEMMA LeRobotFrameKeepsInv ==
  ASSUME BaseTypes, ReplayInv, LeRobotFrame, ~ ReplayRaises, script # "openpi",
         UNCHANGED <<queueVars, openpiVars>>
  PROVE  BaseTypes' /\ ReplayInv'
PROOF
<1>1. script = "lerobot" /\ handBusy \in BOOLEAN
  BY ConstantTypes DEF LeRobotFrame, Studio, BaseTypes
<1>2. /\ Streams /\ UNCHANGED last_action
      /\ \/ /\ UNCHANGED <<hand, handBusy, missed>>
            /\ opts.kind = "none" \/ Current.grip = None
         \/ /\ hand' = Current.grip /\ UNCHANGED missed
            /\ Current.grip # None
         \/ /\ UNCHANGED hand /\ missed' = missed \union {Current.index}
            /\ Current.grip # None
  BY <1>1
    DEF LeRobotFrame, Streams, Sends, Goto, Unbothered, baseVars, Applies,
        Accepts, Refuses
<1>3. Current \in Frames /\ Current.grip # Unknown
  BY <1>1
    DEF LeRobotFrame, ReplayInv, ReplayTypes, Selection, Current
<1>4. Current.grip = None \/ Current.grip \in 0 .. Full
  BY <1>3, ConstantTypes DEF Frames
<1>5. Selection' /\ FollowInv' /\ QuitInv' /\ sent' \in Seq(0 .. LastFrame)
  BY <1>2, StreamsFollows
<1>6. BaseTypes'
  BY <1>2, <1>4, ConstantTypes DEF BaseTypes, Streams
<1>7. ReplayTypes' /\ QueueIdle'
  BY <1>2, <1>5
    DEF ReplayInv, ReplayTypes, FollowInv, QueueIdle, queueVars, openpiVars,
        Streams
<1>8. HandInv'
  <2>1. script' = "lerobot" /\ opts' = opts
    BY <1>1, <1>2 DEF Streams
  <2>2. ASSUME opts.kind # "none", Commanded' # {}
        PROVE  \E m \in Commanded' : /\ \A j \in Commanded' : j <= m
                                     /\ \/ hand' = episode'[m].grip
                                        \/ episode'[m].index \in missed'
    <3>1. CASE Current.grip \in 0 .. Full
      <4>1. hand' = Current.grip \/ Current.index \in missed'
        BY <1>2, <2>2, <3>1, ConstantTypes
      <4>. QED
        BY <1>2, <3>1, <4>1, NewCommand
    <3>2. CASE Current.grip \notin 0 .. Full
      <4>1. UNCHANGED hand /\ missed \subseteq missed'
        BY <1>2, <1>4, <3>2
      <4>. QED
        BY <1>2, <2>2, <3>2, <4>1, NoNewCommand
    <3>. QED
      BY <3>1, <3>2
  <2>3. missed' \subseteq {episode'[i].index : i \in 1 .. frame'}
    BY <1>2, MissedGrows
  <2>4. script' # "studio"
    BY <2>1
  <2>. QED
    BY <2>1, <2>2, <2>3, <2>4, Zenon DEF HandInv
<1>. QED
  BY <1>5, <1>6, <1>7, <1>8 DEF ReplayInv

(***************************************************************************)
(* Each step of a replay keeps the invariant.                              *)
(***************************************************************************)
LEMMA ReplayStep ==
  ASSUME BaseTypes, ReplayInv, Replay
  PROVE  BaseTypes' /\ ReplayInv'
PROOF
<1>. script # "openpi" /\ ReplayNext /\ UNCHANGED <<queueVars, openpiVars>>
  BY DEF Replay
<1>1. CASE \/ ConnectArm
           \/ ConnectHand
           \/ ConfirmsReplay
           \/ MoveToFirst
           \/ ReplayEnds
           \/ ReplayFinally
           \/ /\ pc \in {"initial", "frames"}
              /\ ReplayRaises \/ Failing
  BY <1>1, PlainSteps, PlainKeepsInv
<1>2. CASE Initial /\ ~ ReplayRaises
  BY <1>2, FirstActionKeepsInv
<1>3. CASE StudioFrame /\ ~ ReplayRaises /\ ~ Failing
  BY <1>3, StudioFrameKeepsInv
<1>4. CASE LeRobotFrame /\ ~ ReplayRaises
  BY <1>4, LeRobotFrameKeepsInv
<1>5. Initial \/ StudioFrame \/ LeRobotFrame => pc \in {"initial", "frames"}
  BY DEF Initial, StudioFrame, LeRobotFrame
<1>. QED
  BY Zenon, <1>1, <1>2, <1>3, <1>4, <1>5 DEF ReplayNext

-----------------------------------------------------------------------------
(* The gripper's job, and Ctrl-C. *)

\* What the invariant does not depend on.
LEMMA SameInv ==
  ASSUME UNCHANGED <<script, opts, interrupted, pc, sent, hand>>,
         UNCHANGED <<queueVars, openpiVars, replayVars>>
  PROVE  OpenInv' = OpenInv /\ ReplayInv' = ReplayInv
PROOF
<1>1. UNCHANGED <<script, opts, interrupted, pc, sent, hand, pending,
                  reset_pending, global_step, closed, running, last_images,
                  seen, action, request, episode, frame, last_action, missed>>
  BY DEF queueVars, openpiVars, replayVars
<1>2. OpenTypes' = OpenTypes
  BY <1>1 DEF OpenTypes
<1>3. StartInv' = StartInv /\ CountInv' = CountInv /\ StageInv' = StageInv
  BY <1>1 DEF StartInv, CountInv, StageInv, Starting, Stepping
<1>4. PendingInv' = PendingInv /\ SentInv' = SentInv
  BY <1>1 DEF PendingInv, SentInv, Stepping, Taken
<1>5. QueueInv' = QueueInv /\ StopInv' = StopInv /\ SeenInv' = SeenInv
  BY <1>1, SameGripper DEF QueueInv, StopInv, SeenInv
<1>6. OpenInv' = OpenInv
  BY <1>1, <1>2, <1>3, <1>4, <1>5 DEF OpenInv
<1>7. ReplayTypes' = ReplayTypes /\ QueueIdle' = QueueIdle /\ QuitInv' = QuitInv
  BY <1>1 DEF ReplayTypes, QueueIdle, QuitInv
<1>8. Selection' = Selection
  BY <1>1 DEF Selection, First, Final
<1>9. FollowInv' = FollowInv
  BY <1>1 DEF FollowInv, First
<1>10. HandInv' = HandInv
  BY <1>1 DEF HandInv, Commanded
<1>11. ReplayInv' = ReplayInv
  BY <1>7, <1>8, <1>9, <1>10 DEF ReplayInv
<1>. QED
  BY <1>6, <1>11

LEMMA HandMovesKeepsInv ==
  ASSUME ScriptsInv, HandMoves
  PROVE  ScriptsInv'
PROOF
<1>1. /\ UNCHANGED <<script, opts, interrupted, faults, pc, sent, hand>>
      /\ UNCHANGED <<queueVars, openpiVars, replayVars>>
      /\ handBusy' \in BOOLEAN
  BY DEF HandMoves, HandEnds, baseVars
<1>2. BaseTypes'
  BY <1>1 DEF ScriptsInv, BaseTypes
<1>3. OpenInv' = OpenInv /\ ReplayInv' = ReplayInv /\ Open' = Open
  BY <1>1, SameInv DEF Open
<1>. QED
  BY <1>2, <1>3, Zenon DEF ScriptsInv

LEMMA CtrlCKeepsInv ==
  ASSUME ScriptsInv, CtrlC
  PROVE  ScriptsInv'
PROOF
<1>1. /\ UNCHANGED <<script, opts, faults, sent, hand, handBusy>>
      /\ UNCHANGED <<queueVars, last_images, seen, action, request, replayVars>>
      /\ interrupted = None /\ interrupted' = Len(sent)
  BY DEF CtrlC, OpenPICtrlC, ReplayCtrlC, armVars
<1>2. BaseTypes'
  BY <1>1 DEF ScriptsInv, BaseTypes
<1>3. CASE Open
  <2>1. OpenInv /\ running' = FALSE /\ UNCHANGED pc
    BY <1>3 DEF ScriptsInv, CtrlC, OpenPICtrlC, Open
  <2>2. OpenTypes'
    <3>1. OpenTypes /\ Len(sent) \in Nat
      BY <2>1 DEF OpenInv, OpenTypes
    <3>2. interrupted' \in None .. Len(sent)
      BY <1>1, <3>1, ConstantTypes
    <3>. QED
      BY <1>1, <2>1, <3>1, <3>2 DEF OpenTypes, queueVars
  <2>3. /\ StartInv' /\ CountInv' /\ PendingInv' /\ StageInv' /\ SentInv'
        /\ QueueInv'
    BY <1>1, <2>1, Zenon
      DEF OpenInv, StartInv, CountInv, PendingInv, StageInv, SentInv, QueueInv,
          Starting, Stepping, Taken, queueVars, replayVars
  <2>4. StopInv' /\ SeenInv'
    BY <1>1, <2>1, SameGripper DEF StopInv, OpenInv, SeenInv
  <2>. QED
    BY <1>1, <1>2, <1>3, <2>1, <2>2, <2>3, <2>4
      DEF ScriptsInv, Open, OpenInv, replayVars
<1>4. CASE ~ Open
  <2>1. /\ ReplayInv /\ UNCHANGED running
        /\ pc' = IF pc = "finally" THEN "over" ELSE "finally"
    BY <1>4 DEF ScriptsInv, CtrlC, ReplayCtrlC, Goto, Open
  <2>2. ReplayTypes'
    BY <1>1, <2>1, ConstantTypes DEF ReplayInv, ReplayTypes, replayVars
  <2>3. Selection' /\ QueueIdle' /\ HandInv'
    BY <1>1, <2>1, Zenon
      DEF ReplayInv, Selection, QueueIdle, HandInv, Commanded, First, Final,
          queueVars, replayVars
  <2>4. FollowInv'
    <3>1. pc' \notin {"connect", "hand", "confirm", "move", "initial"}
      BY <2>1
    <3>. QED
      BY <1>1, <2>1, <3>1, Zenon DEF ReplayInv, FollowInv, First, replayVars
  <2>5. QuitInv'
    BY <1>1, <2>1 DEF QuitInv
  <2>. QED
    BY <1>1, <1>2, <1>4, <2>2, <2>3, <2>4, <2>5
      DEF ScriptsInv, Open, ReplayInv
<1>. QED
  BY <1>3, <1>4

-----------------------------------------------------------------------------
(***************************************************************************)
(* The invariant of the scripts.                                           *)
(***************************************************************************)
LEMMA InitInv == ASSUME Init PROVE ScriptsInv
PROOF
<1>1. /\ script \in Scripts /\ opts \in Options(script)
      /\ pc = IF Open THEN "cameras" ELSE "connect"
      /\ sent = <<>> /\ hand \in 0 .. Full /\ handBusy = FALSE
      /\ interrupted = None /\ faults = 0
      /\ pending = <<>> /\ reset_pending = TRUE /\ global_step = 0
      /\ closed = FALSE /\ running = TRUE /\ last_images = {}
      /\ seen = Nothing /\ action = Nothing /\ request = Nothing
      /\ frame = 0 /\ last_action = None /\ missed = {}
  BY DEF Init, ArmInit, OpenPIInit, QueueInit, ReplayInit, Open
<1>2. BaseTypes
  <2>1. hand \in 0 .. Full /\ faults \in 0 .. MaxFaults
    BY <1>1, ConstantTypes
  <2>. QED
    BY <1>1, <2>1 DEF BaseTypes
<1>3. CASE Open
  <2>1. OpenTypes
    <3>1. global_step \in 0 .. MaxSteps /\ interrupted \in None .. Len(sent)
      BY <1>1, ConstantTypes, EmptySeq
    <3>2. sent \in Seq(Actions) /\ pending \in Seq(Actions)
      BY <1>1, EmptySeq
    <3>. QED
      BY <1>1, <1>3, <3>1, <3>2 DEF OpenTypes
  <2>2. /\ StartInv /\ CountInv /\ PendingInv /\ StageInv /\ SentInv
        /\ SeenInv /\ QueueInv /\ StopInv
    BY <1>1, <1>3, ConstantTypes, EmptySeq
      DEF StartInv, CountInv, PendingInv, StageInv, SentInv, SeenInv, QueueInv,
          StopInv, Starting, Stepping
  <2>3. episode = <<>>
    BY <1>3 DEF Init, Open
  <2>. QED
    BY <1>1, <1>2, <1>3, <2>1, <2>2, <2>3 DEF ScriptsInv, OpenInv
<1>4. CASE ~ Open
  <2>1. ReplayInit
    BY <1>4 DEF Init, Open
  <2>2. episode \in Seq(Frames) /\ Selection
    BY <1>1, <2>1, SelectedEpisode
  <2>3. ReplayTypes
    BY <1>1, <1>4, <2>2, ConstantTypes, EmptySeq DEF ReplayTypes
  <2>4. QueueIdle /\ FollowInv /\ QuitInv
    BY <1>1, <1>4, EmptySeq DEF QueueIdle, FollowInv, QuitInv
  <2>5. HandInv
    <3>1. Commanded = {} /\ last_action \notin 0 .. Full
      BY <1>1, ConstantTypes DEF Commanded
    <3>. QED
      BY <1>1, <3>1 DEF HandInv
  <2>. QED
    BY <1>2, <1>4, <2>2, <2>3, <2>4, <2>5 DEF ScriptsInv, ReplayInv
<1>. QED
  BY <1>3, <1>4

\* Which script it is and its options stay.
LEMMA OptionsStay == ASSUME [Next]_vars PROVE UNCHANGED <<script, opts>>
PROOF
<1>1. CASE Openpi
  BY <1>1, Zenon
    DEF Openpi, OpenPINext, WaitForImages, ConnectEnv, ConnectPolicy, Confirms,
        Loop, Observe, NextAction, Infer, ServerAnswers, Act, OpenPIFinally,
        Raises, Answer, Unbothered, baseVars
<1>2. CASE Replay
  BY <1>2, Zenon
    DEF Replay, ReplayNext, ConnectArm, ConnectHand, ConfirmsReplay,
        MoveToFirst, Initial, StudioFrame, LeRobotFrame, ReplayEnds,
        ReplayFinally, ReplayRaises, Failing, Answer, Unbothered, baseVars
<1>3. CASE HandMoves \/ CtrlC \/ UNCHANGED vars
  BY <1>3, Zenon DEF HandMoves, HandEnds, CtrlC, baseVars, vars
<1>. QED
  BY <1>1, <1>2, <1>3 DEF Next

LEMMA NextInv == ASSUME ScriptsInv, [Next]_vars PROVE ScriptsInv'
PROOF
<1>0. Open' = Open
  BY OptionsStay DEF Open
<1>1. CASE Openpi
  <2>1. Open /\ BaseTypes /\ OpenInv
    BY <1>1 DEF Openpi, ScriptsInv, Open
  <2>. QED
    BY <1>0, <1>1, <2>1, OpenStep DEF ScriptsInv
<1>2. CASE Replay
  <2>1. ~ Open /\ BaseTypes /\ ReplayInv
    BY <1>2 DEF Replay, ScriptsInv, Open
  <2>. QED
    BY <1>0, <1>2, <2>1, ReplayStep DEF ScriptsInv
<1>3. CASE HandMoves
  BY <1>3, HandMovesKeepsInv
<1>4. CASE CtrlC
  BY <1>4, CtrlCKeepsInv
<1>5. CASE UNCHANGED vars
  <2>1. BaseTypes' = BaseTypes
    BY <1>5, Zenon DEF vars, baseVars, armVars, BaseTypes
  <2>2. OpenInv' = OpenInv /\ ReplayInv' = ReplayInv
    BY <1>5, SameInv DEF vars, baseVars, armVars
  <2>. QED
    BY <1>0, <2>1, <2>2, Zenon DEF ScriptsInv
<1>. QED
  BY <1>1, <1>2, <1>3, <1>4, <1>5 DEF Next

THEOREM ScriptsInvariant == Spec => []ScriptsInv
PROOF
<1>1. Init => ScriptsInv
  BY InitInv
<1>2. ScriptsInv /\ [Next]_vars => ScriptsInv'
  BY NextInv
<1>. QED
  BY <1>1, <1>2, PTL DEF Spec

(***************************************************************************)
(* Type correctness: also, a refused frame is one of those done, what was  *)
(* seen is this step's, and a queue is closed for good.                    *)
(***************************************************************************)
THEOREM ScriptsTypeCorrect == Spec => []TypeOK
PROOF
<1>1. ScriptsInv => TypeOK
  <2>. SUFFICES ASSUME ScriptsInv PROVE TypeOK
    OBVIOUS
  <2>1. CASE Open
    <3>. OpenInv /\ BaseTypes
      BY <2>1 DEF ScriptsInv
    <3>1. frame \in 0 .. Len(episode)
      BY EmptySeq DEF OpenInv
    <3>2. missed \subseteq {episode[i].index : i \in 1 .. frame}
      BY DEF OpenInv
    <3>. QED
      BY <3>1, <3>2 DEF OpenInv, OpenTypes, BaseTypes, QueueInv, TypeOK
  <2>2. CASE ~ Open
    <3>. ReplayInv /\ BaseTypes
      BY <2>2 DEF ScriptsInv
    <3>1. Len(pending) < Horizon /\ global_step \in 0 .. MaxSteps
      BY EmptySeq, ConstantTypes DEF ReplayInv, QueueIdle
    <3>2. missed \subseteq {episode[i].index : i \in 1 .. frame}
      BY Zenon DEF ReplayInv, HandInv
    <3>. QED
      BY <3>1, <3>2 DEF ReplayInv, ReplayTypes, BaseTypes, QueueIdle, TypeOK
  <2>. QED
    BY <2>1, <2>2
<1>. QED
  BY <1>1, ScriptsInvariant, PTL

(***************************************************************************)
(* The actions of a chunk reach the arm one per step, in the chunk's       *)
(* order, and none is left out or sent twice.                              *)
(***************************************************************************)
THEOREM ChunksInStep == Spec => []ChunkInStep
PROOF
<1>1. ScriptsInv => ChunkInStep
  BY DEF ScriptsInv, Open, OpenInv, SentInv, ChunkInStep
<1>. QED
  BY <1>1, ScriptsInvariant, PTL

(***************************************************************************)
(* A replay streams the frames selected from the recording, all of them if *)
(* it completes, and the gripper has been sent where it was in the last    *)
(* one that has a command, unless that frame is counted as refused.        *)
(***************************************************************************)
THEOREM ReplaysFollow == Spec => []FollowsRecording
PROOF
<1>1. ASSUME ScriptsInv, script # "openpi"
      PROVE  /\ \A k \in DOMAIN sent :
                  sent[k] = First + (k - 1) * opts.stride
             /\ pc = "frames" /\ frame = Len(episode) =>
                  Len(sent) = (Final - First) \div opts.stride + 1
             /\ pc = "frames" /\ opts.kind # "none" /\ Commanded # {} =>
                  \/ hand = episode[Max(Commanded)].grip
                  \/ episode[Max(Commanded)].index \in missed
  <2>1. BaseTypes /\ ReplayInv
    BY <1>1 DEF ScriptsInv, Open
  <2>2. \A k \in DOMAIN sent :
          /\ sent[k] = episode[k].index
          /\ sent[k] = First + (k - 1) * opts.stride
    BY <2>1, Zenon DEF ReplayInv, FollowInv
  <2>3. ASSUME frame = Len(episode)
        PROVE  Len(sent) = (Final - First) \div opts.stride + 1
    <3> DEFINE n == Len(episode)
    <3>1. n \in Nat \ {0} /\ n \in DOMAIN sent /\ Len(sent) = n
      BY <2>1, <2>3, EmptySeq
        DEF ReplayInv, ReplayTypes, Selection, FollowInv
    <3>2. First + (n - 1) * opts.stride <= Final
          /\ Final < First + (n - 1) * opts.stride + opts.stride
      <4>1. episode[n].index = First + (n - 1) * opts.stride
        BY <2>2, <3>1
      <4>. QED
        BY <2>1, <4>1, Zenon DEF ReplayInv, Selection
    <3>3. opts.stride \in {1, 2} /\ First \in Int /\ Final \in Int
      BY <2>1, OptionTypes, ConstantTypes DEF BaseTypes, First, Final
    <3>4. n = (Final - First) \div opts.stride + 1
      <4>. HIDE DEF n
      <4>1. CASE opts.stride = 1
        BY <3>1, <3>2, <3>3, <4>1
      <4>2. CASE opts.stride = 2
        BY <3>1, <3>2, <3>3, <4>2
      <4>. QED
        BY <3>3, <4>1, <4>2
    <3>. QED
      BY <3>1, <3>4
  <2>4. ASSUME opts.kind # "none", Commanded # {}
        PROVE  \/ hand = episode[Max(Commanded)].grip
               \/ episode[Max(Commanded)].index \in missed
    <3>1. PICK m \in Commanded :
            /\ \A j \in Commanded : j <= m
            /\ hand = episode[m].grip \/ episode[m].index \in missed
      BY <2>1, <2>4, Zenon DEF ReplayInv, HandInv
    <3>2. \A j \in Commanded : j \in Int
      BY DEF Commanded
    <3>3. Max(Commanded) = m
      <4>1. \A j \in Commanded : m >= j
        BY <3>1, <3>2
      <4>2. /\ Max(Commanded) \in Commanded
            /\ \A j \in Commanded : Max(Commanded) >= j
        BY <3>1, <4>1, Zenon DEF Max
      <4>. QED
        BY <3>1, <3>2, <4>2
    <3>. QED
      BY <3>1, <3>3
  <2>. QED
    BY <2>2, <2>3, <2>4
<1>2. ScriptsInv => FollowsRecording
  BY <1>1, Zenon DEF FollowsRecording, First, Final, Commanded
<1>. QED
  BY <1>2, ScriptsInvariant, PTL

(***************************************************************************)
(* An action that asks for the gripper as it was observed leaves it there, *)
(* with and without --invert-gripper-state.                                *)
(***************************************************************************)
THEOREM HoldsTheGripper == Spec => HoldsWhatItSaw
PROOF
<1> DEFINE Asked == IF opts.invert THEN Full - seen.grip ELSE seen.grip
<1>1. ASSUME ScriptsInv,
             Openpi /\ pc = "act" /\ sent' # sent /\ HasGripper
               /\ action.grip = Asked
      PROVE  hand' = hand
  <2>0. seen.grip = GripperState
    BY <1>1 DEF ScriptsInv, OpenInv, SeenInv, Openpi, Open
  <2>1. ToEnv(Asked) = hand
    <3>1. opts.invert \in BOOLEAN /\ Inverts \in BOOLEAN /\ hand \in 0 .. Full
      BY <1>1, OptionTypes DEF ScriptsInv, BaseTypes, Inverts
    <3>. QED
      BY <1>1, <2>0, <3>1, ConstantTypes DEF GripperState, ToEnv
  <2>2. Act
    BY <1>1
      DEF Openpi, OpenPINext, WaitForImages, ConnectEnv, ConnectPolicy,
          Confirms, Loop, Observe, NextAction, Infer, ServerAnswers,
          OpenPIFinally
  <2>. QED
    BY <1>1, <2>1, <2>2
      DEF Act, Raises, KeepArm, armVars
<1>2. ScriptsInv =>
        ((/\ Openpi /\ pc = "act" /\ sent' # sent /\ HasGripper
          /\ action.grip = Asked) => hand' = hand)
  BY <1>1
<1>. QED
  BY <1>2, ScriptsInvariant, PTL DEF HoldsWhatItSaw

(***************************************************************************)
(* The safety part of InterruptEnds: after Ctrl-C the replays send nothing *)
(* and the inference at most one action.                                   *)
(***************************************************************************)
SendsNoMore ==
  interrupted # None =>
    Len(sent) <= interrupted + (IF script = "openpi" THEN 1 ELSE 0)

THEOREM InterruptStops == Spec => []SendsNoMore
PROOF
<1>1. ScriptsInv => SendsNoMore
  <2>. SUFFICES ASSUME ScriptsInv, interrupted # None
                PROVE  Len(sent) <= interrupted
                                      + (IF script = "openpi" THEN 1 ELSE 0)
    BY DEF SendsNoMore
  <2>1. CASE Open
    BY <2>1 DEF ScriptsInv, OpenInv, OpenTypes, StopInv, Open
  <2>2. CASE ~ Open
    BY <2>2 DEF ScriptsInv, ReplayInv, ReplayTypes, QuitInv, Open
  <2>. QED
    BY <2>1, <2>2
<1>. QED
  BY <1>1, ScriptsInvariant, PTL
=============================================================================
