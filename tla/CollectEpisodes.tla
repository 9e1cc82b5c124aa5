--------------------------- MODULE CollectEpisodes ---------------------------
(***************************************************************************)
(* scripts/collect_episodes.py: the main thread's loop, which previews,    *)
(* records and asks how it went; the recorder's thread, which it starts    *)
(* and stops; the camera both read; the dataset; an operator's keys and    *)
(* Ctrl-C; and any call that may raise.                                    *)
(*                                                                         *)
(* The clock moves when a recording starts and when it takes a step.  An   *)
(* action is the time at which it was applied.                             *)
(***************************************************************************)
EXTENDS StateRecorder, DataCollector, FiniteSets

CONSTANTS
  Devices,        \* of "keyboard", "spacemouse", "gello"
  NumEpisodes,    \* --num-episodes
  MaxNow,         \* bound on the clock
  MaxFaults       \* bound on the calls that raise, and on the sessions that
                  \* go on with the dataset

ASSUME CollectAssumption ==
  /\ Devices \subseteq {"keyboard", "spacemouse", "gello"}
  /\ NumEpisodes \in Nat /\ MaxNow \in Nat /\ MaxFaults \in Nat
  /\ NumEpisodes * (MaxFaults + 1) <= MaxSaved

VARIABLES
  device, pc,
  then,           \* what follows the join of the recorder's thread
  running, ep, recording,
  shown,          \* the loop's last_images
  applied,        \* last_applied_action
  drained,        \* whether this step has drained a frame
  success,        \* the operator's answer
  began,          \* history: when the recording started
  torn,           \* history: the episodes a session saved and then raised
  faults, sessions

loopVars == <<pc, then, running, ep, recording, shown, applied, drained,
              success, began>>
countVars == <<device, torn, faults, sessions>>
vars == <<now, cameraVars, recorderVars, collectorVars, loopVars, countVars>>

Init ==
  /\ now = 0 /\ CameraInit /\ RecorderInit /\ CollectorInit
  /\ device \in Devices /\ pc = "reset" /\ then = "next" /\ running = TRUE
  /\ ep = 0 /\ recording = FALSE /\ shown = None /\ applied = None
  /\ drained = FALSE /\ success = FALSE /\ began = 0
  /\ torn = {} /\ faults = 0 /\ sessions = 1

Keys == IF device = "keyboard" THEN {"s", "exit"} ELSE {"s", "e", "f", "q"}

-----------------------------------------------------------------------------
(* How the main thread goes on. *)

Goto(at) == pc' = at
Moves(at) ==
  Goto(at) /\ UNCHANGED <<then, running, ep, recording, shown, applied,
                          drained, success, began>>

\* recorder.stop, after which the thread has ended.
StopThen(next) ==
  /\ StopRecorder /\ Goto("join") /\ then' = next /\ success' = FALSE
  /\ UNCHANGED <<running, ep, recording, shown, applied, drained, began>>

\* An exception leaves the loop: the devices are closed, the dataset is not
\* finalized, and the recorder's thread is not stopped.
RaiseAfter(unfinished) ==
  /\ faults < MaxFaults /\ faults' = faults + 1 /\ Moves("over")
  /\ torn' = torn \union unfinished
  /\ UNCHANGED <<now, cameraVars, recorderVars, collectorVars, device,
                 sessions>>
Raise == RaiseAfter({})

NoFault == UNCHANGED countVars

-----------------------------------------------------------------------------
(* The session and its episodes. *)

\* The first reset, and the one before each episode.
Reset ==
  /\ pc = "reset"
  /\ \/ Moves(IF ep = 0 THEN "next" ELSE "loop") /\ NoFault
        /\ UNCHANGED <<now, cameraVars, recorderVars, collectorVars>>
     \/ Raise

NextEpisode ==
  /\ pc = "next"
  /\ IF running /\ ep < NumEpisodes
     THEN /\ ep' = ep + 1 /\ recording' = FALSE /\ shown' = None
          /\ applied' = None
          /\ Goto(IF device = "gello" THEN "loop" ELSE "reset")
          /\ UNCHANGED <<then, running, drained, success, began>>
     ELSE Moves("finalize")
  /\ NoFault /\ UNCHANGED <<now, cameraVars, recorderVars, collectorVars>>

Finalizes ==
  /\ pc = "finalize" /\ Moves("over")
  /\ IF episode_active THEN UNCHANGED collectorVars ELSE Finalize
  /\ NoFault /\ UNCHANGED <<now, cameraVars, recorderVars>>

-----------------------------------------------------------------------------
(* One round of the loop. *)

\* Mutant of LoopEnds: a recording is not interrupted.
LoopEndsUnlessRecording ==
  /\ pc = "loop" /\ ~ running /\ ~ recording /\ StopThen("next")
  /\ NoFault /\ UNCHANGED <<now, cameraVars, collectorVars>>

LoopEnds ==
  /\ pc = "loop" /\ ~ running /\ StopThen("next")
  /\ NoFault /\ UNCHANGED <<now, cameraVars, collectorVars>>

\* Keys that leave the loop; what is not recording has nothing to end.
Ending(key) ==
  CASE key = "q" /\ recording           -> "discard_quit"
    [] key = "f" /\ recording           -> "discard"
    [] key \in {"e", "exit"}            -> "end"
    [] OTHER                            -> "next"

Leaves(key) ==
  /\ pc = "loop" /\ running /\ key # "s" /\ (key = "e" => recording)
  /\ StopRecorder /\ Goto("join")
  /\ then' = IF recording THEN Ending(key) ELSE "next"
  /\ running' = (key # "q")
  /\ NoFault /\ UNCHANGED <<now, cameraVars, collectorVars, ep, recording,
                            shown, applied, drained, success, began>>

\* The round that starts a recording goes on to its first step.
Start ==
  /\ pc = "loop" /\ running /\ ~ recording /\ now + 2 <= MaxNow
  /\ \/ /\ recording' = TRUE /\ Read
        /\ shown' = IF Fresh # None THEN Fresh ELSE shown
        /\ StartRecorder /\ StartEpisode
        /\ now' = now + 1 /\ began' = now + 1 /\ Goto("step") /\ NoFault
        /\ UNCHANGED <<then, running, ep, applied, drained, success>>
     \/ Raise

Preview ==
  /\ pc = "loop" /\ running /\ ~ recording
  /\ \/ /\ Read /\ shown' = IF Fresh # None THEN Fresh ELSE shown
        /\ NoFault /\ UNCHANGED <<now, recorderVars, collectorVars, pc, then,
             running, ep, recording, applied, drained, success, began>>
     \/ Raise

GoesOn ==
  /\ pc = "loop" /\ running /\ recording /\ now < MaxNow /\ Moves("step")
  /\ NoFault /\ UNCHANGED <<now, cameraVars, recorderVars, collectorVars>>

\* Mutant of Step: frames get the action of the step before.
StepKeepsAction ==
  /\ pc = "step"
  /\ \/ /\ now' = now + 1 /\ applied' = now /\ drained' = FALSE
        /\ Goto("drain") /\ NoFault
        /\ UNCHANGED <<cameraVars, recorderVars, collectorVars, then, running,
                       ep, recording, shown, success, began>>
     \/ Raise

\* env.step, however long it takes.
Step ==
  /\ pc = "step"
  /\ \/ /\ now' = now + 1 /\ applied' = now + 1 /\ drained' = FALSE
        /\ Goto("drain") /\ NoFault
        /\ UNCHANGED <<cameraVars, recorderVars, collectorVars, then, running,
                       ep, recording, shown, success, began>>
     \/ Raise

Frame(o, put, image) ==
  [obs |-> o, put |-> put, image |-> image, action |-> applied]

\* A frame without an image gets the one shown last.
ImageToUse == IF Head(queue).image # None THEN Head(queue).image ELSE shown

RecordDrained ==
  /\ Drain
  /\ RecordFrame(Frame(Head(queue).obs, Head(queue).put, ImageToUse))
  /\ NoFault /\ UNCHANGED <<now, cameraVars, pc, then, running, ep, recording,
                            applied, success, began>>

\* Without a frame in the queue the outcome of the step makes one.
RecordStep ==
  LET image == IF last_images # None THEN last_images ELSE shown
  IN /\ RecordFrame(Frame(now, None, image)) /\ shown' = image
     /\ Goto("loop") /\ NoFault
     /\ UNCHANGED <<now, cameraVars, recorderVars, then, running, ep,
                    recording, applied, drained, success, began>>

EndsRound ==
  /\ Goto("loop") /\ drained' = FALSE /\ NoFault
  /\ UNCHANGED <<then, running, ep, recording, shown, applied, success, began>>

DrainFrames ==
  /\ pc = "drain"
  /\ \/ /\ queue # <<>> /\ RecordDrained
        /\ shown' = ImageToUse /\ drained' = TRUE
     \/ queue = <<>> /\ ~ drained /\ RecordStep
     \/ /\ queue = <<>> /\ drained /\ EndsRound
        /\ UNCHANGED <<now, cameraVars, recorderVars, collectorVars>>
     \/ Raise

-----------------------------------------------------------------------------
(* The end of an episode. *)

JoinRecorder ==
  /\ pc = "join" /\ Joined /\ Goto(then) /\ then' = "next"
  /\ NoFault /\ UNCHANGED <<now, cameraVars, recorderVars, collectorVars,
                            running, ep, recording, shown, applied, drained,
                            success, began>>

Discard ==
  /\ pc \in {"discard", "discard_quit"} /\ DiscardEpisode /\ StopThen("next")
  /\ NoFault /\ UNCHANGED <<now, cameraVars>>

\* Mutant of EndRecording: what is left in the queue is not drained.
EndRecordingAtOnce ==
  /\ pc = "end" /\ Moves("ask") /\ NoFault
  /\ UNCHANGED <<now, cameraVars, recorderVars, collectorVars>>

EndRecording ==
  /\ pc = "end"
  /\ \/ /\ applied # None /\ queue # <<>> /\ RecordDrained
        /\ UNCHANGED <<shown, drained>>
     \/ /\ applied = None \/ queue = <<>>
        /\ Moves("ask") /\ NoFault
        /\ UNCHANGED <<now, cameraVars, recorderVars, collectorVars>>
     \/ Raise

\* An answer, or none for 300 s, which counts as a failure.  A GELLO is
\* followed meanwhile.
WaitSuccess ==
  /\ pc = "ask"
  /\ \/ /\ success' \in BOOLEAN /\ Goto("save") /\ NoFault
        /\ UNCHANGED <<now, cameraVars, recorderVars, collectorVars, then,
             running, ep, recording, shown, applied, drained, began>>
     \/ device = "gello" /\ Raise

Save ==
  /\ pc = "save"
  /\ \/ /\ SaveEpisode(success) /\ Moves("annotate") /\ NoFault
        /\ UNCHANGED <<now, cameraVars, recorderVars>>
     \/ /\ ~ Wanted(success) /\ DiscardEpisode /\ StopThen("next") /\ NoFault
        /\ UNCHANGED <<now, cameraVars>>
     \/ Raise

Annotate ==
  /\ pc = "annotate"
  /\ \/ /\ SaveAnnotation(success) /\ StopThen("next") /\ NoFault
        /\ UNCHANGED <<now, cameraVars>>
     \/ RaiseAfter({Len(saved)})

-----------------------------------------------------------------------------
(* Everything around it. *)

\* The handler of SIGINT.
Interrupt ==
  /\ pc # "over" /\ running /\ running' = FALSE
  /\ NoFault
  /\ UNCHANGED <<now, cameraVars, recorderVars, collectorVars, pc, then, ep,
                 recording, shown, applied, drained, success, began>>

\* The script is run again with --resume.
Resume ==
  /\ pc = "over" /\ sessions <= faults /\ sessions' = sessions + 1
  /\ ResumeDataset
  /\ shots' = 0 /\ slot' = None /\ last_frame' = None
  /\ thread' = "none" /\ stop' = FALSE /\ obs' = None /\ images' = None
  /\ queue' = <<>> /\ last_images' = None /\ kept' = 0
  /\ pc' = "reset" /\ then' = "next" /\ running' = TRUE /\ ep' = 0
  /\ recording' = FALSE /\ shown' = None /\ applied' = None
  /\ drained' = FALSE /\ success' = FALSE /\ began' = now
  /\ UNCHANGED <<now, device, torn, faults>>

RecorderThread ==
  pc # "over" /\ Recorder /\ UNCHANGED <<now, collectorVars, loopVars,
                                         countVars>>

CameraThread ==
  /\ pc # "over" /\ Captures
  /\ UNCHANGED <<now, recorderVars, collectorVars, loopVars, countVars>>

\* What the main thread does when nobody presses a key.
Main ==
  \/ Reset \/ NextEpisode \/ Finalizes \/ LoopEnds \/ Preview \/ GoesOn \/ Step
  \/ DrainFrames \/ JoinRecorder \/ Discard \/ EndRecording \/ WaitSuccess
  \/ Save \/ Annotate

Next ==
  \/ Main \/ Start \/ (\E key \in Keys : Leaves(key)) \/ Interrupt \/ Resume
  \/ RecorderThread \/ CameraThread

Spec == Init /\ [][Next]_vars /\ WF_vars(Main) /\ WF_vars(RecorderThread)

-----------------------------------------------------------------------------
(* Properties. *)

Times  == None .. MaxNow
Images == {None} \union 1 .. MaxShots
Drained(i) == buffer[i].put # None

TypeOK ==
  /\ now \in 0 .. MaxNow
  /\ shots \in 0 .. MaxShots /\ {slot, last_frame} \subseteq Images
  /\ thread \in {"none", "read", "images", "put"} /\ stop \in BOOLEAN
  /\ {obs, applied} \subseteq Times
  /\ {images, last_images, shown} \subseteq Images
  /\ queue \in Seq([obs : 0 .. MaxNow, put : 0 .. MaxNow, image : Images])
  /\ Len(queue) <= QueueSize
  /\ kept \in 0 .. MaxKept
  /\ buffer \in Seq([obs : 0 .. MaxNow, put : Times, image : Images,
                     action : 0 .. MaxNow])
  /\ saved \in Seq([success : BOOLEAN, frames : Nat \ {0}])
  /\ Len(saved) <= MaxSaved
  /\ pc = "join" => then \in {"next", "end", "discard", "discard_quit"}
  /\ ep \in 0 .. NumEpisodes /\ recording \in BOOLEAN
  /\ torn \subseteq DOMAIN saved

\* No frame of an episode was read before its recording started, whatever an
\* episode that was discarded or interrupted has left in the queue
\* (state_recorder.py:104).  The frames that come from the queue, and the
\* images of all, are in the order in which they were taken; what is read for
\* the outcome of a step may come before an older frame the recorder was still
\* holding.
FramesInOrder ==
  /\ \A i \in DOMAIN buffer : buffer[i].obs >= began
  /\ \A i, j \in DOMAIN buffer : i < j =>
       /\ buffer[i].image <= buffer[j].image
       /\ Drained(i) /\ Drained(j) => buffer[i].obs <= buffer[j].obs

\* A frame from the queue has the first action that was applied after it was
\* put there: frames do not pile up behind the loop (:665).
ActionsFit ==
  \A i \in DOMAIN buffer :
    Drained(i) => buffer[i].action \in {buffer[i].put, buffer[i].put + 1}

\* When the operator is asked, every pair the recorder has queued is in the
\* episode (:747).
NothingLost ==
  pc = "ask" => Cardinality({i \in DOMAIN buffer : Drained(i)}) = kept

\* Every saved episode has the outcome its operator gave, but for the one
\* after which the session raised, and that one is not given another's by a
\* later session (collector.py:156).
AnnotationsMatch ==
  /\ \A i \in Annotated :
       /\ i \in DOMAIN saved
       /\ (annotations[i] = "success") = saved[i].success
  /\ DOMAIN saved \ Annotated =
       torn \union (IF pc = "annotate" THEN {Len(saved)} ELSE {})

\* The session does with its dataset what Episodes says.
Dataset == INSTANCE Episodes WITH
             frames <- Len(buffer), saved <- saved, closed <- finalized
ImplementsEpisodes == Dataset!Spec

\* After Ctrl-C or a quit the session ends, from any point of it.
InterruptEnds == ~ running ~> pc = "over"

\* "Finalize dataset. Must be called when done recording."
\* (collector.py:174)
FinalizedAtEnd == pc = "over" /\ faults = 0 => finalized
=============================================================================
