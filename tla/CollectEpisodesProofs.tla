------------------------ MODULE CollectEpisodesProofs ------------------------
(***************************************************************************)
(* Theorems about the collection of episodes, for any number of episodes,  *)
(* frames, sessions and calls that raise.                                  *)
(***************************************************************************)
EXTENDS CollectEpisodes, FiniteSetTheorems, SequenceTheorems, TLAPS

Queued == [obs : 0 .. MaxNow, put : 0 .. MaxNow, image : Images]
Framed == [obs : 0 .. MaxNow, put : Times, image : Images,
           action : 0 .. MaxNow]
Saved  == [success : BOOLEAN, frames : Nat \ {0}]

(***************************************************************************)
(* Types, and the phases of an episode.                                    *)
(***************************************************************************)
CameraTypes ==
  /\ shots \in 0 .. MaxShots /\ slot \in Images /\ last_frame \in Images

RecorderTypes ==
  /\ thread \in {"none", "read", "images", "put"}
  /\ obs \in Times /\ images \in Images /\ last_images \in Images
  /\ queue \in Seq(Queued) /\ Len(queue) <= QueueSize
  /\ kept \in 0 .. MaxKept
  /\ thread \in {"images", "put"} => obs # None /\ kept < MaxKept

DataTypes ==
  /\ buffer \in Seq(Framed) /\ saved \in Seq(Saved)

Phases == {"reset", "next", "loop", "step", "drain", "join", "discard",
           "discard_quit", "end", "ask", "save", "annotate", "finalize",
           "over"}

LoopTypes ==
  /\ now \in 0 .. MaxNow /\ began \in 0 .. now
  /\ pc \in Phases /\ then \in {"next", "end", "discard", "discard_quit"}
  /\ ep \in 0 .. NumEpisodes
  /\ shown \in Images /\ applied \in Times
  /\ faults \in 0 .. MaxFaults /\ sessions \in 1 .. faults + 1

Flags ==
  /\ stop \in BOOLEAN /\ episode_active \in BOOLEAN /\ finalized \in BOOLEAN
  /\ running \in BOOLEAN /\ recording \in BOOLEAN /\ drained \in BOOLEAN
  /\ success \in BOOLEAN

\* The frames of an episode come in while it is recorded and, when its end is
\* asked for, until the recorder's queue is empty.
Live ==
  \/ pc \in {"step", "drain", "end"}
  \/ pc = "loop" /\ recording
  \/ pc = "join" /\ then = "end"

\* The recorder's thread is there from the start to the join.
ThreadInv ==
  \/ thread = "none"
  \/ pc \in {"step", "drain", "join", "over"} \/ (pc = "loop" /\ recording)

\* Where an episode has a frame.
Filled ==
  \/ pc \in {"end", "ask", "save"}
  \/ pc = "loop" /\ recording
  \/ pc = "join" /\ then = "end"
  \/ pc = "drain" /\ drained

\* A frame is taken in each round, with an action; what is not active has no
\* frames.
PhaseInv ==
  /\ Live \/ pc \in {"ask", "save"} => episode_active
  /\ pc = "annotate" => buffer = <<>>
  /\ Filled => buffer # <<>>
  /\ buffer # <<>> => episode_active
  /\ finalized => pc = "over"
  /\ (pc = "reset" => ~ recording) /\ (pc \in {"step", "drain"} => recording)

ClockInv ==
  /\ pc = "step" => now < MaxNow
  /\ Live /\ pc # "step" => applied = now

Types ==
  CameraTypes /\ RecorderTypes /\ DataTypes /\ LoopTypes /\ Flags /\ ThreadInv
    /\ PhaseInv /\ ClockInv

(***************************************************************************)
(* The order of frames: those taken, those in the queue, the one in the    *)
(* thread's hands, the last one it has seen, and the camera's.             *)
(***************************************************************************)
CameraInv ==
  /\ slot <= shots /\ last_frame <= shots
  /\ slot # None => last_frame <= slot

ImagesInv ==
  /\ last_images <= last_frame /\ shown <= last_frame
  /\ thread = "put" => images = last_images
  /\ Live =>
       /\ \A i \in 1 .. Len(queue) :
            shown <= queue[i].image /\ queue[i].image <= last_images
       /\ \A i, j \in 1 .. Len(queue) :
            i < j => queue[i].image <= queue[j].image
       /\ thread = "put" => shown <= images
       /\ buffer # <<>> => shown <= last_images \/ last_images = None
       /\ pc # "end" => \A i \in 1 .. Len(buffer) : buffer[i].image <= shown
       /\ \A i \in 1 .. Len(buffer), j \in 1 .. Len(queue) :
            buffer[i].image <= queue[j].image

TimesInv ==
  /\ thread \in {"images", "put"} => obs <= now
  /\ Live =>
       /\ thread \in {"images", "put"} => began <= obs
       /\ \A i \in 1 .. Len(queue) :
            /\ began <= queue[i].obs /\ queue[i].obs <= now
            /\ thread \in {"images", "put"} => queue[i].obs <= obs
       /\ \A i, j \in 1 .. Len(queue) : i < j => queue[i].obs <= queue[j].obs
       /\ \A i \in 1 .. Len(buffer) : Drained(i) =>
            /\ \A j \in 1 .. Len(queue) : buffer[i].obs <= queue[j].obs
            /\ thread \in {"images", "put"} => buffer[i].obs <= obs
            /\ buffer[i].obs <= now

\* Since the loop last emptied the queue the clock has moved at most once.
FitInv ==
  /\ Live => \A i \in 1 .. Len(queue) :
       IF pc = "drain" THEN queue[i].put \in {now - 1, now}
       ELSE queue[i].put = now

CountInv ==
  Live => Cardinality({i \in DOMAIN buffer : Drained(i)}) + Len(queue) = kept

FrameInv ==
  CameraInv /\ ImagesInv /\ TimesInv /\ FitInv /\ CountInv
    /\ FramesInOrder /\ ActionsFit /\ NothingLost

(***************************************************************************)
(* An episode is saved at most once.                                       *)
(***************************************************************************)
Before == pc \in {"loop", "step", "drain", "end", "ask", "save", "discard",
                  "discard_quit"}
            \/ (pc = "join" /\ then # "next") \/ (pc = "reset" /\ ep # 0)

\* The episodes a session may have saved by now, with those before it.
Allowed == NumEpisodes * (sessions - 1) + ep

SavedInv ==
  /\ Len(saved) <= Allowed
  /\ Before => Len(saved) < Allowed
  /\ annotations \in [1 .. MaxSaved -> {"none", "success", "failure"}]
  /\ AnnotationsMatch
  /\ pc = "annotate" => /\ saved # <<>> /\ saved[Len(saved)].success = success
                        /\ Len(saved) \notin torn

-----------------------------------------------------------------------------
(* Sequences. *)

\* What is left of a queue when its head is taken.
LEMMA TailOf ==
  ASSUME NEW S, NEW seq \in Seq(S), seq # <<>>
  PROVE  /\ seq[1] \in S /\ Head(seq) = seq[1]
         /\ Len(seq) \in Nat \ {0}
         /\ Tail(seq) \in Seq(S) /\ Len(Tail(seq)) = Len(seq) - 1
         /\ \A i \in 1 .. Len(seq) - 1 : Tail(seq)[i] = seq[i + 1]
<1>1. Len(seq) \in Nat \ {0} /\ Head(seq) = seq[1]
  BY EmptySeq
<1>2. seq[1] \in S
  BY <1>1, ElementOfSeq
<1> QED
  BY <1>1, <1>2, HeadTailProperties

\* What a sequence is when something is put at its end.
LEMMA AppendOf ==
  ASSUME NEW S, NEW seq \in Seq(S), NEW e \in S
  PROVE  /\ Append(seq, e) \in Seq(S) /\ Append(seq, e) # <<>>
         /\ Len(seq) \in Nat /\ Len(Append(seq, e)) = Len(seq) + 1
         /\ DOMAIN seq = 1 .. Len(seq)
         /\ DOMAIN Append(seq, e) = 1 .. Len(seq) + 1
         /\ \A i \in 1 .. Len(seq) : Append(seq, e)[i] = seq[i]
         /\ Append(seq, e)[Len(seq) + 1] = e
<1>1. /\ Append(seq, e) \in Seq(S) /\ Append(seq, e) # <<>>
      /\ Len(Append(seq, e)) = Len(seq) + 1
      /\ \A i \in 1 .. Len(seq) : Append(seq, e)[i] = seq[i]
      /\ Append(seq, e)[Len(seq) + 1] = e
  BY AppendProperties
<1>2. Len(seq) \in Nat /\ DOMAIN seq = 1 .. Len(seq)
  BY LenProperties
<1>3. DOMAIN Append(seq, e) = 1 .. Len(Append(seq, e))
  BY <1>1, LenProperties
<1> QED
  BY <1>1, <1>2, <1>3

-----------------------------------------------------------------------------
(* Types and phases. *)

LEMMA ConstantTypes ==
  /\ MaxShots \in Nat /\ QueueSize \in Nat \ {0} /\ MaxKept \in Nat
  /\ SaveFailure \in BOOLEAN /\ MaxSaved \in Nat /\ NumEpisodes \in Nat
  /\ MaxNow \in Nat /\ MaxFaults \in Nat /\ None = -1
BY CameraAssumption, RecorderAssumption, CollectorAssumption, CollectAssumption
   DEF CameraAssumption, RecorderAssumption, CollectorAssumption,
       CollectAssumption, None

LEMMA TypesInit == Init => Types
<1> SUFFICES ASSUME Init PROVE Types
  OBVIOUS
<1> USE ConstantTypes DEF Init, CameraInit, RecorderInit, CollectorInit
<1>0. /\ <<>> \in Seq(Queued) /\ <<>> \in Seq(Framed) /\ <<>> \in Seq(Saved)
      /\ Len(<<>>) = 0
  BY EmptySeq
<1>a. None \in Images /\ None \in Times
  BY DEF Images, Times
<1>1. CameraTypes
  BY <1>a DEF CameraTypes
<1>2. RecorderTypes
  BY <1>0, <1>a DEF RecorderTypes
<1>3. DataTypes
  BY <1>0 DEF DataTypes
<1>4. LoopTypes
  BY <1>a DEF LoopTypes, Phases
<1>5. Flags
  BY DEF Flags
<1>6. ThreadInv /\ PhaseInv /\ ClockInv
  BY DEF ThreadInv, PhaseInv, Live, Filled, ClockInv
<1> QED
  BY <1>1, <1>2, <1>3, <1>4, <1>5, <1>6 DEF Types

\* A call that raises leaves everything but the place and the count.
LEMMA RaiseTypes ==
  ASSUME Types, NEW unfinished, RaiseAfter(unfinished)
  PROVE  Types'
<1> USE ConstantTypes
    DEF Types, RaiseAfter, Moves, Goto, cameraVars, recorderVars, collectorVars
<1>1. CameraTypes' /\ RecorderTypes'
  BY DEF CameraTypes, RecorderTypes
<1>2. DataTypes' /\ Flags'
  BY DEF DataTypes, Flags
<1>3. LoopTypes'
  BY DEF LoopTypes, Phases
<1>4. ThreadInv' /\ PhaseInv' /\ ClockInv'
  BY DEF ThreadInv, PhaseInv, Live, Filled, ClockInv
<1> QED
  BY <1>1, <1>2, <1>3, <1>4

-----------------------------------------------------------------------------
(* What a step may do to the camera, the recorder and the dataset. *)

LEMMA CameraSteps ==
  ASSUME [Next]_vars
  PROVE  \/ UNCHANGED cameraVars \/ Read \/ ReadNowait \/ Captures
         \/ Resume /\ CameraInit'
<1>1. Main \/ Start \/ Interrupt => UNCHANGED cameraVars \/ Read
  BY Zenon DEF Main, Reset, NextEpisode, Finalizes, LoopEnds, Preview, GoesOn,
     Step, DrainFrames, JoinRecorder, Discard, EndRecording, WaitSuccess, Save,
     Annotate, Start, Interrupt, Raise, RaiseAfter, RecordDrained, RecordStep
<1>2. RecorderThread => UNCHANGED cameraVars \/ ReadNowait
  BY Zenon DEF RecorderThread, Recorder, ReadsState, ReadsImages, PutsFrame,
     Ends
<1>3. (\E key \in Keys : Leaves(key)) \/ UNCHANGED vars => UNCHANGED cameraVars
  BY DEF Leaves, vars
<1>4. Resume => CameraInit'
  BY DEF Resume, CameraInit
<1>5. CameraThread => Captures
  BY DEF CameraThread
<1> QED
  BY <1>1, <1>2, <1>3, <1>4, <1>5, Zenon DEF Next

LEMMA RecorderSteps ==
  ASSUME [Next]_vars
  PROVE  \/ UNCHANGED recorderVars \/ StartRecorder \/ StopRecorder
         \/ Drain \/ Recorder \/ (Resume /\ RecorderInit')
<1>1. Reset \/ NextEpisode \/ Finalizes \/ LoopEnds \/ Preview \/ GoesOn
        => UNCHANGED recorderVars \/ StopRecorder
  BY Zenon DEF Reset, NextEpisode, Finalizes, LoopEnds, Preview, GoesOn, Raise,
     RaiseAfter, StopThen
<1>2. Step \/ DrainFrames \/ EndRecording \/ Start
        => UNCHANGED recorderVars \/ Drain \/ StartRecorder
  BY Zenon DEF Step, DrainFrames, EndRecording, Start, Raise, RaiseAfter,
     RecordDrained, RecordStep
<1>3. JoinRecorder \/ Discard \/ WaitSuccess \/ Save \/ Annotate \/ Interrupt
        => UNCHANGED recorderVars \/ StopRecorder
  BY Zenon DEF JoinRecorder, Discard, WaitSuccess, Save, Annotate, Interrupt,
     StopThen, Raise, RaiseAfter
<1>4. (\E key \in Keys : Leaves(key)) => StopRecorder
  BY Zenon DEF Leaves
<1>5. Resume => RecorderInit'
  BY DEF Resume, RecorderInit
<1>6. CameraThread \/ UNCHANGED vars => UNCHANGED recorderVars
  BY DEF CameraThread, vars
<1> QED
  BY <1>1, <1>2, <1>3, <1>4, <1>5, <1>6, Zenon DEF Next, Main, RecorderThread

\* Frames come in two ways, and only while an episode is recorded.
Records ==
  \/ pc = "drain" /\ RecordDrained /\ shown' = ImageToUse
  \/ pc = "end" /\ RecordDrained /\ shown' = shown
  \/ pc = "drain" /\ queue = <<>> /\ ~ drained /\ RecordStep

LEMMA DatasetSteps ==
  ASSUME [Next]_vars
  PROVE  \/ UNCHANGED collectorVars
         \/ Records
         \/ Start /\ StartEpisode
         \/ DiscardEpisode
         \/ pc = "save" /\ SaveEpisode(success)
         \/ pc = "annotate" /\ SaveAnnotation(success)
         \/ pc = "finalize" /\ pc' = "over" /\ Finalize
         \/ pc = "over" /\ Resume /\ ResumeDataset
<1>1. Reset \/ NextEpisode \/ Finalizes \/ LoopEnds \/ Preview \/ GoesOn \/ Step
        => \/ UNCHANGED collectorVars
           \/ pc = "finalize" /\ pc' = "over" /\ Finalize
  BY Zenon DEF Reset, NextEpisode, Finalizes, LoopEnds, Preview, GoesOn, Step,
     Raise, RaiseAfter, Moves, Goto
<1>2. DrainFrames \/ EndRecording => UNCHANGED collectorVars \/ Records
  BY Zenon DEF DrainFrames, EndRecording, Raise, RaiseAfter, Records
<1>3. JoinRecorder \/ Discard \/ WaitSuccess \/ Interrupt
        => UNCHANGED collectorVars \/ DiscardEpisode
  BY Zenon DEF JoinRecorder, Discard, WaitSuccess, Interrupt, Raise, RaiseAfter
<1>4. /\ Save => \/ UNCHANGED collectorVars \/ DiscardEpisode
                 \/ pc = "save" /\ SaveEpisode(success)
      /\ Annotate => \/ UNCHANGED collectorVars
                     \/ pc = "annotate" /\ SaveAnnotation(success)
  BY DEF Save, Annotate, Raise, RaiseAfter
<1>5. Start => UNCHANGED collectorVars \/ (Start /\ StartEpisode)
  BY Zenon DEF Start, Raise, RaiseAfter
<1>6. (\E key \in Keys : Leaves(key)) => UNCHANGED collectorVars
  BY Zenon DEF Leaves
<1>7. Resume => pc = "over" /\ ResumeDataset
  BY Zenon DEF Resume
<1>8. CameraThread \/ RecorderThread \/ UNCHANGED vars
        => UNCHANGED collectorVars
  BY DEF CameraThread, RecorderThread, vars
<1> QED
  BY <1>1, <1>2, <1>3, <1>4, <1>5, <1>6, <1>7, <1>8, Zenon DEF Next, Main

-----------------------------------------------------------------------------
(* Types are kept. *)

LEMMA CameraTypesStep ==
  ASSUME Types, [Next]_vars
  PROVE  CameraTypes'
<1> USE ConstantTypes DEF Types, CameraTypes, Images
<1>1. CASE UNCHANGED cameraVars
  BY <1>1 DEF cameraVars
<1>2. CASE Read \/ ReadNowait
  BY <1>2 DEF Read, ReadNowait, Fresh
<1>3. CASE Captures
  BY <1>3 DEF Captures
<1>4. CASE CameraInit'
  BY <1>4 DEF CameraInit
<1> QED
  BY <1>1, <1>2, <1>3, <1>4, CameraSteps

\* What the camera gives is one of its frames, or nothing.
LEMMA FreshType ==
  ASSUME Types
  PROVE  Fresh \in Images
BY DEF Types, CameraTypes, Fresh

LEMMA RecorderTypesStep ==
  ASSUME Types, [Next]_vars
  PROVE  RecorderTypes'
<1> USE ConstantTypes DEF Types, RecorderTypes, LoopTypes
<1>1. CASE UNCHANGED recorderVars \/ StopRecorder
  BY <1>1 DEF recorderVars, StopRecorder
<1>2. CASE StartRecorder \/ RecorderInit'
  <2>1. /\ <<>> \in Seq(Queued) /\ Len(<<>>) = 0
        /\ None \in Images /\ None \in Times
    BY EmptySeq DEF Images, Times
  <2>2. CASE StartRecorder
    BY <2>1, <2>2 DEF StartRecorder
  <2>3. CASE RecorderInit'
    BY <2>1, <2>3 DEF RecorderInit
  <2> QED
    BY <1>2, <2>2, <2>3
<1>3. CASE Drain
  BY <1>3, TailOf DEF Drain
<1>4. CASE ReadsState
  BY <1>4 DEF ReadsState, Times
<1>5. CASE ReadsImages
  BY <1>5, FreshType DEF ReadsImages
<1>6. CASE PutsFrame
  <2> DEFINE pair == [obs |-> obs, put |-> now, image |-> images]
  <2>1. pair \in Queued
    BY <1>6 DEF PutsFrame, Queued, Times
  <2>2. None \in Images /\ None \in Times
    BY DEF Images, Times
  <2>3. CASE Len(queue) < QueueSize
    <3>1. queue' = Append(queue, pair) /\ kept' = kept + 1
      BY <1>6, <2>3 DEF PutsFrame
    <3>2. queue' \in Seq(Queued) /\ Len(queue') = Len(queue) + 1
      BY <2>1, <3>1, AppendOf
    <3> QED
      BY <1>6, <2>2, <2>3, <3>1, <3>2, LenProperties DEF PutsFrame
  <2>4. CASE ~ (Len(queue) < QueueSize)
    BY <1>6, <2>2, <2>4 DEF PutsFrame
  <2> QED
    BY <2>3, <2>4
<1>7. CASE Ends
  BY <1>7 DEF Ends
<1> QED
  BY <1>1, <1>2, <1>3, <1>4, <1>5, <1>6, <1>7, RecorderSteps, Zenon DEF Recorder


\* A frame that is recorded is whole, and has an action.
LEMMA RecordTypes ==
  ASSUME Types, Records
  PROVE  /\ episode_active /\ \E f \in Framed : buffer' = Append(buffer, f)
         /\ saved' = saved /\ shown' \in Images
         /\ UNCHANGED <<now, applied, annotations, finalized, episode_active>>
<1> USE ConstantTypes
<1>1. applied = now
  BY Zenon DEF Records, Types, ClockInv, Live
<1>a. now \in 0 .. MaxNow /\ None \in Times /\ shown \in Images
  BY DEF Types, LoopTypes, Times
<1>2. CASE RecordDrained
  <2> DEFINE head == Head(queue)
  <2>1. head \in Queued
    BY <1>2, TailOf DEF RecordDrained, Drain, Types, RecorderTypes
  <2>2. /\ head.obs \in 0 .. MaxNow /\ head.put \in Times
        /\ ImageToUse \in Images
    BY <1>1, <1>a, <2>1 DEF Queued, Times, ImageToUse
  <2>3. Frame(head.obs, head.put, ImageToUse) \in Framed
    BY <1>1, <1>a, <2>2 DEF Frame, Framed
  <2>4. RecordFrame(Frame(head.obs, head.put, ImageToUse))
    BY <1>2 DEF RecordDrained
  <2>5. shown' \in {shown, ImageToUse}
    BY <1>2 DEF Records, RecordDrained, RecordStep, Drain
  <2> QED
    BY <1>2, <1>a, <2>2, <2>3, <2>4, <2>5 DEF RecordDrained, RecordFrame,
       NoFault, countVars
<1>3. CASE RecordStep
  <2> DEFINE image == IF last_images # None THEN last_images ELSE shown
  <2>1. image \in Images
    BY <1>a DEF Types, RecorderTypes
  <2>2. Frame(now, None, image) \in Framed
    BY <1>1, <1>a, <2>1 DEF Frame, Framed
  <2>3. shown' = image /\ RecordFrame(Frame(now, None, image))
    BY <1>3 DEF RecordStep
  <2> QED
    BY <1>3, <2>1, <2>2, <2>3 DEF RecordStep, RecordFrame
<1> QED
  BY <1>2, <1>3 DEF Records

LEMMA DataTypesStep ==
  ASSUME Types, [Next]_vars
  PROVE  DataTypes'
<1> USE DEF Types, DataTypes
<1>0. <<>> \in Seq(Framed)
  BY EmptySeq
<1>1. CASE UNCHANGED collectorVars
  BY <1>1 DEF collectorVars
<1>2. CASE Records
  <2>1. PICK f \in Framed : buffer' = Append(buffer, f)
    BY <1>2, RecordTypes
  <2> QED
    BY <1>2, <2>1, AppendOf, RecordTypes
<1>3. CASE StartEpisode \/ DiscardEpisode \/ Finalize \/ ResumeDataset
  BY <1>0, <1>3 DEF StartEpisode, DiscardEpisode, Finalize, ResumeDataset
<1>4. CASE pc = "save" /\ SaveEpisode(success)
  <2>0. pc \in {"ask", "save", "end"} => buffer # <<>>
    BY Zenon DEF PhaseInv, Filled
  <2>1. buffer # <<>>
    BY <1>4, <2>0
  <2>a. success \in BOOLEAN
    BY Zenon DEF Flags
  <2>2. Len(buffer) \in Nat \ {0}
    BY <2>1, TailOf
  <2>3. [success |-> success, frames |-> Len(buffer)] \in Saved
    BY <2>a, <2>2, Zenon DEF Saved
  <2>4. Append(saved, [success |-> success, frames |-> Len(buffer)])
          \in Seq(Saved)
    BY <2>3, AppendOf
  <2> QED
    BY <1>0, <1>4, <2>4 DEF SaveEpisode
<1>5. CASE SaveAnnotation(success)
  BY <1>5 DEF SaveAnnotation
<1> QED
  BY <1>1, <1>2, <1>3, <1>4, <1>5, DatasetSteps


LEMMA FlagsStep ==
  ASSUME Types, [Next]_vars
  PROVE  Flags'
<1>0. Flags
  BY DEF Types
<1>1. stop' \in BOOLEAN
  BY <1>0, RecorderSteps, Zenon DEF Flags, recorderVars, StartRecorder,
     StopRecorder, Drain, Recorder, ReadsState, ReadsImages, PutsFrame, Ends,
     RecorderInit
<1>2. episode_active' \in BOOLEAN /\ finalized' \in BOOLEAN
  <2>1. UNCHANGED collectorVars \/ Records
          => episode_active' \in BOOLEAN /\ finalized' \in BOOLEAN
    BY <1>0, RecordTypes, Zenon DEF Flags, collectorVars
  <2>2. StartEpisode \/ DiscardEpisode \/ SaveEpisode(success)
          => episode_active' \in BOOLEAN /\ finalized' \in BOOLEAN
    BY <1>0, Zenon DEF Flags, StartEpisode, DiscardEpisode, SaveEpisode
  <2>3. SaveAnnotation(success) \/ Finalize \/ ResumeDataset
          => episode_active' \in BOOLEAN /\ finalized' \in BOOLEAN
    BY <1>0, Zenon DEF Flags, SaveAnnotation, Finalize, ResumeDataset
  <2> QED
    BY <2>1, <2>2, <2>3, DatasetSteps, Zenon
<1>3. /\ running' \in BOOLEAN /\ recording' \in BOOLEAN /\ drained' \in BOOLEAN
      /\ success' \in BOOLEAN
  <2> DEFINE Goal == /\ running' \in BOOLEAN /\ recording' \in BOOLEAN
                     /\ drained' \in BOOLEAN /\ success' \in BOOLEAN
  <2>0. /\ \A at : Moves(at) => Goal
        /\ \A next : StopThen(next) => Goal
        /\ UNCHANGED loopVars => Goal
    BY <1>0, Zenon DEF Flags, Moves, StopThen, loopVars
  <2>1. Reset \/ NextEpisode \/ Finalizes \/ LoopEnds \/ GoesOn => Goal
    BY <1>0, <2>0, Zenon DEF Flags, Reset, NextEpisode, Finalizes, LoopEnds,
       GoesOn, Raise, RaiseAfter
  <2>2. Start \/ Preview \/ Step => Goal
    BY <1>0, <2>0, Zenon DEF Flags, Start, Preview, Step, Raise, RaiseAfter
  <2>3. DrainFrames \/ EndRecording => Goal
    BY <1>0, <2>0, Zenon DEF Flags, DrainFrames, EndRecording, RecordDrained,
       RecordStep, EndsRound, Raise, RaiseAfter
  <2>4. JoinRecorder \/ Discard \/ WaitSuccess \/ Save \/ Annotate => Goal
    BY <1>0, <2>0, Zenon DEF Flags, JoinRecorder, Discard, WaitSuccess, Save,
       Annotate, Raise, RaiseAfter
  <2>5. (\E key \in Keys : Leaves(key)) \/ Interrupt \/ Resume => Goal
    BY <1>0, Zenon DEF Flags, Leaves, Interrupt, Resume
  <2>6. RecorderThread \/ CameraThread \/ UNCHANGED vars => Goal
    BY <2>0 DEF RecorderThread, CameraThread, vars
  <2> QED
    BY <2>1, <2>2, <2>3, <2>4, <2>5, <2>6, Zenon DEF Next, Main
<1> QED
  BY <1>1, <1>2, <1>3, Zenon DEF Flags


LEMMA LoopTypesStep ==
  ASSUME Types, [Next]_vars
  PROVE  LoopTypes'
<1> USE ConstantTypes DEF Types, LoopTypes, Phases, countVars, NoFault, Moves,
      Goto, StopThen
<1>1. \A unfinished : RaiseAfter(unfinished) => LoopTypes'
  BY RaiseTypes, Zenon
<1>2. CASE Reset
  BY <1>1, <1>2 DEF Reset, Raise
<1>3. CASE NextEpisode
  BY <1>3 DEF NextEpisode, Images, Times
<1>4. CASE Finalizes \/ LoopEnds \/ GoesOn
  BY <1>4 DEF Finalizes, LoopEnds, GoesOn
<1>5. CASE \E key \in Keys : Leaves(key)
  BY <1>5 DEF Leaves, Ending
<1>6. CASE Start \/ Preview
  BY <1>1, <1>6, FreshType DEF Start, Preview, Raise
<1>7. CASE Step
  BY <1>1, <1>7 DEF Step, ClockInv, Raise, Times
<1>8. CASE Records
  BY <1>8, RecordTypes DEF RecordDrained, RecordStep, Records
<1>9. CASE DrainFrames \/ EndRecording
  <2>1. CASE EndsRound /\ UNCHANGED now
    BY <2>1 DEF EndsRound
  <2>2. CASE Moves("ask") /\ NoFault /\ UNCHANGED now
    BY <2>2
  <2> QED
    BY <1>1, <1>8, <1>9, <2>1, <2>2
      DEF DrainFrames, EndRecording, Records, Raise
<1>10. CASE JoinRecorder \/ Discard \/ WaitSuccess
  BY <1>1, <1>10 DEF JoinRecorder, Discard, WaitSuccess, Raise
<1>11. CASE Save \/ Annotate
  BY <1>1, <1>11 DEF Save, Annotate, Raise
<1>12. CASE Interrupt
  BY <1>12 DEF Interrupt
<1>13. CASE Resume
  BY <1>13 DEF Resume, Images, Times
<1>14. CASE RecorderThread \/ CameraThread \/ UNCHANGED vars
  BY <1>14 DEF RecorderThread, CameraThread, vars, loopVars
<1> QED
  BY <1>2, <1>3, <1>4, <1>5, <1>6, <1>7, <1>8, <1>9, <1>10, <1>11, <1>12,
     <1>13, <1>14, Zenon DEF Next, Main


LEMMA PhaseStep ==
  ASSUME Types, [Next]_vars
  PROVE  ThreadInv' /\ PhaseInv'
<1> USE ConstantTypes
    DEF Types, ThreadInv, PhaseInv, Live, Filled, cameraVars, recorderVars,
      collectorVars, Moves, Goto, StopThen, StopRecorder
<1>1. \A unfinished : RaiseAfter(unfinished) => ThreadInv' /\ PhaseInv'
  BY RaiseTypes, Zenon
<1>2. CASE Reset
  BY <1>1, <1>2 DEF Reset, Raise
<1>3. CASE NextEpisode
  BY <1>3 DEF NextEpisode
<1>4. CASE Finalizes
  BY <1>4 DEF Finalizes, Finalize
<1>5. CASE LoopEnds \/ GoesOn
  BY <1>5 DEF LoopEnds, GoesOn
<1>6. CASE \E key \in Keys : Leaves(key)
  BY <1>6 DEF Leaves, Ending
<1>7. CASE Start \/ Preview
  BY <1>1, <1>7 DEF Start, StartEpisode, StartRecorder, Preview, Raise,
     LoopTypes
<1>8. CASE Step
  <2>1. CASE ~ Raise
    <3>1. /\ pc = "step" /\ pc' = "drain" /\ drained' = FALSE
          /\ UNCHANGED <<recorderVars, collectorVars, recording>>
      BY <1>8, <2>1 DEF Step
    <3> QED
      BY <3>1
  <2> QED
    BY <1>1, <2>1 DEF Raise
<1>9. CASE Records
  <2>1. buffer' # <<>> /\ episode_active' /\ ~ finalized'
    <3>1. PICK f \in Framed : buffer' = Append(buffer, f)
      BY <1>9, RecordTypes
    <3>2. buffer' # <<>>
      BY <3>1, AppendOf DEF DataTypes
    <3>3. episode_active' /\ ~ finalized'
      <4>1. pc # "over"
        BY <1>9 DEF Records
      <4>2. ~ finalized
        BY <4>1, Zenon
      <4> QED
        BY <1>9, <4>2, RecordTypes
    <3> QED
      BY <3>2, <3>3, Zenon
  <2>2. CASE RecordDrained
    <3>1. UNCHANGED <<thread, pc, then, recording>>
      BY <2>2 DEF RecordDrained, Drain
    <3> QED
      BY <1>9, <2>1, <3>1 DEF Records
  <2>3. CASE RecordStep /\ pc = "drain" /\ ~ drained
    <3>1. pc' = "loop" /\ UNCHANGED <<thread, then, recording>>
      BY <2>3 DEF RecordStep
    <3> QED
      BY <2>1, <2>3, <3>1
  <2> QED
    BY <1>9, <2>2, <2>3 DEF Records
<1>10. CASE DrainFrames \/ EndRecording
  <2>1. CASE EndsRound /\ UNCHANGED <<now, cameraVars, recorderVars,
                                      collectorVars>> /\ drained /\ pc = "drain"
    BY <2>1 DEF EndsRound
  <2>2. CASE Moves("ask") /\ pc = "end" /\ UNCHANGED <<now, cameraVars,
                                      recorderVars, collectorVars>>
    BY <2>2
  <2> QED
    BY <1>1, <1>9, <1>10, <2>1, <2>2, Zenon DEF DrainFrames, EndRecording,
       Records, Raise
<1>11. CASE JoinRecorder
  BY <1>11 DEF JoinRecorder, Joined, LoopTypes
<1>12. CASE Discard
  BY <1>12 DEF Discard, DiscardEpisode
<1>13. CASE WaitSuccess
  <2>1. CASE ~ Raise
    <3>1. /\ pc = "ask" /\ pc' = "save"
          /\ UNCHANGED <<recorderVars, collectorVars, recording, drained>>
      BY <1>13, <2>1 DEF WaitSuccess
    <3> QED
      BY <3>1
  <2> QED
    BY <1>1, <2>1 DEF Raise
<1>14. CASE Save
  <2>1. pc = "save" /\ episode_active /\ ~ finalized /\ thread = "none"
    <3>1. pc = "save" /\ thread = "none"
      BY <1>14 DEF Save
    <3> QED
      BY <3>1, Zenon
  <2>2. CASE SaveEpisode(success) /\ Moves("annotate") /\ UNCHANGED recorderVars
    <3>1. pc' = "annotate" /\ buffer' = <<>> /\ ~ finalized' /\ thread' = "none"
      BY <2>1, <2>2, Zenon DEF SaveEpisode
    <3> QED
      BY <3>1
  <2>3. CASE DiscardEpisode /\ StopThen("next")
    <3>1. /\ pc' = "join" /\ then' = "next" /\ buffer' = <<>> /\ ~ finalized'
          /\ thread' = "none"
      BY <2>1, <2>3, Zenon DEF DiscardEpisode
    <3> QED
      BY <3>1
  <2> QED
    BY <1>1, <1>14, <2>2, <2>3, Zenon DEF Save, Raise
<1>15. CASE Annotate
  BY <1>1, <1>15 DEF Annotate, SaveAnnotation
<1>16. CASE Interrupt
  BY <1>16 DEF Interrupt
<1>17. CASE Resume
  BY <1>17 DEF Resume, ResumeDataset
<1>18. CASE RecorderThread
  BY <1>18 DEF RecorderThread, Recorder, ReadsState, ReadsImages, PutsFrame,
     Ends, loopVars
<1>19. CASE CameraThread \/ UNCHANGED vars
  BY <1>19 DEF CameraThread, vars, loopVars
<1> QED
  BY <1>2, <1>3, <1>4, <1>5, <1>6, <1>7, <1>8, <1>9, <1>10, <1>11, <1>12,
     <1>13, <1>14, <1>15, <1>16, <1>17, <1>18, <1>19, Zenon DEF Next, Main


-----------------------------------------------------------------------------
(* The steps while frames come in. *)

frameVars == <<now, began, applied, shown, buffer, thread, obs, images, queue,
               last_images, kept, cameraVars>>

Starts ==
  /\ ~ Live /\ pc' = "step" /\ buffer = <<>> /\ buffer' = <<>>
  /\ now' = now + 1 /\ now + 2 <= MaxNow /\ began' = now'
  /\ StartRecorder /\ Read /\ shown' = IF Fresh # None THEN Fresh ELSE shown

Steps ==
  /\ Live /\ pc = "step" /\ pc' = "drain" /\ now' = now + 1 /\ applied' = now'
  /\ UNCHANGED <<cameraVars, recorderVars, buffer, shown, began>>

\* The loop goes on, and leaves the drain when the queue is empty.
Turns ==
  /\ Live /\ UNCHANGED frameVars
  /\ pc = "step" => pc' = "step"
  /\ pc = "drain" /\ pc' # "drain" => queue = <<>>
  /\ (pc # "drain" => pc' # "drain") /\ (pc = "end" => pc' = "end")
  /\ pc' = "step" /\ pc # "step" => now < MaxNow

LEMMA LiveStep ==
  ASSUME Types, [Next]_vars, Live'
  PROVE  \/ Starts \/ Steps \/ Turns
         \/ Live /\ Records /\ UNCHANGED <<now, began, applied, cameraVars>>
         \/ Live /\ RecorderThread
         \/ Live /\ CameraThread
<1> USE DEF Types, Live, Moves, Goto, StopThen
<1>1. \A unfinished : ~ RaiseAfter(unfinished)
  BY DEF RaiseAfter
<1>2. CASE Reset \/ NextEpisode
  BY <1>1, <1>2 DEF Reset, NextEpisode, PhaseInv, Raise
<1>3. CASE Finalizes \/ LoopEnds
  BY <1>3 DEF Finalizes, LoopEnds
<1>4. CASE GoesOn
  BY <1>4 DEF GoesOn, Turns, frameVars, recorderVars, collectorVars
<1>5. CASE \E key \in Keys : Leaves(key)
  BY <1>5 DEF Leaves, Ending, Turns, frameVars, StopRecorder, collectorVars
<1>6. CASE Start
  <2>1. pc = "loop" /\ ~ recording /\ ~ Raise
    BY <1>1, <1>6, Zenon DEF Start, Raise
  <2>2. /\ now' = now + 1 /\ now + 2 <= MaxNow /\ began' = now' /\ pc' = "step"
        /\ StartRecorder /\ StartEpisode /\ Read
        /\ shown' = IF Fresh # None THEN Fresh ELSE shown
    BY <1>6, <2>1 DEF Start
  <2>3. ~ episode_active /\ buffer' = buffer
    BY <2>2, Zenon DEF StartEpisode
  <2>4. buffer = <<>>
    BY <2>3, Zenon DEF PhaseInv
  <2>5. ~ Live
    BY <2>1
  <2> QED
    BY <2>2, <2>3, <2>4, <2>5, Zenon DEF Starts
<1>7. CASE Preview
  <2>1. pc = "loop" /\ ~ recording /\ UNCHANGED <<pc, recording>>
    BY <1>1, <1>7, Zenon DEF Preview, Raise
  <2> QED
    BY <2>1
<1>8. CASE Step
  BY <1>1, <1>8 DEF Step, Steps, collectorVars, Raise
<1>9. CASE Records
  BY <1>9 DEF Records, RecordDrained, RecordStep
<1>10. CASE DrainFrames \/ EndRecording
  <2>1. CASE EndsRound /\ pc = "drain" /\ queue = <<>>
             /\ UNCHANGED <<now, cameraVars, recorderVars, collectorVars>>
    BY <2>1 DEF EndsRound, Turns, frameVars, recorderVars, collectorVars
  <2>2. ~ Moves("ask")
    OBVIOUS
  <2> QED
    BY <1>1, <1>9, <1>10, <2>1, <2>2, Zenon DEF DrainFrames, EndRecording,
       Records, Raise
<1>11. CASE JoinRecorder
  BY <1>11 DEF JoinRecorder, LoopTypes, Turns, frameVars, recorderVars,
     collectorVars
<1>12. CASE Discard \/ WaitSuccess
  BY <1>1, <1>12 DEF Discard, WaitSuccess, Raise
<1>13. CASE Save \/ Annotate
  BY <1>1, <1>13 DEF Save, Annotate, Raise
<1>14. CASE Interrupt
  BY <1>14 DEF Interrupt, Turns, frameVars, recorderVars, collectorVars
<1>15. CASE Resume
  BY <1>15 DEF Resume
<1>16. CASE RecorderThread \/ CameraThread
  BY <1>16 DEF RecorderThread, CameraThread, loopVars
<1>17. CASE UNCHANGED vars
  BY <1>17 DEF vars, loopVars, Turns, frameVars, recorderVars, collectorVars
<1> QED
  BY <1>2, <1>3, <1>4, <1>5, <1>6, <1>7, <1>8, <1>9, <1>10, <1>11, <1>12,
     <1>13, <1>14, <1>15, <1>16, <1>17, Zenon DEF Next, Main

LEMMA ClockStep ==
  ASSUME Types, [Next]_vars
  PROVE  ClockInv'
<1> USE ConstantTypes DEF Types, ClockInv
<1>1. pc' = "step" => Live'
  BY DEF Live
<1>2. SUFFICES ASSUME Live' PROVE ClockInv'
  BY <1>1
<1>3. now \in Nat
  BY DEF LoopTypes
<1>4. CASE Starts
  BY <1>3, <1>4 DEF Starts
<1>5. CASE Steps
  BY <1>5 DEF Steps
<1>6. CASE Turns
  BY <1>6 DEF Turns, frameVars
<1>7. CASE Live /\ Records /\ UNCHANGED <<now, began, applied, cameraVars>>
  <2>1. pc # "step" /\ pc' # "step"
    BY <1>7 DEF Records, RecordDrained, RecordStep, Goto
  <2> QED
    BY <1>7, <2>1
<1>8. CASE Live /\ (RecorderThread \/ CameraThread)
  BY <1>8 DEF RecorderThread, CameraThread, loopVars
<1> QED
  BY <1>2, <1>4, <1>5, <1>6, <1>7, <1>8, LiveStep, Zenon

LEMMA TypesStep ==
  ASSUME Types, [Next]_vars
  PROVE  Types'
<1>1. CameraTypes' /\ RecorderTypes' /\ DataTypes' /\ LoopTypes'
  BY CameraTypesStep, RecorderTypesStep, DataTypesStep, LoopTypesStep, Zenon
<1>2. Flags' /\ ThreadInv' /\ PhaseInv' /\ ClockInv'
  BY FlagsStep, PhaseStep, ClockStep, Zenon
<1> QED
  BY <1>1, <1>2, Zenon DEF Types

-----------------------------------------------------------------------------
(* The order of the images. *)

LEMMA CameraInvStep ==
  ASSUME Types, CameraInv, [Next]_vars
  PROVE  CameraInv'
<1> USE ConstantTypes DEF Types, CameraTypes, CameraInv, Images
<1>1. CASE UNCHANGED cameraVars
  BY <1>1 DEF cameraVars
<1>2. CASE Read \/ ReadNowait
  BY <1>2 DEF Read, ReadNowait, Fresh
<1>3. CASE Captures
  BY <1>3 DEF Captures
<1>4. CASE CameraInit'
  BY <1>4 DEF CameraInit
<1> QED
  BY <1>1, <1>2, <1>3, <1>4, CameraSteps

\* The frames that are read get no older but by a new session.
LEMMA LastFrameStep ==
  ASSUME Types, CameraInv, [Next]_vars
  PROVE  \/ Resume
         \/ /\ last_frame \in Int /\ last_frame' \in Int
            /\ last_frame <= last_frame'
<1> USE ConstantTypes DEF Types, CameraTypes, CameraInv, Images, Fresh
<1>1. CASE UNCHANGED cameraVars
  BY <1>1 DEF cameraVars
<1>2. CASE Read \/ ReadNowait
  BY <1>2 DEF Read, ReadNowait
<1>3. CASE Captures
  BY <1>3 DEF Captures
<1> QED
  BY <1>1, <1>2, <1>3, CameraSteps

LEMMA ShownSteps ==
  ASSUME [Next]_vars
  PROVE  \/ shown' = shown \/ shown' = None
         \/ Read /\ shown' = IF Fresh # None THEN Fresh ELSE shown
         \/ Records
<1>1. Reset \/ NextEpisode \/ Finalizes \/ LoopEnds \/ Preview \/ GoesOn \/ Step
        => \/ shown' = shown \/ shown' = None
           \/ Read /\ shown' = IF Fresh # None THEN Fresh ELSE shown
  BY Zenon DEF Reset, NextEpisode, Finalizes, LoopEnds, Preview, GoesOn, Step,
     Raise, RaiseAfter, Moves, StopThen
<1>2. DrainFrames \/ EndRecording => shown' = shown \/ Records
  BY Zenon DEF DrainFrames, EndRecording, Raise, RaiseAfter, Moves, EndsRound,
     Records
<1>3. JoinRecorder \/ Discard \/ WaitSuccess \/ Interrupt \/ Save \/ Annotate
        => shown' = shown
  BY Zenon DEF JoinRecorder, Discard, WaitSuccess, Interrupt, Save, Annotate,
     Raise, RaiseAfter, Moves, StopThen
<1>4. Start => \/ shown' = shown
               \/ Read /\ shown' = IF Fresh # None THEN Fresh ELSE shown
  BY Zenon DEF Start, Raise, RaiseAfter, Moves
<1>5. (\E key \in Keys : Leaves(key)) => shown' = shown
  BY Zenon DEF Leaves
<1>6. Resume => shown' = None
  BY Zenon DEF Resume
<1>7. CameraThread \/ RecorderThread \/ UNCHANGED vars => shown' = shown
  BY DEF CameraThread, RecorderThread, vars, loopVars
<1> QED
  BY <1>1, <1>2, <1>3, <1>4, <1>5, <1>6, <1>7, Zenon DEF Next, Main

-----------------------------------------------------------------------------
(* What the steps do to the frames. *)

LEMMA FrameTypes ==
  ASSUME Types
  PROVE  /\ now \in Int /\ began \in Int /\ shown \in Int /\ last_images \in Int
         /\ images \in Int /\ obs \in Int /\ applied \in Int /\ kept \in Nat
         /\ None <= shown /\ None <= last_images /\ Fresh \in Int
         /\ None <= Fresh /\ Len(queue) \in Nat /\ Len(buffer) \in Nat
         /\ DOMAIN buffer = 1 .. Len(buffer)
         /\ \A i \in 1 .. Len(queue) :
              /\ queue[i].obs \in Int /\ queue[i].put \in Nat
              /\ queue[i].image \in Int /\ None <= queue[i].image
         /\ \A i \in 1 .. Len(buffer) :
              /\ buffer[i].obs \in Int /\ buffer[i].put \in Int
              /\ buffer[i].image \in Int /\ buffer[i].action \in Int
<1> USE ConstantTypes
<1>1. /\ now \in Int /\ began \in Int /\ shown \in Int /\ last_images \in Int
      /\ images \in Int /\ obs \in Int /\ applied \in Int /\ kept \in Nat
      /\ None <= shown /\ None <= last_images
  BY DEF Types, LoopTypes, RecorderTypes, Times, Images
<1>2. Fresh \in Int /\ None <= Fresh
  BY FreshType DEF Images
<1>3. /\ Len(queue) \in Nat /\ Len(buffer) \in Nat
      /\ DOMAIN buffer = 1 .. Len(buffer)
  BY LenProperties DEF Types, RecorderTypes, DataTypes
<1>4. ASSUME NEW i \in 1 .. Len(queue)
      PROVE  /\ queue[i].obs \in Int /\ queue[i].put \in Nat
             /\ queue[i].image \in Int /\ None <= queue[i].image
  <2>1. queue[i] \in Queued
    BY <1>4, ElementOfSeq DEF Types, RecorderTypes
  <2> QED
    BY <2>1 DEF Queued, Images
<1>5. ASSUME NEW i \in 1 .. Len(buffer)
      PROVE  /\ buffer[i].obs \in Int /\ buffer[i].put \in Int
             /\ buffer[i].image \in Int /\ buffer[i].action \in Int
  <2>1. buffer[i] \in Framed
    BY <1>5, ElementOfSeq DEF Types, DataTypes
  <2> QED
    BY <2>1 DEF Framed, Images, Times
<1> QED
  BY <1>1, <1>2, <1>3, <1>4, <1>5

\* The frame at the end of the episode, after one is recorded.
Longer(o, p, image) ==
  /\ Len(buffer') = Len(buffer) + 1
  /\ DOMAIN buffer' = 1 .. Len(buffer) + 1
  /\ \A i \in 1 .. Len(buffer) : buffer'[i] = buffer[i]
  /\ buffer'[Len(buffer) + 1] = Frame(o, p, image)

LEMMA LongerBy ==
  ASSUME Types, NEW o \in 0 .. MaxNow, NEW p \in Times, NEW image \in Images,
         applied \in 0 .. MaxNow, buffer' = Append(buffer, Frame(o, p, image))
  PROVE  Longer(o, p, image)
<1>1. Frame(o, p, image) \in Framed
  BY DEF Frame, Framed
<1> QED
  BY <1>1, AppendOf DEF Types, DataTypes, Longer

LEMMA DrainedFrame ==
  ASSUME Types, Records, RecordDrained
  PROVE  /\ Len(queue) >= 1 /\ Len(queue') = Len(queue) - 1
         /\ \A i \in 1 .. Len(queue) - 1 : queue'[i] = queue[i + 1]
         /\ ImageToUse =
              IF queue[1].image # None THEN queue[1].image ELSE shown
         /\ IF pc = "end" THEN shown' = shown ELSE shown' = ImageToUse
         /\ Longer(queue[1].obs, queue[1].put, ImageToUse)
         /\ UNCHANGED <<thread, obs, images, last_images, kept, cameraVars,
                        now, began, applied, pc, then, recording>>
<1> USE ConstantTypes
<1>1. /\ queue # <<>> /\ queue' = Tail(queue) /\ queue \in Seq(Queued)
      /\ UNCHANGED <<thread, obs, images, last_images, kept>>
  BY DEF RecordDrained, Drain, Types, RecorderTypes
<1>2. /\ queue[1] \in Queued /\ Head(queue) = queue[1]
      /\ Len(queue) \in Nat \ {0} /\ Len(queue') = Len(queue) - 1
      /\ \A i \in 1 .. Len(queue) - 1 : queue'[i] = queue[i + 1]
  BY <1>1, TailOf
<1>3. /\ ImageToUse = IF queue[1].image # None THEN queue[1].image ELSE shown
      /\ buffer' = Append(buffer,
                          Frame(queue[1].obs, queue[1].put, ImageToUse))
      /\ UNCHANGED <<cameraVars, now, began, applied, pc, then, recording>>
  BY <1>2 DEF RecordDrained, RecordFrame, ImageToUse
<1>4. IF pc = "end" THEN shown' = shown ELSE shown' = ImageToUse
  BY <1>1 DEF Records
<1>5. /\ queue[1].obs \in 0 .. MaxNow /\ queue[1].put \in Times
      /\ ImageToUse \in Images
  BY <1>2, <1>3 DEF Queued, Times, Types, LoopTypes
<1>6. applied \in 0 .. MaxNow
  <2>1. applied = now
    BY DEF Records, Types, ClockInv, Live
  <2> QED
    BY <2>1 DEF Types, LoopTypes
<1>7. Longer(queue[1].obs, queue[1].put, ImageToUse)
  BY <1>3, <1>5, <1>6, LongerBy
<1> QED
  BY <1>1, <1>2, <1>3, <1>4, <1>7

LEMMA SteppedFrame ==
  ASSUME Types, Records, ~ RecordDrained
  PROVE  /\ Len(queue) = 0 /\ pc = "drain" /\ pc' = "loop"
         /\ shown' = IF last_images # None THEN last_images ELSE shown
         /\ Longer(now, None, shown')
         /\ UNCHANGED <<recorderVars, cameraVars, now, began, applied>>
<1> USE ConstantTypes
<1>1. /\ pc = "drain" /\ queue = <<>> /\ pc' = "loop"
      /\ shown' = IF last_images # None THEN last_images ELSE shown
      /\ buffer' = Append(buffer, Frame(now, None, shown'))
      /\ UNCHANGED <<recorderVars, cameraVars, now, began, applied>>
  BY DEF Records, RecordStep, RecordFrame, Goto
<1>2. Len(queue) = 0
  BY <1>1, EmptySeq
<1>3. None \in Times /\ now \in 0 .. MaxNow /\ shown' \in Images
  BY RecordTypes DEF Types, LoopTypes, Times
<1>4. applied \in 0 .. MaxNow
  <2>1. applied = now
    BY <1>1 DEF Types, ClockInv, Live
  <2> QED
    BY <2>1 DEF Types, LoopTypes
<1>5. Longer(now, None, shown')
  BY <1>1, <1>3, <1>4, LongerBy
<1> QED
  BY <1>1, <1>2, <1>5

LEMMA PutFrame ==
  ASSUME Types, PutsFrame
  PROVE  /\ thread = "put" /\ thread' = "read"
         /\ UNCHANGED <<last_images, cameraVars>>
         /\ \/ UNCHANGED <<queue, kept>>
            \/ /\ kept' = kept + 1 /\ Len(queue') = Len(queue) + 1
               /\ \A i \in 1 .. Len(queue) : queue'[i] = queue[i]
               /\ queue'[Len(queue) + 1] =
                    [obs |-> obs, put |-> now, image |-> images]
<1> USE ConstantTypes
<1> DEFINE pair == [obs |-> obs, put |-> now, image |-> images]
<1>1. pair \in Queued
  BY DEF PutsFrame, Queued, Times, Types, RecorderTypes, LoopTypes
<1>2. CASE queue' = Append(queue, pair) /\ kept' = kept + 1
  <2>1. /\ Len(queue') = Len(queue) + 1 /\ queue'[Len(queue) + 1] = pair
        /\ \A i \in 1 .. Len(queue) : queue'[i] = queue[i]
    BY <1>1, <1>2, AppendOf DEF Types, RecorderTypes
  <2> QED
    BY <1>2, <2>1 DEF PutsFrame
<1> QED
  BY <1>2 DEF PutsFrame

-----------------------------------------------------------------------------
(* The order of the images. *)

LEMMA ImagesBounded ==
  ASSUME Types, CameraInv, ImagesInv, [Next]_vars
  PROVE  /\ last_images' <= last_frame' /\ shown' <= last_frame'
         /\ thread' = "put" => images' = last_images'
<1> USE ConstantTypes DEF ImagesInv
<1>1. CASE Resume
  BY <1>1 DEF Resume
<1>2. CASE ~ Resume
  <2>1. /\ last_frame \in Int /\ last_frame' \in Int
        /\ last_frame <= last_frame' /\ None <= last_frame'
    BY <1>2, LastFrameStep, CameraTypesStep DEF CameraTypes, Images
  <2>a. Fresh \in Int /\ None <= Fresh /\ last_frame <= Fresh
    BY <2>1, FrameTypes DEF CameraInv, Fresh
  <2>2. /\ last_images' <= last_frame'
        /\ thread' = "put" => images' = last_images'
    <3>1. CASE UNCHANGED recorderVars \/ StopRecorder \/ Drain
      BY <2>1, <3>1, FrameTypes DEF recorderVars, StopRecorder, Drain
    <3>2. CASE StartRecorder \/ ReadsState
      BY <2>1, <3>2, FrameTypes DEF StartRecorder, ReadsState
    <3>3. CASE ReadsImages
      BY <2>1, <2>a, <3>3, FrameTypes DEF ReadsImages, ReadNowait
    <3>4. CASE PutsFrame \/ Ends
      BY <2>1, <3>4, FrameTypes DEF PutsFrame, Ends
    <3> QED
      BY <1>2, <3>1, <3>2, <3>3, <3>4, RecorderSteps, Zenon DEF Recorder
  <2>3. shown' <= last_frame'
    <3>1. CASE \/ shown' = shown \/ shown' = None
               \/ Read /\ shown' = IF Fresh # None THEN Fresh ELSE shown
      BY <2>1, <2>a, <3>1, FrameTypes DEF Read
    <3>2. CASE Records
      <4>1. Live
        BY <3>2 DEF Records, Live
      <4>2. CASE RecordDrained
        <5>1. /\ Len(queue) >= 1
              /\ shown' \in {shown, IF queue[1].image # None
                                    THEN queue[1].image ELSE shown}
          BY <3>2, <4>2, DrainedFrame
        <5>2. 1 \in 1 .. Len(queue)
          BY <5>1, FrameTypes
        <5>3. queue[1].image <= last_images /\ queue[1].image \in Int
          BY <4>1, <5>2, FrameTypes
        <5>4. /\ last_images <= last_frame /\ shown <= last_frame
              /\ last_images \in Int /\ shown \in Int
          BY FrameTypes DEF ImagesInv
        <5>5. shown' <= last_frame /\ shown' \in Int
          BY <2>1, <5>1, <5>3, <5>4
        <5> QED
          BY <2>1, <5>5
      <4>3. CASE ~ RecordDrained
        BY <2>1, <3>2, <4>3, SteppedFrame, FrameTypes
      <4> QED
        BY <4>2, <4>3
    <3> QED
      BY <3>1, <3>2, ShownSteps
  <2> QED
    BY <2>2, <2>3
<1> QED
  BY <1>1, <1>2

LEMMA ImagesStep ==
  ASSUME Types, CameraInv, ImagesInv, [Next]_vars
  PROVE  ImagesInv'
<1> USE ConstantTypes
<1>1. SUFFICES ASSUME Live'
      PROVE  /\ \A i \in 1 .. Len(queue') : shown' <= queue'[i].image
                  /\ queue'[i].image <= last_images'
             /\ \A i, j \in 1 .. Len(queue') :
                  i < j => queue'[i].image <= queue'[j].image
             /\ thread' = "put" => shown' <= images'
             /\ buffer' # <<>> => shown' <= last_images' \/ last_images' = None
             /\ pc' # "end" =>
                  \A i \in 1 .. Len(buffer') : buffer'[i].image <= shown'
             /\ \A i \in 1 .. Len(buffer'), j \in 1 .. Len(queue') :
                  buffer'[i].image <= queue'[j].image
  BY ImagesBounded DEF ImagesInv
<1>2. CASE Starts
  <2>1. buffer' = <<>> /\ queue' = <<>> /\ thread' = "read"
    BY <1>2 DEF Starts, StartRecorder
  <2>2. 1 .. Len(buffer') = {} /\ 1 .. Len(queue') = {}
    BY <2>1, EmptySeq
  <2> QED
    BY <2>1, <2>2
<1>3. CASE Steps \/ Turns
  BY <1>3 DEF Steps, Turns, frameVars, recorderVars, ImagesInv
<1>4. CASE Live /\ Records /\ RecordDrained
  <2>1. /\ Len(queue) >= 1 /\ Len(queue') = Len(queue) - 1
        /\ \A i \in 1 .. Len(queue) - 1 : queue'[i] = queue[i + 1]
        /\ ImageToUse = IF queue[1].image # None THEN queue[1].image ELSE shown
        /\ IF pc = "end" THEN shown' = shown ELSE shown' = ImageToUse
        /\ Longer(queue[1].obs, queue[1].put, ImageToUse)
        /\ UNCHANGED <<thread, images, last_images, pc>>
    BY <1>4, DrainedFrame
  <2>2. /\ 1 \in 1 .. Len(queue) /\ queue[1].image \in Int
        /\ shown <= queue[1].image /\ queue[1].image <= last_images
        /\ None <= queue[1].image /\ ImageToUse = queue[1].image
    BY <1>4, <2>1, FrameTypes DEF ImagesInv
  <2>a. /\ shown \in Int /\ shown' \in Int /\ ImageToUse \in Int
        /\ shown <= shown' /\ shown' <= ImageToUse
        /\ pc' # "end" => shown' = ImageToUse
    <3>1. shown \in Int /\ pc' = pc
      BY <2>1, FrameTypes
    <3>2. shown' = shown \/ shown' = ImageToUse
      BY <2>1
    <3>3. pc' # "end" => shown' = ImageToUse
      BY <2>1, <3>1
    <3> QED
      BY <2>2, <3>1, <3>2, <3>3
  <2>b. ASSUME NEW i \in 1 .. Len(queue')
        PROVE  /\ i + 1 \in 1 .. Len(queue) /\ 1 < i + 1
               /\ queue'[i] = queue[i + 1] /\ queue'[i].image \in Int
    <3>1. i \in 1 .. Len(queue) - 1
      BY <2>1
    <3>2. i + 1 \in 1 .. Len(queue) /\ 1 < i + 1
      BY <3>1, FrameTypes
    <3>3. queue'[i] = queue[i + 1]
      BY <2>1, <3>1
    <3> QED
      BY <3>2, <3>3, FrameTypes
  <2>c. /\ \A i, j \in 1 .. Len(queue) :
             i < j => queue[i].image <= queue[j].image
        /\ \A i \in 1 .. Len(queue) : queue[i].image <= last_images
        /\ \A i \in 1 .. Len(buffer) :
             buffer[i].image <= queue[1].image /\ buffer[i].image \in Int
    BY <1>4, <2>2, FrameTypes DEF ImagesInv
  <2>3. /\ \A i \in 1 .. Len(queue') : shown' <= queue'[i].image
             /\ queue'[i].image <= last_images'
        /\ \A i, j \in 1 .. Len(queue') :
             i < j => queue'[i].image <= queue'[j].image
    <3>4. ASSUME NEW i \in 1 .. Len(queue')
          PROVE  shown' <= queue'[i].image /\ queue'[i].image <= last_images'
      <4>1. /\ queue[1].image <= queue'[i].image /\ queue'[i].image \in Int
            /\ queue'[i].image <= last_images
        BY <2>2, <2>b, <2>c
      <4> QED
        BY <2>1, <2>2, <2>a, <4>1
    <3>5. ASSUME NEW i \in 1 .. Len(queue'), NEW j \in 1 .. Len(queue'), i < j
          PROVE  queue'[i].image <= queue'[j].image
      <4>1. i + 1 < j + 1
        BY <3>5, FrameTypes, <2>1
      <4> QED
        BY <2>b, <2>c, <4>1
    <3> QED
      BY <3>4, <3>5
  <2>d. \A i \in 1 .. Len(buffer') :
          buffer'[i].image <= ImageToUse /\ buffer'[i].image \in Int
    <3>0. /\ Len(buffer') = Len(buffer) + 1
          /\ \A i \in 1 .. Len(buffer) : buffer'[i] = buffer[i]
          /\ buffer'[Len(buffer) + 1].image = ImageToUse
      BY <2>1 DEF Longer, Frame
    <3>1. \A i \in 1 .. Len(buffer) :
            buffer'[i].image <= ImageToUse /\ buffer'[i].image \in Int
      BY <3>0, <2>2, <2>c
    <3>2. \A i \in 1 .. Len(buffer') :
            i \in 1 .. Len(buffer) \/ i = Len(buffer) + 1
      <4>1. Len(buffer) \in Nat
        BY FrameTypes
      <4> QED
        BY <3>0, <4>1
    <3> QED
      BY <3>0, <3>1, <3>2, <2>a
  <2>4. pc' # "end" => \A i \in 1 .. Len(buffer') : buffer'[i].image <= shown'
    BY <2>a, <2>d
  <2>e. ASSUME NEW i \in 1 .. Len(buffer'), NEW j \in 1 .. Len(queue')
        PROVE  buffer'[i].image <= queue'[j].image
    <3>1. buffer'[i].image <= queue[1].image /\ buffer'[i].image \in Int
      BY <2>2, <2>d
    <3>2. queue[1].image <= queue'[j].image /\ queue'[j].image \in Int
      BY <2>2, <2>b, <2>c
    <3> QED
      BY <2>2, <3>1, <3>2
  <2>5. thread' = "put" => shown' <= images'
    <3>1. thread = "put" => images = last_images
      BY DEF ImagesInv
    <3> QED
      BY <2>1, <2>2, <2>a, <3>1, FrameTypes
  <2>6. shown' <= last_images'
    BY <2>1, <2>2, <2>a, FrameTypes
  <2> QED
    BY <2>3, <2>4, <2>5, <2>6, <2>e
<1>5. CASE Live /\ Records /\ ~ RecordDrained
  <2>1. /\ Len(queue) = 0 /\ pc = "drain"
        /\ shown' = IF last_images # None THEN last_images ELSE shown
        /\ Longer(now, None, shown')
        /\ UNCHANGED <<thread, images, queue, last_images>>
    BY <1>5, SteppedFrame DEF recorderVars
  <2>2. buffer # <<>> => shown <= shown'
    BY <1>5, <2>1, FrameTypes DEF ImagesInv
  <2>3. \A i \in 1 .. Len(buffer) : buffer # <<>>
    <3>1. buffer = <<>> => Len(buffer) = 0
      BY EmptySeq
    <3> QED
      BY <3>1
  <2>4. \A i \in 1 .. Len(buffer') : buffer'[i].image <= shown'
    <3>1. \A i \in 1 .. Len(buffer) : buffer[i].image <= shown
      BY <1>5, <2>1 DEF ImagesInv
    <3>a. /\ Len(buffer') = Len(buffer) + 1
          /\ \A i \in 1 .. Len(buffer) : buffer'[i] = buffer[i]
          /\ buffer'[Len(buffer) + 1].image = shown'
      BY <2>1 DEF Longer, Frame
    <3>b. shown \in Int /\ shown' \in Int /\ Len(buffer) \in Nat
      <4>1. shown \in Int /\ last_images \in Int /\ Len(buffer) \in Nat
        BY FrameTypes
      <4> QED
        BY <2>1, <4>1
    <3>2. ASSUME NEW i \in 1 .. Len(buffer)
          PROVE  buffer'[i].image <= shown'
      <4>1. buffer[i].image \in Int /\ buffer[i].image <= shown
        BY <3>1, FrameTypes
      <4>2. shown <= shown' /\ buffer'[i] = buffer[i]
        BY <2>2, <2>3, <3>a
      <4> QED
        BY <3>b, <4>1, <4>2
    <3>3. \A i \in 1 .. Len(buffer') :
            i \in 1 .. Len(buffer) \/ i = Len(buffer) + 1
      BY <3>a, <3>b
    <3> QED
      BY <3>a, <3>b, <3>2, <3>3
  <2>5. thread' = "put" => shown' <= images'
    BY <1>5, <2>1, FrameTypes DEF ImagesInv
  <2>6. shown' <= last_images' \/ last_images' = None
    BY <2>1, FrameTypes
  <2> QED
    BY <2>1, <2>4, <2>5, <2>6
<1>6. CASE Live /\ RecorderThread
  <2>1. UNCHANGED <<shown, buffer, pc>> /\ Recorder
    BY <1>6 DEF RecorderThread, loopVars, collectorVars
  <2>2. CASE ReadsState \/ Ends
    BY <1>6, <2>1, <2>2 DEF ReadsState, Ends, ImagesInv
  <2>3. CASE ReadsImages
    <3>1. /\ Fresh \in Int /\ None <= Fresh /\ shown <= Fresh
          /\ last_images \in Int /\ last_images <= Fresh
          /\ None <= last_images
      <4>1. last_frame \in Int /\ last_frame <= Fresh
        BY FrameTypes DEF CameraInv, CameraTypes, Images, Fresh, Types
      <4>2. last_images <= last_frame /\ shown <= last_frame
        BY DEF ImagesInv
      <4> QED
        BY <4>1, <4>2, FrameTypes
    <3>2. /\ images' = Fresh /\ UNCHANGED queue
          /\ last_images' = IF Fresh # None THEN Fresh ELSE last_images
      BY <2>3 DEF ReadsImages
    <3>3. last_images <= last_images' /\ last_images' \in Int
      BY <3>1, <3>2
    <3>4. \A i \in 1 .. Len(queue) : queue[i].image <= last_images'
      <4>1. \A i \in 1 .. Len(queue) :
              queue[i].image <= last_images /\ queue[i].image \in Int
        BY <1>6, FrameTypes DEF ImagesInv
      <4> QED
        BY <3>1, <3>3, <4>1
    <3>5. buffer # <<>> => shown <= last_images' \/ last_images' = None
      BY <3>1, <3>2
    <3> QED
      BY <1>6, <2>1, <3>1, <3>2, <3>4, <3>5 DEF ImagesInv
  <2>4. CASE PutsFrame
    <3>1. /\ thread = "put" /\ thread' = "read" /\ UNCHANGED last_images
          /\ images = last_images /\ shown <= images /\ pc # "end"
      BY <1>6, <2>4, PutFrame DEF ImagesInv, Types, ThreadInv
    <3>2. CASE UNCHANGED queue
      BY <1>6, <2>1, <3>1, <3>2 DEF ImagesInv
    <3>3. CASE /\ Len(queue') = Len(queue) + 1
               /\ \A i \in 1 .. Len(queue) : queue'[i] = queue[i]
               /\ queue'[Len(queue) + 1] =
                    [obs |-> obs, put |-> now, image |-> images]
      <4>1. /\ queue'[Len(queue) + 1].image = images
            /\ \A i \in 1 .. Len(queue) : queue'[i].image = queue[i].image
            /\ Len(queue') = Len(queue) + 1
        BY <3>3
      <4>5. \A i \in 1 .. Len(queue') :
              i \in 1 .. Len(queue) \/ i = Len(queue) + 1
        <5>1. Len(queue') = Len(queue) + 1 /\ Len(queue) \in Nat
          BY <4>1, FrameTypes
        <5> QED
          BY <5>1
      <4>2. \A i \in 1 .. Len(queue') : shown <= queue'[i].image
              /\ queue'[i].image <= last_images
        <5>1. \A i \in 1 .. Len(queue) :
                shown <= queue[i].image /\ queue[i].image <= last_images
          BY <1>6 DEF ImagesInv
        <5>2. shown <= images /\ images <= last_images
          <6>1. images \in Int
            BY FrameTypes
          <6> QED
            BY <3>1, <6>1
        <5> QED
          BY <3>1, <4>1, <4>5, <5>1, <5>2
      <4>3. ASSUME NEW i \in 1 .. Len(queue'), NEW j \in 1 .. Len(queue'), i < j
            PROVE  queue'[i].image <= queue'[j].image
        <5>1. i \in 1 .. Len(queue)
          <6>1. Len(queue') = Len(queue) + 1 /\ Len(queue) \in Nat
            BY <4>1, FrameTypes
          <6> QED
            BY <4>3, <6>1
        <5>2. CASE j \in 1 .. Len(queue)
          BY <1>6, <4>1, <4>3, <5>1, <5>2 DEF ImagesInv
        <5>3. CASE j = Len(queue) + 1
          BY <1>6, <3>1, <4>1, <5>1, <5>3 DEF ImagesInv
        <5> QED
          BY <4>1, <5>2, <5>3, FrameTypes
      <4>4. /\ buffer # <<>> => shown <= last_images \/ last_images = None
            /\ \A i \in 1 .. Len(buffer) : buffer[i].image <= shown
        BY <1>6, <3>1 DEF ImagesInv
      <4>6. ASSUME NEW i \in 1 .. Len(buffer), NEW j \in 1 .. Len(queue')
            PROVE  buffer[i].image <= queue'[j].image
        <5>1. CASE j \in 1 .. Len(queue)
          BY <1>6, <4>1, <5>1 DEF ImagesInv
        <5>2. CASE j = Len(queue) + 1
          <6>1. /\ buffer[i].image \in Int /\ shown \in Int
                /\ images \in Int
            BY FrameTypes
          <6> QED
            BY <3>1, <4>1, <4>4, <5>2, <6>1
        <5> QED
          BY <4>5, <5>1, <5>2
      <4> QED
        BY <2>1, <3>1, <4>2, <4>3, <4>4, <4>6
    <3> QED
      BY <2>4, <3>2, <3>3, PutFrame
  <2> QED
    BY <2>1, <2>2, <2>3, <2>4 DEF Recorder
<1>7. CASE Live /\ CameraThread
  BY <1>7 DEF CameraThread, recorderVars, collectorVars, loopVars, ImagesInv
<1> QED
  BY <1>1, <1>2, <1>3, <1>4, <1>5, <1>6, <1>7, LiveStep

-----------------------------------------------------------------------------
(* The order of the observations. *)

\* The clock does not go back, and a recording starts without frames.
LEMMA ClockSteps ==
  ASSUME Types, [Next]_vars
  PROVE  /\ now' = now \/ now' = now + 1
         /\ began' = began \/ buffer' = <<>>
<1> USE DEF Types, Moves, Goto, StopThen
<1>1. \A unfinished : RaiseAfter(unfinished) => UNCHANGED <<now, began>>
  BY Zenon DEF RaiseAfter
<1>2. Reset \/ NextEpisode \/ Finalizes \/ LoopEnds \/ Preview \/ GoesOn
        => UNCHANGED <<now, began>>
  BY <1>1, Zenon DEF Reset, NextEpisode, Finalizes, LoopEnds, Preview, GoesOn,
     Raise
<1>3. Step => now' \in {now, now + 1} /\ UNCHANGED began
  BY <1>1 DEF Step, Raise
<1>4. Start => now' \in {now, now + 1} /\ (began' = began \/ buffer' = <<>>)
  <2>1. CASE Start /\ Raise
    BY <1>1, <2>1 DEF Raise
  <2>2. CASE Start /\ ~ Raise
    <3>1. now' = now + 1 /\ StartEpisode
      BY <2>2 DEF Start
    <3>2. ~ episode_active /\ buffer' = buffer
      BY <3>1, Zenon DEF StartEpisode
    <3>3. buffer' = <<>>
      BY <3>2, Zenon DEF PhaseInv
    <3> QED
      BY <3>1, <3>3
  <2> QED
    BY <2>1, <2>2
<1>5. DrainFrames \/ EndRecording => UNCHANGED <<now, began>>
  BY <1>1, Zenon DEF DrainFrames, EndRecording, RecordDrained, RecordStep,
     EndsRound, Raise
<1>6. JoinRecorder \/ Discard \/ WaitSuccess \/ Interrupt \/ Save \/ Annotate
        => UNCHANGED <<now, began>>
  BY <1>1, Zenon DEF JoinRecorder, Discard, WaitSuccess, Interrupt, Save,
     Annotate, Raise
<1>7. (\E key \in Keys : Leaves(key)) => UNCHANGED <<now, began>>
  BY Zenon DEF Leaves
<1>8. Resume => now' = now /\ buffer' = <<>>
  BY DEF Resume, ResumeDataset
<1>9. CameraThread \/ RecorderThread \/ UNCHANGED vars
        => UNCHANGED <<now, began>>
  BY DEF CameraThread, RecorderThread, vars, loopVars
<1> QED
  BY <1>2, <1>3, <1>4, <1>5, <1>6, <1>7, <1>8, <1>9 DEF Next, Main

LEMMA ReadBeforeNow ==
  ASSUME Types, TimesInv, [Next]_vars
  PROVE  thread' \in {"images", "put"} => obs' <= now'
<1> USE DEF TimesInv
<1>1. now <= now' /\ now \in Int /\ now' \in Int
  BY ClockSteps, FrameTypes
<1>2. CASE UNCHANGED recorderVars \/ StopRecorder \/ Drain
  BY <1>1, <1>2, FrameTypes DEF recorderVars, StopRecorder, Drain
<1>3. CASE StartRecorder \/ PutsFrame \/ Ends \/ RecorderInit'
  BY <1>3 DEF StartRecorder, PutsFrame, Ends, RecorderInit
<1>4. CASE ReadsState \/ ReadsImages
  BY <1>1, <1>4, FrameTypes DEF ReadsState, ReadsImages
<1> QED
  BY <1>2, <1>3, <1>4, RecorderSteps, Zenon DEF Recorder

LEMMA TimesStep ==
  ASSUME Types, TimesInv, [Next]_vars
  PROVE  TimesInv'
<1> USE ConstantTypes
<1> DEFINE Reading == thread \in {"images", "put"}
<1>1. SUFFICES ASSUME Live'
      PROVE  /\ Reading' => began' <= obs'
             /\ \A i \in 1 .. Len(queue') :
                  /\ began' <= queue'[i].obs /\ queue'[i].obs <= now'
                  /\ Reading' => queue'[i].obs <= obs'
             /\ \A i, j \in 1 .. Len(queue') :
                  i < j => queue'[i].obs <= queue'[j].obs
             /\ \A i \in 1 .. Len(buffer') : Drained(i)' =>
                  /\ \A j \in 1 .. Len(queue') : buffer'[i].obs <= queue'[j].obs
                  /\ Reading' => buffer'[i].obs <= obs'
                  /\ buffer'[i].obs <= now'
  BY ReadBeforeNow DEF TimesInv
<1>2. CASE Starts
  <2>1. buffer' = <<>> /\ queue' = <<>> /\ thread' = "read"
    BY <1>2 DEF Starts, StartRecorder
  <2> QED
    BY <2>1, EmptySeq
<1>3. CASE Steps
  <2>1. now' = now + 1 /\ UNCHANGED <<thread, obs, queue, buffer, began>>
    BY <1>3 DEF Steps, recorderVars
  <2>2. Live
    BY <1>3 DEF Steps
  <2>3. /\ Reading => began <= obs
        /\ \A i \in 1 .. Len(queue) :
             /\ began <= queue[i].obs /\ queue[i].obs <= now
             /\ Reading => queue[i].obs <= obs
        /\ \A i, j \in 1 .. Len(queue) : i < j => queue[i].obs <= queue[j].obs
        /\ \A i \in 1 .. Len(buffer) : Drained(i) =>
             /\ \A j \in 1 .. Len(queue) : buffer[i].obs <= queue[j].obs
             /\ Reading => buffer[i].obs <= obs
             /\ buffer[i].obs <= now
    BY <2>2 DEF TimesInv
  <2>4. /\ \A i \in 1 .. Len(queue) : queue[i].obs <= now'
        /\ \A i \in 1 .. Len(buffer) : Drained(i) => buffer[i].obs <= now'
    <3>1. now \in Int /\ now' = now + 1
      BY <2>1, FrameTypes
    <3>2. \A i \in 1 .. Len(queue) :
            queue[i].obs \in Int /\ queue[i].obs <= now
      BY <2>3, FrameTypes
    <3>3. \A i \in 1 .. Len(buffer) :
            buffer[i].obs \in Int /\ (Drained(i) => buffer[i].obs <= now)
      BY <2>3, FrameTypes
    <3> QED
      BY <3>1, <3>2, <3>3
  <2>5. \A i \in DOMAIN buffer : Drained(i)' <=> Drained(i)
    BY <2>1 DEF Drained
  <2>6. (Reading' <=> Reading) /\ DOMAIN buffer = 1 .. Len(buffer)
    BY <2>1, FrameTypes
  <2> HIDE DEF Reading
  <2> QED
    BY <2>1, <2>3, <2>4, <2>5, <2>6
<1>4. CASE Turns
  BY <1>4 DEF Turns, frameVars, TimesInv, Drained
<1>5. CASE Live /\ Records /\ RecordDrained
  <2>1. /\ Len(queue) >= 1 /\ Len(queue') = Len(queue) - 1
        /\ \A i \in 1 .. Len(queue) - 1 : queue'[i] = queue[i + 1]
        /\ Longer(queue[1].obs, queue[1].put, ImageToUse)
        /\ UNCHANGED <<thread, obs, now, began>>
    BY <1>5, DrainedFrame
  <2>2. \A i \in 1 .. Len(queue') :
          queue'[i] = queue[i + 1] /\ i + 1 \in 1 .. Len(queue) /\ 1 < i + 1
    <3>1. Len(queue) \in Nat
      BY FrameTypes
    <3>2. Len(queue') = Len(queue) - 1
      BY <2>1
    <3>3. \A i \in 1 .. Len(queue') :
            i \in 1 .. Len(queue) - 1 /\ i + 1 \in 1 .. Len(queue) /\ 1 < i + 1
      BY <3>1, <3>2
    <3> QED
      BY <2>1, <3>3
  <2>3. 1 \in 1 .. Len(queue)
    BY <2>1, FrameTypes
  <2>4. /\ Reading => began <= obs
        /\ \A i \in 1 .. Len(queue) :
             /\ began <= queue[i].obs /\ queue[i].obs <= now
             /\ Reading => queue[i].obs <= obs
        /\ \A i, j \in 1 .. Len(queue) : i < j => queue[i].obs <= queue[j].obs
        /\ \A i \in 1 .. Len(buffer) : buffer[i].put # None =>
             /\ \A j \in 1 .. Len(queue) : buffer[i].obs <= queue[j].obs
             /\ Reading => buffer[i].obs <= obs
             /\ buffer[i].obs <= now
    BY <1>5 DEF TimesInv, Drained
  <2>5. /\ Reading' => began' <= obs'
        /\ \A i \in 1 .. Len(queue') :
             /\ began' <= queue'[i].obs /\ queue'[i].obs <= now'
             /\ Reading' => queue'[i].obs <= obs'
    BY <2>1, <2>2, <2>4
  <2>6. ASSUME NEW i \in 1 .. Len(queue'), NEW j \in 1 .. Len(queue'), i < j
        PROVE  queue'[i].obs <= queue'[j].obs
    <3>1. i + 1 < j + 1
      BY <2>6, <2>1, FrameTypes
    <3> QED
      BY <2>2, <2>4, <3>1
  <2>7. ASSUME NEW i \in 1 .. Len(buffer'), buffer'[i].put # None
        PROVE  /\ \A j \in 1 .. Len(queue') : buffer'[i].obs <= queue'[j].obs
               /\ Reading' => buffer'[i].obs <= obs'
               /\ buffer'[i].obs <= now'
    <3>1. CASE i \in 1 .. Len(buffer)
      <4>1. buffer'[i] = buffer[i]
        BY <2>1, <3>1 DEF Longer
      <4> QED
        BY <2>1, <2>2, <2>4, <2>7, <3>1, <4>1
    <3>2. CASE i = Len(buffer) + 1
      <4>1. buffer'[i].obs = queue[1].obs
        BY <2>1, <3>2 DEF Longer, Frame
      <4> QED
        BY <2>1, <2>2, <2>3, <2>4, <4>1
    <3>3. Len(buffer') = Len(buffer) + 1 /\ Len(buffer) \in Nat
      BY <2>1, FrameTypes DEF Longer
    <3>4. i \in 1 .. Len(buffer) \/ i = Len(buffer) + 1
      BY <3>3
    <3> QED
      BY <3>1, <3>2, <3>4
  <2> QED
    BY <2>5, <2>6, <2>7 DEF Drained
<1>6. CASE Live /\ Records /\ ~ RecordDrained
  <2>1. /\ Len(queue) = 0 /\ Longer(now, None, shown')
        /\ UNCHANGED <<thread, obs, queue, now, began>>
    BY <1>6, SteppedFrame DEF recorderVars
  <2>2. ASSUME NEW i \in 1 .. Len(buffer'), buffer'[i].put # None
        PROVE  buffer'[i] = buffer[i] /\ i \in 1 .. Len(buffer)
    <3>1. i # Len(buffer) + 1
      BY <2>1, <2>2 DEF Longer, Frame
    <3>2. i \in 1 .. Len(buffer)
      BY <2>1, <3>1, FrameTypes DEF Longer
    <3> QED
      BY <2>1, <3>2 DEF Longer
  <2> QED
    BY <1>6, <2>1, <2>2 DEF TimesInv, Drained
<1>7. CASE Live /\ RecorderThread
  <2>1. UNCHANGED <<now, began, buffer>> /\ Recorder
    BY <1>7 DEF RecorderThread, loopVars, collectorVars
  <2>2. CASE Ends
    BY <1>7, <2>1, <2>2 DEF Ends, TimesInv, Drained
  <2>3. CASE ReadsImages
    BY <1>7, <2>1, <2>3 DEF ReadsImages, TimesInv, Drained
  <2>4. CASE ReadsState
    BY <1>7, <2>1, <2>4 DEF ReadsState, TimesInv, Drained, Types, LoopTypes
  <2>5. CASE PutsFrame
    <3>1. Reading /\ ~ Reading'
      BY <2>5 DEF PutsFrame
    <3>2. CASE UNCHANGED queue
      BY <1>7, <2>1, <3>1, <3>2 DEF TimesInv, Drained
    <3>3. CASE /\ Len(queue') = Len(queue) + 1
               /\ \A i \in 1 .. Len(queue) : queue'[i] = queue[i]
               /\ queue'[Len(queue) + 1] =
                    [obs |-> obs, put |-> now, image |-> images]
      <4>1. /\ \A i \in 1 .. Len(queue) : queue'[i].obs = queue[i].obs
            /\ queue'[Len(queue) + 1].obs = obs
            /\ \A i \in 1 .. Len(queue') :
                 i \in 1 .. Len(queue) \/ i = Len(queue) + 1
        <5>1. Len(queue) \in Nat /\ Len(queue') = Len(queue) + 1
          BY <3>3, FrameTypes
        <5>2. \A i \in 1 .. Len(queue') :
                i \in 1 .. Len(queue) \/ i = Len(queue) + 1
          BY <5>1
        <5> QED
          BY <3>3, <5>2
      <4>2. \A i \in 1 .. Len(queue') :
              began <= queue'[i].obs /\ queue'[i].obs <= now
        BY <1>7, <3>1, <4>1 DEF TimesInv
      <4>3. ASSUME NEW i \in 1 .. Len(queue'), NEW j \in 1 .. Len(queue'), i < j
            PROVE  queue'[i].obs <= queue'[j].obs
        <5>1. i \in 1 .. Len(queue)
          BY <3>3, <4>3, FrameTypes
        <5>2. CASE j \in 1 .. Len(queue)
          BY <1>7, <4>1, <4>3, <5>1, <5>2 DEF TimesInv
        <5>3. CASE j = Len(queue) + 1
          BY <1>7, <3>1, <4>1, <5>1, <5>3 DEF TimesInv
        <5> QED
          BY <4>1, <5>2, <5>3
      <4>4. \A i \in 1 .. Len(buffer) : Drained(i) =>
              /\ \A j \in 1 .. Len(queue') : buffer[i].obs <= queue'[j].obs
              /\ buffer[i].obs <= now
        BY <1>7, <3>1, <4>1 DEF TimesInv
      <4> QED
        BY <2>1, <3>1, <4>2, <4>3, <4>4 DEF Drained
    <3> QED
      BY <2>5, <3>2, <3>3, PutFrame
  <2> QED
    BY <2>1, <2>2, <2>3, <2>4, <2>5 DEF Recorder
<1>8. CASE Live /\ CameraThread
  BY <1>8 DEF CameraThread, recorderVars, collectorVars, loopVars, TimesInv,
     Drained
<1> QED
  BY <1>1, <1>2, <1>3, <1>4, <1>5, <1>6, <1>7, <1>8, LiveStep

-----------------------------------------------------------------------------
(* Actions, and the number of frames. *)

LEMMA FitStep ==
  ASSUME Types, FitInv, [Next]_vars
  PROVE  FitInv'
<1> SUFFICES ASSUME Live', NEW i \in 1 .. Len(queue')
    PROVE  IF pc' = "drain" THEN queue'[i].put \in {now' - 1, now'}
           ELSE queue'[i].put = now'
  BY DEF FitInv
<1>1. CASE Starts
  BY <1>1, EmptySeq DEF Starts, StartRecorder
<1>2. CASE Steps
  <2>1. now' = now + 1 /\ queue' = queue /\ pc' = "drain"
    BY <1>2 DEF Steps, recorderVars
  <2>2. queue[i].put = now
    BY <1>2, <2>1 DEF Steps, FitInv
  <2> QED
    BY <2>1, <2>2, FrameTypes
<1>3. CASE Turns
  <2>1. now' = now /\ queue' = queue /\ Live
    BY <1>3 DEF Turns, frameVars
  <2>2. queue # <<>>
    BY <2>1, EmptySeq
  <2>3. pc = "drain" <=> pc' = "drain"
    BY <1>3, <2>2 DEF Turns
  <2> QED
    BY <2>1, <2>3 DEF FitInv
<1>4. CASE Live /\ Records /\ RecordDrained
  <2>1. /\ Len(queue) >= 1 /\ Len(queue') = Len(queue) - 1
        /\ \A j \in 1 .. Len(queue) - 1 : queue'[j] = queue[j + 1]
        /\ UNCHANGED <<pc, now>>
    BY <1>4, DrainedFrame
  <2>2. i + 1 \in 1 .. Len(queue) /\ queue'[i] = queue[i + 1]
    BY <2>1, FrameTypes
  <2> QED
    BY <1>4, <2>1, <2>2 DEF FitInv
<1>5. CASE Live /\ Records /\ ~ RecordDrained
  <2>1. Len(queue') = 0
    BY <1>5, SteppedFrame DEF recorderVars
  <2> QED
    BY <2>1
<1>6. CASE Live /\ RecorderThread
  <2>1. UNCHANGED <<now, pc>> /\ Recorder
    BY <1>6 DEF RecorderThread, loopVars
  <2>2. CASE UNCHANGED queue
    BY <1>6, <2>1, <2>2 DEF FitInv
  <2>3. CASE PutsFrame /\ ~ UNCHANGED queue
    <3>1. /\ Len(queue') = Len(queue) + 1
          /\ \A j \in 1 .. Len(queue) : queue'[j] = queue[j]
          /\ queue'[Len(queue) + 1].put = now
      BY <2>3, PutFrame
    <3>2. CASE i \in 1 .. Len(queue)
      BY <1>6, <2>1, <3>1, <3>2 DEF FitInv
    <3>3. CASE i = Len(queue) + 1
      BY <2>1, <3>1, <3>3
    <3> QED
      BY <3>1, <3>2, <3>3, FrameTypes
  <2> QED
    BY <2>1, <2>2, <2>3 DEF Recorder, ReadsState, ReadsImages, Ends
<1>7. CASE Live /\ CameraThread
  BY <1>7 DEF CameraThread, recorderVars, loopVars, FitInv
<1> QED
  BY <1>1, <1>2, <1>3, <1>4, <1>5, <1>6, <1>7, LiveStep

Taken == {i \in DOMAIN buffer : Drained(i)}

LEMMA TakenFinite ==
  ASSUME Types
  PROVE  IsFiniteSet(Taken) /\ Cardinality(Taken) \in Nat
<1>1. IsFiniteSet(1 .. Len(buffer))
  BY FrameTypes, FS_Interval
<1> QED
  BY <1>1, FrameTypes, FS_Subset, FS_CardinalityType DEF Taken

LEMMA TakenGrows ==
  ASSUME Types, NEW o, NEW p, NEW image, Longer(o, p, image)
  PROVE  /\ p # None => Cardinality(Taken') = Cardinality(Taken) + 1
         /\ p = None => Cardinality(Taken') = Cardinality(Taken)
<1>1. /\ DOMAIN buffer' = 1 .. Len(buffer) + 1
      /\ \A i \in 1 .. Len(buffer) : buffer'[i] = buffer[i]
      /\ buffer'[Len(buffer) + 1].put = p
  BY DEF Longer, Frame
<1>2. /\ DOMAIN buffer = 1 .. Len(buffer) /\ Len(buffer) \in Nat
      /\ Len(buffer) + 1 \notin 1 .. Len(buffer)
      /\ 1 .. Len(buffer) + 1 = (1 .. Len(buffer)) \union {Len(buffer) + 1}
  BY FrameTypes
<1>3. CASE p # None
  <2>1. Taken' = Taken \union {Len(buffer) + 1} /\ Len(buffer) + 1 \notin Taken
    BY <1>1, <1>2, <1>3 DEF Taken, Drained
  <2> QED
    BY <1>3, <2>1, TakenFinite, FS_AddElement
<1>4. CASE p = None
  <2>1. Taken' = Taken
    BY <1>1, <1>2, <1>4 DEF Taken, Drained
  <2> QED
    BY <1>4, <2>1
<1> QED
  BY <1>3, <1>4

LEMMA CountStep ==
  ASSUME Types, CountInv, [Next]_vars
  PROVE  CountInv'
<1> USE ConstantTypes
<1> SUFFICES ASSUME Live'
    PROVE  Cardinality(Taken') + Len(queue') = kept'
  BY DEF CountInv, Taken
<1>0. /\ Live => Cardinality(Taken) + Len(queue) = kept
      /\ Cardinality(Taken) \in Nat /\ Len(queue) \in Nat
  BY TakenFinite, FrameTypes DEF CountInv, Taken
<1>1. CASE Starts
  <2>1. kept' = 0 /\ Len(queue') = 0 /\ buffer' = <<>>
    BY <1>1, EmptySeq DEF Starts, StartRecorder
  <2>2. Taken' = {}
    BY <2>1 DEF Taken
  <2> QED
    BY <2>1, <2>2, FS_EmptySet
<1>2. CASE Steps \/ Turns
  BY <1>0, <1>2 DEF Steps, Turns, frameVars, recorderVars, Taken, Drained
<1>3. CASE Live /\ Records /\ RecordDrained
  <2>1. /\ Len(queue) >= 1 /\ Len(queue') = Len(queue) - 1 /\ kept' = kept
        /\ Longer(queue[1].obs, queue[1].put, ImageToUse)
    BY <1>3, DrainedFrame
  <2>2. queue[1].put # None
    BY <2>1, FrameTypes
  <2>3. Cardinality(Taken') = Cardinality(Taken) + 1
    BY <2>1, <2>2, TakenGrows
  <2> QED
    BY <1>0, <1>3, <2>1, <2>3
<1>4. CASE Live /\ Records /\ ~ RecordDrained
  <2>1. Longer(now, None, shown') /\ UNCHANGED <<queue, kept>>
    BY <1>4, SteppedFrame DEF recorderVars
  <2>2. Cardinality(Taken') = Cardinality(Taken)
    BY <2>1, TakenGrows
  <2> QED
    BY <1>0, <1>4, <2>1, <2>2
<1>5. CASE Live /\ RecorderThread
  <2>1. Taken' = Taken /\ Recorder
    BY <1>5 DEF RecorderThread, collectorVars, Taken, Drained
  <2>2. CASE UNCHANGED <<queue, kept>>
    BY <1>0, <1>5, <2>1, <2>2
  <2>3. CASE PutsFrame /\ ~ UNCHANGED <<queue, kept>>
    <3>1. Len(queue') = Len(queue) + 1 /\ kept' = kept + 1
      BY <2>3, PutFrame
    <3>2. Cardinality(Taken) + Len(queue) = kept
      BY <1>0, <1>5
    <3>3. Cardinality(Taken') = Cardinality(Taken)
      BY <2>1
    <3> QED
      BY <1>0, <3>1, <3>2, <3>3
  <2> QED
    BY <2>1, <2>2, <2>3 DEF Recorder, ReadsState, ReadsImages, Ends
<1>6. CASE Live /\ CameraThread
  BY <1>0, <1>6 DEF CameraThread, recorderVars, collectorVars, Taken, Drained
<1> QED
  BY <1>1, <1>2, <1>3, <1>4, <1>5, <1>6, LiveStep

-----------------------------------------------------------------------------
(* What the frames of an episode are. *)

LEMMA BufferSteps ==
  ASSUME Types, [Next]_vars
  PROVE  Records \/ buffer' = <<>> \/ UNCHANGED <<buffer, began>>
<1>1. Records \/ buffer' = <<>> \/ buffer' = buffer
  BY DatasetSteps DEF collectorVars, StartEpisode, DiscardEpisode, SaveEpisode,
     SaveAnnotation, Finalize, ResumeDataset
<1> QED
  BY <1>1, ClockSteps

LEMMA OrderStep ==
  ASSUME Types, ImagesInv, TimesInv, FramesInOrder, [Next]_vars
  PROVE  FramesInOrder'
<1> USE ConstantTypes
<1>1. CASE buffer' = <<>>
  <2>1. DOMAIN buffer' = {}
    BY <1>1
  <2> QED
    BY <2>1 DEF FramesInOrder
<1>2. CASE UNCHANGED <<buffer, began>>
  BY <1>2 DEF FramesInOrder, Drained
<1>3. CASE Records
  <2>1. Live
    BY <1>3 DEF Records, Live
  <2>2. PICK o \in Int, p \in Int, image \in Int :
          /\ Longer(o, p, image) /\ began <= o /\ began' = began
          /\ \A i \in 1 .. Len(buffer) :
               /\ buffer[i].image <= image
               /\ p # None /\ Drained(i) => buffer[i].obs <= o
    <3>1. CASE RecordDrained
      <4>1. /\ Len(queue) >= 1
            /\ Longer(queue[1].obs, queue[1].put, ImageToUse)
            /\ ImageToUse = IF queue[1].image # None THEN queue[1].image
                            ELSE shown
            /\ began' = began
        BY <1>3, <3>1, DrainedFrame
      <4>2. 1 \in 1 .. Len(queue)
        BY <4>1, FrameTypes
      <4>3. /\ queue[1].obs \in Int /\ queue[1].put \in Int
            /\ ImageToUse \in Int /\ ImageToUse = queue[1].image
            /\ began <= queue[1].obs
        <5>1. /\ queue[1].obs \in Int /\ queue[1].put \in Int
              /\ queue[1].image \in Int /\ None <= queue[1].image
              /\ shown \in Int /\ None <= shown
          BY <4>2, FrameTypes
        <5>2. shown <= queue[1].image
          BY <2>1, <4>2 DEF ImagesInv
        <5>3. began <= queue[1].obs
          BY <2>1, <4>2 DEF TimesInv
        <5> QED
          BY ConstantTypes, <4>1, <5>1, <5>2, <5>3
      <4>5. \A i \in 1 .. Len(buffer) : buffer[i].image <= ImageToUse
        BY <2>1, <4>2, <4>3 DEF ImagesInv
      <4>6. \A i \in 1 .. Len(buffer) :
              Drained(i) => buffer[i].obs <= queue[1].obs
        BY <2>1, <4>2 DEF TimesInv
      <4> QED
        BY <4>1, <4>3, <4>5, <4>6
    <3>2. CASE ~ RecordDrained
      <4>1. /\ Longer(now, None, shown') /\ began' = began /\ pc = "drain"
            /\ shown' = IF last_images # None THEN last_images ELSE shown
        BY <1>3, <3>2, SteppedFrame
      <4>2. began <= now /\ now \in Int /\ None \in Int /\ shown' \in Int
        BY <4>1, FrameTypes DEF Types, LoopTypes
      <4>3. ASSUME NEW i \in 1 .. Len(buffer) PROVE buffer[i].image <= shown'
        <5>1. buffer # <<>>
          BY <4>3, EmptySeq
        <5>2. /\ shown \in Int /\ buffer[i].image \in Int
              /\ last_images \in Int
          BY <4>3, FrameTypes
        <5>3. /\ shown <= last_images \/ last_images = None
              /\ buffer[i].image <= shown
          BY <2>1, <4>1, <4>3, <5>1 DEF ImagesInv
        <5>4. shown <= shown' /\ buffer[i].image <= shown
          BY <4>1, <5>2, <5>3
        <5> QED
          BY <4>2, <5>2, <5>4
      <4> QED
        BY <4>1, <4>2, <4>3
    <3> QED
      BY <3>1, <3>2
  <2>3. /\ DOMAIN buffer = 1 .. Len(buffer) /\ Len(buffer) \in Nat
        /\ DOMAIN buffer' = 1 .. Len(buffer) + 1
        /\ \A i \in 1 .. Len(buffer) : buffer'[i] = buffer[i]
    BY <2>2, FrameTypes DEF Longer
  <2>4. /\ buffer'[Len(buffer) + 1].obs = o /\ buffer'[Len(buffer) + 1].put = p
        /\ buffer'[Len(buffer) + 1].image = image
    BY <2>2 DEF Longer, Frame
  <2>5. /\ \A i \in 1 .. Len(buffer) : buffer[i].obs >= began
        /\ \A i, j \in 1 .. Len(buffer) : i < j =>
             /\ buffer[i].image <= buffer[j].image
             /\ Drained(i) /\ Drained(j) => buffer[i].obs <= buffer[j].obs
    BY <2>3 DEF FramesInOrder
  <2>6. ASSUME NEW i \in DOMAIN buffer' PROVE buffer'[i].obs >= began'
    <3>1. CASE i \in 1 .. Len(buffer)
      BY <2>2, <2>3, <2>5, <3>1
    <3>2. CASE i = Len(buffer) + 1
      BY <2>2, <2>4, <3>2, FrameTypes
    <3> QED
      BY <2>3, <3>1, <3>2
  <2>7. ASSUME NEW i \in DOMAIN buffer', NEW j \in DOMAIN buffer', i < j
        PROVE  /\ buffer'[i].image <= buffer'[j].image
               /\ (Drained(i) /\ Drained(j))' =>
                    buffer'[i].obs <= buffer'[j].obs
    <3>1. i \in 1 .. Len(buffer) /\ buffer'[i] = buffer[i]
      BY <2>3, <2>7
    <3>2. CASE j \in 1 .. Len(buffer)
      BY <2>3, <2>5, <2>7, <3>1, <3>2 DEF Drained
    <3>3. CASE j = Len(buffer) + 1
      BY <2>2, <2>4, <3>1, <3>3 DEF Drained
    <3> QED
      BY <2>3, <3>2, <3>3
  <2> QED
    BY <2>6, <2>7 DEF FramesInOrder
<1> QED
  BY <1>1, <1>2, <1>3, BufferSteps

LEMMA ActionsStep ==
  ASSUME Types, FitInv, ActionsFit, [Next]_vars
  PROVE  ActionsFit'
<1> USE ConstantTypes
<1>1. CASE buffer' = <<>>
  <2>1. DOMAIN buffer' = {}
    BY <1>1
  <2> QED
    BY <2>1 DEF ActionsFit
<1>2. CASE UNCHANGED <<buffer, began>>
  BY <1>2 DEF ActionsFit, Drained
<1>3. CASE Records
  <2>1. Live /\ applied = now
    BY <1>3 DEF Records, Live, Types, ClockInv
  <2>2. PICK o, p, image : Longer(o, p, image) /\ p \in Int
                 /\ (p # None => now \in {p, p + 1})
    <3>1. CASE RecordDrained
      <4>1. Len(queue) >= 1 /\ Longer(queue[1].obs, queue[1].put, ImageToUse)
        BY <1>3, <3>1, DrainedFrame
      <4>2. 1 \in 1 .. Len(queue) /\ queue[1].put \in Int /\ now \in Int
        BY <4>1, FrameTypes
      <4>3. queue[1].put \in {now - 1, now}
        BY <2>1, <4>2 DEF FitInv
      <4>4. now \in {queue[1].put, queue[1].put + 1}
        BY <4>2, <4>3
      <4> QED
        BY <4>1, <4>2, <4>4, Zenon
    <3>2. CASE ~ RecordDrained
      <4>1. Longer(now, None, shown') /\ None \in Int
        BY <1>3, <3>2, SteppedFrame
      <4> QED
        BY <4>1, Zenon
    <3> QED
      BY <3>1, <3>2
  <2>3. /\ DOMAIN buffer = 1 .. Len(buffer) /\ Len(buffer) \in Nat
        /\ DOMAIN buffer' = 1 .. Len(buffer) + 1
        /\ \A i \in 1 .. Len(buffer) : buffer'[i] = buffer[i]
    BY <2>2, FrameTypes DEF Longer
  <2>4. /\ buffer'[Len(buffer) + 1].put = p
        /\ buffer'[Len(buffer) + 1].action = now
    BY <2>1, <2>2 DEF Longer, Frame
  <2> SUFFICES ASSUME NEW i \in DOMAIN buffer', buffer'[i].put # None
      PROVE  buffer'[i].action \in {buffer'[i].put, buffer'[i].put + 1}
    BY DEF ActionsFit, Drained
  <2>5. CASE i \in 1 .. Len(buffer)
    BY <2>3, <2>5 DEF ActionsFit, Drained
  <2>6. CASE i = Len(buffer) + 1
    BY <2>2, <2>4, <2>6
  <2> QED
    BY <2>3, <2>5, <2>6
<1> QED
  BY <1>1, <1>2, <1>3, BufferSteps

\* The operator is asked when the queue is empty, and then nothing moves.
LEMMA AskSteps ==
  ASSUME Types, [Next]_vars, pc' = "ask"
  PROVE  /\ UNCHANGED <<buffer, kept>>
         /\ pc = "ask" \/ (pc = "end" /\ queue = <<>>)
<1> USE DEF Types, Moves, Goto, StopThen
<1>1. \A unfinished : ~ RaiseAfter(unfinished)
  BY DEF RaiseAfter
<1>2. ~ Reset /\ ~ NextEpisode /\ ~ Finalizes /\ ~ LoopEnds /\ ~ GoesOn
  BY <1>1 DEF Reset, NextEpisode, Finalizes, LoopEnds, GoesOn, Raise
<1>3. ~ (\E key \in Keys : Leaves(key)) /\ ~ Start /\ ~ Preview /\ ~ Step
  BY <1>1 DEF Leaves, Start, Preview, Step, Raise
<1>4. ~ Save /\ ~ Annotate /\ ~ Discard /\ ~ WaitSuccess
  BY <1>1 DEF Save, Annotate, Discard, WaitSuccess, Raise
<1>5. ~ JoinRecorder /\ ~ DrainFrames /\ ~ Resume
  BY <1>1 DEF JoinRecorder, DrainFrames, LoopTypes, RecordDrained, RecordStep,
     EndsRound, Resume, Raise
<1>6. CASE EndRecording
  <2>1. ~ RecordDrained /\ pc = "end"
    BY <1>6 DEF RecordDrained, EndRecording
  <2>2. applied # None
    BY <2>1, ConstantTypes DEF ClockInv, Live, LoopTypes
  <2> QED
    BY <1>1, <1>6, <2>1, <2>2 DEF EndRecording, Raise, collectorVars,
       recorderVars
<1>7. CASE Interrupt \/ CameraThread \/ UNCHANGED vars
  BY <1>7 DEF Interrupt, CameraThread, vars, loopVars, collectorVars,
     recorderVars
<1>8. CASE RecorderThread
  BY <1>8 DEF RecorderThread, Recorder, ReadsState, ReadsImages, PutsFrame,
     Ends, ThreadInv, loopVars, collectorVars
<1> QED
  BY <1>2, <1>3, <1>4, <1>5, <1>6, <1>7, <1>8, Zenon DEF Next, Main

LEMMA LostStep ==
  ASSUME Types, CountInv, NothingLost, [Next]_vars
  PROVE  NothingLost'
<1> SUFFICES ASSUME pc' = "ask" PROVE Cardinality(Taken') = kept'
  BY DEF NothingLost, Taken
<1>1. Taken' = Taken /\ kept' = kept
  BY AskSteps DEF Taken, Drained
<1>2. CASE pc = "ask"
  BY <1>1, <1>2 DEF NothingLost, Taken
<1>3. CASE pc = "end" /\ queue = <<>>
  <2>1. Live /\ Len(queue) = 0
    BY <1>3, EmptySeq DEF Live
  <2>2. Cardinality(Taken) + Len(queue) = kept
    BY <2>1 DEF CountInv, Taken
  <2> QED
    BY <1>1, <2>1, <2>2, TakenFinite
<1> QED
  BY <1>2, <1>3, AskSteps

-----------------------------------------------------------------------------
(* Episodes and their outcomes. *)

LEMMA Products ==
  ASSUME NEW n \in Nat, NEW s \in Nat, NEW t \in Nat
  PROVE  /\ n * s \in Nat /\ n * t \in Nat
         /\ n * (s + 1) = n * s + n
         /\ s <= t => n * s <= n * t
<1>1. n * s \in Nat /\ n * t \in Nat /\ n * (s + 1) = n * s + n
  OBVIOUS
<1>2. ASSUME s <= t PROVE n * s <= n * t
  <2>1. t - s \in Nat /\ n * (t - s) \in Nat
    BY <1>2
  <2>2. n * t = n * s + n * (t - s)
    BY <2>1
  <2> QED
    BY <1>1, <2>1, <2>2
<1> QED
  BY <1>1, <1>2

\* The dataset has room.
LEMMA SavedBounded ==
  ASSUME Types, SavedInv
  PROVE  Len(saved) \in 0 .. MaxSaved /\ DOMAIN saved = 1 .. Len(saved)
<1>1. /\ Len(saved) \in Nat /\ DOMAIN saved = 1 .. Len(saved)
      /\ sessions - 1 \in Nat /\ MaxFaults \in Nat /\ sessions - 1 <= MaxFaults
      /\ ep \in Nat /\ ep <= NumEpisodes
      /\ NumEpisodes \in Nat
  BY ConstantTypes, LenProperties DEF Types, DataTypes, LoopTypes
<1>2. /\ NumEpisodes * (sessions - 1) <= NumEpisodes * MaxFaults
      /\ NumEpisodes * (sessions - 1) \in Nat /\ NumEpisodes * MaxFaults \in Nat
      /\ NumEpisodes * (MaxFaults + 1) = NumEpisodes * MaxFaults + NumEpisodes
  BY <1>1, Products
<1>3. NumEpisodes * (MaxFaults + 1) <= MaxSaved /\ MaxSaved \in Nat
  BY CollectAssumption, CollectorAssumption
     DEF CollectAssumption, CollectorAssumption
<1>4. Len(saved) <= NumEpisodes * (sessions - 1) + ep
  BY DEF SavedInv, Allowed
<1> QED
  BY <1>1, <1>2, <1>3, <1>4

LEMMA SavedSteps ==
  ASSUME Types, [Next]_vars
  PROVE  \/ Annotate
         \/ /\ pc = "save" /\ SaveEpisode(success)
            /\ pc' = "annotate" /\ UNCHANGED <<success, ep, sessions, torn>>
         \/ /\ UNCHANGED <<saved, annotations, torn>>
            /\ pc' = "annotate" <=> pc = "annotate"
            /\ pc' = "annotate" => success' = success
<1> DEFINE Same == /\ UNCHANGED <<saved, annotations, torn>>
                   /\ pc' = "annotate" <=> pc = "annotate"
                   /\ pc' = "annotate" => success' = success
<1> USE DEF Moves, Goto, StopThen, NoFault, countVars, collectorVars
<1>1. Raise => UNCHANGED <<saved, annotations, torn>> /\ pc' = "over"
  BY DEF Raise, RaiseAfter
<1>2. Reset \/ NextEpisode \/ Finalizes \/ LoopEnds \/ Preview \/ GoesOn \/ Step
        => Same
  BY <1>1 DEF Reset, NextEpisode, Finalizes, Finalize, LoopEnds, Preview,
     GoesOn, Step
<1>3. Start => Same
  BY <1>1 DEF Start, StartEpisode
<1>4. DrainFrames \/ EndRecording => Same
  BY <1>1 DEF DrainFrames, EndRecording, RecordDrained, RecordStep, RecordFrame,
     EndsRound
<1>5. JoinRecorder \/ Discard \/ WaitSuccess => Same
  BY <1>1 DEF JoinRecorder, Discard, DiscardEpisode, WaitSuccess, Types,
     LoopTypes
<1>6. Save => \/ /\ pc = "save" /\ SaveEpisode(success)
                 /\ pc' = "annotate"
                 /\ UNCHANGED <<success, ep, sessions, torn>>
              \/ Same
  BY <1>1 DEF Save, DiscardEpisode
<1>7. (\E key \in Keys : Leaves(key)) => Same
  BY DEF Leaves
<1>8. Interrupt \/ CameraThread \/ RecorderThread \/ UNCHANGED vars => Same
  BY DEF Interrupt, CameraThread, RecorderThread, vars, loopVars
<1>9. Resume => Same
  BY DEF Resume, ResumeDataset
<1> QED
  BY <1>2, <1>3, <1>4, <1>5, <1>6, <1>7, <1>8, <1>9, Zenon DEF Next, Main

\* A session comes to save an episode only after it has counted it.
LEMMA AllowedStep ==
  ASSUME Types, [Next]_vars
  PROVE  /\ Allowed \in Int /\ Allowed' \in Int /\ Allowed <= Allowed'
         /\ Before' => Before \/ Allowed' = Allowed + 1
<1> DEFINE Same == /\ UNCHANGED <<ep, sessions>>
                   /\ Before' => Before
<1> USE ConstantTypes
    DEF Types, Moves, Goto, StopThen, NoFault, countVars, Before
<1>0. /\ ep \in 0 .. NumEpisodes /\ sessions \in Nat \ {0}
      /\ NumEpisodes * (sessions - 1) \in Nat
  <2>1. /\ ep \in 0 .. NumEpisodes /\ sessions \in Nat \ {0}
        /\ sessions - 1 \in Nat
    BY DEF LoopTypes
  <2> QED
    BY <2>1, Products
<1>a. Same => Allowed' = Allowed
  BY DEF Allowed
<1>1. Raise => Same
  BY DEF Raise, RaiseAfter
<1>2. Reset \/ Finalizes \/ LoopEnds \/ Preview \/ GoesOn \/ Step => Same
  BY <1>1 DEF Reset, Finalizes, LoopEnds, Preview, GoesOn, Step
<1>3. Start => Same
  BY <1>1 DEF Start
<1>4. DrainFrames \/ EndRecording => Same
  BY <1>1 DEF DrainFrames, EndRecording, RecordDrained, RecordStep, EndsRound
<1>5. JoinRecorder \/ Discard \/ WaitSuccess \/ Save \/ Annotate => Same
  BY <1>1 DEF JoinRecorder, Discard, WaitSuccess, Save, Annotate, RaiseAfter
<1>6. (\E key \in Keys : Leaves(key)) => Same
  BY DEF Leaves
<1>7. Interrupt \/ CameraThread \/ RecorderThread \/ UNCHANGED vars => Same
  BY DEF Interrupt, CameraThread, RecorderThread, vars, loopVars
<1>8. NextEpisode => Same \/ (ep' = ep + 1 /\ sessions' = sessions)
  BY DEF NextEpisode
<1>9. CASE Resume
  <2>1. sessions' = sessions + 1 /\ ep' = 0 /\ ~ Before'
    BY <1>9 DEF Resume
  <2>2. NumEpisodes * sessions = NumEpisodes * (sessions - 1) + NumEpisodes
    <3>1. sessions - 1 \in Nat /\ sessions = (sessions - 1) + 1
      BY <1>0
    <3> QED
      BY <3>1, Products
  <2>3. sessions' - 1 = sessions
    BY <1>0, <2>1
  <2> QED
    BY <1>0, <2>1, <2>2, <2>3 DEF Allowed
<1>10. CASE ep' = ep + 1 /\ sessions' = sessions
  <2>1. Allowed' = Allowed + 1 /\ Allowed \in Nat
    BY <1>0, <1>10 DEF Allowed
  <2> QED
    BY <2>1
<1>11. CASE Same
  <2>1. Allowed \in Nat /\ Allowed' = Allowed
    BY <1>0, <1>a, <1>11 DEF Allowed
  <2> QED
    BY <1>11, <2>1
<1> QED
  BY <1>2, <1>3, <1>4, <1>5, <1>6, <1>7, <1>8, <1>9, <1>10, <1>11, Zenon
     DEF Next, Main

LEMMA SavedStep ==
  ASSUME Types, SavedInv, [Next]_vars
  PROVE  SavedInv'
<1> DEFINE Outcomes == [1 .. MaxSaved -> {"none", "success", "failure"}]
<1>0. /\ annotations \in Outcomes /\ AnnotationsMatch
      /\ Len(saved) <= Allowed /\ (Before => Len(saved) < Allowed)
  BY DEF SavedInv
<1>1. Len(saved) \in 0 .. MaxSaved /\ DOMAIN saved = 1 .. Len(saved)
  BY SavedBounded
<1>2. /\ Allowed \in Int /\ Allowed' \in Int /\ Allowed <= Allowed'
      /\ Before' => Before \/ Allowed' = Allowed + 1
  BY AllowedStep
<1>3. CASE /\ UNCHANGED <<saved, annotations, torn>>
           /\ pc' = "annotate" <=> pc = "annotate"
           /\ pc' = "annotate" => success' = success
  <2>1. Len(saved') <= Allowed' /\ (Before' => Len(saved') < Allowed')
    BY <1>0, <1>1, <1>2, <1>3
  <2>2. AnnotationsMatch'
    <3>1. Annotated' = Annotated
      BY <1>3 DEF Annotated
    <3> QED
      BY <1>0, <1>3, <3>1 DEF AnnotationsMatch
  <2> QED
    BY <1>3, <2>1, <2>2 DEF SavedInv
<1>4. CASE /\ pc = "save" /\ SaveEpisode(success)
           /\ pc' = "annotate" /\ UNCHANGED <<success, ep, sessions, torn>>
  <2> DEFINE e == [success |-> success, frames |-> Len(buffer)]
             n == Len(saved) + 1
  <2>1. saved' = Append(saved, e) /\ annotations' = annotations
    BY <1>4 DEF SaveEpisode
  <2>2. /\ Len(saved') = n /\ DOMAIN saved' = 1 .. n /\ saved' # <<>>
        /\ \A i \in 1 .. Len(saved) : saved'[i] = saved[i]
        /\ saved'[n] = e
    <3>1. e \in Saved
      <4>1. success \in BOOLEAN /\ buffer # <<>>
        BY <1>4, Zenon DEF Types, Flags, PhaseInv, Filled
      <4>2. Len(buffer) \in Nat \ {0}
        BY <4>1, TailOf DEF Types, DataTypes
      <4> QED
        BY <4>1, <4>2, Zenon DEF Saved
    <3> QED
      BY <2>1, <3>1, AppendOf DEF Types, DataTypes
  <2>3. /\ Annotated' = Annotated /\ Annotated \subseteq 1 .. Len(saved)
        /\ n \notin 1 .. Len(saved) /\ 1 .. n = (1 .. Len(saved)) \union {n}
    BY <1>0, <1>1, <2>1 DEF Annotated, AnnotationsMatch
  <2>4. (1 .. Len(saved)) \ Annotated = torn
    BY <1>0, <1>1, <1>4 DEF AnnotationsMatch
  <2>5. AnnotationsMatch'
    <3>1. ASSUME NEW i \in Annotated'
          PROVE  /\ i \in DOMAIN saved'
                 /\ (annotations'[i] = "success") = saved'[i].success
      BY <1>0, <2>1, <2>2, <2>3 DEF AnnotationsMatch
    <3>2. DOMAIN saved' \ Annotated' = torn' \union {Len(saved')}
      BY <1>4, <2>2, <2>3, <2>4
    <3> QED
      BY <1>4, <3>1, <3>2 DEF AnnotationsMatch
  <2>6. ~ Before' /\ Len(saved') <= Allowed'
    BY <1>0, <1>1, <1>2, <1>4, <2>2 DEF Before
  <2>7. /\ saved'[Len(saved')].success = success' /\ Len(saved') \notin torn'
        /\ saved' # <<>>
    BY <1>4, <2>2, <2>3, <2>4
  <2> QED
    BY <1>0, <2>1, <2>5, <2>6, <2>7 DEF SavedInv
<1>5. CASE Annotate
  <2> DEFINE n == Len(saved)
  <2>1. /\ pc = "annotate" /\ saved # <<>> /\ saved[n].success = success
        /\ n \notin torn
    BY <1>5 DEF Annotate, SavedInv
  <2>2. n \in 1 .. MaxSaved /\ n \in DOMAIN saved
    BY <1>1, <2>1, TailOf DEF Types, DataTypes
  <2>3. /\ \A i \in Annotated :
             /\ i \in DOMAIN saved
             /\ (annotations[i] = "success") = saved[i].success
        /\ DOMAIN saved \ Annotated = torn \union {n}
    BY <1>0, <2>1 DEF AnnotationsMatch
  <2>4. saved' = saved /\ pc' # "annotate" /\ ~ Before'
    BY <1>5 DEF Annotate, SaveAnnotation, StopThen, RaiseAfter, Moves, Goto,
       collectorVars, Before
  <2>5. Len(saved') <= Allowed'
    BY <1>0, <1>1, <1>2, <2>4
  <2>6. CASE RaiseAfter({n})
    <3>1. UNCHANGED annotations /\ torn' = torn \union {n}
      BY <2>6 DEF RaiseAfter, collectorVars
    <3>2. AnnotationsMatch'
      BY <2>3, <2>4, <3>1 DEF AnnotationsMatch, Annotated
    <3> QED
      BY <1>0, <2>4, <2>5, <3>1, <3>2 DEF SavedInv
  <2>7. CASE SaveAnnotation(success) /\ NoFault
    <3> DEFINE outcome == IF success THEN "success" ELSE "failure"
    <3>1. /\ annotations' = [annotations EXCEPT ![n] = outcome]
          /\ torn' = torn
      BY <2>7 DEF SaveAnnotation, NoFault, countVars
    <3>2. /\ annotations' \in Outcomes /\ annotations'[n] = outcome
          /\ \A i \in 1 .. MaxSaved : i # n => annotations'[i] = annotations[i]
      BY <1>0, <2>2, <3>1
    <3>3. Annotated' = Annotated \union {n}
      BY <2>2, <3>2 DEF Annotated
    <3>4. (outcome = "success") = success
      <4>1. success \in BOOLEAN
        BY Zenon DEF Types, Flags
      <4>2. success => (outcome = "success") = TRUE
        OBVIOUS
      <4>3. ~ success => (outcome = "success") = FALSE
        OBVIOUS
      <4> QED
        BY <4>1, <4>2, <4>3, Zenon
    <3>5. ASSUME NEW i \in Annotated'
          PROVE  /\ i \in DOMAIN saved'
                 /\ (annotations'[i] = "success") = saved'[i].success
      <4>1. CASE i = n
        BY <2>1, <2>2, <2>4, <3>2, <3>4, <4>1
      <4>2. CASE i # n
        <5>1. i \in Annotated /\ annotations'[i] = annotations[i]
          BY <3>2, <3>3, <4>2 DEF Annotated
        <5> QED
          BY <2>3, <2>4, <5>1
      <4> QED
        BY <4>1, <4>2
    <3>6. DOMAIN saved' \ Annotated' = torn'
      BY <2>1, <2>3, <2>4, <3>1, <3>3
    <3>7. AnnotationsMatch'
      BY <2>4, <3>5, <3>6 DEF AnnotationsMatch
    <3> QED
      BY <2>4, <2>5, <3>2, <3>7 DEF SavedInv
  <2> QED
    BY <1>5, <2>6, <2>7 DEF Annotate
<1> QED
  BY <1>3, <1>4, <1>5, SavedSteps

-----------------------------------------------------------------------------
(* The theorems. *)

CollectInv == Types /\ FrameInv /\ SavedInv

LEMMA CollectInit == Init => CollectInv
<1> SUFFICES ASSUME Init PROVE FrameInv /\ SavedInv
  BY TypesInit DEF CollectInv
<1> USE ConstantTypes DEF Init, CameraInit, RecorderInit, CollectorInit
<1>1. Len(queue) = 0 /\ Len(buffer) = 0 /\ DOMAIN buffer = {} /\ ~ Live
  BY EmptySeq DEF Live
<1>2. CameraInv /\ ImagesInv /\ TimesInv /\ FitInv /\ CountInv
  BY <1>1 DEF CameraInv, ImagesInv, TimesInv, FitInv, CountInv, Fresh
<1>3. FramesInOrder /\ ActionsFit /\ NothingLost
  BY <1>1 DEF FramesInOrder, ActionsFit, NothingLost
<1>4. SavedInv
  <2>1. Annotated = {} /\ DOMAIN saved = {} /\ Len(saved) = 0
    BY EmptySeq DEF Annotated
  <2>2. Allowed = NumEpisodes * 0
    BY DEF Allowed
  <2>3. Allowed = 0
    BY <2>2, Products
  <2> QED
    BY <2>1, <2>3 DEF SavedInv, AnnotationsMatch, Before
<1> QED
  BY <1>2, <1>3, <1>4 DEF FrameInv

LEMMA CollectStep ==
  ASSUME CollectInv, [Next]_vars
  PROVE  CollectInv'
<1> USE DEF CollectInv, FrameInv
<1>1. Types' /\ SavedInv'
  BY TypesStep, SavedStep
<1>2. CameraInv' /\ ImagesInv' /\ TimesInv' /\ FitInv' /\ CountInv'
  BY CameraInvStep, ImagesStep, TimesStep, FitStep, CountStep
<1>3. FramesInOrder' /\ ActionsFit' /\ NothingLost'
  BY OrderStep, ActionsStep, LostStep
<1> QED
  BY <1>1, <1>2, <1>3

\* The invariant holds in every state: where an episode has frames and is
\* active, who runs when, how the frames taken, queued and being read follow
\* one another, and how many episodes can have been saved.
THEOREM CollectInvariant == Spec => []CollectInv
<1>1. CollectInv /\ [Next]_vars => CollectInv'
  BY CollectStep
<1> QED
  BY CollectInit, <1>1, PTL DEF Spec

\* Type correctness of the session, its threads and its dataset, which never
\* has more episodes than the sessions were asked for.
THEOREM CollectTypeCorrect == Spec => []TypeOK
<1>1. CollectInv => TypeOK
  <2> SUFFICES ASSUME CollectInv PROVE TypeOK
    OBVIOUS
  <2>1. Types /\ SavedInv
    BY DEF CollectInv
  <2>2. Len(saved) <= MaxSaved /\ torn \subseteq DOMAIN saved
    BY <2>1, SavedBounded DEF SavedInv, AnnotationsMatch
  <2>3. stop \in BOOLEAN /\ recording \in BOOLEAN
    BY <2>1, Zenon DEF Types, Flags
  <2> QED
    BY <2>1, <2>2, <2>3 DEF Types, CameraTypes, RecorderTypes, DataTypes,
       LoopTypes, TypeOK, Queued, Framed, Saved
<1> QED
  BY CollectInvariant, <1>1, PTL

\* No frame was read before its recording started, and the frames of an
\* episode are in the order in which they were taken, for any sizes of queue
\* and episodes, any number of sessions and of calls that raise
\* (state_recorder.py:104).
THEOREM FramesAreInOrder == Spec => []FramesInOrder
<1>1. CollectInv => FramesInOrder
  BY DEF CollectInv, FrameInv
<1> QED
  BY CollectInvariant, <1>1, PTL

\* A frame from the queue has the first action that was applied after it was
\* put there, for the same (collect_episodes.py:665).
THEOREM FramesHaveTheirActions == Spec => []ActionsFit
<1>1. CollectInv => ActionsFit
  BY DEF CollectInv, FrameInv
<1> QED
  BY CollectInvariant, <1>1, PTL

\* When the operator is asked, every pair the recorder has queued is in the
\* episode, for the same (collect_episodes.py:747).
THEOREM AllIsRecorded == Spec => []NothingLost
<1>1. CollectInv => NothingLost
  BY DEF CollectInv, FrameInv
<1> QED
  BY CollectInvariant, <1>1, PTL

\* Every saved episode has the outcome its operator gave, but for those after
\* which a session raised (collector.py:156).
THEOREM OutcomesMatch == Spec => []AnnotationsMatch
<1>1. CollectInv => AnnotationsMatch
  BY DEF CollectInv, SavedInv
<1> QED
  BY CollectInvariant, <1>1, PTL

-----------------------------------------------------------------------------
(* What a session does with its dataset. *)

LEMMA DatasetStep ==
  ASSUME Types, [Next]_vars
  PROVE  [Dataset!Next]_<<Len(buffer), saved, finalized>>
<1> USE DEF Dataset!Next
<1>0. Len(<<>>) = 0 /\ Len(buffer) \in Nat
  BY EmptySeq, FrameTypes
<1>1. CASE UNCHANGED collectorVars
  BY <1>1 DEF collectorVars
<1>2. CASE Records
  <2>1. PICK f \in Framed : buffer' = Append(buffer, f)
    BY <1>2, RecordTypes
  <2>2. Len(buffer') = Len(buffer) + 1
    BY <2>1, AppendOf DEF Types, DataTypes
  <2>3. pc # "over" /\ UNCHANGED <<saved, finalized>>
    BY <1>2, RecordTypes DEF Records
  <2>4. ~ finalized
    BY <2>3, Zenon DEF Types, PhaseInv
  <2> QED
    BY <2>2, <2>3, <2>4 DEF Dataset!Record
<1>3. CASE StartEpisode
  BY <1>3 DEF StartEpisode
<1>4. CASE DiscardEpisode
  <2>1. CASE buffer' = <<>>
    BY <1>0, <1>4, <2>1 DEF DiscardEpisode, Dataset!Drop
  <2>2. CASE buffer' = buffer
    BY <1>4, <2>2 DEF DiscardEpisode
  <2> QED
    BY <1>4, <2>1, <2>2 DEF DiscardEpisode
<1>5. CASE pc = "save" /\ SaveEpisode(success)
  <2>1. success \in BOOLEAN /\ buffer # <<>>
    BY <1>5, Zenon DEF Types, Flags, PhaseInv, Filled
  <2>2. Len(buffer) > 0
    BY <2>1, TailOf DEF Types, DataTypes
  <2>3. /\ success \/ SaveFailure
        /\ saved' = Append(saved, [success |-> success, frames |-> Len(buffer)])
        /\ buffer' = <<>> /\ UNCHANGED finalized
    BY <1>5, Zenon DEF SaveEpisode, Wanted
  <2>4. Len(buffer') = 0
    BY <1>0, <2>3
  <2>5. Dataset!Keep(success)
    BY <2>2, <2>3, <2>4, Zenon DEF Dataset!Keep
  <2> QED
    BY <2>1, <2>5, Zenon
<1>6. CASE SaveAnnotation(success)
  BY <1>6 DEF SaveAnnotation
<1>7. CASE Finalize
  <2>1. ~ episode_active /\ finalized' = TRUE /\ UNCHANGED <<buffer, saved>>
    BY <1>7, Zenon DEF Finalize
  <2>2. buffer = <<>>
    BY <2>1, Zenon DEF Types, PhaseInv
  <2> QED
    BY <1>0, <2>1, <2>2 DEF Dataset!Close
<1>8. CASE ResumeDataset
  BY <1>0, <1>8 DEF ResumeDataset, Dataset!Resume
<1> QED
  BY <1>1, <1>2, <1>3, <1>4, <1>5, <1>6, <1>7, <1>8, DatasetSteps

\* The session implements Episodes: its dataset grows by whole episodes of at
\* least one frame, failed ones only if they are asked for, and it is closed
\* between two episodes (collector.py:82-185).
THEOREM SessionKeepsEpisodes == Spec => ImplementsEpisodes
<1>1. Init => Dataset!Init
  BY EmptySeq DEF Init, CollectorInit, Dataset!Init
<1>2. Types /\ [Next]_vars => [Dataset!Next]_<<Len(buffer), saved, finalized>>
  BY DatasetStep
<1>3. CollectInv => Types
  BY DEF CollectInv
<1> QED
  BY CollectInvariant, <1>1, <1>2, <1>3, PTL DEF Spec, ImplementsEpisodes,
     Dataset!Spec
=============================================================================
