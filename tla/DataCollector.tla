---------------------------- MODULE DataCollector ----------------------------
(***************************************************************************)
(* DataCollector: one episode at a time into a dataset, and a file with    *)
(* the outcome of each, which is written after the episode.                *)
(***************************************************************************)
EXTENDS Integers, Sequences

CONSTANTS
  SaveFailure,  \* config.save_failure
  MaxSaved      \* bound on the episodes of the dataset

ASSUME CollectorAssumption == SaveFailure \in BOOLEAN /\ MaxSaved \in Nat

VARIABLES
  episode_active,   \* _episode_active
  buffer,           \* the dataset's episode buffer
  saved,            \* its episodes: outcome and number of frames
  annotations,      \* episode_annotations.json
  finalized

collectorVars == <<episode_active, buffer, saved, annotations, finalized>>

CollectorInit ==
  /\ episode_active = FALSE /\ buffer = <<>> /\ saved = <<>>
  /\ annotations = [i \in 1 .. MaxSaved |-> "none"] /\ finalized = FALSE

StartEpisode ==
  /\ ~ episode_active /\ episode_active' = TRUE
  /\ UNCHANGED <<buffer, saved, annotations, finalized>>

RecordFrame(frame) ==
  /\ episode_active /\ buffer' = Append(buffer, frame)
  /\ UNCHANGED <<episode_active, saved, annotations, finalized>>

\* Mutant of Wanted: failures are always saved.
WantedAlways(success) == TRUE

Wanted(success) == success \/ SaveFailure

\* The first part of end_episode, if the episode is wanted.
SaveEpisode(success) ==
  /\ episode_active /\ Wanted(success)
  /\ saved' = Append(saved, [success |-> success, frames |-> Len(buffer)])
  /\ buffer' = <<>> /\ UNCHANGED <<episode_active, annotations, finalized>>

Annotated == {i \in 1 .. MaxSaved : annotations[i] # "none"}

\* Mutant of SaveAnnotation: the place is counted from the annotations.
SaveAnnotationNext(success) ==
  /\ annotations' = [annotations EXCEPT
       ![(CHOOSE n \in 0 .. MaxSaved : Annotated \subseteq 1 .. n
            /\ (n = 0 \/ n \in Annotated)) + 1] =
         IF success THEN "success" ELSE "failure"]
  /\ episode_active' = FALSE /\ UNCHANGED <<buffer, saved, finalized>>

\* Its second part.
SaveAnnotation(success) ==
  /\ annotations' = [annotations EXCEPT
       ![Len(saved)] = IF success THEN "success" ELSE "failure"]
  /\ episode_active' = FALSE /\ UNCHANGED <<buffer, saved, finalized>>

\* discard_episode, and end_episode if the episode is not wanted.
DiscardEpisode ==
  /\ episode_active' = FALSE
  /\ buffer' = IF episode_active THEN <<>> ELSE buffer
  /\ UNCHANGED <<saved, annotations, finalized>>

Finalize ==
  /\ ~ episode_active /\ finalized' = TRUE
  /\ UNCHANGED <<episode_active, buffer, saved, annotations>>

\* A new collector on the old dataset.
ResumeDataset ==
  /\ episode_active' = FALSE /\ buffer' = <<>> /\ finalized' = FALSE
  /\ UNCHANGED <<saved, annotations>>
=============================================================================
