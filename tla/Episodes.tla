------------------------------ MODULE Episodes ------------------------------
(***************************************************************************)
(* What a collection session promises of its dataset: it grows by whole    *)
(* episodes with at least one frame, and failed ones only if those are     *)
(* asked for; it is closed between two episodes, and a session that is     *)
(* over loses at most the frames of one.                                   *)
(***************************************************************************)
EXTENDS Naturals, Sequences

CONSTANT SaveFailure

VARIABLES
  frames,       \* of the episode that is being recorded
  saved,        \* the episodes, with their outcome and size
  closed

Init == frames = 0 /\ saved = <<>> /\ closed = FALSE

Record == ~ closed /\ frames' = frames + 1 /\ UNCHANGED <<saved, closed>>

Keep(success) ==
  /\ frames > 0 /\ (success \/ SaveFailure)
  /\ saved' = Append(saved, [success |-> success, frames |-> frames])
  /\ frames' = 0 /\ UNCHANGED closed

Drop == frames' = 0 /\ UNCHANGED <<saved, closed>>

Close == frames = 0 /\ closed' = TRUE /\ UNCHANGED <<frames, saved>>

\* The next session, with --resume.
Resume == frames' = 0 /\ closed' = FALSE /\ UNCHANGED saved

Next == Record \/ (\E b \in BOOLEAN : Keep(b)) \/ Drop \/ Close \/ Resume

Spec == Init /\ [][Next]_<<frames, saved, closed>>
=============================================================================
