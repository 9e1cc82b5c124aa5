---------------------------- MODULE StateRecorder ----------------------------
(***************************************************************************)
(* StateStreamRecorder: a thread that reads the robot's state and then the *)
(* camera, and queues the pair for the recording loop.                     *)
(*                                                                         *)
(* An observation is the time at which the robot's state was read.         *)
(***************************************************************************)
EXTENDS Camera, Sequences

CONSTANTS
  QueueSize,    \* fps * buffer_seconds
  MaxKept       \* bound on the pairs queued in a recording

ASSUME RecorderAssumption == QueueSize \in Nat \ {0} /\ MaxKept \in Nat

VARIABLES
  now,          \* the clock, which the session moves
  thread,       \* where the thread is; "none" if it has ended
  stop,         \* _stop
  obs, images,  \* the thread's pair
  queue,        \* _queue
  last_images,  \* _last_images
  kept          \* history: pairs queued in this recording

recorderVars == <<thread, stop, obs, images, queue, last_images, kept>>

RecorderInit ==
  /\ thread = "none" /\ stop = FALSE /\ obs = None /\ images = None
  /\ queue = <<>> /\ last_images = None /\ kept = 0

-----------------------------------------------------------------------------
(* The thread. *)

ReadsState ==
  /\ thread = "read" /\ ~ stop /\ kept < MaxKept
  /\ obs' = now /\ thread' = "images"
  /\ UNCHANGED <<stop, images, queue, last_images, kept, cameraVars>>

ReadsImages ==
  /\ thread = "images" /\ ReadNowait /\ images' = Fresh
  /\ last_images' = IF Fresh # None THEN Fresh ELSE last_images
  /\ thread' = "put" /\ UNCHANGED <<stop, obs, queue, kept>>

PutsFrame ==
  /\ thread = "put" /\ thread' = "read"
  /\ IF Len(queue) < QueueSize
     THEN /\ kept' = kept + 1
          /\ queue' = Append(queue,
                            [obs |-> obs, put |-> now, image |-> images])
     ELSE UNCHANGED <<queue, kept>>
  /\ obs' = None /\ images' = None
  /\ UNCHANGED <<stop, last_images, cameraVars>>

Ends ==
  /\ thread = "read" /\ stop /\ thread' = "none"
  /\ UNCHANGED <<stop, obs, images, queue, last_images, kept, cameraVars>>

Recorder == ReadsState \/ ReadsImages \/ PutsFrame \/ Ends

-----------------------------------------------------------------------------
(* What the recording loop calls. *)

\* Mutant of StartRecorder: the queue is not cleared.
StartRecorderKeepsQueue ==
  /\ stop' = FALSE /\ thread' = "read" /\ kept' = 0
  /\ UNCHANGED <<obs, images, queue, last_images>>

StartRecorder ==
  /\ stop' = FALSE /\ queue' = <<>> /\ thread' = "read" /\ kept' = 0
  /\ UNCHANGED <<obs, images, last_images>>

\* stop raises the flag and then joins the thread.
StopRecorder ==
  stop' = TRUE /\ UNCHANGED <<thread, obs, images, queue, last_images, kept>>

Joined == thread = "none"

\* One round of drain.
Drain ==
  /\ queue # <<>> /\ queue' = Tail(queue)
  /\ UNCHANGED <<thread, stop, obs, images, last_images, kept>>
=============================================================================
