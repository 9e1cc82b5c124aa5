---------------------------- MODULE GripperServer ----------------------------
(***************************************************************************)
(* The gripper server: the main thread that serves requests, a worker      *)
(* thread per job, and the thread that polls the state.  The with-blocks   *)
(* on _worker_lock are single steps, except the one of stop, which joins   *)
(* the worker while it holds the lock.  A job is known by its number.      *)
(***************************************************************************)
EXTENDS Naturals

CONSTANTS
  Commands,       \* the requests the clients send ("SIGINT" is the signal)
  MaxJobs         \* bound on the jobs submitted

Jobs == {"homing", "open", "move", "grasp"}

ASSUME GripperAssumption ==
  /\ Commands \subseteq Jobs \union {"stop", "get_state", "shutdown", "SIGINT"}
  /\ MaxJobs \in Nat

Ids  == 1 .. MaxJobs
None == 0

VARIABLES
  running,        \* _running
  busy,           \* _worker_status = BUSY
  workerResult,   \* _worker_result: the job whose result it is
  workerThread,   \* _worker_thread: the job it runs
  stopFlag,       \* _stop_flag
  homing,         \* _homing_in_progress
  submitted,      \* how many jobs were accepted; the last one's number
  kind,           \* what each job does
  worker,         \* the life of each job's thread
  everStopped,    \* history: has a stop been requested?
  stopped,        \* history: the jobs in progress when one was
  pcMain, pcPoll

jobVars  == <<submitted, kind>>
stopVars == <<everStopped, stopped>>
vars == <<running, busy, workerResult, workerThread, stopFlag, homing,
          jobVars, worker, stopVars, pcMain, pcPoll>>

Init ==
  /\ running = TRUE /\ busy = FALSE /\ stopFlag = FALSE /\ homing = FALSE
  /\ workerResult = None /\ workerThread = None
  /\ submitted = 0 /\ kind = [i \in Ids |-> "none"]
  /\ worker = [i \in Ids |-> "none"] /\ stopped = {} /\ everStopped = FALSE
  /\ pcMain = "top" /\ pcPoll = "check"

\* is_alive() of a worker thread.
Alive(i) == worker[i] \in {"spawned", "calling", "returned", "ending"}

\* _worker_lock is held over several steps only by stop.
LockFree == pcMain \notin {"join", "reset"}

-----------------------------------------------------------------------------
(* Main thread. *)

\* while self._running
MainTop ==
  /\ pcMain = "top"
  /\ pcMain' = IF running THEN "recv" ELSE "end"
  /\ UNCHANGED <<running, busy, workerResult, workerThread, stopFlag, homing,
                 jobVars, worker, stopVars, pcPoll>>

\* zmq.Again after 200 ms, or an unknown request.
RecvNothing ==
  /\ pcMain = "recv" /\ pcMain' = "top"
  /\ UNCHANGED <<running, busy, workerResult, workerThread, stopFlag, homing,
                 jobVars, worker, stopVars, pcPoll>>

\* The reply carries the status and the result, read under one lock.
RecvGetState ==
  /\ pcMain = "recv" /\ "get_state" \in Commands
  /\ pcMain' = "top"
  /\ UNCHANGED <<running, busy, workerResult, workerThread, stopFlag, homing,
                 jobVars, worker, stopVars, pcPoll>>

\* Mutant of Submit: the old result is not forgotten.
SubmitKeepsResult(k) ==
  /\ pcMain = "recv" /\ k \in Jobs \intersect Commands
  /\ ~ busy /\ submitted < MaxJobs
  /\ busy' = TRUE
  /\ submitted' = submitted + 1
  /\ kind' = [kind EXCEPT ![submitted + 1] = k]
  /\ pcMain' = "start"
  /\ UNCHANGED <<running, workerResult, workerThread, stopFlag, homing, worker,
                 stopVars, pcPoll>>

\* Mutant of Submit: the job is not counted, so no thread is its own.
SubmitUncounted(k) ==
  /\ pcMain = "recv" /\ k \in Jobs \intersect Commands
  /\ ~ busy
  /\ busy' = TRUE /\ workerResult' = None /\ pcMain' = "start"
  /\ UNCHANGED <<running, workerThread, stopFlag, homing, jobVars, worker,
                 stopVars, pcPoll>>

\* _submit_job accepts a job ...
Submit(k) ==
  /\ pcMain = "recv" /\ k \in Jobs \intersect Commands
  /\ ~ busy /\ submitted < MaxJobs
  /\ busy' = TRUE /\ workerResult' = None
  /\ submitted' = submitted + 1
  /\ kind' = [kind EXCEPT ![submitted + 1] = k]
  /\ pcMain' = "start"
  /\ UNCHANGED <<running, workerThread, stopFlag, homing, worker, stopVars,
                 pcPoll>>

\* ... and, out of the lock, starts its thread.
StartWorker ==
  /\ pcMain = "start" /\ pcMain' = "top"
  /\ workerThread' = submitted
  /\ worker' = [worker EXCEPT ![submitted] = "spawned"]
  /\ UNCHANGED <<running, busy, workerResult, stopFlag, homing, jobVars,
                 stopVars, pcPoll>>

\* "Gripper busy"
RecvBusy(k) ==
  /\ pcMain = "recv" /\ k \in Jobs \intersect Commands
  /\ busy
  /\ pcMain' = "top"
  /\ UNCHANGED <<running, busy, workerResult, workerThread, stopFlag, homing,
                 jobVars, worker, stopVars, pcPoll>>

\* stop raises its flag and stops the gripper, which ends a call in progress.
RecvStop ==
  /\ pcMain = "recv" /\ "stop" \in Commands
  /\ stopFlag' = TRUE /\ everStopped' = TRUE
  /\ stopped' = stopped \union {i \in Ids : Alive(i) /\ worker[i] # "ending"}
  /\ pcMain' = "lock"
  /\ UNCHANGED <<running, busy, workerResult, workerThread, homing, jobVars,
                 worker, pcPoll>>

\* It takes the lock and, holding it, joins a live worker.
StopLocks ==
  /\ pcMain = "lock"
  /\ pcMain' = IF workerThread # None /\ Alive(workerThread)
               THEN "join" ELSE "reset"
  /\ UNCHANGED <<running, busy, workerResult, workerThread, stopFlag, homing,
                 jobVars, worker, stopVars, pcPoll>>

\* Mutant of StopJoins: the join has no timeout.
StopJoinsForever ==
  /\ pcMain = "join" /\ pcMain' = "reset"
  /\ ~ Alive(workerThread)
  /\ UNCHANGED <<running, busy, workerResult, workerThread, stopFlag, homing,
                 jobVars, worker, stopVars, pcPoll>>

\* join(timeout=2.0) returns with the worker dead or not.
StopJoins ==
  /\ pcMain = "join" /\ pcMain' = "reset"
  /\ UNCHANGED <<running, busy, workerResult, workerThread, stopFlag, homing,
                 jobVars, worker, stopVars, pcPoll>>

StopResets ==
  /\ pcMain = "reset" /\ pcMain' = "top"
  /\ busy' = FALSE /\ workerResult' = None /\ workerThread' = None
  /\ stopFlag' = FALSE
  /\ UNCHANGED <<running, homing, jobVars, worker, stopVars, pcPoll>>

RecvShutdown ==
  /\ pcMain = "recv" /\ "shutdown" \in Commands
  /\ running' = FALSE /\ pcMain' = "top"
  /\ UNCHANGED <<busy, workerResult, workerThread, stopFlag, homing, jobVars,
                 worker, stopVars, pcPoll>>

\* _cleanup joins the poll thread; then the process ends.
MainEnds ==
  /\ pcMain = "end" /\ pcPoll = "done" /\ pcMain' = "done"
  /\ UNCHANGED <<running, busy, workerResult, workerThread, stopFlag, homing,
                 jobVars, worker, stopVars, pcPoll>>

\* SIGINT or SIGTERM.
Signal ==
  /\ "SIGINT" \in Commands /\ running /\ running' = FALSE
  /\ UNCHANGED <<busy, workerResult, workerThread, stopFlag, homing, jobVars,
                 worker, stopVars, pcMain, pcPoll>>

Main ==
  \/ MainTop \/ RecvNothing \/ RecvGetState \/ RecvStop \/ RecvShutdown
  \/ \E k \in Jobs : Submit(k) \/ RecvBusy(k)
  \/ StartWorker \/ StopLocks \/ StopJoins \/ StopResets \/ MainEnds

-----------------------------------------------------------------------------
(* Workers and the poll thread; they are daemons, gone with the process. *)

\* The job calls the gripper; _do_homing first sets its flag.
WorkerCalls(i) ==
  /\ worker[i] = "spawned"
  /\ worker' = [worker EXCEPT ![i] = "calling"]
  /\ homing' = (homing \/ kind[i] = "homing")
  /\ UNCHANGED <<running, busy, workerResult, workerThread, stopFlag, jobVars,
                 stopVars, pcMain, pcPoll>>

\* Mutant of WorkerReturns: a homing that raises leaves its flag set.
WorkerReturnsHoming(i) ==
  /\ worker[i] = "calling"
  /\ worker' = [worker EXCEPT ![i] = "returned"]
  /\ UNCHANGED <<running, busy, workerResult, workerThread, stopFlag, homing,
                 jobVars, stopVars, pcMain, pcPoll>>

\* The call returns or raises; homing's finally clears the flag either way.
WorkerReturns(i) ==
  /\ worker[i] = "calling"
  /\ worker' = [worker EXCEPT ![i] = "returned"]
  /\ homing' = (homing /\ kind[i] # "homing")
  /\ UNCHANGED <<running, busy, workerResult, workerThread, stopFlag, jobVars,
                 stopVars, pcMain, pcPoll>>

\* Mutant of WorkerReports: the status is not reset.
WorkerReportsStaysBusy(i) ==
  /\ worker[i] = "returned" /\ LockFree
  /\ worker' = [worker EXCEPT ![i] = "ending"]
  /\ workerResult' = i /\ busy' = busy
  /\ UNCHANGED <<running, workerThread, stopFlag, homing, jobVars, stopVars,
                 pcMain, pcPoll>>

\* The result is written unless the stop flag is up; the status is always
\* reset.
WorkerReports(i) ==
  /\ worker[i] = "returned" /\ LockFree
  /\ worker' = [worker EXCEPT ![i] = "ending"]
  /\ workerResult' = IF stopFlag THEN workerResult ELSE i
  /\ busy' = FALSE
  /\ UNCHANGED <<running, workerThread, stopFlag, homing, jobVars, stopVars,
                 pcMain, pcPoll>>

WorkerEnds(i) ==
  /\ worker[i] = "ending"
  /\ worker' = [worker EXCEPT ![i] = "dead"]
  /\ UNCHANGED <<running, busy, workerResult, workerThread, stopFlag, homing,
                 jobVars, stopVars, pcMain, pcPoll>>

Worker(i) ==
  /\ pcMain # "done"
  /\ WorkerCalls(i) \/ WorkerReturns(i) \/ WorkerReports(i) \/ WorkerEnds(i)

\* _poll_state_once looks at the homing flag ...
PollCheck ==
  /\ pcPoll = "check"
  /\ pcPoll' = IF ~ running THEN "done" ELSE IF homing THEN "check" ELSE "read"
  /\ UNCHANGED <<running, busy, workerResult, workerThread, stopFlag, homing,
                 jobVars, worker, stopVars, pcMain>>

\* ... and, having let go of the lock, calls read_once.
PollRead ==
  /\ pcPoll = "read" /\ pcPoll' = "check"
  /\ UNCHANGED <<running, busy, workerResult, workerThread, stopFlag, homing,
                 jobVars, worker, stopVars, pcMain>>

Poll == pcMain # "done" /\ (PollCheck \/ PollRead)

Next == Main \/ Signal \/ Poll \/ \E i \in Ids : Worker(i)

Fairness ==
  WF_vars(Main) /\ WF_vars(Poll) /\ \A i \in Ids : WF_vars(Worker(i))

Spec == Init /\ [][Next]_vars /\ Fairness

-----------------------------------------------------------------------------
(* Properties. *)

\* The values of GripperServer.__init__ onwards.
TypeOK ==
  /\ running \in BOOLEAN /\ busy \in BOOLEAN
  /\ stopFlag \in BOOLEAN /\ homing \in BOOLEAN
  /\ workerResult \in Ids \union {None} /\ workerThread \in Ids \union {None}
  /\ submitted \in 0 .. MaxJobs
  /\ kind \in [Ids -> Jobs \union {"none"}]
  /\ worker \in [Ids -> {"none", "spawned", "calling", "returned", "ending",
                         "dead"}]
  /\ stopped \subseteq Ids /\ everStopped \in BOOLEAN
  /\ pcMain \in {"top", "recv", "start", "lock", "join", "reset", "end", "done"}
  /\ pcMain = "start" => submitted > 0
  /\ pcMain = "join" => workerThread # None
  /\ pcPoll \in {"check", "read", "done"}

\* Until a stop, the gripper runs one job at a time: two threads are never
\* inside its blocking calls ("Gripper busy", gripper_server.py:324-328).
OneJobAtATime ==
  \A i, j \in Ids :
    worker[i] = "calling" /\ worker[j] = "calling" => i = j \/ everStopped

\* The server does for its clients what JobSlot says.
Slot == INSTANCE JobSlot
          WITH Ops <- Ids, op <- submitted, reported <- workerResult,
               interrupted <- everStopped
ImplementsSlot == Slot!Spec

\* Homing never stops the polling for good (gripper_server.py:267-269).
PollingResumes == homing ~> pcPoll = "read" \/ ~ running

\* A stop is answered although it waits, with the lock, for a worker that
\* needs the lock (gripper_server.py:302-308, 333).
StopAnswered == stopFlag ~> ~ stopFlag

\* BUSY never stays for good, whatever jobs and stops come.
BusyEnds == busy ~> ~ busy \/ ~ running

\* "Skip writing result if stop was requested" (gripper_server.py:334): a job
\* in progress when a stop is requested leaves no result.
StoppedJobWritesNothing ==
  [][\A i \in stopped : workerResult' = i => workerResult = i]_vars

\* "Skips polling during homing to avoid interrupting the calibration"
\* (gripper_server.py:358).
NoPollDuringHoming ==
  [][PollRead =>
       \A i \in Ids : ~ (worker[i] = "calling" /\ kind[i] = "homing")]_vars
=============================================================================
