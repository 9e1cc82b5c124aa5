---------------------------- MODULE RobotiqServer ----------------------------
(***************************************************************************)
(* The Robotiq server: as the gripper server, with a lock around the       *)
(* hardware, which jobs hold for the length of their call, and the cached  *)
(* state refreshed at the end of a job, after a stop and by polling.       *)
(*                                                                         *)
(* Every job (activate, reset, move, open, close) takes the same path.     *)
(* The state of the hardware is the last job whose call returned; reads of *)
(* it and the with-blocks on _worker_lock are single steps.                *)
(***************************************************************************)
EXTENDS Naturals

CONSTANTS
  Commands,       \* the requests the clients send ("SIGINT" is the signal)
  MaxJobs         \* bound on the jobs submitted

ASSUME RobotiqAssumption ==
  /\ Commands \subseteq {"job", "stop", "get_state", "shutdown", "SIGINT"}
  /\ MaxJobs \in Nat

Ids  == 1 .. MaxJobs
None == 0

VARIABLES
  running,        \* _running
  busy,           \* _worker_status = BUSY
  workerResult,   \* _worker_result: the job whose result it is
  workerThread,   \* _worker_thread: the job it runs
  stopFlag,       \* _stop_flag
  everStopped,    \* history: has a stop been requested?
  submitted,      \* how many jobs were accepted; the last one's number
  worker,         \* the life of each job's thread
  position,       \* the hardware's state
  cached,         \* _cached_state: the hardware state it was read from
  reading,        \* what each job, the poll thread and stop read
  pcMain, pcPoll

threadVars == <<pcMain, pcPoll>>
stopVars   == <<stopFlag, everStopped>>
stateVars  == <<position, cached, reading>>
vars == <<running, busy, workerResult, workerThread, stopVars, submitted,
          worker, stateVars, threadVars>>

\* The readers of the hardware: the jobs, the poll thread and stop.
PollReader == MaxJobs + 1
StopReader == MaxJobs + 2
Readers    == 1 .. MaxJobs + 2

Init ==
  /\ running = TRUE /\ busy = FALSE /\ stopFlag = FALSE /\ everStopped = FALSE
  /\ workerResult = None /\ workerThread = None /\ submitted = 0
  /\ worker = [i \in Ids |-> "none"]
  /\ position = None /\ cached = None /\ reading = [r \in Readers |-> None]
  /\ pcMain = "top" /\ pcPoll = "check"

\* is_alive() of a worker thread.
Alive(i) == worker[i] \notin {"none", "dead"}

\* _worker_lock is held over several steps only by stop, _hardware_lock only
\* by a job's call.
LockFree     == pcMain \notin {"join", "reset"}
HardwareFree == \A i \in Ids : worker[i] # "calling"

-----------------------------------------------------------------------------
(* Main thread. *)

\* A step of the main thread that changes nothing else.
MainGoes(from, to) ==
  /\ pcMain = from /\ pcMain' = to
  /\ UNCHANGED <<running, busy, workerResult, workerThread, stopVars,
                 submitted, worker, stateVars, pcPoll>>

\* while self._running
MainTop == MainGoes("top", IF running THEN "recv" ELSE "end")

\* zmq.Again, an unknown request, or a move without a position.
RecvNothing == MainGoes("recv", "top")

\* The reply carries the cached state, and the status and the result under
\* one lock.
RecvGetState == "get_state" \in Commands /\ MainGoes("recv", "top")

\* Mutant of Submit: BUSY is not looked at.
SubmitAnyway ==
  /\ pcMain = "recv" /\ "job" \in Commands
  /\ submitted < MaxJobs
  /\ busy' = TRUE /\ workerResult' = None
  /\ submitted' = submitted + 1 /\ pcMain' = "start"
  /\ UNCHANGED <<running, workerThread, stopVars, worker, stateVars, pcPoll>>

\* Mutant of Submit: the job is not counted, so no thread is its own.
SubmitUncounted ==
  /\ pcMain = "recv" /\ "job" \in Commands /\ ~ busy
  /\ busy' = TRUE /\ workerResult' = None /\ pcMain' = "start"
  /\ UNCHANGED <<running, workerThread, stopVars, submitted, worker, stateVars,
                 pcPoll>>

\* _submit_job accepts a job ...
Submit ==
  /\ pcMain = "recv" /\ "job" \in Commands
  /\ ~ busy /\ submitted < MaxJobs
  /\ busy' = TRUE /\ workerResult' = None
  /\ submitted' = submitted + 1 /\ pcMain' = "start"
  /\ UNCHANGED <<running, workerThread, stopVars, worker, stateVars, pcPoll>>

\* ... and, out of the lock, starts its thread.
StartWorker ==
  /\ pcMain = "start" /\ pcMain' = "top"
  /\ workerThread' = submitted
  /\ worker' = [worker EXCEPT ![submitted] = "spawned"]
  /\ UNCHANGED <<running, busy, workerResult, stopVars, submitted, stateVars,
                 pcPoll>>

\* "Robotiq busy"
RecvBusy == "job" \in Commands /\ busy /\ MainGoes("recv", "top")

\* stop raises its flag and, without the hardware lock, stops the hardware.
RecvStop ==
  /\ pcMain = "recv" /\ "stop" \in Commands
  /\ stopFlag' = TRUE /\ everStopped' = TRUE /\ pcMain' = "lock"
  /\ UNCHANGED <<running, busy, workerResult, workerThread, submitted, worker,
                 stateVars, pcPoll>>

\* It takes the worker lock and, holding it, joins a live worker ...
StopLocks ==
  MainGoes("lock", IF workerThread # None /\ Alive(workerThread)
                   THEN "join" ELSE "reset")

\* Mutant of StopJoins: the join has no timeout.
StopJoinsForever ==
  pcMain = "join" /\ ~ Alive(workerThread) /\ MainGoes("join", "reset")

\* ... for 2 s at most; the worker may need the lock to end.
StopJoins == MainGoes("join", "reset")

StopResets ==
  /\ pcMain = "reset" /\ pcMain' = "refresh"
  /\ busy' = FALSE /\ workerResult' = None /\ workerThread' = None
  /\ stopFlag' = FALSE
  /\ UNCHANGED <<running, everStopped, submitted, worker, stateVars, pcPoll>>

\* The hardware is read under its lock, then the cache written under its own;
\* what was read is of no use after that.
Read(r)   == /\ HardwareFree /\ reading' = [reading EXCEPT ![r] = position]
             /\ UNCHANGED <<position, cached>>
Update(r) == /\ cached' = reading[r] /\ reading' = [reading EXCEPT ![r] = None]
             /\ UNCHANGED position

\* The refresh at the end of stop; a read that fails is swallowed.
StopReads ==
  /\ pcMain = "refresh"
  /\ \/ Read(StopReader) /\ pcMain' = "update"
     \/ HardwareFree /\ UNCHANGED stateVars /\ pcMain' = "top"
  /\ UNCHANGED <<running, busy, workerResult, workerThread, stopVars,
                 submitted, worker, pcPoll>>

StopUpdates ==
  /\ pcMain = "update" /\ pcMain' = "top" /\ Update(StopReader)
  /\ UNCHANGED <<running, busy, workerResult, workerThread, stopVars,
                 submitted, worker, pcPoll>>

RecvShutdown ==
  /\ pcMain = "recv" /\ "shutdown" \in Commands
  /\ running' = FALSE /\ pcMain' = "top"
  /\ UNCHANGED <<busy, workerResult, workerThread, stopVars, submitted, worker,
                 stateVars, pcPoll>>

\* _cleanup joins the poll thread, 2 s at most, and disconnects; the poll
\* thread outlasts that only behind a job's call.
MainEnds ==
  /\ pcMain = "end" /\ pcMain' = "done"
  /\ pcPoll = "done" \/ (pcPoll = "read" /\ ~ HardwareFree)
  /\ UNCHANGED <<running, busy, workerResult, workerThread, stopVars,
                 submitted, worker, stateVars, pcPoll>>

\* SIGINT or SIGTERM.
Signal ==
  /\ "SIGINT" \in Commands /\ running /\ running' = FALSE
  /\ UNCHANGED <<busy, workerResult, workerThread, stopVars, submitted, worker,
                 stateVars, threadVars>>

Main ==
  \/ MainTop \/ RecvNothing \/ RecvGetState \/ Submit \/ StartWorker
  \/ RecvBusy \/ RecvStop \/ StopLocks \/ StopJoins \/ StopResets \/ StopReads
  \/ StopUpdates \/ RecvShutdown \/ MainEnds

-----------------------------------------------------------------------------
(* Workers and the poll thread; they are daemons, gone with the process. *)

\* A step of a worker that changes only the worker.
WorkerGoes(i, from, to) ==
  /\ worker[i] = from /\ worker' = [worker EXCEPT ![i] = to]
  /\ UNCHANGED <<running, busy, workerResult, workerThread, stopVars,
                 submitted, threadVars>>

\* _call_hardware takes the hardware lock and calls.
WorkerCalls(i) ==
  HardwareFree /\ WorkerGoes(i, "spawned", "calling") /\ UNCHANGED stateVars

\* The call returns, or raises, which skips the refresh.
WorkerReturns(i) ==
  /\ \/ WorkerGoes(i, "calling", "returned")
     \/ WorkerGoes(i, "calling", "ready")
  /\ position' = i
  /\ UNCHANGED <<cached, reading>>

\* The job looks at the stop flag and, unless it is up, refreshes the cache;
\* a read that fails is swallowed.
WorkerChecks(i) ==
  /\ WorkerGoes(i, "returned", IF stopFlag THEN "ready" ELSE "refreshing")
  /\ UNCHANGED stateVars

WorkerReads(i) ==
  \/ WorkerGoes(i, "refreshing", "read") /\ Read(i)
  \/ HardwareFree /\ WorkerGoes(i, "refreshing", "ready") /\ UNCHANGED stateVars

WorkerUpdates(i) == WorkerGoes(i, "read", "ready") /\ Update(i)

\* The result is written unless the stop flag is up; the status is reset.
WorkerReports(i) ==
  /\ worker[i] = "ready" /\ LockFree
  /\ worker' = [worker EXCEPT ![i] = "ending"]
  /\ workerResult' = IF stopFlag THEN workerResult ELSE i
  /\ busy' = FALSE
  /\ UNCHANGED <<running, workerThread, stopVars, submitted, stateVars,
                 threadVars>>

WorkerEnds(i) == WorkerGoes(i, "ending", "dead") /\ UNCHANGED stateVars

Worker(i) ==
  /\ pcMain # "done"
  /\ \/ WorkerCalls(i) \/ WorkerReturns(i) \/ WorkerChecks(i)
     \/ WorkerReads(i) \/ WorkerUpdates(i) \/ WorkerReports(i) \/ WorkerEnds(i)

\* A step of the poll thread.
PollGoes(from, to) ==
  /\ pcPoll = from /\ pcPoll' = to
  /\ UNCHANGED <<running, busy, workerResult, workerThread, stopVars,
                 submitted, worker, pcMain>>

\* while self._running
PollEnds == ~ running /\ PollGoes("check", "done") /\ UNCHANGED stateVars

\* _poll_once leaves a busy server alone ...
PollCheck ==
  /\ running /\ LockFree /\ ~ busy
  /\ PollGoes("check", "read") /\ UNCHANGED stateVars

\* Mutant of PollUpdates: what was read is not stored.
PollForgets == PollGoes("update", "check") /\ UNCHANGED stateVars

\* ... but reads after it has let go of the worker lock, and updates the
\* cache after it has let go of the hardware's.  A read that fails is tried
\* again at the next poll.
PollReads   == PollGoes("read", "update") /\ Read(PollReader)
PollFails   == HardwareFree /\ PollGoes("read", "check") /\ UNCHANGED stateVars
PollUpdates == PollGoes("update", "check") /\ Update(PollReader)

Poll ==
  /\ pcMain # "done"
  /\ PollEnds \/ PollCheck \/ PollReads \/ PollFails \/ PollUpdates

Next == Main \/ Signal \/ Poll \/ \E i \in Ids : Worker(i)

\* Every thread goes on, and reads do not fail for ever.
Fairness ==
  /\ WF_vars(Main) /\ WF_vars(Poll) /\ \A i \in Ids : WF_vars(Worker(i))
  /\ SF_vars(PollReads)

Spec == Init /\ [][Next]_vars /\ Fairness

-----------------------------------------------------------------------------
(* Properties. *)

FlagTypes ==
  /\ running \in BOOLEAN /\ busy \in BOOLEAN
  /\ stopFlag \in BOOLEAN /\ everStopped \in BOOLEAN

JobTypes ==
  /\ workerResult \in Ids \union {None} /\ workerThread \in Ids \union {None}
  /\ submitted \in 0 .. MaxJobs
  /\ worker \in [Ids -> {"none", "spawned", "calling", "returned",
                         "refreshing", "read", "ready", "ending", "dead"}]
  /\ pcMain \in {"top", "recv", "start", "lock", "join", "reset", "refresh",
                 "update", "end", "done"}
  /\ pcMain = "start" => submitted > 0
  /\ pcMain = "join" => workerThread # None

StateTypes ==
  /\ position \in Ids \union {None} /\ cached \in Ids \union {None}
  /\ reading \in [Readers -> Ids \union {None}]
  /\ pcPoll \in {"check", "read", "update", "done"}

\* The values of RobotiqServer.__init__ onwards; a thread is started, or
\* joined, only for a job that was accepted.
TypeOK == FlagTypes /\ JobTypes /\ StateTypes

\* The server does for its clients what JobSlot says.
Slot == INSTANCE JobSlot
          WITH Ops <- Ids, op <- submitted, reported <- workerResult,
               interrupted <- everStopped
ImplementsSlot == Slot!Spec

\* Until a stop, jobs reach the hardware in the order in which they were
\* accepted, although their threads race for it (robotiq_server.py:547-549).
HardwareInOrder == [][everStopped \/ position' >= position]_vars

\* Whatever old reading a late poll or refresh stores, the cache ends up with
\* the state the last job left (robotiq_server.py:528-557), unless a client
\* sends stop.
CacheCatchesUp ==
  \A i \in Ids :
    position = i /\ submitted = i
      ~> cached = i \/ submitted # i \/ everStopped \/ ~ running

\* A stop is answered although it waits, with the worker lock, for a worker
\* that needs it, and then for the hardware lock (robotiq_server.py:485-492).
StopAnswered == pcMain = "lock" ~> pcMain = "top"
=============================================================================
