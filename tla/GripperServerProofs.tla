------------------------- MODULE GripperServerProofs -------------------------
(***************************************************************************)
(* Theorems about the gripper server, for any number of jobs.              *)
(***************************************************************************)
EXTENDS GripperServer, TLAPS

\* A stop is remembered; it stays a Boolean.
LEMMA LatchStep ==
  ASSUME everStopped \in BOOLEAN, [Next]_vars
  PROVE  everStopped' \in BOOLEAN /\ (everStopped => everStopped')
<1> USE DEF jobVars, stopVars
<1>1. RecvStop => everStopped' = TRUE
  BY DEF RecvStop
<1>2. (Main /\ ~ RecvStop) \/ Signal => UNCHANGED everStopped
  BY DEF Main, MainTop, RecvNothing, RecvGetState, Submit, StartWorker,
         RecvBusy, StopLocks, StopJoins, StopResets, RecvShutdown, MainEnds,
         Signal
<1>3. Poll \/ UNCHANGED vars => UNCHANGED everStopped
  BY DEF Poll, PollCheck, PollRead, vars
<1>4. ASSUME NEW i \in Ids, Worker(i)
      PROVE  UNCHANGED everStopped
  BY <1>4 DEF Worker, WorkerCalls, WorkerReturns, WorkerReports, WorkerEnds
<1>5. everStopped' = TRUE \/ UNCHANGED everStopped
  BY <1>1, <1>2, <1>3, <1>4, Zenon DEF Next
<1> QED
  BY <1>5, Zenon

\* The values of every variable, with any requests, stop among them
\* (GripperServer.__init__ onwards).
THEOREM GripperTypeCorrect == Spec => []TypeOK
<1>1. Init => TypeOK
  <2> SUFFICES ASSUME Init PROVE TypeOK
    OBVIOUS
  <2>1. MaxJobs \in Nat /\ 0 \in 0 .. MaxJobs
    BY GripperAssumption DEF GripperAssumption
  <2>2. kind \in [Ids -> Jobs \union {"none"}]
    BY DEF Init
  <2>3. worker \in [Ids -> {"none", "spawned", "calling", "returned", "ending",
                           "dead"}]
    BY DEF Init
  <2> QED
    BY <2>1, <2>2, <2>3 DEF Init, TypeOK
<1>2. TypeOK /\ [Next]_vars => TypeOK'
  <2> SUFFICES ASSUME TypeOK, [Next]_vars PROVE TypeOK'
    OBVIOUS
  <2>0. everStopped' \in BOOLEAN
    BY LatchStep DEF TypeOK
  <2> USE GripperAssumption, <2>0
      DEF GripperAssumption, TypeOK, Ids, None, jobVars, stopVars
  <2>1. CASE MainTop \/ RecvNothing \/ RecvGetState \/ RecvShutdown \/ MainEnds
    BY <2>1 DEF MainTop, RecvNothing, RecvGetState, RecvShutdown, MainEnds
  <2>2. ASSUME NEW k \in Jobs, Submit(k)
        PROVE  TypeOK'
    BY <2>2 DEF Submit
  <2>3. ASSUME NEW k \in Jobs, RecvBusy(k)
        PROVE  TypeOK'
    BY <2>3 DEF RecvBusy
  <2>4. CASE StartWorker
    BY <2>4 DEF StartWorker
  <2>5. CASE RecvStop
    BY <2>5 DEF RecvStop
  <2>6. CASE StopLocks \/ StopJoins \/ StopResets
    BY <2>6 DEF StopLocks, StopJoins, StopResets
  <2>7. CASE Signal
    BY <2>7, Zenon DEF Signal
  <2>8. CASE PollCheck \/ PollRead
    BY <2>8 DEF PollCheck, PollRead
  <2>9. ASSUME NEW i \in Ids, WorkerCalls(i) \/ WorkerReturns(i)
        PROVE  TypeOK'
    <3>1. worker' \in [Ids -> {"none", "spawned", "calling", "returned",
                               "ending", "dead"}]
      BY <2>9 DEF WorkerCalls, WorkerReturns
    <3>2. homing' \in BOOLEAN
      BY <2>9 DEF WorkerCalls, WorkerReturns
    <3>3. UNCHANGED <<running, busy, workerResult, workerThread, stopFlag,
                      submitted, kind, stopped, pcMain, pcPoll>>
      BY <2>9 DEF WorkerCalls, WorkerReturns
    <3> QED
      BY <3>1, <3>2, <3>3, Zenon
  <2>10. ASSUME NEW i \in Ids, WorkerReports(i) \/ WorkerEnds(i)
         PROVE  TypeOK'
    <3>1. worker' \in [Ids -> {"none", "spawned", "calling", "returned",
                               "ending", "dead"}]
      BY <2>10 DEF WorkerReports, WorkerEnds
    <3>2. /\ busy' \in BOOLEAN
          /\ workerResult' \in Ids \union {None}
      BY <2>10 DEF WorkerReports, WorkerEnds
    <3> QED
      BY <2>10, <3>1, <3>2, Zenon DEF WorkerReports, WorkerEnds
  <2>11. CASE UNCHANGED vars
    BY <2>11 DEF vars
  <2> QED
    BY <2>1, <2>2, <2>3, <2>4, <2>5, <2>6, <2>7, <2>8, <2>9, <2>10, <2>11, Zenon
       DEF Next, Main, Poll, Worker
<1> QED
  BY <1>1, <1>2, PTL DEF Spec
-----------------------------------------------------------------------------
(* One job at a time.  Until a stop, a job is in progress from the step that  *)
(* accepts it to the one in which its thread reports it: first on the main    *)
(* thread, about to get its thread, then on its thread.                       *)

InProgress(i) == worker[i] \in {"spawned", "calling", "returned"}

JobAlone ==
  \A i \in Ids : InProgress(i) => busy /\ i = submitted /\ pcMain # "start"

StartAlone == pcMain = "start" => busy

ResultOut == ~ busy /\ submitted # 0 => workerResult = submitted

NoStop == ~ stopFlag /\ pcMain \notin {"lock", "join", "reset"}

Inv == everStopped \/ (JobAlone /\ StartAlone /\ ResultOut /\ NoStop)

\* The inductive invariant is kept by every step: the
\* worker that reports is the one of the job in progress
\* (gripper_server.py:324-351).
LEMMA InvStep ==
  ASSUME TypeOK, Inv, [Next]_vars
  PROVE  Inv'
<1> SUFFICES ASSUME ~ everStopped' PROVE Inv'
  BY DEF Inv
<1> ~ everStopped
  BY LatchStep DEF TypeOK
<1> USE GripperAssumption
    DEF GripperAssumption, TypeOK, Ids, Inv, JobAlone, StartAlone, ResultOut,
        NoStop, InProgress, jobVars, stopVars
<1>1. CASE MainTop \/ RecvNothing \/ RecvGetState \/ RecvShutdown \/ MainEnds
  BY <1>1 DEF MainTop, RecvNothing, RecvGetState, RecvShutdown, MainEnds
<1>2. ASSUME NEW k \in Jobs, Submit(k)
      PROVE  Inv'
  BY <1>2 DEF Submit
<1>3. ASSUME NEW k \in Jobs, RecvBusy(k)
      PROVE  Inv'
  BY <1>3 DEF RecvBusy
<1>4. CASE StartWorker
  BY <1>4 DEF StartWorker
<1>5. ~ (RecvStop \/ StopLocks \/ StopJoins \/ StopResets)
  BY DEF RecvStop, StopLocks, StopJoins, StopResets
<1>6. CASE Signal
  BY <1>6 DEF Signal
<1>7. CASE PollCheck \/ PollRead
  BY <1>7 DEF PollCheck, PollRead
<1>8. ASSUME NEW i \in Ids, WorkerCalls(i) \/ WorkerReturns(i)
      PROVE  Inv'
  BY <1>8 DEF WorkerCalls, WorkerReturns
<1>9. ASSUME NEW i \in Ids, WorkerReports(i) \/ WorkerEnds(i)
      PROVE  Inv'
  BY <1>9 DEF WorkerReports, WorkerEnds
<1>10. CASE UNCHANGED vars
  BY <1>10 DEF vars
<1> QED
  BY <1>1, <1>2, <1>3, <1>4, <1>5, <1>6, <1>7, <1>8, <1>9, <1>10, Zenon
     DEF Next, Main, Poll, Worker

\* Until a stop, a job is in one place from its acceptance to its report.
THEOREM OneJob == Spec => []Inv
<1>1. Init => Inv
  BY DEF Init, Inv, JobAlone, StartAlone, ResultOut, NoStop, InProgress
<1> QED
  BY <1>1, InvStep, GripperTypeCorrect, PTL DEF Spec

\* Until a stop, two threads are never inside the gripper's blocking calls
\* (gripper_server.py:324-328).
THEOREM GripperOneAtATime == Spec => []OneJobAtATime
<1>1. Inv => OneJobAtATime
  BY DEF Inv, JobAlone, InProgress, OneJobAtATime
<1> QED
  BY <1>1, OneJob, PTL

\* Until a stop, the gripper server keeps what JobSlot promises to a polling
\* client, for any number of jobs (gripper_server.py:246-253, 317-351).
THEOREM GripperImplementsSlot == Spec => ImplementsSlot
<1>1. Init => Slot!Init
  BY DEF Init, Slot!Init, None
<1>2. TypeOK /\ Inv /\ [Next]_vars => [Slot!Next]_(Slot!vars)
  <2> SUFFICES ASSUME TypeOK, Inv, [Next]_vars
               PROVE  Slot!Next \/ UNCHANGED Slot!vars
    OBVIOUS
  <2>0. CASE everStopped'
    BY <2>0 DEF Slot!Next, Slot!Interrupt
  <2> SUFFICES ASSUME ~ everStopped'
               PROVE  Slot!Next \/ UNCHANGED Slot!vars
    BY <2>0
  <2>a. ~ everStopped
    BY LatchStep DEF TypeOK
  <2>1. ASSUME NEW k \in Jobs, Submit(k)
        PROVE  Slot!Next
    <3>1. Slot!Accept(submitted + 1)
      BY <2>1 DEF Submit, Slot!Accept, None, TypeOK, stopVars
    <3>2. submitted + 1 \in Ids
      BY <2>1, GripperAssumption DEF Submit, TypeOK, Ids, GripperAssumption
    <3> QED
      BY <3>1, <3>2 DEF Slot!Next
  <2>2. ASSUME NEW i \in Ids, WorkerReports(i)
        PROVE  Slot!Next
    BY <2>2, <2>a
       DEF WorkerReports, Inv, JobAlone, InProgress, NoStop, jobVars, stopVars,
           Slot!Next, Slot!Finish
  <2>3. ASSUME NEW i \in Ids,
               WorkerCalls(i) \/ WorkerReturns(i) \/ WorkerEnds(i)
        PROVE  UNCHANGED Slot!vars
    BY <2>3
       DEF WorkerCalls, WorkerReturns, WorkerEnds, jobVars, stopVars, Slot!vars
  <2>4. ~ (RecvStop \/ StopLocks \/ StopJoins \/ StopResets)
    BY <2>a DEF RecvStop, StopLocks, StopJoins, StopResets, Inv, NoStop
  <2>5. ASSUME NEW k \in Jobs, RecvBusy(k)
        PROVE  UNCHANGED Slot!vars
    BY <2>5 DEF RecvBusy, jobVars, stopVars, Slot!vars
  <2>6. CASE MainTop \/ RecvNothing \/ RecvGetState \/ RecvShutdown
             \/ StartWorker \/ MainEnds \/ Signal \/ PollCheck \/ PollRead
             \/ UNCHANGED vars
    BY <2>6
       DEF MainTop, RecvNothing, RecvGetState, RecvShutdown, StartWorker,
           MainEnds, Signal, PollCheck, PollRead, vars, jobVars, stopVars,
           Slot!vars
  <2> QED
    BY <2>1, <2>2, <2>3, <2>4, <2>5, <2>6, Zenon DEF Next, Main, Poll, Worker
<1> QED
  BY <1>1, <1>2, GripperTypeCorrect, OneJob, PTL
     DEF Spec, ImplementsSlot, Slot!Spec
=============================================================================
