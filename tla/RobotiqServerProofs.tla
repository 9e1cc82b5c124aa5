------------------------- MODULE RobotiqServerProofs -------------------------
(***************************************************************************)
(* Theorems about the Robotiq server, for any number of jobs.              *)
(***************************************************************************)
EXTENDS RobotiqServer, TLAPS

\* The flags stay Boolean.
LEMMA FlagStep == FlagTypes /\ [Next]_vars => FlagTypes'
<1> SUFFICES ASSUME FlagTypes, [Next]_vars PROVE FlagTypes'
  OBVIOUS
<1> USE DEF FlagTypes, stateVars, threadVars, stopVars
<1>1. CASE Main \/ Signal
  BY <1>1, Zenon
     DEF Main, MainTop, RecvNothing, RecvGetState, Submit, StartWorker,
         RecvBusy, RecvStop, StopLocks, StopJoins, StopResets, StopReads,
         StopUpdates, RecvShutdown, MainEnds, Signal, MainGoes, Read, Update
<1>2. CASE Poll
  BY <1>2, Zenon
     DEF Poll, PollEnds, PollCheck, PollReads, PollFails, PollUpdates,
         PollGoes, Read, Update
<1>3. ASSUME NEW i \in Ids, Worker(i)
      PROVE  FlagTypes'
  BY <1>3, Zenon
     DEF Worker, WorkerCalls, WorkerReturns, WorkerChecks, WorkerReads,
         WorkerUpdates, WorkerReports, WorkerEnds, WorkerGoes, Read, Update
<1>4. CASE UNCHANGED vars
  BY <1>4, Zenon DEF vars
<1> QED
  BY <1>1, <1>2, <1>3, <1>4 DEF Next

\* A stop is remembered.
LEMMA LatchStep == everStopped /\ [Next]_vars => everStopped'
<1> SUFFICES ASSUME everStopped, [Next]_vars PROVE everStopped'
  OBVIOUS
<1> USE DEF stopVars
<1>1. CASE Main \/ Signal
  BY <1>1, Zenon
     DEF Main, MainTop, RecvNothing, RecvGetState, Submit, StartWorker,
         RecvBusy, RecvStop, StopLocks, StopJoins, StopResets, StopReads,
         StopUpdates, RecvShutdown, MainEnds, Signal, MainGoes
<1>2. CASE Poll
  BY <1>2, Zenon
     DEF Poll, PollEnds, PollCheck, PollReads, PollFails, PollUpdates, PollGoes
<1>3. ASSUME NEW i \in Ids, Worker(i)
      PROVE  everStopped'
  BY <1>3, Zenon
     DEF Worker, WorkerCalls, WorkerReturns, WorkerChecks, WorkerReads,
         WorkerUpdates, WorkerReports, WorkerEnds, WorkerGoes
<1>4. CASE UNCHANGED vars
  BY <1>4, Zenon DEF vars
<1> QED
  BY <1>1, <1>2, <1>3, <1>4 DEF Next

\* The hardware, the cache and what was read from it are jobs that were
\* accepted, or none.
LEMMA StateStep == TypeOK /\ [Next]_vars => StateTypes'
<1> SUFFICES ASSUME StateTypes, [Next]_vars PROVE StateTypes'
  BY DEF TypeOK
<1> USE DEF StateTypes, stateVars, threadVars, stopVars
<1>1. ASSUME NEW r \in Readers, Read(r) \/ Update(r),
             pcPoll' \in {"check", "read", "update", "done"}
      PROVE  StateTypes'
  BY <1>1 DEF Read, Update
<1>2. Ids \subseteq Readers /\ StopReader \in Readers /\ PollReader \in Readers
  BY RobotiqAssumption
     DEF RobotiqAssumption, Ids, Readers, StopReader, PollReader
<1>3. CASE StopReads \/ StopUpdates
  BY <1>1, <1>2, <1>3 DEF StopReads, StopUpdates
<1>4. CASE Signal \/ MainEnds
  BY <1>4 DEF Signal, MainEnds
<1>5. CASE Main /\ ~ StopReads /\ ~ StopUpdates /\ ~ MainEnds
  BY <1>5
     DEF Main, MainTop, RecvNothing, RecvGetState, Submit, StartWorker,
         RecvBusy, RecvStop, StopLocks, StopJoins, StopResets, RecvShutdown,
         MainGoes
<1>6. CASE Poll
  BY <1>1, <1>2, <1>6
     DEF Poll, PollEnds, PollCheck, PollReads, PollFails, PollUpdates, PollGoes
<1>7. ASSUME NEW i \in Ids, Worker(i)
      PROVE  StateTypes'
  BY <1>1, <1>2, <1>7
     DEF Worker, WorkerCalls, WorkerReturns, WorkerChecks, WorkerReads,
         WorkerUpdates, WorkerReports, WorkerEnds, WorkerGoes
<1>8. CASE UNCHANGED vars
  BY <1>8 DEF vars
<1> QED
  BY <1>3, <1>4, <1>5, <1>6, <1>7, <1>8 DEF Next

\* A thread is started, or joined, only for a job that was accepted.
LEMMA JobStep == TypeOK /\ [Next]_vars => JobTypes'
<1> SUFFICES ASSUME JobTypes, [Next]_vars PROVE JobTypes'
  BY DEF TypeOK
<1> USE RobotiqAssumption
    DEF RobotiqAssumption, JobTypes, Ids, None, stateVars, threadVars, stopVars
<1>1. CASE MainTop \/ RecvNothing \/ RecvGetState \/ RecvBusy \/ StopLocks
           \/ StopJoins
  BY <1>1
     DEF MainTop, RecvNothing, RecvGetState, RecvBusy, StopLocks, StopJoins,
         MainGoes
<1>2. CASE Submit \/ RecvStop \/ RecvShutdown
  BY <1>2 DEF Submit, RecvStop, RecvShutdown
<1>3. CASE StartWorker
  BY <1>3 DEF StartWorker
<1>4. CASE StopResets \/ StopReads \/ StopUpdates \/ MainEnds
  BY <1>4 DEF StopResets, StopReads, StopUpdates, MainEnds
<1>5. CASE Signal
  BY <1>5 DEF Signal
<1>6. CASE Poll
  BY <1>6 DEF Poll, PollEnds, PollCheck, PollReads, PollFails, PollUpdates,
              PollGoes
<1>7. ASSUME NEW i \in Ids,
             WorkerCalls(i) \/ WorkerReturns(i) \/ WorkerChecks(i)
               \/ WorkerReads(i) \/ WorkerUpdates(i) \/ WorkerEnds(i)
      PROVE  JobTypes'
  BY <1>7
     DEF WorkerCalls, WorkerReturns, WorkerChecks, WorkerReads, WorkerUpdates,
         WorkerEnds, WorkerGoes
<1>8. ASSUME NEW i \in Ids, WorkerReports(i)
      PROVE  JobTypes'
  BY <1>8 DEF WorkerReports
<1>9. CASE UNCHANGED vars
  BY <1>9 DEF vars
<1> QED
  BY <1>1, <1>2, <1>3, <1>4, <1>5, <1>6, <1>7, <1>8, <1>9, Zenon
     DEF Next, Main, Worker

\* The values of every variable, with any requests, stop among them
\* (RobotiqServer.__init__ onwards).
THEOREM RobotiqTypeCorrect == Spec => []TypeOK
<1>1. Init => TypeOK
  <2> SUFFICES ASSUME Init PROVE TypeOK
    OBVIOUS
  <2>1. FlagTypes
    BY DEF Init, FlagTypes
  <2>2. JobTypes
    BY RobotiqAssumption DEF RobotiqAssumption, Init, JobTypes
  <2>3. StateTypes
    BY DEF Init, StateTypes
  <2> QED
    BY <2>1, <2>2, <2>3 DEF TypeOK
<1>2. TypeOK /\ [Next]_vars => TypeOK'
  BY FlagStep, StateStep, JobStep DEF TypeOK
<1> QED
  BY <1>1, <1>2, PTL DEF Spec

-----------------------------------------------------------------------------
(* One job at a time.  Until a stop, a job is in progress from the step that  *)
(* accepts it to the one in which its thread reports it: first on the main    *)
(* thread, about to get its thread, then on its thread.                       *)

InProgress(i) ==
  worker[i] \in
    {"spawned", "calling", "returned", "refreshing", "read", "ready"}

JobAlone ==
  \A i \in Ids : InProgress(i) => busy /\ i = submitted /\ pcMain # "start"

StartAlone == pcMain = "start" => busy

ResultOut == ~ busy /\ submitted # 0 => workerResult = submitted

NoStop ==
  ~ stopFlag /\ pcMain \notin {"lock", "join", "reset", "refresh", "update"}

\* The hardware is never ahead of what was accepted.
NotAhead == position <= submitted

Inv ==
  everStopped
    \/ (JobAlone /\ StartAlone /\ ResultOut /\ NoStop /\ NotAhead)

\* The inductive invariant is kept by every step
\* (robotiq_server.py:499-526).
LEMMA InvStep ==
  ASSUME TypeOK, Inv, [Next]_vars
  PROVE  Inv'
<1> SUFFICES ASSUME ~ everStopped' PROVE Inv'
  BY DEF Inv
<1> ~ everStopped
  BY LatchStep
<1> USE RobotiqAssumption
    DEF RobotiqAssumption, TypeOK, JobTypes, Ids, None, Inv, JobAlone,
        StartAlone, ResultOut, NoStop, NotAhead, InProgress, stateVars,
        threadVars, stopVars
<1>1. CASE MainTop \/ RecvNothing \/ RecvGetState \/ RecvBusy
  BY <1>1 DEF MainTop, RecvNothing, RecvGetState, RecvBusy, MainGoes
<1>2. CASE Submit
  BY <1>2 DEF Submit, StateTypes
<1>3. CASE StartWorker
  BY <1>3 DEF StartWorker
<1>4. ~ (RecvStop \/ StopLocks \/ StopJoins \/ StopResets \/ StopReads
           \/ StopUpdates)
  BY DEF RecvStop, StopLocks, StopJoins, StopResets, StopReads, StopUpdates,
         MainGoes
<1>5. CASE RecvShutdown \/ MainEnds \/ Signal
  BY <1>5 DEF RecvShutdown, MainEnds, Signal
<1>6. CASE Poll
  BY <1>6
     DEF Poll, PollEnds, PollCheck, PollReads, PollFails, PollUpdates,
         PollGoes, Read, Update
<1>7. ASSUME NEW i \in Ids, WorkerCalls(i) \/ WorkerReturns(i) \/ WorkerEnds(i)
      PROVE  Inv'
  BY <1>7 DEF WorkerCalls, WorkerReturns, WorkerEnds, WorkerGoes
<1>8. ASSUME NEW i \in Ids,
             WorkerChecks(i) \/ WorkerReads(i) \/ WorkerUpdates(i)
      PROVE  Inv'
  BY <1>8 DEF WorkerChecks, WorkerReads, WorkerUpdates, WorkerGoes, Read, Update
<1>9. ASSUME NEW i \in Ids, WorkerReports(i)
      PROVE  Inv'
  BY <1>9 DEF WorkerReports
<1>10. CASE UNCHANGED vars
  BY <1>10 DEF vars
<1> QED
  BY <1>1, <1>2, <1>3, <1>4, <1>5, <1>6, <1>7, <1>8, <1>9, <1>10, Zenon
     DEF Next, Main, Worker

\* Until a stop, a job is in one place from its acceptance to its report, and
\* the hardware has seen no job that was not accepted.
THEOREM OneJob == Spec => []Inv
<1>1. Init => Inv
  BY DEF Init, Inv, JobAlone, StartAlone, ResultOut, NoStop, NotAhead,
         InProgress, None
<1> QED
  BY <1>1, InvStep, RobotiqTypeCorrect, PTL DEF Spec

\* Until a stop, jobs reach the hardware in the order of their acceptance
\* (robotiq_server.py:547-549): HardwareInOrder.
THEOREM RobotiqInOrder == Spec => HardwareInOrder
<1>1. TypeOK /\ Inv /\ [Next]_vars
        => [everStopped \/ position' >= position]_vars
  <2> SUFFICES ASSUME TypeOK, Inv, Next, ~ everStopped
               PROVE  position' >= position
    OBVIOUS
  <2>1. position \in Nat /\ position >= position
    BY RobotiqAssumption DEF TypeOK, StateTypes, Ids, None, RobotiqAssumption
  <2>2. ASSUME NEW i \in Ids, WorkerReturns(i)
        PROVE  position' >= position
    BY <2>2, RobotiqAssumption
       DEF WorkerReturns, WorkerGoes, Inv, JobAlone, InProgress, NotAhead,
           TypeOK, JobTypes, StateTypes, Ids, None, RobotiqAssumption
  <2>3. ASSUME NEW i \in Ids, Worker(i), ~ WorkerReturns(i)
        PROVE  position' = position
    BY <2>3
       DEF Worker, WorkerCalls, WorkerChecks, WorkerReads, WorkerUpdates,
           WorkerReports, WorkerEnds, Read, Update, stateVars
  <2>4. CASE Poll
    BY <2>1, <2>4
       DEF Poll, PollEnds, PollCheck, PollReads, PollFails, PollUpdates, Read,
           Update, stateVars
  <2>5. CASE Main \/ Signal
    BY <2>1, <2>5
       DEF Main, MainTop, RecvNothing, RecvGetState, Submit, StartWorker,
           RecvBusy, RecvStop, StopLocks, StopJoins, StopResets, StopReads,
           StopUpdates, RecvShutdown, MainEnds, Signal, MainGoes, Read, Update,
           stateVars
  <2> QED
    BY <2>1, <2>2, <2>3, <2>4, <2>5 DEF Next
<1> QED
  BY <1>1, RobotiqTypeCorrect, OneJob, PTL DEF Spec, HardwareInOrder

\* Until a stop, the Robotiq server keeps what JobSlot promises to a polling
\* client, for any number of jobs (robotiq_server.py:408-414, 499-526).
THEOREM RobotiqImplementsSlot == Spec => ImplementsSlot
<1>1. Init => Slot!Init
  BY DEF Init, Slot!Init, None
<1>2. TypeOK /\ Inv /\ [Next]_vars => [Slot!Next]_(Slot!vars)
  <2> SUFFICES ASSUME TypeOK, Inv, [Next]_vars
               PROVE  Slot!Next \/ UNCHANGED Slot!vars
    OBVIOUS
  <2>0. CASE everStopped'
    BY <2>0 DEF Slot!Next, Slot!Interrupt
  <2> SUFFICES ASSUME ~ everStopped'
               PROVE  Slot!Next \/ UNCHANGED Slot!vars
    BY <2>0
  <2>a. ~ everStopped
    BY LatchStep
  <2> USE DEF stopVars
  <2>1. CASE Submit
    <3>1. Slot!Accept(submitted + 1)
      BY <2>1 DEF Submit, Slot!Accept, None, TypeOK, JobTypes
    <3>2. submitted + 1 \in Ids
      BY <2>1, RobotiqAssumption
         DEF Submit, TypeOK, JobTypes, Ids, RobotiqAssumption
    <3> QED
      BY <3>1, <3>2 DEF Slot!Next
  <2>2. ASSUME NEW i \in Ids, WorkerReports(i)
        PROVE  Slot!Next
    BY <2>2, <2>a
       DEF WorkerReports, Inv, JobAlone, InProgress, NoStop, Slot!Next,
           Slot!Finish
  <2>3. ASSUME NEW i \in Ids, Worker(i), ~ WorkerReports(i)
        PROVE  UNCHANGED Slot!vars
    BY <2>3
       DEF Worker, WorkerCalls, WorkerReturns, WorkerChecks, WorkerReads,
           WorkerUpdates, WorkerEnds, WorkerGoes, Slot!vars
  <2>4. ~ (RecvStop \/ StopLocks \/ StopJoins \/ StopResets \/ StopReads
             \/ StopUpdates)
    BY <2>a
       DEF RecvStop, StopLocks, StopJoins, StopResets, StopReads, StopUpdates,
           MainGoes, Inv, NoStop
  <2>5. CASE MainTop \/ RecvNothing \/ RecvGetState \/ RecvBusy \/ StartWorker
             \/ RecvShutdown \/ MainEnds \/ Signal \/ Poll \/ UNCHANGED vars
    BY <2>5
       DEF MainTop, RecvNothing, RecvGetState, RecvBusy, StartWorker,
           RecvShutdown, MainEnds, Signal, Poll, PollEnds, PollCheck,
           PollReads, PollFails, PollUpdates, PollGoes, MainGoes, vars,
           Slot!vars
  <2> QED
    BY <2>1, <2>2, <2>3, <2>4, <2>5, Zenon DEF Next, Main
<1> QED
  BY <1>1, <1>2, RobotiqTypeCorrect, OneJob, PTL
     DEF Spec, ImplementsSlot, Slot!Spec
=============================================================================
