-------------------------- MODULE RobotServerProofs --------------------------
(***************************************************************************)
(* Theorems about the robot server, for any set of requests and any number *)
(* of commands.                                                            *)
(***************************************************************************)
EXTENDS RobotServer, TLAPS

\* The values that RobotServer.__init__ gives.
LEMMA InitTypeOK == Init => TypeOK
<1> SUFFICES ASSUME Init PROVE TypeOK
  OBVIOUS
<1> USE ServerAssumption DEF ServerAssumption, Init, Ids, None
<1>1. FlagTypes
  BY DEF FlagTypes
<1>2. RobotTypes
  BY DEF RobotTypes
<1>3. CommandTypes
  BY DEF CommandTypes
<1>4. OperationTypes
  BY DEF OperationTypes
<1>5. MainTypes
  BY DEF MainTypes
<1>6. ControllerTypes
  BY DEF ControllerTypes
<1> QED
  BY <1>1, <1>2, <1>3, <1>4, <1>5, <1>6 DEF TypeOK

-----------------------------------------------------------------------------
(* Types: each part of TypeOK is preserved by every step. *)

\* The flags stay Boolean.
LEMMA FlagStep == FlagTypes /\ Next => FlagTypes'
<1> SUFFICES ASSUME FlagTypes, Next PROVE FlagTypes'
  OBVIOUS
<1> USE DEF FlagTypes, mainVars, ctrlVars, robotVars, opVars
<1>1. CASE Main \/ Signal
  BY <1>1, Zenon
     DEF Main, Signal, MainTop, RecvNothing, RecvSet, RecvGetState, ReplyState,
         RecvShutdown, MainPut, MainAnswer, MainTimeout, MainJoin, MainTerm,
         RecvBlocking, RecvWaited, RecvRejected, Make
<1>2. CASE Controller
  BY <1>2, Zenon
     DEF Controller, CtrlTop, CtrlTake, CtrlSkipSet, CtrlApplySet,
         CtrlSetFails, CtrlSpawn, CtrlFast, CtrlBeginConnect,
         CtrlConnectReturns, CtrlConnectDone, CtrlBeginInterrupt, CtrlJoined,
         CtrlJoinTimeout, CtrlRelease, CtrlClear, CtrlDrained, CtrlReap,
         CtrlPoll, CtrlClose, CtrlDestroy, Destroy, Dequeue
<1>3. CASE \E i \in Ids : Helper(i)
  BY <1>3, Zenon
     DEF Helper, HelperBinds, HelperCalls, HelperFindsNone, HelperReturns,
         HelperWrites
<1> QED
  BY <1>1, <1>2, <1>3 DEF Next

\* Only commands that were made are in the queue, whatever steps are taken.
LEMMA CommandStep == TypeOK /\ Next => CommandTypes'
<1> SUFFICES ASSUME TypeOK, Next PROVE CommandTypes'
  OBVIOUS
<1> USE ServerAssumption DEF ServerAssumption, TypeOK, CommandTypes, Ids
<1>1. CASE UNCHANGED <<issued, cmdQueue, name>>
  BY <1>1
<1>2. ASSUME NEW c \in Commands, Make(c), cmdQueue' = cmdQueue, c \in Queued
      PROVE  CommandTypes'
  <2>1. issued' = issued + 1 /\ issued' \in 1 .. MaxCmds
    BY <1>2 DEF Make
  <2>2. cmdQueue' \in Seq(1 .. issued')
    BY <1>2, <2>1
  <2>3. name' \in [Ids -> Queued \union {"none"}]
    BY <1>2 DEF Make
  <2>4. \A i \in 1 .. issued' : name'[i] \in Commands
    BY <1>2, <2>1 DEF Make
  <2> QED
    BY <2>1, <2>2, <2>3, <2>4
<1>3. CASE MainPut
  <2>1. issued > 0
    BY <1>3 DEF MainPut, MainTypes
  <2>2. cmdQueue' \in Seq(1 .. issued)
    BY <1>3, <2>1 DEF MainPut
  <2> QED
    BY <1>3, <2>2 DEF MainPut
<1>4. ASSUME NEW i \in Ids, Dequeue(i), UNCHANGED mainVars
      PROVE  CommandTypes'
  BY <1>4 DEF Dequeue, mainVars
<1>5. CASE Main
   BY <1>1, <1>2, <1>3, <1>5, Zenon
     DEF Main, MainTop, RecvNothing, RecvSet, RecvGetState, ReplyState,
         RecvShutdown, MainAnswer, MainTimeout, MainJoin, MainTerm,
         RecvBlocking, RecvWaited, RecvRejected, Make, Queued, mainVars
<1>6. CASE Signal
   BY <1>1, <1>6 DEF Signal, mainVars
<1>7. CASE Controller
   BY <1>1, <1>4, <1>7, Zenon DEF
    Controller, CtrlTop, CtrlTake, CtrlSkipSet, CtrlApplySet,
         CtrlSetFails, CtrlSpawn, CtrlFast, CtrlBeginConnect,
         CtrlConnectReturns, CtrlConnectDone, CtrlBeginInterrupt, CtrlJoined,
         CtrlJoinTimeout, CtrlRelease, CtrlClear, CtrlDrained, CtrlReap,
         CtrlPoll, CtrlClose, CtrlDestroy, mainVars
<1>8. CASE \E i \in Ids : Helper(i)
  BY <1>1, <1>8, Zenon
     DEF Helper, HelperBinds, HelperCalls, HelperFindsNone, HelperReturns,
         HelperWrites, mainVars
<1> QED
  BY <1>5, <1>6, <1>7, <1>8, Zenon DEF Next
\* The controllers are numbered by the connects that made them.
LEMMA RobotStep == TypeOK /\ Next => RobotTypes'
<1> SUFFICES ASSUME TypeOK, Next PROVE RobotTypes'
  OBVIOUS
<1> USE ServerAssumption DEF ServerAssumption, TypeOK, RobotTypes, Ids, None
<1>1. CASE UNCHANGED robotVars
  BY <1>1 DEF robotVars
<1>2. CASE CtrlConnectReturns
  <2>1. ctrlCmd \in Ids
    BY <1>2 DEF CtrlConnectReturns, ControllerTypes, CommandTypes
  <2> QED
    BY <1>2, <2>1 DEF CtrlConnectReturns
<1>3. CASE loops' \subseteq loops /\ UNCHANGED <<connected, controller>>
  BY <1>3
<1>4. CASE Destroy
  BY <1>4 DEF Destroy
<1>5. CASE CtrlPoll
  BY <1>5 DEF CtrlPoll, robotVars
<1>6. ASSUME NEW i \in Ids, HelperCalls(i)
      PROVE  RobotTypes'
  <2>1. target[i] \in Ids
    BY <1>6 DEF HelperCalls, OperationTypes
  <2> QED
    BY <1>6, <2>1 DEF HelperCalls
<1>7. CASE Main \/ Signal
  BY <1>1, <1>7, Zenon
     DEF Main, Signal, MainTop, RecvNothing, RecvSet, RecvGetState, ReplyState,
         RecvShutdown, MainPut, MainAnswer, MainTimeout, MainJoin, MainTerm,
         RecvBlocking, RecvWaited, RecvRejected
<1>8. ASSUME NEW i \in Ids, CtrlBeginInterrupt(i)
      PROVE  RobotTypes'
  BY <1>8 DEF CtrlBeginInterrupt
<1>9. CASE Controller
  BY <1>1, <1>2, <1>4, <1>5, <1>8, <1>9, Zenon
     DEF Controller, CtrlTop, CtrlTake, CtrlSkipSet, CtrlApplySet,
         CtrlSetFails, CtrlSpawn, CtrlFast, CtrlBeginConnect, CtrlConnectDone,
         CtrlJoined, CtrlJoinTimeout, CtrlRelease, CtrlClear, CtrlDrained,
         CtrlReap, CtrlClose, CtrlDestroy
<1>10. CASE \E i \in Ids : Helper(i)
  BY <1>1, <1>6, <1>10, Zenon
     DEF Helper, HelperBinds, HelperFindsNone, HelperReturns, HelperWrites
<1> QED
  BY <1>7, <1>9, <1>10, Zenon DEF Next

\* Outcomes, helpers and their targets keep their values' shape.
LEMMA OperationStep == TypeOK /\ Next => OperationTypes'
<1> SUFFICES ASSUME TypeOK, Next PROVE OperationTypes'
  OBVIOUS
<1> USE ServerAssumption DEF ServerAssumption, TypeOK, OperationTypes, Ids, None
<1>1. CASE UNCHANGED opVars
  BY <1>1 DEF opVars
<1>2. ASSUME NEW c \in Commands, RecvBlocking(c)
      PROVE  OperationTypes'
  BY <1>2 DEF RecvBlocking
<1>3. ASSUME NEW i \in Ids, CtrlSpawn(i) \/ CtrlFast(i)
      PROVE  OperationTypes'
  BY <1>3 DEF CtrlSpawn, CtrlFast
<1>4. CASE CtrlConnectReturns
  <2>1. ctrlCmd \in Ids
    BY <1>4 DEF CtrlConnectReturns, ControllerTypes, CommandTypes
  <2> QED
    BY <1>4, <2>1 DEF CtrlConnectReturns
<1>5. CASE CtrlJoined
  BY <1>5 DEF CtrlJoined
<1>6. CASE CtrlJoinTimeout
  BY <1>6 DEF CtrlJoinTimeout
<1>7. CASE CtrlClear
  BY <1>7 DEF CtrlClear
<1>8. CASE CtrlReap
  <2>1. blockingThread' \in {blockingThread, None}
    BY <1>8 DEF CtrlReap
  <2> QED
    BY <1>8, <2>1 DEF CtrlReap
<1>9. ASSUME NEW i \in Ids, HelperBinds(i)
      PROVE  OperationTypes'
  BY <1>9 DEF HelperBinds, RobotTypes
<1>10. ASSUME NEW i \in Ids, HelperCalls(i)
       PROVE  OperationTypes'
  BY <1>10 DEF HelperCalls
<1>11. ASSUME NEW i \in Ids, NEW r \in {"ok", "failed"}, HelperWrites(i, r)
       PROVE  OperationTypes'
  BY <1>11 DEF HelperWrites
<1>12. CASE Main \/ Signal
  BY <1>1, <1>2, <1>12, Zenon
     DEF Main, Signal, MainTop, RecvNothing, RecvSet, RecvGetState, ReplyState,
         RecvShutdown, MainPut, MainAnswer, MainTimeout, MainJoin, MainTerm,
         RecvWaited, RecvRejected
<1>13. CASE Controller
  BY <1>1, <1>3, <1>4, <1>5, <1>6, <1>7, <1>8, <1>13, Zenon
     DEF Controller, CtrlTop, CtrlTake, CtrlSkipSet, CtrlApplySet,
         CtrlSetFails, CtrlBeginConnect, CtrlConnectDone, CtrlBeginInterrupt,
         CtrlRelease, CtrlDrained, CtrlPoll, CtrlClose, CtrlDestroy
<1>14. CASE \E i \in Ids : Helper(i)
  BY <1>9, <1>10, <1>11, <1>14, Zenon
     DEF Helper, HelperFindsNone, HelperReturns
<1> QED
  BY <1>12, <1>13, <1>14, Zenon DEF Next

\* The main thread holds, and has last accepted, a command that was made.
LEMMA MainStep == TypeOK /\ Next => MainTypes'
<1> SUFFICES ASSUME TypeOK, Next PROVE MainTypes'
  OBVIOUS
<1> USE ServerAssumption DEF ServerAssumption, TypeOK, MainTypes, Ids, None
<1>1. CASE UNCHANGED mainVars
  BY <1>1 DEF mainVars
<1>2. ASSUME NEW c \in Commands, RecvBlocking(c)
      PROVE  MainTypes'
  BY <1>2 DEF RecvBlocking, Make, CommandTypes
<1>3. ASSUME NEW c \in Commands, RecvWaited(c)
      PROVE  MainTypes'
  BY <1>3 DEF RecvWaited, Make, CommandTypes
<1>4. CASE RecvGetState
  <2>1. statusRead' \in {"busy", "idle"}
    BY <1>4 DEF RecvGetState
  <2> QED
    BY <1>4, <2>1 DEF RecvGetState
<1>5. CASE /\ pcMain' \in {"top", "recv", "join", "term", "done"}
           /\ UNCHANGED <<statusRead, lastAccepted, issued>>
  BY <1>5
<1>6. CASE MainPut
  BY <1>6 DEF MainPut
<1>7. CASE Main
  BY <1>2, <1>3, <1>4, <1>5, <1>6, <1>7
     DEF Main, MainTop, RecvNothing, RecvSet, ReplyState, RecvShutdown,
         MainAnswer, MainTimeout, MainJoin, MainTerm, RecvRejected
<1>8. CASE Signal \/ Controller
  BY <1>1, <1>8, Zenon
     DEF Signal, Controller, CtrlTop, CtrlTake, CtrlSkipSet, CtrlApplySet,
         CtrlSetFails, CtrlSpawn, CtrlFast, CtrlBeginConnect,
         CtrlConnectReturns, CtrlConnectDone, CtrlBeginInterrupt, CtrlJoined,
         CtrlJoinTimeout, CtrlRelease, CtrlClear, CtrlDrained, CtrlReap,
         CtrlPoll, CtrlClose, CtrlDestroy
<1>9. CASE \E i \in Ids : Helper(i)
  BY <1>1, <1>9, Zenon
     DEF Helper, HelperBinds, HelperCalls, HelperFindsNone, HelperReturns,
         HelperWrites
<1> QED
  BY <1>7, <1>8, <1>9, Zenon DEF Next

\* A command number only grows, so the controller thread's stays valid.
LEMMA ControllerStep == TypeOK /\ Next => ControllerTypes'
<1> SUFFICES ASSUME TypeOK, Next PROVE ControllerTypes'
  OBVIOUS
<1> USE ServerAssumption
    DEF ServerAssumption, TypeOK, ControllerTypes, Ids, None
<1>1. CASE UNCHANGED <<pcCtrl, ctrlCmd, issued>>
  BY <1>1
<1>2. ASSUME NEW c \in Commands, RecvBlocking(c) \/ RecvWaited(c)
      PROVE  ControllerTypes'
  BY <1>2 DEF RecvBlocking, RecvWaited, Make, CommandTypes, ctrlVars
<1>3. CASE /\ pcCtrl' \in {"top", "take", "set", "drain", "reap", "poll",
                           "close", "destroy", "done"}
           /\ UNCHANGED <<ctrlCmd, issued>>
  BY <1>3
<1>4. ASSUME NEW i \in Ids, CtrlBeginConnect(i)
      PROVE  ControllerTypes'
  BY <1>4 DEF CtrlBeginConnect, Dequeue, CommandTypes, mainVars
<1>5. ASSUME NEW i \in Ids, CtrlBeginInterrupt(i)
      PROVE  ControllerTypes'
  <2>1. pcCtrl' \in {"joining", "clear", "release"}
    BY <1>5 DEF CtrlBeginInterrupt
  <2>2. ctrlCmd' = i /\ i \in 1 .. issued /\ issued' = issued
    BY <1>5 DEF CtrlBeginInterrupt, Dequeue, CommandTypes, mainVars
  <2> QED
    BY <2>1, <2>2
<1>6. CASE CtrlConnectReturns
  BY <1>6 DEF CtrlConnectReturns, mainVars
<1>7. CASE CtrlJoined
  BY <1>7 DEF CtrlJoined, mainVars
<1>8. CASE CtrlRelease
  BY <1>8 DEF CtrlRelease, mainVars
<1>9. CASE Main \/ Signal
  BY <1>1, <1>2, <1>9, Zenon
     DEF Main, Signal, MainTop, RecvNothing, RecvSet, RecvGetState, ReplyState,
         RecvShutdown, MainPut, MainAnswer, MainTimeout, MainJoin, MainTerm,
         RecvRejected, mainVars, ctrlVars
<1>10. CASE Controller
  <2>1. \A i \in Ids : CtrlSpawn(i) \/ CtrlFast(i) => ControllerTypes'
    BY <1>1, Zenon DEF CtrlSpawn, CtrlFast, ctrlVars, mainVars
  <2>2. CASE CtrlTop
    BY <1>3, <2>2 DEF CtrlTop, mainVars
  <2>3. CASE CtrlTake \/ CtrlSkipSet \/ CtrlApplySet \/ CtrlSetFails
    BY <1>3, <2>3
       DEF CtrlTake, CtrlSkipSet, CtrlApplySet, CtrlSetFails, mainVars
  <2>4. CASE CtrlConnectDone \/ CtrlJoinTimeout \/ CtrlClear \/ CtrlDrained
    BY <1>3, <2>4
       DEF CtrlConnectDone, CtrlJoinTimeout, CtrlClear, CtrlDrained, mainVars
  <2>5. CASE CtrlReap \/ CtrlPoll \/ CtrlClose \/ CtrlDestroy
    BY <1>3, <2>5 DEF CtrlReap, CtrlPoll, CtrlClose, CtrlDestroy, mainVars
  <2> QED
    BY <1>4, <1>5, <1>6, <1>7, <1>8, <1>10, <2>1, <2>2, <2>3, <2>4, <2>5, Zenon
       DEF Controller
<1>11. CASE \E i \in Ids : Helper(i)
  BY <1>1, <1>11, Zenon
     DEF Helper, HelperBinds, HelperCalls, HelperFindsNone, HelperReturns,
         HelperWrites, mainVars, ctrlVars
<1> QED
  BY <1>9, <1>10, <1>11, Zenon DEF Next
-----------------------------------------------------------------------------
(* One blocking operation at a time.  Without stop and disconnect, an         *)
(* operation from its acceptance to its report is in exactly one place: about *)
(* to be put in the queue, in the queue, in connect on the controller thread, *)
(* or on the tracked helper.  The flag is set while it is in one of them, so  *)
(* the busy check admits no second one.                                       *)

QueuedBlocking(k) == k \in DOMAIN cmdQueue /\ name[cmdQueue[k]] \in Blocking

AboutToPut == pcMain = "put" /\ name[issued] \in Blocking

Connecting == pcCtrl \in {"connecting", "connected"}

NothingOnController == ~ Connecting /\ blockingThread = None

PutAlone ==
  AboutToPut => /\ busy /\ issued = lastAccepted /\ NothingOnController
                /\ \A k \in Nat : ~ QueuedBlocking(k)

QueuedAlone ==
  \A k \in Nat : QueuedBlocking(k) =>
    /\ busy /\ cmdQueue[k] = lastAccepted /\ NothingOnController
    /\ \A l \in Nat : QueuedBlocking(l) => l = k

ConnectAlone ==
  Connecting => /\ busy /\ ctrlCmd = lastAccepted /\ blockingThread = None
                /\ pcCtrl = "connected" => workerResult = ctrlCmd

HelperAlone ==
  /\ blockingThread # None =>
       /\ busy /\ blockingThread = lastAccepted
       /\ Alive(blockingThread) \/ workerResult = blockingThread
  /\ \A i \in Ids : Alive(i) => blockingThread = i

Reported == ~ busy /\ lastAccepted # None => workerResult = lastAccepted

IdleRead == pcMain = "state" /\ statusRead = "idle" => ~ busy

NoInterrupt == pcCtrl \notin {"joining", "release", "clear"}

Inv == /\ PutAlone /\ QueuedAlone /\ ConnectAlone /\ HelperAlone
       /\ Reported /\ IdleRead /\ NoInterrupt

\* No operation is anywhere at the start.
LEMMA InitInv == Init => Inv
<1> SUFFICES ASSUME Init PROVE Inv
  OBVIOUS
<1>1. PutAlone /\ ConnectAlone /\ Reported /\ IdleRead /\ NoInterrupt
  BY DEF Init, PutAlone, AboutToPut, ConnectAlone, Connecting, Reported,
         IdleRead, NoInterrupt
<1>2. QueuedAlone
  BY DEF Init, QueuedAlone, QueuedBlocking
<1>3. HelperAlone
  BY DEF Init, HelperAlone, Alive
<1> QED
  BY <1>1, <1>2, <1>3 DEF Inv

\* Without interrupts among the commands, none is in the queue.
LEMMA NamesInQueue ==
  ASSUME Commands \intersect Interrupt = {}, TypeOK,
         NEW k \in DOMAIN cmdQueue
  PROVE  cmdQueue[k] \in 1 .. issued /\ name[cmdQueue[k]] \notin Interrupt
BY DEF TypeOK, CommandTypes

\* The steps of the main thread but accepting, enqueueing and get_state.
LEMMA MainMoves ==
  ASSUME Inv,
         pcMain' \in {"top", "recv", "wait", "join", "term", "done"},
         UNCHANGED <<busy, cmdQueue, lastAccepted, issued, name, ctrlVars,
                     opVars>>
  PROVE  Inv'
BY DEF Inv, PutAlone, AboutToPut, QueuedAlone, QueuedBlocking, ConnectAlone,
     Connecting, HelperAlone, Alive, Reported, IdleRead, NoInterrupt,
     NothingOnController, ctrlVars, opVars

\* The steps of the controller thread that touch no operation.
LEMMA ControllerMoves ==
  ASSUME Inv, ~ Connecting, ~ Connecting', NoInterrupt',
         UNCHANGED <<busy, cmdQueue, mainVars, ctrlCmd, opVars>>
  PROVE  Inv'
BY DEF Inv, PutAlone, AboutToPut, QueuedAlone, QueuedBlocking, ConnectAlone,
     HelperAlone, Alive, Reported, IdleRead, NothingOnController, mainVars,
     opVars

\* A server that is not busy has no operation anywhere.
LEMMA IdleIsEmpty ==
  ASSUME Inv, ~ busy
  PROVE  /\ ~ AboutToPut /\ NothingOnController
         /\ \A k \in Nat : ~ QueuedBlocking(k)
         /\ \A i \in Ids : ~ Alive(i)
<1>1. ~ AboutToPut /\ NothingOnController /\ \A k \in Nat : ~ QueuedBlocking(k)
  BY DEF Inv, PutAlone, QueuedAlone, ConnectAlone, HelperAlone,
         NothingOnController
<1>2. \A i \in Ids : ~ Alive(i)
  BY <1>1, ServerAssumption
     DEF Inv, HelperAlone, NothingOnController, Ids, None, ServerAssumption
<1> QED
  BY <1>1, <1>2

\* Accepting puts the operation in one place, enqueueing moves it to the next.
LEMMA MainKeepsInv ==
  ASSUME Commands \intersect Interrupt = {}, TypeOK, Inv, Main
  PROVE  Inv'
<1>1. CASE RecvGetState
  <2>1. pcMain' = "state" /\ (statusRead' = "idle" => ~ busy)
    BY <1>1 DEF RecvGetState
  <2>2. UNCHANGED <<busy, cmdQueue, lastAccepted, issued, name, ctrlVars,
                    opVars>>
    BY <1>1 DEF RecvGetState
  <2> QED
    BY <2>1, <2>2
       DEF Inv, PutAlone, AboutToPut, QueuedAlone, QueuedBlocking,
           ConnectAlone, Connecting, HelperAlone, Alive, Reported, IdleRead,
           NoInterrupt, NothingOnController, ctrlVars, opVars
<1>2. ASSUME NEW c \in Commands, Make(c), cmdQueue' = cmdQueue
      PROVE  /\ issued' = issued + 1 /\ name'[issued'] = c
             /\ \A k \in Nat : QueuedBlocking(k)' <=> QueuedBlocking(k)
  BY <1>2, ServerAssumption
     DEF Make, QueuedBlocking, TypeOK, CommandTypes, Ids, ServerAssumption
<1>3. ASSUME NEW c \in Commands, RecvBlocking(c)
      PROVE  Inv'
  <2>1. ~ busy /\ Make(c) /\ cmdQueue' = cmdQueue /\ pcMain' = "put"
    BY <1>3 DEF RecvBlocking, Make
  <2>2. /\ busy' /\ lastAccepted' = issued' /\ ~ Connecting'
        /\ blockingThread' = None
        /\ \A k \in Nat : ~ QueuedBlocking(k)'
        /\ \A i \in Ids : ~ Alive(i)'
        /\ NoInterrupt'
    BY <1>2, <1>3, <2>1, IdleIsEmpty
       DEF RecvBlocking, NothingOnController, Connecting, ctrlVars, Alive,
           Inv, NoInterrupt
  <2> QED
    BY <2>1, <2>2
       DEF Inv, PutAlone, QueuedAlone, ConnectAlone, HelperAlone, Reported,
           IdleRead, NothingOnController
<1>4. ASSUME NEW c \in Commands, RecvWaited(c)
      PROVE  Inv'
  <2>1. /\ Make(c) /\ cmdQueue' = cmdQueue /\ pcMain' = "put"
        /\ UNCHANGED <<busy, lastAccepted, ctrlVars, opVars>>
        /\ c \notin Blocking
    BY <1>4 DEF RecvWaited, Make, Interrupt, Fast, Blocking
  <2>2. ~ AboutToPut'
    BY <1>2, <2>1 DEF AboutToPut
  <2> QED
    BY <1>2, <2>1, <2>2
       DEF Inv, PutAlone, QueuedAlone, ConnectAlone, Connecting, HelperAlone,
           Alive, Reported, IdleRead, NoInterrupt, NothingOnController,
           ctrlVars, opVars
<1>5. CASE MainPut
  <2>1. /\ pcMain' \notin {"put", "state"}
        /\ cmdQueue' = Append(cmdQueue, issued)
        /\ UNCHANGED <<busy, statusRead, lastAccepted, issued, name, ctrlVars,
                       opVars>>
    BY <1>5 DEF MainPut
  <2>2. CASE AboutToPut
    <3>1. /\ busy /\ issued = lastAccepted /\ NothingOnController
          /\ \A k \in Nat : ~ QueuedBlocking(k)
      BY <2>2 DEF Inv, PutAlone
    <3>2. \A k \in Nat : QueuedBlocking(k)' =>
            k = Len(cmdQueue) + 1 /\ cmdQueue'[k] = issued
      BY <2>1, <3>1 DEF QueuedBlocking, TypeOK, CommandTypes
    <3>3. QueuedAlone'
      BY <2>1, <3>1, <3>2
         DEF QueuedAlone, NothingOnController, Connecting, ctrlVars, opVars
    <3> QED
      BY <2>1, <3>3
         DEF Inv, PutAlone, AboutToPut, ConnectAlone, Connecting, HelperAlone,
             Alive, Reported, IdleRead, NoInterrupt, ctrlVars, opVars
  <2>3. CASE ~ AboutToPut
    <3>1. name[issued] \notin Blocking
      BY <1>5, <2>3 DEF MainPut, AboutToPut
    <3>2. \A k \in Nat : QueuedBlocking(k)' =>
            QueuedBlocking(k) /\ cmdQueue'[k] = cmdQueue[k]
      BY <2>1, <3>1 DEF QueuedBlocking, TypeOK, CommandTypes
    <3>3. QueuedAlone'
      BY <2>1, <3>2
         DEF Inv, QueuedAlone, NothingOnController, Connecting, ctrlVars,
             opVars
    <3> QED
      BY <2>1, <3>3
         DEF Inv, PutAlone, AboutToPut, ConnectAlone, Connecting, HelperAlone,
             Alive, Reported, IdleRead, NoInterrupt, ctrlVars, opVars
  <2> QED
    BY <2>2, <2>3
<1> QED
  BY <1>1, <1>3, <1>4, <1>5, MainMoves
     DEF Main, MainTop, RecvNothing, RecvSet, ReplyState, RecvShutdown,
         MainAnswer, MainTimeout, MainJoin, MainTerm, RecvRejected

\* Taking the head of the queue shifts the rest by one.
LEMMA DequeueShifts ==
  ASSUME TypeOK, NEW i \in Ids, Dequeue(i), UNCHANGED mainVars
  PROVE  /\ 1 \in DOMAIN cmdQueue /\ i = cmdQueue[1]
         /\ QueuedBlocking(1) <=> name[i] \in Blocking
         /\ \A k \in Nat : QueuedBlocking(k)' =>
              k # 0 /\ QueuedBlocking(k + 1) /\ cmdQueue'[k] = cmdQueue[k + 1]
BY DEF Dequeue, QueuedBlocking, TypeOK, CommandTypes, mainVars

\* A blocking command at the head is the only operation anywhere, and taking
\* it leaves none in the queue.
LEMMA DequeueBlocking ==
  ASSUME TypeOK, Inv, NEW i \in Ids, Dequeue(i), UNCHANGED mainVars,
         name[i] \in Blocking
  PROVE  /\ busy /\ i = lastAccepted /\ blockingThread = None
         /\ ~ AboutToPut
         /\ \A k \in Nat : ~ QueuedBlocking(k)'
<1>1. QueuedBlocking(1) /\ i = cmdQueue[1]
  BY DequeueShifts
<1>2. /\ busy /\ i = lastAccepted /\ blockingThread = None
      /\ \A l \in Nat : QueuedBlocking(l) => l = 1
  BY <1>1 DEF Inv, QueuedAlone, NothingOnController
<1>3. ~ AboutToPut
  BY <1>1 DEF Inv, PutAlone
<1>4. \A k \in Nat : ~ QueuedBlocking(k)'
  BY <1>2, DequeueShifts
<1> QED
  BY <1>2, <1>3, <1>4

\* The controller thread moves the operation on, to connect or to a helper,
\* and clears the flag when its outcome is out.
LEMMA ControllerKeepsInv ==
  ASSUME Commands \intersect Interrupt = {}, TypeOK, Inv, Controller
  PROVE  Inv'
<1> USE DEF None
<1>1. ASSUME NEW i \in Ids, CtrlSpawn(i)
      PROVE  Inv'
  <2>1. /\ busy /\ i = lastAccepted /\ blockingThread = None /\ ~ AboutToPut
        /\ \A k \in Nat : ~ QueuedBlocking(k)'
    BY <1>1, DequeueBlocking DEF CtrlSpawn, Blocking
  <2>2. \A j \in Ids : Alive(j)' => j = i
    BY <1>1, <2>1, ServerAssumption
       DEF CtrlSpawn, Inv, HelperAlone, Alive, TypeOK, OperationTypes, Ids,
           ServerAssumption
  <2>3. Alive(i)' /\ blockingThread' = i
    BY <1>1 DEF CtrlSpawn, Alive, TypeOK, OperationTypes
  <2>4. /\ UNCHANGED <<busy, mainVars, ctrlVars>>
        /\ pcCtrl = "drain"
    BY <1>1 DEF CtrlSpawn, Dequeue
  <2> QED
    BY <2>1, <2>2, <2>3, <2>4
       DEF Inv, PutAlone, AboutToPut, QueuedAlone, ConnectAlone, Connecting,
           HelperAlone, Reported, IdleRead, NoInterrupt, mainVars, ctrlVars
<1>2. ASSUME NEW i \in Ids, CtrlFast(i)
      PROVE  Inv'
  <2>1. /\ Dequeue(i) /\ name[i] \notin Blocking
        /\ UNCHANGED <<busy, mainVars, ctrlVars, workerResult, blockingThread,
                       helper>>
    BY <1>2 DEF CtrlFast, Fast, Blocking
  <2>2. \A k \in Nat : QueuedBlocking(k)' =>
          k # 0 /\ QueuedBlocking(k + 1) /\ cmdQueue'[k] = cmdQueue[k + 1]
    BY <2>1, DequeueShifts
  <2>3. QueuedAlone'
    BY <2>1, <2>2
       DEF Inv, QueuedAlone, NothingOnController, Connecting, mainVars, ctrlVars
  <2>4. PutAlone'
    BY <2>1, <2>2
       DEF Inv, PutAlone, AboutToPut, NothingOnController, Connecting,
           mainVars, ctrlVars
  <2> QED
    BY <2>1, <2>3, <2>4
       DEF Inv, ConnectAlone, Connecting, HelperAlone, Alive, Reported,
           IdleRead, NoInterrupt, mainVars, ctrlVars
<1>3. ASSUME NEW i \in Ids, CtrlBeginConnect(i)
      PROVE  Inv'
  <2>1. /\ busy /\ i = lastAccepted /\ blockingThread = None /\ ~ AboutToPut
        /\ \A k \in Nat : ~ QueuedBlocking(k)'
    BY <1>3, DequeueBlocking DEF CtrlBeginConnect, Blocking
  <2>2. /\ UNCHANGED <<busy, mainVars, opVars>>
        /\ ctrlCmd' = i /\ pcCtrl' = "connecting"
    BY <1>3 DEF CtrlBeginConnect
  <2> QED
    BY <2>1, <2>2
       DEF Inv, PutAlone, AboutToPut, QueuedAlone, ConnectAlone, Connecting,
           HelperAlone, Alive, Reported, IdleRead, NoInterrupt, mainVars,
           opVars
<1>4. ASSUME NEW i \in Ids, CtrlBeginInterrupt(i)
      PROVE  FALSE
  BY <1>4, DequeueShifts, NamesInQueue DEF CtrlBeginInterrupt
<1>5. CASE CtrlConnectReturns
  <2>1. /\ UNCHANGED <<busy, cmdQueue, mainVars, ctrlCmd, blockingThread,
                       helper>>
        /\ workerResult' = ctrlCmd
        /\ pcCtrl = "connecting" /\ pcCtrl' = "connected"
    BY <1>5 DEF CtrlConnectReturns
  <2> QED
    BY <2>1
       DEF Inv, PutAlone, AboutToPut, QueuedAlone, QueuedBlocking,
           ConnectAlone, Connecting, HelperAlone, Alive, Reported, IdleRead,
           NoInterrupt, NothingOnController, mainVars
<1>6. CASE CtrlConnectDone
  <2>1. /\ UNCHANGED <<cmdQueue, mainVars, ctrlCmd, opVars>> /\ ~ busy'
        /\ pcCtrl = "connected" /\ pcCtrl' = "drain"
    BY <1>6 DEF CtrlConnectDone
  <2>2. /\ ctrlCmd = lastAccepted /\ workerResult = ctrlCmd
        /\ blockingThread = None
    BY <2>1 DEF Inv, ConnectAlone, Connecting
  <2> QED
    BY <2>1, <2>2
       DEF Inv, PutAlone, AboutToPut, QueuedAlone, QueuedBlocking,
           ConnectAlone, Connecting, HelperAlone, Alive, Reported, IdleRead,
           NoInterrupt, NothingOnController, mainVars, opVars
<1>7. CASE CtrlReap
  <2>1. /\ UNCHANGED <<cmdQueue, mainVars, ctrlCmd, workerResult, helper>>
        /\ pcCtrl = "reap" /\ pcCtrl' = "poll"
    BY <1>7 DEF CtrlReap
  <2>2. CASE blockingThread # None /\ ~ TrackedAlive
    <3>1. blockingThread' = None /\ ~ busy'
      BY <1>7, <2>2 DEF CtrlReap
    <3>2. /\ busy /\ workerResult = lastAccepted
          /\ \A i \in Ids : ~ Alive(i)
      BY <2>2 DEF Inv, HelperAlone, TrackedAlive
    <3> QED
      BY <2>1, <2>2, <3>1, <3>2
         DEF Inv, PutAlone, AboutToPut, QueuedAlone, QueuedBlocking,
             ConnectAlone, Connecting, HelperAlone, Alive, Reported, IdleRead,
             NoInterrupt, NothingOnController, mainVars
  <2>3. CASE ~ (blockingThread # None /\ ~ TrackedAlive)
    BY <1>7, <2>1, <2>3, ControllerMoves
       DEF CtrlReap, Connecting, NoInterrupt, opVars
  <2> QED
    BY <2>2, <2>3
<1>8. CASE /\ NoInterrupt /\ ~ Connecting
           /\ NoInterrupt' /\ ~ Connecting'
           /\ UNCHANGED <<busy, cmdQueue, mainVars, ctrlCmd, opVars>>
  BY <1>8, ControllerMoves
<1>9. NoInterrupt
  BY DEF Inv
<1>10. CASE CtrlTop \/ CtrlTake \/ CtrlSkipSet \/ CtrlApplySet \/ CtrlSetFails
  BY <1>8, <1>10
     DEF CtrlTop, CtrlTake, CtrlSkipSet, CtrlApplySet, CtrlSetFails,
         NoInterrupt, Connecting
<1>11. CASE CtrlDrained \/ CtrlPoll \/ CtrlClose \/ CtrlDestroy
  BY <1>8, <1>11
     DEF CtrlDrained, CtrlPoll, CtrlClose, CtrlDestroy, NoInterrupt, Connecting
<1>12. ~ (CtrlJoined \/ CtrlJoinTimeout \/ CtrlRelease \/ CtrlClear)
  BY <1>9
     DEF NoInterrupt, CtrlJoined, CtrlJoinTimeout, CtrlRelease, CtrlClear
<1> QED
  BY <1>1, <1>2, <1>3, <1>4, <1>5, <1>6, <1>7, <1>10, <1>11, <1>12
     DEF Controller

\* The helper's steps are those of the operation in progress.
LEMMA HelperKeepsInv ==
  ASSUME TypeOK, Inv, NEW i \in Ids, Helper(i)
  PROVE  Inv'
<1>1. /\ Alive(i)
      /\ UNCHANGED <<busy, cmdQueue, mainVars, ctrlVars, blockingThread>>
  BY DEF Helper, HelperBinds, HelperCalls, HelperFindsNone, HelperReturns,
         HelperWrites, Alive
<1>2. blockingThread = i /\ i # None
  BY <1>1, ServerAssumption
     DEF Inv, HelperAlone, Ids, None, ServerAssumption
<1>3. busy /\ ~ Connecting
  BY <1>2 DEF Inv, HelperAlone, ConnectAlone
<1>4. HelperAlone'
  <2>1. \A j \in Ids : Alive(j)' => Alive(j)
    BY <1>1
       DEF Helper, HelperBinds, HelperCalls, HelperFindsNone, HelperReturns,
           HelperWrites, Alive, TypeOK, OperationTypes
  <2>2. Alive(i)' \/ workerResult' = i
    BY DEF Helper, HelperBinds, HelperCalls, HelperFindsNone, HelperReturns,
           HelperWrites, Alive, TypeOK, OperationTypes
  <2> QED
    BY <1>1, <1>2, <2>1, <2>2 DEF Inv, HelperAlone, mainVars
<1> QED
  BY <1>1, <1>2, <1>3, <1>4
     DEF Inv, PutAlone, AboutToPut, QueuedAlone, QueuedBlocking, ConnectAlone,
         Connecting, Reported, IdleRead, NoInterrupt, NothingOnController,
         mainVars, ctrlVars

-----------------------------------------------------------------------------
(* Theorems. *)

\* The values of every variable, with any commands and interrupts
\* (RobotServer.__init__ onwards).
THEOREM TypeCorrect == Spec => []TypeOK
<1>1. Init => TypeOK
  BY InitTypeOK
<1>2. TypeOK /\ [Next]_vars => TypeOK'
  <2>1. TypeOK /\ Next => TypeOK'
    BY FlagStep, RobotStep, CommandStep, OperationStep, MainStep,
       ControllerStep DEF TypeOK
  <2>2. TypeOK /\ UNCHANGED vars => TypeOK'
    BY DEF TypeOK, FlagTypes, RobotTypes, CommandTypes, OperationTypes,
           MainTypes, ControllerTypes, vars, mainVars, ctrlVars, robotVars,
           opVars
  <2> QED
    BY <2>1, <2>2
<1> QED
  BY <1>1, <1>2, PTL DEF Spec

\* Where no client sends stop or disconnect, an operation is in one place
\* from its acceptance to its report (robot_server.py:240-245, 344-349).
THEOREM OnePlace ==
  ASSUME Commands \intersect Interrupt = {}
  PROVE  Spec => []Inv
<1>1. Init => Inv
  BY InitInv
<1>2. TypeOK /\ Inv /\ [Next]_vars => Inv'
  <2>1. TypeOK /\ Inv /\ UNCHANGED vars => Inv'
    BY DEF Inv, PutAlone, AboutToPut, QueuedAlone, QueuedBlocking,
           ConnectAlone, Connecting, HelperAlone, Alive, Reported, IdleRead,
           NoInterrupt, NothingOnController, vars, mainVars, ctrlVars, opVars
  <2>2. TypeOK /\ Inv /\ Signal => Inv'
    BY DEF Signal, Inv, PutAlone, AboutToPut, QueuedAlone, QueuedBlocking,
           ConnectAlone, Connecting, HelperAlone, Alive, Reported, IdleRead,
           NoInterrupt, NothingOnController, mainVars, ctrlVars, opVars
  <2> QED
    BY <2>1, <2>2, MainKeepsInv, ControllerKeepsInv, HelperKeepsInv DEF Next
<1> QED
  BY <1>1, <1>2, TypeCorrect, PTL DEF Spec

\* There, a helper in a controller call is the only one and keeps the server
\* busy (robot_server.py:145): OneBlockingOp for any number of commands.
THEOREM OneOpAtATime ==
  ASSUME Commands \intersect Interrupt = {}
  PROVE  Spec => []OneBlockingOp
<1>1. Inv => OneBlockingOp
  BY ServerAssumption
     DEF Inv, HelperAlone, OneBlockingOp, Ids, None, ServerAssumption
<1> QED
  BY <1>1, OnePlace, PTL

\* There, no streamed target reaches the controller while a helper is in a
\* call (robot_server.py:324): NoSetDuringBlocking.
THEOREM NoSetInTheMiddle ==
  ASSUME Commands \intersect Interrupt = {}
  PROVE  Spec => NoSetDuringBlocking
<1>1. Inv /\ [Next]_vars => [CtrlApplySet => \A i \in Ids : ~ Alive(i)]_vars
  BY IdleIsEmpty DEF CtrlApplySet
<1> QED
  BY <1>1, OnePlace, PTL DEF Spec, NoSetDuringBlocking

\* There, a reply that says "idle" carries the outcome of the operation last
\* accepted (robot_server.py:262-277): IdleReplyCarriesOutcome.
THEOREM IdleMeansReported ==
  ASSUME Commands \intersect Interrupt = {}
  PROVE  Spec => IdleReplyCarriesOutcome
<1> DEFINE Carries == ReplyState /\ statusRead = "idle" /\ lastAccepted # None
                        => workerResult = lastAccepted
<1>1. Inv /\ [Next]_vars => [Carries]_vars
  BY DEF ReplyState, Inv, IdleRead, Reported
<1> QED
  BY <1>1, OnePlace, PTL DEF Spec, IdleReplyCarriesOutcome
-----------------------------------------------------------------------------
(* The server implements JobSlot: accepting is Accept, every step that        *)
(* publishes an outcome or clears the flag is Finish, the rest is a stutter.  *)

\* Accepting is the only step of the main thread that a client can tell.
LEMMA MainImplements ==
  ASSUME TypeOK, Inv, Main
  PROVE  [Slot!Next]_(Slot!vars)
<1>1. ASSUME NEW c \in Commands, RecvBlocking(c)
      PROVE  Slot!Next
  <2>1. /\ ~ busy /\ busy' = TRUE /\ workerResult' = None
        /\ lastAccepted' = issued + 1 /\ issued < MaxCmds
    BY <1>1 DEF RecvBlocking, Make
  <2>2. issued + 1 \in Ids /\ issued + 1 > lastAccepted
    BY <2>1, ServerAssumption
       DEF TypeOK, CommandTypes, MainTypes, Ids, ServerAssumption
  <2>3. Slot!Accept(issued + 1)
    BY <2>1, <2>2 DEF Slot!Accept, None
  <2> QED
    BY <2>2, <2>3 DEF Slot!Next
<1>2. ASSUME NEW c \in Commands, RecvWaited(c) \/ RecvRejected(c)
      PROVE  UNCHANGED Slot!vars
  BY <1>2 DEF RecvWaited, RecvRejected, opVars, Slot!vars
<1> QED
  BY <1>1, <1>2
     DEF Main, MainTop, RecvNothing, RecvSet, RecvGetState, ReplyState,
         RecvShutdown, MainPut, MainAnswer, MainTimeout, MainJoin, MainTerm,
         opVars, Slot!vars

\* The controller thread publishes what connect returned, and clears the flag
\* only of an operation whose outcome is out.
LEMMA ControllerImplements ==
  ASSUME Commands \intersect Interrupt = {}, TypeOK, Inv, Controller
  PROVE  [Slot!Next]_(Slot!vars)
<1>1. ASSUME busy, workerResult' = lastAccepted, busy' \in BOOLEAN,
             UNCHANGED lastAccepted
      PROVE  Slot!Next
  BY <1>1 DEF Slot!Next, Slot!Finish
<1>2. CASE CtrlConnectReturns
  <2>1. busy /\ workerResult' = lastAccepted
    BY <1>2 DEF CtrlConnectReturns, Inv, ConnectAlone, Connecting
  <2>2. UNCHANGED <<busy, lastAccepted>> /\ busy \in BOOLEAN
    BY <1>2 DEF CtrlConnectReturns, mainVars, TypeOK, FlagTypes
  <2> QED
    BY <1>1, <2>1, <2>2
<1>3. CASE CtrlConnectDone
  <2>1. busy /\ workerResult = lastAccepted
    BY <1>3 DEF CtrlConnectDone, Inv, ConnectAlone, Connecting
  <2>2. /\ busy' = FALSE
        /\ UNCHANGED <<lastAccepted, workerResult>>
    BY <1>3 DEF CtrlConnectDone, mainVars, opVars
  <2> QED
    BY <1>1, <2>1, <2>2
<1>4. CASE CtrlReap
  <2>1. UNCHANGED <<lastAccepted, workerResult>>
    BY <1>4 DEF CtrlReap, mainVars
  <2>2. CASE blockingThread # None /\ ~ TrackedAlive
    <3>1. busy /\ workerResult = lastAccepted
      BY <2>2 DEF Inv, HelperAlone, TrackedAlive
    <3>2. busy' = FALSE
      BY <1>4, <2>2 DEF CtrlReap
    <3> QED
      BY <1>1, <2>1, <3>1, <3>2
  <2>3. CASE ~ (blockingThread # None /\ ~ TrackedAlive)
    BY <1>4, <2>1, <2>3 DEF CtrlReap, Slot!vars
  <2> QED
    BY <2>2, <2>3
<1>5. \A i \in Ids : ~ CtrlBeginInterrupt(i)
  BY DequeueShifts, NamesInQueue DEF CtrlBeginInterrupt
<1>6. ~ (CtrlJoined \/ CtrlJoinTimeout \/ CtrlRelease \/ CtrlClear)
  BY DEF Inv, NoInterrupt, CtrlJoined, CtrlJoinTimeout, CtrlRelease, CtrlClear
<1>7. \A i \in Ids :
        CtrlSpawn(i) \/ CtrlFast(i) \/ CtrlBeginConnect(i)
          => UNCHANGED Slot!vars
  BY DEF CtrlSpawn, CtrlFast, CtrlBeginConnect, mainVars, opVars, Slot!vars
<1>8. CASE \/ CtrlTop \/ CtrlTake \/ CtrlSkipSet \/ CtrlApplySet
           \/ CtrlSetFails \/ CtrlDrained \/ CtrlPoll \/ CtrlClose
           \/ CtrlDestroy
  BY <1>8
     DEF CtrlTop, CtrlTake, CtrlSkipSet, CtrlApplySet, CtrlSetFails,
         CtrlDrained, CtrlPoll, CtrlClose, CtrlDestroy, mainVars, opVars,
         Slot!vars
<1> QED
  BY <1>2, <1>3, <1>4, <1>5, <1>6, <1>7, <1>8 DEF Controller

\* A helper's last step publishes the outcome of the operation in progress.
LEMMA HelperImplements ==
  ASSUME TypeOK, Inv, NEW i \in Ids, Helper(i)
  PROVE  [Slot!Next]_(Slot!vars)
<1>1. Alive(i) /\ UNCHANGED <<busy, lastAccepted>>
  BY DEF Helper, HelperBinds, HelperCalls, HelperFindsNone, HelperReturns,
         HelperWrites, Alive, mainVars
<1>2. busy /\ i = lastAccepted /\ busy \in BOOLEAN
  BY <1>1, ServerAssumption
     DEF Inv, HelperAlone, Ids, None, ServerAssumption, TypeOK, FlagTypes
<1>3. workerResult' = i \/ workerResult' = workerResult
  BY DEF Helper, HelperBinds, HelperCalls, HelperFindsNone, HelperReturns,
         HelperWrites
<1> QED
  BY <1>1, <1>2, <1>3 DEF Slot!Next, Slot!Finish, Slot!vars

\* Where no client sends stop or disconnect, the robot server keeps what
\* JobSlot promises to a polling client, for any number of commands
\* (robot_server.py:239-245, 262-277, 344-349, 398-406, 413-424).
THEOREM RobotImplementsSlot ==
  ASSUME Commands \intersect Interrupt = {}
  PROVE  Spec => ImplementsSlot
<1>1. Init => Slot!Init
  BY DEF Init, Slot!Init, None
<1>2. TypeOK /\ Inv /\ [Next]_vars => [Slot!Next]_(Slot!vars)
  <2>1. UNCHANGED vars => UNCHANGED Slot!vars
    BY DEF vars, mainVars, opVars, Slot!vars
  <2>2. Signal => UNCHANGED Slot!vars
    BY DEF Signal, mainVars, opVars, Slot!vars
  <2> QED
    BY <2>1, <2>2, MainImplements, ControllerImplements, HelperImplements
       DEF Next
<1> QED
  BY <1>1, <1>2, TypeCorrect, OnePlace, PTL
     DEF Spec, ImplementsSlot, Slot!Spec
-----------------------------------------------------------------------------
(* Interrupts.  Commands are numbered as they are made and served in that     *)
(* order, so behind the one the main thread waits for there is none: what the *)
(* interrupt has cleared nobody sets again before its answer.                 *)

\* A command that was not made has no name and no outcome.
NotMade == \A i \in Ids : i > issued => name[i] = "none" /\ outcome[i] = "none"

\* Helpers run moves and starts.
HelperNames ==
  \A i \in Ids : helper[i] # "none" => name[i] \in {"move", "start"}

\* An interrupt about to be put in the queue is newer than all others.
PutNewest ==
  pcMain = "put" =>
    /\ ctrlCmd < issued
    /\ \A j \in 1 .. Len(cmdQueue) : cmdQueue[j] < issued
    /\ name[issued] \in Interrupt => outcome[issued] = "none"

\* The queue is in the order of the numbers, after the command being served.
QueueInOrder ==
  /\ \A j \in 1 .. Len(cmdQueue) : ctrlCmd < cmdQueue[j]
  /\ \A j, k \in 1 .. Len(cmdQueue) : j < k => cmdQueue[j] < cmdQueue[k]

Interrupting == pcCtrl \in {"joining", "release", "clear"}

\* What the controller thread is at, and what it has already done for it.
Serving ==
  /\ Connecting => name[ctrlCmd] = "connect"
  /\ Interrupting => name[ctrlCmd] \in Interrupt
  /\ pcCtrl \in {"release", "clear"} => ~ TrackedAlive
  /\ pcCtrl = "clear" /\ name[ctrlCmd] = "disconnect"
       => controller = None /\ ~ connected

Quiet ==
  /\ ~ busy /\ ~ TrackedAlive /\ cmdQueue = <<>>
  /\ name[issued] = "disconnect" => controller = None /\ ~ connected

\* From the interrupt's last statement to its answer.
Answered ==
  pcMain = "wait" /\ name[issued] \in Interrupt /\ outcome[issued] = "ok"
    => Quiet /\ ~ Connecting /\ ~ Interrupting

IntInv == /\ NotMade /\ HelperNames /\ PutNewest /\ QueueInOrder
          /\ Serving /\ Answered

LEMMA InitInt == Init => IntInv
<1> SUFFICES ASSUME Init PROVE IntInv
  OBVIOUS
<1>1. NotMade /\ HelperNames /\ PutNewest
  BY DEF Init, NotMade, HelperNames, PutNewest
<1>2. QueueInOrder
  <2>1. Len(cmdQueue) = 0
    BY DEF Init
  <2> QED
    BY <2>1 DEF QueueInOrder
<1>3. Serving /\ Answered
  BY DEF Init, Serving, Connecting, Interrupting, Answered
<1> QED
  BY <1>1, <1>2, <1>3 DEF IntInv

\* What TypeOK says of the numbers of commands.
LEMMA CommandNumbers ==
  ASSUME TypeOK
  PROVE  /\ MaxCmds \in Nat /\ issued \in Nat /\ issued <= MaxCmds
         /\ ctrlCmd \in Nat /\ ctrlCmd <= issued
         /\ Connecting \/ Interrupting => 0 < ctrlCmd
         /\ cmdQueue \in Seq(1 .. issued) /\ Len(cmdQueue) \in Nat
         /\ \A j \in 1 .. Len(cmdQueue) :
              cmdQueue[j] \in Nat /\ 0 < cmdQueue[j] /\ cmdQueue[j] <= issued
<1>1. /\ MaxCmds \in Nat /\ issued \in Nat /\ issued <= MaxCmds
      /\ cmdQueue \in Seq(1 .. issued)
  BY ServerAssumption DEF ServerAssumption, TypeOK, CommandTypes
<1>2. /\ ctrlCmd \in Nat /\ ctrlCmd <= issued
      /\ Connecting \/ Interrupting => 0 < ctrlCmd
  BY <1>1 DEF TypeOK, ControllerTypes, Connecting, Interrupting
<1>3. Len(cmdQueue) \in Nat /\ \A j \in 1 .. Len(cmdQueue) :
        cmdQueue[j] \in 1 .. issued
  BY <1>1
<1> QED
  BY <1>1, <1>2, <1>3

\* The steps of the main thread that make no command and put none.
LEMMA MainKeepsInt ==
  ASSUME IntInv, pcMain' \in {"put", "wait"} => pcMain' = pcMain,
         UNCHANGED <<busy, cmdQueue, issued, name, ctrlVars, robotVars, opVars>>
  PROVE  IntInv'
<1>1. UNCHANGED <<pcCtrl, ctrlCmd, connected, controller, outcome, helper,
                  blockingThread>>
  BY DEF ctrlVars, robotVars, opVars
<1>2. UNCHANGED <<TrackedAlive, Connecting, Interrupting>>
  BY <1>1 DEF TrackedAlive, Alive, Connecting, Interrupting
<1>3. NotMade' /\ HelperNames' /\ PutNewest' /\ QueueInOrder'
  BY <1>1 DEF IntInv, NotMade, HelperNames, PutNewest, QueueInOrder
<1>4. Serving' /\ Answered'
  BY <1>1, <1>2 DEF IntInv, Serving, Answered, Quiet
<1> QED
  BY <1>3, <1>4 DEF IntInv

\* A new command is newer than all others and nobody waits for one.
LEMMA MakeKeepsInt ==
  ASSUME TypeOK, IntInv, NEW c \in Commands, Make(c),
         UNCHANGED <<cmdQueue, ctrlVars, robotVars, outcome, blockingThread,
                     helper>>
  PROVE  IntInv'
<1> USE CommandNumbers
<1>1. /\ issued' = issued + 1 /\ issued' \in Ids /\ pcMain' = "put"
      /\ \A i \in Ids : i # issued' => name'[i] = name[i]
      /\ UNCHANGED <<pcCtrl, ctrlCmd, connected, controller>>
  BY DEF Make, Ids, TypeOK, CommandTypes, ctrlVars, robotVars
<1>2. UNCHANGED <<TrackedAlive, Connecting, Interrupting>>
  BY <1>1 DEF TrackedAlive, Alive, Connecting, Interrupting
<1>3. NotMade'
  BY <1>1 DEF IntInv, NotMade, Ids
<1>4. HelperNames'
  BY <1>1 DEF IntInv, NotMade, HelperNames, Ids
<1>5. PutNewest'
  <2>1. outcome[issued'] = "none"
    BY <1>1 DEF IntInv, NotMade
  <2>2. \A j \in 1 .. Len(cmdQueue) : cmdQueue[j] < issued'
    BY <1>1
  <2> QED
    BY <1>1, <2>1, <2>2 DEF PutNewest
<1>6. QueueInOrder'
  BY <1>1 DEF IntInv, QueueInOrder
<1>7. Serving'
  <2>1. Connecting \/ Interrupting => name'[ctrlCmd] = name[ctrlCmd]
    BY <1>1 DEF Ids
  <2> QED
    BY <1>1, <1>2, <2>1 DEF IntInv, Serving, Interrupting
<1>8. Answered'
  BY <1>1 DEF Answered
<1> QED
  BY <1>3, <1>4, <1>5, <1>6, <1>7, <1>8 DEF IntInv

\* The command put last is the newest, and has no outcome yet.
LEMMA PutKeepsInt ==
  ASSUME TypeOK, IntInv, MainPut
  PROVE  IntInv'
<1> USE CommandNumbers
<1>1. /\ pcMain = "put" /\ pcMain' \in {"top", "wait"}
      /\ cmdQueue' = Append(cmdQueue, issued)
      /\ UNCHANGED <<issued, name, pcCtrl, ctrlCmd, connected, controller,
                     outcome, helper, blockingThread>>
  BY DEF MainPut, ctrlVars, robotVars, opVars
<1>2. UNCHANGED <<TrackedAlive, Connecting, Interrupting>>
  BY <1>1 DEF TrackedAlive, Alive, Connecting, Interrupting
<1>3. NotMade' /\ HelperNames' /\ PutNewest'
  BY <1>1 DEF IntInv, NotMade, HelperNames, PutNewest
<1>4. QueueInOrder'
  <2>1. /\ Len(cmdQueue') = Len(cmdQueue) + 1
        /\ cmdQueue'[Len(cmdQueue) + 1] = issued
        /\ \A j \in 1 .. Len(cmdQueue) : cmdQueue'[j] = cmdQueue[j]
    BY <1>1
  <2>2. \A j \in 1 .. Len(cmdQueue') :
          j \in 1 .. Len(cmdQueue) \/ j = Len(cmdQueue) + 1
    BY <2>1
  <2>3. /\ ctrlCmd < issued
        /\ \A j \in 1 .. Len(cmdQueue) : cmdQueue[j] < issued
    BY <1>1 DEF IntInv, PutNewest
  <2>4. \A j \in 1 .. Len(cmdQueue') : ctrlCmd < cmdQueue'[j]
    BY <1>1, <2>1, <2>2, <2>3 DEF IntInv, QueueInOrder
  <2>5. ASSUME NEW j \in 1 .. Len(cmdQueue'), NEW k \in 1 .. Len(cmdQueue'),
               j < k
        PROVE  cmdQueue'[j] < cmdQueue'[k]
    <3>1. j \in 1 .. Len(cmdQueue)
      BY <2>1, <2>5
    <3>2. CASE k \in 1 .. Len(cmdQueue)
      BY <2>1, <2>5, <3>1, <3>2 DEF IntInv, QueueInOrder
    <3>3. CASE k = Len(cmdQueue) + 1
      BY <2>1, <2>3, <3>1, <3>3
    <3> QED
      BY <2>2, <3>2, <3>3
  <2> QED
    BY <1>1, <2>4, <2>5 DEF QueueInOrder
<1>5. Serving' /\ Answered'
  BY <1>1, <1>2 DEF IntInv, PutNewest, Serving, Answered
<1> QED
  BY <1>3, <1>4, <1>5 DEF IntInv

\* Only making a command and answering an interrupt matter.
LEMMA MainInt ==
  ASSUME TypeOK, IntInv, Main \/ Signal
  PROVE  IntInv'
<1>1. ASSUME NEW c \in Commands, RecvBlocking(c) \/ RecvWaited(c)
      PROVE  IntInv'
  <2>1. /\ Make(c)
        /\ UNCHANGED <<cmdQueue, ctrlVars, robotVars, outcome, blockingThread,
                       helper>>
    BY <1>1 DEF RecvBlocking, RecvWaited, opVars
  <2> QED
    BY <2>1, MakeKeepsInt
<1>2. CASE \/ MainTop \/ RecvNothing \/ RecvSet \/ RecvGetState \/ ReplyState
           \/ RecvShutdown \/ MainAnswer \/ MainTimeout \/ MainJoin \/ MainTerm
           \/ \E c \in Commands : RecvRejected(c)
  <2>1. /\ pcMain' \notin {"put", "wait"}
        /\ UNCHANGED <<busy, cmdQueue, issued, name, ctrlVars, robotVars,
                       opVars>>
    BY <1>2, Zenon
       DEF MainTop, RecvNothing, RecvSet, RecvGetState, ReplyState,
           RecvShutdown, MainAnswer, MainTimeout, MainJoin, MainTerm,
           RecvRejected
  <2> QED
    BY <2>1, MainKeepsInt
<1>3. CASE Signal
  <2>1. UNCHANGED <<busy, cmdQueue, mainVars, ctrlVars, robotVars, opVars>>
    BY <1>3 DEF Signal
  <2> QED
    BY <2>1, MainKeepsInt DEF mainVars
<1> QED
  BY <1>1, <1>2, <1>3, PutKeepsInt DEF Main

\* The head of the queue is newer than what was served and older than what
\* follows it; while it is there no interrupt has been served and waited for.
LEMMA DequeueOrder ==
  ASSUME TypeOK, IntInv, NEW i \in Ids, Dequeue(i)
  PROVE  /\ i \in Nat /\ 0 < i /\ i <= issued
         /\ pcMain = "put" => i < issued
         /\ Len(cmdQueue') \in Nat
         /\ \A j \in 1 .. Len(cmdQueue') :
              /\ ctrlCmd < cmdQueue'[j] /\ i < cmdQueue'[j]
              /\ pcMain = "put" => cmdQueue'[j] < issued
         /\ \A j, k \in 1 .. Len(cmdQueue') :
              j < k => cmdQueue'[j] < cmdQueue'[k]
         /\ ~ (/\ pcMain = "wait" /\ name[issued] \in Interrupt
               /\ outcome[issued] = "ok")
<1> USE CommandNumbers
<1>1. /\ cmdQueue # <<>> /\ i = cmdQueue[1] /\ 1 \in 1 .. Len(cmdQueue)
      /\ Len(cmdQueue') = Len(cmdQueue) - 1
      /\ \A j \in 1 .. Len(cmdQueue') : cmdQueue'[j] = cmdQueue[j + 1]
  BY DEF Dequeue
<1>2. \A j \in 1 .. Len(cmdQueue') :
        j + 1 \in 1 .. Len(cmdQueue) /\ 1 < j + 1
  <2>1. Len(cmdQueue) \in Nat /\ Len(cmdQueue') = Len(cmdQueue) - 1
    BY <1>1
  <2> QED
    BY <2>1
<1>3. /\ i \in Nat /\ 0 < i /\ i <= issued
      /\ pcMain = "put" => i < issued
      /\ Len(cmdQueue') \in Nat
  BY <1>1 DEF IntInv, PutNewest
<1>4. \A j \in 1 .. Len(cmdQueue') :
        /\ ctrlCmd < cmdQueue'[j] /\ i < cmdQueue'[j]
        /\ pcMain = "put" => cmdQueue'[j] < issued
  BY <1>1, <1>2 DEF IntInv, QueueInOrder, PutNewest
<1>5. ASSUME NEW j \in 1 .. Len(cmdQueue'), NEW k \in 1 .. Len(cmdQueue'),
             j < k
      PROVE  cmdQueue'[j] < cmdQueue'[k]
  <2>1. /\ j + 1 \in 1 .. Len(cmdQueue) /\ k + 1 \in 1 .. Len(cmdQueue)
        /\ j + 1 < k + 1
    BY <1>2, <1>5
  <2> QED
    BY <1>1, <2>1 DEF IntInv, QueueInOrder
<1> QED
  BY <1>1, <1>3, <1>4, <1>5 DEF IntInv, Answered, Quiet

\* The steps of the controller thread that touch no command.
LEMMA ControllerKeepsInt ==
  ASSUME IntInv, ~ Connecting', ~ Interrupting', busy' => busy,
         UNCHANGED <<cmdQueue, mainVars, ctrlCmd, outcome, helper>>,
         blockingThread' \in {blockingThread, None},
         UNCHANGED <<controller, connected>>
           \/ (controller' = None /\ connected' = FALSE)
  PROVE  IntInv'
<1>1. UNCHANGED <<pcMain, issued, name>>
  BY DEF mainVars
<1>2. ~ TrackedAlive => ~ TrackedAlive'
  BY DEF TrackedAlive, Alive
<1>3. NotMade' /\ HelperNames' /\ PutNewest' /\ QueueInOrder'
  BY <1>1 DEF IntInv, NotMade, HelperNames, PutNewest, QueueInOrder
<1>4. Serving'
  BY DEF Serving, Interrupting
<1>5. Answered'
  BY <1>1, <1>2 DEF IntInv, Answered, Quiet
<1> QED
  BY <1>3, <1>4, <1>5 DEF IntInv

\* Taking a command from the queue.
LEMMA DequeueInt ==
  ASSUME TypeOK, IntInv, NEW i \in Ids,
         CtrlSpawn(i) \/ CtrlFast(i) \/ CtrlBeginConnect(i)
           \/ CtrlBeginInterrupt(i)
  PROVE  IntInv'
<1> USE CommandNumbers DEF None
<1>1. Dequeue(i) /\ UNCHANGED <<pcMain, issued, name, connected, controller>>
  BY DEF CtrlSpawn, CtrlFast, CtrlBeginConnect, CtrlBeginInterrupt, mainVars,
         robotVars
<1>2. ctrlCmd' \in {ctrlCmd, i}
  BY DEF CtrlSpawn, CtrlFast, CtrlBeginConnect, CtrlBeginInterrupt, ctrlVars
<1>3. QueueInOrder'
  BY <1>1, <1>2, DequeueOrder DEF QueueInOrder
<1>4. \A j \in Ids : j # i => outcome'[j] = outcome[j]
  BY DEF CtrlSpawn, CtrlFast, CtrlBeginConnect, CtrlBeginInterrupt, opVars,
         TypeOK, OperationTypes
<1>5. NotMade'
  <2>1. i \in Nat /\ i <= issued
    BY <1>1, DequeueOrder
  <2>2. \A j \in Ids : j > issued => j # i
    BY <2>1 DEF Ids
  <2> QED
    BY <1>1, <1>4, <2>2 DEF IntInv, NotMade
<1>6. PutNewest'
  <2>1. ASSUME pcMain = "put"
        PROVE  /\ ctrlCmd' < issued /\ i # issued /\ issued \in Ids
               /\ \A j \in 1 .. Len(cmdQueue') : cmdQueue'[j] < issued
    BY <1>1, <1>2, <2>1, DequeueOrder
       DEF IntInv, PutNewest, Ids, TypeOK, MainTypes
  <2> QED
    BY <1>1, <1>4, <2>1 DEF IntInv, PutNewest
<1>7. HelperNames'
  <2>1. \A j \in Ids : helper'[j] # "none" =>
          helper[j] # "none" \/ (j = i /\ name[i] \in {"move", "start"})
    BY DEF CtrlSpawn, CtrlFast, CtrlBeginConnect, CtrlBeginInterrupt, opVars,
           TypeOK, OperationTypes
  <2> QED
    BY <1>1, <2>1 DEF IntInv, HelperNames
<1>8. Serving'
  <2>1. CASE CtrlSpawn(i) \/ CtrlFast(i)
    <3>1. pcCtrl' = "drain"
      BY <2>1 DEF CtrlSpawn, CtrlFast, Dequeue, ctrlVars
    <3> QED
      BY <3>1 DEF Serving, Connecting, Interrupting
  <2>2. CASE CtrlBeginConnect(i)
    BY <1>1, <2>2 DEF CtrlBeginConnect, Serving, Interrupting
  <2>3. CASE CtrlBeginInterrupt(i)
    <3>1. /\ UNCHANGED TrackedAlive /\ ctrlCmd' = i /\ name[i] \in Interrupt
          /\ pcCtrl' = IF TrackedAlive THEN "joining"
                       ELSE IF name[i] = "stop" THEN "clear" ELSE "release"
      BY <2>3 DEF CtrlBeginInterrupt, TrackedAlive, Alive, opVars
    <3> QED
      BY <1>1, <3>1 DEF Serving, Connecting
  <2> QED
    BY <2>1, <2>2, <2>3
<1>9. Answered'
  <2>1. ASSUME pcMain = "wait", name[issued] \in Interrupt
        PROVE  outcome'[issued] = outcome[issued]
    <3>1. issued \in Ids
      BY <2>1 DEF Ids, TypeOK, MainTypes
    <3>2. i = issued => UNCHANGED outcome
      BY <2>1 DEF CtrlSpawn, CtrlFast, CtrlBeginConnect, CtrlBeginInterrupt,
                  opVars, Interrupt, Fast
    <3> QED
      BY <1>4, <3>1, <3>2
  <2> QED
    BY <1>1, <2>1, DequeueOrder DEF Answered
<1> QED
  BY <1>3, <1>5, <1>6, <1>7, <1>8, <1>9 DEF IntInv

\* Connecting and interrupting on the controller thread: an interrupt's last
\* statements leave the server quiet, and no command follows the one waited
\* for.
LEMMA ServeInt ==
  ASSUME TypeOK, IntInv,
         CtrlConnectReturns \/ CtrlJoined \/ CtrlJoinTimeout \/ CtrlRelease
           \/ CtrlClear
  PROVE  IntInv'
<1> USE CommandNumbers
<1>1. /\ UNCHANGED <<cmdQueue, pcMain, issued, name, ctrlCmd, helper>>
      /\ Connecting \/ Interrupting
  BY DEF CtrlConnectReturns, CtrlJoined, CtrlJoinTimeout, CtrlRelease,
         CtrlClear, mainVars, opVars, Connecting, Interrupting
<1>2. ctrlCmd \in Ids /\ ctrlCmd \in 1 .. issued
  BY <1>1 DEF Ids
<1>3. \A j \in Ids : j # ctrlCmd => outcome'[j] = outcome[j]
  BY DEF CtrlConnectReturns, CtrlJoined, CtrlJoinTimeout, CtrlRelease,
         CtrlClear, opVars, TypeOK, OperationTypes
<1>4. NotMade'
  BY <1>1, <1>2, <1>3 DEF IntInv, NotMade
<1>5. HelperNames' /\ QueueInOrder'
  BY <1>1 DEF IntInv, HelperNames, QueueInOrder
<1>6. PutNewest'
  <2>1. pcMain = "put" => issued \in Ids /\ ctrlCmd # issued
    BY DEF IntInv, PutNewest, Ids, TypeOK, MainTypes
  <2> QED
    BY <1>1, <1>3, <2>1 DEF IntInv, PutNewest
<1>7. Serving'
  <2>1. CASE CtrlConnectReturns
    <3>1. pcCtrl' = "connected" /\ Connecting
      BY <2>1 DEF CtrlConnectReturns, Connecting
    <3> QED
      BY <1>1, <3>1 DEF IntInv, Serving, Interrupting
  <2>2. CASE CtrlJoined
    <3>1. /\ pcCtrl' = IF name[ctrlCmd] = "stop" THEN "clear" ELSE "release"
          /\ Interrupting /\ blockingThread' = None
      BY <2>2 DEF CtrlJoined, Interrupting
    <3> QED
      BY <1>1, <3>1 DEF IntInv, Serving, Connecting, TrackedAlive
  <2>3. CASE CtrlJoinTimeout \/ CtrlClear
    <3>1. pcCtrl' = "drain"
      BY <2>3 DEF CtrlJoinTimeout, CtrlClear
    <3> QED
      BY <3>1 DEF Serving, Connecting, Interrupting
  <2>4. CASE CtrlRelease
    <3>1. /\ pcCtrl' = "clear" /\ pcCtrl = "release"
          /\ controller' = None /\ connected' = FALSE
          /\ UNCHANGED blockingThread
      BY <2>4 DEF CtrlRelease, Destroy, opVars
    <3>2. name[ctrlCmd] \in Interrupt /\ ~ TrackedAlive
      BY <3>1 DEF IntInv, Serving, Interrupting
    <3> QED
      BY <1>1, <3>1, <3>2 DEF Serving, Connecting, TrackedAlive, Alive
  <2> QED
    BY <2>1, <2>2, <2>3, <2>4
<1>8. Answered'
  <2> SUFFICES ASSUME pcMain = "wait", name[issued] \in Interrupt,
                      outcome'[issued] = "ok"
               PROVE  Quiet' /\ ~ Connecting' /\ ~ Interrupting'
    BY <1>1 DEF Answered
  <2>1. issued \in Ids
    BY DEF Ids, TypeOK, MainTypes
  <2>2. ctrlCmd = issued /\ outcome # outcome'
    <3>1. outcome[issued] # "ok"
      BY <1>1 DEF IntInv, Answered
    <3> QED
      BY <1>3, <2>1, <3>1
  <2>3. ~ CtrlConnectReturns
    BY <2>2 DEF CtrlConnectReturns, IntInv, Serving, Connecting, Interrupt
  <2>4. ~ CtrlJoinTimeout
    BY <2>1, <2>2 DEF CtrlJoinTimeout, TypeOK, OperationTypes
  <2>5. CtrlClear
    BY <2>2, <2>3, <2>4 DEF CtrlJoined, CtrlRelease, opVars
  <2>6. Len(cmdQueue) = 0
    <3> SUFFICES ASSUME Len(cmdQueue) # 0 PROVE FALSE
      OBVIOUS
    <3>1. 1 \in 1 .. Len(cmdQueue)
      OBVIOUS
    <3>2. ctrlCmd < cmdQueue[1] /\ cmdQueue[1] <= issued
      BY <3>1 DEF IntInv, QueueInOrder
    <3> QED
      BY <2>2, <3>1, <3>2
  <2>7. cmdQueue = <<>>
    BY <2>6
  <2>8. /\ ~ TrackedAlive
        /\ name[issued] = "disconnect" => controller = None /\ ~ connected
    BY <2>2, <2>5 DEF CtrlClear, IntInv, Serving
  <2> QED
    BY <1>1, <2>5, <2>7, <2>8
       DEF CtrlClear, Quiet, TrackedAlive, Alive, Connecting, Interrupting,
           robotVars
<1> QED
  BY <1>4, <1>5, <1>6, <1>7, <1>8 DEF IntInv

LEMMA ControllerInt ==
  ASSUME TypeOK, IntInv, Controller
  PROVE  IntInv'
<1>1. CASE \/ CtrlTop \/ CtrlTake \/ CtrlSkipSet \/ CtrlApplySet \/ CtrlSetFails
           \/ CtrlDrained \/ CtrlPoll \/ CtrlClose
  <2>1. /\ pcCtrl' \in {"take", "close", "set", "drain", "reap", "top",
                        "destroy"}
        /\ UNCHANGED <<busy, cmdQueue, mainVars, ctrlCmd, robotVars, opVars>>
    BY <1>1, Zenon
       DEF CtrlTop, CtrlTake, CtrlSkipSet, CtrlApplySet, CtrlSetFails,
           CtrlDrained, CtrlPoll, CtrlClose
  <2> QED
    BY <2>1, ControllerKeepsInt
       DEF Connecting, Interrupting, robotVars, opVars
<1>2. CASE CtrlConnectDone \/ CtrlReap \/ CtrlDestroy
  <2>1. /\ pcCtrl' \in {"drain", "poll", "done"} /\ (busy' => busy)
        /\ UNCHANGED <<cmdQueue, mainVars, ctrlCmd, outcome, helper>>
        /\ blockingThread' \in {blockingThread, None}
        /\ \/ UNCHANGED <<controller, connected>>
           \/ controller' = None /\ connected' = FALSE
    BY <1>2
       DEF CtrlConnectDone, CtrlReap, CtrlDestroy, Destroy, robotVars, opVars
  <2> QED
    BY <2>1, ControllerKeepsInt DEF Connecting, Interrupting
<1> QED
  BY <1>1, <1>2, DequeueInt, ServeInt DEF Controller

\* A helper's outcome is not that of an interrupt, and none comes to life.
LEMMA HelperInt ==
  ASSUME TypeOK, IntInv, NEW i \in Ids, Helper(i)
  PROVE  IntInv'
<1> USE CommandNumbers
<1>1. /\ helper[i] # "none"
      /\ UNCHANGED <<busy, cmdQueue, pcMain, issued, name, pcCtrl, ctrlCmd,
                     connected, controller, blockingThread>>
  BY DEF Helper, HelperBinds, HelperCalls, HelperFindsNone, HelperReturns,
         HelperWrites, mainVars, ctrlVars, robotVars
<1>2. /\ \A j \in Ids : j # i => outcome'[j] = outcome[j]
      /\ \A j \in Ids : Alive(j)' => Alive(j)
      /\ \A j \in Ids : helper'[j] # "none" => helper[j] # "none"
  BY DEF Helper, HelperBinds, HelperCalls, HelperFindsNone, HelperReturns,
         HelperWrites, Alive, TypeOK, OperationTypes
<1>3. name[i] \in {"move", "start"}
  BY <1>1 DEF IntInv, HelperNames
<1>4. ~ TrackedAlive => ~ TrackedAlive'
  BY <1>1, <1>2 DEF TrackedAlive, TypeOK, OperationTypes
<1>5. NotMade'
  BY <1>1, <1>2, <1>3 DEF IntInv, NotMade
<1>6. HelperNames' /\ QueueInOrder'
  BY <1>1, <1>2 DEF IntInv, HelperNames, QueueInOrder
<1>7. pcMain \in {"put", "wait"} /\ name[issued] \in Interrupt
        => outcome'[issued] = outcome[issued]
  BY <1>2, <1>3 DEF Interrupt, Ids, TypeOK, MainTypes
<1>8. PutNewest'
  BY <1>1, <1>7 DEF IntInv, PutNewest
<1>9. Serving'
  BY <1>1, <1>4 DEF IntInv, Serving, Connecting, Interrupting
<1>10. Answered'
  BY <1>1, <1>4, <1>7
     DEF IntInv, Answered, Quiet, Connecting, Interrupting
<1> QED
  BY <1>5, <1>6, <1>8, <1>9, <1>10 DEF IntInv

\* With any requests, interrupts among them: the commands are served in their
\* order, and from an interrupt's last statement to its answer the server is
\* quiet (robot_server.py:428-486).
THEOREM InterruptInvariant == Spec => []IntInv
<1>1. TypeOK /\ IntInv /\ [Next]_vars => IntInv'
  <2>1. IntInv /\ UNCHANGED vars => IntInv'
    BY MainKeepsInt DEF vars, mainVars
  <2> QED
    BY <2>1, MainInt, ControllerInt, HelperInt DEF Next
<1> QED
  BY <1>1, InitInt, TypeCorrect, PTL DEF Spec

\* When an interrupt is answered with success the server is at rest
\* (robot_server.py:428-486): InterruptLeavesQuiet for any requests.
THEOREM InterruptsLeaveQuiet == Spec => InterruptLeavesQuiet
<1> DEFINE Rests ==
      MainAnswer /\ name[issued] \in Interrupt /\ outcome[issued] = "ok"
        => /\ ~ busy /\ ~ TrackedAlive /\ cmdQueue = <<>>
           /\ name[issued] = "disconnect"
                => controller = None /\ ~ connected
<1>1. IntInv /\ [Next]_vars => [Rests]_vars
  BY DEF MainAnswer, IntInv, Answered, Quiet
<1> QED
  BY <1>1, InterruptInvariant, PTL DEF Spec, InterruptLeavesQuiet
=============================================================================
