----------------------------- MODULE RobotServer -----------------------------
(***************************************************************************)
(* The robot server: the main thread that receives requests, the           *)
(* controller thread that owns the aiofranka controller, and the helper    *)
(* threads that run move and start.  One action is one step of a thread    *)
(* between two accesses to what the threads share.                         *)
(*                                                                         *)
(* _cmd_event only shortens the controller thread's 1 ms wait, so it is    *)
(* left out.  An enqueued command is known by its number, 1..issued.       *)
(***************************************************************************)
EXTENDS Naturals, Sequences

CONSTANTS
  Commands,      \* the requests the clients send ("SIGINT" is the signal)
  MaxCmds,       \* bound on the commands put in the queue
  SlowConnect,   \* may connect outlast the 10 s and the 5 s waits?
  Reconnect      \* may a client send connect to a connected server?

Blocking  == {"connect", "move", "start"}
Interrupt == {"stop", "disconnect"}
Fast      == {"switch", "is_running"}
Queued    == Blocking \union Interrupt \union Fast

ASSUME ServerAssumption ==
  /\ Commands \subseteq Queued \union {"set", "get_state", "shutdown", "SIGINT"}
  /\ MaxCmds \in Nat
  /\ SlowConnect \in BOOLEAN
  /\ Reconnect \in BOOLEAN

Ids  == 1 .. MaxCmds
None == 0

VARIABLES
  running,        \* _running
  busy,           \* _busy
  connected,      \* _connected
  controller,     \* _controller: the connect that made it, or None
  loops,          \* the controllers whose control loop runs (external)
  streamingSet,   \* _streaming_set is not None
  cmdQueue,       \* _cmd_queue
  issued,         \* how many commands were made
  name,           \* _QueuedCommand.name
  outcome,        \* _QueuedCommand.result, or what a helper's call returned
  workerResult,   \* _worker_result: the operation whose outcome it is
  blockingThread, \* _blocking_thread: the operation it runs
  helper,         \* the life of the helper thread of each operation
  target,         \* the controller whose method a helper is to call
  pcMain, statusRead, lastAccepted,
  pcCtrl, ctrlCmd, setTaken

mainVars   == <<pcMain, statusRead, lastAccepted, issued, name>>
ctrlVars   == <<pcCtrl, ctrlCmd, setTaken>>
robotVars  == <<connected, controller, loops>>
opVars     == <<outcome, workerResult, blockingThread, helper, target>>
vars == <<running, busy, streamingSet, cmdQueue,
          mainVars, ctrlVars, robotVars, opVars>>

Init ==
  /\ running = TRUE /\ busy = FALSE /\ streamingSet = FALSE
  /\ connected = FALSE /\ controller = None /\ loops = {}
  /\ cmdQueue = <<>> /\ issued = 0
  /\ name = [i \in Ids |-> "none"]
  /\ outcome = [i \in Ids |-> "none"]
  /\ helper = [i \in Ids |-> "none"] /\ target = [i \in Ids |-> None]
  /\ workerResult = None /\ blockingThread = None
  /\ pcMain = "top" /\ statusRead = "idle" /\ lastAccepted = None
  /\ pcCtrl = "top" /\ ctrlCmd = None /\ setTaken = FALSE

Alive(i) == helper[i] \in {"spawned", "bound", "calling"}

\* is_alive() of the thread in _blocking_thread.
TrackedAlive == blockingThread # None /\ Alive(blockingThread)

-----------------------------------------------------------------------------
(* Main thread: receive, dispatch, reply. *)

\* while self._running
MainTop ==
  /\ pcMain = "top"
  /\ pcMain' = IF running THEN "recv" ELSE "join"
  /\ UNCHANGED <<running, busy, streamingSet, cmdQueue, statusRead,
                 lastAccepted, issued, name, ctrlVars, robotVars, opVars>>

\* zmq.Again after 200 ms, or a malformed or unknown request.
RecvNothing ==
  /\ pcMain = "recv" /\ pcMain' = "top"
  /\ UNCHANGED <<running, busy, streamingSet, cmdQueue, statusRead,
                 lastAccepted, issued, name, ctrlVars, robotVars, opVars>>

\* Mutant of Make: the command is not counted.
MakeUncounted(c) ==
  /\ pcMain = "recv" /\ c \in Commands /\ issued < MaxCmds
  /\ name' = [name EXCEPT ![issued + 1] = c]
  /\ pcMain' = "put"
  /\ UNCHANGED issued

\* A command object is made; MainPut puts it in the queue.
Make(c) ==
  /\ pcMain = "recv" /\ c \in Commands
  /\ issued < MaxCmds
  /\ issued' = issued + 1
  /\ name' = [name EXCEPT ![issued + 1] = c]
  /\ pcMain' = "put"

\* Mutant of RecvBlocking: the old result is not forgotten.
RecvBlockingKeepsResult(c) ==
  /\ c \in Blocking /\ ~ busy
  /\ (c = "connect" /\ ~ Reconnect) => ~ connected
  /\ Make(c)
  /\ busy' = TRUE /\ lastAccepted' = issued + 1
  /\ UNCHANGED <<running, streamingSet, cmdQueue, statusRead, ctrlVars,
                 robotVars, opVars>>

\* A blocking command is accepted unless another is in progress.
RecvBlocking(c) ==
  /\ c \in Blocking
  /\ ~ busy
  /\ (c = "connect" /\ ~ Reconnect) => ~ connected
  /\ Make(c)
  /\ busy' = TRUE
  /\ workerResult' = None
  /\ lastAccepted' = issued + 1
  /\ UNCHANGED <<running, streamingSet, cmdQueue, statusRead, ctrlVars,
                 robotVars, outcome, blockingThread, helper, target>>

\* Interrupts bypass the busy check, fast commands do not.
RecvWaited(c) ==
  /\ c \in Interrupt \/ (c \in Fast /\ ~ busy)
  /\ Make(c)
  /\ UNCHANGED <<running, busy, streamingSet, cmdQueue, statusRead,
                 lastAccepted, ctrlVars, robotVars, opVars>>

\* "Worker busy"
RecvRejected(c) ==
  /\ pcMain = "recv" /\ c \in Commands \intersect (Blocking \union Fast)
  /\ busy
  /\ pcMain' = "top"
  /\ UNCHANGED <<running, busy, streamingSet, cmdQueue, statusRead,
                 lastAccepted, issued, name, ctrlVars, robotVars, opVars>>

\* A streamed target replaces the one not yet taken, or is dropped when busy.
RecvSet ==
  /\ pcMain = "recv" /\ "set" \in Commands
  /\ streamingSet' = (streamingSet \/ ~ busy)
  /\ pcMain' = "top"
  /\ UNCHANGED <<running, busy, cmdQueue, statusRead, lastAccepted, issued,
                 name, ctrlVars, robotVars, opVars>>

\* _handle_get_state reads _busy first ...
RecvGetState ==
  /\ pcMain = "recv" /\ "get_state" \in Commands
  /\ statusRead' = IF busy THEN "busy" ELSE "idle"
  /\ pcMain' = "state"
  /\ UNCHANGED <<running, busy, streamingSet, cmdQueue, lastAccepted, issued,
                 name, ctrlVars, robotVars, opVars>>

\* ... and then _connected, the cached state, whose numbers are left out, and
\* _worker_result, for the reply.
ReplyState ==
  /\ pcMain = "state" /\ pcMain' = "top"
  /\ UNCHANGED <<running, busy, streamingSet, cmdQueue, statusRead,
                 lastAccepted, issued, name, ctrlVars, robotVars, opVars>>

RecvShutdown ==
  /\ pcMain = "recv" /\ "shutdown" \in Commands
  /\ running' = FALSE /\ pcMain' = "top"
  /\ UNCHANGED <<busy, streamingSet, cmdQueue, statusRead, lastAccepted,
                 issued, name, ctrlVars, robotVars, opVars>>

\* _enqueue: a blocking command is answered at once, the others wait.
MainPut ==
  /\ pcMain = "put"
  /\ cmdQueue' = Append(cmdQueue, issued)
  /\ pcMain' = IF name[issued] \in Blocking THEN "top" ELSE "wait"
  /\ UNCHANGED <<running, busy, streamingSet, statusRead, lastAccepted,
                 issued, name, ctrlVars, robotVars, opVars>>

MainAnswer ==
  /\ pcMain = "wait" /\ outcome[issued] # "none"
  /\ pcMain' = "top"
  /\ UNCHANGED <<running, busy, streamingSet, cmdQueue, statusRead,
                 lastAccepted, issued, name, ctrlVars, robotVars, opVars>>

\* cmd.event.wait(timeout=10.0) expires: the controller thread has left its
\* loop, or it is inside a slow connect.
ControllerUnresponsive ==
  pcCtrl = "done" \/ (SlowConnect /\ pcCtrl = "connecting")

MainTimeout ==
  /\ pcMain = "wait" /\ outcome[issued] = "none"
  /\ ControllerUnresponsive
  /\ pcMain' = "top"
  /\ UNCHANGED <<running, busy, streamingSet, cmdQueue, statusRead,
                 lastAccepted, issued, name, ctrlVars, robotVars, opVars>>

\* ctrl_thread.join(timeout=5.0), and ctx.term(), which waits for the push
\* socket to be closed; then the process ends with its daemon threads.
MainJoin ==
  /\ pcMain = "join"
  /\ \/ pcCtrl = "done" /\ pcMain' = "done"
     \/ ControllerUnresponsive /\ pcCtrl # "done" /\ pcMain' = "term"
  /\ UNCHANGED <<running, busy, streamingSet, cmdQueue, statusRead,
                 lastAccepted, issued, name, ctrlVars, robotVars, opVars>>

MainTerm ==
  /\ pcMain = "term" /\ pcCtrl \in {"destroy", "done"}
  /\ pcMain' = "done"
  /\ UNCHANGED <<running, busy, streamingSet, cmdQueue, statusRead,
                 lastAccepted, issued, name, ctrlVars, robotVars, opVars>>

\* SIGINT or SIGTERM.
Signal ==
  /\ "SIGINT" \in Commands /\ running /\ pcMain # "done"
  /\ running' = FALSE
  /\ UNCHANGED <<busy, streamingSet, cmdQueue, mainVars, ctrlVars, robotVars,
                 opVars>>

Main ==
  \/ MainTop \/ RecvNothing \/ RecvSet \/ RecvGetState \/ ReplyState
  \/ RecvShutdown \/ MainPut \/ MainAnswer \/ MainTimeout
  \/ MainJoin \/ MainTerm
  \/ \E c \in Commands : RecvBlocking(c) \/ RecvWaited(c) \/ RecvRejected(c)

-----------------------------------------------------------------------------
(* Controller thread. *)

\* while self._running, then the wait on _cmd_event.
CtrlTop ==
  /\ pcCtrl = "top"
  /\ pcCtrl' = IF running THEN "take" ELSE "close"
  /\ UNCHANGED <<running, busy, streamingSet, cmdQueue, mainVars, ctrlCmd,
                 setTaken, robotVars, opVars>>

\* The one-slot target is taken under its lock.
CtrlTake ==
  /\ pcCtrl = "take" /\ pcCtrl' = "set"
  /\ setTaken' = streamingSet /\ streamingSet' = FALSE
  /\ UNCHANGED <<running, busy, cmdQueue, mainVars, ctrlCmd, robotVars, opVars>>

\* No target, or one dropped because an operation has been accepted.
CtrlSkipSet ==
  /\ pcCtrl = "set" /\ (setTaken => busy)
  /\ pcCtrl' = "drain" /\ setTaken' = FALSE
  /\ UNCHANGED <<running, busy, streamingSet, cmdQueue, mainVars, ctrlCmd,
                 robotVars, opVars>>

\* Mutant of CtrlApplySet: the busy check is dropped.
CtrlApplySetAnyTime ==
  /\ pcCtrl = "set" /\ setTaken /\ controller # None
  /\ pcCtrl' = "drain" /\ setTaken' = FALSE
  /\ UNCHANGED <<running, busy, streamingSet, cmdQueue, mainVars, ctrlCmd,
                 robotVars, opVars>>

CtrlApplySet ==
  /\ pcCtrl = "set" /\ setTaken /\ ~ busy /\ controller # None
  /\ pcCtrl' = "drain" /\ setTaken' = FALSE
  /\ UNCHANGED <<running, busy, streamingSet, cmdQueue, mainVars, ctrlCmd,
                 robotVars, opVars>>

\* Mutant of CtrlSetFails: the thread ends without its finally block.
CtrlSetFailsAbruptly ==
  /\ pcCtrl = "set" /\ setTaken /\ ~ busy
  /\ running' = FALSE
  /\ pcCtrl' = "done" /\ setTaken' = FALSE
  /\ UNCHANGED <<busy, streamingSet, cmdQueue, mainVars, ctrlCmd, robotVars,
                 opVars>>

\* "Not connected", or controller.set raised: the server shuts down.
CtrlSetFails ==
  /\ pcCtrl = "set" /\ setTaken /\ ~ busy
  /\ running' = FALSE
  /\ pcCtrl' = "close" /\ setTaken' = FALSE
  /\ UNCHANGED <<busy, streamingSet, cmdQueue, mainVars, ctrlCmd, robotVars,
                 opVars>>

\* get_nowait() returns the command i.
Dequeue(i) ==
  /\ pcCtrl = "drain" /\ cmdQueue # <<>> /\ i = Head(cmdQueue)
  /\ cmdQueue' = Tail(cmdQueue)

\* move, start: a helper thread runs the call.
CtrlSpawn(i) ==
  /\ Dequeue(i) /\ name[i] \in {"move", "start"}
  /\ blockingThread' = i
  /\ helper' = [helper EXCEPT ![i] = "spawned"]
  /\ UNCHANGED <<running, busy, streamingSet, mainVars, ctrlVars, robotVars,
                 outcome, workerResult, target>>

\* Mutant of CtrlFast: a call that raises sets neither result nor event.
CtrlFastSilentOnError(i) ==
  /\ Dequeue(i) /\ name[i] \in Fast
  /\ \E r \in {"ok", "none"} :
       /\ outcome' = [outcome EXCEPT ![i] = r]
  /\ UNCHANGED <<running, busy, streamingSet, mainVars, ctrlVars, robotVars,
                 workerResult, blockingThread, helper, target>>

\* switch fails unless connected and may raise; is_running reports.
CtrlFast(i) ==
  /\ Dequeue(i) /\ name[i] \in Fast
  /\ \E r \in {"ok", "failed"} :
       /\ (name[i] = "switch" /\ controller = None) => r = "failed"
       /\ (name[i] = "is_running" /\ controller = None) => r = "ok"
       /\ outcome' = [outcome EXCEPT ![i] = r]
  /\ UNCHANGED <<running, busy, streamingSet, mainVars, ctrlVars, robotVars,
                 workerResult, blockingThread, helper, target>>

\* Mutant of CtrlBeginConnect: the flag is cleared before the result is there.
CtrlBeginConnectNotBusy(i) ==
  /\ Dequeue(i) /\ name[i] = "connect"
  /\ ctrlCmd' = i /\ pcCtrl' = "connecting"
  /\ busy' = FALSE
  /\ UNCHANGED <<running, streamingSet, mainVars, setTaken, robotVars, opVars>>

\* connect runs on the controller thread itself.
CtrlBeginConnect(i) ==
  /\ Dequeue(i) /\ name[i] = "connect"
  /\ ctrlCmd' = i /\ pcCtrl' = "connecting"
  /\ UNCHANGED <<running, busy, streamingSet, mainVars, setTaken, robotVars,
                 opVars>>

\* A new controller is created, started and switched; if any of this fails
\* it is stopped and the previous _controller stays.
CtrlConnectReturns ==
  /\ pcCtrl = "connecting" /\ pcCtrl' = "connected"
  /\ \/ /\ controller' = ctrlCmd /\ connected' = TRUE
        /\ loops' = loops \union {ctrlCmd}
        /\ outcome' = [outcome EXCEPT ![ctrlCmd] = "ok"]
     \/ /\ outcome' = [outcome EXCEPT ![ctrlCmd] = "failed"]
        /\ UNCHANGED <<controller, connected, loops>>
  /\ workerResult' = ctrlCmd
  /\ UNCHANGED <<running, busy, streamingSet, cmdQueue, mainVars, ctrlCmd,
                 setTaken, blockingThread, helper, target>>

CtrlConnectDone ==
  /\ pcCtrl = "connected" /\ pcCtrl' = "drain"
  /\ busy' = FALSE
  /\ UNCHANGED <<running, streamingSet, cmdQueue, mainVars, ctrlCmd, setTaken,
                 robotVars, opVars>>

\* Mutant of CtrlBeginInterrupt: the live helper is not joined.
CtrlBeginInterruptNoJoin(i) ==
  /\ Dequeue(i) /\ name[i] \in Interrupt
  /\ ctrlCmd' = i
  /\ pcCtrl' = IF name[i] = "stop" THEN "clear" ELSE "release"
  /\ loops' = loops \ {controller}
  /\ UNCHANGED <<running, busy, streamingSet, mainVars, setTaken, connected,
                 controller, opVars>>

\* _handle_stop and _handle_disconnect: a live helper is interrupted by
\* controller.stop() and joined; otherwise stop stops the controller itself
\* and disconnect goes on to release it.
CtrlBeginInterrupt(i) ==
  /\ Dequeue(i) /\ name[i] \in Interrupt
  /\ ctrlCmd' = i
  /\ pcCtrl' = IF TrackedAlive THEN "joining"
               ELSE IF name[i] = "stop" THEN "clear" ELSE "release"
  /\ loops' = IF TrackedAlive \/ name[i] = "stop"
              THEN loops \ {controller} ELSE loops
  /\ UNCHANGED <<running, busy, streamingSet, mainVars, setTaken, connected,
                 controller, opVars>>

CtrlJoined ==
  /\ pcCtrl = "joining" /\ ~ TrackedAlive
  /\ blockingThread' = None
  /\ pcCtrl' = IF name[ctrlCmd] = "stop" THEN "clear" ELSE "release"
  /\ UNCHANGED <<running, busy, streamingSet, cmdQueue, mainVars, ctrlCmd,
                 setTaken, robotVars, outcome, workerResult, helper, target>>

\* join(timeout=5.0) expires: the server shuts down.
CtrlJoinTimeout ==
  /\ pcCtrl = "joining" /\ TrackedAlive
  /\ running' = FALSE
  /\ outcome' = [outcome EXCEPT ![ctrlCmd] = "failed"]
  /\ pcCtrl' = "drain"
  /\ UNCHANGED <<busy, streamingSet, cmdQueue, mainVars, ctrlCmd, setTaken,
                 robotVars, workerResult, blockingThread, helper, target>>

\* _destroy_controller
Destroy ==
  /\ loops' = loops \ {controller}
  /\ controller' = None /\ connected' = FALSE

CtrlRelease ==
  /\ pcCtrl = "release" /\ pcCtrl' = "clear"
  /\ Destroy
  /\ UNCHANGED <<running, busy, streamingSet, cmdQueue, mainVars, ctrlCmd,
                 setTaken, opVars>>

\* Mutant of CtrlClear: the flag is left set.
CtrlClearKeepsBusy ==
  /\ pcCtrl = "clear" /\ pcCtrl' = "drain"
  /\ workerResult' = None
  /\ outcome' = [outcome EXCEPT ![ctrlCmd] = "ok"]
  /\ UNCHANGED <<running, busy, streamingSet, cmdQueue, mainVars, ctrlCmd,
                 setTaken, robotVars, blockingThread, helper, target>>

\* Mutant of CtrlClear: the event is not set.
CtrlClearSilent ==
  /\ pcCtrl = "clear" /\ pcCtrl' = "drain"
  /\ busy' = FALSE /\ workerResult' = None
  /\ UNCHANGED <<running, streamingSet, cmdQueue, mainVars, ctrlCmd, setTaken,
                 robotVars, outcome, blockingThread, helper, target>>

\* The interrupt's last statements: it reports success.
CtrlClear ==
  /\ pcCtrl = "clear" /\ pcCtrl' = "drain"
  /\ busy' = FALSE /\ workerResult' = None
  /\ outcome' = [outcome EXCEPT ![ctrlCmd] = "ok"]
  /\ UNCHANGED <<running, streamingSet, cmdQueue, mainVars, ctrlCmd, setTaken,
                 robotVars, blockingThread, helper, target>>

\* queue.Empty
CtrlDrained ==
  /\ pcCtrl = "drain" /\ cmdQueue = <<>>
  /\ pcCtrl' = "reap"
  /\ UNCHANGED <<running, busy, streamingSet, cmdQueue, mainVars, ctrlCmd,
                 setTaken, robotVars, opVars>>

\* Mutant of CtrlReap: the helper is not asked whether it is alive.
CtrlReapUnasked ==
  /\ pcCtrl = "reap" /\ pcCtrl' = "poll"
  /\ blockingThread' = None
  /\ busy' = (busy /\ blockingThread = None)
  /\ UNCHANGED <<running, streamingSet, cmdQueue, mainVars, ctrlCmd, setTaken,
                 robotVars, outcome, workerResult, helper, target>>

\* A helper that finished by itself is joined and the flag cleared.
CtrlReap ==
  /\ pcCtrl = "reap" /\ pcCtrl' = "poll"
  /\ IF blockingThread # None /\ ~ TrackedAlive
     THEN blockingThread' = None /\ busy' = FALSE
     ELSE UNCHANGED <<blockingThread, busy>>
  /\ UNCHANGED <<running, streamingSet, cmdQueue, mainVars, ctrlCmd, setTaken,
                 robotVars, outcome, workerResult, helper, target>>

\* _poll_state refreshes the cache and publishes it.
CtrlPoll ==
  /\ pcCtrl = "poll" /\ pcCtrl' = "top"
  /\ UNCHANGED <<running, busy, streamingSet, cmdQueue, mainVars, ctrlCmd,
                 setTaken, robotVars, opVars>>

\* finally: the push socket is closed ...
CtrlClose ==
  /\ pcCtrl = "close" /\ pcCtrl' = "destroy"
  /\ UNCHANGED <<running, busy, streamingSet, cmdQueue, mainVars, ctrlCmd,
                 setTaken, robotVars, opVars>>

\* ... and the controller released.
CtrlDestroy ==
  /\ pcCtrl = "destroy" /\ pcCtrl' = "done"
  /\ Destroy
  /\ UNCHANGED <<running, busy, streamingSet, cmdQueue, mainVars, ctrlCmd,
                 setTaken, opVars>>

Controller ==
  /\ pcMain # "done"
  /\ \/ CtrlTop \/ CtrlTake \/ CtrlSkipSet \/ CtrlApplySet \/ CtrlSetFails
     \/ \E i \in Ids : \/ CtrlSpawn(i) \/ CtrlFast(i)
                        \/ CtrlBeginConnect(i) \/ CtrlBeginInterrupt(i)
     \/ CtrlConnectReturns \/ CtrlConnectDone
     \/ CtrlJoined \/ CtrlJoinTimeout
     \/ CtrlRelease \/ CtrlClear
     \/ CtrlDrained \/ CtrlReap \/ CtrlPoll \/ CtrlClose \/ CtrlDestroy

-----------------------------------------------------------------------------
(* Helper threads. *)

\* _call_controller finds the controller; the call itself comes later, so a
\* stop() in between misses it.
HelperBinds(i) ==
  /\ helper[i] = "spawned" /\ controller # None
  /\ helper' = [helper EXCEPT ![i] = "bound"]
  /\ target' = [target EXCEPT ![i] = controller]
  /\ UNCHANGED <<running, busy, streamingSet, cmdQueue, mainVars, ctrlVars,
                 robotVars, outcome, workerResult, blockingThread>>

\* controller.move or controller.start; start turns the control loop on
\* unless it fails.
HelperCalls(i) ==
  /\ helper[i] = "bound"
  /\ helper' = [helper EXCEPT ![i] = "calling"]
  /\ \/ name[i] = "start" /\ loops' = loops \union {target[i]}
     \/ UNCHANGED loops
  /\ UNCHANGED <<running, busy, streamingSet, cmdQueue, mainVars, ctrlVars,
                 connected, controller, outcome, workerResult,
                 blockingThread, target>>

HelperWrites(i, r) ==
  /\ helper' = [helper EXCEPT ![i] = "dead"]
  /\ outcome' = [outcome EXCEPT ![i] = r]
  /\ workerResult' = i
  /\ UNCHANGED <<running, busy, streamingSet, cmdQueue, mainVars, ctrlVars,
                 robotVars, blockingThread, target>>

\* "Not connected"
HelperFindsNone(i) ==
  helper[i] = "spawned" /\ controller = None /\ HelperWrites(i, "failed")

HelperReturns(i) ==
  helper[i] = "calling" /\ \E r \in {"ok", "failed"} : HelperWrites(i, r)

Helper(i) ==
  /\ pcMain # "done"
  /\ \/ HelperBinds(i) \/ HelperCalls(i)
     \/ HelperFindsNone(i) \/ HelperReturns(i)

Next == Main \/ Signal \/ Controller \/ \E i \in Ids : Helper(i)

Fairness ==
  /\ WF_vars(Main) /\ WF_vars(Controller)
  /\ \A i \in Ids : WF_vars(Helper(i))

Spec == Init /\ [][Next]_vars /\ Fairness

-----------------------------------------------------------------------------
(* Type invariant. *)

FlagTypes ==
  /\ running \in BOOLEAN /\ busy \in BOOLEAN /\ connected \in BOOLEAN
  /\ streamingSet \in BOOLEAN /\ setTaken \in BOOLEAN

RobotTypes ==
  /\ controller \in Ids \union {None}
  /\ loops \subseteq Ids

CommandTypes ==
  /\ issued \in 0 .. MaxCmds
  /\ cmdQueue \in Seq(1 .. issued)
  /\ name \in [Ids -> Queued \union {"none"}]
  /\ \A i \in 1 .. issued : name[i] \in Commands

OperationTypes ==
  /\ outcome \in [Ids -> {"none", "ok", "failed"}]
  /\ helper \in [Ids -> {"none", "spawned", "bound", "calling", "dead"}]
  /\ target \in [Ids -> Ids \union {None}]
  /\ \A i \in Ids : helper[i] = "bound" => target[i] \in Ids
  /\ workerResult \in Ids \union {None}
  /\ blockingThread \in Ids \union {None}

MainTypes ==
  /\ lastAccepted \in 0 .. issued
  /\ statusRead \in {"busy", "idle"}
  /\ pcMain \in {"top", "recv", "state", "put", "wait", "join", "term", "done"}
  /\ pcMain \in {"put", "wait"} => issued > 0

ControllerTypes ==
  /\ pcCtrl \in {"top", "take", "set", "drain", "connecting", "connected",
                 "joining", "release", "clear", "reap", "poll", "close",
                 "destroy", "done"}
  /\ ctrlCmd \in 0 .. issued
  /\ pcCtrl \in {"connecting", "connected", "joining", "release", "clear"}
       => ctrlCmd > 0

\* Every variable has the values the code can give it, and the queue, the
\* main thread and the controller thread hold commands that were made (the
\* state of RobotServer.__init__ onwards).
TypeOK == FlagTypes /\ RobotTypes /\ CommandTypes /\ OperationTypes
            /\ MainTypes /\ ControllerTypes

-----------------------------------------------------------------------------
(* Properties. *)

\* What the comment at _busy promises (robot_server.py:145): while a helper
\* thread is in a controller call the server is busy, and the helper is the
\* only one, the one the controller thread tracks.
OneBlockingOp ==
  \A i \in Ids : Alive(i) => busy /\ blockingThread = i

\* A streamed target never reaches the controller while a move or a start
\* is in progress on a helper thread (robot_server.py:324).
NoSetDuringBlocking == [][CtrlApplySet => \A i \in Ids : ~ Alive(i)]_vars

\* The clients' polling protocol: a reply that says "idle" after an operation
\* was accepted carries that operation's outcome.  It rests on _busy being
\* read before _worker_result and cleared after it (robot_server.py:262-277,
\* 398-406, 344-349).
IdleReplyCarriesOutcome ==
  [][ReplyState /\ statusRead = "idle" /\ lastAccepted # None
       => workerResult = lastAccepted]_vars

\* For clients that never interrupt, the server does what JobSlot says.
Slot == INSTANCE JobSlot
          WITH Ops <- Ids, op <- lastAccepted, reported <- workerResult,
               interrupted <- FALSE
ImplementsSlot == Slot!Spec

\* No sequence of operations and interrupts leaves the flag set for good.
BusyClears == busy ~> ~ busy \/ ~ running

\* The main thread is not held by a request for ever, nor, unless the
\* controller thread is gone or in a slow connect, until the 10 s are over: also
\* while that thread joins a helper for an interrupt (_enqueue, :293, :435).
RequestAnswered == pcMain = "wait" ~> pcMain # "wait"

\* When an interrupt is answered with success the server is at rest: not
\* busy, no tracked helper alive, no command in the queue, and after a
\* disconnect no controller (robot_server.py:428-486).
InterruptLeavesQuiet ==
  [][MainAnswer /\ name[issued] \in Interrupt /\ outcome[issued] = "ok"
       => /\ ~ busy /\ ~ TrackedAlive /\ cmdQueue = <<>>
          /\ name[issued] = "disconnect"
               => controller = None /\ ~ connected]_vars

\* A stop answered with success has stopped the control loop
\* ("Stop controller and kill any blocking op", robot_server.py:429).
StopStopsLoop ==
  [][MainAnswer /\ name[issued] = "stop" /\ outcome[issued] = "ok"
       => loops = {}]_vars

\* "Controller thread: owns FrankaRemoteController exclusively" (:114): the
\* only control loop that runs is that of the controller it holds.
LoopsOwned == loops \subseteq {controller}

\* However the server is told to end, it does end, a streamed target that fails
\* included: no control loop runs any more when the controller thread has
\* released the controller, and no path of it leaves that out (:333, :367).
ShutdownReleases ==
  /\ ~ running ~> [](pcMain = "done" /\ controller = None)
  /\ [][CtrlDestroy => loops' = {}]_vars

\* "Stop and release controller" (:617): after the end no loop is left running.
ShutdownStopsLoops == ~ running ~> [](loops = {})

\* What the comment at _busy says ("main thread sets _busy=True, controller
\* thread clears", :145): the flag stands for the pending operation, so it is
\* set for as long as a helper is alive.
AliveMeansBusy == \A i \in Ids : Alive(i) => busy
=============================================================================
