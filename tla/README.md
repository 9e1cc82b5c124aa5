# franka-control: TLA+ models, model checking and proofs

This directory holds TLA+ models of franka-control, the TLC configurations that
check them on small instances and TLAPS proofs of what holds for every instance.
Every definition is translated from the Python source under `src/`; the `map` of
`PROJECT.json` names the lines each definition stands for.

## 1. Inventory of the system

franka-control drives a Franka FR3 arm from an *algorithm machine* through servers
running on a *control machine*. The two machines talk msgpack over ZMQ
(DEALER to ROUTER for commands, PUSH to PULL for the 1 kHz state stream).

| component | source | state it keeps | operations | what is hard |
|---|---|---|---|---|
| RobotServer | `robot/robot_server.py` | `_running`, `_busy`, `_connected`, `_controller`, `_cmd_queue`, `_streaming_set`, `_worker_result`, `_blocking_thread`, `_cached_state` | `_dispatch` of connect, move, start, stop, disconnect, switch, is_running, set, get_state, shutdown; the controller loop | main thread, controller thread and helper threads share the flags with few locks; waits with timeouts; interrupts racing an operation's natural end; shutdown while an operation runs |
| RobotClient | `robot/robot_client.py` | DEALER socket, `_streaming_state`, `_cached_state`, receiver thread | `_send_command`, `_wait_until_idle`, connect/start/move (blocking), stop/switch/disconnect, `set` (no reply), `state` | replies carry no correlation id: a reply later than the 5 s receive timeout is read by the next command; the stream thread races the synchronous refresh |
| GripperServer | `gripper/gripper_server.py` | `_worker_status`, `_worker_result`, `_worker_thread`, `_stop_flag`, `_homing_in_progress`, `_cached_state` | homing, open, move, grasp, stop, get_state, shutdown; state poll loop | stop joins the worker while holding the lock the worker needs; late results; polling against homing |
| GripperClient | `gripper/gripper_client.py` | DEALER socket | blocking and non-blocking calls over `_send_command` | as RobotClient |
| RobotiqServer | `robotiq/robotiq_server.py` | as GripperServer plus `_hardware_lock` and the hardware's last request | activate, reset, move, open, close, stop, get_state, shutdown; poll loop | as GripperServer; the refresh after a job; stop bypasses the hardware lock and then waits for it |
| RobotiqClient | `robotiq/robotiq_client.py` | DEALER socket | as GripperClient, `wait` or not | as RobotClient |
| FrankaEnv | `envs/franka_env.py` | `action_mode`, action space, `_current_*`, `_desired_*`, gripper target caches | connect, reset, step, move_to, set_action_mode, close | partial failure between remote switches and local mode; the desired pose against clipping; a target cached as reached |
| ActionChunkQueue, OpenPI client, inference loop | `openpi/*.py`, `scripts/openpi_inference.py` | `_pending`, `_reset_pending`, `_global_step`, `_closed` | next_action, mark_action_executed, reset, close | a failed inference after the reset mark was consumed; chunk boundaries |
| StateStreamRecorder | `data/state_recorder.py` | bounded queue, stop event, last images | start, stop, drain, background poll | drops when full; a thread that outlives `stop`; restart while the old thread lives |
| DataCollector | `data/collector.py` | `_episode_active`, dataset buffer, annotations file | start_episode, record_frame, end_episode, discard_episode, finalize | one step of several failing; annotation against dataset index on resume |
| collection loop | `scripts/collect_episodes.py` | recording flag, last action, counters | keys s, e, f, q, Esc; record loop | which action labels which frame; leaving while an episode is active |
| CameraManager | `cameras/camera_manager.py` | `Queue(1)` and `_last_frame` per camera, `_alive` | read, read_nowait, close, capture thread | discard-then-put on a one-slot queue against readers |
| routes and execution | `trajectory/executor.py`, `trajectory/waypoints.py` | waypoint and route dictionaries, `_dirty` | split_route, execute_route, execute_trajectory, CRUD, load, save | splitting at gripper actions, first and last indices, degenerate segments |
| TrajectoryPlanner | `trajectory/planner.py` | none | plan, validate | numeric (TOPPRA); only the monotone waypoint index search is discrete |
| teleoperation | `teleop/*.py`, `scripts/teleop.py` | pressed keys, gripper latch, GELLO calibration | get_action, listener callbacks | listener thread against the control loop |
| kinematics, scripts, assets | `kinematics/*.py`, other `scripts/*.py`, `scripts/*` | none or local | FK/IK, replay, latency, viewers | numeric or I/O |

**How they interact.** `FrankaEnv` owns a `RobotClient` and a gripper client; each
client talks to exactly one server; scripts own the environment, a teleoperation
device, a `StateStreamRecorder` (which reads `RobotClient.state` from its own thread)
and a `DataCollector`. The robot server's main thread never touches the controller: it
hands commands to the controller thread through a queue and a one-slot streaming
target, and shares the flags `_busy`, `_connected`, `_worker_result`, `_running` with it
without a lock.

## 2. Modules and what they stand for

| module | models | how |
|---|---|---|
| `JobSlot` | what each server promises to a polling client | four variables; `Accept`, `Finish`, `Interrupt` |
| `RobotServer` | `robot/robot_server.py` | main, controller and helper threads, one action per step between two accesses to shared state |
| `GripperServer` | `gripper/gripper_server.py` | main thread, one worker thread per job, poll thread |
| `RobotiqServer` | `robotiq/robotiq_server.py` (not `RobotiqHardware`) | as `GripperServer`, with the hardware lock and the cached state |
| `ServerClient` | `robot_client.py`, `gripper_client.py`, `robotiq_client.py` | a calling thread and the stream's receiver thread, against a server that is the slot of `JobSlot` behind queues of requests and replies |
| `FrankaEnv` | `envs/franka_env.py` | a call of the user is a sequence of remote calls, each of which may fail, while the arm and the gripper move |
| `Camera`, `StateRecorder` | `cameras/camera_manager.py`, `data/state_recorder.py` | the capture thread's queue of one and its readers; the recorder's thread with its bounded queue |
| `DataCollector` | `data/collector.py` | the active episode, the dataset, the annotations' file |
| `Episodes` | what a collection session promises of its dataset | three variables: the frames of the episode, the episodes saved, whether it is closed |
| `CollectEpisodes` | `scripts/collect_episodes.py` | the main thread, key by key and step by step, with the recorder, the camera, the dataset, Ctrl-C and the next session (`--resume`) |
| `ActionQueue` | `openpi/action_queue.py` | the actions of a chunk that are left, the reset mark, the step |
| `ArmScript` | what the scripts that stream to the arm share | `_confirm_execute`, the arm, the gripper, Ctrl-C, the exception |
| `OpenPIInference` | `scripts/openpi_inference.py`, `openpi/adapter.py`, `openpi/policy_client.py` | the loop, the observation and the action with their two gripper conversions |
| `ReplayEpisode` | `scripts/replay_lerobot_episode.py`, `scripts/replay_studio_episode.py` | the frames selected, the moves to the start, the gripper's actions |
| `ArmScripts` | one of the three, with its options | a robot's server has one client at a time |
| `Sorted` | `sorted` | a finite set of integers as a sequence |
| `Routes` | `trajectory/waypoints.py`, the pure part of `trajectory/executor.py` | the store with its dirty flag and its file; `SplitRoute`; what the planner refuses |
| `KeyboardTeleop` | `teleop/keyboard_teleop.py` | the listener's keys and the latches the loop reads |
| `WaypointSession` | `scripts/collect_waypoints.py` | the loop, its prompts, the way it ends and saves |
| `RunTrajectory` | `scripts/run_trajectory.py`, `execute_route`, `execute_trajectory` | planning, then one step of the environment after the other |
| `RouteScripts` | a session, or none, and then a run of a route | they meet in the file |
| `MC…` | instances for TLC | the sets of requests of each run |
| `…Proofs` | theorems about `RobotServer`, `GripperServer`, `RobotiqServer`, `ServerClient`, `FrankaEnv`, `CollectEpisodes`, `ArmScripts`, `RouteScripts` | each EXTENDS its module and TLAPS |

**How they are composed.** `JobSlot` is the interface between servers and
clients. Each server module has `Slot == INSTANCE JobSlot WITH …` and the property
`ImplementsSlot == Slot!Spec`: TLC checks it and TLAPS proves it. `ServerClient`
instantiates the same module as its environment, its server steps being
`Slot!Accept` and `Slot!Finish`. What is checked of a client therefore rests on what is
proved of the servers. `CollectEpisodes` EXTENDS the recorder (which EXTENDS the
camera) and the collector, whose operators are the calls the loop makes, and
implements `Episodes` (`ImplementsEpisodes`). `ArmScripts` is a sum: a variable says which
script runs, and the scripts share the arm and the gripper. `RouteScripts` is a sequence:
the run loads what the session has saved.

**Names.** A module keeps the names of the code: `_busy` is `busy`, `_cmd_queue` is
`cmdQueue`. Python threads have a program counter each (`pcMain`, `pcCtrl`, `pcPoll`,
`worker[i]`, `helper[i]`), whose values name the place between two steps. Commands,
jobs and calls are known by their number; payloads (joint values, widths, forces)
are left out, so "the result" is the number of the job whose result it is.

**RobotServer.** `RecvX` actions are `_dispatch` of one kind of request on the main
thread. `RecvBlocking` sets the flag and clears the result; `MainPut` enqueues, and
`MainAnswer` or `MainTimeout` ends the wait of 10 s. `RecvGetState` reads the flag and
`ReplyState` the result, because the code takes no lock over the two. The controller
thread goes round `CtrlTop … CtrlPoll` as `_controller_loop` does: target, one queued
command, reaping of a finished helper, poll. Connect runs on it
(`CtrlBeginConnect … CtrlConnectDone`), move and start on a helper, which first binds
the controller, then calls, then writes its result. Stop and disconnect
(`CtrlBeginInterrupt`) stop the controller, join the helper and clear the flags, or shut
the server down if the join takes more than 5 s. `CtrlClose`, `CtrlDestroy`, `MainJoin` and `MainTerm` are the end of the
process. `loops` stands for the control loops that run in aiofranka: a controller that
is connected or started runs one, `stop()` ends it.

**GripperServer and RobotiqServer.** `Submit` and `StartWorker` are `_submit_job`, in and
out of the lock. `RecvStop`, `StopLocks`, `StopJoins` and `StopResets` are `_cmd_stop`, which
joins the worker while it holds `_worker_lock` (`LockFree` says so to the others). A
worker's life is `spawned`, `calling`, `returned`, …, `ending`, `dead`. The gripper's
poll thread looks at the homing flag in one step and reads in the next; the Robotiq's
looks at the status, reads under the hardware lock, and stores under the cache's lock.
`position` is the last job whose call returned, `cached` and `reading` say from which
state of the hardware a value was read.

**ServerClient.** `Calls(k)` sends a request, `ReceivesAnswer` takes *the next* reply (as
the code does, replies carry no identity), `Asks` and `ReceivesStatus` are
`_wait_until_idle`, `GivesUp` its deadline, `Refreshes` and `ReceivesState` the refresh
after an operation, and `TimesOut` is `zmq.Again`. `StreamReceives` and `StreamStores`
are `_state_receiver`. `Sends` and the server's steps keep the order of messages, as one
ZMQ connection does.

**FrankaEnv.** `CallX` takes a call of the user; `ConnectRobot`, `MakeGripper`, `Homing`,
`GripperState`, `ReadState`, `ToPid`, `Move`, `FromPid`, `OpenGripper`, `GripperOpened`, `SetMode`,
`Send` and `ApplyGripper` are the remote calls it is made of. A joint angle and the pose it
gives are one number. What the environment knows of the arm is `cached`, the state that the
server polled last (`StatePolled`, at any time, so that it may be behind the arm), which
starts with zeros (`Zero`) and outlives a connection; `held` says that the client has one,
without which a refresh asks the server and may fail. `sound` is a history variable: what
no failed call has put in doubt since it was set, the delta targets only from a step on or
when they were set to a state that was not behind the arm. `ArmMoves` and `GripperEnds` are
the robot's and the gripper's own steps.

**The collection.** The clock moves with the steps of a recording, so that an
observation, and the action it is paired with, are times; an image is its number. The
recorder's thread reads the state, reads the images and puts the pair in three steps
(`ReadsState`, `ReadsImages`, `PutsFrame`), between which the main thread may stop it.
`torn` is the history of episodes after which a session raised. The camera throws the
frame in its queue away in one step and puts the next one in another.

**The arm scripts.** An action of a policy is the step it was computed at, its place in
the chunk, and the gripper it asks for. `opts` are the options of the script; `invert` is
`--invert-gripper-state`, which turns the state that the policy sees and not its action.
`interrupted` is how much was sent when Ctrl-C
came: in the replays it is `KeyboardInterrupt`, in the inference the handler that lowers
`running`.

**Routes.** A trajectory is its waypoints; `SplitRoute` is `split_route`, with positions from
1. In a session the keys and the lines typed at a prompt go to the terminal *and* to the
listener, which may get a press late and gets it again while the key is down. `typed` is
the history of the keys that went down at a prompt and are still down. Saving empties the file before it writes
(`SaveFails` leaves it as it was, or `Torn`).

## 3. Properties and runs

| run | instance | properties |
|---|---|---|
| `robot_ops` | connect, move, start, fast commands, set, get_state, shutdown, SIGINT; 3 commands | `TypeOK`, `OneBlockingOp`, `NoSetDuringBlocking`, `IdleReplyCarriesOutcome`, `ImplementsSlot`, `RequestAnswered`, `ShutdownReleases` |
| `robot_interrupts` | connect, start, move, stop, disconnect, SIGINT; 4 commands; slow connects | `InterruptLeavesQuiet`, `BusyClears`, `RequestAnswered` |
| `gripper` | homing, move, stop, get_state, shutdown, SIGINT; 2 jobs | `TypeOK`, `ImplementsSlot`, `PollingResumes`, `StopAnswered`, `BusyEnds` |
| `robotiq` | jobs, stop, get_state, shutdown, SIGINT; 2 jobs | `TypeOK`, `ImplementsSlot`, `HardwareInOrder`, `CacheCatchesUp`, `StopAnswered` |
| `client` | clients of the robot's and the gripper's server; 3 calls, 1 of which times out | `LateRepliesStay`, `TrueMeansDone`, `StateCatchesUp` |
| `env` | two delta modes, no gripper or a Robotiq, any calls, 1 failing remote call | `ControllerAgrees`, `LastTargetAccepted`, `JumpBounded`, `GripperFollows` |
| `collect` | a keyboard or a GELLO, 2 recordings, a queue of 1, 1 call that raises, a second session, Ctrl-C | `FramesInOrder`, `ActionsFit`, `NothingLost`, `AnnotationsMatch`, `ImplementsEpisodes`, `InterruptEnds` |
| `scripts` | each script with each of its options; chunks of 2 over 4 steps; any recording of 3 frames; 1 call that raises, Ctrl-C | `ChunkInStep`, `FollowsRecording`, `HoldsWhatItSaw`, `InterruptEnds` |
| `routes` | a session of 3 keys and commands, 1 call that raises, then a route run up to 2 times; and every route of up to 4 positions over 2 waypoints | `NothingUnsaved`, `FollowsRoute`, `EscEnds` |
| `robot_stop_busy`, `client_late_reply`, `collect_interrupt` | the smallest instance that shows it | one property each, which the code does not keep (section 6) |

What the runs of the robot, the environment and the scripts show:

- `robot_ops`, `robot_interrupts`: every request is answered, also when the controller
  thread waits for a helper. A server that is told to end does end, and its controller
  thread releases the controller with no loop running on any path. That no loop runs
  *afterwards* is `ShutdownStopsLoops`, which is false (section 6).

- `env`: between two calls the remote controller is that of the mode; a delta step never
  jumps by more than its bound, whatever moved the arm before, once the delta targets
  have been set to a state that was not behind the arm or a step has been made since (the
  first step after a connect may jump, section 6); a target that a step leaves out was
  accepted; and a gripper that refuses gets there in the end.
- `collect`: an episode has only frames of its own recording, in order, each with the
  first action after it; none that was queued is lost when the operator says how it went;
  the annotations belong to their episodes over sessions that raise; the dataset grows by
  whole episodes; and Ctrl-C ends the session from any point.
- `scripts`: the action carried out at a step is the one its chunk has for that step; a
  replay's arm and gripper follow the recording; the gripper's state and its action are
  converted the same way round, so that a policy which asks for what it sees keeps the hand
  where it is (with `--invert-gripper-state`: one which asks for the reverse); after Ctrl-C at most the action under way is sent.
- `routes`: nothing that was changed is lost at the end of a session unless the save
  raises; Esc ends the session
  though it was pressed at a prompt; and the arm goes through every position of a route
  in order with the gripper changing at the actions and nowhere else.

**Bounds.** `MaxCmds`, `MaxJobs` and `MaxCalls` bound what clients send; nothing else is
cut. An operation, a request while it is pending and one after it make three; the
races of stop need the stopped job and the one accepted after it, two. The interrupts
run has four, so that a command whose wait expired meets two later ones. The lengths
of the queues follow from these. In `client` `MaxLate = 1` is the number of receive
timeouts: with two, `TrueMeansDone` no longer holds (section 6). `StreamCap` is 2 in the
code and 1 in the run, which makes the stream full sooner. `open` and `grasp` take the
path of `move` in the gripper server, so its run leaves them out. In `env` a pose is one
of three, of which `Zero` is one and `Home` another, and a delta target may leave the
limits by `Margin`; the two types of gripper differ in that one must be activated (the
Franka hand has no step that the Robotiq lacks but the opening of its homing); `joint_abs` and `ee_abs` use the
controllers of the delta modes and have no targets of their own. In `collect` two
recordings make one after another possible, also across sessions; `MaxKept` and
`MaxShots` let the queue of one overflow (the code's holds `fps * buffer_seconds`), and
`MaxNow` gives each recording two steps. In `scripts` a chunk has two actions and the
loop four steps: an action inside a chunk, at its end, and in the next one. In `routes`
four positions make two segments, an action at either end and in the middle, and a
waypoint that comes twice; the third input of a session is what comes after a press and
a command. `MaxFaults` is the number of calls that raise.

**Until a stop.** A gripper's `stop` may leave a worker behind that later writes its
result over another job's (section 6). `OneJobAtATime`, `HardwareInOrder`,
`CacheCatchesUp` and `ImplementsSlot` therefore say what holds until the first stop
(`everStopped`, a history variable), in behaviours where stop may come at any moment.
`StopAnswered`, `BusyEnds` and `PollingResumes` hold with stops as well. In the robot
server the same is said by instances without stop and disconnect, `robot_ops`, and with
them, `robot_interrupts`.

**Fairness.** Every thread goes on: weak fairness of the main thread, of the controller
thread, of each helper or worker and of the poll thread, which the operating system's
scheduler provides. It includes that a call into aiofranka, the gripper or the hardware
returns or raises. Strong fairness is used three times. `PollReads` of the Robotiq:
readings may fail, and the lock may be taken, but not every time. `GivesUp` of the client:
the deadline is a clock's doing, and the loop passes it again and again; an operation is
*not* assumed to end there. The wait for the cameras of the inference, which has a
deadline too. A client's receive timeout is never assumed, nor a key, a call that raises
or Ctrl-C. `robot_ops` assumes that a connect is shorter than the 5 s join
(`SlowConnect = FALSE`); with slow connects the first part of `ShutdownReleases` fails, see
section 6. In
`env` the environment's calls and the gripper's jobs end. In `collect` the main thread and
the recorder's go on; the wait for the operator's answer has a deadline of 300 s. In `scripts` the operator and the policy server answer: `infer` waits for
the server without a timeout, and without an answer Ctrl-C does not end it. In `routes`
the operator answers what a prompt asks.

**Deadlock** is not checked (`CHECK_DEADLOCK FALSE`) but in `env`, whose user can always
call: servers and scripts end, and the bounds end the others. That nobody waits for ever
is what `RequestAnswered`, `StopAnswered`, `BusyClears`, `BusyEnds`, `InterruptEnds` and
`EscEnds` say.

**Mutants.** For each property of a passing run a mutant operator, defined before the
action it changes, makes a plausible mistake: a flag not reset on the failure path, a
guard not looked at, a result not forgotten, a join without timeout, a reply to `set`, a
queue not cleared, a segment that starts one too late. TLC finds the property violated
with it.

**Types.** `TypeOK` of the three servers is run and proved, that of the client, of the
collection, of the arm scripts and of the routes is proved (section 4), as is what
`FrankaEnvProofs` calls `Types`; the runs spend their time on the properties above, and a
`TypeOK` added to their configurations passes.

## 4. Proofs

TLAPS proves, for every value of the constants:

| module | theorem | says |
|---|---|---|
| `RobotServerProofs` | `TypeCorrect` | `[]TypeOK`, any requests |
| | `OnePlace` | the inductive invariant `Inv` |
| | `OneOpAtATime`, `NoSetInTheMiddle`, `IdleMeansReported` | `OneBlockingOp`, `NoSetDuringBlocking`, `IdleReplyCarriesOutcome` |
| | `RobotImplementsSlot` | `Spec => Slot!Spec` |
| | `InterruptInvariant` | the inductive invariant `IntInv`, any requests |
| | `InterruptsLeaveQuiet` | `InterruptLeavesQuiet`, any requests |
| `GripperServerProofs` | `GripperTypeCorrect` | `[]TypeOK`, any requests |
| | `OneJob`, `GripperOneAtATime`, `GripperImplementsSlot` | `Inv`, `OneJobAtATime`, `Spec => Slot!Spec` |
| `RobotiqServerProofs` | `RobotiqTypeCorrect` | `[]TypeOK`, any requests |
| | `OneJob`, `RobotiqInOrder`, `RobotiqImplementsSlot` | `Inv`, `HardwareInOrder`, `Spec => Slot!Spec` |
| `ServerClientProofs` | `ClientInvariant` | the inductive invariant `ClientInv` |
| | `ClientTypeCorrect`, `RepliesStayInLine` | `[]TypeOK`, `LateRepliesStay` |
| | `TrueIsDone` | `Spec => [](late <= 1 => TrueMeansDone)` |
| `FrankaEnvProofs` | `EnvTypeCorrect`, `SoundMeansSound` | `[]Types`, the inductive invariant `Inv` |
| | `ControllerIsOfMode`, `TargetWasAccepted`, `NoJump` | `ControllerAgrees`, `LastTargetAccepted`, `JumpBounded` |
| `CollectEpisodesProofs` | `CollectTypeCorrect`, `CollectInvariant` | `[]TypeOK`, the inductive invariant `CollectInv` |
| | `FramesAreInOrder`, `FramesHaveTheirActions`, `AllIsRecorded`, `OutcomesMatch` | `FramesInOrder`, `ActionsFit`, `NothingLost`, `AnnotationsMatch` |
| | `SessionKeepsEpisodes` | `ImplementsEpisodes` |
| `ArmScriptsProofs` | `ScriptsTypeCorrect`, `ScriptsInvariant` | `[]TypeOK`, the inductive invariant `ScriptsInv` |
| | `ChunksInStep`, `ReplaysFollow`, `HoldsTheGripper` | `ChunkInStep`, `FollowsRecording`, `HoldsWhatItSaw` |
| | `InterruptStops` | the safety part of `InterruptEnds` |
| `RouteScriptsProofs` | `RoutesTypeCorrect`, `RouteInvariant` | `[]TypeOK`, the inductive invariant `RouteInv` |
| | `NothingIsUnsaved`, `RouteIsFollowed` | `NothingUnsaved`, `FollowsRoute` |

**Assumptions.** Those of the modules on their constants, and two more. The theorems
about the robot other than `TypeCorrect` and the two about interrupts assume
`Commands \intersect Interrupt = {}`: no client sends stop or disconnect, with which
`OneBlockingOp` is false. `TrueIsDone` says
what is true while at most one reply has been late; with two it is false (section 6). The
gripper and Robotiq theorems assume nothing more: their properties hold until the first
stop. Of the modules' own assumptions three are more than a bound or a type. The
recordings that `ArmScripts` is given have `LastFrame + 1` frames, and a replay starts at
the first or the second frame and takes every one or every second (`Options`), which
stands for `--start` and `--stride`; the rows of a recording in the studio's format are in
the order of their frames, since `replay_studio_episode.py` does not sort them. The
histories of a collection have room for all
episodes that its sessions can save. `RouteAssumption` says that the files can be read: a
route is a sequence of names, and its gripper actions have names other than the one which
the model keeps for "no action". They need not be known ones; the run breaks at an
unknown one, as `gripper_action_value` does.

**The argument for the robot.** `OneBlockingOp` is not inductive: it says nothing of an
operation that has been accepted but has no helper yet, and from such a state a second
one could be spawned. `Inv` says that an operation is in exactly one place from its
acceptance to its report. It is in the main thread's hands (`PutAlone`), in the queue,
once (`QueuedAlone`), a connect on the controller thread (`ConnectAlone`), or on its
helper thread (`HelperAlone`); in each of them the server is busy. `Reported` adds that
between operations the last outcome is out, and `IdleRead` keeps that for the reply
whose status has been read. `IdleIsEmpty` draws the conclusion used at acceptance: when
the flag is down all places are empty.

**The argument for interrupts.** `IntInv` holds with any requests. The main thread waits
for an interrupt until it is answered, so what could disturb its outcome is what came
before it. Commands are numbered as they are made and served in that order (`PutNewest`,
`QueueInOrder`): when the controller thread is at the interrupt, the queue behind it is
empty. `Serving` says what has been done by then, the join of the helper that is tracked
and the release of the controller, and `Answered` that it lasts until the answer: helpers
still alive are untracked ones, which set neither the flag nor an interrupt's outcome
(`HelperNames`). That such helpers exist is why it does not say that nothing runs.

**The argument for the grippers.** `Inv` is `everStopped`, or: a job in progress is the one
submitted last, the server is busy and the main thread is not about to start another
(`JobAlone`, `StartAlone`); an idle server has the result out (`ResultOut`); and no part of
a stop is under way (`NoStop`). `LatchStep` says that `everStopped` stays. For the Robotiq
`NotAhead` adds that the hardware has seen no job that was not accepted, which with
`JobAlone` gives the order at the hardware although the threads race for its lock.

**The argument for the client.** Requests are numbered by their calls. `OrderInv` says that
those under way are in the order of the calls and newer than what the server accepted;
`LateRepliesStay` that requests and replies under way are as many as the client waits for
and gave up. From the two follows `OperationInv`, for at most one late reply: which
answers can be under way while a call waits for its operation (`LastOut`, `BothOut`), so
that an idle status, even one that answers an earlier question, was given after the
operation had ended.

**The argument for the environment.** `sound` is what no failed call has put in doubt. The
invariant says for each place of each call what it means: the remote controller is the
mode's but in the middle of a move (`ControllerInv`); the last gripper target was accepted
(`HandInv`); the delta target, clipped, is what the robot tracks (`TargetInv`). The last
holds from a step on, or from a synchronisation with a state that was the arm's; nothing is
assumed of the state itself, which any poll, or none, may have left. A step adds at most
`Delta` before clipping, and clipping does not widen a distance (`ClipNear`).

**The argument for the collection.** `PhaseInv` ties the places of the main thread to the
recorder's thread and to the episode, `ClockInv`, `TimesInv` and `ImagesInv` put the frames
taken, queued and being read in one order (what the loop has shown is the newest of those
taken only until it drains the rest at the end), `FitInv` relates a queued pair to the first
action after it, `CountInv` counts the pairs, and `SavedInv` relates the number of episodes
to sessions, faults and annotations. For the refinement every step keeps the frames of the
episode, adds to them, or ends the episode.

**The argument for the arm scripts.** For the inference `PendingInv` says that what is left
of a chunk starts with the action of the next step, with or without the one that was just
taken out (`Taken`), `StageInv` where the observation and the action of the step are, and
`SentInv` the claim. For the replays what was sent is the part of the selection that is
done; the selection is the members of a progression in ascending order
(`SortedProgression`). `SeenInv` keeps what the policy has seen of the hand, in the sense
that `invert` gives it, and `SameGripper` says that the two conversions agree.

**The argument for the routes.** `StoreInv` says that the store and, unless a save failed in
the middle, its file are stores that can be read, and `SessionInv` has the types of the
session and the keys. `RouteIsFollowed` rests on two lemmas. A finite set of naturals can be put in
ascending order in one way (`SortedIs`, by well-founded induction over its subsets), and so
the segments of any route share their ends, have the actions at their ends and none inside,
and go through the whole route (`SplitsWell`). `PlaceInv` then says for each place of a run
what the last step and the gripper's value are, by the value that is wanted from a position
on (`WantedNext`).

**Refinement of the slot.** In each `…ImplementsSlot` the step that accepts maps to `Accept`, the
steps that publish an outcome or clear the flag to `Finish`, any step after a stop to
`Interrupt`, and all others leave the slot's variables unchanged.

**Only model-checked.** Liveness (`BusyClears`, `BusyEnds`, `RequestAnswered`,
`StopAnswered`, `PollingResumes`, `CacheCatchesUp`, `StateCatchesUp`, `ShutdownReleases`,
`GripperFollows`, `InterruptEnds` beyond its safety part, `EscEnds`) rests on fairness, which
is out of the prover's reach. Every safety property of a passing run has its theorem. The
violations of section 6 are TLC's.

## 5. What is left out

- Numbers: poses are small integers or numbers of what they were read after; forward
  kinematics, rotations, widths, forces and timestamps are left out, as are the IK and
  the TOPPRA planner.
- `_cmd_event`, which only shortens a wait of 1 ms; logging; msgpack; the bind of
  sockets; SIGKILL.
- `RobotiqHardware`, aiofranka and pylibfranka, external: a call takes a while, then
  returns or raises; a stop ends a call in progress.
- Reads of the Robotiq's hardware are single steps, as are with-blocks on a lock, except
  those that other steps fall into.
- Two clients of one server; messages lost because a server restarts or, after a stop
  that fails, ends. `close()` of the clients.
- A gripper job that is accepted and fails later is not seen by `FrankaEnv`; the servers'
  modules have it.
- The display of the collection; the write of the annotations' file is one step.
- SpaceMouse and GELLO as devices: their poll processes keep the last reading when they
  die (`spacemouse_teleop.py`), with which the arm would drift on.
- The points of a trajectory between its waypoints: with less than `1 / control_hz` of
  duration the sampling has one point and never gets to the end (`planner.py:145`).
- `measure_latency.py` and `play_dataset.py`: reading and drawing, without state.
- The contents of the robot server's `get_state` reply, which `FrankaEnv` has (`cached`); and
  a blocking command received while the loop is ending, which is accepted and never
  executed.
- The numeric options of the scripts, as `--gripper-max-width`, which are taken to be those
  of the hand in use; the gripper's measured position, which in `FrankaEnv` is the cache of
  the last target (`franka_env.py:453-503`, :547-556).
- The frames that a camera or the recorder drops are not missed by any property: `NothingLost`
  counts what was queued. That the recorder's thread and an unfinished dataset are left behind
  when the collection raises is modelled (`RaiseAfter`) and is what the code does.

## 6. Findings

The first three are counterexamples of runs.

- `robot_stop_busy`: a move that ends just before a stop leaves its dead thread in
  `_blocking_thread`; the reaping step then clears `_busy` for it while the next move is
  pending, and a third is admitted beside it (`robot_server.py:345-349`, against :145).
- `client_late_reply`: after one receive timeout every later call takes the reply of the
  call before; switch returns True for a command that failed
  (`robot_client.py:91`, against :235).
- `collect_interrupt`: Ctrl-C in the middle of a recording leaves the loop with the
  episode active; `finalize` refuses and the session ends, no call having failed, without
  a finalized dataset (`collect_episodes.py:573`, against `collector.py:174`).

The modules state ten more properties that a text of the repository promises and the
code does not keep. No run of this directory checks them; each is violated when it is
put into a configuration of its own with the constants named.

- `RobotServer!StopStopsLoop` (connect, start, stop): `controller.stop()` before the helper
  has entered `controller.start()` does not stop it; stop is answered with success and the
  loop runs (`robot_server.py:434-437`, against :429).
- `RobotServer!LoopsOwned` (connect, get_state, `Reconnect = TRUE`): a second connect
  overwrites `_controller` without stopping the first, whose loop runs on, past shutdown
  too (`:541`, against :114).
- `RobotServer!ShutdownStopsLoops` (as `robot_ops`): a start helper that has bound the
  controller calls it after a shutdown has released it, and its loop is left running
  (`:555`, against :617).
- `GripperServer!StoppedJobWritesNothing` (as `gripper`): a stopped worker takes the lock
  only after stop has lowered its flag and writes its result, and IDLE, over the next job's
  (`gripper_server.py:335`, against :334).
- `GripperServer!NoPollDuringHoming` (as `gripper`): the homing flag is looked at, then the
  gripper read; a homing that starts in between is polled (`:361-366`, against :358).
- `FrankaEnv!ModeChangeSyncs` (as `env`): `set_action_mode` takes the delta targets from the
  pose read by an earlier call, while the arm may still move (`franka_env.py:376`, against
  :519).
- `FrankaEnv!ConnectSyncs` (as `env`): connect sets the delta targets to the state that the
  server has cached, which may be the zeros it starts with, since connect is over before
  the first poll (`robot_server.py:404`, :353), or the pose of an earlier connection; the first
  delta step then jumps (`franka_env.py:238`, against :519-522).
- `ArmScripts!AsksBeforeMoving` (as `scripts`): with `--reset` the arm goes home, and the
  gripper opens, before the operator types RUN, with `--dry-run` too
  (`openpi_inference.py:405`, against `README.md:323` of the repository).
- `RouteScripts!GripperBlocks` (as `routes`): the gripper's action between two segments is
  one step of the environment, which only submits it; the next segment starts while the
  fingers still move (`executor.py:340-348`, against :55-57 and :338).
- `RouteScripts!PromptKeepsGripper` (as `routes`): a key that went down at a prompt, as the
  Enter which ends the line, and reaches the listener after `clear_pressed_keys`, or is still
  down and repeats, moves the gripper (`collect_waypoints.py:245`, against :242-243 and
  `keyboard_teleop.py:174-175`).
- `RouteScripts!SplitAsDocumented` (any instance of `routes`): of the route [home, grasp, lift,
  home] with {0: open, grasp: close, 3: open} `split_route` makes two segments and closes at
  grasp (`executor.py:187-195`, and so `test_trajectory.py:29-49`), where its documentation has
  one segment that opens at the end (`:145-150`). `FollowsRoute` goes with the code and the
  test.

Seen in the models, without a text of the repository that says otherwise: with
`SlowConnect = TRUE` the first part of `ShutdownReleases` fails, since the process may end during a connect
longer than the 5 s join (`robot_server.py:194`); with `MaxLate = 2` `TrueMeansDone` fails,
since two late `get_state` replies serve as acceptance and outcome of the next operation;
a target streamed just before a disconnect is taken after it and ends the server
(`:574`); the join of `_cmd_stop` in both grippers ends only by its timeout when the worker
is at its report. The first step of a recording may record an image of the episode
before (`collect_episodes.py:680`). A waypoint is recorded at the pose of the last step (`collect_waypoints.py:302`). A save that
fails on a store that is not dirty is not tried again, and one that fails at the end skips
`close` of the keyboard and the environment. A route with two equal poses in a row is
refused by the planner, whose message advises `split_route` for it (`planner.py:114-119`);
the branch of `split_route` for two actions at one point is never taken
(`executor.py:189`). A route that names a deleted waypoint is found before the robot moves.
A refused last gripper action of a route is not sent again. When `reset` raises, the
`finally` block of `run_trajectory.py` reads `run_count` before it is set (`:163`, `:190`).

## 7. Plan

Done: all modules of section 2 with their runs, and proofs of every safety property that
a passing run checks. Next: `GripperServer` and `RobotiqServer` after a stop, which
results can still be written, and that at most one worker calls the hardware at a time.

The planner, the kinematics and the viewers stay out: numeric, or reading and drawing.
