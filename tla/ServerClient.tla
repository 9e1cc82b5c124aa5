---------------------------- MODULE ServerClient ----------------------------
(***************************************************************************)
(* The client of one of the servers.  It sends a request over a ZMQ        *)
(* connection, which keeps the order, and takes the next reply for the     *)
(* answer: replies say nothing of what they answer.  A call that runs into *)
(* the receive timeout leaves its reply to a later call.  The robot's      *)
(* client also has a thread that stores the state the server streams.      *)
(*                                                                         *)
(* The server is the slot of JobSlot behind a main thread that serves      *)
(* requests in their order; its state is the number of the last operation  *)
(* that had its effect.                                                    *)
(***************************************************************************)
EXTENDS Integers, Sequences, FiniteSets

CONSTANTS
  Clients,        \* which clients: "robot", "gripper", "robotiq"
  MaxCalls,       \* bound on the calls made
  MaxLate,        \* bound on the replies that come after the timeout
  StreamCap       \* the high-water mark of the stream, 2 in the code

ASSUME ClientAssumption ==
  /\ Clients \subseteq {"robot", "gripper", "robotiq"}
  /\ MaxCalls \in Nat /\ MaxLate \in Nat /\ StreamCap \in Nat \ {0}

Numbers   == 1 .. MaxCalls
None      == 0
NoState   == -1   \* no state yet, or none in a reply

VARIABLES
  client,         \* whose client it is
  calls,          \* the number of the call made last
  call,           \* what it does
  returned,       \* what it returned: True or not
  pc,             \* where it is
  late,           \* how many calls have timed out
  requests,       \* sent and not served yet
  replies,        \* sent and not received yet
  op, busy, reported, interrupted,   \* the slot; operations are calls
  failed,         \* history: the operations whose outcome is a failure
  done,           \* history: the short commands that succeeded
  cached,         \* the server's _cached_state
  stream,         \* states on their way
  raw,            \* the message the receiver thread decodes
  streaming       \* _streaming_state

callVars   == <<client, calls, call>>
queueVars  == <<requests, replies>>
slotVars   == <<op, busy, reported, interrupted, failed>>
streamVars == <<stream, raw>>
vars == <<callVars, returned, pc, late, queueVars, slotVars, done, cached,
          streamVars, streaming>>

Slot == INSTANCE JobSlot WITH Ops <- Numbers

\* Operations (connect, start, move) wait for their outcome, short commands
\* (switch) for their reply; set has no reply.
RobotCalls == {"operation", "short", "get_state", "stop", "set"}

\* homing, open and grasp wait; move only submits.
GripperCalls == {"operation", "submit", "get_state", "stop"}

\* activate and reset wait; move, open and close if asked to.
RobotiqCalls == {"operation", "submit", "get_state", "stop"}

CallsOf(c) ==
  CASE c = "robot"   -> RobotCalls
    [] c = "gripper" -> GripperCalls
    [] c = "robotiq" -> RobotiqCalls

Init ==
  /\ client \in Clients
  /\ calls = 0 /\ call = "none" /\ returned = FALSE /\ pc = "idle" /\ late = 0
  /\ requests = <<>> /\ replies = <<>>
  /\ busy = FALSE /\ interrupted = FALSE /\ Slot!Init
  /\ failed = {} /\ done = {}
  /\ cached = IF client = "robot" THEN NoState ELSE 0
  /\ stream = <<>> /\ raw = NoState /\ streaming = NoState

-----------------------------------------------------------------------------
(* The server. *)

Reply(success, status, result, state) ==
  replies' = Append(replies, [success |-> success, status |-> status,
                              result |-> result, state |-> state])

Answer(success) == Reply(success, "none", None, NoState)

\* The main thread serves the oldest request.
Serves(what) ==
  /\ requests # <<>> /\ Head(requests).what \in what
  /\ requests' = Tail(requests)
  /\ UNCHANGED <<callVars, returned, pc, late, cached, streamVars, streaming>>

Accepts ==
  /\ Serves({"operation", "submit"})
  /\ Slot!Accept(Head(requests).number) /\ Answer(TRUE)
  /\ UNCHANGED <<failed, done>>

Rejects ==
  /\ Serves({"operation", "submit"}) /\ busy /\ Answer(FALSE)
  /\ UNCHANGED <<slotVars, done>>

\* A short command is rejected while the server is busy, and may fail.
ServesShort ==
  /\ Serves({"short"})
  /\ \/ ~ busy /\ Answer(TRUE) /\ done' = done \union {Head(requests).number}
     \/ Answer(FALSE) /\ UNCHANGED done
  /\ UNCHANGED slotVars

ServesState ==
  /\ Serves({"get_state"})
  /\ Reply(TRUE, IF busy THEN "busy" ELSE "idle", reported, cached)
  /\ UNCHANGED <<slotVars, done>>

\* Mutant of ServesSet: a target is answered.
AnswersSet ==
  Serves({"set"}) /\ Answer(TRUE) /\ UNCHANGED <<slotVars, done>>

\* A target is not answered.
ServesSet ==
  Serves({"set"}) /\ UNCHANGED <<replies, slotVars, done>>

\* A stop makes the server idle; one that fails ends the robot's server,
\* which is left out.
ServesStop ==
  /\ Serves({"stop"}) /\ Answer(TRUE)
  /\ interrupted' = TRUE /\ Slot!Interrupt
  /\ busy' = FALSE /\ reported' = None
  /\ UNCHANGED <<op, failed, done>>

Serve ==
  Accepts \/ Rejects \/ ServesShort \/ ServesState \/ ServesSet \/ ServesStop

\* The outcome is published, well or badly; the robot's first operation, if
\* it goes well, is the connection, and the cache starts with zeros.
Reports ==
  /\ reported # op /\ Slot!Finish
  /\ \/ failed' = failed \union {op} /\ UNCHANGED cached
     \/ UNCHANGED failed /\ cached' = IF cached = NoState THEN 0 ELSE cached
  /\ UNCHANGED <<callVars, returned, pc, late, queueVars, done, streamVars,
                 streaming>>

GoesIdle ==
  /\ reported = op /\ busy' = FALSE /\ Slot!Finish
  /\ UNCHANGED <<callVars, returned, pc, late, queueVars, failed, done, cached,
                 streamVars, streaming>>

\* An operation has its effect before it is reported, or then.
State == IF reported = op \/ cached = op THEN op ELSE op - 1

\* The cache is brought up to date and, for the robot, sent on the stream
\* unless that is full.
Polls ==
  /\ cached # NoState
  /\ cached' = State
  /\ stream' = IF client = "robot" /\ Len(stream) < StreamCap
               THEN Append(stream, cached') ELSE stream
  /\ UNCHANGED <<callVars, returned, pc, late, queueVars, slotVars, done, raw,
                 streaming>>

Server == Serve \/ Reports \/ GoesIdle \/ Polls

-----------------------------------------------------------------------------
(* The calls of the client. *)

Sends(number, what) ==
  requests' = Append(requests, [number |-> number, what |-> what])

Unchanged ==
  UNCHANGED <<client, slotVars, done, cached, streamVars>>

\* A new call; disconnect is a stop; set returns at once.  The robot's state is
\* asked for only before the stream has brought one.
Calls(k) ==
  /\ pc = "idle" /\ calls < MaxCalls /\ k \in CallsOf(client)
  /\ client = "robot" /\ k = "get_state" => streaming = NoState
  /\ calls' = calls + 1 /\ call' = k /\ Sends(calls + 1, k)
  /\ returned' = (k = "set") /\ pc' = IF k = "set" THEN "idle" ELSE "reply"
  /\ UNCHANGED <<late, replies, streaming>> /\ Unchanged

\* The next reply, whatever it answers.
Receives(at) ==
  /\ pc = at /\ replies # <<>> /\ replies' = Tail(replies)
  /\ UNCHANGED <<calls, call, late, requests>> /\ Unchanged

Returns(value) == pc' = "idle" /\ returned' = value

\* The first reply ends a call, except of an operation that was accepted;
\* what a get_state returns is left out.
ReceivesAnswer ==
  /\ Receives("reply")
  /\ IF call = "operation" /\ Head(replies).success
     THEN pc' = "wait" /\ UNCHANGED returned
     ELSE Returns(Head(replies).success)
  /\ UNCHANGED streaming

\* _wait_until_idle asks for the state ...
Asks ==
  /\ pc = "wait" /\ pc' = "asked" /\ Sends(calls, "get_state")
  /\ UNCHANGED <<calls, call, returned, late, replies, streaming>> /\ Unchanged

\* ... until its deadline ...
GivesUp ==
  /\ pc = "wait" /\ Returns(FALSE)
  /\ UNCHANGED <<calls, call, late, queueVars, streaming>> /\ Unchanged

\* ... or until the server is idle; it then has the outcome.
Succeeded(r) == r.success /\ (r.result = None \/ r.result \notin failed)

\* Mutant of ReceivesStatus: the status is not looked at.
ReceivesAnyStatus ==
  /\ Receives("asked")
  /\ IF Head(replies).success /\ Head(replies).status = "none"
     THEN pc' = "wait" /\ UNCHANGED returned
     ELSE IF Succeeded(Head(replies)) /\ client = "robot"
     THEN pc' = "refresh" /\ UNCHANGED returned
     ELSE Returns(Succeeded(Head(replies)))
  /\ UNCHANGED streaming

ReceivesStatus ==
  /\ Receives("asked")
  /\ IF Head(replies).success /\ Head(replies).status # "idle"
     THEN pc' = "wait" /\ UNCHANGED returned
     ELSE IF Succeeded(Head(replies)) /\ client = "robot"
     THEN pc' = "refresh" /\ UNCHANGED returned
     ELSE Returns(Succeeded(Head(replies)))
  /\ UNCHANGED streaming

\* The robot's client then refreshes its state ...
Refreshes ==
  /\ pc = "refresh" /\ pc' = "refreshing" /\ Sends(calls, "get_state")
  /\ UNCHANGED <<calls, call, returned, late, replies, streaming>> /\ Unchanged

\* ... and raises if the reply has none.
ReceivesState ==
  /\ Receives("refreshing")
  /\ LET state == Head(replies).state IN
       /\ Returns(state # NoState)
       /\ streaming' = IF state # NoState THEN state ELSE streaming

\* zmq.Again: the reply comes later, and will be received by a later call.
TimesOut ==
  /\ pc \in {"reply", "asked", "refreshing"} /\ late < MaxLate
  /\ late' = late + 1 /\ Returns(FALSE)
  /\ UNCHANGED <<calls, call, queueVars, streaming>> /\ Unchanged

Waits ==
  \/ ReceivesAnswer \/ Asks \/ ReceivesStatus \/ Refreshes \/ ReceivesState

-----------------------------------------------------------------------------
(* The receiver thread. *)

\* The latest message is taken, the older ones dropped ...
StreamReceives ==
  /\ stream # <<>> /\ raw = NoState
  /\ raw' = stream[Len(stream)] /\ stream' = <<>>
  /\ UNCHANGED <<callVars, returned, pc, late, queueVars, slotVars, done,
                 cached, streaming>>

\* Mutant of StreamStores: what was decoded is not stored.
StreamForgets ==
  /\ raw # NoState /\ raw' = NoState
  /\ UNCHANGED <<callVars, returned, pc, late, queueVars, slotVars, done,
                 cached, stream, streaming>>

\* ... and, when it is decoded, stored.
StreamStores ==
  /\ raw # NoState /\ streaming' = raw /\ raw' = NoState
  /\ UNCHANGED <<callVars, returned, pc, late, queueVars, slotVars, done,
                 cached, stream>>

Next ==
  \/ Server \/ Waits \/ GivesUp \/ TimesOut
  \/ \E k \in CallsOf(client) : Calls(k)
  \/ StreamReceives \/ StreamStores

\* The threads go on, but an operation may last for ever: a call that waits
\* for it ends at its deadline, a clock's doing.
Fairness ==
  /\ WF_vars(Serve) /\ WF_vars(Polls) /\ WF_vars(Waits) /\ SF_vars(GivesUp)
  /\ WF_vars(StreamReceives) /\ WF_vars(StreamStores)

Spec == Init /\ [][Next]_vars /\ Fairness

-----------------------------------------------------------------------------
(* Properties. *)

Waiting == pc \in {"reply", "asked", "refreshing"}

\* The values of RobotClient.__init__ onwards; the stream is never over its
\* high-water mark.
TypeOK ==
  /\ client \in Clients /\ calls \in 0 .. MaxCalls /\ late \in 0 .. MaxLate
  /\ call \in CallsOf(client) \union {"none"}
  /\ returned \in BOOLEAN
  /\ pc \in {"idle", "reply", "wait", "asked", "refresh", "refreshing"}
  /\ op \in 0 .. MaxCalls /\ busy \in BOOLEAN /\ reported \in {None, op}
  /\ interrupted \in BOOLEAN
  /\ failed \subseteq Numbers /\ done \subseteq Numbers
  /\ Len(stream) <= StreamCap
  /\ {cached, raw, streaming} \subseteq NoState .. MaxCalls

\* The requests that will be answered.
Owed == {i \in DOMAIN requests : requests[i].what # "set"}

\* Replies are never lost or doubled, nor is a target answered: those under
\* way are the one waited for and the late ones (robot_server.py:247-253).
LateRepliesStay ==
  Cardinality(Owed) + Len(replies) = late + (IF Waiting THEN 1 ELSE 0)

\* A call that waits for an operation returns True only if the server has
\* carried out this very operation, and well, even if a reply was late, until
\* a stop (robot_client.py:103-117).
TrueMeansDone ==
  pc = "idle" /\ call = "operation" /\ returned
    => (op = calls /\ reported = calls /\ calls \notin failed) \/ interrupted

\* The robot's client ends up with the state the last operation left, though
\* a refresh and the stream both write it (robot_client.py:139-172), if the
\* server is connected.
StateCatchesUp ==
  \A i \in Numbers :
    client = "robot" /\ op = i /\ reported = i /\ cached # NoState
      ~> streaming = i \/ op # i \/ interrupted

\* switch: "Returns True if successful" (robot_client.py:232-238).
SwitchTrueMeansDone ==
  pc = "idle" /\ call = "short" /\ returned => calls \in done
=============================================================================
