---------------------------- MODULE MCRobotServer ----------------------------
(* The requests the clients may send in each of the TLC instances. *)
EXTENDS RobotServer

\* One client at work, no stop and no disconnect, and the ways the server
\* ends.
Operations ==
  Blocking \union Fast \union {"set", "get_state", "shutdown", "SIGINT"}

\* Operations interrupted by stop and disconnect.
Interrupted == {"connect", "start", "move", "SIGINT"} \union Interrupt

\* Moves and stops.
MoveStop == {"move", "stop"}
=============================================================================
