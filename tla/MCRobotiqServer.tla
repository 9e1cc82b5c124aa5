--------------------------- MODULE MCRobotiqServer ---------------------------
(* The requests the clients may send in each of the TLC instances. *)
EXTENDS RobotiqServer

Everything == {"job", "stop", "get_state", "shutdown", "SIGINT"}
=============================================================================
