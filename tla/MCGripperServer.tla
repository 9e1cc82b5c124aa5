--------------------------- MODULE MCGripperServer ---------------------------
(* The requests the clients may send in each of the TLC instances.  open and *)
(* grasp take the same path as move.                                         *)
EXTENDS GripperServer

Everything == {"homing", "move", "stop", "get_state", "shutdown", "SIGINT"}
MoveStop  == {"move", "stop"}
HomeOnly  == {"homing"}
=============================================================================
