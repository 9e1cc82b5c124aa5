--------------------------- MODULE MCServerClient ---------------------------
(* Instances of ServerClient for TLC. *)
EXTENDS ServerClient

Both  == {"robot", "gripper"}
Robot == {"robot"}
=============================================================================
