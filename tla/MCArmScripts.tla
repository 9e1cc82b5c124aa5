---------------------------- MODULE MCArmScripts ----------------------------
(* Recordings of three frames. *)
EXTENDS ArmScripts

AllRecordings == [1..3 -> {None, 0, Full, Unknown}]
=============================================================================
