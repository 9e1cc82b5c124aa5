----------------------------- MODULE MCFrankaEnv -----------------------------
(* Sizes for TLC. *)
EXTENDS FrankaEnv
=============================================================================
