-------------------------- MODULE MCCollectEpisodes --------------------------
(* Sizes for TLC. *)
EXTENDS CollectEpisodes
=============================================================================
