---------------------------- MODULE MCMergeQueue ----------------------------
(* Two stories and two passes over them, for TLC. *)
EXTENDS MergeQueue

MCStories == 1..2
=============================================================================
