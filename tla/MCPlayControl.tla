---------------------------- MODULE MCPlayControl ---------------------------
(* Instances of PlayControl for TLC. *)
EXTENDS PlayControl
=============================================================================
