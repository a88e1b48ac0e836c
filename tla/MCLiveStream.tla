---------------------------- MODULE MCLiveStream ---------------------------
(***************************************************************************)
(* LiveStream for TLC: a video and an audio line, two buffers of each      *)
(* kind, a two-message mailbox, so that both the pools and the ring fill.  *)
(***************************************************************************)
EXTENDS LiveStream, TLC
=============================================================================
