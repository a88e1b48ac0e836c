---------------------------- MODULE MCPreRecord -----------------------------
(* Instances of PreRecord for TLC: the channels are interchangeable. *)
EXTENDS PreRecord, TLC

ChannelSymmetry == Permutations(Channels)
=============================================================================
