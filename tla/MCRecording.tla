---------------------------- MODULE MCRecording ----------------------------
(* Instances of Recording for TLC: runs and events are interchangeable. *)
EXTENDS Recording, TLC

Symmetries == Permutations(Runs) \cup Permutations(Events)
=============================================================================
