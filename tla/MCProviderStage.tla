-------------------------- MODULE MCProviderStage --------------------------
(* Model-checking instance of ProviderStage. *)
EXTENDS ProviderStage, TLC

Symmetry == Permutations(Procs) \cup Permutations(Models)
=============================================================================
