----------------------------- MODULE MCAllowance -----------------------------
(* Model-checking instance of Allowance.                                   *)
EXTENDS Allowance, TLC

ProcSymmetry == Permutations(Procs)

=============================================================================
