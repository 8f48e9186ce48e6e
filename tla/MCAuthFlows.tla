------------------------------ MODULE MCAuthFlows ------------------------------
(* Finite instances of AuthFlows for TLC. *)
EXTENDS AuthFlows, TLC

Symmetry == Permutations(Procs) \cup Permutations(Codes)
=============================================================================
