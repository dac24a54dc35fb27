----------------------------- MODULE MCLifecycle -----------------------------
(* Instance of Lifecycle for TLC: a small set of processes.                 *)
EXTENDS Lifecycle, TLC

Symmetry == Permutations(Instances)

==============================================================================
