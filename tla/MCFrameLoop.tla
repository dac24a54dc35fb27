---------------------------- MODULE MCFrameLoop ----------------------------
(* Instance of FrameLoop for TLC: small sets of sizes and folder entries.  *)
EXTENDS FrameLoop, TLC

Symmetry == Permutations(Files) \cup Permutations(Sizes)

=============================================================================
