---------------------------- MODULE MCWallpaper ----------------------------
(* Instance of PeachWallpaper for TLC: small sets of connections and codes. *)
EXTENDS PeachWallpaper, TLC

Symmetry == Permutations(Clients)

=============================================================================
