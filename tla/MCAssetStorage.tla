-------------------------- MODULE MCAssetStorage ---------------------------
(* Small instances of AssetStorage for TLC. *)
EXTENDS AssetStorage, TLC

Symmetry == Permutations(Assets) \cup Permutations(Cleaners)
=============================================================================
