--------------------------- MODULE MCAssetReview ---------------------------
(* Small instances of AssetReview for TLC. *)
EXTENDS AssetReview, TLC

Symmetry == Permutations(Assets) \cup Permutations(Reviewers)
=============================================================================
