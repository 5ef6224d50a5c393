-------------------------- MODULE MCChunkedUpload --------------------------
(***************************************************************************)
(* ChunkedUpload for TLC.                                                  *)
(***************************************************************************)
EXTENDS ChunkedUpload, TLC

Symmetry == Permutations(Uploads) \union Permutations(Merges)

=============================================================================
