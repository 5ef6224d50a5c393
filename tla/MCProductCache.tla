--------------------------- MODULE MCProductCache ---------------------------
(***************************************************************************)
(* ProductCache for TLC: no symmetry, since the run checks liveness too.   *)
(***************************************************************************)
EXTENDS ProductCache

=============================================================================
