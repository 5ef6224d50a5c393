--------------------------- MODULE MCOutboxRelay ---------------------------
(***************************************************************************)
(* OutboxRelay for TLC: no symmetry, since the run checks liveness too.    *)
(***************************************************************************)
EXTENDS OutboxRelay

=============================================================================
