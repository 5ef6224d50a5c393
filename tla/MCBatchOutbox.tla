---------------------------- MODULE MCBatchOutbox ----------------------------
(***************************************************************************)
(* BatchOutbox for TLC.                                                    *)
(***************************************************************************)
EXTENDS BatchOutbox

=============================================================================
