--------------------------- MODULE MCOutboxSystem ---------------------------
(***************************************************************************)
(* OutboxSystem for TLC.                                                   *)
(***************************************************************************)
EXTENDS OutboxSystem, TLC

\* The history variables the properties of this module do not read (and no
\* action's guard does) need not distinguish states.
View == <<status, created, lockedBy, lockAge, doneAge, retryCount,
          pc, todo, successIds, failedIds, sent,
          place, deaths, unacked, phase, current, seen, stale,
          processed, aged, dlq, drops, done, wire, lost, cleaning>>

Symmetry == Permutations(Procs)

=============================================================================
