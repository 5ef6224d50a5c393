-------------------------- MODULE MCWebhookIntake --------------------------
(***************************************************************************)
(* WebhookIntake for TLC: an event that is delivered twice and a malformed *)
(* one.  No symmetry, since the run checks liveness too.                   *)
(***************************************************************************)
EXTENDS WebhookIntake, TLC

CONSTANTS e, f, d1, d2, d3

MCDeliveries == {d1, d2, d3}
MCEventOf    == (d1 :> e) @@ (d2 :> e) @@ (d3 :> f)

=============================================================================
