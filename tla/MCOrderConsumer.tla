-------------------------- MODULE MCOrderConsumer --------------------------
(***************************************************************************)
(* OrderConsumer for TLC: an order published twice and a "FAIL" order.     *)
(***************************************************************************)
EXTENDS OrderConsumer, TLC

CONSTANTS a, b, a1, a2, b1

MCMsgs   == {a, b}
MCCopies == {a1, a2, b1}
MCMsgOf  == (a1 :> a) @@ (a2 :> a) @@ (b1 :> b)
MCPoison == {b}

=============================================================================
