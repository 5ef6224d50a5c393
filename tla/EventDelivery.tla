--------------------------- MODULE EventDelivery ---------------------------
(***************************************************************************)
(* What the outbox solution promises a client whose order was accepted,    *)
(* without queues, leases or processes: the event of the order is          *)
(* recorded as processed, or ends in the dead letter queue, or vanished on *)
(* the way to the broker -- one of the three eventually, and no event of   *)
(* an order that was not accepted.                                         *)
(***************************************************************************)
CONSTANTS
  Msgs,
  Poison      \* events the processor always rejects

VARIABLES
  accepted,   \* events of committed orders
  recorded,   \* events processed successfully
  dead,       \* events in the dead letter queue
  vanished    \* events of which a publication was lost

deliveryVars == <<accepted, recorded, dead, vanished>>

Init ==
  /\ accepted = {}
  /\ recorded = {}
  /\ dead     = {}
  /\ vanished = {}

Accept(m) ==
  /\ m \notin accepted
  /\ accepted' = accepted \union {m}
  /\ UNCHANGED <<recorded, dead, vanished>>

Record(m) ==
  /\ m \in accepted \ Poison
  /\ recorded' = recorded \union {m}
  /\ UNCHANGED <<accepted, dead, vanished>>

DeadLetter(m) ==
  /\ m \in accepted
  /\ dead' = dead \union {m}
  /\ UNCHANGED <<accepted, recorded, vanished>>

\* A lost connection takes every publication that was in its buffer.
Vanish(S) ==
  /\ S \subseteq accepted
  /\ vanished' = vanished \union S
  /\ UNCHANGED <<accepted, recorded, dead>>

Next ==
  \/ \E m \in Msgs : Accept(m) \/ Record(m) \/ DeadLetter(m)
  \/ \E S \in SUBSET Msgs : Vanish(S)

Resolved(m) == m \in recorded \union dead \union vanished

\* No event turns up from nowhere, no outcome is taken back, and what the processor
\* always rejects is never recorded.
Safety == Init /\ [][Next]_deliveryVars

Spec ==
  /\ Safety
  /\ \A m \in Msgs : m \in accepted ~> Resolved(m)

=============================================================================
