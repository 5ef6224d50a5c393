---------------------------- MODULE EventBooking ----------------------------
(***************************************************************************)
(* What the webhook solution promises a payment provider that was answered *)
(* 200, without rows, requests, jobs or workers: the event is booked, or   *)
(* given up where an operator sees it, one of them eventually.  An event   *)
(* is booked once, for a delivery that was taken in, and no booking, no    *)
(* answer and no failure is taken back.                                    *)
(***************************************************************************)
EXTENDS Naturals

CONSTANTS
  Events,
  Deliveries,
  EventOf,
  Malformed   \* events that cannot be booked

VARIABLES
  taken,      \* deliveries that were taken in
  answered,   \* deliveries that were answered 200
  ledger,     \* bookings of each event
  givenUp     \* deliveries for which nothing is tried any more

bookingVars == <<taken, answered, ledger, givenUp>>

Init ==
  /\ taken = {}
  /\ answered = {}
  /\ ledger = [e \in Events |-> 0]
  /\ givenUp = {}

Take(d) ==
  /\ taken' = taken \union {d}
  /\ UNCHANGED <<answered, ledger, givenUp>>

\* A delivery that was not taken in is a repetition of one that is booked.
Answer(d) ==
  /\ d \in taken \/ ledger[EventOf[d]] > 0
  /\ answered' = answered \union {d}
  /\ UNCHANGED <<taken, ledger, givenUp>>

\* The attempt that books an event may still report a failure, and be the last.
Book(d) ==
  /\ d \in taken /\ EventOf[d] \notin Malformed
  /\ ledger[EventOf[d]] = 0
  /\ ledger' = [ledger EXCEPT ![EventOf[d]] = 1]
  /\ givenUp' \in {givenUp, givenUp \union {d}}
  /\ UNCHANGED <<taken, answered>>

GiveUp(d) ==
  /\ d \in taken
  /\ givenUp' = givenUp \union {d}
  /\ UNCHANGED <<taken, answered, ledger>>

Next == \E d \in Deliveries : Take(d) \/ Answer(d) \/ Book(d) \/ GiveUp(d)

Safety == Init /\ [][Next]_bookingVars

Spec ==
  /\ Safety
  /\ \A d \in Deliveries : d \in answered ~> ledger[EventOf[d]] = 1 \/ d \in givenUp

=============================================================================
