------------------------ MODULE WebhookIntake_proofs ------------------------
(***************************************************************************)
(* Theorems about WebhookIntake, for any events, deliveries, workers and   *)
(* attempts, and any number of workers that die or are taken for dead.     *)
(***************************************************************************)
EXTENDS WebhookIntake, TLAPS

\* The tables and the queue start empty.
LEMMA InitIInv == ASSUME Init PROVE IInv
  <1> USE WebhookAssumption DEF WebhookAssumption, Init
  <1>1. TypeOK
    BY DEF TypeOK, Requests, JobStates, Steps
  <1>2. WorkersFit
    BY DEF WorkersFit
  <1>3. PaidOnce /\ OneRowMarked
    BY DEF PaidOnce, OneRowMarked
  <1>4. OkIsSafe /\ SuccessMeansBooked
    BY DEF OkIsSafe, SuccessMeansBooked
  <1> QED
    BY <1>1, <1>2, <1>3, <1>4 DEF IInv

\* Every step keeps the type invariant.
LEMMA NextTypeOK ==
  ASSUME TypeOK, WorkersFit, [Next]_hookVars
  PROVE  TypeOK'
    <1> USE WebhookAssumption DEF WebhookAssumption, TypeOK, WorkersFit, Requests,
            JobStates, Steps, Event, intakeVars, bookVars, jobVars, workerVars
  <1>1. ASSUME NEW d \in Deliveries, CheckDuplicate(d)
        PROVE  TypeOK'
    BY <1>1 DEF CheckDuplicate, Seen
  <1>2. ASSUME NEW d \in Deliveries, SaveEvent(d)
        PROVE  TypeOK'
    BY <1>2 DEF SaveEvent
  <1>3. ASSUME NEW d \in Deliveries, Enqueue(d)
        PROVE  TypeOK'
    BY <1>3 DEF Enqueue
  <1>4. ASSUME NEW d \in Deliveries, RequestFails(d)
        PROVE  TypeOK'
    BY <1>4 DEF RequestFails
  <1>5. ASSUME NEW d \in Deliveries, Reclaim(d)
        PROVE  TypeOK'
    BY <1>5 DEF Reclaim, Requeue
  <1>6. ASSUME NEW d \in Deliveries, ReclaimLive(d)
        PROVE  TypeOK'
    BY <1>6 DEF ReclaimLive, Requeue
  <1>7. ASSUME NEW d \in Deliveries, Promote(d)
        PROVE  TypeOK'
    BY <1>7 DEF Promote
  <1>8. ASSUME NEW w \in Workers, NEW d \in Deliveries, Fetch(w, d)
        PROVE  TypeOK'
    BY <1>8 DEF Fetch
  <1>9. ASSUME NEW w \in Workers, Save(w)
        PROVE  TypeOK'
    BY <1>9 DEF Save, Book, Returned, Leave
  <1>10. ASSUME NEW w \in Workers, SaveIgnored(w)
        PROVE  TypeOK'
    BY <1>10 DEF SaveIgnored, Ignored, Returned, Leave
  <1>11. ASSUME NEW w \in Workers, SaveAgain(w)
        PROVE  TypeOK'
    BY <1>11 DEF SaveAgain, Book, Threw, Leave
  <1>12. ASSUME NEW w \in Workers, SaveFails(w)
        PROVE  TypeOK'
    BY <1>12 DEF SaveFails, Book, Threw, Leave
  <1>13. ASSUME NEW w \in Workers, WorkerDies(w)
        PROVE  TypeOK'
    BY <1>13 DEF WorkerDies, Leave
  <1>14. CASE UNCHANGED hookVars
    BY <1>14 DEF hookVars
  <1> QED
    BY <1>1, <1>2, <1>3, <1>4, <1>5, <1>6, <1>7,
       <1>8, <1>9, <1>10, <1>11, <1>12, <1>13, <1>14
       DEF Next, Receive, Execute

\* Every step keeps workers and jobs in line with the stored rows.
LEMMA NextWorkersFit ==
  ASSUME TypeOK, WorkersFit, [Next]_hookVars
  PROVE  WorkersFit'
    <1> USE WebhookAssumption DEF WebhookAssumption, TypeOK, WorkersFit, Requests,
            JobStates, Steps, Event, intakeVars, bookVars, jobVars, workerVars
  <1>1. ASSUME NEW d \in Deliveries, CheckDuplicate(d)
        PROVE  WorkersFit'
    BY <1>1 DEF CheckDuplicate, Seen
  <1>2. ASSUME NEW d \in Deliveries, SaveEvent(d)
        PROVE  WorkersFit'
    BY <1>2 DEF SaveEvent
  <1>3. ASSUME NEW d \in Deliveries, Enqueue(d)
        PROVE  WorkersFit'
    BY <1>3 DEF Enqueue
  <1>4. ASSUME NEW d \in Deliveries, RequestFails(d)
        PROVE  WorkersFit'
    BY <1>4 DEF RequestFails
  <1>5. ASSUME NEW d \in Deliveries, Reclaim(d)
        PROVE  WorkersFit'
    BY <1>5 DEF Reclaim, Requeue
  <1>6. ASSUME NEW d \in Deliveries, ReclaimLive(d)
        PROVE  WorkersFit'
    BY <1>6 DEF ReclaimLive, Requeue
  <1>7. ASSUME NEW d \in Deliveries, Promote(d)
        PROVE  WorkersFit'
    BY <1>7 DEF Promote
  <1>8. ASSUME NEW w \in Workers, NEW d \in Deliveries, Fetch(w, d)
        PROVE  WorkersFit'
    BY <1>8 DEF Fetch
  <1>9. ASSUME NEW w \in Workers, Save(w)
        PROVE  WorkersFit'
    BY <1>9 DEF Save, Book, Returned, Leave
  <1>10. ASSUME NEW w \in Workers, SaveIgnored(w)
        PROVE  WorkersFit'
    BY <1>10 DEF SaveIgnored, Ignored, Returned, Leave
  <1>11. ASSUME NEW w \in Workers, SaveAgain(w)
        PROVE  WorkersFit'
    BY <1>11 DEF SaveAgain, Book, Threw, Leave
  <1>12. ASSUME NEW w \in Workers, SaveFails(w)
        PROVE  WorkersFit'
    BY <1>12 DEF SaveFails, Book, Threw, Leave
  <1>13. ASSUME NEW w \in Workers, WorkerDies(w)
        PROVE  WorkersFit'
    BY <1>13 DEF WorkerDies, Leave
  <1>14. CASE UNCHANGED hookVars
    BY <1>14 DEF hookVars
  <1> QED
    BY <1>1, <1>2, <1>3, <1>4, <1>5, <1>6, <1>7,
       <1>8, <1>9, <1>10, <1>11, <1>12, <1>13, <1>14
       DEF Next, Receive, Execute

\* An event is booked by one transaction, which also records and marks it.
LEMMA NextBooked ==
  ASSUME TypeOK, WorkersFit, PaidOnce, OneRowMarked, [Next]_hookVars
  PROVE  PaidOnce' /\ OneRowMarked'
    <1> USE WebhookAssumption DEF WebhookAssumption, TypeOK, WorkersFit, Steps,
            PaidOnce, OneRowMarked, Insertable, Event, intakeVars, bookVars,
            jobVars, workerVars
  <1>1. ASSUME NEW d \in Deliveries, CheckDuplicate(d)
        PROVE  PaidOnce' /\ OneRowMarked'
    BY <1>1 DEF CheckDuplicate, Seen
  <1>2. ASSUME NEW d \in Deliveries, SaveEvent(d)
        PROVE  PaidOnce' /\ OneRowMarked'
    BY <1>2 DEF SaveEvent
  <1>3. ASSUME NEW d \in Deliveries, Enqueue(d)
        PROVE  PaidOnce' /\ OneRowMarked'
    BY <1>3 DEF Enqueue
  <1>4. ASSUME NEW d \in Deliveries, RequestFails(d)
        PROVE  PaidOnce' /\ OneRowMarked'
    BY <1>4 DEF RequestFails
  <1>5. ASSUME NEW d \in Deliveries, Reclaim(d)
        PROVE  PaidOnce' /\ OneRowMarked'
    BY <1>5 DEF Reclaim, Requeue
  <1>6. ASSUME NEW d \in Deliveries, ReclaimLive(d)
        PROVE  PaidOnce' /\ OneRowMarked'
    BY <1>6 DEF ReclaimLive, Requeue
  <1>7. ASSUME NEW d \in Deliveries, Promote(d)
        PROVE  PaidOnce' /\ OneRowMarked'
    BY <1>7 DEF Promote
  <1>8. ASSUME NEW w \in Workers, NEW d \in Deliveries, Fetch(w, d)
        PROVE  PaidOnce' /\ OneRowMarked'
    BY <1>8 DEF Fetch
  <1>9. ASSUME NEW w \in Workers, Save(w)
        PROVE  PaidOnce' /\ OneRowMarked'
    BY <1>9 DEF Save, Book, Returned, Leave
  <1>10. ASSUME NEW w \in Workers, SaveIgnored(w)
        PROVE  PaidOnce' /\ OneRowMarked'
    BY <1>10 DEF SaveIgnored, Ignored, Returned, Leave
  <1>11. ASSUME NEW w \in Workers, SaveAgain(w)
        PROVE  PaidOnce' /\ OneRowMarked'
    BY <1>11 DEF SaveAgain, Book, Threw, Leave
  <1>12. ASSUME NEW w \in Workers, SaveFails(w)
        PROVE  PaidOnce' /\ OneRowMarked'
    BY <1>12 DEF SaveFails, Book, Threw, Leave
  <1>13. ASSUME NEW w \in Workers, WorkerDies(w)
        PROVE  PaidOnce' /\ OneRowMarked'
    BY <1>13 DEF WorkerDies, Leave
  <1>14. CASE UNCHANGED hookVars
    BY <1>14 DEF hookVars
  <1> QED
    BY <1>1, <1>2, <1>3, <1>4, <1>5, <1>6, <1>7,
       <1>8, <1>9, <1>10, <1>11, <1>12, <1>13, <1>14
       DEF Next, Receive, Execute

\* A delivery answered with 200 keeps a job until its event is booked, and a job
\* succeeds only after that.
LEMMA NextSafe ==
  ASSUME TypeOK, WorkersFit, OkIsSafe, SuccessMeansBooked, [Next]_hookVars
  PROVE  OkIsSafe' /\ SuccessMeansBooked'
    <1> USE WebhookAssumption DEF WebhookAssumption, TypeOK, WorkersFit, Steps,
            JobStates, Requests, OkIsSafe, SuccessMeansBooked, Insertable, Event,
            intakeVars, bookVars, jobVars, workerVars
  <1>1. ASSUME NEW d \in Deliveries, CheckDuplicate(d)
        PROVE  OkIsSafe' /\ SuccessMeansBooked'
    BY <1>1 DEF CheckDuplicate, Seen
  <1>2. ASSUME NEW d \in Deliveries, SaveEvent(d)
        PROVE  OkIsSafe' /\ SuccessMeansBooked'
    BY <1>2 DEF SaveEvent
  <1>3. ASSUME NEW d \in Deliveries, Enqueue(d)
        PROVE  OkIsSafe' /\ SuccessMeansBooked'
    BY <1>3 DEF Enqueue
  <1>4. ASSUME NEW d \in Deliveries, RequestFails(d)
        PROVE  OkIsSafe' /\ SuccessMeansBooked'
    BY <1>4 DEF RequestFails
  <1>5. ASSUME NEW d \in Deliveries, Reclaim(d)
        PROVE  OkIsSafe' /\ SuccessMeansBooked'
    BY <1>5 DEF Reclaim, Requeue
  <1>6. ASSUME NEW d \in Deliveries, ReclaimLive(d)
        PROVE  OkIsSafe' /\ SuccessMeansBooked'
    BY <1>6 DEF ReclaimLive, Requeue
  <1>7. ASSUME NEW d \in Deliveries, Promote(d)
        PROVE  OkIsSafe' /\ SuccessMeansBooked'
    BY <1>7 DEF Promote
  <1>8. ASSUME NEW w \in Workers, NEW d \in Deliveries, Fetch(w, d)
        PROVE  OkIsSafe' /\ SuccessMeansBooked'
    BY <1>8 DEF Fetch
  <1>9. ASSUME NEW w \in Workers, Save(w)
        PROVE  OkIsSafe' /\ SuccessMeansBooked'
    BY <1>9 DEF Save, Book, Returned, Leave
  <1>10. ASSUME NEW w \in Workers, SaveIgnored(w)
        PROVE  OkIsSafe' /\ SuccessMeansBooked'
    BY <1>10 DEF SaveIgnored, Ignored, Returned, Leave
  <1>11. ASSUME NEW w \in Workers, SaveAgain(w)
        PROVE  OkIsSafe' /\ SuccessMeansBooked'
    BY <1>11 DEF SaveAgain, Book, Threw, Leave
  <1>12. ASSUME NEW w \in Workers, SaveFails(w)
        PROVE  OkIsSafe' /\ SuccessMeansBooked'
    BY <1>12 DEF SaveFails, Book, Threw, Leave
  <1>13. ASSUME NEW w \in Workers, WorkerDies(w)
        PROVE  OkIsSafe' /\ SuccessMeansBooked'
    BY <1>13 DEF WorkerDies, Leave
  <1>14. CASE UNCHANGED hookVars
    BY <1>14 DEF hookVars
  <1> QED
    BY <1>1, <1>2, <1>3, <1>4, <1>5, <1>6, <1>7,
       <1>8, <1>9, <1>10, <1>11, <1>12, <1>13, <1>14
       DEF Next, Receive, Execute

-----------------------------------------------------------------------------

\* ReceiveWebhook and ProcessWebhookAsync keep the whole invariant, however requests,
\* jobs, failures and reclaimed executions interleave.
THEOREM WebhookInvariant == Spec => []IInv
  <1>1. Init => IInv
    BY InitIInv
  <1>2. IInv /\ [Next]_hookVars => IInv'
    BY NextTypeOK, NextWorkersFit, NextBooked, NextSafe DEF IInv
  <1> QED
    BY <1>1, <1>2, PTL DEF Spec

\* However often an event is delivered, retried or reclaimed, it is booked once ...
THEOREM BookedOnce == Spec => []PaidOnce
  <1>1. IInv => PaidOnce
    BY DEF IInv
  <1> QED
    BY <1>1, WebhookInvariant, PTL

\* ... and at most one of its rows says so.
THEOREM MarkedOnce == Spec => []OneRowMarked
  <1>1. IInv => OneRowMarked
    BY DEF IInv
  <1> QED
    BY <1>1, WebhookInvariant, PTL

\* An event the provider was told 200 for is booked or carried by a job ...
THEOREM AcceptedIsCarried == Spec => []OkIsSafe
  <1>1. IInv => OkIsSafe
    BY DEF IInv
  <1> QED
    BY <1>1, WebhookInvariant, PTL

\* ... and the job of an event succeeds only once it is booked.
THEOREM SucceededIsBooked == Spec => []SuccessMeansBooked
  <1>1. IInv => SuccessMeansBooked
    BY DEF IInv
  <1> QED
    BY <1>1, WebhookInvariant, PTL

-----------------------------------------------------------------------------
(* The solution implements the safety of EventBooking *)

\* What a job that ends leaves: only a worker that holds it reports its failure.
LEMMA JobEnds ==
  ASSUME IInv, NEW w \in Workers, step[w] # "Idle", Returned(w) \/ Threw(w)
  PROVE  /\ doing[w] \in rows
         /\ Reported' \in {Reported, Reported \union {doing[w]}}
  <1> DEFINE d == doing[w]
  <1> USE WebhookAssumption DEF WebhookAssumption, IInv, TypeOK, WorkersFit, JobStates
  <1>1. d \in rows /\ d \in Deliveries
    OBVIOUS
  <1>2. \A c \in Deliveries \ {d} : job'[c] = job[c]
    <2>1. CASE Returned(w)
      BY <1>1, <2>1 DEF Returned
    <2>2. CASE Threw(w)
      BY <1>1, <2>2 DEF Threw, jobVars
    <2> QED
      BY <2>1, <2>2
  <1>3. job[d] = "failed" => job'[d] = "failed"
    <2>1. CASE holder[d] = w
      <3>1. job[d] = "processing"
        BY <1>1, <2>1
      <3> QED
        BY <3>1
    <2>2. CASE holder[d] # w
      BY <2>2 DEF Returned, Threw, jobVars
    <2> QED
      BY <2>1, <2>2
  <1> QED
    BY <1>1, <1>2, <1>3 DEF Reported

\* The transaction of SaveChangesAsync books an event that has no booking.
LEMMA BooksNew ==
  ASSUME IInv, NEW w \in Workers, step[w] # "Idle", Book(w)
  PROVE  /\ EventOf[doing[w]] = Event(w) /\ payments[Event(w)] = 0
         /\ payments' = [payments EXCEPT ![Event(w)] = 1]
  <1>1. Event(w) = EventOf[doing[w]] /\ doing[w] \in Deliveries
    BY DEF IInv, TypeOK, WorkersFit, Event
  <1>2. Event(w) \in Events
    BY <1>1, WebhookAssumption DEF WebhookAssumption
  <1>3. payments[Event(w)] = 0
    BY <1>2 DEF IInv, PaidOnce, Book, Insertable
  <1>4. payments' = [payments EXCEPT ![Event(w)] = 1]
    BY <1>2, <1>3 DEF Book, IInv, TypeOK
  <1> QED
    BY <1>1, <1>3, <1>4

\* Every step takes in, answers, books or gives up one delivery, or does nothing that
\* EventBooking can see.
LEMMA BookingStep ==
  ASSUME IInv, [Next]_hookVars
  PROVE  [Booking!Next]_Booking!bookingVars
  <1> DEFINE answered == {d \in Deliveries : request[d] = "Ok"}
             Quiet    == UNCHANGED <<rows, answered, payments, Reported>>
             Goal     == Booking!Next \/ Quiet
  <1>0. Goal => [Booking!Next]_Booking!bookingVars
    BY DEF Booking!bookingVars
  <1> USE DEF intakeVars, bookVars, jobVars, workerVars
  <1>1. ASSUME NEW d \in Deliveries, CheckDuplicate(d) PROVE Goal
    <2>1. CASE Seen(d)
      <3>1. payments[EventOf[d]] > 0
        BY <2>1, WebhookAssumption DEF WebhookAssumption, Seen, IInv, PaidOnce
      <3>2. answered' = answered \union {d}
        BY <1>1, <2>1 DEF CheckDuplicate, IInv, TypeOK
      <3>3. Booking!Answer(d)
        BY <1>1, <3>1, <3>2 DEF CheckDuplicate, Booking!Answer, Reported
      <3> QED
        BY <3>3 DEF Booking!Next
    <2>2. CASE ~Seen(d)
      BY <1>1, <2>2 DEF CheckDuplicate, IInv, TypeOK, Reported
    <2> QED
      BY <2>1, <2>2
  <1>2. ASSUME NEW d \in Deliveries, SaveEvent(d) PROVE Goal
    <2>1. Booking!Take(d)
      BY <1>2 DEF SaveEvent, Booking!Take, IInv, TypeOK, Reported
    <2> QED
      BY <2>1 DEF Booking!Next
  <1>3. ASSUME NEW d \in Deliveries, Enqueue(d) PROVE Goal
    <2>1. d \in rows /\ job[d] = "none"
      BY <1>3 DEF Enqueue, IInv, WorkersFit
    <2>2. answered' = answered \union {d} /\ Reported' = Reported
      BY <1>3, <2>1 DEF Enqueue, IInv, TypeOK, Reported
    <2>3. Booking!Answer(d)
      BY <1>3, <2>1, <2>2 DEF Enqueue, Booking!Answer
    <2> QED
      BY <2>3 DEF Booking!Next
  <1>4. ASSUME NEW d \in Deliveries, RequestFails(d) PROVE Goal
    BY <1>4 DEF RequestFails, IInv, TypeOK, Reported
  <1>5. ASSUME NEW d \in Deliveries, Reclaim(d) \/ ReclaimLive(d) \/ Promote(d) PROVE Goal
    BY <1>5 DEF Reclaim, ReclaimLive, Requeue, Promote, IInv, TypeOK, Reported
  <1>6. ASSUME NEW w \in Workers, NEW d \in Deliveries, Fetch(w, d) PROVE Goal
    BY <1>6 DEF Fetch, IInv, TypeOK, Reported
  <1>7. ASSUME NEW w \in Workers, WorkerDies(w) PROVE Goal
    BY <1>7 DEF WorkerDies, Reported
  <1>8. ASSUME NEW w \in Workers, Save(w) \/ SaveIgnored(w) \/ SaveAgain(w) \/ SaveFails(w) PROVE Goal
    <2> DEFINE d == doing[w]
    <2>1. step[w] \in {"Saving", "Caught"} /\ UNCHANGED intakeVars
      BY <1>8 DEF Save, SaveIgnored, SaveAgain, SaveFails
    <2>2. d \in rows /\ d \in Deliveries
      BY <2>1 DEF IInv, TypeOK, WorkersFit
    <2>3. answered' = answered /\ rows' = rows
      BY <2>1
    <2>4. Reported' \in {Reported, Reported \union {d}}
      <3>1. CASE UNCHANGED jobVars
        BY <3>1 DEF Reported
      <3>2. CASE Returned(w) \/ Threw(w)
        BY <2>1, <3>2, JobEnds
      <3> QED
        BY <1>8, <3>1, <3>2 DEF Save, SaveIgnored, SaveAgain, SaveFails
    <2>5. CASE Book(w) /\ Event(w) \notin Malformed
      <3>1. /\ EventOf[d] = Event(w) /\ payments[EventOf[d]] = 0
            /\ payments' = [payments EXCEPT ![EventOf[d]] = 1]
        BY <2>1, <2>5, BooksNew
      <3>2. Booking!Book(d)
        BY <2>2, <2>3, <2>4, <2>5, <3>1 DEF Booking!Book
      <3> QED
        BY <2>2, <3>2 DEF Booking!Next
    <2>6. CASE UNCHANGED payments
      <3>1. CASE Reported' = Reported
        BY <2>3, <2>6, <3>1
      <3>2. CASE Reported' = Reported \union {d}
        <4>1. Booking!GiveUp(d)
          BY <2>2, <2>3, <2>6, <3>2 DEF Booking!GiveUp
        <4> QED
          BY <2>2, <4>1 DEF Booking!Next
      <3> QED
        BY <2>4, <3>1, <3>2
    <2>7. step[w] = "Saving" => Event(w) \notin Malformed
      BY DEF IInv, WorkersFit
    <2> QED
      BY <1>8, <2>5, <2>6, <2>7 DEF Save, SaveIgnored, SaveAgain, SaveFails
  <1>9. ASSUME UNCHANGED hookVars PROVE Goal
    BY <1>9 DEF hookVars, Reported
  <1> QED
    BY <1>0, <1>1, <1>2, <1>3, <1>4, <1>5, <1>6, <1>7, <1>8, <1>9 DEF Next, Receive, Execute

\* The safety half of BooksEvents, for any deliveries, workers and attempts: what is
\* booked was taken in and can be, is booked once and stays booked, and 200 answers
\* only what was taken in or is booked.
THEOREM BooksSafely == Spec => Booking!Safety
  <1>1. Init => Booking!Init
    BY DEF Init, Booking!Init, Reported
  <1>2. IInv /\ [Next]_hookVars => [Booking!Next]_Booking!bookingVars
    BY BookingStep
  <1> QED
    BY <1>1, <1>2, WebhookInvariant, PTL DEF Spec, Booking!Safety

=============================================================================
