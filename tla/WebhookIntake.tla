--------------------------- MODULE WebhookIntake ---------------------------
(***************************************************************************)
(* "Web Hook": a payment provider delivers events at least once; every     *)
(* delivery is stored and enqueued as a Hangfire job (ReceiveWebhook), and *)
(* the job books the payment together with a ProcessedWebhooks row whose   *)
(* EventId is unique (ProcessWebhookAsync).                                *)
(*                                                                         *)
(* The signature check is left out: a delivery here is one that passed it. *)
(* The bounded channel and WebhookProcessorBackgroundService are idle in   *)
(* this build: WebhookQueue writes to Hangfire only.                       *)
(***************************************************************************)
EXTENDS Integers, FiniteSets

CONSTANTS
  Events,        \* X-Webhook-Id
  Deliveries,    \* requests of the provider; a delivery's job has its name
  EventOf,
  Malformed,     \* events whose payload does not deserialize
  Workers,       \* Hangfire worker threads
  Nobody,
  MaxAttempts,   \* executions Hangfire grants a job
  MaxSilences    \* bound: workers that die, or are slow enough to be taken for dead

ASSUME WebhookAssumption ==
  /\ EventOf \in [Deliveries -> Events]
  /\ Malformed \subseteq Events
  /\ Nobody \notin Workers \union Deliveries
  /\ MaxAttempts \in Nat \ {0}
  /\ MaxSilences \in Nat

VARIABLES
  request,     \* where each delivery is in ReceiveWebhook, or how it ended
  rows,        \* deliveries with a WebhookEvents row
  marked,      \* those whose IsProcessed is set
  payments,    \* Payments rows per event
  processed,   \* EventId of the ProcessedWebhooks rows
  job,         \* state of each delivery's job
  holder,      \* the worker that last fetched it
  attempts,    \* executions of it that failed
  doing,       \* the job each worker executes
  step,        \* where it is in ProcessWebhookAsync
  silences

intakeVars == <<request, rows>>
bookVars   == <<marked, payments, processed>>
jobVars    == <<job, holder, attempts>>
workerVars == <<doing, step>>
hookVars   == <<intakeVars, bookVars, jobVars, workerVars, silences>>

Requests == {"New", "Unseen", "Stored", "Ok", "Failed"}
JobStates == {"none", "enqueued", "processing", "scheduled", "succeeded", "failed"}
Steps == {"Idle", "Saving", "Caught"}

TypeOK ==
  /\ request \in [Deliveries -> Requests]
  /\ rows \subseteq Deliveries
  /\ marked \subseteq rows
  /\ payments \in [Events -> Nat]
  /\ processed \subseteq Events
  /\ job \in [Deliveries -> JobStates]
  /\ holder \in [Deliveries -> Workers \union {Nobody}]
  /\ attempts \in [Deliveries -> 0..MaxAttempts]
  /\ doing \in [Workers -> Deliveries \union {Nobody}]
  /\ step \in [Workers -> Steps]
  /\ silences \in 0..MaxSilences

Init ==
  /\ request = [d \in Deliveries |-> "New"]
  /\ rows = {}
  /\ marked = {}
  /\ payments = [e \in Events |-> 0]
  /\ processed = {}
  /\ job = [d \in Deliveries |-> "none"]
  /\ holder = [d \in Deliveries |-> Nobody]
  /\ attempts = [d \in Deliveries |-> 0]
  /\ doing = [w \in Workers |-> Nobody]
  /\ step = [w \in Workers |-> "Idle"]
  /\ silences = 0

-----------------------------------------------------------------------------
(* ReceiveWebhook *)

SeenByRow(d) == \E r \in rows : EventOf[r] = EventOf[d]

\* IsDuplicateAsync
Seen(d) == EventOf[d] \in processed

CheckDuplicate(d) ==
  /\ request[d] = "New"
  /\ request' = [request EXCEPT ![d] = IF Seen(d) THEN "Ok" ELSE "Unseen"]
  /\ UNCHANGED <<rows, bookVars, jobVars, workerVars, silences>>

SaveEvent(d) ==
  /\ request[d] = "Unseen"
  /\ rows' = rows \union {d}
  /\ request' = [request EXCEPT ![d] = "Stored"]
  /\ UNCHANGED <<bookVars, jobVars, workerVars, silences>>

\* BackgroundJob.Enqueue, and 200 to the provider.
Enqueue(d) ==
  /\ request[d] = "Stored"
  /\ job' = [job EXCEPT ![d] = "enqueued"]
  /\ request' = [request EXCEPT ![d] = "Ok"]
  /\ UNCHANGED <<rows, bookVars, holder, attempts, workerVars, silences>>

\* A database call throws or the process dies: no 200, the provider redelivers.
\* Bound: the last delivery of an event does not fail.
RequestFails(d) ==
  /\ request[d] \in {"New", "Unseen", "Stored"}
  /\ \E d2 \in Deliveries \ {d} : EventOf[d2] = EventOf[d] /\ request[d2] # "Failed"
  /\ request' = [request EXCEPT ![d] = "Failed"]
  /\ UNCHANGED <<rows, bookVars, jobVars, workerVars, silences>>

-----------------------------------------------------------------------------
(* Hangfire *)

Fetch(w, d) ==
  /\ doing[w] = Nobody
  /\ job[d] = "enqueued"
  /\ job' = [job EXCEPT ![d] = "processing"]
  /\ holder' = [holder EXCEPT ![d] = w]
  /\ doing' = [doing EXCEPT ![w] = d]
  /\ step' = [step EXCEPT ![w] = IF EventOf[d] \in Malformed THEN "Caught" ELSE "Saving"]
  /\ UNCHANGED <<intakeVars, bookVars, attempts, silences>>

Requeue(d) ==
  /\ job[d] = "processing"
  /\ job' = [job EXCEPT ![d] = "enqueued"]
  /\ holder' = [holder EXCEPT ![d] = Nobody]
  /\ UNCHANGED <<intakeVars, bookVars, attempts, workerVars>>

\* The storage gives the job of a dead worker to another one ...
Reclaim(d) ==
  /\ \A w \in Workers : doing[w] # d
  /\ Requeue(d)
  /\ UNCHANGED silences

\* ... or that of a slow one, which goes on with it.
ReclaimLive(d) ==
  /\ silences < MaxSilences
  /\ silences' = silences + 1
  /\ Requeue(d)

\* The delay of a retry is over.
Promote(d) ==
  /\ job[d] = "scheduled"
  /\ job' = [job EXCEPT ![d] = "enqueued"]
  /\ UNCHANGED <<intakeVars, bookVars, holder, attempts, workerVars, silences>>

\* The execution of w ends; only the holder of the job moves it on.
Leave(w) ==
  /\ doing' = [doing EXCEPT ![w] = Nobody]
  /\ step' = [step EXCEPT ![w] = "Idle"]

Returned(w) ==
  /\ Leave(w)
  /\ job' = IF holder[doing[w]] = w THEN [job EXCEPT ![doing[w]] = "succeeded"] ELSE job
  /\ holder' = IF holder[doing[w]] = w THEN [holder EXCEPT ![doing[w]] = Nobody] ELSE holder
  /\ UNCHANGED attempts

Threw(w) ==
  LET d == doing[w] IN
  /\ Leave(w)
  /\ IF holder[d] = w
     THEN /\ attempts' = [attempts EXCEPT ![d] = @ + 1]
          /\ job' = [job EXCEPT ![d] = IF attempts[d] + 1 < MaxAttempts THEN "scheduled"
                                                                       ELSE "failed"]
          /\ holder' = [holder EXCEPT ![d] = Nobody]
     ELSE UNCHANGED jobVars

-----------------------------------------------------------------------------
(* ProcessWebhookAsync *)

Event(w) == EventOf[doing[w]]

InsertableAlways(w) == TRUE

\* EventId is UNIQUE
Insertable(w) == Event(w) \notin processed

\* The transaction of SaveChangesAsync: payment, ProcessedWebhooks row, mark.
Book(w) ==
  /\ Insertable(w)
  /\ payments' = [payments EXCEPT ![Event(w)] = @ + 1]
  /\ processed' = processed \union {Event(w)}
  /\ marked' = marked \union {doing[w]}

Save(w) ==
  /\ step[w] = "Saving"
  /\ Book(w)
  /\ Returned(w)
  /\ UNCHANGED <<intakeVars, silences>>

\* An exception of SaveChangesAsync that is no unique violation, before or after
\* the commit: thrown on if it is a DbUpdateException, else into catch (Exception).
SaveFails(w) ==
  /\ step[w] = "Saving"
  /\ Book(w) \/ UNCHANGED bookVars
  /\ \/ Threw(w)
     \/ step' = [step EXCEPT ![w] = "Caught"] /\ UNCHANGED <<jobVars, doing>>
  /\ UNCHANGED <<intakeVars, silences>>

IgnoredAnyError(w) == TRUE

\* 2627 or 2601
Ignored(w) == ~Insertable(w)

\* catch (DbUpdateException) with such a number: "Duplicate webhook ignored".
SaveIgnored(w) ==
  /\ step[w] = "Saving"
  /\ Ignored(w)
  /\ Returned(w)
  /\ UNCHANGED <<intakeVars, bookVars, silences>>

\* catch (Exception): SaveChangesAsync again on the same context, which still holds
\* all three changes unless the payload was malformed, and rethrow.
SaveAgain(w) ==
  /\ step[w] = "Caught"
  /\ \/ Event(w) \notin Malformed /\ Book(w)
     \/ UNCHANGED bookVars
  /\ Threw(w)
  /\ UNCHANGED <<intakeVars, silences>>

\* The process of the worker dies.
WorkerDies(w) ==
  /\ doing[w] # Nobody
  /\ silences < MaxSilences
  /\ silences' = silences + 1
  /\ Leave(w)
  /\ UNCHANGED <<intakeVars, bookVars, jobVars>>

-----------------------------------------------------------------------------

Receive(d) == CheckDuplicate(d) \/ SaveEvent(d) \/ Enqueue(d)

Execute(w) == Save(w) \/ SaveIgnored(w) \/ SaveAgain(w)

Next ==
  \/ \E d \in Deliveries : \/ Receive(d) \/ RequestFails(d)
                           \/ Reclaim(d) \/ ReclaimLive(d) \/ Promote(d)
  \/ \E w \in Workers : \/ \E d \in Deliveries : Fetch(w, d)
                        \/ Execute(w) \/ SaveFails(w) \/ WorkerDies(w)

Spec == Init /\ [][Next]_hookVars

\* Requests and jobs are run; Hangfire's storage reclaims and promotes, and its queue
\* is first in, first out: a job is not passed over for ever.
Fairness ==
  /\ \A d \in Deliveries : /\ WF_hookVars(Receive(d))
                           /\ WF_hookVars(Reclaim(d))
                           /\ WF_hookVars(Promote(d))
                           /\ SF_hookVars(\E w \in Workers : Fetch(w, d))
  /\ \A w \in Workers : WF_hookVars(Execute(w))

FairSpec == Spec /\ Fairness

-----------------------------------------------------------------------------
(* Properties *)

\* "Payments count after duplicate: 1 row only": whatever is redelivered, retried or
\* reclaimed, and in whichever way SaveChangesAsync fails, an event is booked once,
\* and is booked exactly when it counts as a duplicate.
PaidOnce ==
  \A e \in Events : payments[e] = IF e \in processed THEN 1 ELSE 0

\* The provider was told 200, so the event must not depend on another delivery: it is
\* booked, or a job that Hangfire still executes, or reports as failed, carries it.
OkIsSafe ==
  \A d \in Deliveries : request[d] = "Ok" =>
    \/ EventOf[d] \in processed
    \/ job[d] \in {"enqueued", "processing", "scheduled", "failed"}

\* A job ends in success only for a booked event: also the run that swallowed its
\* exception as a duplicate.
SuccessMeansBooked ==
  \A d \in Deliveries : job[d] = "succeeded" => EventOf[d] \in processed

\* Of all rows stored for an event the one that booked it is marked, and no other.
OneRowMarked ==
  /\ \A d \in marked : EventOf[d] \in processed
  /\ \A c, d \in marked : EventOf[c] = EventOf[d] => c = d

\* What an operator finds among the failed jobs.
Reported == {d \in Deliveries : job[d] = "failed"}

Booking == INSTANCE EventBooking WITH taken <- rows, answered <- {d \in Deliveries : request[d] = "Ok"},
                                      ledger <- payments, givenUp <- Reported

\* The solution implements EventBooking: no sequence of deliveries, failed saves,
\* retries and reclaimed jobs books an event that was not stored, books one twice or
\* takes a booking back, and an event the provider was told 200 for is booked in the
\* end, unless Hangfire gave up on a job that carries it.
BooksEvents == Booking!Spec

-----------------------------------------------------------------------------
(* The inductive invariant behind the safety properties *)

\* A worker executes a job that exists, of a stored delivery.
WorkersFit ==
  /\ \A w \in Workers : /\ step[w] # "Idle" => doing[w] \in rows
                        /\ step[w] = "Saving" => Event(w) \notin Malformed
  /\ \A d \in Deliveries : /\ job[d] = "processing" <=> holder[d] # Nobody
                           /\ job[d] # "none" => d \in rows
                           /\ job[d] # "failed" => attempts[d] < MaxAttempts
                           /\ request[d] = "Stored" => d \in rows
                           /\ request[d] \in {"New", "Unseen", "Stored"} => job[d] = "none"

IInv ==
  /\ TypeOK
  /\ WorkersFit
  /\ PaidOnce
  /\ OkIsSafe
  /\ SuccessMeansBooked
  /\ OneRowMarked

=============================================================================
