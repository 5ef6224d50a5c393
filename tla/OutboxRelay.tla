---------------------------- MODULE OutboxRelay ----------------------------
(***************************************************************************)
(* The producer half of "OutBox Pattern with All": the order endpoint,     *)
(* which commits an order and its outbox row in one SQL transaction, and   *)
(* the OutboxProcessorService of every running process, which leases       *)
(* pending rows, publishes their payload and closes the batch with two     *)
(* bulk updates.                                                           *)
(*                                                                         *)
(* A worker is one incarnation of the process: WorkerConstants.WorkerId is *)
(* a new Guid at every start, so a restarted process is another member of  *)
(* Workers and never recognises the leases of the one that died.           *)
(*                                                                         *)
(* Time.  GETDATE() only ever enters a comparison of a row's timestamp     *)
(* with now, so a timestamp is kept as its age, which Tick advances and    *)
(* which saturates one unit past the limit it is compared with.            *)
(***************************************************************************)
EXTENDS Integers, FiniteSets

CONSTANTS
  Msgs,            \* outbox message ids, one per order
  Workers,         \* process incarnations
  NoWorker,        \* LockedBy IS NULL
  BatchSize,       \* WorkerConstants.BatchSize
  LockTimeout,     \* WorkerConstants.LockTimeoutMinutes, in ticks
  Retention,       \* the 7 days of CleanupService, in ticks
  MaxFailures      \* bound: a row whose RetryCount is this large fails no more

ASSUME RelayAssumption ==
  /\ IsFiniteSet(Msgs)
  /\ NoWorker \notin Workers
  /\ BatchSize \in Nat \ {0}
  /\ LockTimeout \in Nat
  /\ Retention \in Nat
  /\ MaxFailures \in Nat

VARIABLES
  status,       \* the row's Status, "None" before it is inserted, "Deleted" after the cleanup
  created,      \* CreatedAt, as the rank of the insertion
  lockedBy,     \* LockedBy
  lockAge,      \* GETDATE() - LockedAt, 0 when the row is not locked
  doneAge,      \* now - ProcessedAt, 0 when the row is not processed
  retryCount,   \* RetryCount
  pc,           \* where each worker is in ProcessMessages
  todo,         \* what is left of the worker's `messages`
  successIds,   \* the worker's successIds
  failedIds,    \* the worker's failedIds
  sent,         \* history: <<m, w>> when w's BasicPublishAsync(m) returned
  lapsed        \* history: messages whose lease was taken over after it timed out

rowVars    == <<status, created, lockedBy, lockAge, doneAge, retryCount>>
workerVars == <<pc, todo, successIds, failedIds>>
relayVars  == <<rowVars, workerVars, sent, lapsed>>

Statuses == {"None", "Pending", "Processed", "Deleted"}
Phases   == {"New", "Idle", "Publishing", "Marking", "Releasing", "Dead"}

Orders == {m \in Msgs : status[m] # "None"}

Running(w) == pc[w] \notin {"New", "Dead"}

\* The messages a live worker has acquired and not yet settled in the database.
Held(w) == todo[w] \union successIds[w] \union failedIds[w]

TypeOK ==
  /\ status     \in [Msgs -> Statuses]
  /\ created    \in [Msgs -> Nat]
  /\ lockedBy   \in [Msgs -> Workers \union {NoWorker}]
  /\ lockAge    \in [Msgs -> 0..(LockTimeout + 1)]
  /\ doneAge    \in [Msgs -> 0..(Retention + 1)]
  /\ retryCount \in [Msgs -> Nat]
  /\ pc         \in [Workers -> Phases]
  /\ todo       \in [Workers -> SUBSET Msgs]
  /\ successIds \in [Workers -> SUBSET Msgs]
  /\ failedIds  \in [Workers -> SUBSET Msgs]
  /\ sent       \subseteq Msgs \X Workers
  /\ lapsed     \subseteq Msgs

Init ==
  /\ status     = [m \in Msgs |-> "None"]
  /\ created    = [m \in Msgs |-> 0]
  /\ lockedBy   = [m \in Msgs |-> NoWorker]
  /\ lockAge    = [m \in Msgs |-> 0]
  /\ doneAge    = [m \in Msgs |-> 0]
  /\ retryCount = [m \in Msgs |-> 0]
  /\ pc         = [w \in Workers |-> "New"]
  /\ todo       = [w \in Workers |-> {}]
  /\ successIds = [w \in Workers |-> {}]
  /\ failedIds  = [w \in Workers |-> {}]
  /\ sent       = {}
  /\ lapsed     = {}

-----------------------------------------------------------------------------
(* The order endpoint *)

\* Order and outbox row commit together; a failed transaction changes nothing.
CreateOrder(m) ==
  /\ status[m] = "None"
  /\ status'  = [status EXCEPT ![m] = "Pending"]
  /\ created' = [created EXCEPT ![m] = Cardinality(Orders)]
  /\ UNCHANGED <<lockedBy, lockAge, doneAge, retryCount, workerVars, sent, lapsed>>

-----------------------------------------------------------------------------
(* The worker *)

Start(w) ==
  /\ pc[w] = "New"
  /\ pc' = [pc EXCEPT ![w] = "Idle"]
  /\ UNCHANGED <<rowVars, todo, successIds, failedIds, sent, lapsed>>

\* LockedAt < DATEADD(MINUTE, -@LockTimeout, GETDATE())
LeaseExpired(m) == lockAge[m] > LockTimeout

EligibleAnyLease  == {m \in Msgs : status[m] = "Pending"}
EligibleUnlocked  == {m \in Msgs : status[m] = "Pending" /\ lockedBy[m] = NoWorker}
EligibleAnyStatus == {m \in Msgs : /\ status[m] \in {"Pending", "Processed"}
                                   /\ lockedBy[m] = NoWorker \/ LeaseExpired(m)}

\* The WHERE clause of MessagesToLock.
Eligible == {m \in Msgs : /\ status[m] = "Pending"
                          /\ lockedBy[m] = NoWorker \/ LeaseExpired(m)}

\* SELECT TOP (@BatchSize) ... ORDER BY CreatedAt
OldestFirst(B) ==
  /\ Cardinality(B) <= BatchSize
  /\ Cardinality(B) = BatchSize \/ B = Eligible
  /\ \A b \in B, e \in Eligible \ B : created[b] <= created[e]

\* A poll that finds nothing ends in two early returns and is a stutter.  The
\* SQL statement is one transaction: UPDLOCK and READPAST serialise it with the
\* acquisitions of the other workers.
Acquire(w) ==
  /\ pc[w] = "Idle"
  /\ \E B \in SUBSET Eligible :
       /\ B # {}
       /\ OldestFirst(B)
       /\ lockedBy' = [m \in Msgs |-> IF m \in B THEN w ELSE lockedBy[m]]
       /\ lockAge'  = [m \in Msgs |-> IF m \in B THEN 0 ELSE lockAge[m]]
       /\ todo'     = [todo EXCEPT ![w] = B]
       /\ lapsed'   = lapsed \union {m \in B : LeaseExpired(m)}
  /\ pc' = [pc EXCEPT ![w] = "Publishing"]
  /\ UNCHANGED <<status, created, doneAge, retryCount, successIds, failedIds, sent>>

\* PublishAsync returned: the frame is in the channel's output buffer.
PublishOk(w, m) ==
  /\ pc[w] = "Publishing"
  /\ m \in todo[w]
  /\ todo'       = [todo EXCEPT ![w] = @ \ {m}]
  /\ successIds' = [successIds EXCEPT ![w] = @ \union {m}]
  /\ sent'       = sent \union {<<m, w>>}
  /\ UNCHANGED <<rowVars, pc, failedIds, lapsed>>

\* PublishAsync threw (the channel is closed or recovering): nothing was sent.
PublishFail(w, m) ==
  /\ pc[w] = "Publishing"
  /\ m \in todo[w]
  /\ retryCount[m] < MaxFailures
  /\ todo'      = [todo EXCEPT ![w] = @ \ {m}]
  /\ failedIds' = [failedIds EXCEPT ![w] = @ \union {m}]
  /\ UNCHANGED <<rowVars, pc, successIds, sent, lapsed>>

EndOfLoop(w) ==
  /\ pc[w] = "Publishing"
  /\ todo[w] = {}
  /\ pc' = [pc EXCEPT ![w] = "Marking"]
  /\ UNCHANGED <<rowVars, todo, successIds, failedIds, sent, lapsed>>

JoinedUpsert(ids) == ids

\* INNER JOIN @Ids, of both bulk updates: the given ids that still have a row.
\* Neither Status nor LockedBy is tested.
Joined(ids) == {m \in ids : status[m] \in {"Pending", "Processed"}}

MarkedRowsAll(w) == Joined(successIds[w] \union failedIds[w])

\* The set of rows BulkMarkProcessedAsync(successIds) updates.
MarkedRows(w) == Joined(successIds[w])

BulkMarkProcessed(w) ==
  /\ pc[w] = "Marking"
  /\ status'   = [m \in Msgs |-> IF m \in MarkedRows(w) THEN "Processed" ELSE status[m]]
  /\ doneAge'  = [m \in Msgs |-> IF m \in MarkedRows(w) THEN 0 ELSE doneAge[m]]
  /\ lockedBy' = [m \in Msgs |-> IF m \in MarkedRows(w) THEN NoWorker ELSE lockedBy[m]]
  /\ lockAge'  = [m \in Msgs |-> IF m \in MarkedRows(w) THEN 0 ELSE lockAge[m]]
  /\ successIds' = [successIds EXCEPT ![w] = {}]
  /\ pc' = [pc EXCEPT ![w] = "Releasing"]
  /\ UNCHANGED <<created, retryCount, todo, failedIds, sent, lapsed>>

\* LockedBy is cleared on every failed id, whoever holds the lease by now.
BulkIncrementRetry(w) ==
  /\ pc[w] = "Releasing"
  /\ LET released == Joined(failedIds[w]) IN
       /\ retryCount' = [m \in Msgs |-> IF m \in released THEN retryCount[m] + 1
                                                          ELSE retryCount[m]]
       /\ lockedBy' = [m \in Msgs |-> IF m \in released THEN NoWorker ELSE lockedBy[m]]
       /\ lockAge'  = [m \in Msgs |-> IF m \in released THEN 0 ELSE lockAge[m]]
  /\ failedIds' = [failedIds EXCEPT ![w] = {}]
  /\ pc' = [pc EXCEPT ![w] = "Idle"]
  /\ UNCHANGED <<status, created, doneAge, todo, successIds, sent, lapsed>>

\* The process dies, or an exception of one of the three database calls leaves
\* ExecuteAsync and stops the host.  The lists are lost, the leases stay.
\* Bound: the last incarnation does not crash.
Crash(w) ==
  /\ Running(w)
  /\ \E v \in Workers \ {w} : pc[v] # "Dead"
  /\ pc'         = [pc EXCEPT ![w] = "Dead"]
  /\ todo'       = [todo EXCEPT ![w] = {}]
  /\ successIds' = [successIds EXCEPT ![w] = {}]
  /\ failedIds'  = [failedIds EXCEPT ![w] = {}]
  /\ UNCHANGED <<rowVars, sent, lapsed>>

-----------------------------------------------------------------------------
(* The cleanup service and time *)

ExpendableAnyStatus == {m \in Msgs : status[m] = "Pending" \/ doneAge[m] > Retention}

Expendable == {m \in Msgs : status[m] = "Processed" /\ doneAge[m] > Retention}

\* The first ExecuteDeleteAsync of CleanupAsync, in the process of w.
CleanOutbox(w) ==
  /\ Running(w)
  /\ Expendable # {}
  /\ status'   = [m \in Msgs |-> IF m \in Expendable THEN "Deleted" ELSE status[m]]
  /\ lockedBy' = [m \in Msgs |-> IF m \in Expendable THEN NoWorker ELSE lockedBy[m]]
  /\ lockAge'  = [m \in Msgs |-> IF m \in Expendable THEN 0 ELSE lockAge[m]]
  /\ doneAge'  = [m \in Msgs |-> IF m \in Expendable THEN 0 ELSE doneAge[m]]
  /\ UNCHANGED <<created, retryCount, workerVars, sent, lapsed>>

Older(age, limit) == IF age > limit THEN age ELSE age + 1

Tick ==
  /\ lockAge' = [m \in Msgs |-> IF lockedBy[m] = NoWorker THEN lockAge[m]
                                ELSE Older(lockAge[m], LockTimeout)]
  /\ doneAge' = [m \in Msgs |-> IF status[m] = "Processed" THEN Older(doneAge[m], Retention)
                                ELSE doneAge[m]]
  /\ UNCHANGED <<status, created, lockedBy, retryCount, workerVars, sent, lapsed>>

-----------------------------------------------------------------------------

\* What a running worker does of itself: its scheduling is fair.
WorkerStep(w) ==
  \/ Start(w)
  \/ Acquire(w)
  \/ EndOfLoop(w)
  \/ BulkMarkProcessed(w)
  \/ BulkIncrementRetry(w)

Next ==
  \/ \E m \in Msgs : CreateOrder(m)
  \/ \E w \in Workers :
       \/ WorkerStep(w)
       \/ \E m \in Msgs : PublishOk(w, m) \/ PublishFail(w, m)
       \/ CleanOutbox(w)
       \/ Crash(w)
  \/ Tick

Spec == Init /\ [][Next]_relayVars

\* The loop of ExecuteAsync never stops by itself, the runtime schedules it, the
\* host is restarted after a crash, and time passes.  Clients, failures and
\* crashes are owed nothing.
Fairness ==
  /\ \A w \in Workers : WF_relayVars(WorkerStep(w))
  /\ \A w \in Workers, m \in Msgs : WF_relayVars(PublishOk(w, m))
  /\ WF_relayVars(Tick)

FairSpec == Spec /\ Fairness

-----------------------------------------------------------------------------
(* Properties *)

WasSent(m) == \E w \in Workers : <<m, w>> \in sent

\* No order is forgotten: a row is closed, and later deleted, only after some
\* worker handed its payload to the channel (the successIds of ProcessMessages).
ClosedWasSent ==
  \A m \in Msgs : status[m] \in {"Processed", "Deleted"} => WasSent(m)

\* One process never publishes a message twice: what it published it marks
\* before it polls again, and what is marked is never leased again.
NoRepublish ==
  \A w \in Workers : \A m \in todo[w] : <<m, w>> \notin sent

\* Two processes publish the same message only when a lease ran out: within the
\* lock timeout the LockedBy column alone keeps workers apart.
DuplicateNeedsLapse ==
  \A m \in Msgs : \A v, w \in Workers :
    /\ <<m, v>> \in sent
    /\ <<m, w>> \in sent
    /\ m \notin lapsed
    => v = w

\* While no lease of m has run out, the worker that has m in hand owns its row.
\* (It may not after a lapse: neither bulk update tests LockedBy, so a worker
\* that overstayed clears the lease of its successor.)
LeaseHonoured ==
  \A w \in Workers : \A m \in Held(w) \ lapsed : lockedBy[m] = w

KeepsClosed ==
  \A m \in Msgs : /\ status[m] \in {"Processed", "Deleted"} => status'[m] \in {"Processed", "Deleted"}
                 /\ status[m] = "Deleted" => status'[m] = "Deleted"

\* A late worker never reopens a row: BulkIncrementRetry of a worker whose lease
\* was taken over leaves the Status its successor wrote.
ClosedForGood == [][KeepsClosed]_relayVars

\* Every committed order is eventually published, whatever crashes: the row is
\* released by BulkIncrementRetry or its lease runs out.
EventuallySent ==
  \A m \in Msgs : status[m] = "Pending" ~> WasSent(m)

-----------------------------------------------------------------------------
(* The inductive invariant behind the safety properties *)

\* Which lists can be filled in which phase; a message is in one list only.
ListsFitPhase ==
  \A w \in Workers :
    /\ pc[w] \in {"New", "Idle", "Dead"} => Held(w) = {}
    /\ pc[w] \in {"Marking", "Releasing"} => todo[w] = {}
    /\ pc[w] = "Releasing" => successIds[w] = {}
    /\ todo[w] \intersect successIds[w] = {}
    /\ todo[w] \intersect failedIds[w] = {}
    /\ successIds[w] \intersect failedIds[w] = {}

RowsFit ==
  /\ \A m \in Msgs : lockedBy[m] # NoWorker => status[m] = "Pending"
  /\ \A w \in Workers : \A m \in Held(w) : status[m] # "None"

Closed(m) == status[m] \in {"Processed", "Deleted"}

\* What became of each publication.
SentAccounted ==
  \A m \in Msgs, w \in Workers :
    /\ m \in successIds[w] => <<m, w>> \in sent
    /\ <<m, w>> \in sent => m \in successIds[w] \/ pc[w] = "Dead" \/ Closed(m)
    /\ <<m, w>> \in sent /\ m \notin lapsed => Closed(m) \/ lockedBy[m] = w

\* The safety invariants and what they rest on: inductive.
IInv ==
  /\ TypeOK
  /\ ListsFitPhase
  /\ RowsFit
  /\ SentAccounted
  /\ LeaseHonoured
  /\ NoRepublish
  /\ ClosedWasSent
  /\ DuplicateNeedsLapse

=============================================================================
