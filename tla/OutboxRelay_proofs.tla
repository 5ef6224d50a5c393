------------------------- MODULE OutboxRelay_proofs -------------------------
(***************************************************************************)
(* Theorems about OutboxRelay, for any number of messages and workers, any *)
(* batch size, lock timeout and retention.                                 *)
(***************************************************************************)
EXTENDS OutboxRelay, FiniteSetTheorems, TLAPS

\* The number of orders, hence the rank of an insertion, is a number.
LEMMA OrdersCountable == Cardinality(Orders) \in Nat
  <1>1. IsFiniteSet(Orders)
    BY FS_Subset, RelayAssumption DEF Orders, RelayAssumption
  <1> QED
    BY <1>1, FS_CardinalityType

\* An age never leaves its range.
LEMMA OlderInRange ==
  ASSUME NEW limit \in Nat, NEW age \in 0..(limit + 1)
  PROVE  Older(age, limit) \in 0..(limit + 1)
  BY DEF Older

\* The empty outbox.
LEMMA InitIInv == ASSUME Init PROVE IInv
  <1> USE DEF Init
  <1>1. TypeOK
    BY RelayAssumption DEF TypeOK, Statuses, Phases, RelayAssumption
  <1>2. ListsFitPhase /\ RowsFit
    BY DEF ListsFitPhase, RowsFit, Held
  <1>3. SentAccounted /\ LeaseHonoured /\ NoRepublish
    BY DEF SentAccounted, LeaseHonoured, NoRepublish, Held
  <1>4. ClosedWasSent /\ DuplicateNeedsLapse
    BY DEF ClosedWasSent, DuplicateNeedsLapse
  <1> QED
    BY <1>1, <1>2, <1>3, <1>4 DEF IInv

\* Every step keeps the type invariant.
LEMMA NextTypeOK == ASSUME TypeOK, [Next]_relayVars PROVE TypeOK'
  <1> USE DEF TypeOK, Statuses, Phases
  <1>1. ASSUME NEW m \in Msgs, CreateOrder(m) PROVE TypeOK'
    BY <1>1, OrdersCountable DEF CreateOrder, workerVars
  <1>2. ASSUME NEW w \in Workers, Start(w) PROVE TypeOK'
    BY <1>2 DEF Start, rowVars
  <1>3. ASSUME NEW w \in Workers, Acquire(w) PROVE TypeOK'
    <2>1. PICK B \in SUBSET Eligible :
            /\ lockedBy' = [m \in Msgs |-> IF m \in B THEN w ELSE lockedBy[m]]
            /\ lockAge'  = [m \in Msgs |-> IF m \in B THEN 0 ELSE lockAge[m]]
            /\ todo'     = [todo EXCEPT ![w] = B]
            /\ lapsed'   = lapsed \union {m \in B : LeaseExpired(m)}
      BY <1>3 DEF Acquire
    <2>2. B \subseteq Msgs
      BY DEF Eligible
    <2> QED
      BY <1>3, <2>1, <2>2, RelayAssumption DEF Acquire, RelayAssumption
  <1>4. ASSUME NEW w \in Workers, NEW m \in Msgs, PublishOk(w, m) PROVE TypeOK'
    BY <1>4 DEF PublishOk, rowVars
  <1>5. ASSUME NEW w \in Workers, NEW m \in Msgs, PublishFail(w, m) PROVE TypeOK'
    BY <1>5 DEF PublishFail, rowVars
  <1>6. ASSUME NEW w \in Workers, EndOfLoop(w) PROVE TypeOK'
    BY <1>6 DEF EndOfLoop, rowVars
  <1>7. ASSUME NEW w \in Workers, BulkMarkProcessed(w) PROVE TypeOK'
    BY <1>7, RelayAssumption DEF BulkMarkProcessed, RelayAssumption
  <1>8. ASSUME NEW w \in Workers, BulkIncrementRetry(w) PROVE TypeOK'
    BY <1>8, RelayAssumption DEF BulkIncrementRetry, RelayAssumption
  <1>9. ASSUME NEW w \in Workers, CleanOutbox(w) PROVE TypeOK'
    BY <1>9, RelayAssumption DEF CleanOutbox, workerVars, RelayAssumption
  <1>10. ASSUME NEW w \in Workers, Crash(w) PROVE TypeOK'
    BY <1>10 DEF Crash, rowVars
  <1>11. ASSUME Tick PROVE TypeOK'
    <2>1. lockAge' \in [Msgs -> 0..(LockTimeout + 1)]
      BY <1>11, OlderInRange, RelayAssumption DEF Tick, RelayAssumption
    <2>2. doneAge' \in [Msgs -> 0..(Retention + 1)]
      BY <1>11, OlderInRange, RelayAssumption DEF Tick, RelayAssumption
    <2> QED
      BY <1>11, <2>1, <2>2 DEF Tick, workerVars
  <1>12. CASE UNCHANGED relayVars
    BY <1>12 DEF relayVars, rowVars, workerVars
  <1> QED
    BY <1>1, <1>2, <1>3, <1>4, <1>5, <1>6, <1>7, <1>8, <1>9, <1>10, <1>11, <1>12
       DEF Next, WorkerStep

\* Every step keeps the lists disjoint and where the phase allows them, and the
\* rows of what the workers hold.
LEMMA NextLists ==
  ASSUME IInv, [Next]_relayVars
  PROVE  ListsFitPhase' /\ RowsFit'
  <1> USE DEF IInv, ListsFitPhase, RowsFit, TypeOK, Held, Statuses, Phases
  <1>1. ASSUME NEW m \in Msgs, CreateOrder(m) PROVE ListsFitPhase' /\ RowsFit'
    BY <1>1 DEF CreateOrder, workerVars
  <1>2. ASSUME NEW w \in Workers, Start(w) PROVE ListsFitPhase' /\ RowsFit'
    BY <1>2 DEF Start, rowVars
  <1>3. ASSUME NEW w \in Workers, Acquire(w) PROVE ListsFitPhase' /\ RowsFit'
    <2>1. PICK B \in SUBSET Eligible :
            /\ lockedBy' = [m \in Msgs |-> IF m \in B THEN w ELSE lockedBy[m]]
            /\ todo'     = [todo EXCEPT ![w] = B]
      BY <1>3 DEF Acquire
    <2>2. \A m \in B : m \in Msgs /\ status[m] = "Pending"
      BY DEF Eligible
    <2>3. ListsFitPhase'
      BY <1>3, <2>1, <2>2 DEF Acquire
    <2>4. RowsFit'
      BY <1>3, <2>1, <2>2 DEF Acquire
    <2> QED
      BY <2>3, <2>4
  <1>4. ASSUME NEW w \in Workers, NEW m \in Msgs, PublishOk(w, m)
        PROVE  ListsFitPhase' /\ RowsFit'
    BY <1>4 DEF PublishOk, rowVars
  <1>5. ASSUME NEW w \in Workers, NEW m \in Msgs, PublishFail(w, m)
        PROVE  ListsFitPhase' /\ RowsFit'
    BY <1>5 DEF PublishFail, rowVars
  <1>6. ASSUME NEW w \in Workers, EndOfLoop(w) PROVE ListsFitPhase' /\ RowsFit'
    BY <1>6 DEF EndOfLoop, rowVars
  <1>7. ASSUME NEW w \in Workers, BulkMarkProcessed(w) PROVE ListsFitPhase' /\ RowsFit'
    BY <1>7 DEF BulkMarkProcessed, MarkedRows, Joined
  <1>8. ASSUME NEW w \in Workers, BulkIncrementRetry(w) PROVE ListsFitPhase' /\ RowsFit'
    BY <1>8 DEF BulkIncrementRetry, Joined
  <1>9. ASSUME NEW w \in Workers, CleanOutbox(w) PROVE ListsFitPhase' /\ RowsFit'
    BY <1>9 DEF CleanOutbox, workerVars, Expendable
  <1>10. ASSUME NEW w \in Workers, Crash(w) PROVE ListsFitPhase' /\ RowsFit'
    BY <1>10 DEF Crash, rowVars
  <1>11. ASSUME Tick PROVE ListsFitPhase' /\ RowsFit'
    BY <1>11 DEF Tick, workerVars
  <1>12. CASE UNCHANGED relayVars
    BY <1>12 DEF relayVars, rowVars, workerVars
  <1> QED
    BY <1>1, <1>2, <1>3, <1>4, <1>5, <1>6, <1>7, <1>8, <1>9, <1>10, <1>11, <1>12
       DEF Next, WorkerStep

\* While no lease of a message lapsed, the worker that holds it owns its row, and
\* so does a worker that published it, until the row is closed.
LEMMA NextLeases ==
  ASSUME IInv, [Next]_relayVars
  PROVE  LeaseHonoured' /\ SentAccounted'
  <1> DEFINE Goal == LeaseHonoured' /\ SentAccounted'
  <1> SUFFICES Goal
    OBVIOUS
  <1> USE DEF IInv, LeaseHonoured, SentAccounted, ListsFitPhase, RowsFit, TypeOK, Held,
              Closed, Statuses, Phases
  <1>1. ASSUME NEW m \in Msgs, CreateOrder(m) PROVE Goal
    BY <1>1 DEF CreateOrder, workerVars
  <1>2. ASSUME NEW w \in Workers, Start(w) PROVE Goal
    BY <1>2 DEF Start, rowVars
  <1>3. ASSUME NEW w \in Workers, Acquire(w) PROVE Goal
    <2>1. PICK B \in SUBSET Eligible :
            /\ lockedBy' = [m \in Msgs |-> IF m \in B THEN w ELSE lockedBy[m]]
            /\ todo'     = [todo EXCEPT ![w] = B]
            /\ lapsed'   = lapsed \union {m \in B : LeaseExpired(m)}
      BY <1>3 DEF Acquire
    <2>2. \A m \in B : /\ m \in Msgs /\ status[m] = "Pending"
                       /\ m \notin lapsed' => lockedBy[m] = NoWorker
      BY <2>1 DEF Eligible
    <2>3. LeaseHonoured'
      BY <1>3, <2>1, <2>2, RelayAssumption DEF Acquire, RelayAssumption
    <2>4. SentAccounted'
      <3> SUFFICES ASSUME NEW n \in Msgs, NEW v \in Workers
                   PROVE  /\ n \in successIds'[v] => <<n, v>> \in sent'
                          /\ <<n, v>> \in sent'
                             => n \in successIds'[v] \/ pc'[v] = "Dead" \/ Closed(n)'
                          /\ <<n, v>> \in sent' /\ n \notin lapsed'
                             => Closed(n)' \/ lockedBy'[n] = v
        BY DEF SentAccounted
      <3>1. sent' = sent /\ status' = status /\ successIds' = successIds
        BY <1>3 DEF Acquire
      <3>2. pc'[v] = "Dead" <=> pc[v] = "Dead"
        BY <1>3 DEF Acquire
      <3>3. CASE n \in B
        <4>1. n \notin lapsed' => lockedBy[n] = NoWorker
          BY <2>2, <3>3
        <4> QED
          BY <2>2, <3>1, <3>2, <3>3, <4>1, RelayAssumption, <2>1 DEF RelayAssumption
      <3>4. CASE n \notin B
        BY <2>1, <3>1, <3>2, <3>4
      <3> QED
        BY <3>3, <3>4
    <2> QED
      BY <2>3, <2>4
  <1>4. ASSUME NEW w \in Workers, NEW m \in Msgs, PublishOk(w, m) PROVE Goal
    <2>1. LeaseHonoured'
      BY <1>4 DEF PublishOk, rowVars
    <2>2. SentAccounted'
      <3> SUFFICES ASSUME NEW n \in Msgs, NEW v \in Workers
                   PROVE  /\ n \in successIds'[v] => <<n, v>> \in sent'
                          /\ <<n, v>> \in sent'
                             => n \in successIds'[v] \/ pc'[v] = "Dead" \/ Closed(n)'
                          /\ <<n, v>> \in sent' /\ n \notin lapsed'
                             => Closed(n)' \/ lockedBy'[n] = v
        BY DEF SentAccounted
      <3>1. /\ status' = status /\ lockedBy' = lockedBy /\ lapsed' = lapsed /\ pc' = pc
            /\ sent' = sent \union {<<m, w>>}
            /\ successIds' = [successIds EXCEPT ![w] = @ \union {m}]
        BY <1>4 DEF PublishOk, rowVars
      <3>2. CASE n = m /\ v = w
        <4>1. m \in todo[w]
          BY <1>4 DEF PublishOk
        <4> QED
          BY <3>1, <3>2, <4>1
      <3>3. CASE ~(n = m /\ v = w)
        <4>1. <<n, v>> \in sent' <=> <<n, v>> \in sent
          BY <3>1, <3>3
        <4>2. n \in successIds'[v] <=> n \in successIds[v]
          BY <3>1, <3>3
        <4> QED
          BY <3>1, <4>1, <4>2
      <3> QED
        BY <3>2, <3>3
    <2> QED
      BY <2>1, <2>2
  <1>5. ASSUME NEW w \in Workers, NEW m \in Msgs, PublishFail(w, m) PROVE Goal
    BY <1>5 DEF PublishFail, rowVars
  <1>6. ASSUME NEW w \in Workers, EndOfLoop(w) PROVE Goal
    BY <1>6 DEF EndOfLoop, rowVars
  <1>7. ASSUME NEW w \in Workers, BulkMarkProcessed(w) PROVE Goal
    <2>1. LeaseHonoured'
      BY <1>7, RelayAssumption DEF BulkMarkProcessed, MarkedRows, Joined, RelayAssumption
    <2>2. SentAccounted'
      <3> SUFFICES ASSUME NEW n \in Msgs, NEW v \in Workers
                   PROVE  /\ n \in successIds'[v] => <<n, v>> \in sent'
                          /\ <<n, v>> \in sent'
                             => n \in successIds'[v] \/ pc'[v] = "Dead" \/ Closed(n)'
                          /\ <<n, v>> \in sent' /\ n \notin lapsed'
                             => Closed(n)' \/ lockedBy'[n] = v
        BY DEF SentAccounted
      <3>1. sent' = sent /\ lapsed' = lapsed
        BY <1>7 DEF BulkMarkProcessed
      <3>2. pc'[v] = "Dead" <=> pc[v] = "Dead"
        BY <1>7 DEF BulkMarkProcessed
      <3>3. Closed(n) => Closed(n)'
        BY <1>7 DEF BulkMarkProcessed
      <3>4. n \in successIds[w] => Closed(n)'
        BY <1>7 DEF BulkMarkProcessed, MarkedRows, Joined
      <3>5. n \notin successIds[w] => lockedBy'[n] = lockedBy[n]
        BY <1>7 DEF BulkMarkProcessed, MarkedRows, Joined
      <3>6. successIds'[v] = IF v = w THEN {} ELSE successIds[v]
        BY <1>7 DEF BulkMarkProcessed
      <3> HIDE DEF Closed
      <3> QED
        BY <3>1, <3>2, <3>3, <3>4, <3>5, <3>6
    <2> QED
      BY <2>1, <2>2
  <1>8. ASSUME NEW w \in Workers, BulkIncrementRetry(w) PROVE Goal
    <2>1. LeaseHonoured'
      BY <1>8, RelayAssumption DEF BulkIncrementRetry, Joined, RelayAssumption
    <2>2. SentAccounted'
      <3> SUFFICES ASSUME NEW n \in Msgs, NEW v \in Workers
                   PROVE  /\ n \in successIds'[v] => <<n, v>> \in sent'
                          /\ <<n, v>> \in sent'
                             => n \in successIds'[v] \/ pc'[v] = "Dead" \/ Closed(n)'
                          /\ <<n, v>> \in sent' /\ n \notin lapsed'
                             => Closed(n)' \/ lockedBy'[n] = v
        BY DEF SentAccounted
      <3>1. sent' = sent /\ lapsed' = lapsed /\ successIds' = successIds /\ status' = status
        BY <1>8 DEF BulkIncrementRetry
      <3>2. pc'[v] = "Dead" <=> pc[v] = "Dead"
        BY <1>8 DEF BulkIncrementRetry
      <3>3. n \notin failedIds[w] => lockedBy'[n] = lockedBy[n]
        BY <1>8 DEF BulkIncrementRetry, Joined
      \* An unlapsed message that w releases is not one that w published.
      <3>4. n \in failedIds[w] /\ <<n, v>> \in sent /\ n \notin lapsed => Closed(n)
        <4>1. pc[w] = "Releasing"
          BY <1>8 DEF BulkIncrementRetry
        <4> QED
          BY <4>1
      <3>5. Closed(n)' <=> Closed(n)
        BY <3>1
      <3> HIDE DEF Closed
      <3> QED
        BY <3>1, <3>2, <3>3, <3>4, <3>5
    <2> QED
      BY <2>1, <2>2
  <1>9. ASSUME NEW w \in Workers, CleanOutbox(w) PROVE Goal
    BY <1>9, RelayAssumption DEF CleanOutbox, workerVars, Expendable, RelayAssumption
  <1>10. ASSUME NEW w \in Workers, Crash(w) PROVE Goal
    BY <1>10 DEF Crash, rowVars
  <1>11. ASSUME Tick PROVE Goal
    BY <1>11 DEF Tick, workerVars
  <1>12. CASE UNCHANGED relayVars
    BY <1>12 DEF relayVars, rowVars, workerVars
  <1> QED
    BY <1>1, <1>2, <1>3, <1>4, <1>5, <1>6, <1>7, <1>8, <1>9, <1>10, <1>11, <1>12
       DEF Next, WorkerStep

\* A message in hand was not published by its holder before, a closed row was
\* published, and two publishers mean a lapse.
LEMMA NextSent ==
  ASSUME IInv, [Next]_relayVars
  PROVE  NoRepublish' /\ ClosedWasSent' /\ DuplicateNeedsLapse'
  <1> USE DEF IInv, TypeOK, Statuses, Phases
  <1>1. SentAccounted' /\ RowsFit' /\ ListsFitPhase'
    BY NextLists, NextLeases
  \* Publications only grow, so only three steps can break NoRepublish.
  <1>2. NoRepublish'
    <2> SUFFICES ASSUME NEW v \in Workers, NEW n \in todo'[v], <<n, v>> \in sent'
                 PROVE  FALSE
      BY DEF NoRepublish
    <2> USE DEF NoRepublish
    <2>1. ASSUME NEW w \in Workers, Acquire(w) PROVE FALSE
      <3>1. PICK B \in SUBSET Eligible : todo' = [todo EXCEPT ![w] = B]
        BY <2>1 DEF Acquire
      <3>2. sent' = sent
        BY <2>1 DEF Acquire
      <3>3. CASE v = w
        <4>1. n \in Msgs /\ status[n] = "Pending" /\ pc[w] = "Idle"
          BY <2>1, <3>1, <3>3 DEF Acquire, Eligible
        <4> QED
          BY <3>2, <3>3, <4>1 DEF SentAccounted, ListsFitPhase, Held, Closed
      <3>4. CASE v # w
        BY <3>1, <3>2, <3>4
      <3> QED
        BY <3>3, <3>4
    <2>2. ASSUME NEW w \in Workers, NEW m \in Msgs, PublishOk(w, m) PROVE FALSE
      BY <2>2 DEF PublishOk
    <2>3. ASSUME NEW w \in Workers, NEW m \in Msgs, PublishFail(w, m) PROVE FALSE
      BY <2>3 DEF PublishFail
    <2>4. ASSUME NEW w \in Workers, Crash(w) PROVE FALSE
      BY <2>4 DEF Crash
    <2>5. ASSUME todo' = todo, sent' = sent PROVE FALSE
      BY <2>5
    <2>6. ASSUME NEW w \in Workers,
                 Start(w) \/ EndOfLoop(w) \/ BulkMarkProcessed(w) \/ BulkIncrementRetry(w)
                 \/ CleanOutbox(w)
          PROVE  FALSE
      BY <2>5, <2>6 DEF Start, EndOfLoop, BulkMarkProcessed, BulkIncrementRetry, CleanOutbox,
                        workerVars
    <2>7. ASSUME Tick \/ UNCHANGED relayVars \/ \E m \in Msgs : CreateOrder(m)
          PROVE  FALSE
      BY <2>5, <2>7 DEF Tick, relayVars, workerVars, CreateOrder
    <2> QED
      BY <2>1, <2>2, <2>3, <2>4, <2>6, <2>7 DEF Next, WorkerStep
  <1>3. ClosedWasSent'
    <2> SUFFICES ASSUME NEW n \in Msgs, Closed(n)' PROVE WasSent(n)'
      BY DEF ClosedWasSent, Closed
    <2>1. sent \subseteq sent'
      BY DEF Next, WorkerStep, CreateOrder, Start, Acquire, PublishOk, PublishFail, EndOfLoop,
             BulkMarkProcessed, BulkIncrementRetry, CleanOutbox, Crash, Tick, relayVars
    <2>2. CASE Closed(n)
      BY <2>1, <2>2 DEF ClosedWasSent, WasSent, Closed
    <2>3. ASSUME NEW w \in Workers, BulkMarkProcessed(w), ~Closed(n) PROVE WasSent(n)'
      <3>1. n \in successIds[w]
        BY <2>3 DEF BulkMarkProcessed, MarkedRows, Joined, Closed
      <3> QED
        BY <2>1, <3>1 DEF SentAccounted, WasSent
    <2>4. ASSUME NEW w \in Workers, CleanOutbox(w), ~Closed(n) PROVE FALSE
      BY <2>4 DEF CleanOutbox, Expendable, Closed
    <2>5. ASSUME NEW m \in Msgs, CreateOrder(m), ~Closed(n) PROVE FALSE
      BY <2>5 DEF CreateOrder, Closed
    <2>6. ASSUME status' = status, ~Closed(n) PROVE FALSE
      BY <2>6 DEF Closed
    <2> QED
      BY <2>2, <2>3, <2>4, <2>5, <2>6
         DEF Next, WorkerStep, Start, Acquire, PublishOk, PublishFail, EndOfLoop,
             BulkIncrementRetry, Crash, Tick, relayVars, rowVars
  <1>4. DuplicateNeedsLapse'
    <2> SUFFICES ASSUME NEW n \in Msgs, NEW v \in Workers, NEW w \in Workers,
                        <<n, v>> \in sent', <<n, w>> \in sent', n \notin lapsed', v # w
                 PROVE  FALSE
      BY DEF DuplicateNeedsLapse
    <2>1. Closed(n)'
      BY <1>1 DEF SentAccounted
    <2>2. CASE sent' = sent /\ lapsed \subseteq lapsed'
      BY <2>2 DEF DuplicateNeedsLapse
    <2>3. ASSUME NEW u \in Workers, NEW m \in Msgs, PublishOk(u, m) PROVE FALSE
      <3>1. /\ status' = status /\ lockedBy' = lockedBy /\ lapsed' = lapsed
            /\ sent' = sent \union {<<m, u>>} /\ m \in todo[u]
        BY <2>3 DEF PublishOk, rowVars
      <3>2. CASE n # m
        BY <3>1, <3>2 DEF DuplicateNeedsLapse
      \* The publisher owns the row, which is therefore not closed.
      <3>3. CASE n = m
        <4>1. lockedBy[n] = u
          BY <3>1, <3>3 DEF LeaseHonoured, Held
        <4>2. status[n] = "Pending"
          BY <4>1, RelayAssumption DEF RowsFit, RelayAssumption
        <4> QED
          BY <2>1, <3>1, <4>2 DEF Closed
      <3> QED
        BY <3>2, <3>3
    <2> QED
      BY <2>2, <2>3
         DEF Next, WorkerStep, CreateOrder, Start, Acquire, PublishFail, EndOfLoop,
             BulkMarkProcessed, BulkIncrementRetry, CleanOutbox, Crash, Tick, relayVars
  <1> QED
    BY <1>2, <1>3, <1>4

-----------------------------------------------------------------------------

\* The inductive invariant of the relay holds in every reachable state.
THEOREM RelayInvariant == Spec => []IInv
  <1>1. Init => IInv
    BY InitIInv
  <1>2. IInv /\ [Next]_relayVars => IInv'
    <2> SUFFICES ASSUME IInv, [Next]_relayVars PROVE IInv'
      OBVIOUS
    <2>1. TypeOK'
      BY NextTypeOK DEF IInv
    <2> QED
      BY <2>1, NextLists, NextLeases, NextSent DEF IInv
  <1> QED
    BY <1>1, <1>2, PTL DEF Spec

\* Every variable keeps its type.
THEOREM TypeCorrect == Spec => []TypeOK
  <1>1. IInv => TypeOK
    BY DEF IInv
  <1> QED
    BY <1>1, RelayInvariant, PTL

\* An order's row is closed or deleted only after its event was published.
THEOREM NoOrderForgotten == Spec => []ClosedWasSent
  <1>1. IInv => ClosedWasSent
    BY DEF IInv
  <1> QED
    BY <1>1, RelayInvariant, PTL

\* A process never publishes the same message twice.
THEOREM PublishedOncePerProcess == Spec => []NoRepublish
  <1>1. IInv => NoRepublish
    BY DEF IInv
  <1> QED
    BY <1>1, RelayInvariant, PTL

\* Until a lease runs out, its holder is the only process that publishes the row.
THEOREM LeaseExclusion == Spec => []LeaseHonoured
  <1>1. IInv => LeaseHonoured
    BY DEF IInv
  <1> QED
    BY <1>1, RelayInvariant, PTL

\* Two processes publish the same message only after a lease of it ran out.
THEOREM DuplicatesExplained == Spec => []DuplicateNeedsLapse
  <1>1. IInv => DuplicateNeedsLapse
    BY DEF IInv
  <1> QED
    BY <1>1, RelayInvariant, PTL

\* A closed row is never reopened, and a deleted one never comes back.
THEOREM StaysClosed == Spec => ClosedForGood
  <1>1. ASSUME IInv, [Next]_relayVars PROVE KeepsClosed
    <2> USE <1>1 DEF KeepsClosed, IInv, TypeOK, RowsFit, ListsFitPhase, Held, Statuses, Phases
    <2>1. ASSUME NEW n \in Msgs, CreateOrder(n) PROVE KeepsClosed
      BY <2>1 DEF CreateOrder
    <2>2. ASSUME NEW w \in Workers, Start(w) PROVE KeepsClosed
      BY <2>2 DEF Start, rowVars
    <2>3. ASSUME NEW w \in Workers, Acquire(w) PROVE KeepsClosed
      BY <2>3 DEF Acquire
    <2>4. ASSUME NEW w \in Workers, EndOfLoop(w) PROVE KeepsClosed
      BY <2>4 DEF EndOfLoop, rowVars
    <2>5. ASSUME NEW w \in Workers, BulkMarkProcessed(w) PROVE KeepsClosed
      BY <2>5 DEF BulkMarkProcessed, MarkedRows, Joined
    <2>6. ASSUME NEW w \in Workers, BulkIncrementRetry(w) PROVE KeepsClosed
      BY <2>6 DEF BulkIncrementRetry, Joined
    <2>7. ASSUME NEW w \in Workers, NEW n \in Msgs, PublishOk(w, n) PROVE KeepsClosed
      BY <2>7 DEF PublishOk, rowVars
    <2>8. ASSUME NEW w \in Workers, NEW n \in Msgs, PublishFail(w, n) PROVE KeepsClosed
      BY <2>8 DEF PublishFail, rowVars
    <2>9. ASSUME NEW w \in Workers, CleanOutbox(w) PROVE KeepsClosed
      BY <2>9 DEF CleanOutbox, Expendable
    <2>10. ASSUME NEW w \in Workers, Crash(w) PROVE KeepsClosed
      BY <2>10 DEF Crash, rowVars
    <2>11. ASSUME Tick \/ UNCHANGED relayVars PROVE KeepsClosed
      BY <2>11 DEF Tick, relayVars, rowVars
    <2> QED
      BY <2>1, <2>2, <2>3, <2>4, <2>5, <2>6, <2>7, <2>8, <2>9, <2>10, <2>11
         DEF Next, WorkerStep
  <1> QED
    BY <1>1, RelayInvariant, PTL DEF Spec, ClosedForGood

=============================================================================
