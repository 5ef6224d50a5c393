------------------------ MODULE OutboxSystem_proofs ------------------------
(***************************************************************************)
(* Theorems about OutboxSystem, for any number of events and processes.    *)
(* The system implements the relay and the consumer it is composed of, so  *)
(* the invariants of both hold in it; IInv joins them at the wire; and the *)
(* three together show that the system implements the safety part of       *)
(* EventDelivery.                                                          *)
(***************************************************************************)
EXTENDS OutboxSystem, TLAPS

\* The theorems of the two halves, and the definitions they are about: those of
\* Relay and Consumer under other names, which the next lemmas identify.
RelayFacts    == INSTANCE OutboxRelay_proofs WITH Workers <- Procs, NoWorker <- Nobody
ConsumerFacts == INSTANCE OrderConsumer_proofs WITH Consumers <- Procs, NoCopy <- Nobody

-----------------------------------------------------------------------------
(* The halves and their theorems *)

\* What the relay module and its theorems define under two names is the same.
LEMMA SameRelaySpec == Relay!Spec => RelayFacts!Spec
  <1>1. Relay!Init => RelayFacts!Init
    BY DEF Relay!Init, RelayFacts!Init
  <1>2. Relay!Next => RelayFacts!Next
    BY DEF Relay!Next, RelayFacts!Next, Relay!WorkerStep, RelayFacts!WorkerStep,
           Relay!CreateOrder, RelayFacts!CreateOrder, Relay!Orders, RelayFacts!Orders,
           Relay!Cardinality, RelayFacts!Cardinality, Relay!Start, RelayFacts!Start,
           Relay!Acquire, RelayFacts!Acquire, Relay!Eligible, RelayFacts!Eligible,
           Relay!LeaseExpired, RelayFacts!LeaseExpired, Relay!OldestFirst, RelayFacts!OldestFirst,
           Relay!PublishOk, RelayFacts!PublishOk, Relay!PublishFail, RelayFacts!PublishFail,
           Relay!EndOfLoop, RelayFacts!EndOfLoop, Relay!Joined, RelayFacts!Joined,
           Relay!MarkedRows, RelayFacts!MarkedRows,
           Relay!BulkMarkProcessed, RelayFacts!BulkMarkProcessed,
           Relay!BulkIncrementRetry, RelayFacts!BulkIncrementRetry,
           Relay!Crash, RelayFacts!Crash, Relay!Running, RelayFacts!Running,
           Relay!CleanOutbox, RelayFacts!CleanOutbox, Relay!Expendable, RelayFacts!Expendable,
           Relay!Tick, RelayFacts!Tick, Relay!Older, RelayFacts!Older,
           Relay!rowVars, RelayFacts!rowVars, Relay!workerVars, RelayFacts!workerVars
  <1>3. UNCHANGED Relay!relayVars => UNCHANGED RelayFacts!relayVars
    BY DEF Relay!relayVars, RelayFacts!relayVars, Relay!rowVars, RelayFacts!rowVars,
           Relay!workerVars, RelayFacts!workerVars
  <1> QED
    BY <1>1, <1>2, <1>3, PTL DEF Relay!Spec, RelayFacts!Spec

\* The same for what those theorems establish.
LEMMA SameRelayInvariant == RelayFacts!IInv => Relay!IInv
  BY DEF Relay!IInv, RelayFacts!IInv, Relay!TypeOK, RelayFacts!TypeOK,
         Relay!Statuses, RelayFacts!Statuses, Relay!Phases, RelayFacts!Phases,
         Relay!ListsFitPhase, RelayFacts!ListsFitPhase, Relay!Held, RelayFacts!Held,
         Relay!RowsFit, RelayFacts!RowsFit, Relay!SentAccounted, RelayFacts!SentAccounted,
         Relay!Closed, RelayFacts!Closed, Relay!LeaseHonoured, RelayFacts!LeaseHonoured,
         Relay!NoRepublish, RelayFacts!NoRepublish, Relay!WasSent, RelayFacts!WasSent,
         Relay!ClosedWasSent, RelayFacts!ClosedWasSent,
         Relay!DuplicateNeedsLapse, RelayFacts!DuplicateNeedsLapse

\* The consumer module and its theorems, as for the relay,
LEMMA SameConsumerSpec == Consumer!Spec => ConsumerFacts!Spec
  <1>1. Consumer!Init => ConsumerFacts!Init
    BY DEF Consumer!Init, ConsumerFacts!Init
  <1>2. Consumer!Next => ConsumerFacts!Next
    BY DEF Consumer!Next, ConsumerFacts!Next, Consumer!HandlerStep, ConsumerFacts!HandlerStep,
           Consumer!HandlerFault, ConsumerFacts!HandlerFault,
           Consumer!Up, ConsumerFacts!Up, Consumer!Busy, ConsumerFacts!Busy,
           Consumer!Arrive, ConsumerFacts!Arrive, Consumer!Deliver, ConsumerFacts!Deliver,
           Consumer!Expire, ConsumerFacts!Expire, Consumer!Requeue, ConsumerFacts!Requeue,
           Consumer!ChannelDrop, ConsumerFacts!ChannelDrop, Consumer!Start, ConsumerFacts!Start,
           Consumer!Outcome, ConsumerFacts!Outcome, Consumer!Message, ConsumerFacts!Message,
           Consumer!GetRetryCount, ConsumerFacts!GetRetryCount,
           Consumer!Begin, ConsumerFacts!Begin, Consumer!Recording, ConsumerFacts!Recording,
           Consumer!Check, ConsumerFacts!Check, Consumer!CheckError, ConsumerFacts!CheckError,
           Consumer!Store, ConsumerFacts!Store, Consumer!Goto, ConsumerFacts!Goto,
           Consumer!Insert, ConsumerFacts!Insert,
           Consumer!InsertConflict, ConsumerFacts!InsertConflict,
           Consumer!InsertError, ConsumerFacts!InsertError,
           Consumer!EndHandler, ConsumerFacts!EndHandler, Consumer!SettleTo, ConsumerFacts!SettleTo,
           Consumer!Acking, ConsumerFacts!Acking, Consumer!Ack, ConsumerFacts!Ack,
           Consumer!GivenUp, ConsumerFacts!GivenUp, Consumer!Nack, ConsumerFacts!Nack,
           Consumer!DeadLetterTo, ConsumerFacts!DeadLetterTo,
           Consumer!DeadLetter, ConsumerFacts!DeadLetter,
           Consumer!StaleTag, ConsumerFacts!StaleTag,
           Consumer!ClosedChannel, ConsumerFacts!ClosedChannel, Consumer!Crash, ConsumerFacts!Crash,
           Consumer!AgeOut, ConsumerFacts!AgeOut,
           Consumer!CleanProcessed, ConsumerFacts!CleanProcessed,
           Consumer!brokerVars, ConsumerFacts!brokerVars,
           Consumer!handlerVars, ConsumerFacts!handlerVars,
           Consumer!tableVars, ConsumerFacts!tableVars
  <1>3. UNCHANGED Consumer!consumerVars => UNCHANGED ConsumerFacts!consumerVars
    BY DEF Consumer!consumerVars, ConsumerFacts!consumerVars,
           Consumer!brokerVars, ConsumerFacts!brokerVars,
           Consumer!handlerVars, ConsumerFacts!handlerVars,
           Consumer!tableVars, ConsumerFacts!tableVars
  <1> QED
    BY <1>1, <1>2, <1>3, PTL DEF Consumer!Spec, ConsumerFacts!Spec

\* and what they establish.
LEMMA SameConsumerInvariant == ConsumerFacts!IInv => Consumer!IInv
  BY DEF Consumer!IInv, ConsumerFacts!IInv, Consumer!TypeOK, ConsumerFacts!TypeOK,
         Consumer!Places, ConsumerFacts!Places, Consumer!Phases, ConsumerFacts!Phases,
         Consumer!Up, ConsumerFacts!Up, Consumer!Busy, ConsumerFacts!Busy,
         Consumer!Message, ConsumerFacts!Message, Consumer!Recording, ConsumerFacts!Recording,
         Consumer!OneHolder, ConsumerFacts!OneHolder, Consumer!HoldersFit, ConsumerFacts!HoldersFit,
         Consumer!HandlerKnows, ConsumerFacts!HandlerKnows,
         Consumer!TablesFit, ConsumerFacts!TablesFit,
         Consumer!HandlingAccounted, ConsumerFacts!HandlingAccounted,
         Consumer!NothingLost, ConsumerFacts!NothingLost,
         Consumer!RetriesBounded, ConsumerFacts!RetriesBounded,
         Consumer!DeadAfterRetries, ConsumerFacts!DeadAfterRetries,
         Consumer!HandledOnce, ConsumerFacts!HandledOnce

\* What the constants of the system are is what the halves assume of theirs.
LEMMA RelayInSystem == Relay!Spec => []Relay!IInv
  <1>1. RelayFacts!RelayAssumption
    BY SystemAssumption
       DEF SystemAssumption, RelayFacts!RelayAssumption, IsFiniteSet, RelayFacts!IsFiniteSet
  <1> QED
    BY <1>1, SameRelaySpec, SameRelayInvariant, RelayFacts!RelayInvariant, PTL

\* The consumer half, likewise.
LEMMA ConsumerInSystem == Consumer!Spec => []Consumer!IInv
  <1>1. ConsumerFacts!ConsumerAssumption
    BY SystemAssumption
       DEF SystemAssumption, ConsumerFacts!ConsumerAssumption, MsgOf, Copies
  <1> QED
    BY <1>1, SameConsumerSpec, SameConsumerInvariant, ConsumerFacts!ConsumerInvariant, PTL

-----------------------------------------------------------------------------
(* The system implements its halves *)

\* The variables of the system are those of the relay
LEMMA RelayVars == UNCHANGED relayVars <=> UNCHANGED Relay!relayVars
  BY DEF relayVars, Relay!relayVars, Relay!rowVars, Relay!workerVars

\* and those of the consumer.
LEMMA ConsumerVars == UNCHANGED consumerVars <=> UNCHANGED Consumer!consumerVars
  BY DEF consumerVars, Consumer!consumerVars, Consumer!brokerVars, Consumer!handlerVars,
         Consumer!tableVars

\* Every step of the system is one of the relay, or leaves it alone.
LEMMA RelayStep == [Next]_systemVars => [Relay!Next]_Relay!relayVars
  <1> SUFFICES ASSUME [Next]_systemVars PROVE Relay!Next \/ UNCHANGED Relay!relayVars
    OBVIOUS
  <1> DEFINE Goal == Relay!Next \/ UNCHANGED Relay!relayVars
  <1>1. ASSUME UNCHANGED relayVars PROVE Goal
    BY <1>1, RelayVars
  <1>2. ASSUME NEW m \in Msgs, CreateOrder(m) PROVE Goal
    BY <1>2 DEF CreateOrder, Relay!Next
  <1>3. ASSUME NEW p \in Procs, Process(p) PROVE Goal
    BY <1>3 DEF Process, Relay!Next, Relay!WorkerStep
  <1>4. ASSUME NEW p \in Procs, NEW m \in Msgs, PublishFail(p, m) \/ Publish(p, m) PROVE Goal
    BY <1>4 DEF PublishFail, Publish, Relay!Next
  <1>5. ASSUME NEW p \in Procs, Start(p) \/ Crash(p) PROVE Goal
    BY <1>5 DEF Start, Crash, Relay!Next, Relay!WorkerStep
  <1>6. ASSUME NEW p \in Procs, CleanupOutbox(p) PROVE Goal
    BY <1>1, <1>6 DEF CleanupOutbox, Relay!Next
  <1>7. ASSUME Tick PROVE Goal
    BY <1>7 DEF Tick, Relay!Next
  <1>8. ASSUME NEW m \in Msgs, AgeOut(m) PROVE Goal
    BY <1>1, <1>8 DEF AgeOut
  <1>9. ASSUME NEW p \in Procs,
               Handle(p) \/ HandleFault(p) \/ ConnectionDrop(p) \/ CleanupProcessed(p)
        PROVE  Goal
    BY <1>1, <1>9 DEF Handle, HandleFault, ConnectionDrop, CleanupProcessed
  <1>10. ASSUME NEW c \in Copies, Arrive(c) \/ BrokerStep(c) PROVE Goal
    BY <1>1, <1>10 DEF Arrive, BrokerStep
  <1>11. ASSUME UNCHANGED systemVars PROVE Goal
    BY <1>1, <1>11 DEF systemVars
  <1> QED
    BY <1>2, <1>3, <1>4, <1>5, <1>6, <1>7, <1>8, <1>9, <1>10, <1>11 DEF Next

\* Every step of the system is one of the broker, the consumers and their tables, or
\* leaves them alone.
LEMMA ConsumerStep == [Next]_systemVars => [Consumer!Next]_Consumer!consumerVars
  <1> SUFFICES ASSUME [Next]_systemVars PROVE Consumer!Next \/ UNCHANGED Consumer!consumerVars
    OBVIOUS
  <1> DEFINE Goal == Consumer!Next \/ UNCHANGED Consumer!consumerVars
  <1>1. ASSUME UNCHANGED consumerVars PROVE Goal
    BY <1>1, ConsumerVars
  <1>2. ASSUME NEW m \in Msgs, AgeOut(m) PROVE Goal
    BY <1>2 DEF AgeOut, Consumer!Next
  <1>3. ASSUME NEW p \in Procs, Handle(p) PROVE Goal
    BY <1>3 DEF Handle, Consumer!Next, Consumer!HandlerStep
  <1>4. ASSUME NEW p \in Procs, HandleFault(p) PROVE Goal
    BY <1>4 DEF HandleFault, Consumer!Next, Consumer!HandlerFault
  <1>5. ASSUME NEW p \in Procs, Start(p) PROVE Goal
    BY <1>5 DEF Start, Consumer!Next, Consumer!HandlerStep
  <1>6. ASSUME NEW p \in Procs, ConnectionDrop(p) \/ Crash(p) PROVE Goal
    BY <1>6 DEF ConnectionDrop, Crash, Consumer!Next, Consumer!HandlerFault
  <1>7. ASSUME NEW p \in Procs, CleanupProcessed(p) PROVE Goal
    BY <1>1, <1>7 DEF CleanupProcessed, Consumer!Next
  <1>8. ASSUME NEW c \in Copies, Arrive(c) \/ BrokerStep(c) PROVE Goal
    BY <1>8 DEF Arrive, BrokerStep, Consumer!Next
  <1>9. ASSUME (\E m \in Msgs : CreateOrder(m)) \/ Tick PROVE Goal
    BY <1>1, <1>9 DEF CreateOrder, Tick
  <1>10. ASSUME NEW p \in Procs, Process(p) \/ CleanupOutbox(p) PROVE Goal
    BY <1>1, <1>10 DEF Process, CleanupOutbox
  <1>11. ASSUME NEW p \in Procs, NEW m \in Msgs, Publish(p, m) \/ PublishFail(p, m) PROVE Goal
    BY <1>1, <1>11 DEF Publish, PublishFail
  <1>12. ASSUME UNCHANGED systemVars PROVE Goal
    BY <1>1, <1>12 DEF systemVars
  <1> QED
    BY <1>2, <1>3, <1>4, <1>5, <1>6, <1>7, <1>8, <1>9, <1>10, <1>11, <1>12 DEF Next

\* What a process does to its outbox rows in the composition is what OutboxRelay lets
\* a worker do: its theorems hold of the whole system.
THEOREM ImplementsRelay == Spec => Relay!Spec
  <1>1. Init => Relay!Init
    BY DEF Init
  <1> QED
    BY <1>1, RelayStep, PTL DEF Spec, Relay!Spec

\* The wire only delays and loses what OrderConsumer lets arrive at any time: its
\* theorems hold of the whole system.
THEOREM ImplementsConsumer == Spec => Consumer!Spec
  <1>1. Init => Consumer!Init
    BY DEF Init
  <1> QED
    BY <1>1, ConsumerStep, PTL DEF Spec, Consumer!Spec

-----------------------------------------------------------------------------
(* What a step of the system does to frames *)

\* The three kinds of steps that touch the wire or the history of publications.
Publishes == \E p \in Procs, m \in Msgs : Publish(p, m)
Arrives   == \E c \in Copies : Arrive(c)
Loses     == \E p \in Procs : ConnectionDrop(p) \/ Crash(p)

\* No other step touches them.
LEMMA QuietStep ==
  ASSUME [Next]_systemVars, ~Publishes, ~Arrives, ~Loses
  PROVE  UNCHANGED <<wire, lost, sent>>
  <1>1. ASSUME NEW m \in Msgs, CreateOrder(m) \/ AgeOut(m) PROVE UNCHANGED <<wire, lost, sent>>
    BY <1>1 DEF CreateOrder, AgeOut, Relay!CreateOrder, relayVars
  <1>2. ASSUME NEW p \in Procs, Start(p) PROVE UNCHANGED <<wire, lost, sent>>
    BY <1>2 DEF Start, Relay!Start
  <1>3. ASSUME NEW p \in Procs, Process(p) PROVE UNCHANGED <<wire, lost, sent>>
    BY <1>3 DEF Process, Relay!Acquire, Relay!EndOfLoop, Relay!BulkMarkProcessed,
                Relay!BulkIncrementRetry
  <1>4. ASSUME NEW p \in Procs, Handle(p) \/ HandleFault(p) \/ CleanupProcessed(p)
        PROVE  UNCHANGED <<wire, lost, sent>>
    BY <1>4 DEF Handle, HandleFault, CleanupProcessed, relayVars
  <1>5. ASSUME NEW p \in Procs, CleanupOutbox(p) PROVE UNCHANGED <<wire, lost, sent>>
    BY <1>5 DEF CleanupOutbox, Relay!CleanOutbox, relayVars
  <1>6. ASSUME NEW p \in Procs, NEW m \in Msgs, PublishFail(p, m)
        PROVE  UNCHANGED <<wire, lost, sent>>
    BY <1>6 DEF PublishFail, Relay!PublishFail
  <1>7. ASSUME NEW c \in Copies, BrokerStep(c) PROVE UNCHANGED <<wire, lost, sent>>
    BY <1>7 DEF BrokerStep, relayVars
  <1>8. ASSUME Tick PROVE UNCHANGED <<wire, lost, sent>>
    BY <1>8 DEF Tick, Relay!Tick
  <1>9. ASSUME UNCHANGED systemVars PROVE UNCHANGED <<wire, lost, sent>>
    BY <1>9 DEF systemVars, relayVars
  <1> QED
    BY <1>1, <1>2, <1>3, <1>4, <1>5, <1>6, <1>7, <1>8, <1>9
       DEF Next, Publishes, Arrives, Loses

\* No publication is forgotten, no order disappears, no process comes back to life.
LEMMA RelayKeeps ==
  ASSUME Relay!TypeOK, [Relay!Next]_Relay!relayVars
  PROVE  /\ sent \subseteq sent'
         /\ Relay!Orders \subseteq Relay!Orders'
         /\ \A p \in Procs : pc[p] = "Dead" => pc'[p] = "Dead"
  <1> DEFINE Goal == /\ sent \subseteq sent'
                     /\ Relay!Orders \subseteq Relay!Orders'
                     /\ \A p \in Procs : pc[p] = "Dead" => pc'[p] = "Dead"
  <1> USE DEF Relay!TypeOK, Relay!Orders, Relay!rowVars, Relay!workerVars
  <1>1. ASSUME NEW m \in Msgs, Relay!CreateOrder(m) PROVE Goal
    BY <1>1 DEF Relay!CreateOrder
  <1>2. ASSUME NEW p \in Procs, Relay!WorkerStep(p) PROVE Goal
    BY <1>2 DEF Relay!WorkerStep, Relay!Start, Relay!Acquire, Relay!EndOfLoop,
                Relay!BulkMarkProcessed, Relay!BulkIncrementRetry
  <1>3. ASSUME NEW p \in Procs, NEW m \in Msgs, Relay!PublishOk(p, m) \/ Relay!PublishFail(p, m)
        PROVE  Goal
    BY <1>3 DEF Relay!PublishOk, Relay!PublishFail
  <1>4. ASSUME NEW p \in Procs, Relay!CleanOutbox(p) \/ Relay!Crash(p) PROVE Goal
    BY <1>4 DEF Relay!CleanOutbox, Relay!Crash
  <1>5. ASSUME Relay!Tick \/ UNCHANGED Relay!relayVars PROVE Goal
    BY <1>5 DEF Relay!Tick, Relay!relayVars
  <1> QED
    BY <1>1, <1>2, <1>3, <1>4, <1>5 DEF Relay!Next

\* A copy becomes known to the broker by arriving there, and stays known.
LEMMA BrokerKeeps ==
  ASSUME Consumer!IInv, [Consumer!Next]_Consumer!consumerVars, NEW c \in Copies
  PROVE  /\ place[c] # "none" => place'[c] # "none"
         /\ place[c] = "none" /\ place'[c] # "none" => Consumer!Arrive(c)
         /\ drops' \in Nat /\ drops' >= drops
  <1> DEFINE Goal == /\ place[c] # "none" => place'[c] # "none"
                     /\ place[c] = "none" /\ place'[c] # "none" => Consumer!Arrive(c)
                     /\ drops' \in Nat /\ drops' >= drops
  <1> USE SystemAssumption
      DEF SystemAssumption, Consumer!IInv, Consumer!TypeOK, Consumer!OneHolder, Consumer!HoldersFit,
          Consumer!Busy, Consumer!brokerVars, Consumer!handlerVars, Consumer!tableVars
  <1>1. ASSUME NEW d \in Copies, Consumer!Arrive(d) \/ Consumer!Expire(d) PROVE Goal
    BY <1>1 DEF Consumer!Arrive, Consumer!Expire
  <1>2. ASSUME NEW k \in Procs, NEW d \in Copies, Consumer!Deliver(k, d) PROVE Goal
    BY <1>2 DEF Consumer!Deliver
  <1>3. ASSUME NEW k \in Procs, Consumer!Ack(k) \/ Consumer!Nack(k) PROVE Goal
    BY <1>3 DEF Consumer!Ack, Consumer!Nack, Consumer!Acking, Consumer!SettleTo
  <1>4. ASSUME NEW k \in Procs, Consumer!ChannelDrop(k) \/ Consumer!Crash(k) PROVE Goal
    BY <1>4 DEF Consumer!ChannelDrop, Consumer!Crash, Consumer!Requeue
  <1>5. ASSUME UNCHANGED <<place, drops>> PROVE Goal
    BY <1>5
  <1>6. ASSUME NEW k \in Procs, NEW d \in Copies, Consumer!Check(k, d) \/ Consumer!CheckError(k, d)
        PROVE  Goal
    BY <1>5, <1>6 DEF Consumer!Check, Consumer!CheckError
  <1>7. ASSUME NEW k \in Procs,
               \/ Consumer!Start(k) \/ Consumer!Insert(k) \/ Consumer!InsertConflict(k)
               \/ Consumer!InsertError(k) \/ Consumer!StaleTag(k) \/ Consumer!ClosedChannel(k)
        PROVE  Goal
    BY <1>5, <1>7 DEF Consumer!Start, Consumer!Insert, Consumer!InsertConflict,
       Consumer!InsertError, Consumer!StaleTag, Consumer!ClosedChannel
  <1>8. ASSUME NEW k \in Procs, Consumer!DeadLetter(k) \/ Consumer!CleanProcessed(k) PROVE Goal
    BY <1>5, <1>8 DEF Consumer!DeadLetter, Consumer!CleanProcessed
  <1>9. ASSUME (\E m \in Msgs : Consumer!AgeOut(m)) \/ UNCHANGED Consumer!consumerVars PROVE Goal
    BY <1>5, <1>9 DEF Consumer!AgeOut, Consumer!consumerVars
  <1> QED
    BY <1>1, <1>2, <1>3, <1>4, <1>6, <1>7, <1>8, <1>9
       DEF Consumer!Next, Consumer!HandlerStep, Consumer!HandlerFault

\* Until it ends, a handler works on one copy, which its channel once held.
LEMMA HandlerKeeps ==
  ASSUME Consumer!IInv, HandledArrived, [Consumer!Next]_Consumer!consumerVars
  PROVE  HandledArrived'
  <1>0. \A c \in Copies : place[c] # "none" => place'[c] # "none"
    BY BrokerKeeps
  <1> SUFFICES ASSUME NEW p \in Procs, Consumer!Busy(p)' PROVE place'[current'[p]] # "none"
    BY DEF HandledArrived
  <1> DEFINE Goal == place'[current'[p]] # "none"
  <1> USE DEF Consumer!IInv, Consumer!TypeOK, Consumer!OneHolder, Consumer!HoldersFit, HandledArrived,
          Consumer!Busy, Consumer!brokerVars, Consumer!handlerVars, Consumer!tableVars
  <1>1. ASSUME Consumer!Busy(p), current'[p] = current[p] PROVE Goal
    BY <1>0, <1>1
  <1>2. ASSUME (\E c \in Copies : Consumer!Arrive(c) \/ Consumer!Expire(c)) PROVE Goal
    BY <1>1, <1>2 DEF Consumer!Arrive, Consumer!Expire
  <1>3. ASSUME NEW k \in Procs, NEW d \in Copies, Consumer!Deliver(k, d) PROVE Goal
    BY <1>1, <1>3 DEF Consumer!Deliver
  <1>4. ASSUME NEW k \in Procs, NEW d \in Copies, Consumer!Check(k, d) \/ Consumer!CheckError(k, d)
        PROVE  Goal
    BY <1>0, <1>1, <1>4 DEF Consumer!Check, Consumer!CheckError, Consumer!Begin
  <1>5. ASSUME NEW k \in Procs,
               \/ Consumer!Start(k) \/ Consumer!Insert(k) \/ Consumer!InsertConflict(k)
               \/ Consumer!InsertError(k) \/ Consumer!DeadLetter(k)
        PROVE  Goal
    BY <1>1, <1>5 DEF Consumer!Start, Consumer!Insert, Consumer!InsertConflict,
       Consumer!InsertError, Consumer!DeadLetter, Consumer!Goto
  <1>6. ASSUME NEW k \in Procs,
               \/ Consumer!Ack(k) \/ Consumer!Nack(k) \/ Consumer!StaleTag(k)
               \/ Consumer!ClosedChannel(k)
        PROVE  Goal
    BY <1>1, <1>6 DEF Consumer!Ack, Consumer!Nack, Consumer!StaleTag, Consumer!ClosedChannel,
       Consumer!EndHandler, Consumer!Goto
  <1>7. ASSUME NEW k \in Procs, Consumer!ChannelDrop(k) \/ Consumer!Crash(k) PROVE Goal
    BY <1>1, <1>7 DEF Consumer!ChannelDrop, Consumer!Crash
  <1>8. ASSUME \/ \E k \in Procs : Consumer!CleanProcessed(k)
               \/ \E m \in Msgs : Consumer!AgeOut(m)
               \/ UNCHANGED Consumer!consumerVars
        PROVE  Goal
    BY <1>1, <1>8 DEF Consumer!CleanProcessed, Consumer!AgeOut, Consumer!consumerVars
  <1> QED
    BY <1>2, <1>3, <1>4, <1>5, <1>6, <1>7, <1>8
       DEF Consumer!Next, Consumer!HandlerStep, Consumer!HandlerFault

-----------------------------------------------------------------------------
(* The wire *)

\* What the halves contribute to a step of the system.
Halves == Relay!IInv /\ Consumer!IInv

\* A frame stays on the wire until it arrives or is lost, and is lost only by a fault.
LEMMA NextFrames ==
  ASSUME Halves, IInv, [Next]_systemVars
  PROVE  wire' \union lost' \subseteq Copies /\ FramesAccounted' /\ LossHasFault'
  <1> DEFINE Goal == wire' \union lost' \subseteq Copies /\ FramesAccounted' /\ LossHasFault'
  <1>0. /\ \A c \in Copies : place[c] # "none" => place'[c] # "none"
        /\ \A c \in Copies : drops' \in Nat /\ drops' >= drops
        /\ \A p \in Procs : pc[p] = "Dead" => pc'[p] = "Dead"
    BY RelayStep, ConsumerStep, RelayKeeps, BrokerKeeps DEF Halves, Relay!IInv
  <1>a. drops \in Nat /\ sent \subseteq Copies
    BY SystemAssumption
       DEF Halves, Relay!IInv, Relay!TypeOK, Consumer!IInv, Consumer!TypeOK, SystemAssumption, Copies
  <1> USE DEF IInv, FramesAccounted, LossHasFault
  <1>1. ASSUME UNCHANGED <<wire, lost, sent>> PROVE Goal
    <2>1. \A c \in lost' : drops' > 0 \/ pc'[c[2]] = "Dead"
      BY <1>0, <1>1, <1>a DEF Copies
    <2> QED
      BY <1>0, <1>1, <1>a, <2>1
  <1>2. ASSUME NEW p \in Procs, NEW m \in Msgs, Publish(p, m) PROVE Goal
    <2>1. /\ wire' = wire \union {<<m, p>>} /\ sent' = sent \union {<<m, p>>}
          /\ UNCHANGED <<lost, pc, place, drops>> /\ <<m, p>> \in Copies
      BY <1>2 DEF Publish, Buffer, Relay!PublishOk, consumerVars, Copies
    <2>2. <<m, p>> \notin lost
      <3>1. <<m, p>> \notin sent
        BY <1>2 DEF Publish, Relay!PublishOk, Halves, Relay!IInv, Relay!NoRepublish
      <3> QED
        BY <2>1, <3>1 DEF OnlyCommittedPublished
    <2> QED
      BY <2>1, <2>2
  <1>3. ASSUME NEW c \in Copies, Arrive(c) PROVE Goal
    <2>1. /\ wire' = wire \ {c} /\ UNCHANGED <<lost, sent, pc, drops>>
          /\ place' = [place EXCEPT ![c] = "main"] /\ place \in [Copies -> Consumer!Places]
      BY <1>3 DEF Arrive, Consumer!Arrive, relayVars, Halves, Consumer!IInv, Consumer!TypeOK
    <2> QED
      BY <1>a, <2>1
  <1>4. ASSUME NEW p \in Procs, ConnectionDrop(p) \/ Crash(p) PROVE Goal
    <2>1. /\ wire' = wire \ Frames(p) /\ lost' = lost \union Frames(p) /\ sent' = sent
          /\ drops' > 0 \/ pc'[p] = "Dead"
      BY <1>4, <1>a
         DEF ConnectionDrop, Crash, LoseFrames, Consumer!ChannelDrop, Relay!Crash, relayVars,
             Halves, Relay!IInv, Relay!TypeOK
    <2>2. Frames(p) \subseteq wire /\ \A c \in Frames(p) : c[2] = p
      BY DEF Frames
    <2>3. \A c \in lost : drops' > 0 \/ pc'[c[2]] = "Dead"
      BY <1>0, <1>a DEF Copies
    <2> QED
      BY <1>0, <1>a, <2>1, <2>2, <2>3
  <1> QED
    BY <1>1, <1>2, <1>3, <1>4, QuietStep DEF Publishes, Arrives, Loses

\* The broker comes to know a copy in no other step than the arrival of its frame.
LEMMA KnownByArrival ==
  ASSUME Consumer!IInv, [Next]_systemVars, NEW c \in Copies, place[c] = "none", place'[c] # "none"
  PROVE  Arrive(c)
  <1>1. Consumer!Arrive(c)
    BY ConsumerStep, BrokerKeeps
  <1>2. UNCHANGED <<deaths, unacked, phase, drops>>
    BY <1>1 DEF Consumer!Arrive, Consumer!handlerVars
  <1> USE DEF Consumer!IInv, Consumer!TypeOK, Consumer!OneHolder
  <1>3. ASSUME UNCHANGED consumerVars PROVE FALSE
    BY <1>3 DEF consumerVars
  <1>4. ASSUME NEW p \in Procs, Handle(p) PROVE FALSE
    <2>1. phase' # phase
      BY <1>4
         DEF Handle, Consumer!Check, Consumer!Begin, Consumer!Outcome, Consumer!Insert,
             Consumer!InsertConflict, Consumer!Ack, Consumer!Acking, Consumer!Nack,
             Consumer!DeadLetter, Consumer!StaleTag, Consumer!EndHandler, Consumer!Goto
    <2> QED
      BY <1>2, <2>1
  <1>5. ASSUME NEW p \in Procs, HandleFault(p) \/ Start(p) \/ Crash(p) PROVE FALSE
    <2>1. phase' # phase
      BY <1>5
         DEF HandleFault, Start, Crash, Consumer!CheckError, Consumer!Begin, Consumer!InsertError,
             Consumer!ClosedChannel, Consumer!EndHandler, Consumer!Goto, Consumer!Start,
             Consumer!Crash, Consumer!Up
    <2> QED
      BY <1>2, <2>1
  <1>6. ASSUME NEW p \in Procs, ConnectionDrop(p) PROVE FALSE
    BY <1>2, <1>6, SystemAssumption DEF ConnectionDrop, Consumer!ChannelDrop, SystemAssumption
  <1>7. ASSUME NEW d \in Copies, BrokerStep(d) PROVE FALSE
    BY <1>2, <1>7 DEF BrokerStep, Consumer!Expire, Consumer!Deliver
  <1>8. ASSUME NEW d \in Copies, Arrive(d) PROVE Arrive(c)
    BY <1>8 DEF Arrive, Consumer!Arrive
  <1>9. ASSUME (\E m \in Msgs : AgeOut(m)) \/ \E p \in Procs : CleanupProcessed(p) PROVE FALSE
    BY <1>3, <1>9 DEF AgeOut, CleanupProcessed, Consumer!AgeOut, Consumer!CleanProcessed,
                      Consumer!brokerVars
  <1>10. ASSUME \/ (\E m \in Msgs : CreateOrder(m)) \/ Tick \/ UNCHANGED systemVars
                \/ \E p \in Procs : \/ Process(p) \/ CleanupOutbox(p)
                                     \/ \E m \in Msgs : Publish(p, m) \/ PublishFail(p, m)
         PROVE  FALSE
    BY <1>3, <1>10 DEF CreateOrder, Tick, systemVars, Process, CleanupOutbox, Publish, PublishFail
  <1> QED
    BY <1>4, <1>5, <1>6, <1>7, <1>8, <1>9, <1>10 DEF Next

\* No step puts a message on the wire, or in the broker, whose order was not committed.
LEMMA NextCommitted ==
  ASSUME Halves, IInv, [Next]_systemVars
  PROVE  OnlyCommittedPublished'
  <1> DEFINE Goal(c) == /\ c \in wire' \union lost' \/ place'[c] # "none" =>
                             c \in sent' /\ MsgOf[c] \in Relay!Orders'
                        /\ c \in wire' \union lost' => place'[c] = "none"
  <1> SUFFICES ASSUME NEW c \in Copies PROVE Goal(c)
    BY DEF OnlyCommittedPublished
  <1>0. sent \subseteq sent' /\ Relay!Orders \subseteq Relay!Orders'
    BY RelayStep, RelayKeeps DEF Halves, Relay!IInv
  <1>a. /\ c \in wire \union lost \/ place[c] # "none" => c \in sent /\ MsgOf[c] \in Relay!Orders
        /\ c \in wire \union lost => place[c] = "none"
        /\ wire \intersect lost = {}
    BY DEF IInv, OnlyCommittedPublished, LossHasFault
  <1>b. place[c] # "none" => place'[c] # "none"
    BY ConsumerStep, BrokerKeeps DEF Halves
  <1>1. ASSUME Arrive(c) PROVE Goal(c)
    <2>1. wire' = wire \ {c} /\ lost' = lost /\ c \in wire
      BY <1>1 DEF Arrive
    <2> QED
      BY <1>0, <1>a, <2>1
  <1>2. ASSUME ~Arrive(c), c \notin wire' \union lost' PROVE Goal(c)
    BY <1>0, <1>2, <1>a, <1>b, KnownByArrival DEF Halves
  <1>3. ASSUME ~Arrive(c), c \in wire \union lost PROVE Goal(c)
    BY <1>0, <1>3, <1>a, <1>b, KnownByArrival DEF Halves
  <1>4. ASSUME c \in wire' \union lost', c \notin wire \union lost PROVE Goal(c)
    <2>1. PICK p \in Procs, m \in Msgs : Publish(p, m)
      <3>1. Arrives => wire' \union lost' \subseteq wire \union lost
        BY DEF Arrives, Arrive
      <3>2. Loses => wire' \union lost' \subseteq wire \union lost
        BY DEF Loses, ConnectionDrop, Crash, LoseFrames, Frames
      <3> QED
        BY <1>4, <3>1, <3>2, QuietStep DEF Publishes
    <2>2. /\ wire' = wire \union {<<m, p>>} /\ sent' = sent \union {<<m, p>>}
          /\ UNCHANGED <<lost, place, status>> /\ m \in todo[p] /\ <<m, p>> \notin sent
      BY <2>1 DEF Publish, Buffer, Relay!PublishOk, Relay!rowVars, consumerVars, Halves,
                  Relay!IInv, Relay!NoRepublish
    <2>3. c = <<m, p>> /\ c \in sent' /\ place[c] = "none"
      BY <1>4, <1>a, <2>2
    <2>4. m \in Relay!Orders
      BY <2>2 DEF Halves, Relay!IInv, Relay!RowsFit, Relay!Held, Relay!Orders
    <2> QED
      BY <1>0, <2>2, <2>3, <2>4 DEF MsgOf
  <1> QED
    BY <1>1, <1>2, <1>3, <1>4

-----------------------------------------------------------------------------
(* Theorems about the whole *)

\* The inductive invariants of both halves hold inside the system, by the theorems about
\* each half alone: the relay's leases, statuses and publications, and the consumer's
\* custody of every copy.
THEOREM HalvesHold == Spec => []Halves
  BY ImplementsRelay, ImplementsConsumer, RelayInSystem, ConsumerInSystem, PTL DEF Halves

\* IInv, which joins the halves at the wire, holds in every reachable state.
THEOREM SystemInvariant == Spec => []IInv
  <1>1. Init => IInv
    BY DEF Init, IInv, OnlyCommittedPublished, FramesAccounted, LossHasFault, HandledArrived,
           Relay!Init, Consumer!Init, Consumer!Busy
  <1>2. Halves /\ IInv /\ [Next]_systemVars => IInv'
    <2> SUFFICES ASSUME Halves, IInv, [Next]_systemVars PROVE IInv'
      OBVIOUS
    <2>1. HandledArrived'
      BY ConsumerStep, HandlerKeeps DEF Halves, IInv
    <2> QED
      BY <2>1, NextFrames, NextCommitted DEF IInv
  <1> QED
    BY <1>1, <1>2, HalvesHold, PTL DEF Spec

\* No uncommitted order is published, and no process publishes an event twice.
THEOREM PublishedWasCommitted == Spec => []OnlyCommittedPublished
  <1>1. IInv => OnlyCommittedPublished
    BY DEF IInv
  <1> QED
    BY <1>1, SystemInvariant, PTL

\* The invariants of the halves, joined at the wire, leave an order closed without a copy
\* only one place where it can be.
LEMMA AccountedOrOnWire == ASSUME Halves, IInv PROVE LossOnlyOnTheWire
  <1> SUFFICES ASSUME NEW m \in Relay!Orders, status[m] # "Pending"
               PROVE  Accounted(m) \/ \E p \in Procs : <<m, p>> \in lost
    BY DEF LossOnlyOnTheWire, Accounted
  <1>1. m \in Msgs /\ status[m] \in {"Processed", "Deleted"}
    BY DEF Relay!Orders, Halves, Relay!IInv, Relay!TypeOK, Relay!Statuses
  <1>2. PICK p \in Procs : <<m, p>> \in sent
    BY <1>1 DEF Halves, Relay!IInv, Relay!ClosedWasSent, Relay!WasSent
  <1>3. <<m, p>> \in Copies /\ MsgOf[<<m, p>>] = m
    BY <1>1 DEF Copies, MsgOf
  <1>4. CASE place[<<m, p>>] = "gone"
    BY <1>3, <1>4 DEF Halves, Consumer!IInv, Consumer!NothingLost, Accounted
  <1>5. CASE place[<<m, p>>] \in {"main", "held", "retry"}
    BY <1>5 DEF Accounted
  <1>6. CASE place[<<m, p>>] = "none"
    BY <1>2, <1>6 DEF IInv, FramesAccounted, Accounted
  <1> QED
    BY <1>3, <1>4, <1>5, <1>6 DEF Halves, Consumer!IInv, Consumer!TypeOK, Consumer!Places

\* PublishAsync without confirms is the only hole: an event that is neither pending nor
\* at the broker nor settled by the consumer was in a frame that a connection lost.
THEOREM LossIsOnTheWire == Spec => []LossOnlyOnTheWire
  <1>1. Halves /\ IInv => LossOnlyOnTheWire
    BY AccountedOrOnWire
  <1> QED
    BY <1>1, HalvesHold, SystemInvariant, PTL

\* As long as no process died and no connection dropped, what the readme says is true.
THEOREM LossNeedsFault == Spec => []NoLossWithoutFault
  <1>1. Halves /\ IInv => NoLossWithoutFault
    <2> SUFFICES ASSUME Halves, IInv, FaultFree PROVE NoEventLoss
      BY DEF NoLossWithoutFault
    <2>1. lost = {}
      BY DEF IInv, LossHasFault, FaultFree, Copies
    <2> QED
      BY <2>1, AccountedOrOnWire DEF LossOnlyOnTheWire, NoEventLoss
  <1> QED
    BY <1>1, HalvesHold, SystemInvariant, PTL

\* Two copies of one event meet at the broker only if a lease of the event ran out: the
\* LockedBy column of the relay and the one frame per publication carry that far.
THEOREM TwoCopiesNeedLapse == Spec => []OneCopyUnlessLapsed
  <1>1. Halves /\ IInv => OneCopyUnlessLapsed
    BY DEF Halves, IInv, OnlyCommittedPublished, Relay!IInv, Relay!DuplicateNeedsLapse, Copies,
           OneCopyUnlessLapsed
  <1> QED
    BY <1>1, HalvesHold, SystemInvariant, PTL

-----------------------------------------------------------------------------
(* The system implements the safety of EventDelivery *)

\* Only CreateOrder commits an order.
LEMMA OrdersStep ==
  ASSUME Relay!TypeOK, [Relay!Next]_Relay!relayVars, \A m \in Msgs : ~Relay!CreateOrder(m)
  PROVE  Relay!Orders' = Relay!Orders
  <1> USE DEF Relay!TypeOK, Relay!Orders, Relay!rowVars
  <1>1. ASSUME NEW p \in Procs, Relay!WorkerStep(p) PROVE Relay!Orders' = Relay!Orders
    BY <1>1 DEF Relay!WorkerStep, Relay!Start, Relay!Acquire, Relay!EndOfLoop, Relay!MarkedRows,
                Relay!Joined, Relay!BulkMarkProcessed, Relay!BulkIncrementRetry
  <1>2. ASSUME NEW p \in Procs, NEW m \in Msgs, Relay!PublishOk(p, m) \/ Relay!PublishFail(p, m)
        PROVE  Relay!Orders' = Relay!Orders
    BY <1>2 DEF Relay!PublishOk, Relay!PublishFail
  <1>3. ASSUME NEW p \in Procs, Relay!CleanOutbox(p) \/ Relay!Crash(p)
        PROVE  Relay!Orders' = Relay!Orders
    BY <1>3 DEF Relay!CleanOutbox, Relay!Crash, Relay!Expendable
  <1>4. ASSUME Relay!Tick \/ UNCHANGED Relay!relayVars PROVE Relay!Orders' = Relay!Orders
    BY <1>4 DEF Relay!Tick, Relay!relayVars
  <1> QED
    BY <1>1, <1>2, <1>3, <1>4 DEF Relay!Next

\* The event of a handler that works is one of a committed order.
LEMMA HandledIsAccepted ==
  ASSUME Halves, IInv, NEW p \in Procs, Consumer!Busy(p)
  PROVE  current[p] \in Copies /\ Consumer!Message(p) \in Relay!Orders /\ Consumer!Message(p) \in Msgs
  <1>1. current[p] \in Copies /\ place[current[p]] # "none"
    BY DEF Halves, IInv, HandledArrived, Consumer!IInv, Consumer!HoldersFit
  <1> QED
    BY <1>1 DEF IInv, OnlyCommittedPublished, Consumer!Message, Relay!Orders

\* Every step of the system accepts, handles or gives up an event of the abstract
\* delivery, or does nothing it can see.
LEMMA DeliveryStep ==
  ASSUME Halves, IInv, [Next]_systemVars
  PROVE  [Delivery!Next]_Delivery!deliveryVars
  <1> DEFINE dead     == {MsgOf[c] : c \in dlq}
             vanished == {MsgOf[c] : c \in lost}
             Goal     == Delivery!Next \/ UNCHANGED Delivery!deliveryVars
  <1> SUFFICES Goal
    OBVIOUS
  <1>0. ASSUME UNCHANGED <<Relay!Orders, done, dlq, lost>> PROVE Goal
    BY <1>0 DEF Delivery!deliveryVars
  <1>a. (\A m \in Msgs : ~Relay!CreateOrder(m)) => Relay!Orders' = Relay!Orders
    BY RelayStep, OrdersStep DEF Halves, Relay!IInv
  <1>b. UNCHANGED relayVars => Relay!Orders' = Relay!Orders
    BY DEF relayVars, Relay!Orders
  <1>1. ASSUME NEW m \in Msgs, CreateOrder(m) PROVE Goal
    <2>1. Relay!Orders' = Relay!Orders \union {m} /\ m \notin Relay!Orders
      BY <1>1 DEF CreateOrder, Relay!CreateOrder, Relay!Orders, Halves, Relay!IInv, Relay!TypeOK
    <2>2. UNCHANGED <<done, dead, vanished>>
      BY <1>1 DEF CreateOrder, consumerVars
    <2>3. Delivery!Accept(m)
      BY <2>1, <2>2 DEF Delivery!Accept
    <2> QED
      BY <2>3 DEF Delivery!Next
  <1>2. ASSUME NEW p \in Procs, Consumer!Insert(p) \/ Consumer!InsertError(p),
               UNCHANGED <<relayVars, wire, lost, cleaning>>
        PROVE  Goal
    <2> DEFINE m == Consumer!Message(p)
    <2>1. m \in Relay!Orders /\ m \in Msgs /\ m \notin Poison
      BY <1>2, HandledIsAccepted
         DEF Consumer!Insert, Consumer!InsertError, Consumer!Busy, Halves, Consumer!IInv,
             Consumer!HandlerKnows
    <2>2. dlq' = dlq /\ (done' = done \/ done' = done \union {m})
      BY <1>2 DEF Consumer!Insert, Consumer!InsertError, Consumer!Store, Consumer!brokerVars,
                  Consumer!tableVars
    <2>3. CASE done' = done
      BY <1>0, <1>2, <1>b, <2>2, <2>3
    <2>4. CASE done' = done \union {m}
      <3>1. Delivery!Record(m)
        BY <1>2, <1>b, <2>1, <2>2, <2>4 DEF Delivery!Record
      <3> QED
        BY <2>1, <3>1 DEF Delivery!Next
    <2> QED
      BY <2>2, <2>3, <2>4
  <1>3. ASSUME NEW p \in Procs, Consumer!DeadLetter(p), UNCHANGED <<relayVars, wire, lost, cleaning>>
        PROVE  Goal
    <2> DEFINE m == Consumer!Message(p)
    <2>1. m \in Relay!Orders /\ m \in Msgs
      BY <1>3, HandledIsAccepted DEF Consumer!DeadLetter, Consumer!Busy
    <2>2. dlq' = dlq \union {current[p]} /\ done' = done
      BY <1>3 DEF Consumer!DeadLetter, Consumer!DeadLetterTo, Consumer!tableVars
    <2>3. dead' = dead \union {m}
      BY <2>2 DEF Consumer!Message
    <2>4. Delivery!DeadLetter(m)
      BY <1>3, <1>b, <2>1, <2>2, <2>3 DEF Delivery!DeadLetter
    <2> QED
      BY <2>1, <2>4 DEF Delivery!Next, Delivery!DeadLetter
  <1>4. ASSUME NEW p \in Procs, Handle(p) \/ HandleFault(p) PROVE Goal
    <2>1. UNCHANGED <<relayVars, wire, lost, cleaning>>
      BY <1>4 DEF Handle, HandleFault
    <2>2. \/ Consumer!Insert(p) \/ Consumer!InsertError(p) \/ Consumer!DeadLetter(p)
          \/ UNCHANGED <<done, dlq>>
      BY <1>4 DEF Handle, HandleFault, Consumer!Check, Consumer!CheckError, Consumer!InsertConflict,
         Consumer!Ack, Consumer!Nack, Consumer!StaleTag, Consumer!ClosedChannel,
         Consumer!brokerVars, Consumer!tableVars
    <2> QED
      BY <1>0, <1>2, <1>3, <1>b, <2>1, <2>2
  <1>5. ASSUME NEW p \in Procs, ConnectionDrop(p) \/ Crash(p) PROVE Goal
    <2> DEFINE S == {MsgOf[c] : c \in Frames(p)}
    <2>1. lost' = lost \union Frames(p) /\ UNCHANGED <<done, dlq>>
      BY <1>5 DEF ConnectionDrop, Crash, LoseFrames, Consumer!ChannelDrop, Consumer!Crash,
                  Consumer!tableVars
    <2>2. vanished' = vanished \union S
      BY <2>1
    <2>3. Relay!Orders' = Relay!Orders
      BY <1>5, <1>b DEF ConnectionDrop, Crash, Relay!Crash, Relay!rowVars, Relay!Orders
    <2>4. S \subseteq Relay!Orders
      BY DEF Frames, IInv, OnlyCommittedPublished
    <2>5. S \in SUBSET Msgs
      BY <2>4 DEF Relay!Orders
    <2>6. Delivery!Vanish(S)
      BY <2>1, <2>2, <2>3, <2>4 DEF Delivery!Vanish
    <2> QED
      BY <2>5, <2>6 DEF Delivery!Next, Delivery!Vanish
  <1>6. ASSUME \/ \E m \in Msgs : AgeOut(m)
               \/ \E p \in Procs : CleanupProcessed(p)
               \/ \E c \in Copies : Arrive(c) \/ BrokerStep(c)
        PROVE  Goal
    BY <1>0, <1>6, <1>b
       DEF AgeOut, CleanupProcessed, Arrive, BrokerStep, Consumer!AgeOut, Consumer!CleanProcessed,
           Consumer!Arrive, Consumer!Expire, Consumer!Deliver, Consumer!brokerVars,
           Consumer!tableVars, consumerVars
  <1>7. ASSUME NEW p \in Procs, Start(p) \/ Process(p) \/ CleanupOutbox(p) PROVE Goal
    <2>1. UNCHANGED <<done, dlq, lost>>
      BY <1>7 DEF Start, Process, CleanupOutbox, Consumer!Start, Consumer!brokerVars,
                  Consumer!tableVars, consumerVars
    <2>2. Relay!Orders' = Relay!Orders
      <3>1. ASSUME Process(p) PROVE Relay!Orders' = Relay!Orders
        BY <3>1 DEF Process, Relay!Acquire, Relay!EndOfLoop, Relay!BulkMarkProcessed,
           Relay!BulkIncrementRetry, Relay!MarkedRows, Relay!Joined, Relay!rowVars, Relay!Orders
      <3>2. ASSUME CleanupOutbox(p) PROVE Relay!Orders' = Relay!Orders
        BY <1>b, <3>2 DEF CleanupOutbox, Relay!CleanOutbox, Relay!Expendable, Relay!Orders
      <3> QED
        BY <1>7, <3>1, <3>2 DEF Start, Relay!Start, Relay!rowVars, Relay!Orders
    <2> QED
      BY <1>0, <2>1, <2>2
  <1>8. ASSUME NEW p \in Procs, NEW m \in Msgs, Publish(p, m) \/ PublishFail(p, m) PROVE Goal
    BY <1>0, <1>8 DEF Publish, PublishFail, Relay!PublishOk, Relay!PublishFail, Relay!rowVars,
                      Relay!Orders, consumerVars
  <1>9. ASSUME Tick \/ UNCHANGED systemVars PROVE Goal
    BY <1>0, <1>9, <1>b DEF Tick, Relay!Tick, Relay!Orders, systemVars, consumerVars
  <1> QED
    BY <1>1, <1>4, <1>5, <1>6, <1>7, <1>8, <1>9 DEF Next

\* Seen from a client, the whole system -- leases, retries, redeliveries, stale handlers,
\* crashes and all -- only ever accepts an event, records it, dead-letters it or loses it
\* on the wire: never an event of no order, never a record of what is always rejected,
\* and never an outcome taken back.
THEOREM DeliversSafely == Spec => Delivery!Safety
  <1>1. Init => Delivery!Init
    BY DEF Init, Relay!Init, Consumer!Init, Delivery!Init, Relay!Orders
  <1> QED
    BY <1>1, DeliveryStep, HalvesHold, SystemInvariant, PTL DEF Spec, Delivery!Safety

=============================================================================
