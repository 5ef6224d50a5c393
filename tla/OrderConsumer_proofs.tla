------------------------ MODULE OrderConsumer_proofs ------------------------
(***************************************************************************)
(* Theorems about OrderConsumer, for any number of events, copies and      *)
(* consumers, and any retry limit.                                         *)
(***************************************************************************)
EXTENDS OrderConsumer, TLAPS

\* The empty inbox and the empty queues.
LEMMA InitIInv == ASSUME Init PROVE IInv
  <1> USE ConsumerAssumption DEF Init, ConsumerAssumption
  <1>1. TypeOK
    BY DEF TypeOK, Places, Phases
  <1>2. OneHolder /\ HoldersFit /\ HandlerKnows
    BY DEF OneHolder, HoldersFit, HandlerKnows, Busy, Up
  <1>3. TablesFit /\ HandlingAccounted /\ HandledOnce
    BY DEF TablesFit, HandlingAccounted, HandledOnce
  <1>4. NothingLost /\ RetriesBounded /\ DeadAfterRetries
    BY DEF NothingLost, RetriesBounded, DeadAfterRetries
  <1> QED
    BY <1>1, <1>2, <1>3, <1>4 DEF IInv

\* Every step keeps the type invariant.
LEMMA NextTypeOK ==
  ASSUME TypeOK, HoldersFit, [Next]_consumerVars
  PROVE  TypeOK'
  <1> USE ConsumerAssumption DEF TypeOK, HoldersFit, Places, Phases, Busy, Message,
          ConsumerAssumption
  <1>1. ASSUME NEW c \in Copies, Arrive(c) PROVE TypeOK'
    BY <1>1 DEF Arrive, handlerVars, tableVars
  <1>2. ASSUME NEW c \in Copies, Expire(c) PROVE TypeOK'
    BY <1>2 DEF Expire, handlerVars, tableVars
  <1>3. ASSUME NEW k \in Consumers, NEW c \in Copies, Deliver(k, c) PROVE TypeOK'
    BY <1>3 DEF Deliver, handlerVars, tableVars
  <1>4. ASSUME NEW k \in Consumers, Start(k) PROVE TypeOK'
    BY <1>4 DEF Start, brokerVars, tableVars
  <1>5. ASSUME NEW k \in Consumers, NEW c \in Copies, Check(k, c) PROVE TypeOK'
    BY <1>5 DEF Check, Begin, GetRetryCount, Outcome, Recording, brokerVars, tableVars
  <1>6. ASSUME NEW k \in Consumers, NEW c \in Copies, CheckError(k, c) PROVE TypeOK'
    BY <1>6 DEF CheckError, Begin, GetRetryCount, brokerVars, tableVars
  <1>7. ASSUME NEW k \in Consumers, Insert(k) PROVE TypeOK'
    BY <1>7 DEF Insert, Store, Goto, brokerVars
  <1>8. ASSUME NEW k \in Consumers, InsertConflict(k) PROVE TypeOK'
    BY <1>8 DEF InsertConflict, Goto, brokerVars, tableVars
  <1>9. ASSUME NEW k \in Consumers, InsertError(k) PROVE TypeOK'
    BY <1>9 DEF InsertError, Store, Goto, brokerVars, tableVars
  <1>10. ASSUME NEW k \in Consumers, Ack(k) PROVE TypeOK'
    BY <1>10 DEF Ack, Acking, SettleTo, EndHandler, Goto, tableVars
  <1>11. ASSUME NEW k \in Consumers, Nack(k) PROVE TypeOK'
    BY <1>11 DEF Nack, GivenUp, SettleTo, EndHandler, Goto, tableVars
  <1>12. ASSUME NEW k \in Consumers, DeadLetter(k) PROVE TypeOK'
    BY <1>12 DEF DeadLetter, DeadLetterTo, GivenUp, Goto, tableVars
  <1>13. ASSUME NEW k \in Consumers, StaleTag(k) PROVE TypeOK'
    BY <1>13 DEF StaleTag, Acking, EndHandler, Goto, brokerVars, tableVars
  <1>14. ASSUME NEW k \in Consumers, ClosedChannel(k) PROVE TypeOK'
    BY <1>14 DEF ClosedChannel, EndHandler, Goto, brokerVars, tableVars
  <1>15. ASSUME NEW k \in Consumers, ChannelDrop(k) PROVE TypeOK'
    BY <1>15 DEF ChannelDrop, Requeue, tableVars
  <1>16. ASSUME NEW k \in Consumers, Crash(k) PROVE TypeOK'
    BY <1>16 DEF Crash, Requeue, tableVars
  <1>17. ASSUME NEW k \in Consumers, CleanProcessed(k) PROVE TypeOK'
    BY <1>17 DEF CleanProcessed, brokerVars, handlerVars
  <1>18. ASSUME NEW m \in Msgs, AgeOut(m) PROVE TypeOK'
    BY <1>18 DEF AgeOut, brokerVars, handlerVars
  <1>19. CASE UNCHANGED consumerVars
    BY <1>19 DEF consumerVars, brokerVars, handlerVars, tableVars
  <1> QED
    BY <1>1, <1>2, <1>3, <1>4, <1>5, <1>6, <1>7, <1>8, <1>9, <1>10,
       <1>11, <1>12, <1>13, <1>14, <1>15, <1>16, <1>17, <1>18, <1>19
       DEF Next, HandlerStep, HandlerFault

\* A copy is held by one channel, and by the one whose handler may settle it.
LEMMA NextHolders ==
  ASSUME IInv, [Next]_consumerVars
  PROVE  OneHolder' /\ HoldersFit'
  <1> DEFINE Goal == OneHolder' /\ HoldersFit'
  <1> SUFFICES Goal
    OBVIOUS
  <1> USE ConsumerAssumption DEF IInv, TypeOK, OneHolder, HoldersFit, Places, Phases, Busy, Up,
          ConsumerAssumption
  <1>1. ASSUME NEW c \in Copies, Arrive(c) PROVE Goal
    BY <1>1 DEF Arrive, handlerVars, tableVars
  <1>2. ASSUME NEW c \in Copies, Expire(c) PROVE Goal
    BY <1>2 DEF Expire, handlerVars, tableVars
  <1>3. ASSUME NEW k \in Consumers, NEW c \in Copies, Deliver(k, c) PROVE Goal
    BY <1>3 DEF Deliver, handlerVars, tableVars
  <1>4. ASSUME NEW k \in Consumers, Start(k) PROVE Goal
    BY <1>4 DEF Start, brokerVars, tableVars
  <1>5. ASSUME NEW k \in Consumers, NEW c \in Copies, Check(k, c) PROVE Goal
    BY <1>5 DEF Check, Begin, GetRetryCount, Outcome, Recording, brokerVars, tableVars
  <1>6. ASSUME NEW k \in Consumers, NEW c \in Copies, CheckError(k, c) PROVE Goal
    BY <1>6 DEF CheckError, Begin, GetRetryCount, brokerVars, tableVars
  <1>7. ASSUME NEW k \in Consumers, Insert(k) PROVE Goal
    BY <1>7 DEF Insert, Store, Goto, brokerVars
  <1>8. ASSUME NEW k \in Consumers, InsertConflict(k) PROVE Goal
    BY <1>8 DEF InsertConflict, Goto, brokerVars, tableVars
  <1>9. ASSUME NEW k \in Consumers, InsertError(k) PROVE Goal
    BY <1>9 DEF InsertError, Store, Goto, brokerVars, tableVars
  <1>10. ASSUME NEW k \in Consumers, Ack(k) PROVE Goal
    BY <1>10 DEF Ack, Acking, SettleTo, EndHandler, Goto, tableVars
  <1>11. ASSUME NEW k \in Consumers, Nack(k) PROVE Goal
    BY <1>11 DEF Nack, GivenUp, SettleTo, EndHandler, Goto, tableVars
  <1>12. ASSUME NEW k \in Consumers, DeadLetter(k) PROVE Goal
    BY <1>12 DEF DeadLetter, DeadLetterTo, GivenUp, Goto, tableVars
  <1>13. ASSUME NEW k \in Consumers, StaleTag(k) PROVE Goal
    BY <1>13 DEF StaleTag, Acking, EndHandler, Goto, brokerVars, tableVars
  <1>14. ASSUME NEW k \in Consumers, ClosedChannel(k) PROVE Goal
    BY <1>14 DEF ClosedChannel, EndHandler, Goto, brokerVars, tableVars
  <1>15. ASSUME NEW k \in Consumers, ChannelDrop(k) PROVE Goal
    BY <1>15 DEF ChannelDrop, Requeue, tableVars
  <1>16. ASSUME NEW k \in Consumers, Crash(k) PROVE Goal
    BY <1>16 DEF Crash, Requeue, tableVars
  <1>17. ASSUME NEW k \in Consumers, CleanProcessed(k) PROVE Goal
    BY <1>17 DEF CleanProcessed, brokerVars, handlerVars
  <1>18. ASSUME NEW m \in Msgs, AgeOut(m) PROVE Goal
    BY <1>18 DEF AgeOut, brokerVars, handlerVars
  <1>19. CASE UNCHANGED consumerVars
    BY <1>19 DEF consumerVars, brokerVars, handlerVars, tableVars
  <1> QED
    BY <1>1, <1>2, <1>3, <1>4, <1>5, <1>6, <1>7, <1>8, <1>9, <1>10,
       <1>11, <1>12, <1>13, <1>14, <1>15, <1>16, <1>17, <1>18, <1>19
       DEF Next, HandlerStep, HandlerFault

\* What a handler knows stays true until it acts on it, and the table agrees.
LEMMA NextKnows ==
  ASSUME IInv, [Next]_consumerVars
  PROVE  HandlerKnows' /\ TablesFit'
  <1> DEFINE Goal == HandlerKnows' /\ TablesFit'
  <1> SUFFICES Goal
    OBVIOUS
  <1> USE ConsumerAssumption DEF IInv, TypeOK, OneHolder, HoldersFit, HandlerKnows, TablesFit,
          RetriesBounded, Places, Phases, Busy, Up, Message, ConsumerAssumption
  <1>1. ASSUME NEW c \in Copies, Arrive(c) PROVE Goal
    BY <1>1 DEF Arrive, handlerVars, tableVars
  <1>2. ASSUME NEW c \in Copies, Expire(c) PROVE Goal
    BY <1>2 DEF Expire, handlerVars, tableVars
  <1>3. ASSUME NEW k \in Consumers, NEW c \in Copies, Deliver(k, c) PROVE Goal
    BY <1>3 DEF Deliver, handlerVars, tableVars
  <1>4. ASSUME NEW k \in Consumers, Start(k) PROVE Goal
    BY <1>4 DEF Start, brokerVars, tableVars
  <1>5. ASSUME NEW k \in Consumers, NEW c \in Copies, Check(k, c) PROVE Goal
    BY <1>5 DEF Check, Begin, GetRetryCount, Outcome, Recording, brokerVars, tableVars
  <1>6. ASSUME NEW k \in Consumers, NEW c \in Copies, CheckError(k, c) PROVE Goal
    BY <1>6 DEF CheckError, Begin, GetRetryCount, brokerVars, tableVars
  <1>7. ASSUME NEW k \in Consumers, Insert(k) PROVE Goal
    BY <1>7 DEF Insert, Store, Goto, brokerVars
  <1>8. ASSUME NEW k \in Consumers, InsertConflict(k) PROVE Goal
    BY <1>8 DEF InsertConflict, Goto, brokerVars, tableVars
  <1>9. ASSUME NEW k \in Consumers, InsertError(k) PROVE Goal
    BY <1>9 DEF InsertError, Store, Goto, brokerVars, tableVars
  <1>10. ASSUME NEW k \in Consumers, Ack(k) PROVE Goal
    BY <1>10 DEF Ack, Acking, SettleTo, EndHandler, Goto, tableVars
  <1>11. ASSUME NEW k \in Consumers, Nack(k) PROVE Goal
    BY <1>11 DEF Nack, GivenUp, SettleTo, EndHandler, Goto, tableVars
  <1>12. ASSUME NEW k \in Consumers, DeadLetter(k) PROVE Goal
    BY <1>12 DEF DeadLetter, DeadLetterTo, GivenUp, Goto, tableVars
  <1>13. ASSUME NEW k \in Consumers, StaleTag(k) PROVE Goal
    BY <1>13 DEF StaleTag, Acking, EndHandler, Goto, brokerVars, tableVars
  <1>14. ASSUME NEW k \in Consumers, ClosedChannel(k) PROVE Goal
    BY <1>14 DEF ClosedChannel, EndHandler, Goto, brokerVars, tableVars
  <1>15. ASSUME NEW k \in Consumers, ChannelDrop(k) PROVE Goal
    BY <1>15 DEF ChannelDrop, Requeue, tableVars
  <1>16. ASSUME NEW k \in Consumers, Crash(k) PROVE Goal
    BY <1>16 DEF Crash, Requeue, tableVars
  <1>17. ASSUME NEW k \in Consumers, CleanProcessed(k) PROVE Goal
    BY <1>17 DEF CleanProcessed, brokerVars, handlerVars
  <1>18. ASSUME NEW m \in Msgs, AgeOut(m) PROVE Goal
    BY <1>18 DEF AgeOut, brokerVars, handlerVars
  <1>19. CASE UNCHANGED consumerVars
    BY <1>19 DEF consumerVars, brokerVars, handlerVars, tableVars
  <1> QED
    BY <1>1, <1>2, <1>3, <1>4, <1>5, <1>6, <1>7, <1>8, <1>9, <1>10,
       <1>11, <1>12, <1>13, <1>14, <1>15, <1>16, <1>17, <1>18, <1>19
       DEF Next, HandlerStep, HandlerFault

\* Copies leave the broker, the retry loop and the dead letter path as promised.
LEMMA NextSettled ==
  ASSUME IInv, [Next]_consumerVars
  PROVE  NothingLost' /\ RetriesBounded' /\ DeadAfterRetries'
  <1> DEFINE Goal == NothingLost' /\ RetriesBounded' /\ DeadAfterRetries'
  <1> SUFFICES Goal
    OBVIOUS
  <1> USE ConsumerAssumption DEF IInv, TypeOK, OneHolder, HoldersFit, HandlerKnows, TablesFit,
          NothingLost, RetriesBounded, DeadAfterRetries, Places, Phases, Busy, Up, Message,
          ConsumerAssumption
  <1>1. ASSUME NEW c \in Copies, Arrive(c) PROVE Goal
    BY <1>1 DEF Arrive, handlerVars, tableVars
  <1>2. ASSUME NEW c \in Copies, Expire(c) PROVE Goal
    BY <1>2 DEF Expire, handlerVars, tableVars
  <1>3. ASSUME NEW k \in Consumers, NEW c \in Copies, Deliver(k, c) PROVE Goal
    BY <1>3 DEF Deliver, handlerVars, tableVars
  <1>4. ASSUME NEW k \in Consumers, Start(k) PROVE Goal
    BY <1>4 DEF Start, brokerVars, tableVars
  <1>5. ASSUME NEW k \in Consumers, NEW c \in Copies, Check(k, c) PROVE Goal
    BY <1>5 DEF Check, Begin, GetRetryCount, Outcome, Recording, brokerVars, tableVars
  <1>6. ASSUME NEW k \in Consumers, NEW c \in Copies, CheckError(k, c) PROVE Goal
    BY <1>6 DEF CheckError, Begin, GetRetryCount, brokerVars, tableVars
  <1>7. ASSUME NEW k \in Consumers, Insert(k) PROVE Goal
    BY <1>7 DEF Insert, Store, Goto, brokerVars
  <1>8. ASSUME NEW k \in Consumers, InsertConflict(k) PROVE Goal
    BY <1>8 DEF InsertConflict, Goto, brokerVars, tableVars
  <1>9. ASSUME NEW k \in Consumers, InsertError(k) PROVE Goal
    BY <1>9 DEF InsertError, Store, Goto, brokerVars, tableVars
  <1>10. ASSUME NEW k \in Consumers, Ack(k) PROVE Goal
    BY <1>10 DEF Ack, Acking, SettleTo, EndHandler, Goto, tableVars
  <1>11. ASSUME NEW k \in Consumers, Nack(k) PROVE Goal
    BY <1>11 DEF Nack, GivenUp, SettleTo, EndHandler, Goto, tableVars
  <1>12. ASSUME NEW k \in Consumers, DeadLetter(k) PROVE Goal
    <2>1. /\ place' = place /\ deaths' = deaths /\ done' = done
          /\ dlq' = dlq \union {current[k]} /\ seen[k] >= RetryLimit /\ phase[k] = "Failed"
      BY <1>12 DEF DeadLetter, DeadLetterTo, GivenUp, tableVars
    \* What the header said is a lower bound, RetriesBounded an upper one.
    <2>2. current[k] \in Copies /\ deaths[current[k]] = RetryLimit
      <3>1. current[k] \in Copies /\ seen[k] <= deaths[current[k]]
        BY <2>1
      <3>2. deaths[current[k]] <= RetryLimit
        BY <3>1
      <3>3. seen[k] \in Nat /\ deaths[current[k]] \in Nat
        BY <3>1
      <3> QED
        BY <2>1, <3>1, <3>2, <3>3
    <2> QED
      BY <2>1, <2>2
  <1>13. ASSUME NEW k \in Consumers, StaleTag(k) PROVE Goal
    BY <1>13 DEF StaleTag, Acking, EndHandler, Goto, brokerVars, tableVars
  <1>14. ASSUME NEW k \in Consumers, ClosedChannel(k) PROVE Goal
    BY <1>14 DEF ClosedChannel, EndHandler, Goto, brokerVars, tableVars
  <1>15. ASSUME NEW k \in Consumers, ChannelDrop(k) PROVE Goal
    BY <1>15 DEF ChannelDrop, Requeue, tableVars
  <1>16. ASSUME NEW k \in Consumers, Crash(k) PROVE Goal
    BY <1>16 DEF Crash, Requeue, tableVars
  <1>17. ASSUME NEW k \in Consumers, CleanProcessed(k) PROVE Goal
    BY <1>17 DEF CleanProcessed, brokerVars, handlerVars
  <1>18. ASSUME NEW m \in Msgs, AgeOut(m) PROVE Goal
    BY <1>18 DEF AgeOut, brokerVars, handlerVars
  <1>19. CASE UNCHANGED consumerVars
    BY <1>19 DEF consumerVars, brokerVars, handlerVars, tableVars
  <1> QED
    BY <1>1, <1>2, <1>3, <1>4, <1>5, <1>6, <1>7, <1>8, <1>9, <1>10,
       <1>11, <1>12, <1>13, <1>14, <1>15, <1>16, <1>17, <1>18, <1>19
       DEF Next, HandlerStep, HandlerFault

\* Orders that nothing disturbed are handled once.
LEMMA NextOnce ==
  ASSUME IInv, [Next]_consumerVars
  PROVE  HandlingAccounted' /\ HandledOnce'
  <1> DEFINE Goal == HandlingAccounted' /\ HandledOnce'
  <1> SUFFICES Goal
    OBVIOUS
  <1> USE ConsumerAssumption DEF IInv, TypeOK, OneHolder, HoldersFit, HandlerKnows, TablesFit,
          HandlingAccounted, HandledOnce, Recording, Places, Phases, Busy, Up, Message,
          ConsumerAssumption
  <1>1. ASSUME NEW c \in Copies, Arrive(c) PROVE Goal
    BY <1>1 DEF Arrive, handlerVars, tableVars
  <1>2. ASSUME NEW c \in Copies, Expire(c) PROVE Goal
    BY <1>2 DEF Expire, handlerVars, tableVars
  <1>3. ASSUME NEW k \in Consumers, NEW c \in Copies, Deliver(k, c) PROVE Goal
    BY <1>3 DEF Deliver, handlerVars, tableVars
  <1>4. ASSUME NEW k \in Consumers, Start(k) PROVE Goal
    BY <1>4 DEF Start, brokerVars, tableVars
  <1>5. ASSUME NEW k \in Consumers, NEW c \in Copies, Check(k, c) PROVE Goal
    BY <1>5 DEF Check, Begin, GetRetryCount, Outcome, Recording, brokerVars, tableVars
  <1>6. ASSUME NEW k \in Consumers, NEW c \in Copies, CheckError(k, c) PROVE Goal
    BY <1>6 DEF CheckError, Begin, GetRetryCount, brokerVars, tableVars
  <1>7. ASSUME NEW k \in Consumers, Insert(k) PROVE Goal
    BY <1>7 DEF Insert, Store, Goto, brokerVars
  <1>8. ASSUME NEW k \in Consumers, InsertConflict(k) PROVE Goal
    BY <1>8 DEF InsertConflict, Goto, brokerVars, tableVars
  <1>9. ASSUME NEW k \in Consumers, InsertError(k) PROVE Goal
    BY <1>9 DEF InsertError, Store, Goto, brokerVars, tableVars
  <1>10. ASSUME NEW k \in Consumers, Ack(k) PROVE Goal
    BY <1>10 DEF Ack, Acking, SettleTo, EndHandler, Goto, tableVars
  <1>11. ASSUME NEW k \in Consumers, Nack(k) PROVE Goal
    BY <1>11 DEF Nack, GivenUp, SettleTo, EndHandler, Goto, tableVars
  <1>12. ASSUME NEW k \in Consumers, DeadLetter(k) PROVE Goal
    BY <1>12 DEF DeadLetter, DeadLetterTo, GivenUp, Goto, tableVars
  <1>13. ASSUME NEW k \in Consumers, StaleTag(k) PROVE Goal
    BY <1>13 DEF StaleTag, Acking, EndHandler, Goto, brokerVars, tableVars
  <1>14. ASSUME NEW k \in Consumers, ClosedChannel(k) PROVE Goal
    BY <1>14 DEF ClosedChannel, EndHandler, Goto, brokerVars, tableVars
  <1>15. ASSUME NEW k \in Consumers, ChannelDrop(k) PROVE Goal
    BY <1>15 DEF ChannelDrop, Requeue, tableVars
  <1>16. ASSUME NEW k \in Consumers, Crash(k) PROVE Goal
    BY <1>16 DEF Crash, Requeue, tableVars
  <1>17. ASSUME NEW k \in Consumers, CleanProcessed(k) PROVE Goal
    BY <1>17 DEF CleanProcessed, brokerVars, handlerVars
  <1>18. ASSUME NEW m \in Msgs, AgeOut(m) PROVE Goal
    BY <1>18 DEF AgeOut, brokerVars, handlerVars
  <1>19. CASE UNCHANGED consumerVars
    BY <1>19 DEF consumerVars, brokerVars, handlerVars, tableVars
  <1> QED
    BY <1>1, <1>2, <1>3, <1>4, <1>5, <1>6, <1>7, <1>8, <1>9, <1>10,
       <1>11, <1>12, <1>13, <1>14, <1>15, <1>16, <1>17, <1>18, <1>19
       DEF Next, HandlerStep, HandlerFault

-----------------------------------------------------------------------------

\* The inductive invariant of the consumer holds in every reachable state.
THEOREM ConsumerInvariant == Spec => []IInv
  <1>1. Init => IInv
    BY InitIInv
  <1>2. IInv /\ [Next]_consumerVars => IInv'
    <2> SUFFICES ASSUME IInv, [Next]_consumerVars PROVE IInv'
      OBVIOUS
    <2>1. TypeOK'
      BY NextTypeOK DEF IInv
    <2> QED
      BY <2>1, NextHolders, NextKnows, NextSettled, NextOnce DEF IInv
  <1> QED
    BY <1>1, <1>2, PTL DEF Spec

\* Every variable keeps its type.
THEOREM TypeCorrect == Spec => []TypeOK
  <1>1. IInv => TypeOK
    BY DEF IInv
  <1> QED
    BY <1>1, ConsumerInvariant, PTL

\* No accepted copy is lost: it is acknowledged only once its event is recorded
\* as processed or dead-lettered.
THEOREM NoCopyLost == Spec => []NothingLost
  <1>1. IInv => NothingLost
    BY DEF IInv
  <1> QED
    BY <1>1, ConsumerInvariant, PTL

\* No copy has two holders, and a handler that is not stale settles what its channel
\* holds.
THEOREM OneHolderEach == Spec => []OneHolder
  <1>1. IInv => OneHolder
    BY DEF IInv
  <1> QED
    BY <1>1, ConsumerInvariant, PTL

\* A copy goes round at most RetryLimit times ...
THEOREM RetryDiscipline == Spec => []RetriesBounded
  <1>1. IInv => RetriesBounded
    BY DEF IInv
  <1> QED
    BY <1>1, ConsumerInvariant, PTL

\* ... and none is dead-lettered sooner.
THEOREM NoEarlyDeadLetter == Spec => []DeadAfterRetries
  <1>1. IInv => DeadAfterRetries
    BY DEF IInv
  <1> QED
    BY <1>1, ConsumerInvariant, PTL

\* Orders that nothing disturbed are handled once.
THEOREM Idempotence == Spec => []HandledOnce
  <1>1. IInv => HandledOnce
    BY DEF IInv
  <1> QED
    BY <1>1, ConsumerInvariant, PTL

=============================================================================
