------------------------ MODULE BatchOutbox_proofs ------------------------
(***************************************************************************)
(* Theorems about BatchOutbox, for any messages and hosts, and any number  *)
(* of crashes, database errors and failed publications.                    *)
(***************************************************************************)
EXTENDS BatchOutbox, TLAPS

\* The empty tables, before any host runs.
LEMMA InitIInv == ASSUME Init PROVE IInv
  <1> USE DEF Init
  <1>1. TypeOK
    BY BatchAssumption DEF TypeOK, Phases, BatchAssumption
  <1>2. TablesAgree /\ HoldsFitPhase /\ OverlapsShared
    BY DEF TablesAgree, HoldsFitPhase, OverlapsShared, Held
  <1>3. PublishedAccounted /\ ClosedWasPublished /\ DuplicateHasReason
    BY DEF PublishedAccounted, ClosedWasPublished, DuplicateHasReason
  <1>4. SurvivorFresh
    BY BatchAssumption DEF SurvivorFresh, Held, BatchAssumption
  <1> QED
    BY <1>1, <1>2, <1>3, <1>4 DEF IInv

\* Every step keeps the type invariant.
LEMMA NextTypeOK == ASSUME TypeOK, [Next]_vars PROVE TypeOK'
  <1> USE DEF TypeOK, Phases
  <1>1. ASSUME NEW h \in Hosts, NEW m \in Msgs, CreateOrder(h, m) PROVE TypeOK'
    BY <1>1 DEF CreateOrder, hostVars, historyVars, faultVars
  <1>2. ASSUME NEW h \in Hosts, Start(h) PROVE TypeOK'
    BY <1>2 DEF Start, tableVars, historyVars, faultVars
  <1>3. ASSUME NEW h \in Hosts, Read(h) PROVE TypeOK'
    BY <1>3 DEF Read, Unprocessed, tableVars, faultVars
  <1>4. ASSUME NEW h \in Hosts, NEW m \in Msgs, Publish(h, m) PROVE TypeOK'
    BY <1>4 DEF Publish, tableVars, faultVars
  <1>5. ASSUME NEW h \in Hosts, NEW m \in Msgs, NEW written \in BOOLEAN, PublishFails(h, m, written)
        PROVE  TypeOK'
    BY <1>5, BatchAssumption DEF PublishFails, Skipped, tableVars, BatchAssumption
  <1>6. ASSUME NEW h \in Hosts, Save(h) PROVE TypeOK'
    BY <1>6 DEF Save, historyVars, faultVars
  <1>7. ASSUME NEW h \in Hosts, SaveConflicts(h) PROVE TypeOK'
    BY <1>7 DEF SaveConflicts, StopHost, Abandon, tableVars, faultVars
  <1>8. ASSUME NEW h \in Hosts, DatabaseError(h) PROVE TypeOK'
    BY <1>8, BatchAssumption DEF DatabaseError, StopHost, Abandon, tableVars, BatchAssumption
  <1>9. ASSUME NEW h \in Hosts, Crash(h) PROVE TypeOK'
    BY <1>9, BatchAssumption DEF Crash, Abandon, tableVars, BatchAssumption
  <1>10. CASE UNCHANGED vars
    BY <1>10 DEF vars, tableVars, hostVars, historyVars, faultVars
  <1> QED
    BY <1>1, <1>2, <1>3, <1>4, <1>5, <1>6, <1>7, <1>8, <1>9, <1>10 DEF Next, ProcessorStep

\* Every step keeps the two tables in agreement, and what hosts hold where it belongs.
LEMMA NextHolds ==
  ASSUME TypeOK, TablesAgree, HoldsFitPhase, [Next]_vars
  PROVE  TablesAgree' /\ HoldsFitPhase'
  <1> USE DEF TypeOK, TablesAgree, HoldsFitPhase, Held
  <1>1. ASSUME NEW h \in Hosts, NEW m \in Msgs, CreateOrder(h, m) PROVE TablesAgree' /\ HoldsFitPhase'
    BY <1>1 DEF CreateOrder, hostVars, historyVars
  <1>2. ASSUME NEW h \in Hosts, Start(h) PROVE TablesAgree' /\ HoldsFitPhase'
    BY <1>2 DEF Start, tableVars, historyVars
  <1>3. ASSUME NEW h \in Hosts, Read(h) PROVE TablesAgree' /\ HoldsFitPhase'
    BY <1>3 DEF Read, tableVars
  <1>4. ASSUME NEW h \in Hosts, NEW m \in Msgs, Publish(h, m) PROVE TablesAgree' /\ HoldsFitPhase'
    BY <1>4 DEF Publish, tableVars
  <1>5. ASSUME NEW h \in Hosts, NEW m \in Msgs, NEW written \in BOOLEAN, PublishFails(h, m, written)
        PROVE  TablesAgree' /\ HoldsFitPhase'
    BY <1>5 DEF PublishFails, Skipped, tableVars
  <1>6. ASSUME NEW h \in Hosts, Save(h) PROVE TablesAgree' /\ HoldsFitPhase'
    BY <1>6 DEF Save, Marked, historyVars
  <1>7. ASSUME NEW h \in Hosts, StopHost(h) PROVE TablesAgree' /\ HoldsFitPhase'
    BY <1>7 DEF StopHost, Abandon, tableVars
  <1>8. ASSUME NEW h \in Hosts, Crash(h) PROVE TablesAgree' /\ HoldsFitPhase'
    BY <1>8 DEF Crash, Abandon, tableVars
  <1>9. CASE UNCHANGED vars
    BY <1>9 DEF vars, tableVars, hostVars, historyVars
  <1> QED
    BY <1>1, <1>2, <1>3, <1>4, <1>5, <1>6, <1>7, <1>8, <1>9
       DEF Next, ProcessorStep, SaveConflicts, DatabaseError

\* What two hosts hold, or one holds and another has closed, was read while it was
\* held: only Read makes an overlap.
LEMMA NextShared ==
  ASSUME TypeOK, TablesAgree, HoldsFitPhase, OverlapsShared, [Next]_vars
  PROVE  OverlapsShared'
  <1> USE DEF TypeOK, TablesAgree, HoldsFitPhase, OverlapsShared, Held
  <1>1. ASSUME NEW h \in Hosts, NEW m \in Msgs, CreateOrder(h, m) PROVE OverlapsShared'
    BY <1>1 DEF CreateOrder, hostVars, historyVars
  <1>2. ASSUME NEW h \in Hosts, Start(h) PROVE OverlapsShared'
    BY <1>2 DEF Start, tableVars, historyVars
  <1>3. ASSUME NEW h \in Hosts, Read(h) PROVE OverlapsShared'
    <2>1. Held(h)' = Unprocessed /\ Unprocessed \intersect processed = {}
      BY <1>3 DEF Read, Unprocessed
    <2>2. \A g \in Hosts \ {h} : Held(g)' = Held(g) /\ Held(g) \intersect Unprocessed \subseteq shared'
      BY <1>3 DEF Read, Unprocessed
    <2>3. processed' = processed /\ shared \subseteq shared'
      BY <1>3 DEF Read, tableVars
    <2> QED
      BY <2>1, <2>2, <2>3 
  <1>4. ASSUME NEW h \in Hosts, NEW m \in Msgs, Publish(h, m) PROVE OverlapsShared'
    <2>1. \A g \in Hosts : Held(g)' = Held(g)
      BY <1>4 DEF Publish
    <2> QED
      BY <1>4, <2>1 DEF Publish, tableVars
  <1>5. ASSUME NEW h \in Hosts, NEW m \in Msgs, NEW written \in BOOLEAN, PublishFails(h, m, written)
        PROVE  OverlapsShared'
    <2>1. \A g \in Hosts : Held(g)' \subseteq Held(g)
      BY <1>5 DEF PublishFails, Skipped
    <2> QED
      BY <1>5, <2>1 DEF PublishFails, tableVars
  <1>6. ASSUME NEW h \in Hosts, Save(h) PROVE OverlapsShared'
    <2>1. Held(h)' = {} /\ processed' = processed \union Held(h) /\ shared' = shared
      BY <1>6 DEF Save, historyVars
    <2>2. \A g \in Hosts \ {h} : Held(g)' = Held(g)
      BY <1>6 DEF Save
    <2> QED
      BY <2>1, <2>2
  <1>7. ASSUME NEW h \in Hosts, Abandon(h) PROVE OverlapsShared'
    <2>1. \A g \in Hosts : Held(g)' \subseteq Held(g)
      BY <1>7 DEF Abandon
    <2> QED
      BY <1>7, <2>1 DEF Abandon, tableVars
  <1>8. CASE UNCHANGED vars
    BY <1>8 DEF vars, tableVars, hostVars, historyVars
  <1> QED
    BY <1>1, <1>2, <1>3, <1>4, <1>5, <1>6, <1>7, <1>8
       DEF Next, ProcessorStep, SaveConflicts, DatabaseError, StopHost, Crash

\* A payload that was written stays accounted for, and its row is closed only then.
LEMMA NextAccounted ==
  ASSUME TypeOK, HoldsFitPhase, PublishedAccounted, ClosedWasPublished, [Next]_vars
  PROVE  PublishedAccounted' /\ ClosedWasPublished'
  <1> DEFINE Tracked == UNION {tracked[h] : h \in Hosts}
  <1> USE DEF TypeOK, PublishedAccounted, ClosedWasPublished
  <1>1. ASSUME NEW h \in Hosts, NEW m \in Msgs, CreateOrder(h, m)
        PROVE  PublishedAccounted' /\ ClosedWasPublished'
    BY <1>1 DEF CreateOrder, hostVars, historyVars
  <1>2. ASSUME NEW h \in Hosts, Start(h) PROVE PublishedAccounted' /\ ClosedWasPublished'
    BY <1>2 DEF Start, tableVars, historyVars
  <1>3. ASSUME NEW h \in Hosts, Read(h) PROVE PublishedAccounted' /\ ClosedWasPublished'
    BY <1>3 DEF Read, tableVars
  <1>4. ASSUME NEW h \in Hosts, NEW m \in Msgs, Publish(h, m)
        PROVE  PublishedAccounted' /\ ClosedWasPublished'
    <2>1. \A g \in Hosts : tracked[g] \subseteq tracked'[g]
      BY <1>4 DEF Publish
    <2>2. m \in tracked'[h]
      BY <1>4 DEF Publish
    <2> QED
      BY <1>4, <2>1, <2>2 DEF Publish, tableVars
  <1>5. ASSUME NEW h \in Hosts, NEW m \in Msgs, NEW written \in BOOLEAN, PublishFails(h, m, written)
        PROVE  PublishedAccounted' /\ ClosedWasPublished'
    <2>1. tracked' = tracked
      BY <1>5 DEF PublishFails, Skipped
    <2> QED
      BY <1>5, <2>1 DEF PublishFails, tableVars
  <1>6. ASSUME NEW h \in Hosts, Save(h) PROVE PublishedAccounted' /\ ClosedWasPublished'
    <2>1. \A g \in Hosts : tracked[g] \subseteq tracked'[g] \union processed'
      BY <1>6 DEF Save
    <2>2. tracked[h] \subseteq published
      BY DEF HoldsFitPhase
    <2> QED
      BY <1>6, <2>1, <2>2 DEF Save, historyVars
  <1>7. ASSUME NEW h \in Hosts, Abandon(h) PROVE PublishedAccounted' /\ ClosedWasPublished'
    <2>1. \A g \in Hosts : tracked[g] \subseteq tracked'[g] \union abandoned'
      BY <1>7 DEF Abandon
    <2> QED
      BY <1>7, <2>1 DEF Abandon, tableVars
  <1>8. CASE UNCHANGED vars
    BY <1>8 DEF vars, tableVars, hostVars, historyVars
  <1> QED
    BY <1>1, <1>2, <1>3, <1>4, <1>5, <1>6, <1>7, <1>8
       DEF Next, ProcessorStep, SaveConflicts, DatabaseError, StopHost, Crash

\* A host that comes to a message somebody has written already has it from a read
\* that overlapped, or that somebody never saved it.
LEMMA RewriteExcused ==
  ASSUME TypeOK, HoldsFitPhase, OverlapsShared, PublishedAccounted,
         NEW h \in Hosts, NEW m \in todo[h], m \in published
  PROVE  m \in shared \union abandoned
  <1>1. CASE m \in processed
    BY <1>1 DEF OverlapsShared, Held
  <1>2. CASE m \in UNION {tracked[g] : g \in Hosts}
    <2>1. PICK g \in Hosts : m \in tracked[g]
      BY <1>2
    <2>2. g # h
      BY <2>1 DEF HoldsFitPhase
    <2> QED
      BY <2>1, <2>2 DEF OverlapsShared, Held
  <1> QED
    BY <1>1, <1>2 DEF PublishedAccounted

\* No step writes an event a second time without one of the reasons.
LEMMA NextDuplicates ==
  ASSUME TypeOK, HoldsFitPhase, OverlapsShared, PublishedAccounted, DuplicateHasReason, [Next]_vars
  PROVE  DuplicateHasReason'
  <1> USE DEF DuplicateHasReason
  <1>1. ASSUME NEW h \in Hosts, NEW m \in Msgs, CreateOrder(h, m) PROVE DuplicateHasReason'
    BY <1>1 DEF CreateOrder, historyVars
  <1>2. ASSUME NEW h \in Hosts, Start(h) PROVE DuplicateHasReason'
    BY <1>2 DEF Start, historyVars
  <1>3. ASSUME NEW h \in Hosts, Read(h) PROVE DuplicateHasReason'
    BY <1>3 DEF Read
  <1>4. ASSUME NEW h \in Hosts, NEW m \in Msgs, Publish(h, m) PROVE DuplicateHasReason'
    BY <1>4, RewriteExcused DEF Publish
  <1>5. ASSUME NEW h \in Hosts, NEW m \in Msgs, NEW written \in BOOLEAN, PublishFails(h, m, written)
        PROVE  DuplicateHasReason'
    BY <1>5, RewriteExcused DEF PublishFails
  <1>6. ASSUME NEW h \in Hosts, Save(h) PROVE DuplicateHasReason'
    BY <1>6 DEF Save, historyVars
  <1>7. ASSUME NEW h \in Hosts, Abandon(h) PROVE DuplicateHasReason'
    BY <1>7 DEF Abandon
  <1>8. CASE UNCHANGED vars
    BY <1>8 DEF vars, historyVars
  <1> QED
    BY <1>1, <1>2, <1>3, <1>4, <1>5, <1>6, <1>7, <1>8
       DEF Next, ProcessorStep, SaveConflicts, DatabaseError, StopHost, Crash

\* The witness of SurvivorFresh stays one until another host saves a batch, and then
\* that host is one.
LEMMA NextSurvivor ==
  ASSUME TypeOK, TablesAgree, HoldsFitPhase, SurvivorFresh, [Next]_vars
  PROVE  SurvivorFresh'
  <1> DEFINE Fresh(g) == pc[g] # "stopped" /\ Held(g) \intersect processed = {}
  <1> USE DEF TypeOK
  <1>1. CASE errors > 0
    BY <1>1 DEF SurvivorFresh, Next, ProcessorStep, CreateOrder, Start, Read, Publish, PublishFails, Save,
                SaveConflicts, DatabaseError, Crash, vars, faultVars
  <1>2. CASE \E g \in Hosts : Fresh(g)
    <2>0. PICK g \in Hosts : Fresh(g)
      BY <1>2
    <2> SUFFICES errors' > 0 \/ \E k \in Hosts : Fresh(k)'
      BY DEF SurvivorFresh
    <2> USE DEF Held
    <2>1. ASSUME NEW h \in Hosts, NEW m \in Msgs, CreateOrder(h, m) PROVE Fresh(g)'
      BY <2>0, <2>1 DEF CreateOrder, hostVars
    <2>2. ASSUME NEW h \in Hosts, Start(h) PROVE Fresh(g)'
      BY <2>0, <2>2 DEF Start, tableVars
    <2>3. ASSUME NEW h \in Hosts, Read(h) PROVE Fresh(g)'
      BY <2>0, <2>3 DEF Read, Unprocessed, TablesAgree, HoldsFitPhase, tableVars
    <2>4. ASSUME NEW h \in Hosts, NEW m \in Msgs, Publish(h, m) PROVE Fresh(g)'
      BY <2>0, <2>4 DEF Publish, tableVars
    <2>5. ASSUME NEW h \in Hosts, NEW m \in Msgs, NEW written \in BOOLEAN, PublishFails(h, m, written)
          PROVE  Fresh(g)'
      BY <2>0, <2>5 DEF PublishFails, Skipped, tableVars
    <2>6. ASSUME NEW h \in Hosts, Save(h) PROVE Fresh(h)'
      BY <2>6 DEF Save
    <2>7. ASSUME NEW h \in Hosts, SaveConflicts(h) PROVE Fresh(g)'
      <3>1. h # g
        BY <2>0, <2>7 DEF SaveConflicts, Conflicts
      <3> QED
        BY <2>0, <2>7, <3>1 DEF SaveConflicts, StopHost, Abandon, tableVars
    <2>8. ASSUME NEW h \in Hosts, DatabaseError(h) PROVE errors' > 0
      BY <2>8 DEF DatabaseError
    <2>9. ASSUME NEW h \in Hosts, Crash(h) PROVE Fresh(g)'
      BY <2>0, <2>9 DEF Crash, Abandon, tableVars
    <2>10. CASE UNCHANGED vars
      BY <2>0, <2>10 DEF vars, tableVars, hostVars
    <2> QED
      BY <2>1, <2>2, <2>3, <2>4, <2>5, <2>6, <2>7, <2>8, <2>9, <2>10 DEF Next, ProcessorStep
  <1> QED
    BY <1>1, <1>2 DEF SurvivorFresh

\* The inductive invariant of the processors and their tables holds in every
\* reachable state.
THEOREM BatchInvariant == Spec => []IInv
  <1>1. Init => IInv
    BY InitIInv
  <1>2. IInv /\ [Next]_vars => IInv'
    <2> SUFFICES ASSUME IInv, [Next]_vars PROVE IInv'
      OBVIOUS
    <2> USE DEF IInv
    <2>1. TypeOK' /\ TablesAgree' /\ HoldsFitPhase'
      BY NextTypeOK, NextHolds
    <2>2. OverlapsShared' /\ PublishedAccounted' /\ ClosedWasPublished'
      BY NextShared, NextAccounted
    <2>3. DuplicateHasReason' /\ SurvivorFresh'
      BY NextDuplicates, NextSurvivor
    <2> QED
      BY <2>1, <2>2, <2>3
  <1> QED
    BY <1>1, <1>2, PTL DEF Spec

\* No row is closed for an event that was not written, also when a publication of the
\* batch failed.
THEOREM NoEventSkipped == Spec => []ClosedWasPublished
  <1>1. IInv => ClosedWasPublished
    BY DEF IInv
  <1> QED
    BY <1>1, BatchInvariant, PTL

\* An event is written twice only after overlapping reads or a lost batch.
THEOREM DuplicatesAccounted == Spec => []DuplicateHasReason
  <1>1. IInv => DuplicateHasReason
    BY DEF IInv
  <1> QED
    BY <1>1, BatchInvariant, PTL

\* Duplicate keys never stop the last of any number of hosts.
THEOREM ConflictsSpareOne == Spec => []SurvivorLeft
  <1>1. IInv => SurvivorLeft
    BY DEF IInv, SurvivorFresh, SurvivorLeft
  <1> QED
    BY <1>1, BatchInvariant, PTL

=============================================================================
