---------------------------- MODULE BatchOutbox ----------------------------
(***************************************************************************)
(* "Outbox Pattern": every host serves the order endpoint and runs an      *)
(* OutboxProcessor, all over one database.  A processor reads every        *)
(* unprocessed row, publishes one after the other (to its console), and    *)
(* saves the whole batch in one SaveChangesAsync: nothing keeps two        *)
(* processors from working on the same rows, but the primary key of        *)
(* ProcessedMessages fails the later one.  No one catches that exception:  *)
(* it leaves ExecuteAsync, and the host stops.                             *)
(***************************************************************************)
EXTENDS Naturals

CONSTANTS
  Msgs,         \* identifiers of outbox messages, one per order
  Hosts,        \* the processes
  MaxCrashes,   \* bound: crashes and restarts of hosts
  MaxErrors,    \* bound: errors of the database
  MaxFailures   \* bound: publications that fail

ASSUME BatchAssumption ==
  /\ Hosts # {}
  /\ MaxCrashes \in Nat /\ MaxErrors \in Nat /\ MaxFailures \in Nat

VARIABLES
  outbox,       \* rows of OutboxMessages
  isProcessed,  \* those with IsProcessed set
  processed,    \* rows of ProcessedMessages
  pc,           \* where the processor of each host is
  todo,         \* messages the foreach has yet to come to
  tracked,      \* messages whose changes wait in the DbContext
  published,    \* history: messages whose payload was written
  repeated,     \* history: those written more than once
  shared,       \* history: messages read while another host had them
  abandoned,    \* history: messages written by a host that did not save them
  crashes, errors, failures

tableVars   == <<outbox, isProcessed, processed>>
hostVars    == <<pc, todo, tracked>>
historyVars == <<published, repeated, shared, abandoned>>
faultVars   == <<crashes, errors, failures>>
vars == <<tableVars, hostVars, historyVars, faultVars>>

\* Off hosts are started again; one that stopped has exited like one that was asked to.
Phases == {"off", "idle", "working", "stopped"}

Up(h) == pc[h] \in {"idle", "working"}

Held(h) == todo[h] \union tracked[h]

Init ==
  /\ outbox = {} /\ isProcessed = {} /\ processed = {}
  /\ pc = [h \in Hosts |-> "off"]
  /\ todo = [h \in Hosts |-> {}] /\ tracked = [h \in Hosts |-> {}]
  /\ published = {} /\ repeated = {} /\ shared = {} /\ abandoned = {}
  /\ crashes = 0 /\ errors = 0 /\ failures = 0

-----------------------------------------------------------------------------
(* The order endpoint *)

\* Order and message are one transaction.  If its commit fails after all, the client
\* sees an error and the tables look as after one of the outcomes here.
CreateOrder(h, m) ==
  /\ Up(h) /\ m \notin outbox
  /\ outbox' = outbox \union {m}
  /\ UNCHANGED <<isProcessed, processed, hostVars, historyVars, faultVars>>

-----------------------------------------------------------------------------
(* The processor *)

Start(h) ==
  /\ pc[h] = "off"
  /\ pc' = [pc EXCEPT ![h] = "idle"]
  /\ UNCHANGED <<tableVars, todo, tracked, historyVars, faultVars>>

EveryRow == outbox

Unprocessed == outbox \ isProcessed

Read(h) ==
  /\ pc[h] = "idle"
  /\ pc' = [pc EXCEPT ![h] = "working"]
  /\ todo' = [todo EXCEPT ![h] = Unprocessed]
  /\ shared' = shared \union {m \in Unprocessed : \E g \in Hosts \ {h} : m \in Held(g)}
  /\ UNCHANGED <<tableVars, tracked, published, repeated, abandoned, faultVars>>

\* One round of the foreach.
Publish(h, m) ==
  /\ m \in todo[h]
  /\ todo' = [todo EXCEPT ![h] = @ \ {m}]
  /\ tracked' = [tracked EXCEPT ![h] = @ \union {m}]
  /\ published' = published \union {m}
  /\ repeated' = repeated \union ({m} \intersect published)
  /\ UNCHANGED <<tableVars, pc, shared, abandoned, faultVars>>

SkippedLate(h, m) == tracked[h] \union {m}

\* The changes of a message that cannot be published: none.
Skipped(h, m) == tracked[h]

\* The try block fails, before or after the payload was written.
PublishFails(h, m, written) ==
  /\ m \in todo[h] /\ failures < MaxFailures
  /\ todo' = [todo EXCEPT ![h] = @ \ {m}]
  /\ tracked' = [tracked EXCEPT ![h] = Skipped(h, m)]
  /\ published' = IF written THEN published \union {m} ELSE published
  /\ repeated'  = IF written THEN repeated \union ({m} \intersect published) ELSE repeated
  /\ abandoned' = IF written THEN abandoned \union {m} ELSE abandoned
  /\ failures' = failures + 1
  /\ UNCHANGED <<tableVars, pc, shared, crashes, errors>>

\* Some message of the batch already has its row.
Conflicts(h) == tracked[h] \intersect processed # {}

MarkedNone(h) == isProcessed

Marked(h) == isProcessed \union tracked[h]

\* SaveChangesAsync of the batch is one transaction.
Save(h) ==
  /\ pc[h] = "working" /\ todo[h] = {} /\ ~Conflicts(h)
  /\ processed' = processed \union tracked[h]
  /\ isProcessed' = Marked(h)
  /\ tracked' = [tracked EXCEPT ![h] = {}]
  /\ pc' = [pc EXCEPT ![h] = "idle"]
  /\ UNCHANGED <<outbox, todo, historyVars, faultVars>>

\* The context and the batch are gone, whatever was written.
Abandon(h) ==
  /\ todo' = [todo EXCEPT ![h] = {}]
  /\ tracked' = [tracked EXCEPT ![h] = {}]
  /\ abandoned' = abandoned \union tracked[h]
  /\ UNCHANGED <<tableVars, published, repeated, shared>>

\* An exception leaves ExecuteAsync.
StopHost(h) == pc' = [pc EXCEPT ![h] = "stopped"] /\ Abandon(h)

SaveConflicts(h) ==
  /\ pc[h] = "working" /\ todo[h] = {} /\ Conflicts(h)
  /\ StopHost(h)
  /\ UNCHANGED faultVars

\* The database fails a query or a batch.  (A batch it has saved although the call
\* failed is a Save before an error of the next query.)
DatabaseError(h) ==
  /\ pc[h] = "idle" \/ (pc[h] = "working" /\ todo[h] = {})
  /\ errors < MaxErrors
  /\ StopHost(h)
  /\ errors' = errors + 1
  /\ UNCHANGED <<crashes, failures>>

\* The host dies; also a shutdown, which waits for the end of a batch if it can.
Crash(h) ==
  /\ Up(h) /\ crashes < MaxCrashes
  /\ pc' = [pc EXCEPT ![h] = "off"]
  /\ Abandon(h)
  /\ crashes' = crashes + 1
  /\ UNCHANGED <<errors, failures>>

-----------------------------------------------------------------------------

ProcessorStep(h) ==
  \/ Start(h) \/ Read(h) \/ Save(h) \/ SaveConflicts(h)
  \/ \E m \in Msgs : Publish(h, m)

Next ==
  \E h \in Hosts :
    \/ ProcessorStep(h)
    \/ DatabaseError(h) \/ Crash(h)
    \/ \E m \in Msgs : CreateOrder(h, m) \/ \E written \in BOOLEAN : PublishFails(h, m, written)

Spec == Init /\ [][Next]_vars

\* The loop of a BackgroundService is scheduled, and the platform starts a host that
\* died, not one that exited of itself.
Fairness == \A h \in Hosts : WF_vars(ProcessorStep(h))

FairSpec == Spec /\ Fairness

-----------------------------------------------------------------------------
(* Properties *)

\* An event is closed only when its payload was written: not when its publication
\* failed, nor with another message's batch.
ClosedWasPublished == processed \subseteq published

\* An event is written twice only if two hosts had it in their batches at a time, or
\* one that had written it went down, or failed, before it was saved.
DuplicateHasReason == repeated \subseteq shared \union abandoned

\* The exception of a duplicate key stops one host after another, but never the last:
\* only if a database error stopped one can all hosts be gone.
SurvivorLeft == (\A h \in Hosts : pc[h] = "stopped") => errors > 0

\* A committed order's event is closed in the end although hosts that run into a
\* duplicate key are not started again.
EventuallyProcessed ==
  \A m \in Msgs : m \in outbox ~> m \in processed \/ (errors > 0 /\ \A h \in Hosts : pc[h] = "stopped")

-----------------------------------------------------------------------------
(* The inductive invariant *)

TypeOK ==
  /\ outbox \subseteq Msgs /\ published \subseteq Msgs
  /\ pc \in [Hosts -> Phases]
  /\ todo \in [Hosts -> SUBSET outbox] /\ tracked \in [Hosts -> SUBSET outbox]
  /\ processed \subseteq outbox
  /\ crashes \in 0..MaxCrashes /\ errors \in 0..MaxErrors /\ failures \in 0..MaxFailures

\* Both tables agree on what is done: a row that conflicts is one that is not read.
TablesAgree == isProcessed = processed

\* A host holds messages only while it works on them.
HoldsFitPhase ==
  \A h \in Hosts : /\ pc[h] # "working" => Held(h) = {}
                   /\ todo[h] \intersect tracked[h] = {}
                   /\ tracked[h] \subseteq published

\* What two hosts hold, or a host holds although another has closed it, is shared.
OverlapsShared ==
  \A h \in Hosts : /\ Held(h) \intersect processed \subseteq shared
                   /\ \A g \in Hosts \ {h} : Held(g) \intersect Held(h) \subseteq shared

\* A payload that was written is closed, about to be, or was abandoned.
PublishedAccounted ==
  published \subseteq processed \union abandoned \union UNION {tracked[h] : h \in Hosts}

\* Why a survivor is left: the host that saved last holds nothing that is closed.
SurvivorFresh ==
  errors > 0 \/ \E h \in Hosts : pc[h] # "stopped" /\ Held(h) \intersect processed = {}

IInv ==
  /\ TypeOK
  /\ TablesAgree
  /\ HoldsFitPhase
  /\ OverlapsShared
  /\ PublishedAccounted
  /\ SurvivorFresh
  /\ ClosedWasPublished
  /\ DuplicateHasReason

=============================================================================
