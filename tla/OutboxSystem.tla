---------------------------- MODULE OutboxSystem ----------------------------
(***************************************************************************)
(* "OutBox Pattern with All" as it runs: every process hosts the order     *)
(* endpoint, an OutboxProcessorService, a RabbitMqConsumer and a           *)
(* CleanupService, and owns one broker connection, which its publisher and *)
(* its consumer share (RabbitMqConnection is a singleton).                 *)
(*                                                                         *)
(* The copy that process p publishes of message m is <<m, p>>: a process   *)
(* publishes a message once (OutboxRelay!NoRepublish).                     *)
(***************************************************************************)
EXTENDS Integers, FiniteSets

CONSTANTS Msgs, Procs, Poison, Nobody, BatchSize, LockTimeout, Retention,
          MaxFailures, RetryLimit, MaxDrops

VARIABLES
  status, created, lockedBy, lockAge, doneAge, retryCount,
  pc, todo, successIds, failedIds, sent, lapsed,
  place, deaths, unacked, phase, current, seen, stale,
  processed, aged, dlq, drops, done, effects, disturbed,
  wire,       \* frames in the output buffer of their process's connection
  lost,       \* history: frames that never reached the broker
  cleaning    \* processes between the two deletes of CleanupAsync

Copies == Msgs \X Procs

MsgOf == [c \in Copies |-> c[1]]

ASSUME SystemAssumption ==
  /\ IsFiniteSet(Msgs) /\ Poison \subseteq Msgs
  /\ Nobody \notin Procs \union Copies
  /\ BatchSize \in Nat \ {0}
  /\ {LockTimeout, Retention, MaxFailures, RetryLimit, MaxDrops} \subseteq Nat

Relay    == INSTANCE OutboxRelay WITH Workers <- Procs, NoWorker <- Nobody
Consumer == INSTANCE OrderConsumer WITH Consumers <- Procs, NoCopy <- Nobody

relayVars    == <<status, created, lockedBy, lockAge, doneAge, retryCount,
                  pc, todo, successIds, failedIds, sent, lapsed>>
consumerVars == <<place, deaths, unacked, phase, current, seen, stale,
                  processed, aged, dlq, drops, done, effects, disturbed>>
systemVars   == <<relayVars, consumerVars, wire, lost, cleaning>>

Init == Relay!Init /\ Consumer!Init /\ wire = {} /\ lost = {} /\ cleaning = {}

Frames(p) == {c \in wire : c[2] = p}

-----------------------------------------------------------------------------
(* Steps of one side *)

CreateOrder(m) ==
  /\ Relay!CreateOrder(m)
  /\ UNCHANGED <<consumerVars, wire, lost, cleaning>>

Process(p) ==
  /\ \/ Relay!Acquire(p)
     \/ Relay!EndOfLoop(p)
     \/ Relay!BulkMarkProcessed(p)
     \/ Relay!BulkIncrementRetry(p)
  /\ UNCHANGED <<consumerVars, wire, lost, cleaning>>

PublishFail(p, m) ==
  /\ Relay!PublishFail(p, m)
  /\ UNCHANGED <<consumerVars, wire, lost, cleaning>>

Tick ==
  /\ Relay!Tick
  /\ UNCHANGED <<consumerVars, wire, lost, cleaning>>

Handle(p) ==
  /\ \/ \E c \in Copies : Consumer!Check(p, c)
     \/ Consumer!Insert(p)
     \/ Consumer!InsertConflict(p)
     \/ Consumer!Ack(p)
     \/ Consumer!Nack(p)
     \/ Consumer!DeadLetter(p)
     \/ Consumer!StaleTag(p)
  /\ UNCHANGED <<relayVars, wire, lost, cleaning>>

HandleFault(p) ==
  /\ \/ \E c \in Copies : Consumer!CheckError(p, c)
     \/ Consumer!InsertError(p)
     \/ Consumer!ClosedChannel(p)
  /\ UNCHANGED <<relayVars, wire, lost, cleaning>>

BrokerStep(c) ==
  /\ Consumer!Expire(c) \/ \E p \in Procs : Consumer!Deliver(p, c)
  /\ UNCHANGED <<relayVars, wire, lost, cleaning>>

AgeOut(m) ==
  /\ Consumer!AgeOut(m)
  /\ UNCHANGED <<relayVars, wire, lost, cleaning>>

-----------------------------------------------------------------------------
(* Steps of both *)

Start(p) ==
  /\ Relay!Start(p)
  /\ Consumer!Start(p)
  /\ UNCHANGED <<wire, lost, cleaning>>

BufferNothing(c) == wire' = wire

\* No publisher confirms: the call returns with the frame still in the buffer.
Buffer(c) == wire' = wire \union {c}

Publish(p, m) ==
  /\ Relay!PublishOk(p, m)
  /\ Buffer(<<m, p>>)
  /\ UNCHANGED <<consumerVars, lost, cleaning>>

Arrive(c) ==
  /\ c \in wire
  /\ wire' = wire \ {c}
  /\ Consumer!Arrive(c)
  /\ UNCHANGED <<relayVars, lost, cleaning>>

LoseFrames(p) ==
  /\ wire' = wire \ Frames(p)
  /\ lost' = lost \union Frames(p)

ConnectionDrop(p) ==
  /\ Consumer!ChannelDrop(p)
  /\ LoseFrames(p)
  /\ UNCHANGED <<relayVars, cleaning>>

Crash(p) ==
  /\ Relay!Crash(p)
  /\ Consumer!Crash(p)
  /\ LoseFrames(p)
  /\ cleaning' = cleaning \ {p}

\* CleanupAsync: outbox rows first, then ProcessedMessages.
CleanupOutbox(p) ==
  /\ Relay!Running(p)
  /\ p \notin cleaning
  /\ Relay!CleanOutbox(p) \/ (Relay!Expendable = {} /\ UNCHANGED relayVars)
  /\ cleaning' = cleaning \union {p}
  /\ UNCHANGED <<consumerVars, wire, lost>>

CleanupProcessed(p) ==
  /\ p \in cleaning
  /\ Consumer!CleanProcessed(p) \/ (aged = {} /\ UNCHANGED consumerVars)
  /\ cleaning' = cleaning \ {p}
  /\ UNCHANGED <<relayVars, wire, lost>>

-----------------------------------------------------------------------------

Next ==
  \/ \E m \in Msgs : CreateOrder(m) \/ AgeOut(m)
  \/ \E p \in Procs :
       \/ Start(p) \/ Process(p) \/ Handle(p) \/ HandleFault(p)
       \/ ConnectionDrop(p) \/ Crash(p)
       \/ CleanupOutbox(p) \/ CleanupProcessed(p)
       \/ \E m \in Msgs : Publish(p, m) \/ PublishFail(p, m)
  \/ \E c \in Copies : Arrive(c) \/ BrokerStep(c)
  \/ Tick

Spec == Init /\ [][Next]_systemVars

\* The fairness of the two halves, and of the socket.
Fairness ==
  /\ \A p \in Procs : /\ WF_systemVars(Start(p))
                      /\ WF_systemVars(Process(p))
                      /\ WF_systemVars(Handle(p))
                      /\ \A m \in Msgs : WF_systemVars(Publish(p, m))
  /\ \A c \in Copies : /\ WF_systemVars(Arrive(c))
                       /\ WF_systemVars(BrokerStep(c))
  /\ WF_systemVars(Tick)

FairSpec == Spec /\ Fairness

-----------------------------------------------------------------------------
(* Properties *)

\* The event of m still has, or has reached, a place where it is safe.
Accounted(m) ==
  \/ status[m] = "Pending"
  \/ \E p \in Procs : \/ <<m, p>> \in wire \union dlq
                      \/ place[<<m, p>>] \in {"main", "held", "retry"}
  \/ m \in done

\* The readme: "If application crashes: ... No event loss".
NoEventLoss == \A m \in Relay!Orders : Accounted(m)

\* What the code does ensure: an event is lost only with a frame that a lost
\* connection took after PublishAsync had returned for it.
LossOnlyOnTheWire ==
  \A m \in Relay!Orders : Accounted(m) \/ \E p \in Procs : <<m, p>> \in lost

\* The broker never sees an event of an order that was not committed, nor two
\* frames of one message from the same process.
OnlyCommittedPublished ==
  \A c \in Copies :
    /\ c \in wire \union lost \/ place[c] # "none" => c \in sent /\ MsgOf[c] \in Relay!Orders
    /\ c \in wire \union lost => place[c] = "none"

\* Without a fault the readme is right.
FaultFree == drops = 0 /\ \A p \in Procs : pc[p] # "Dead"

NoLossWithoutFault == FaultFree => NoEventLoss

\* Two copies of one event reach the broker only when a lease of the event ran out.
OneCopyUnlessLapsed ==
  \A m \in Msgs : \A p, q \in Procs :
    /\ place[<<m, p>>] # "none"
    /\ place[<<m, q>>] # "none"
    /\ m \notin lapsed
    => p = q

\* The system delivers events as EventDelivery promises.
Delivery == INSTANCE EventDelivery WITH
  accepted <- Relay!Orders,
  recorded <- done,
  dead     <- {MsgOf[c] : c \in dlq},
  vanished <- {MsgOf[c] : c \in lost}

DeliversEvents == Delivery!Spec

-----------------------------------------------------------------------------
(* What joins the invariants of the two halves: inductive beside them *)

\* A frame whose publication returned is on its way, lost, or known to the broker.
FramesAccounted == \A c \in sent : c \in wire \union lost \/ place[c] # "none"

\* Only a dead process or a dropped connection loses frames, for good.
LossHasFault ==
  /\ wire \intersect lost = {}
  /\ \A c \in lost : drops > 0 \/ pc[c[2]] = "Dead"

\* Also a stale handler works on a copy that the broker has seen.
HandledArrived == \A p \in Procs : Consumer!Busy(p) => place[current[p]] # "none"

IInv ==
  /\ wire \union lost \subseteq Copies
  /\ OnlyCommittedPublished
  /\ FramesAccounted
  /\ LossHasFault
  /\ HandledArrived

=============================================================================
