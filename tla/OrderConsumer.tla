--------------------------- MODULE OrderConsumer ---------------------------
(***************************************************************************)
(* The consumer half of "OutBox Pattern with All": the broker queues that  *)
(* RabbitMqTopology declares, the RabbitMqConsumer of every process and    *)
(* the MessageProcessor it calls, with its table of processed messages.    *)
(*                                                                         *)
(* The broker is modelled by the fate of each published copy of a message: *)
(*   main  -- order.queue, where an unacknowledged copy goes back          *)
(*   held  -- delivered to one channel and not acknowledged                *)
(*   retry -- order.queue.retry, until the TTL sends it back to main       *)
(*   gone  -- acknowledged, hence deleted                                  *)
(* The order of a queue is not kept: requeueing and several consumers      *)
(* already deny the code any use of it.                                    *)
(*                                                                         *)
(* A channel that the client library replaces after a lost connection      *)
(* leaves its handler running with a delivery tag the new channel ignores; *)
(* such a handler is stale.                                                *)
(***************************************************************************)
EXTENDS Integers, FiniteSets

CONSTANTS
  Msgs,          \* MessageId of the events
  Copies,        \* publications that may reach the exchange
  MsgOf,         \* the event a copy carries
  Poison,        \* events whose ProductName is "FAIL"
  Consumers,     \* process incarnations, one channel each
  NoCopy,
  RetryLimit,    \* the 5 of OnMessageReceived
  MaxDrops       \* bound: connections lost

ASSUME ConsumerAssumption ==
  /\ MsgOf \in [Copies -> Msgs]
  /\ Poison \subseteq Msgs
  /\ NoCopy \notin Copies
  /\ RetryLimit \in Nat
  /\ MaxDrops \in Nat

VARIABLES
  place,       \* where each copy is
  deaths,      \* x-death[0].count of the copy
  unacked,     \* copies delivered to the channel and not acknowledged
  phase,       \* where the consumer's OnMessageReceived is
  current,     \* the copy its eventArgs hold
  seen,        \* GetRetryCount(eventArgs)
  stale,       \* consumers whose handler outlived its channel
  processed,   \* ProcessedMessages
  aged,        \* those of its rows that are older than 30 days
  dlq,         \* copies whose body was published to order.queue.dlq
  drops,
  done,        \* history: messages that ever had a ProcessedMessages row
  effects,     \* history: times the order was handled, up to 2
  disturbed    \* history: messages whose handling was cut off from its record, by a
               \* concurrent handler, a crash, a failed insert or the cleanup

brokerVars   == <<place, deaths, unacked, dlq, drops>>
handlerVars  == <<phase, current, seen, stale>>
tableVars    == <<processed, aged, done>>
consumerVars == <<brokerVars, handlerVars, tableVars, effects, disturbed>>

Places == {"none", "main", "held", "retry", "gone"}
Phases == {"New", "Ready", "Insert", "Ack", "Failed", "AckDead", "Dead"}
Up(k)   == phase[k] \notin {"New", "Dead"}
Busy(k) == phase[k] \in {"Insert", "Ack", "Failed", "AckDead"}

TypeOK ==
  /\ place     \in [Copies -> Places]
  /\ deaths    \in [Copies -> Nat]
  /\ unacked   \in [Consumers -> SUBSET Copies]
  /\ phase     \in [Consumers -> Phases]
  /\ current   \in [Consumers -> Copies \union {NoCopy}]
  /\ seen      \in [Consumers -> Nat]
  /\ stale     \subseteq Consumers
  /\ processed \subseteq Msgs
  /\ aged      \subseteq processed
  /\ dlq       \subseteq Copies
  /\ drops     \in 0..MaxDrops
  /\ done      \subseteq Msgs
  /\ effects   \in [Msgs -> 0..2]
  /\ disturbed \subseteq Msgs

Init ==
  /\ place     = [c \in Copies |-> "none"]
  /\ deaths    = [c \in Copies |-> 0]
  /\ unacked   = [k \in Consumers |-> {}]
  /\ phase     = [k \in Consumers |-> "New"]
  /\ current   = [k \in Consumers |-> NoCopy]
  /\ seen      = [k \in Consumers |-> 0]
  /\ stale     = {}
  /\ processed = {}
  /\ aged      = {}
  /\ dlq       = {}
  /\ drops     = 0
  /\ done      = {}
  /\ effects   = [m \in Msgs |-> 0]
  /\ disturbed = {}

-----------------------------------------------------------------------------
(* The broker *)

\* RoutingKey is bound to the main queue.
Arrive(c) ==
  /\ place[c] = "none"
  /\ place' = [place EXCEPT ![c] = "main"]
  /\ UNCHANGED <<deaths, unacked, dlq, drops, handlerVars, tableVars, effects, disturbed>>

\* BasicConsume without a prefetch limit.
Deliver(k, c) ==
  /\ Up(k)
  /\ place[c] = "main"
  /\ place'   = [place EXCEPT ![c] = "held"]
  /\ unacked' = [unacked EXCEPT ![k] = @ \union {c}]
  /\ UNCHANGED <<deaths, dlq, drops, handlerVars, tableVars, effects, disturbed>>

\* x-message-ttl of the retry queue: back to RoutingKey, one death more.
Expire(c) ==
  /\ place[c] = "retry"
  /\ place'  = [place EXCEPT ![c] = "main"]
  /\ deaths' = [deaths EXCEPT ![c] = @ + 1]
  /\ UNCHANGED <<unacked, dlq, drops, handlerVars, tableVars, effects, disturbed>>

\* The broker requeues what a closed channel had not acknowledged.
Requeue(k) ==
  /\ place'   = [c \in Copies |-> IF c \in unacked[k] THEN "main" ELSE place[c]]
  /\ unacked' = [unacked EXCEPT ![k] = {}]

\* The connection is lost and recovered; a running handler goes on.
ChannelDrop(k) ==
  /\ Up(k)
  /\ drops < MaxDrops
  /\ drops' = drops + 1
  /\ Requeue(k)
  /\ stale' = IF Busy(k) THEN stale \union {k} ELSE stale
  /\ UNCHANGED <<deaths, dlq, phase, current, seen, tableVars, effects, disturbed>>

-----------------------------------------------------------------------------
(* The handler *)

Start(k) ==
  /\ phase[k] = "New"
  /\ phase' = [phase EXCEPT ![k] = "Ready"]
  /\ UNCHANGED <<brokerVars, current, seen, stale, tableVars, effects, disturbed>>

OutcomeNoDedup(m) ==
  IF m \in Poison THEN "Failed" ELSE "Insert"

\* What ProcessAsync finds up to the ProcessedMessages lookup, and the phase it
\* leaves the handler in.
Outcome(m) ==
  IF m \in Poison THEN "Failed"
  ELSE IF m \in processed THEN "Ack"
  ELSE "Insert"

\* The count of the newest x-death entry, 0 without one: the rounds through the
\* retry queue that the broker wrote into the header of this delivery.
GetRetryCount(c) == deaths[c]

Begin(k, c, ph) ==
  /\ phase[k] = "Ready"
  /\ c \in unacked[k]
  /\ phase'   = [phase EXCEPT ![k] = ph]
  /\ current' = [current EXCEPT ![k] = c]
  /\ seen'    = [seen EXCEPT ![k] = GetRetryCount(c)]

Message(k) == MsgOf[current[k]]

\* Handlers between the handling of m and the insert that records it.
Recording(m) == {k \in Consumers : phase[k] = "Insert" /\ Message(k) = m}

\* The order is handled (written to the console) before its row is inserted.
Check(k, c) ==
  LET m == MsgOf[c] IN
  /\ Begin(k, c, Outcome(m))
  /\ IF Outcome(m) = "Insert"
     THEN /\ effects'   = [effects EXCEPT ![m] = IF @ < 2 THEN @ + 1 ELSE @]
          /\ disturbed' = IF Recording(m) = {} THEN disturbed ELSE disturbed \union {m}
     ELSE UNCHANGED <<effects, disturbed>>
  /\ UNCHANGED <<brokerVars, stale, tableVars>>

\* CreateDbContextAsync or AnyAsync throws.
CheckError(k, c) ==
  /\ Begin(k, c, "Failed")
  /\ UNCHANGED <<brokerVars, stale, tableVars, effects, disturbed>>

Store(m) ==
  /\ processed' = processed \union {m}
  /\ done'      = done \union {m}
  /\ UNCHANGED aged

Goto(k, ph) == phase' = [phase EXCEPT ![k] = ph]

\* SaveChangesAsync: MessageId is the primary key.
Insert(k) ==
  /\ phase[k] = "Insert"
  /\ Message(k) \notin processed
  /\ Store(Message(k))
  /\ Goto(k, "Ack")
  /\ UNCHANGED <<brokerVars, current, seen, stale, effects, disturbed>>

InsertConflict(k) ==
  /\ phase[k] = "Insert"
  /\ Message(k) \in processed
  /\ Goto(k, "Failed")
  /\ UNCHANGED <<brokerVars, current, seen, stale, tableVars, effects, disturbed>>

\* Any other exception of SaveChangesAsync; the row may have been committed.
InsertError(k) ==
  /\ phase[k] = "Insert"
  /\ Message(k) \notin processed
  /\ Store(Message(k)) \/ UNCHANGED tableVars
  /\ Goto(k, "Failed")
  /\ disturbed' = disturbed \union {Message(k)}
  /\ UNCHANGED <<brokerVars, current, seen, stale, effects>>

\* The handler returns (or throws to the client library, which logs).
EndHandler(k) ==
  /\ Goto(k, "Ready")
  /\ current' = [current EXCEPT ![k] = NoCopy]
  /\ seen'    = [seen EXCEPT ![k] = 0]
  /\ stale'   = stale \ {k}

\* The delivery leaves the channel for `to`.
SettleTo(k, to) ==
  /\ place'   = [place EXCEPT ![current[k]] = to]
  /\ unacked' = [unacked EXCEPT ![k] = @ \ {current[k]}]

AckingEarly(k)    == phase[k] \in {"Insert", "Ack", "AckDead"}
AckingNotDead(k)  == phase[k] = "Ack"

\* BasicAckAsync, after ProcessAsync or after the publication to the DLQ.
Acking(k) == phase[k] \in {"Ack", "AckDead"}

Ack(k) ==
  /\ Acking(k)
  /\ k \notin stale
  /\ SettleTo(k, "gone")
  /\ EndHandler(k)
  /\ UNCHANGED <<deaths, dlq, drops, tableVars, effects, disturbed>>

GivenUpEarly(k) == seen[k] + 1 >= RetryLimit

\* if (retryCount >= 5)
GivenUp(k) == seen[k] >= RetryLimit

\* BasicNackAsync without requeue: dead-lettered to RetryRoutingKey.
Nack(k) ==
  /\ phase[k] = "Failed"
  /\ ~GivenUp(k)
  /\ k \notin stale
  /\ SettleTo(k, "retry")
  /\ EndHandler(k)
  /\ UNCHANGED <<deaths, dlq, drops, tableVars, effects, disturbed>>

DeadLetterNowhere(k) == dlq

DeadLetterTo(k) == dlq \union {current[k]}

\* BasicPublishAsync with DeadLetterRoutingKey.  The ack follows it on the same
\* channel, so one cannot reach the broker without the other having.
DeadLetter(k) ==
  /\ phase[k] = "Failed"
  /\ GivenUp(k)
  /\ dlq' = DeadLetterTo(k)
  /\ Goto(k, "AckDead")
  /\ UNCHANGED <<place, deaths, unacked, drops, current, seen, stale, tableVars, effects,
                 disturbed>>

\* On a recovered channel ack and nack of an old tag do nothing ...
StaleTag(k) ==
  /\ k \in stale
  /\ Acking(k) \/ (phase[k] = "Failed" /\ ~GivenUp(k))
  /\ EndHandler(k)
  /\ UNCHANGED <<brokerVars, tableVars, effects, disturbed>>

\* ... and on a closed one every call throws: out of the try block into the
\* catch, out of the catch to the client library.
ClosedChannel(k) ==
  /\ k \in stale
  /\ \/ /\ phase[k] = "Ack"
        /\ Goto(k, "Failed")
        /\ UNCHANGED <<current, seen, stale>>
     \/ /\ phase[k] \in {"Failed", "AckDead"}
        /\ EndHandler(k)
  /\ UNCHANGED <<brokerVars, tableVars, effects, disturbed>>

\* The process dies, or StopAsync closes the channel and the process ends.
\* Bound: the last incarnation does not crash.
Crash(k) ==
  /\ Up(k)
  /\ \E j \in Consumers \ {k} : phase[j] # "Dead"
  /\ Requeue(k)
  /\ phase'   = [phase EXCEPT ![k] = "Dead"]
  /\ current' = [current EXCEPT ![k] = NoCopy]
  /\ seen'    = [seen EXCEPT ![k] = 0]
  /\ stale'   = stale \ {k}
  /\ disturbed' = IF phase[k] = "Insert" THEN disturbed \union {Message(k)} ELSE disturbed
  /\ UNCHANGED <<deaths, dlq, drops, tableVars, effects>>

-----------------------------------------------------------------------------
(* The cleanup service and time *)

AgeOut(m) ==
  /\ m \in processed \ aged
  /\ aged' = aged \union {m}
  /\ UNCHANGED <<brokerVars, handlerVars, processed, done, effects, disturbed>>

\* The second ExecuteDeleteAsync of CleanupAsync.
CleanProcessed(k) ==
  /\ Up(k)
  /\ aged # {}
  /\ processed' = processed \ aged
  /\ aged'      = {}
  /\ disturbed' = disturbed \union aged
  /\ UNCHANGED <<brokerVars, handlerVars, done, effects>>

-----------------------------------------------------------------------------

\* What a running consumer does of itself.
HandlerStep(k) ==
  \/ Start(k)
  \/ \E c \in Copies : Check(k, c)
  \/ Insert(k)
  \/ InsertConflict(k)
  \/ Ack(k)
  \/ Nack(k)
  \/ DeadLetter(k)
  \/ StaleTag(k)

\* What may happen to it.
HandlerFault(k) ==
  \/ \E c \in Copies : CheckError(k, c)
  \/ InsertError(k)
  \/ ClosedChannel(k)
  \/ ChannelDrop(k)
  \/ Crash(k)

Next ==
  \/ \E c \in Copies : Arrive(c) \/ Expire(c)
  \/ \E k \in Consumers :
       \/ \E c \in Copies : Deliver(k, c)
       \/ HandlerStep(k)
       \/ HandlerFault(k)
       \/ CleanProcessed(k)
  \/ \E m \in Msgs : AgeOut(m)

Spec == Init /\ [][Next]_consumerVars

\* The broker delivers what it holds and the TTL runs out; the client library
\* runs the handler; processes are restarted.
Fairness ==
  /\ \A k \in Consumers : WF_consumerVars(HandlerStep(k))
  /\ \A c \in Copies : /\ WF_consumerVars(Expire(c))
                       /\ WF_consumerVars(\E k \in Consumers : Deliver(k, c))

FairSpec == Spec /\ Fairness

-----------------------------------------------------------------------------
(* Properties *)

\* A copy leaves the broker only when its event was recorded as processed or its
\* body is in the dead letter queue, and for a "FAIL" order only the latter will
\* do: whatever crashes, drops, conflicts and stale handlers come between the
\* steps of OnMessageReceived.
NothingLost ==
  \A c \in Copies : place[c] = "gone" => c \in dlq \/ MsgOf[c] \in done \ Poison

\* A copy is held by one channel at a time, and a handler that could still settle
\* a delivery does settle one that its channel holds.
OneHolder ==
  /\ \A c \in Copies : \A j, k \in Consumers :
       c \in unacked[j] => place[c] = "held" /\ (c \in unacked[k] => j = k)
  /\ \A k \in Consumers : Busy(k) /\ k \notin stale => current[k] \in unacked[k]

\* The x-death header counts rounds: no copy enters the retry queue a sixth time.
RetriesBounded ==
  \A c \in Copies : deaths[c] <= RetryLimit /\ (place[c] = "retry" => deaths[c] < RetryLimit)

\* Dead-lettering is the last resort: also for a handler that outlived its
\* channel, and decides on the header it was given long ago.
DeadAfterRetries ==
  \A c \in dlq : deaths[c] = RetryLimit

\* An order is handled once, however often it is published and redelivered, unless
\* its handling was cut off from its record: two handlers overlapped between the
\* lookup and the insert of MessageProcessor, one died or failed there, or the
\* ProcessedMessages row was cleaned up.
HandledOnce == \A m \in Msgs : effects[m] > 1 => m \in disturbed

\* The broker ends up with every copy it accepted settled, none going round between
\* the queues and the handlers for ever.
EventuallySettled ==
  <>[](\A c \in Copies : place[c] \in {"none", "gone"})

-----------------------------------------------------------------------------
(* The inductive invariant behind the safety properties *)

\* A held copy is held by someone; a handler has a copy when it is busy, and can
\* only be stale then.
HoldersFit ==
  /\ \A c \in Copies : place[c] = "held" => \E k \in Consumers : c \in unacked[k]
  /\ \A k \in Consumers : /\ Busy(k) => current[k] \in Copies
                          /\ k \in stale => Busy(k)
                          /\ ~Up(k) => unacked[k] = {}

\* What a handler knows of the copy it works on is still true when it settles it.
HandlerKnows ==
  \A k \in Consumers :
    /\ phase[k] = "Insert"  => Message(k) \notin Poison
    /\ phase[k] = "Ack"     => Message(k) \in done
    /\ phase[k] = "AckDead" => current[k] \in dlq
    /\ Busy(k) => /\ seen[k] <= deaths[current[k]]
                  /\ k \notin stale => seen[k] = deaths[current[k]]

TablesFit == processed \subseteq done /\ done \intersect Poison = {}

\* An order that was handled, and not disturbed, is recorded or about to be.
HandlingAccounted ==
  \A m \in Msgs \ disturbed : effects[m] > 0 => m \in processed \/ Recording(m) # {}

\* The safety invariants and what they rest on: inductive.
IInv ==
  /\ TypeOK
  /\ OneHolder
  /\ HoldersFit
  /\ HandlerKnows
  /\ TablesFit
  /\ HandlingAccounted
  /\ NothingLost
  /\ RetriesBounded
  /\ DeadAfterRetries
  /\ HandledOnce

=============================================================================
