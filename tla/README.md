# Formal verification of All-in-One-Solutions

The repository is a collection of independent ASP.NET Core solutions, each built
around one technique (outbox, webhook idempotency, chunked upload, caching, form
validation, ...).  This directory holds TLA+ models of the solutions whose
correctness depends on the order in which several actors act, the TLC runs that
check them on small instances, and TLAPS proofs of the safety properties that
matter most.

* `<Component>.tla` -- the state and actions of a component, its properties, and the
  inductive invariant (`IInv`) behind its safety properties.
* `<Component>_proofs.tla` -- the theorems about it.
* `MC<Component>.tla`, `MC*.cfg` -- the instances TLC checks.
* `PROJECT.json` -- components, runs, mutants, the map from definitions to source
  lines, hazards, findings and theorems.

Operators next to a definition whose name says what is wrong with them
(`EligibleAnyStatus`, `AckingEarly`, ...) and no action uses are mutants: plausible mistakes in that
piece of code, each of which makes one of the properties fail.

## 1. Inventory

### OutBox Pattern with All (the core)

State: SQL Server tables `Orders`, `OutboxMessages` (Status, RetryCount, LockedBy,
LockedAt, CreatedAt, ProcessedAt), `ProcessedMessages`; three RabbitMQ queues (main,
retry with a TTL, dead letter); per process one broker connection and the local lists
of a batch.

| part | operations | correct when |
|---|---|---|
| `OrderController` | `Create`: order and outbox row in one transaction | an accepted order has its row |
| `OutboxProcessorService`, `OutboxMessageLeaseService`, `RabbitMqPublisher` | acquire a lease on a batch, publish each payload, bulk mark, bulk release | a row is closed only when published; two workers do not publish a row within a lease; every row is published |
| `RabbitMqTopology`, `RabbitMqConnection` | queues, bindings, dead-lettering, connection recovery | -- |
| `RabbitMqConsumer`, `MessageProcessor` | deduplicate, handle, record, acknowledge; nack into the retry queue; publish to the dead letter queue after five rounds | nothing leaves the broker unrecorded; retries are bounded; an order is handled once |
| `CleanupService` | delete processed outbox rows after 7 days, deduplication rows after 30 | nothing pending is deleted |

Every process runs all of them, so two processes already give two workers, two
consumers and two cleanups over the same tables and queues.  Hard: workers that
outlive their lease, crashes between any two awaits, frames lost after the publisher
returned, deliveries that outlive their channel, two handlers of one event.

### WebApp_Identity, in the browser

The only code of the repository that is not C# is the validation of the identity pages'
forms: `jquery.validate.unobtrusive.js`, which drives `jquery.validate.js` (both in
`wwwroot/lib`).

State: per form the parsed options, the rules of its validator, the names in
`submitted` and `invalid`, the table and the counter of pending remote requests,
`formSubmitted`; per field the `previousValue` of its remote rule; the message
containers.

| part | operations | correct when |
|---|---|---|
| adapters | `data-val-*` attributes to rules | a field's rules say what its attributes say |
| `parse`, `parseElement`, `attachValidation` | rules into the options, options into a validator | what is declared is enforced |
| `form`, `element`, `check` | verdicts, messages | a message that shows goes away when the field is corrected |
| `remote`, `startRequest`, `stopRequest` | requests and answers | an answer counts for the value it is about only; the counter is right |
| submit and reset handlers, `onReset` | refuse, wait, send, clear | only what was checked is sent; a waiting form is decided |

Hard: answers that arrive after the value changed, after a reset, or not at all;
submissions resumed by an answer; scripts that parse more fields later; adapters that
write the same rule.

### The other solutions

| solution | state | what is hard |
|---|---|---|
| FilesUploading | `Files`, `FileChunks`, chunk files | parallel chunk uploads over a stale `UploadedChunks`, merge against upload, retries |
| Web Hook | `WebhookEvents`, `ProcessedWebhooks`, `Payments`, Hangfire queue | concurrent deliveries of one event, crash between save and enqueue, job retries |
| Outbox Pattern | `OutboxMessages`, `ProcessedMessages`, `Orders`, the batch of each host | processors without leases over the same rows, one SaveChanges per batch, an exception that stops the host |
| JWT | `Users`, `RefreshTokens` | concurrent refreshes of one token |
| Redis | product table and cache | cache-aside fill racing an update |
| BloomFilterDemo | bit array, hash functions | 32 bit hash arithmetic |
| GlobalAnnotationUtils | rate limiters, timeouts | limits and windows |
| Web Socket, RealtimeProcessingAPI | a buffer, a loop counter | nothing: one echo loop per connection, one progress stream per request |
| Password Hasing, Pagination, Inbuild Caching, PostgresSQL CRUD, Task | tables, caches | little or none |
| MassTransit, EasyNetQ, RabbitMq.Producer/Consumer | -- | thin wrappers over libraries |
| Api Versioning, Delegates, Dependency Injection (both), GlobalException*, JWT.DTO, Messages, Sana, TOTP, the server side of WebApp_Identity | -- | no state of their own worth a model |

### Where the components meet

Inside a solution the components share SQL tables, a broker or a cache, and nothing
else; the interesting ones run several of their actors in every process.  The
solutions themselves do not interact: each has its own database and its own host, so
there is one model per solution and one composition, of the two halves of the
outbox.

## 2. The models

| module | solution | models |
|---|---|---|
| `OutboxRelay` | OutBox Pattern with All | order endpoint, lease, publication, bulk updates, cleanup of the outbox |
| `OrderConsumer` | OutBox Pattern with All | queues, handler, retries, deduplication table, its cleanup |
| `OutboxSystem` | OutBox Pattern with All | both halves in every process, over one broker connection each |
| `EventDelivery` | -- | abstract specification: what the outbox promises for an accepted order |
| `ChunkedUpload` | FilesUploading (V2) | chunk uploads and merges over the `Files` row, `FileChunks` and the chunk folder |
| `WebhookIntake` | Web Hook | reception, deduplication, Hangfire jobs, booking |
| `EventBooking` | -- | abstract specification: what the webhook solution promises for a delivery answered 200 |
| `ProductCache` | Redis | cache-aside reads against writes of the product table |
| `BatchOutbox` | Outbox Pattern | order creation, the processors of several hosts, batches, duplicate keys, stopped hosts |
| `UnobtrusiveAdapters` | WebApp_Identity | adapters, rules and their evaluation: operators only |
| `FormValidation` | WebApp_Identity | a form: parsing, user events, checks, remote requests, submission, reset; extends `UnobtrusiveAdapters` |

### OutboxRelay

A worker is an *incarnation* of a process: `WorkerConstants.WorkerId` is a Guid made
at start, so a restart is another member of `Workers`.  The columns of
`OutboxMessages` are functions of the message; `todo`, `successIds` and `failedIds`
are the local lists of `ProcessMessages`, and `pc` the await it is at.  `Acquire` is
the single `UPDATE ... WITH (UPDLOCK, READPAST)` of `AcquireMessagesAsync` with its
`TOP (BatchSize)` and `ORDER BY CreatedAt`; `PublishOk`/`PublishFail` are the two
ways out of the `try`; `BulkMarkProcessed` and `BulkIncrementRetry` are the two
transactions at the end.  A timestamp is only ever compared with now, so it is kept
as its age; `Tick` lets all ages grow and they saturate one past the limit they are
compared with, which loses no behaviour.

`sent` and `lapsed` are history: which worker published what, and which messages were
leased again after a lease ran out.  No guard reads them.

### OrderConsumer

The broker is the fate of each published copy (`main`, `held`, `retry`, `gone`), with
its `x-death` count.  `Begin`...`EndHandler` follow `OnMessageReceived`; `Check` is
`MessageProcessor` up to its insert, `Insert` the insert, `Ack`, `Nack` and
`DeadLetter` the ways the handler settles.  `ChannelDrop` requeues what the channel
held and leaves its handler *stale*: it runs on, but its delivery tag means nothing
any more (`StaleTag`) or its channel is closed (`ClosedChannel`).  A failed insert
may or may not have reached the table.  `effects` counts how often an order was
handled and `disturbed` says which orders had their handling cut off from its record.

### OutboxSystem and EventDelivery

`OutboxSystem` instantiates both halves with the processes as workers and consumers.
The copy that process `p` publishes of message `m` is `<<m, p>>`, which is sound
because of `OutboxRelay!NoRepublish`.  Between them lies `wire`: the channel has no
publisher confirms, so `BasicPublishAsync` returns while the frame is in the buffer of
the connection, and a lost connection or a crash takes the buffer with it.
`CleanupService` deletes from two tables one after the other.  `IInv` is what joins the
halves: every frame that left a publisher is on the wire, in the broker or lost
(`FramesAccounted`), a frame is lost only with a dropped connection or a crash
(`LossHasFault`), and whatever is handled has arrived (`HandledArrived`).

`EventDelivery` has no queues, leases or processes: an accepted event is recorded,
dead-lettered, or vanishes -- one of them eventually.  The refinement maps `accepted`
to the messages with a row, `recorded` to `done`, `dead` to the events in the dead
letter queue and `vanished` to those with a lost frame.  `EventDelivery!Safety` is its
specification without the liveness promise: what the proofs show of every instance,
where `system_orders` checks the whole of it on one.

### ChunkedUpload

Every request works on the copy of the `Files` row it read (`copy`), and writes all its
columns back.  An upload goes through `FindFile`, `CheckExists`, `CreateChunk`,
`WriteChunk`, `SaveChunk` -- one action per await after which another request may have
run -- and may fail or die at each (`AbortUpload`, `SaveCaught`).  A merge copies and
deletes chunk after chunk.  A chunk file is absent, partial or whole.  `First` is the
number the client gives its first chunk: the readme says 0, the loop of the merge
starts with 1.

### WebhookIntake

A delivery is a request of the provider that passed the signature check.  Its job has
its name.  Hangfire is external and modelled by what it promises: a job is executed at
least once, retried when it throws, requeued when its worker dies or is silent (while
the silent one may go on), and given up after `MaxAttempts`.  `Save` is the single
`SaveChangesAsync` that inserts the payment, marks the event and inserts the
`ProcessedWebhooks` row; `SaveFails` fails it with or without effect and goes to the
`catch`, which saves the same context again (`SaveAgain`).

`EventBooking` has no rows, requests, jobs or workers: a delivery is taken in, answered 200, and
its event is booked, once, or given up -- one of them eventually for what was answered.  The
refinement maps `taken` to the stored rows, `answered` to the requests that ended with 200, `ledger`
to the payments and `givenUp` to the failed jobs Hangfire reports.  A redelivery is answered without
being taken in only when its event is booked.

### ProductCache

A request is a few calls of two stores, each atomic: `Lookup`, `Query`, `Fill` for a
read, a commit and then `Remove` key by key for a write.  `Fail` is an exception, a
disconnected client or a dead process at any of those points.  `raced`, `suspect` and
`abandoned` are history: reads a commit has overtaken, keys filled from such a read, and
keys whose writer failed before removing them.

### BatchOutbox

A host is a process with its order endpoint and its `OutboxProcessor`.  `Read` is the query
for unprocessed rows, `Publish` one round of the `foreach` (the payload goes to the
console, the changes into the `DbContext`), `PublishFails` its `catch`, `Save` the one
`SaveChangesAsync` of the batch.  Nothing leases rows, so batches overlap; the primary key of
`ProcessedMessages` fails the later save (`SaveConflicts`), and since nothing catches
the exception it leaves `ExecuteAsync` and the host stops, with an exit like a requested
one.  `SurvivorLeft` is the surprising part: such exceptions never stop the last host,
because whoever saved last holds nothing that is closed.  `published`, `repeated`,
`shared` and `abandoned` are history.

### UnobtrusiveAdapters and FormValidation

`UnobtrusiveAdapters` translates a field's attributes into rules, adapter by adapter in
the order of their registration (`Parsing`, a recursive function over the positions of
that order), and evaluates rules the way `check` does: `required`
first, `remote` last, the first rule that fails -- or has no method, which throws --
decides.  A value is what the rules can tell apart (length, number, non-word characters,
the formats it is an instance of); a name is a model and a base, so that `*.` references
mean something.  `Obeys` says independently of rules what an attribute announces, and
`Enforced` when a field is owed that: it was parsed while every field it refers to was in
the page, and all its attributes have an adapter.  A confirmation that is parsed before the field it
repeats is inserted keeps an `equalTo` without argument, which `rules()` drops, and
so never confirms anything.

`FormValidation` has one action per handler, since JavaScript runs one at a time:
`Parse`, `ParseOne` and `Insert` (scripts), `Type`, `KeyUp`, `Blur`, `Submit`, `Reset`
(the user), `AnswerValid`, `AnswerInvalid` (`success` with `stopRequest`), `AnswerResumes`
(the `stopRequest` that submits a waiting form) and `Lose` (a request that ends without
`success`).  `SubmitUnchecked` is the submit event that nothing prevents: no validator yet, or a
check that throws out of its handler.  A handler's calls of `element` or `form` are part of its
action: the verdicts on the fields, `submitted`, `invalid`, the message containers, and the new
requests, each of which aborts the field's older one.

## 3. The runs

All runs are exhaustive; the instance is small but has the actors and the failures
that make the hazards of `PROJECT.json` happen.

| run | asks | instance | answer |
|---|---|---|---|
| `relay` | Is a row closed only when published, do leases keep workers apart, is every row published? | 2 rows, 2 incarnations, batches of 2, 1 failed publication per row | holds |
| `consumer_safety` | Does anything leave the broker unrecorded, are retries bounded, is an order handled once, is every copy settled? | an order published twice and a "FAIL" order, 2 consumers, limit 1, 1 lost connection | holds; handled twice only in the named windows |
| `system_safety` | Where can an event get lost end to end, and does the invariant that the proof rests on hold? | 2 processes, 1 message, 1 lost connection | only with a frame in the buffer |
| `system_orders` | Does the system implement `EventDelivery`, liveness included? | 2 processes, 1 message, 1 failed publication, crashes | holds |
| `system_readme` | "No event loss" after a crash? | 2 processes, 1 message | **violated** |
| `upload_safety` | What survives any overlap of uploads and merges? | 2 chunks, 3 uploads, 2 merges | holds |
| `upload_retry` | "Retry safe"? | 2 chunks, 3 uploads | **violated** |
| `upload_missing` | "Merge fails if any chunk is missing"? | 1 upload, 1 merge | **violated** |
| `webhook` | Is an event booked once, and is none dropped? Does the solution implement `EventBooking`, liveness included? | an event delivered twice and a malformed one, 2 workers, 2 attempts, 2 silent workers | holds |
| `product_cache` | When may the cache disagree with the table, and for how long? | 1 product and the list, 3 clients, 2 writes | holds |
| `batch_outbox` | Without leases, which duplicates are there, and does some host always remain? | 3 hosts, 2 orders, 1 crash, 1 database error, 1 failed publication | holds |
| `form_validation` | Is only sent what was checked, is each refusal and each breach explained, does anything get stuck? | 29 pages of up to 3 fields, 1 lost request | holds |

**Bounds.**  `MaxFailures` (failed publications per row), `MaxDrops` (lost connections),
`MaxSilences` (workers that die or stall), `MaxWrites` (write requests), `MaxCrashes`,
`MaxErrors` (crashes of hosts and errors of the database) and `MaxLosses` (requests that end
without an answer) cap what would
otherwise never end; incarnations, requests, copies and deliveries are finite sets for
the same reason.  They are enough for the interleavings the hazards name: two
incarnations suffice for a lease taken over from a slow or dead worker, and two rows in
a batch for a crash with part of it published; two copies of one order and two
consumers for overlapping handlers, duplicates after a cleanup and stale handlers; three
uploads of two chunks for a repeated chunk beside another one, and two merges for one
that destroys the other's file; two deliveries and two workers for every race for one
`ProcessedWebhooks` row, with two silences so that a job can be reclaimed twice; three
clients and two writes for a reader that is overtaken while another one refills; three
hosts for a chain of duplicate keys that stops two of them, with both orders in some
batches.  The pages of `form_validation` are one per adapter and parameter
combination, with values on both sides of each bound, and pages whose fields interact: two
remote fields, a remote field that sends its sibling, a confirmation next to a field of the
same base name, the same where a script inserts the field that is repeated, a field with rules that
a script inserts; one lost request leaves a field pending while
another is answered.  The
constants that are limits of the code are smaller in the runs: `RetryLimit` is 1
instead of 5 (0 in `system_orders`), timeouts and retention are 0 or 1 ticks.  The
theorems hold for all values, the bounds included.

In `system_orders` the retry limit is 0 and no connection is lost, so that the state
graph stays in reach of the liveness check: a failed handling is dead-lettered at once.
The retry queue and connections lost on the way are the subject of `system_safety`
and, for liveness, of `consumer_safety`.
`OutboxSystem`'s `View` leaves out the history variables that neither a guard nor a
property of those runs reads.  Symmetry is used in safety runs only, over sets whose
members the specification does not tell apart.

**Deadlock** is checked wherever time or clients can always act (`relay`, the system
runs, `product_cache`).  It is switched off where the model is a finite set of
inputs that may all have been dealt with -- copies (`OrderConsumer`), requests
(`ChunkedUpload`), deliveries (`WebhookIntake`) -- where all hosts may have stopped
(`BatchOutbox`), and where a form that is sent leaves its page (`FormValidation`).

**Fairness.**  A loop of a `BackgroundService`, a handler the client library has called
and a request ASP.NET has accepted are scheduled again and again: weak fairness of the
steps a worker, handler or request takes of itself.  The host restarts after a crash
(`Start`), time passes (`Tick`, `Expire`), RabbitMQ delivers what it holds and lets
TTLs run out, Redis expires keys, Hangfire promotes and reclaims jobs.  Strong fairness
is assumed once, for the fetch of a job by some worker: Hangfire's queue is first in,
first out, so a job is not passed over for ever although workers are busy in between.
A host of `BatchOutbox` that crashed is started again by its platform, one that exited of
itself is not.  In a browser only the answers of requests that are not lost are owed.
Nothing is owed by clients, users, failures, crashes and lost connections.

## 4. Findings

* `system_readme`: readme.md of the outbox promises "No event loss" when the application
  crashes.  A row is marked processed as soon as `BasicPublishAsync` returns, and the
  channel has no publisher confirms; a crash before the frame reaches the broker loses
  the event.  `LossOnlyOnTheWire` (run `system_safety`) shows that this is the only way.
* `upload_retry`: V2 is "retry safe", but a request that dies between creating the chunk
  file and saving its row leaves a file that makes every retry answer "Chunk already
  exists"; the chunk is never recorded.
* `upload_missing`: "Merge fails if any chunk is missing", but with a counter below
  `TotalChunks` the loop is skipped, the status set to Completed and success answered.

Also worth knowing, without a run of its own:

* V2 "supports parallel upload", but overlapping requests each write back the
  `UploadedChunks` they read: the counter loses increments (`CountBelowRows` shows that it
  only errs downwards), and the merge of a complete upload then skips its loop as above.
* The simple outbox serialises an order before the database has given it its number: every
  payload says 0.
* A form with `[MaxLength]`'s adapter and only a minimum (or the reverse), or with an adapter whose
  method lives in `additional-methods.js`, which `_ValidationScriptsPartial.cshtml` does not
  load, has a rule without a method: the check throws, and the browser sends the form
  unchecked.  A range with one bound is compared as text.  Both are exceptions that
  `BreachHasReason` names.

The readme's "Chunk index must start from 0" does not fit the merge, which counts from 1
to `TotalChunks`: an upload numbered from 0 loses its chunk files to the merge and is told
that a chunk is missing.  The safety run therefore numbers chunks from 1, which is how
an upload can succeed at all.

## 5. The proofs

TLAPS checks them from nothing but the named assumptions on the constants of each
module (`RelayAssumption`, `ConsumerAssumption`, `SystemAssumption`, `UploadAssumption`,
`WebhookAssumption`, `CacheAssumption`, `BatchAssumption`, `FormAssumption`,
`MethodsAssumption`): sentinels are not members of the sets they extend, limits are natural
numbers, there is a host, and where a cardinality matters a set is finite.
`FormAssumption` also says that markup is what tag helpers write (`WellFormed`: bounds are
whole numbers, a demand for non-word characters is for at least one, a confirmation
names a field), and `MethodsAssumption` that no method is called "undefined", the name
adapters use when they have none.

Every proof has the same shape.  `IInv` is the conjunction of the safety invariants and
of what they rest on; `Init => IInv`, and each part is preserved by every action (one
lemma per part or group of parts, one step per action); the theorem follows with PTL,
and the single properties from it.

| module | proved | why the invariant is stronger than the property |
|---|---|---|
| `OutboxRelay_proofs` | `RelayInvariant`, `TypeCorrect`, `NoOrderForgotten`, `PublishedOncePerProcess`, `LeaseExclusion`, `DuplicatesExplained`, `StaysClosed` | the lists of a worker are disjoint and empty in the phases that do not use them (`ListsFitPhase`); a publication is remembered by its worker, by a closed row or by a lease (`SentAccounted`): this is why a message leaves `todo` for good |
| `OrderConsumer_proofs` | `ConsumerInvariant`, `NoCopyLost`, `OneHolderEach`, `RetryDiscipline`, `NoEarlyDeadLetter`, `Idempotence` | what the handler learned stays true until it settles (`HandlerKnows`): the header it was given may be old for a stale handler, but never too high; an undisturbed order that was handled is recorded or one handler is about to record it |
| `OutboxSystem_proofs` | `ImplementsRelay`, `ImplementsConsumer`, `HalvesHold`, `SystemInvariant`, `PublishedWasCommitted`, `LossIsOnTheWire`, `LossNeedsFault`, `TwoCopiesNeedLapse`, `DeliversSafely` | neither half knows what happens between them: a frame is accounted for only together with the broker it goes to, and an order only together with the outbox it comes from |
| `ChunkedUpload_proofs` | `UploadInvariant`, `CountIsSafe`, `MergesOnlyComplete`, `ChunksKept`, `MergedIsWhole`, `MergedStays`, `StaysCompleted` | the copy of every request is bounded by the recorded rows (`CopiesBelowRows`), because a row and the increment are one transaction and rows are never removed; what a merge joined follows its loop (`MergeFits`) |
| `WebhookIntake_proofs` | `WebhookInvariant`, `BookedOnce`, `MarkedOnce`, `AcceptedIsCarried`, `SucceededIsBooked`, `BooksSafely` | a worker executes a job of a stored delivery, and a request without an answer has no job yet (`WorkersFit`) |
| `ProductCache_proofs` | `CacheInvariant`, `StaleIsAccounted`, `AgreementLasts` | a fill in flight equals the table unless a commit has overtaken it (`FillsFresh`); an id that IDENTITY has not reached has no entry and no fill (`NothingUnborn`), so a creation makes only the list stale |
| `BatchOutbox_proofs` | `BatchInvariant`, `NoEventSkipped`, `DuplicatesAccounted`, `ConflictsSpareOne` | that not all hosts have stopped is not inductive: some host that runs holds nothing that is closed (`SurvivorFresh`); the host that saves becomes that host.  Duplicates rest on where each written payload is now (`PublishedAccounted`) and on overlaps being read, never made (`OverlapsShared`) |
| `FormValidation_proofs` | `FormInvariant`, `NothingUncheckedSent`, `AttributesHeld`, `RefusalsJustified`, `CounterInStep`, `BlockedOnlyByLoss`, `MessagesLive` | an outstanding request is the one its `previousValue` is about, or a reset removed that (`PreviousFits`), so a late answer cannot be noted for another value; only fields with rules ask or show messages (`OnlyAttached`); a waiting form has met every rule, so that its resumed check does not throw (`WaitingCanCheck`); the rules of a field are those of its markup, parsed with some of the fields in the page (`RulesFit`) |

**Composition.**  `OutboxSystem_proofs` proves nothing about leases, statuses, acknowledgements
or retries again.  Each action of the system is shown to be an action of the relay and
one of the consumer, or to leave that half alone (`ImplementsRelay`, `ImplementsConsumer`), and the theorems of
`OutboxRelay_proofs` and `OrderConsumer_proofs`, instantiated with the system's
constants, then hold of its halves (`HalvesHold`).  What is left is `IInv`, three facts about
the wire.  From all of it follows `LossOnlyOnTheWire`, that a loss needs a crash or a lost connection
(`LossNeedsFault`), that a second copy of an event needs a lapsed lease
(`TwoCopiesNeedLapse`), and that every step is one of `EventDelivery` under the mapping
of `system_orders` (`DeliversSafely`), for any number of orders, processes, retries,
crashes and lost connections.

**From the markup to the submission.**  `AttributesHeld` and `RefusalsJustified` relate the attributes of a
field to what the form does with it, in both directions.  Per adapter, the rules it
writes are met only by values that obey the attribute, and broken only by values that do not
(`AdapterMeans`); an adapter replaces only rules of the names it writes
(`AdaptWrites`), so that after all adapters the rules are exactly those of the declared ones unless two
conflict (`ParsingWrites`, by induction over the order of registration); the verdict of
`check` is "error" only at a broken rule and passes only when all are met, wherever
`required` and `remote` are put (`LocalVerdicts`).  The rest is the invariant.
The induction theorems of the library take the property as an operator, which no
prover here instantiates; `SetInduction` states induction for a set of
naturals instead, and is proved from well-foundedness, as is that the recursive
function `Parsing` exists at all (`ParsingSteps`).

Two earlier formulations did not survive the attempt to prove them.  `BreachHasReason` used to
excuse a field only when its rules came too late; the confirmation parsed before its
field is a counterexample, on a page no run had, now `LateConfirmPage`.  And
a demand for zero non-word characters, which no tag helper writes, refuses
every value without any: `WellFormed` rules it out instead of `BreachHasReason`.

**Agreement of cache and table.**  `AgreementLasts` is what can be proved of `EventuallyFresh`: an
agreement, once reached, ends only with a commit (`OnlyCommitsStale`).  That the table does not change is not
enough, as a first formulation had it: an update that writes the old values overtakes a read in flight too,
and marks it.  That agreement is reached at all takes fairness.

Only model-checked, because it needs fairness: `EventuallySent`, `EventuallySettled`,
`EventuallyFresh`, `EventuallyProcessed`, `Decided`, and the liveness halves of
the refinements `DeliversEvents` and `BooksEvents` (their safety halves are `DeliversSafely`
and `BooksSafely`).  Every other property of
a passing run is a theorem.

## 6. Not modelled

* Payloads, serialisation, logging, HTTP status codes, configuration: no property
  depends on them.
* Signature check of the webhook: a predicate on one request.  Its bounded channel and
  `WebhookProcessorBackgroundService` are never fed in this build.
* The management endpoints and health checks of the outbox: they only read.
* SQL Server isolation below statement level, RabbitMQ's own replication, Redis
  persistence: a call of a store is atomic, and its failure may come before or after
  its effect.
* Differences between local time and UTC in `CleanupService` (`ProcessedAt` is
  local): hours against seven days; the model's retention is any number of ticks.
* Of form validation: hidden and ignored fields, groups, radio buttons, normalizers,
  `submitHandler`, `cancelSubmit` and debug mode, highlighting and the text of messages; rules
  from classes, HTML attributes and `data-rule-*`, which the pages of ASP.NET do not use next to
  `data-val-*`; what a check that throws did before the page leaves.
* Of the simple outbox: `MessagePublisher` and `RabbitMqConnectionManager`, which nothing
  calls; the five seconds between batches; rows that a query reads while a save commits
  (the query counts as before or after it).
* The solutions of the list below until they are reached, and those the inventory
  calls stateless.

## 7. Plan

Done, in this order: the relay with its proofs; the consumer with its proofs;
`EventDelivery` and `OutboxSystem`; `ChunkedUpload`; `WebhookIntake`; `ProductCache`;
`UnobtrusiveAdapters` and `FormValidation`; `BatchOutbox`; each with its runs, mutants
and theorems; the proofs of the composition and of the adapters; `EventBooking`.

Next, most important first:

1. `AppendUpload` (FilesUploading V1): append to one file and save as two steps, and the
   move of the finished file before the save.  Property: Completed only with all chunks
   in order.
2. An abstract specification of the cache (reads return a value the table has had), as a
   refinement.
3. `RateLimits` (GlobalAnnotationUtils): the configured windows against the limit they
   promise; pagination arithmetic and `BloomFilter` as pure algorithms over 32 bit
   integers (in modules only TLC uses, since they recurse).
4. `TokenRotation` (JWT): overlapping refreshes of one token.

A safety run and a liveness run of one module share a configuration wherever the state
space allows, so that each run answers a question of its own.
