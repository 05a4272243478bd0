# RWCT jobs: TLA+ models, checks and proofs

RWCT collects job adverts from RSS feeds, has a local LLM turn each of them into a
structured advert, and posts the result to a file or a Telegram chat. Four Go services
share one SQLite file and nothing else: its tables are the state, the queues and the
only means of communication. Every statement commits by itself, so the behaviour of the
system is that of four programs whose SQL statements interleave, fail and are cut short.
That is what these modules model.

## 1. Inventory

| Component | State | Operations | What makes it correct |
|---|---|---|---|
| `rss-reader` (`internal/rssreader`) | `rss_feeds`, `feed_state`, `feed_poll_requests`, `pending_items`; writes `rss_items`, `analyzer_queue` | tick, forced polls, seeding, bootstrap, cooldown, entry loop, retention sweep | every published entry is stored and queued, once; a disabled feed stays disabled; requests are served |
| `job-analyzer` (`internal/analyzer`) | its current claim; writes `analyzer_queue`, `rss_items`, `dispatch_queue` | claim, reuse of a stored result, attempts, quarantine, hand-over, completion | a finished job was handed over; a bad job is quarantined and no good result is lost |
| `message-dispatcher` (`internal/dispatcher`) | its current claim; writes `dispatch_queue`, `rss_items`; the destination | claim, duplicate check, delivery attempts, record, completion | a closed row was sent; nothing is sent twice without a reason |
| `web-admin` (`internal/webadmin`) | requests in service; writes all tables | requeue (raw, analyzed), item deletion, feed edits, force-poll; monitor and board (read only) | a requeue leads to a delivery; statuses stay backed by data; what the monitor, the board and the feed view show is true |
| startup of the services (`initDB`, `initStateDB`, `migrateRSSItemsColumns` of all four) | the schema of the shared file | create tables, add columns, create indexes | whoever starts first, a service that is up finds what its statements name |
| queue tables | `analyzer_queue`, `dispatch_queue` | upsert, claim with lease, complete, release, fail, delete, expiry | at most one live owner per row; nothing is stranded |
| `pkg/retry` | none | attempts with exponential waits | ends early at shutdown only |
| analysis of one item (in `internal/analyzer`) | its locals and deadlines | page excerpt, prompt, LLM request with fallbacks, reading of the answer, attempts with pauses | it ends within a known time; the fallbacks end; a quarantine has a reason |
| `pkg/events`, `pkg/telemetry`, `pkg/health`, `pkg/mqttx`, mains, stubs, sidecar, deployment | | data types, metrics, wiring | not modelled, see section 8 |

How they interact: `rss-reader` inserts an item (`NEW`) and queues it; `job-analyzer`
leases the job, stores the advert (`ANALYZED`) and queues it for dispatch;
`message-dispatcher` leases the row, sends it and records it (`DISPATCHED`); `web-admin`
forces rows of either queue back to `QUEUED` and resets items at any moment, whoever holds
the row. A process that dies keeps its leases until they expire; its successor has another
worker id (both ids contain the start time in nanoseconds). No module owns the schema:
each service creates and migrates the tables it needs when it starts, beside the others.

The hard parts, listed with their lines under `hazards` in `PROJECT.json`: two statements
that belong together and are not in a transaction (item and queue row in the reader;
queue row and `dispatched_at` in the requeue; send and record in the dispatcher); writers
that act on a claim they have lost; statements whose errors are ignored; a shutdown or
crash anywhere; leases that expire under a running worker; a head-of-queue item that
never gets through; a polling loop that races with edits of its feed list; reports put
together from statements that see the pipeline at different moments; and four startup
scripts that shape the same table.

## 2. Modules

| Module | Models | State and actions |
|---|---|---|
| `LeaseQueue` | the SQL on the two queue tables | operators from table to table: `Enqueue`, `IsNext`, `Claim`, `Complete`, `Release`, `Fail`, `DeleteRow`, `Expire`, `Orphan` |
| `Store` | the database, the destination, the budgets for faults | `items`, `analyzer_queue`, `dispatch_queue`, history `sent` and `cleared`; lease expiry, the half of a crash that all services share |
| `Analyzer` | `Run` and `handleClaimedMessage` of job-analyzer | `analyzer[w]` is where the handler of process `w` stands; one action per statement or call |
| `Dispatcher` | the same of message-dispatcher | `dispatcher[d]`, likewise |
| `Reader` | the entry loop of a poll, the retention sweep | `reader`, one process, with the history `abandoned`: the entries it had stored and not yet queued when it was killed |
| `WebAdmin` | `handleItemRequeue`, `handleItemDelete` | `admin[a]`, one per request in service |
| `Pipeline` | the composition, its fairness and its properties | `Next`, `Spec`, `FairSpec` |
| `DeliveryContract` | what the destination is promised: one courier | `sent`, `onRecord`, `carrying`; `Pipeline` implements it |
| `FeedPolling` | rss-reader's loop above `Reader`, the feed requests of web-admin | `poller` and the feed tables; reuses the actions of `Reader` |
| `Analysis` | `analyze` and what it calls: excerpt, LLM call, fallbacks, attempts, pauses, with their time | `analysis[w]`, the locals of one analysis; reuses the actions of `Analyzer` |
| `Monitor` | the lanes of the board, the feed view, the queue monitor and the metrics | `report`, one request in service, one action per SELECT; operators for the `CASE` columns; composed with all of `Pipeline` |
| `Schema` | the startup of the four services on one file | the tables, the columns of `rss_items`, its unique constraint; `at[s]` is the statement service `s` runs next; the scripts are sequences of statements |
| `MCPipeline`, `MCFeedPolling`, `MCSchema` | symmetry and values of constants for TLC | |
| `PipelineProofs`, `DeliveryProofs`, `RecordProofs`, `WorkProofs`, `MonitorProofs`, `PollProofs`, `AnalysisProofs`, `SchemaProofs` | the theorems | |

`Analyzer`, `Dispatcher`, `Reader` and `WebAdmin` extend `Store`, which extends
`LeaseQueue`; `Pipeline` extends the four. `FeedPolling` extends `Reader`: the pipeline
takes the reader as "an unseen entry may turn up at any time" and `FeedPolling` checks,
as `PollsAsReader`, that the real loop changes the tables by no other steps. `Analysis`
extends `Analyzer` and splits its steps `AnalyzeOk` and `AnalyzeFails` into what precedes
them; it ends every attempt with one of the two, so it changes the tables as they do.
`Monitor` extends `Pipeline`: its steps read the tables and leave them alone. `Schema`
stands by itself: it is what happens before the other modules' `Init`, and its
`ReadyFindsSchema` is what lets them take the tables and columns for granted.

Conventions. An action is one SQL statement together with the control flow up to the next
one, because that is the grain at which the services interleave. Where a statement can
fail, the action has a second disjunct with `Fault`, which spends one of `MaxFaults` and
takes the path the code takes on that error, ignored errors included. A definition whose
comment starts with "Slip" is not part of the model: it is the wrong version of the
definition below it that a mutant in `PROJECT.json` swaps in, to see that the property
notices.

What the columns became: a nullable column is the Boolean "is set" (`dispatched_at`,
`analyzed_payload_json`, the two enqueue stamps); `lease_until` is "has passed";
`enqueued_at` is the rank of the row in its table, since it is only ordered by;
`delivery_count` counts up to a cap just above the largest value a property tells apart;
`last_error` is "is not empty". Texts, hashes and payloads are left out.

What is not a step of its own:
* a statement that fails, changes nothing and leaves the process where it was (a failed
  claim, a failed insert of an entry, a failed read of a requeue) is a stuttering step;
* the branches for payloads that are not JSON: the services write every payload;
* writes that no decision reads (`analyzer_runtime`, counters, `updated_at`).

The reader in `Pipeline` has the default configuration. With
`RSS_BOOTSTRAP_MARK_EXISTING=true` (default false) entries enter `analyzer_queue` without
a row in `rss_items`; that path is in `FeedPolling` only.

## 3. Runs

Every run uses small numbers of interchangeable actors. "1/2" means one job-analyzer and
two message-dispatchers.

| Run | Instance | Properties |
|---|---|---|
| `worker_crashes` | 1 item, 2/2, two worker crashes | `NothingStranded`, `LeaseHolderAtWork`, `HandedOver`, `StatusBacked` |
| `troubles` | 1 item, 1/1, two attempts each, any two interferences: faults, crashes of any service, requeues (two may be in service at once), a removal | `TypeOK`, `HandedOver`, `DoneMeansSent`, `StatusBacked`, `DispatchedStays`, `SentAtMostOnce`, `DeliveryInv`, `DeliveriesAccounted`, `QuarantineLosesNothing`, `NothingStranded`, `ImplementsContract` |
| `liveness` | 2 items, 1/1, a worker crash, `FairSpec` | `EveryItemSettles` |
| `analysis` | 1 job, 1 worker, all 8 settings of extractor and JSON schema, two attempts, two deliveries, one fault or crash, `AnalysisFairSpec` | `AnalysisTypeOK`, `SpentInBudget`, `TextIsKept`, `QuarantineHasReason`, `EveryJobDecided` |
| `feed_polling` | 2 feeds sharing an entry, limit 1 per poll, any two events of: fault, restart, sweep, feed edit, force-poll | `PollTypeOK`, `QueuedOnce`, `PollsAsReader`, `StaysDisabled`, `EveryEntryStored`, `RequestsServed`, `RequestsPolled` |
| `monitor` | 1 item, 1/1, one interference of any kind, one report in service | `BoardHidesOnlyDelivered`, `FeedViewIsTrue`, `ReportMissesNothing` |
| `schema` | the four services, five databases, one failing statement, one restart | `SchemaInv`, `ReadyFindsSchema`, `OnlyAdminEndsAndOnlyFirst` |

What they say:

* `NothingStranded`: a stored item that no requeue has reset is dispatched or quarantined,
  or a queue holds it open, or the reader is just queueing it. Two things can leave an item
  behind, and the property names them: a failed statement, and a reader that dies with that
  very item between its two statements (`reader_restart`), which the history
  `reader.abandoned` records item by item; an item that a requeue has reset may be stranded
  as well (`requeue_lost`). Every other crash of any of the four services, alone or two
  after another, leases that expire, deletions and sweeps strand nothing: `troubles` has
  all of these and checks the item after each of them, `worker_crashes` adds the second
  worker of each kind.
  `LeaseHolderAtWork`: while no statement fails, the owner of a lease is working on that row.
* `HandedOver`: a job that is `DONE` without an error has a row in `dispatch_queue`.
  `DoneMeansSent`: a dispatch row that is `DONE`, and a `dispatched_at` that is set, mean
  that the destination got a message. Both under failing statements.
* `StatusBacked`: a status agrees with the columns it stands for. This and `HandedOver`
  are also checked in `worker_crashes`, where two analyzers take over each other's
  expired leases and the late one goes on with its statements. `DispatchedStays`: no
  late analyzer and, with one dispatcher, no second delivery attempt takes an item out of
  `DISPATCHED` (with two, a late failure does).
* `SentAtMostOnce`: with one dispatcher (FR-015 of the specification asks for one consumer
  per queue) and nothing removed, an item is sent once, plus once for each requeue that
  cleared `dispatched_at`, each crash and each fault. `ImplementsContract` says the same
  as a refinement: the destination cannot tell the pipeline from a courier that never
  takes out an item that is on record and records a delivery before the next one, unless
  the record is lost. `DeliveriesAccounted`: a job is delivered to the analyzer at most
  `ANALYZER_MAX_DELIVERY_ATTEMPTS` times, plus once per requeue, crash and fault.
* `EveryItemSettles`: every stored item is dispatched or quarantined in the end.
* `QuarantineLosesNothing`: with one analyzer, while no statement fails and nothing is
  removed, a quarantined job has no result and no row in `dispatch_queue`, however often
  it was queued again. Two analyzers can break it: the late one stores its result after
  the other gave up. So can a lookup that fails.
* `SpentInBudget`: from its claim to its end a job keeps a worker waiting at most
  `ClaimBudget`, a closed formula of the configuration: the limiter, each attempt with
  the excerpt and both calls, the doubling pauses. With the defaults of the mains that is
  about half an hour, while `ANALYZER_QUEUE_LEASE_DURATION` is two minutes; so with more
  than one job-analyzer a lease that is outlived is normal, and `Pipeline` lets leases
  expire under a running worker. `TextIsKept`: in hybrid mode the text of the page
  survives a failure of the sidecar. `QuarantineHasReason`: only the threshold or the
  error of the last attempt quarantines. `EveryJobDecided`: with no assumption on the LLM
  every job is handed over or quarantined in the end.
* `QueuedOnce`: two feeds, forced and periodic polls and restarts queue an entry once. The
  bootstrap, which has marks of its own, adds one time, and one for each restart or failed
  statement that loses a mark. One of these is the second statement of
  `enqueueAnalyzerJob` (`BootStamp`): when it fails, the entry is queued, but it is not
  counted and not put in `pending_items`, so the next feed that has it queues it again. For
  that to happen the second feed, when web-admin has added it, comes first in the order of
  the URLs and publishes nothing but the shared entry; TLC finds the bound without the
  term for faults violated there. A sweep that only deletes marks is a step as well.
  `EveryEntryStored`: the entries behind the limit per poll, and those of a feed that was
  down, are reached in the end. `StaysDisabled`: the seeding at every tick does not
  enable a disabled feed. `RequestsServed`: force-poll requests leave the table.
  `RequestsPolled`: a request is followed by a forced poll of its feed, whatever the
  cooldown, unless it was made during one. The shared entry has one guid and URL and a
  title per feed, so that the three levels of `isDuplicate` differ in the bootstrap.
* `BoardHidesOnlyDelivered`: an item that is on no lane of the board was delivered and is
  on record; what a race, a crash or a failed statement strands is on "anomalies" or
  "failed". `FeedViewIsTrue`: the queue state that the feed view derives from status and
  stamps agrees with the queues, while no statement fails and nothing is removed: what is
  shown as handed over has its rows and its payload, and with one analyzer what is shown
  as queued or as analyzed is still open in that queue. `ReportMissesNothing`: the queue
  monitor and the metrics read their counts one by one in the direction the items move, so
  with one analyzer an item that moves on meanwhile is counted at least once. With two
  analyzers, one of which has lost its lease, TLC finds an item that the late one marks
  `ANALYZED` when the other has closed its job already: the status then runs ahead of, or
  falls behind, the queues, and the feed view and the counts take it at its word. Those
  parts of the two properties say `OneAnalyzer`; `docker-compose.yml` starts one unless
  `job-analyzer`, which has no container name, is scaled.
* `SchemaInv`: what a startup statement has done stays done, whatever the other services
  and their restarts do. `ReadyFindsSchema`: a service that is up has every table and
  column that its statements name, and rss-reader the unique constraint of its
  `ON CONFLICT(item_hash)`, unless it ignored the error of that very index.
  `OnlyAdminEndsAndOnlyFirst`: without a failing statement only web-admin can end at its
  start, on an `rss_items` of an older version, while no other service has come up.

Bounds, and why they are enough to be interesting:

* `MaxFaults`, `MaxCrashes`, `MaxRemovals`, `MaxRequeues`, `MaxEdits`, `MaxRequests` bound
  how often the environment interferes, not where. Two interferences are what it takes to
  hit a handler and then the handler that repairs the first hit. `MaxEvents` bounds their
  sum in `feed_polling`.
* One item suffices for the properties that speak of one item: the queues couple items
  only by their order, which `liveness` and `blocked_queue` exercise with two.
* `MaxDeliveryAttempts` is 1 in most runs: the threshold is then met at the first delivery
  and passed at the second; retries and crashes before it are reached just the same.
* `RawCountCap` is above the largest bound that a property of the run compares with;
  `DispatchCountCap` is 0, as nothing reads that counter.
* In `analysis` a request, a fetch or a wait lasts any time from nothing to what it is
  allowed. `Lengths` bounds the texts of a page: none, one just below `SourceMinChars`, the
  longest. The sizes and timeouts are scaled down so that some calls meet `LLMTimeoutMax`
  and others do not. `MaxTrouble` bounds faults and crashes together. In the runs of
  `Pipeline` it bounds the sum of faults, crashes, removals and requeues: each has its own
  maximum, and any two of them may meet.
* `Schema` starts from a new file, from an `rss_items` with only the columns that no
  migration of rss-reader adds, from one that lacks what web-admin indexes, from one that
  lacks a column nobody indexes, and from a complete one. The `ALTER` lists of the code
  say that such older tables exist. With one failing statement and one restart a service
  can fail anywhere and come back; the proofs cover any number of both.
* `CHECK_DEADLOCK FALSE`: when every item has settled and the budgets are spent, the
  pipeline rests; rss-reader ends when it finds no feed at its start; the startup ends.

## 4. Fairness

`FairSpec` assumes of the code: a worker loop with work keeps running (`WF` of
`AnalyzerActs`, `DispatcherActs`: both are endless loops that poll), a reader or request
that has begun goes on (`WF` of `ReaderWork`, `AdminWork`), and time passes (`WF` of the
two lease expiries). Of the outside it assumes that an item the destination can accept at
all is accepted when it is sent again and again (`SF` of `DeliverOk` per item): this is the
weakest assumption under which a delivery can be promised, and it is not made for items in
`Undeliverable`, nor for the LLM, whose failures end in a quarantine. New entries,
requeues, deletions, faults and crashes are never forced to happen.

`AnalysisFairSpec`: the worker loop runs and leases expire (`WF`). Requests end because
each of them has a deadline in the code, not by assumption.

`PollFairSpec`: the loop of rss-reader runs (`WF`), Go's `select` picks among ready cases
at random and so takes each of them again and again (`SF` of `Tick` and
`ProcessForcedPolls`), cooldowns end (`WF`), a feed that is asked again and again answers
(`SF` of `FetchOk`).

## 5. Where code and documents disagree

Each of these runs ends in a counterexample; `findings` in `PROJECT.json` quotes the lines.

| Run | What happens |
|---|---|
| `requeue_lost` | the dispatcher claims a requeued row before the requeue clears `dispatched_at`, skips it as a duplicate and closes it; then the item is reset to `ANALYZED` with no open row, and is never delivered |
| `reader_restart` | rss-reader stops between storing an entry and queueing it; the entry counts as seen for ever and never enters `analyzer_queue` |
| `late_stamp` | the workers overtake `markRawEnqueued`, which turns `DISPATCHED` back into `NEW` |
| `blocked_queue` | a message that the destination always rejects keeps its place at the head of `dispatch_queue`; the ones behind it are never delivered |
| `bootstrap_republishes` | the first poll publishes the entries that the bootstrap marked as processed: the mark is in a table the polls do not read |

Seen while modelling, without a run of their own: `specs/001-rwct-rss-telegram/spec.md`
wants no second message after a restart, but the send precedes its record, and a crash of
message-dispatcher in between sends again (the term `crashes` in `SentAtMostOnce`); a
comment in `analyze` says that the compact fallback allows more tokens, which holds for
`LLM_MAX_TOKENS` below 1024 only, as `fallbackTokens` is capped there; both handlers mark an item `FAILED`
after every failed attempt and go on, so `FAILED` is left without a requeue, against the
status diagram in `docs/lifecycle-state-machines.md`; the poison threshold is only looked
at after an error, so a job that kills the process is delivered without bound (the term
`crashes` in `DeliveriesAccounted`); a force-poll request made while its feed is being
polled is deleted with the older one; a configured feed that was removed comes back at the
next tick.

And from the later modules: FR-005 (`specs/001-rwct-rss-telegram/spec.md:72`) and
`docs/features-by-component.md:7` want duplicates found by guid, URL and title, but the
polls only compare the hash of the three together, so an entry with a known guid and a new
title is published again (`isDuplicate` with its three levels is used by the bootstrap
only). On an older database web-admin cannot be the first service to start, as it indexes
columns before it adds them; the single migration entry point of FR-031 is a backlog item
(`docs/features-by-component.md:98`). The late stamp of `late_stamp` also hides an item
from the monitor: a quarantined or dispatched item that is `NEW` again is in none of its
counts, while the board shows it under "anomalies". The lane "failed" is sorted by
`updated_at`, not by the order in which rows are claimed.

## 6. Proofs

Those of `MonitorProofs` are about `MonitorSpec`, those of `PollProofs`, `AnalysisProofs`
and `SchemaProofs` about the specifications named below, all others about `Spec` of
`Pipeline`, for every value of the constants that satisfies the named assumptions
(`ItemsAssumption`, `OwnersAssumption`, `WorkersAssumption`, `BudgetAssumption`,
`AnalyzerAssumption`, `DispatcherAssumption`, `AdminAssumption`, `TroubleAssumption`): any
finite set of items, any number of processes, requests, faults, crashes, removals and
attempts.

* `PipelineProofs!TypeCorrect`: `TypeOK`, with `Busy` (a worker that is not idle has an
  item). The lemmas say what each operator of `LeaseQueue` returns; there is one lemma per
  service.
* `DeliveryProofs!DeliveryInvariant`: `DeliveryInv`, which is inductive together with
  `TypeOK` and `Busy`. `SentAtMostOnce` alone is not: from a state in which a dispatcher
  is about to send an item whose `dispatched_at` is already set it would be broken.
  `DeliveryInv` adds that such a state is unreachable with one dispatcher
  (`UnsentInDelivery`), that a record always finds its row while nothing is removed
  (`HeldIsPresent`), and that a message that is not covered by a requeue, a crash or a
  fault is on record or about to be (`Accounted`). Most steps touch neither `sent` nor
  `dispatched_at`: `QuietStep` deals with them at once, and the lemmas for the services
  only have to show that their steps are quiet, or account for the message, the lost
  record, the reset or the removal.
* `DeliveryProofs!NoDuplicates`: `SentAtMostOnce` follows.
* `RecordProofs`: what the tables record is true, for any number of analyzers and
  dispatchers. None of the three properties is inductive, because the statement that
  makes a record comes later than what it records; each strengthening carries the fact
  through the steps between, and holds on the instance of `troubles`.
  * `RecordsAreTrue` (`DoneMeansSent`) from `SentBacked`: a status `DISPATCHED`, which the
    duplicate check trusts, and a dispatcher at `delivered` or `complete` imply a message.
  * `HandedOverAlways` (`HandedOver`) from `QueuedBacked`: an analyzer at `stamp` or
    `complete` that still owns its row has queued the item for dispatch. The owner is what
    matters: once the lease was taken over, the late analyzer's `completeClaim` has no
    effect. Only the deletion of an item takes a row out of `dispatch_queue`, and unless a
    statement fails it takes the job's row too.
  * `StatusIsBacked` (`StatusBacked`) from `ResultBacked`: whatever is at or behind the
    hand-over (a dispatch row, a dispatcher, an analyzer after its record, a requeue for
    dispatch) has a payload. It needs `HeldIsPresent` of `DeliveryInv`: the analyzer's
    record finds its row, and a new entry is not on its way already.
* `WorkProofs` asks who works on what. Its first lemmas reduce each service's thirteen or
  fewer actions to three shapes (a worker takes a job, goes on with the one it has, or ends
  it), and say what a lease expiry and a crash leave alone; the five proofs then argue
  about the shapes.
  * `LeasesAreWorked` (`LeaseHolderAtWork`) from `WorkInv`, which adds that only leased
    rows have an owner and that an idle worker holds no item: a worker that takes a job
    owns no other row then.
  * `NothingIsStranded` (`NothingStranded`) from `SafeInv`. The dangerous steps close a row,
    so `SafeInv` adds that whoever is about to is not the last to hold the item: when an
    analyzer that owns its job has handed it on, the item is dispatched or its dispatch row
    open; when a dispatcher that owns its row is about to complete it, the item is settled,
    or its job is open and not about to be closed too. A crash takes no row away and the
    hands of a worker hold nothing that its row does not; only the reader holds an item
    that no queue has yet, and its crash makes that item `abandoned`.
  * `DispatchedItemsStay` (`DispatchedStays`): each `UPDATE` of `status` is taken in turn.
    The guard in `markFailed` and `markAnalyzed` keeps the analyzers out; a dispatcher only
    marks an item it is still sending, which `UnsentInDelivery` says is not dispatched, and
    `ResultBacked` that a status `DISPATCHED` comes with `dispatched_at`.
  * `QuarantineIsHarmless` (`QuarantineLosesNothing`) from `QuarantineInv`: an analyzer that
    has no answer yet works on an item without a result, because the lookup sent it on when
    there was one and nobody else stores results; and its row is not closed meanwhile.
  * `DeliveriesAreAccounted` (`DeliveriesAccounted`) from `LoadInv`. The count alone is not
    inductive: a row that is there for the taking will be counted once more, and so will
    one that a request or the reader is about to queue. `Load` adds those to the count, and
    `LoadInv` keeps it within what is allowed, strictly while the owner is about to give
    the row back. A claim moves a unit of the load into the count; a release needs the
    threshold not to be reached; a crash, a fault or a requeue adds one on both sides.
* `DeliveryProofs!Refinement`: with one dispatcher, `Spec => ImplementsContract`. The
  courier's `onRecord` is the set of items with a `dispatched_at`, `carrying` the item a
  dispatcher has sent and not recorded. Each step is mapped to a courier's step or to a
  stuttering step; the invariant gives the guard of `Send`.

* `MonitorProofs` is about `MonitorSpec`. A step of `Monitor` is one of `Pipeline`, or it
  spends a fault and leaves the tables alone, so the invariants above hold there too:
  `PipeInv` is their conjunction.
  * `BoardIsComplete` (`BoardHidesOnlyDelivered`): what is on no lane has the status
    `DISPATCHED`, and `ResultBacked` and `SentBacked` say the rest.
  * `FeedViewIsRight` (`FeedViewIsTrue`) from `ViewInv`. A stamp is written after the row it
    stands for, and a row is closed before or after its status changes; so `ViewInv` also
    speaks of the processes between two statements: who is at or behind the hand-over
    implies the row (`InWork`, `Forwarded`), a dispatcher about to close its row implies
    `dispatched_at` (`Ended`), a job is completed only after its stamp. With one analyzer it
    adds that an `ANALYZED` item has no `dispatched_at`, and that its job is open until it
    is stamped.
  * `ReportIsComplete` (`ReportMissesNothing`) from `ReportInv`: when the report has run
    some of its queries, every item that nothing set back is counted, or it is `Ahead`, in
    a lane that the remaining queries read. `LaneStep` is the heart of it: a row that
    closes leaves its item in a later lane. `RawMoves` and `DispatchMoves` say who can close
    a row and that the same statement changes nothing else, and `ViewInv` and
    `QuarantineInv` say what is on record then.

* `PollProofs` is about `PollSpec`, for every finite set of feeds, every document and
  configuration that satisfy `FeedAssumption`, any limit per poll and any number of faults,
  restarts, edits and force-poll requests.
  * `PollsAreTyped` (`PollTypeOK`) with `ReaderAtEntry` (a reader that is queueing an entry
    has one in hand) and `LoopShape` (whether the loop is in a poll, and of which feeds).
  * `LoopImplementsReader` (`PollsAsReader`): each step of the loop is one of `Reader`, a
    crash, or leaves the shared tables alone. It is the theorem behind the composition of
    `Pipeline` from `Reader`.
  * `DisabledFeedsStay` (`StaysDisabled`): every step that writes `rss_feeds` is either
    the seeding, which leaves a row that is there as it is, or a request.
  * `EntriesQueuedOnce` (`QueuedOnce`) from `Counted`. The count alone is not inductive: an
    entry that the reader has stored and is about to queue will be counted. `Counted`
    bounds what is queued or about to be by the row that is in `rss_items`, the sweeps, and
    with the bootstrap the starts, the failed statements and the mark of this process; each
    insert needs the row, or the mark, to be missing and puts it there. The mark counts from
    the bootstrap's first statement on; when a later one fails it is lost, at the price of
    that fault (`QueuesNothing`).

* `AnalysisProofs` is about `AnalysisSpec`, for every value of the constants that satisfies
  `AnalysisAssumption`: any timeouts, sizes, lengths of pages, numbers of attempts and
  deliveries, jobs and processes, faults and crashes. One invariant, `AllSound`, says of
  every process where its analysis can be for where its handler is (`InPlace`), what it
  still knows of the page (`KeepsText`), what the last error was (`LastError`) and how late
  it can be (`InTime`); one lemma per step shows that it is kept.
  * `ClaimsInBudget` (`SpentInBudget`): `Begun(t)` is the latest time at which attempt `t`
    begins, a closed formula with the doubling pauses in it. The prover knows nothing of
    powers, so the lemmas get `2^n` from the number of subsets of `1..n`.
  * `PageTextIsKept` (`TextIsKept`) and `AnalysisIsTyped` (`AnalysisTypeOK`) from the same
    invariant, and `QuarantinesHaveReason` (`QuarantineHasReason`) with the fact that no
    step, of whatever process, lowers a `delivery_count`.

* `SchemaProofs` is about `SchemaSpec`, for any databases that satisfy
  `DatabasesAssumption` and any number of faults and restarts. `SchemaInvariant`:
  `SchemaInv` is inductive as it stands: tables, columns and the constraint only grow, a
  script only moves on when its statement has had its effect, and the one statement that
  could take something back, a `CREATE TABLE` without the constraint, makes the table
  only when there is none. `ReadyIsSafe` follows, as each script covers what its
  service uses; `OnlyAdminEnds` needs the same invariant: a column that web-admin misses
  is one the first script did not make and nobody has migrated yet.

Only model-checked: the liveness properties (`EveryItemSettles`, `EveryEntryStored`,
`RequestsServed`, `RequestsPolled`, `EveryJobDecided`), which are out of the prover's
reach. Every safety and action property that a passing run checks is proved.

## 7. Plan

In the order of what matters; the first eight are done.

1. `LeaseQueue`, `Store`, the four services, `Pipeline`: the runs above.
2. `DeliveryContract` and the refinement, checked and proved.
3. Type correctness and the delivery invariant, proved.
4. `FeedPolling` over `Reader`, with the promise to force-poll requests.
5. `Analysis` over `Analyzer`.
6. `Monitor` over `Pipeline`.
7. `Schema`, checked and proved.
8. Proofs of every safety and action property of the modules above.
9. Pure functions against reference definitions over bounded inputs: the waits of
   `retry.Exponential` with 64-bit overflow, quality score and rank, confidence.

## 8. Not modelled

* The text of feeds, prompts, answers and messages, and the functions that only rewrite
  text; the HTML page; metrics and traces. No property is about them.
* Of the read-only queries of web-admin: the order and limits of the lanes, the counts
  per minute and of stuck items, the ratio points, the runtime list and the overview of
  the feeds. They are clock arithmetic over columns no decision reads.
* In `Schema`: the plain indexes, and the tables that the migration creates a second
  time. A statement of the batch commits by itself.
* In `Analysis`: the rewriting of an answer that is an advert (confidence, categories, tags,
  quality rank): it changes no state and no decision reads it; planned as pure functions.
* SQLite itself: a statement is atomic and durable, and an error (such as a lock that is
  not granted in 5 s) changes nothing.
* `handleProcessedReceipt` of rss-reader and `storeAnalyzed` of web-admin, which nothing
  calls, and `pkg/mqttx`, which no service uses any more.
* More than one rss-reader or web-admin: `docker-compose.yml` names their containers.
