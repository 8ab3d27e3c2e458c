# Hubchat: models, checks and proofs

Hubchat is one Go binary (`cmd/hubchat`) over PostgreSQL. Several processes may
run at once; they share nothing but the database and tell each other that
something is new with `LISTEN`/`NOTIFY`. What is hard in it is therefore not in
any one request handler but between them: transactions that commit in some
order, signals that are lost, processes that die between two statements, leases
that run out, sockets that come back. This directory models those parts in
TLA+, checks them with TLC on small instances and proves with TLAPS what matters most
about them: the event log and its consumers, the job queue and webhook deliveries,
the realtime hub, conversations with their customers and the idempotency ledger around
them, and the SLA timers and their schedule.

- [Inventory](#inventory)
- [Modules and how they correspond to the code](#modules)
- [Runs and bounds](#runs-and-bounds)
- [Fairness](#fairness)
- [Where documentation and code disagree](#disagreements)
- [Proofs](#proofs)
- [Only model-checked, not modelled](#limits)
- [Plan](#plan)

## Inventory

How the parts interact: a service (conversations, tickets, ...) changes its rows
and calls `events.Append` in the same transaction. The commit makes the event
row readable and sends a `NOTIFY`. In every process a `Listener` turns the
notification into a signal for (a) the realtime hub, which reads the log and
pushes events to browsers, and (b) five durable consumers (webhook, automation,
notification, emailchannel, sla), which read the log behind a checkpoint. The
consumers' effects are rows and jobs; worker goroutines drain the job queue,
and one kind of job posts webhook deliveries.

| Component | State | Operations | What is hard | What makes it correct |
|---|---|---|---|---|
| Event log `internal/events/events.go` | `workspace_event_sequences`, `workspace_events` | Append, Since, LatestSequence | sequences are allocated in transactions that commit or roll back in any order | sequence order is commit order, no gaps, so a cursor never passes an event that is still to come |
| Event consumers `internal/events/consumer.go`, `listener.go` | `event_consumer_cursors`, session advisory locks, signals in memory | Consume, reconcile, drainConsumer | lost signals, lost sessions, crashes between handler and checkpoint, competing processes, failing handlers | the checkpoint never covers an unhandled event and never moves back; every event is handled at last |
| Workspace import `internal/portability` | `import_requests`, its progress, every table | claim, ImportChunk, baseline, fail | runs beside live traffic and the consumers, several transactions | imported history is not run, live events are not hidden, sequences stay free |
| Job queue `internal/jobs` | `jobs`, `job_attempts` | EnqueueTx, claim, run, finish, reclaim, Cancel, Retry, Prune, EnsureScheduled | crashed workers, leases that expire under live ones, retries, the dedupe index | one worker per job while leases hold, one live row per key, bounded attempts, every job ends |
| Webhook delivery `internal/webhook/service.go` | `webhook_endpoints`, `webhook_deliveries`, a job per delivery | DispatchRecord, EnqueueAction, Replay, Test, Deliver, recordFailure, RetentionSweep, Update | five statements and a POST with a crash possible between any two; two retry counters | no needless resend, settled stays settled, no delivery without a job |
| Realtime hub `internal/realtime` | clients, one cursor per workspace, per client: position, syncing, deferred events, bounded queue | Serve, drain, deliver, send, resume, unregister | the drain, every connection's goroutine and the network interleave at every lock | what the drain passed was given; `resumed` tells the truth; one signal suffices |
| Browser sockets `web/shared/src/lib/realtime.ts`, `web/widget/src/lib/socket.ts` | last sequence | open, receive, reconnect, resume | frames of a new socket overtake the replay | the position never covers what the page has not seen |
| Conversations `internal/conversation` | `conversations` (state, sequence), `messages`, `conversation_status_history` | Start, PostMessage, SetState, Snooze, WakeSnoozed, Merge, BulkUpdate (state or assignee), SetAssignee/Team/Inbox/Priority | several row locks per transaction beside the event counter's; wakes told after their commit; merges under posts | sequences stay; the last event tells the state; which transactions can deadlock is known |
| Tickets `internal/ticket` | `tickets` | SetCustomer (to another or to none), SetAssignee, ... | locks its row before the customer's, merges lock the other way round | as above |
| Customers `internal/customer/merge.go` | `customers`, `customer_id` of the cases, `identity_merge_history` | Merge, ReverseMerge (30 days) | lists kept for the reversal go stale; the record is read outside the transaction | a case is with the customer it was given to, or with whom that one was merged into |
| Idempotency keys `internal/api/idempotency.go` | `idempotency_keys` | claim, replay, conflict, complete, release | four statements with a crash or a failure possible between any two; concurrent retries; a commit whose answer is lost | an answered request is there once; a claim is settled by its attempt |
| Recurring schedule `cmd/hubchat/main.go`, `jobs.EnsureScheduled` | a job row per tick | priming, handlers that enqueue their successor | crash between "enqueue the next" and "finish this one"; several schedulers; cancels and retries | one live chain per schedule, and it goes on |
| SLA timers `internal/sla` | `sla_instances` | EnsureConversation, MessageReceived, SetSubjectState (consumer); Evaluate (tick); the calendar | a lagging consumer that reads today's state; ticks that overlap, repeat and work from an old list | each announcement once, no breach before its time, paused exactly in pause states, due timers settle |
| The other services, the HTTP API, the web applications | rows of their own tables | one transaction per operation | nothing beyond the transaction and the event it appends | see `PROJECT.json` |

Every component, the ones that are not modelled included, is in `PROJECT.json`
under `components` with the reason; `hazards` there lists, at its line, what can
go wrong that a test would hardly reach, with the properties that catch it.

<a name="modules"></a>
## Modules and how they correspond to the code

| Module | Models | Notes on the correspondence |
|---|---|---|
| `CommittedLog` | what readers may rely on | per workspace one growing sequence in which the n-th event has sequence n; abstract specification, no code structure |
| `EventLog` | `events.go` | a transaction's uncommitted upsert of the counter row is `work`/`txNext`, its inserted rows `pending`; `Lockable` is the row lock the upsert takes; `Commit` publishes counter, rows and signal at once, `Rollback` undoes all three; `ReadPage` and `Attach` are readers of `Since` and `LatestSequence` |
| `EventConsumer` | `consumer.go`, and the steps of `RunImport` that touch log and checkpoints | one consumer name; a process (`pc`) is the goroutine in `Consume`; `lock` is the advisory lock and belongs to a session (`alive`); `order` is `updated_at`; a commit picks the set of processes its signal reaches |
| `JobQueue` | `jobs.go`, `worker.go` | a job id is one row; `Claim`, `HandlerEnds`, `Finish` are the three steps of a worker with crashes possible between them; time is abstract (`due`, `lease`) |
| `WebhookDelivery` | `webhook/service.go`, over `JobQueue` | extends the queue: every queue action is either taken as it is (`QueueStep`) or refined by a step of `Deliver`; each SQL statement is a step |
| `RealtimeHub` | `realtime/*.go`, both browser sockets | every critical section and every query is a step; one workspace; topics and grants appear as the set of sequences a browser wants |
| `Customer` | `customer/merge.go` and what else gives a case to a customer | effects at commit only; `merges` is `identity_merge_history`, a record's `cases` the ids in its snapshot; `given` and `entangled` are history |
| `Conversation` | `conversation/*.go`, `ticket/actions.go`, the transactions of `customer/merge.go` | a session is a database session, `tx`/`todo`/`held` its open transaction, the rows it has still to lock in the code's order, and its locks; the event counter, the routing team and the share lock of a foreign key (negative id) are rows like others, except that the share `tell`'s history row takes of its conversation goes with locks that leave the key alone (`Together`); a row's last lock and the commit are one step |
| `Idempotency` | `api/idempotency.go` around the two handlers that write messages | `Claim`/`Conflict` is the INSERT, `Read...` the SELECT, `Handler...` the service's transaction, `Complete`/`Release` the last statement; `orphans` and `slips` are history |
| `BusinessHours` | `sla/business_hours.go` | pure functions on minutes, day by day like the code's loop |
| `Schedule` | `jobs.EnsureScheduled` and the shape of the ten recurring handlers of `cmd/hubchat/main.go` | the queue reduced to claim, outcome and loss; a row's key names the tick that enqueued it |
| `Sla` | `sla/runtime.go`, over `BusinessHours` and `Schedule` | one conversation; the consumer works through `queue` with event times, a tick through its `batch` with the time it started at |
| `EventLog_proofs`, `EventConsumer_proofs`, `JobQueue_proofs`, `WebhookDelivery_proofs`, `RealtimeHub_proofs`, `Idempotency_proofs`, `Conversation_proofs`, `Sla_proofs` | | theorems, see [Proofs](#proofs) |
| `MC...` | | values of the constants for TLC |

`EventLog` is the foundation: `LogImplementsCommittedLog` shows that the log
behaves like `CommittedLog`, by the refinement mapping `INSTANCE CommittedLog WITH
published <- log` (what is published is what is committed), and the two readers'
modules use exactly that.
`EventConsumer.CommitEvent` adds the next sequence in one step and
`RealtimeHub` reduces the log to its `head`. `WebhookDelivery` really is a
composition: its `Claim`, `HandlerEnds`, `Finish`, ... are the queue's. So is
`Idempotency`, which puts the middleware around `Conversation`'s transactions, which
in turn end with `Customer`'s effects; and `Sla`, which puts the evaluation into
`Schedule`'s ticks.

Operators whose comment starts with `Mutant:` are not part of the models. Each
is the definition after it with a plausible bug, and `PROJECT.json` says which
property of which run catches it.

## Runs and bounds

| Run | Instance | Shows |
|---|---|---|
| `event_log` | 3 transactions, 2 workspaces, 1 reader, 4 sequences, 2 events per transaction, pages of 2 | types; `NoEventBehindCursor`; `SignalsMatchLog`; the refinement `ImplementsCommittedLog`; `EventuallyRead` |
| `consumer` | 2 processes, 1 workspace, 1 crash or lost session, 2 imports of 2 events, pages of 2, 2 pages per drain, 4 sequences | `CheckpointCoversHandled`, `CheckpointMonotone`, `ImportedNeverHandled`, `AppendNeverCollides`, `EventuallyHandled` |
| `consumer_starve` | 1 process, 2 workspaces, one of them poisoned, 1 workspace per reconcile | `EventuallyHandled` is violated |
| `consumer_skip` | 1 process, 1 workspace with live traffic, 1 import | `CheckpointCoversHandled` is violated |
| `job_queue` | 2 jobs, 2 workers, 1 dedupe key, 2 attempts, 1 crash or failed write, 1 overrun, 1 admin retry | `ExclusiveRun`, `OneLivePerKey`, `TerminalStays`, `AttemptsWithinBudget`, `EventuallyFinal` |
| `webhook` | 1 delivery, 2 workers, 2 attempts, 2 lost workers, 2 failing statements, 1 admin retry, 2 endpoint updates | `NoNeedlessResend`, `NoneStranded`, `SettledStays`, `EventuallySettled` |
| `webhook_stranded` | 1 delivery, 1 failing statement | `PendingRetryable` is violated |
| `realtime` | a dashboard that resumes from 1 of 2 events, a quiet widget, 1 more event, 1 failing query, pages of 1, queues of 1, replays of at most 2 | `DrainedMeansGiven`, `ResumedMeansComplete`, `SignalsConverge` |
| `realtime_gap` | a dashboard and a widget that connect once each, 1 new event, no fault | `NothingPassedOver` is violated |
| `realtime_reconnect` | 1 widget that holds position 1 of 2, 1 new event, no fault | `ReconnectLosesNothing` is violated |
| `conversation` | 2 sessions, 2 conversations and a third to start, 1 ticket, 3 customers (the ticket may lose its own), 3 keys of which one is used for two bodies, 1 fault, 4 workloads of 3 or 4 operations | `ExactlyOnce`, `NumbersStay`, `EventsTellState`, `InFlightHasOwner`, `DeadlocksAreKnown`, `CaseFollowsCustomer` |
| `sla` | 3 ticks, 1 conversation under a policy with targets of 2 minutes for the next response and for the resolution, batches of 1 timer, days of 4 minutes, 3 minutes, 2 messages, state changes or faults | `AnnouncedOnce`, `BreachIsEarned`, `PauseFollowsState`, `OneSchedule`, `DueTimersSettle`, `CalendarExact` |

Why the bounds are enough for what is asked:

- The code treats workspaces, transactions, workers and connections alike, and
  every hazard listed is a race of two actors over one row, lock or cursor. Two
  of each exhibit it; the event log takes three transactions so that two can
  follow each other while a third is open.
- Page sizes (500, 200), the reconcile limit (100), the outbound queue, the
  replay limit (2000), `max_attempts` and the disabling threshold are constants of
  the models, set to 1 or 2 so that each limit is reached and passed within the
  sequence bounds. That several pages, a full queue and a truncated replay occur
  was the criterion.
- `conversation` bounds a behaviour by a `Workload`: the kinds of operation it mixes and
  how many it begins. One mixes everything that touches threads, one agents with
  customers' merges and reversals, one merges with customers who write meanwhile, one
  the transactions that hold many locks. Every pair of operations that share a row is in
  one of them, and four operations are what the longest known story takes (two merges in
  a chain and two reversals in the wrong order). With six operations
  `CaseFollowsCustomer` was checked once and holds too.
- `sla` needs two steps and two faults: a message and a state change, or a pause after an
  evaluation, or a tick that is lost and one that is cancelled. Two timers and a batch of
  one (`LIMIT 500` in the code) make a tick leave a timer for the next. The calendar is
  compared with its meaning for 768 calendars of three weekdays with holidays, among them
  overlapping windows, windows past midnight and full days, and every start and duration
  within two days.
- `MaxFaults`, `MaxOverruns`, `MaxRetries`, `MaxImports`, `MaxDBFaults`,
  `MaxUpdates`, `MaxSequence`, `MaxCounter` and `MaxHead` bound counters; they are
  guards of the actions that count. The proofs do not depend on their values.
- In `event_log` deadlock is checked: `Attach` is always possible. The other
  systems are bounded and come to an end, so their configurations say
  `CHECK_DEADLOCK FALSE`.

Some conditions are part of what is claimed, not of how it is checked.
`ExclusiveRun`, `TerminalStays`, `SettledStays` and `NoNeedlessResend` hold while
`overruns = 0`, that is while every lease outlasted the work it covers.
`worker.go` gives the handler a deadline equal to its lease and relies on
handlers to honour it; `finish` addresses the row by id alone, so a late one
overwrites whatever the next worker has done. The budget property says exactly
what the code gives: `MaxAttempts`, plus one attempt for every lost worker,
because the reclaim does not look at the count. The `consumer` run imports into a
quiet workspace that has no events and that no process is draining (`QuietImport`),
and lets an import fail only before its first event row (`LateFailure = FALSE`);
outside these conditions the code does lose, replay or block events. `consumer_skip` shows
the loss; no property of a passing run, and no theorem, covers a drain that is under way
when an import starts, an import that fails late, or one into a workspace that has a
counter row: the hazards list these three without a property. With the two constants the
other way round TLC finds `ImportedNeverHandled` and `AppendNeverCollides` violated. That nobody may be draining came out of the proof: an import that
failed behind its counter row leaves a workspace whose events begin above the archive;
a drain of it looks at `importing` once, goes on, and when a second import starts and
completes meanwhile its position is behind the new baseline.
`ExactlyOnce` and `CaseFollowsCustomer` name, in the property, the situations in which
the code does otherwise; each was taken out once and found necessary.
`DrainedMeansGiven` and `ResumedMeansComplete` leave out `jumped`, the events a
cursor jump passed over; `realtime_gap` shows what is in that set. A connection whose
resume failed was told to reload, so `DrainedMeansGiven` counts for it from that point
of the log on.

## Fairness

- `EventLog`: PostgreSQL ends every transaction (weak fairness of commit or
  rollback), and a reader with rows to read reads them.
- `EventConsumer`: a drain that began goes on; `select` in `Consume` picks at random
  among ready cases, so the ticker is not passed over forever (strong fairness of
  `Reconcile`); a handler tried again and again on an event that is not poison
  succeeds at last (strong fairness of `HandleOk`); a running import ends, its
  job being retried. Nothing is asked of signals.
- `JobQueue`, `WebhookDelivery`: worker loops poll, handlers end (at the latest at
  their deadline), time passes, and the reclaim loop of some process runs. Nothing is
  asked of crashes, cancels or retries. A request that is under way goes on or dies.
- `Sla`: a worker takes a tick that is due, evaluates its batch and finishes. Nothing is
  asked of the consumer, of processes that start again or of admins: a timer that is due
  is settled by the tick alone, and the property says when the schedule has ended.
- `Idempotency`: none; what it promises is safety, and a client may give up at any time.
- `RealtimeHub`: only the drain goroutine runs. Nothing is asked of browsers or of
  signals.

<a name="disagreements"></a>
## Where documentation and code disagree

Five runs are expected to be violated. Each checks a sentence of the repository.

1. `consumer_starve`. Migration 0049 line 11: "Events committed after this migration
   are always recovered from checkpoints." `reconcile` takes the 100 workspaces whose
   checkpoint is oldest. A handler that fails leaves `updated_at` alone, so 100
   workspaces stuck on a failing event fill every reconcile, and one whose
   signal was lost waits until somebody writes to it.
2. `consumer_skip`. Imports "pause consumers and establish a new baseline instead of
   replaying old rules" (`docs/review-implementation.md:23`). The baseline is the
   counter at the end of the import, so live events that were committed before or during
   the import and are not handled yet are passed over too; nothing handles them while it
   runs.
3. `realtime_gap`. `hub.go:92-95`: "Reading from the log means a signal that arrives
   late, out of order, or not at all still converges on the right answer." `Serve`
   moves the cursor, which all connections of the workspace share, to the head for
   every new connection, over events the others were not given yet.
4. `realtime_reconnect`. `socket.ts:5-9`: "a dropped connection ... never loses a
   message". A live event may arrive on the new socket before `hub.ready`; it moves
   `lastSequence` over the gap that the resume then does not ask for.
5. `webhook_stranded`. `service.go:120-121`: pending deliveries "must remain
   retryable". `Replay` and `Test` insert the row and enqueue its job in two
   statements without a transaction; when the second does not happen, no job and no
   sweep ever picks the row up.

Met on the way and described by the properties of the passing runs rather than by runs of
their own:

- Bulk updates can deadlock. `conversation/actions.go:27-31` locks all rows "before the
  first write"; the loop locks, writes and appends row by row, so it holds the event
  counter while it waits for the next row. PostgreSQL cancels one side, `WithTx` does not
  retry (`DeadlocksAreKnown`).
- An agent who gives a ticket to a customer, and that customer's merge or its reversal,
  can deadlock as well: they lock ticket and customer in opposite order; so can a
  reversal with another, a merge of conversations with a merge of their customers, and a
  wake with anything, because its `UPDATE` locks rows in no order. Two merges of customers
  lock these in a fixed order "to avoid a deadlock" (`customer/merge.go:324`), and then
  cases in none: when one has found two cases and waits for their rows, and an agent gives
  both to the loser of another merge, that one finds them too and may lock them the other
  way round.
  The instance of `conversation` is too small for that; it came out of the proof of
  `OnlyKnownDeadlocks`.
- Idempotency rows never expire. `expires_at` is written and never read, so a process that
  dies under a claim leaves a key that answers 409 for good, not for the 24 hours of
  `idempotency.go:24-30` (`InFlightHasOwner`).
- Duplicates are possible without a crash: an attempt that loses a deadlock releases its
  claim between the INSERT and the SELECT of another, which then counts as a failed claim
  and runs unguarded, while a third claims the key again. And `Start` reads the new row
  back after its commit (`service.go:233`): an error there releases the claim
  (`ExactlyOnce`).
- `WakeSnoozed` appends its events after its UPDATE has committed, against ADR 0006 (line
  29), and a customer's first reply opens a conversation without an event
  (`EventsTellState`).
- A conversation that was merged away gives its sequences out again from 1, although 0002
  calls them "Monotonic per conversation" (`NumbersStay`).
- Undoing merges of customers in another order than the reverse of theirs, undoing one
  twice, or undoing one after an agent has reassigned a case, moves cases to the wrong
  customer (`CaseFollowsCustomer`).
- An evaluation stores the elapsed minutes without moving `running_since`, so a pause after
  it counts them twice and the deadline comes too soon. `BreachIsEarned` does not exempt
  these timers; it says that a breach comes too soon by the stored minutes (`recounted`)
  at most.
- The calendar: `Elapsed` leaves out the last day when less than a day has passed since the
  start, so it is not the inverse of `Add`. `Add` skips the next day after a window that
  ends at or after midnight; with the default calendar of full days (`runtime.go:407-413`)
  it uses every other day only, and deadlines come late, but never too soon. In `Elapsed`
  overlapping windows count twice. `CalendarExact` has a part for every calendar, a part
  for windows that do not overlap (`Disjoint`), and is exact for those that also end
  before midnight (`Plain`).
- An internal note satisfies the response timers, and a workspace without an enabled policy
  makes every created conversation fail in the "sla" consumer, which then stays there.

## Proofs

The theorems hold for every value of the constants that satisfies the `ASSUME` of the
module they are about. TLC evaluates these assumptions in every run. They say:

- `LogAssumption`, `ConsumerAssumption`, `QueueAssumption`, `DeliveryAssumption`,
  `HubAssumption`, `ScheduleAssumption`, `SlaAssumption`: limits (page sizes, queue,
  batch and replay limits, the attempt budget, the disabling threshold) are positive, bounds are
  natural numbers, and the values that stand for "none" are none of the others. Workers
  and ticks are finite in number, as processes and goroutines are, because budgets count
  them. A delivery and its job share a name. An archive has a last event.
- `CalendarsAssumption`: the calendars are such as `NewCalendar` makes (`WellFormed`), and
  some weekday has a window with a minute in it. Without one `Add` ends with an error after
  a century of days, which is not modelled. That the arithmetic returns a number is a
  theorem (`CalendarIsTotal`), not an assumption.
- `CustomerAssumption`, `ConversationAssumption`, `NoneAssumption`, `RowAssumption`: ids of
  conversations, tickets, customers and the two extra rows are different things and order
  like naturals, cases and sessions are finite in number, no agent sets the state "absent", and "none"
  is no operation, request, customer or ledger row. `RequestAssumption`: a message is
  posted to a conversation or starts one.
- `KeyAssumption`: requests with one key have one author and go to one conversation, or all
  start one. A client draws a key "once when the user commits to an action"
  (`web/shared/src/lib/client.ts:342-348`); a body edited under the same key is still
  allowed. Only `RequestsTakeEffectOnce` needs it: for a key used in two conversations the client
  id protects neither message.

Where a theorem needs more it says so: those about checkpoints start with `ASSUME
QuietImports`, the condition explained under [Runs and bounds](#runs-and-bounds), and
`BreachesAreEarned` with `ASSUME Disjoint(Calendar)`: windows do not overlap, neither on one
day nor past midnight with the next day's. Where they do, `Elapsed` counts minutes twice
(see [above](#disagreements)).

**Event log** (`EventLog_proofs`). `NoEventBehindCursor` is not inductive: that no
event commits behind a cursor needs to know where open transactions number their
rows. The inductive invariant `LogInv` says: the n-th committed row has sequence n
(`LogNumbered`); the committed counter is one ahead of the log
(`CounterContinues`); two open transactions never hold the same counter row
(`RowLockExclusive`); the holder's rows continue the committed log
(`PendingContinues`); no cursor is beyond the log (`CursorCommitted`). One lemma
per action (`AppendInv`, `CommitInv`, `RollbackInv`, `ReadPageInv`, `AttachInv`)
shows that it is kept; `PageIsContiguous` is the fact about `Since` that the
reader needs. From it:

- `LogTypeOK`, `ReadersMissNothing` (`NoEventBehindCursor`), `SignalsFollowCommits`
  (`SignalsMatchLog`), which needs `LatestIsLength`;
- `LogImplementsCommittedLog`: a commit is a `Publish` (`CommitPublishes`), every other
  step stutters.

**Event consumers** (`EventConsumer_proofs`). `BaseInv` needs nothing of imports: types;
a drain has pages left when it fetches and a page when it handles, the page lists
committed rows behind its position, and what it is about to checkpoint it has handled
(`DrainOK`); a drain whose session lives holds its workspace's advisory lock
(`LockHeld`). `QuietInv` says what positions mean: no row and no checkpoint is beyond
the counter; before the first live event there are archive rows only, and the counter
is past them; a completed import has put the checkpoint past its rows; and a drain is
at the checkpoint as long as it holds the lock, has handled every live event up to its
position, and leaves none out of its page (`InPosition`). The last needs that the page
of `Since` is a prefix of what follows the position. From the two, `ConsumerTypeOK`,
`CheckpointsAreCovered`, `HistoryIsNotReplayed`, `AppendsFindRoom` and the action property
`CheckpointsMoveOn`, for any number of processes, crashes and lost sessions.

**Job queue** (`JobQueue_proofs`). `QueueInv` adds to types and `OneLivePerKey` that a
worker has a row exactly while it is busy, and, while no lease has expired under the
work it covers, that every claimed row is running under a live lease with one worker
(`Attended`). From it `QueueTypeOK`, `DedupeHolds` (overruns included),
`OneWorkerPerJob` and the action property `FinalStatesStay`. `BudgetHolds`
(`AttemptsWithinBudget`) counts: `Budgeted` relates the attempts made, the workers at the
row whose copy of the count would make it pending again (`Retriers`) and the claim it may
be waiting for to the budget plus what faults and overruns have cost. A reclaim turns a
fault or an overrun that was paid for into a waiting row; a finish turns a worker into
one, or into none; and a second worker at a row needs an overrun.

**Webhook delivery** (`WebhookDelivery_proofs`). Every step of `Deliver`, of an admin and of
the faults is a step of the job queue or leaves it alone (`DeliveryIsJobStep`), so
`DeliveriesRunOnTheQueue` (`WSpec => Spec`) carries the queue's theorems over, and `WInv`
starts from `QueueInv`. `SendInv` knows what a worker in `Deliver` knows of its delivery
between two statements, as long as leases hold: an acceptance is recorded, about to be
recorded, or counted as unsure. `CarryInv`, without faults, keeps the two counters in
step: the job's is at most one ahead of the delivery's, and only while its worker has not
claimed the delivery yet, so the delivery is exhausted before its job is dead. From these
`DeliveryTypeOK`, `NotSentInVain`, `OpenOnesAreCarried` and the action property
`SettledOnesStay`.

**Realtime hub** (`RealtimeHub_proofs`). `DrainedMeansGiven` speaks of the hub's cursor only;
the invariant has to speak of every position that anybody may take for granted:
`Known(c)` are the cursor, the connection's own position, what it has deferred or is
flushing, the record in the drain's hands, and whatever is on the link to the browser.
`Coverage` says that up to each of them nothing is missing on the connection that it did
not start behind (`Covered`), and that while the drain works through a page only the
rest of the page may be (`PageCovered`). `Shape` bounds what the drain, a link and a
resume may look like; `Truth` is `ResumedMeansComplete` for the frames on the wire.
Each is shown step by step: shapes first, then coverage for what the drain does, for what
the connection and its resume do, and for the browser. `HubTypeOK`, `DrainedIsGiven` and
`ResumedTellsTruth` follow, for any number of connections and any limits.

**SLA timers and their schedule** (`Sla_proofs`). `OneSchedule` counts the heads of
chains; inductive is the same bound for all live rows (`ChainInv`): each row beyond the
first was counted when it came to be. For the timers every step is first described by
what it does to one of them (`Starts`, `Restarts`, `Meets`, `Pauses`, `Resumes`,
`Evaluates`, `Keeps`), and the invariant is then shown for these seven changes: the row's
columns fit its state (`TimerShape`), and what was announced the row remembers, a warning
by its flag and a breach by its state (`Remembered`). `PauseFollowsState` needs `LastTold`
(the last state event that waits tells what was told last) and that only a wake nobody
was told of parts the state from it (`ToldOrWoken`). Theorems: `SlaTypesHold`,
`AnnouncementsAreSingle`, `PausesFollowState`, `ScheduleStaysSingle`.

*The calendar.* `Add` and `Elapsed` are recursive functions of the cursor, and the prover
knows nothing of a recursive function but its equation, once it is shown that some function
satisfies it. The library's induction theorems cannot be instantiated, so every induction
here is a least counterexample, or a greatest one below a bound (`HasLeast`, from
`NatLessThanWellFounded`). Both functions call themselves with a later cursor. For `Elapsed`
the end bounds that, and functions that satisfy the equation from some minute on
(`ElapsesExists`) are extended down to 0. For `Add` it is the remaining duration, which gets
smaller on a day with working minutes ahead, and there always is such a day: some weekday
has a working minute and comes again after the last holiday (`WeekdayAgain`, `WorkAhead`).
Thus `CalendarIsTotal`. What they find is stated with `Open`, the working minutes of an
interval, which add up (`OpenSplits`). For every calendar, overlapping windows, windows past
midnight and full days included, the day that `Add` ends on has the minutes that are left
and every day before it has given no more than its own, so `Add` is never too soon
(`AddIsEnough`); where windows do not overlap, `Elapsed` counts distinct working minutes
(`ElapsedAtMost`). The two are `CalendarIsNotGenerous`. For calendars that are `Plain` both
are exact: `ElapsedIs`, and `AddIs` with `AddsAre` for what is left when a day is used up,
together `AddAndElapsedAgree`, for every start and every duration. `CalendarIsExact` is the
case of both for the calendars and the two days that TLC compares.

*Breaches.* `BreachIsEarned` compares minutes that `Elapsed` counted piece by piece, with a
pause after each, with a deadline that `Add` computed at the last resumption. `PaidInv` says for
every timer (`Paid`): a paused one has stored no more than was worked and, after an
evaluation, counted again (`recounted`); a running one has stored at most that and what
evaluations added since (`stored`), and its deadline is `Add` from the point where it
resumed, of the target less some part `e` that was worked or counted again before. As the
tick breaches a timer only when its deadline is past
(`BreachIsDue`), and up to the deadline that much is worked (`DeadlineIsWorked`), the
target is, but for the minutes counted again. That `Add` is never too soon is all it needs of
deadlines, so it holds for full days and windows past midnight too. The invariant is shown
for the same seven changes, and TLC was run on it first.

**Idempotency ledger** (`Idempotency_proofs`). `InFlightHasOwner` alone is not inductive: a
step by which a session takes up a request, or lays it down, must not take the owner of
some claim away. `ClaimInv` adds that a session which is not idle works on a request and
that one with a claim is handling, completing or releasing (`ClaimsInUse`). The steps are
made of three: a session leaves (`LeaveInv`), begins to handle (`HandleInv`) or goes on to
settle (`SettlingInv`); four lemmas take the actions apart into these. Nothing of
`Conversation` is expanded, so the result holds whatever handlers do under a claim.
`ClaimsHaveOwners` is the theorem.

**Conversations, customers and the requests around them** (`Conversation_proofs`). Every
step of `Next` opens a transaction, takes a lock, finds the cases of a customer, ends with
effects, ends without, or touches none of this (`StepsOfTransactions`); each part of the
invariant `ConvInv` is shown for these.

- `Typed`: types, that queued rows are never the counter's, and that a reversal works on the
  list of a record that is there.
- `ThreadInv`: what a transaction is about is there until it commits (`Aims`), or is not
  there yet and nobody else's (`NewAlone`); wakes still to be told are among the silent
  ones; and with these `EventsTellState`. The same lemmas give `NumbersKept` for every step.
- `LockInv`: locks that do not go together are never held at once (`Exclusive`), and what
  a transaction has locked and has still to lock fits the code's order for its kind
  (`PathOf`): ascending for two conversations or two customers, customers before the cases.
- `OwnerInv`: a case has no customer only if it was last given to none, and the list that a
  merge works on names every case its loser has (`ListOf`). A case can be given to a
  customer only under a share lock of that customer's row, which the merge holds for itself
  from before it looks (`CommitHolds`): so nothing is missed.
- `ServeInv`: a session's transaction is the one of the request it serves.
- `OnceInv`: a key that never slipped has its ledger row as long as it has its message, and
  the attempt under its claim is the first to write (`FirstOnly`); two attempts have no
  claim on one key (`ClaimsAlone`); a session that handles without a claim has slipped
  (`SlipsKnown`); a posted message is in its conversation unless that was merged away
  (`Home`), which is why the client id protects an agent's post until a merge. A commit adds
  the message of its request and no other, and doubles no key that it finds (`Settled`, by
  `AddedThread`, `MovedThreads`, `SameThreads`). `CopiesCount` turns this into numbers.

- `MergeInv`: whom a case follows. `Follow` is a recursive function over the merge records;
  that there is one needs that a customer who is gone has a last record which stands
  (`Gone`), and that its winner is there or has a later one (`Onward`): from the latest
  record back each customer leads somewhere (`FollowExists`). `CaseFollowsCustomer` speaks of
  where `Follow` ends; inductive is that the standing records that moved an unentangled
  case form a chain from the customer it was given to, or from none, up to its owner
  (`Chain`, `Link`). A
  merge puts a link at the end. A reversal takes the last one away: if another standing
  record, or an open transaction's list, had the case, the case is entangled from then on.
  `Again` says that what is reversed a second time is entangled already.

`OnlyKnownDeadlocks` follows from `LockInv` and `OwnerInv` without a step of its own. A circle without bulk
updates and wakes, and without the mixtures that are named, consists of transactions that
wait for a row above every one they hold, in one order for all; the finite set of these
rows has a greatest one (`NoAscent`, `NoCircle`). Two customers' merges wait across each other only for a
case that both found, which has therefore changed hands under one of the lists.

Theorems: `ConversationTypes`, `EventsTell`, `NumbersAreKept`, `OnlyKnownDeadlocks`,
`CasesFollowCustomers`, `RequestsTakeEffectOnce`, for any number of sessions, operations and
faults.

<a name="limits"></a>
## Only model-checked, not modelled

Every safety invariant, action property and refinement of the passing runs is a theorem
(`BreachIsEarned` for calendars whose windows do not overlap). With TLC alone stay the liveness properties
(`EventuallyRead`, `EventuallyHandled`, `EventuallyFinal`, `EventuallySettled`,
`SignalsConverge`, `DueTimersSettle`): fairness and `ENABLED` are out of the prover's reach.
The violations of the five other runs are counterexamples, which only TLC gives. By
how much `Add` comes too late, and `Elapsed` counts too little, when windows reach midnight,
and how often `Elapsed` counts what windows share, is not stated.

Left out of modelled components:

- `EventLog`: `ForEntity`, `Get` (reads), the contents of events.
- `EventConsumer`: the handlers themselves. After a lost session two processes may run
  the same handler at once; the code requires effects to be replay-safe, and
  whether each handler's are is not examined here. The other tables of an import.
- `JobQueue`: priorities and the order of claims (any due row may be taken), backoff
  delays.
- `WebhookDelivery`: several endpoints; creating and deleting an endpoint, rotating its
  secret; signatures; the network policy. A delivery and its job share a name.
- `Customer`: tags, companies, events, sessions and notes, which a merge moves too; the
  30-day window (a reversal is possible at any time); creating and editing customers.
- `Conversation`: editing, redacting, linking, following, read marks, mentions and
  attachments; which team and member routing chooses (the team's row is locked); creating
  tickets, which locks nothing that others lock but the customer; the connection pool, in
  which concurrent customer merges can starve each other (`merge.go:358`).
- `Idempotency`: the user's and the widget's ledger, which are the same protocol on other
  tables or keys; requests without a key.
- `Schedule`: time between ticks; handlers that outlive their lease, which `JobQueue` has.
- `Sla`: tickets (the same timers without `next_response`); `PauseSubject`, which queries
  on a connection whose rows it is still reading and so fails whenever a timer runs;
  policies and calendars that change under running timers; clock changes and zones.
- `RealtimeHub`: subscribe and unsubscribe, typing, presence, ping, revoked access;
  several workspaces (they share only locks).

Not modelled: automation, notifications, email, forms, surveys, feedback, the knowledge
base, files, portal, widget, analytics, administration, the HTTP and rendering layers, I/O
adapters and the user interface. They are the larger part of the lines. Most of their
operations are one transaction over rows of their own tables, with validation before it
and an `Append` or `EnqueueTx` at its end, and what they contribute to the behaviour above is
that end. Their consumers and recurring jobs run on what `EventConsumer`, `JobQueue` and
`Schedule` model; whether each handler's effects are replay-safe is not examined.

## Plan

Done, in this order: `CommittedLog`, `EventLog`, `EventConsumer`, `JobQueue`, `RealtimeHub`,
`WebhookDelivery`, `Customer`, `Conversation`, `Idempotency`, `BusinessHours`, `Schedule`,
`Sla`; the proofs of `EventLog`, `JobQueue`, `Idempotency`, `EventConsumer`,
`WebhookDelivery`, `RealtimeHub`, `Sla` and `Schedule`, and `Conversation` with `Customer`,
of late whom a case follows; the calendar's arithmetic, for every calendar as far as it
goes, and `BreachIsEarned`, with the minutes that are counted again.

Next:

1. Models: automation receipts (`events.ActionKey`, `CompleteActionTx`) as a second
   at-most-once protocol beside the ledger; topic changes and revoked access in `RealtimeHub`;
   tickets' timers and policies that change in `Sla`.
2. The calendar where it is not exact: by how much `Add` comes too late after a window that
   reaches midnight, and what `Elapsed` then leaves out; `BreachIsEarned` for overlapping
   windows with what they count twice.
3. The imports that no property covers yet: a specification of what an import may do to a
   workspace that is drained or has events, once the code gives one.
