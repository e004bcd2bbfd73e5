# PulsePay in TLA+

PulsePay is a payment service: a FastAPI application in one asyncio process over a
PostgreSQL database, with its background job queue in the same process. This project
models the parts of it that decide whether money moves once, too often or not at all, checks
the models with TLC and proves the type invariant and every safety property of each component
with TLAPS. Source paths below are relative to `src/pulsepay`.

Contents: [inventory](#1-inventory), [modules](#2-modules-and-how-they-follow-the-code),
[runs](#3-runs), [fairness](#4-fairness), [proofs](#5-proofs),
[disagreements found](#6-where-code-and-documents-disagree),
[not modelled](#7-what-is-not-modelled), [plan](#8-plan).

## 1. Inventory

| Component | State | Operations | What makes it correct |
|---|---|---|---|
| StormQueue (`jobs/queue.py`) | `jobs` rows; an unbounded `asyncio.Queue` of ids | `enqueue`, `get_dead_jobs`, `retry_dead_job` | a committed job is run; none runs early |
| JobWorker (`jobs/worker.py`) | a consumer task, a poller task | `start`, `stop`, `_consume_loop`, `_poll_delayed_jobs_loop`, `_process` | attempts are exact, finished jobs are left alone, every job ends |
| Handlers (`jobs/handlers.py`) | none | `process_payment`, `retry_payment`, `process_refund`, `deliver_webhook` | running one again does no harm |
| Payments (`payments/`) | `payments`, `idempotency_records` | `create_payment`, `confirm_payment`, `mark_payment_failed_max_retries`, queries | one payment per key, one charge per payment, a settled payment stays settled, none is forgotten |
| Refunds (`refunds/`) | `refunds` | `initiate_refund`, `process_refund`, `list_refunds` | never more than was paid; one refund per key; announced once |
| Webhooks (`webhooks/`) | `webhook_endpoints`, `webhook_events` | `dispatch`, `deliver`, registration, queries | an event is delivered, or dead after five attempts; a deactivated endpoint is left alone |
| Rate limiting (`ratelimit/`) | a token bucket per API key, in memory | `consume`, the middleware | burst and rate are bounded; Retry-After is honest |
| Database access (`core/database.py`) | a pool of 10 + 20 connections | `get_db`, `SessionLocal` | requests do not wait for one another's connections for ever |
| Metrics (`observability/metrics.py`) | none | six counts in six statements | rates between 0 and 100 (section 7) |
| Middleware (`core/middleware.py`, `main.py`) | a request id per request | tracing, logging, rate limiting | every layer that logs knows the id (section 7) |
| Ledger (`ledger/`), seeding, migrations, schemas, logging, configuration | tables, files | | see section 7 |

How they interact. A request has a database session of its own from `get_db`.
`create_payment` and `initiate_refund` insert a row, then call `enqueue_job`, which commits a
job *in a second session* and puts its id into the in-memory queue, and only then commit their
own row. The worker's single consumer takes ids one at a time, marks the row running in a
commit, and calls the handler, which opens yet another session, does its work and may enqueue
further jobs (a retry of a payment, a webhook delivery). The poller puts the ids of due queued
jobs into the same queue every five seconds. `POST /payments/{id}/confirm` calls the same
`confirm_payment` as the worker.

What is hard about it:

- *Interleaving*: coroutines interleave at every `await`; rows are read without locks and used
  after further awaits. A session's `get` returns its cached copy, and an UPDATE writes the
  columns that copy changed.
- *Ordering*: jobs become visible before the rows they are about.
- *Duplicates*: poller, callers and the worker's put-back all put ids; nothing removes them.
- *Faults*: the in-memory queue dies with the process, jobs stay `running`; a database error
  in the consumer ends its task; a commit can fail after the processor has answered; a
  webhook is received and its answer gets lost.
- *Sharing*: one token bucket per key, one connection pool for requests and worker, of which
  most requests need two connections at a time.
- *Limits*: attempts, retries, the amount that can be refunded, key expiry.

PROJECT.json lists these as hazards, each at its line, with the properties that watch it.

## 2. Modules and how they follow the code

```
   JobLifecycle  <--implements--  StormQueue   (run as MCStormQueue)
        |
        | INSTANCE: where jobs come from and how they end
        +-----------------+----------------+---------------+
        v                 v                v               v
  PaymentCreation   PaymentProcessing   Refunds         Webhooks
                          |
                          +--implements-->  PaymentLifecycle

   RateLimit  <--implements, extends--  Gateway
```

The proofs about a module are in a module of their own: StormQueueProofs, PaymentCreationProofs,
PaymentProcessingProofs (with the refinement of PaymentLifecycle), RefundsProofs, WebhooksProofs,
RateLimitProofs (RateLimit, and Gateway's use of it) and PoolProofs (Gateway's pool).

The queue is modelled once in full. The four modules that need jobs take them from its
abstraction, JobLifecycle; that abstraction, JobLifecycle; that StormQueue implements it is checked by TLC and proved for all
instances. All four also have `ConsumerEnds`: a database error in `_process` outside of the
handler, of this job or of one of another kind, leaves the job `running` and ends the consumer
task (`worker.py:57`), after which the worker's place is `"ended"` and it takes no step until a
crash and restart. One step of a model is what happens between two awaits at which something else can
come between: usually a statement or a commit with the code up to the next one.

**StormQueue** - `jobs` is the table, `dispatch` the asyncio.Queue, `consumer` and `polled`
the two tasks, `enqueuing` and `retrying` the calls between their commit and their put.
`Enqueue`/`PutEnqueued` are the two halves of `enqueue()`, `RetryDeadJob`/`PutRetried` of
`retry_dead_job()`; `Poll`/`PutPolled` of `_enqueue_due_jobs()`; `Take`, `MarkRunning`,
`HandlerReturns`, `HandlerRaises`, `PutBack` cut `_process()` at its commits. `ReadFails` and
`CommitFails` are the exceptions nobody catches, `Stop` is `JobWorker.stop()`, `Crash` the end
of the process without it. `runs` is a history variable: handler calls since the last reset.
Assumed of the environment: an operator retries only jobs of the page of dead jobs last read,
each once (`retry_dead_job` itself checks no status, and no route of the service calls it).

**JobLifecycle** - absent, queued, running, then completed, queued again at the cost of an
attempt, or dead; only an operator revives.

**PaymentProcessing** - a session keeps the row as read (`base`) and as changed (`mem`).
`Merge` is the UPDATE of the changed columns, `Unlocked` the row lock from flush to commit.
`FlushAttempt`, `Authorize`/`FailSoftly`/`FailHard`, `MarkFailed`/`MarkTerminal` are
`confirm_payment` and `mark_payment_failed_max_retries` in the order of their commits, for the
worker and for requests alike; `GivesUp` and `EnqueueRetry` are the handlers' part. The random
processor is a choice of its three answers. `authorized` and `confirms` are history: what the
processor has really authorized, which attempts were committed. `DbError` may strike after the
processor has authorized. Retry delays are left out: they are StormQueue's subject, and without
them more happens, not less.

**PaymentLifecycle** - open payments are attempted, charged or failed; settled ones are left alone.

**PaymentCreation** - payments and jobs are named by the request that makes them. `CheckKey`,
`InsertPayment`/`InsertRefused`, `EnqueueProcessJob`, `CommitPayment` follow `create_payment`;
an insert waits while another of its key is uncommitted, and fails once one is committed.
`StartJob` finds the payment or, not yet committed, skips it as `process_payment` does; the
history variable `early` holds the jobs that were last taken before their payment's commit.
`FinishJob` and `JobRaises` are the two ends of the handler: it returns, or an error or a
payment that is settled already makes it raise, with its work done or not, and the job is run
again or dead.

**Refunds** - `CheckKey`, `CheckAmount`, `InsertRefund`/`InsertRefused`,
`EnqueueProcessRefund`, `CommitRefund` follow `initiate_refund`; `StartJob`, `RefundMissing`,
`ProcessorAnswers`, `Dispatch`, `CommitCompleted`, `CommitFailed` follow `process_refund` with
`WebhookDispatcher.dispatch`. `overlapped` is history: payments for which two requests were
between their sum and their commit at the same time. `Refunded`, the SQL sum, counts the
units of money refunded: a set of pairs of a refund and a unit of it, which has a cardinality
to reason about where a sum over rows would be a recursive definition.

**Webhooks** - `StartDispatch`, `EnqueueDelivery`, `CommitDispatch` are `dispatch()` in the
handler of a refund, `StartDelivery` to `CommitFailed` are `deliver()` in the order of its
awaits: the event, the endpoint, the POST, the job for the retry, the commit of the attempt.
`WorkerFree` is the one consumer: while it is in `dispatch()` it delivers nothing. A POST may
arrive without its answer. Since nobody else writes events, the session's copy is the row.
`posts`, `received`, `late` and `skipped` are history. The events of a refund and the refund
itself are committed together; that part is in Refunds, and here only the events are kept.

**RateLimit** - `Admit` and `Refuse` are the two ends of `consume()`; `Refilled` is the refill
up to the capacity, `Waits` the `:.3f` of the header. `since` and `restarts` are history:
admissions and restarts from each moment on. Units are chosen such that all amounts are whole.

**Gateway** - RateLimit with the connection pool behind it. `Paths` gives, for a POST, the
metrics, a round of the poller and a job, how many connections are held from one checkout or return to the next,
`CheckedOut` is the set of connections held now; `Step` goes on, `TimesOut` is the pool's
timeout, and `RequestFails`, `PollFails`, `HandlerFails`, `ConsumerFails` are the four places
its error goes to: a response with status 500, the poller's `except`, a job that is run again,
the end of the consumer task.

Definitions introduced by a comment "Variant of ..." are not part of a specification. Each is
a plausible mistake in the definition it names, kept to show that a property notices it;
PROJECT.json (`mutants`) says which.

## 3. Runs

Runs that pass:

| Run | Instance | Shows |
|---|---|---|
| `queue` (620,000 states) | two jobs, delays 0 and 1, two attempts, one manual retry, one fault: a crash, a stop or a database error | handlers run at most `max_attempts` times (`HandlerRunsBounded`), never early (`NeverEarly`), JobLifecycle is implemented (`LifecycleSpec`), every job ends unless a fault comes (`EveryJobSettles`), and a queued job waits for ever only in a process whose consumer task has ended (`QueuedUnlessConsumerEnded`) |
| `payments_worker_only` (600,500) | two payments, a setting of three retries, two attempts per job, a crash, two database errors | `RetryCountIsExact`, `NeverDropped`; until a database error a charge is made exactly if the payment succeeded (`ChargedHonestly`); PaymentLifecycle is implemented; every payment is settled unless its last job is dead or was cut short or the consumer task has ended (`PaymentSettles`) |
| `payments_with_requests` (66,300) | one payment, the worker and two confirm requests, an error | what survives stale copies: the `state_history` column as it stands is a path of the state machine that ends in the status (`HistoryIsAPath`; it need not be the path the payment took, section 6), `retry_count` is never too high, a payment succeeds only if authorized |
| `creation` (74,300) | three requests of one key, expiry, two attempts per job, a crash, two errors of requests or worker | requests of one key that are answered with a payment get the same one (`SameKeySameAnswer`; which requests get an error instead is in section 6), answers last (`AnswerIsCommitted`), a pending payment has a job that is queued, was under way or is dead, unless its job was taken before the payment's commit (`DroppedOnlyIfEarly`), no request waits for ever for another of its key (`EveryRequestEnds`), and a committed payment is processed unless its job was taken early, is dead or was cut short, or the consumer task has ended (`PendingIsProcessedUnless`) |
| `refunds` (744,000) | two requests, two keys, a payment of 3, amounts 1, 2 and the rest, two endpoints, a crash, an error | one refund per key (`SameKeyOneRefund`); refunds that do not overlap fit (`RefundsFit`); `AnnouncedOnce`, `NeverDropped`, `SettledIsFinal`; a refund is settled unless its job is dead or was cut short or the consumer task has ended (`RefundSettles`) |
| `webhooks` (571,000) | two events of one endpoint, two attempts, two faults | a job finds its event (`EventIsFound`); an event is posted five times, and how much more after which fault (`PostsBounded`); `NeverDropped`; an event ends for a true reason (`EndIsHonest`) and, without a database error, keeps its end (`EndIsFinal`); after its deactivation an endpoint gets at most the delivery under way (`AtMostOneLate`); an event ends with the same exceptions as a refund (`EventEnds`) |
| `gateway` (105,000) | a client, the consumer, the poller, two connections, a burst of two tokens refilled in three ticks, a restart | admissions in every stretch of time are bounded (`AdmissionsBounded`), Retry-After is right to half of its last digit (`RetryAfterIsHonest`), no more connections are out than there are (`TypeOK`), and requests, jobs and the poller that wait for one another's connections do not wait for ever (`EveryUseEnds`) |

Runs that end in a counterexample, each against a sentence of the documents or tests, are in
section 6.

Why the bounds are enough. Two jobs are needed for one to wait behind another in the queue
and for the poller to return several. The poller puts a next id only when the queue holds none
(`MaxDispatch` 1); callers, retries and put-backs put without that bound, and the consumer may
hold an id besides, so that an id is in flight twice. Two attempts have a first, a repeated and a last one. Two confirm
requests and the worker are three concurrent writers of one row; two payments with the worker
alone let one wait while the other is retried. `MaxRetries` 3 is the default of the setting,
and `MaxJobs` is at least as large, so that retries end by the code's comparison and not by
the bound. There are as many errors as a job has attempts in `payments_worker_only` and
`creation`, so that a job can die of them. Three requests of one key are one that inserts, one
that waits for it and one that comes after the key's expiry, while jobs of requests that were
rolled back stand beside the one of the payment; different keys meet only in the worker (with
two keys, 1,418,000 states, all safety properties hold as well). With an
amount of 3, requests of 2 collide, 1 and 2 fit, and the remainder is a partial amount after
a first refund. Two webhook events show that only one delivery is under way; two attempts are
a first and a last one, and two faults are what it takes for an event to get two leftover jobs
or for its job to die (with three attempts and one fault, 133,000 states, everything holds as
well). A job number is never lacking: `EnqueueRetry` finds one free in every state. In
`gateway` a token costs one and a half ticks, so waits round both ways; a client and the
consumer can each hold one of the two connections and want the other, or wait for the poller's
(two clients with a smaller bucket and less time, 19,100 states, do no worse). One fault of each kind can hit every step.
The clock of StormQueue stops at `MaxTime`; jobs cannot ask for a later time, so none waits
because of it.

Deadlock is checked in the runs of StormQueue and Gateway. The other systems may stop when there is nothing
left to do, and their configurations say `CHECK_DEADLOCK FALSE`.

## 4. Fairness

- StormQueue: weak fairness of the clock, of the consumer's steps together, of the poller's
  two steps, of exit and start. asyncio resumes ready coroutines in turn, the poller sleeps
  five seconds at a time, the handlers' network calls have timeouts, and the service is
  restarted when it ends. A consumer that has ended has no step enabled, so fairness does not hide it.
- PaymentProcessing, PaymentCreation, Refunds, Webhooks: weak fairness of the worker's steps
  together. The consumer loop goes on as long as it lives; one that a database error has ended
  has no step enabled, so the fairness does not revive it, and every liveness property of
  these modules lists it as an exception, next to the jobs that are dead or were cut short. No
  property owes the recovery from it: a restart is not fair.
- PaymentProcessing: weak fairness also of each confirm request that has begun. The processor
  answers; *which* answer it gives is not fair, and `PaymentSettles` does not need it to be.
- PaymentCreation: weak fairness also of each request's steps.
- Webhooks: a POST ends by its timeout of two seconds; whether it succeeds is not fair, and
  `EventEnds` does not need it to be.
- Gateway: weak fairness of each user of the pool, whose step is to go on or, with no
  connection free, to time out. That the pool serves its waiters in turn is not assumed.

Nothing is owed that starts something: new requests, manual retries, the expiry of a key,
faults.

## 5. Proofs

Everything below is proved for all values of the constants, from the assumptions the modules
state of them and nothing else. Those ask for what the code has (positive amounts, limits and
attempts; markers such as "no answer" that are no request) and that there is at least one
request, payment, job, key, endpoint or dispatch where the initial state picks one. The jobs of
StormQueue and the endpoints and dispatches of Webhooks are finitely many; requests, payments
and clients need not be.

For each module there is an inductive invariant, a conjunction of named parts (`IndInv`,
`LimitInv`, `PoolInv`, `AloneInv`), of which TLC has checked that it holds on the instance of
the run; a lemma per action, or per group of actions that disturb the same parts, that the step
preserves it; `IndInit` and `IndStep`; the theorem `Invariance`; and short theorems that draw
the properties of the runs from it. Types come first (`TypeStep`), so that later lemmas may use
them of both states. Lemmas called `Updates`, `Moves` or `...Effect` say once what an assignment
to fields of a record does at each point.

| Module | Properties proved |
|---|---|
| StormQueueProofs | `TypeOK`, `HandlerRunsBounded`, `NeverEarly`, `LifecycleSpec` (implements JobLifecycle) |
| PaymentCreationProofs | `TypeOK`, `SameKeySameAnswer`, `AnswerIsCommitted`, `DroppedOnlyIfEarly` |
| PaymentProcessingProofs, any clients | `TypeOK`, `HistoryIsAPath`, `RetryCountNotOverstated`, `SuccessWasAuthorized` |
| PaymentProcessingProofs, no clients | `ChargedHonestly`, `RetryCountIsExact`, `NeverDropped`, `TerminalIsFinal`, `HistoryOnlyGrows`, `LifecycleSpec` (implements PaymentLifecycle) |
| RefundsProofs | `TypeOK`, `SameKeyOneRefund`, `RefundsFit`, `AnnouncedOnce`, `NeverDropped`, `SettledIsFinal` |
| WebhooksProofs | `TypeOK`, `EventIsFound`, `PostsBounded`, `NeverDropped`, `EndIsHonest`, `AtMostOneLate`, `EndIsFinal` |
| RateLimitProofs | `AdmissionsBounded`, `RetryAfterIsHonest` (Gateway implements RateLimit) |
| PoolProofs | `TypeOK` of Gateway: no more connections are checked out than there are |

**StormQueue.** `HandlerRunsBounded` says nothing about who may take a job when, so it is not
inductive. `IndInv` (end of `StormQueue.tla`) adds:

- `RunsCounted`: the row accounts for every handler call: `runs = attempts`, plus one while
  running and once completed.
- `CopyIsFresh`: between read and write the consumer's copy of its row is still true. This is
  what makes `attempt_count += 1` on a cached row correct, and it rests on there being one
  consumer and on operators retrying dead jobs only (`ListedAreDead`).
- `InFlightIsDue`: every id in the queue, or about to be put into it, is of an existing job
  that is due. This is why `_process` need not look at `run_at`.
- `StrandedIsForgotten`: a job `running` that the consumer does not hold was left by an
  earlier process, and no id of it is in flight while a consumer runs: otherwise the attempt
  cut short would be run again uncounted.
- `DownIsEmpty`: a process that is down holds nothing in memory.

`RowSteps` shows that a step changes at most one row, and as JobLifecycle allows; the
refinement and `NeverEarly` follow from it.

**PaymentCreation.** What keeps `SameKeySameAnswer` is that a key has one row
(`OneRowPerKey`, counting uncommitted rows, for which another insert waits) and that whatever is
recorded or answered is the committed row of the key (`RecordsAreCommitted`,
`AnswersAreCommitted`). A row is uncommitted exactly while its request is between insert and
commit (`RowFollowsRequest`), which is why the rollback of a failed request or a crash takes
away no row that somebody was told of. `JobFollowsRow` starts before the commit, when the job
is enqueued, and lasts through handlers that raise: a job that raises is queued again or dead,
never completed.

**PaymentProcessing.** With confirm requests, sessions commit stale copies, so nothing may be
said of a copy and the row together, except through time: a copy is a path of its own
(`CopiesFollowReads`), is at most one attempt further than what was read, and
what was read is not ahead of what was committed (`ReadsNotOverstated`). That is enough for
`HistoryIsAPath`, because `Merge` takes status and history from the same side (this is why the
column is consistent even where it has lost transitions), and for
`RetryCountNotOverstated` and `SuccessWasAuthorized`.

The other properties are false with such requests (section 6), so their theorems assume
`Clients = {}`: the worker is the only one that confirms, as in the service when nobody calls
`/confirm`. Then the worker's copy is the row (`HandlerIsUpToDate`), an open payment has one
job that may attempt it until a database error leaves two (`OneLiveJob`), it has not been
authorized before (`LiveIsUncharged`), the job `process_payment` makes the first attempt
(`FirstAttemptIsFirst`; only `retry_payment` looks at the setting, `RetriesAreChecked`), and an
open payment has a job other than one that is about to end (`OpenHasJob`). Each commit of the
worker is then one step of PaymentLifecycle, and everything else a stutter (`LifecycleStep`), and
it writes the row's own history with one or two transitions appended (`AloneHistoryOnlyGrows`).

**Refunds.** The sum is over the rows of a table: `IsFiniteSet(Rows)` keeps it a number
without bounding the requests, and `NewUnits`, `EndedUnits`, `SameUnits` say how an insert, an
end and any other step change it. `RefundsFit` is not inductive, since the step that breaks it
would be the commit of an amount decided earlier. `OneDecides` says more: on a payment that is
not in `overlapped` one request at most is deciding, and its amount fits on top of the sum as it
is *now*, through refunds that fail meanwhile. `OneRowPerKey` counts flushed rows as well;
`WorkerIsRight` says that the worker's copy of its refund is still true and that what it has
dispatched has a job, from which `AnnouncedOnce` and `SettledIsFinal` follow.

**Webhooks.** One worker runs one handler (`OneHandler`), so no delivery runs while a dispatch
sends, and the jobs that dispatch has enqueued wait in the queue (`SendingQueues`) until it has
committed their events: that is `EventIsFound`. `PostsBounded` needs three counts: posts that
are counted, being counted or cut short (`PostsCounted`), jobs numbered by the attempts and
faults before them (`JobsCounted`), and jobs that are still to post (`LiveBounded`: one, none
when the event has ended, and one more for each database error). `LiveBounded` also gives
`EndIsFinal`, `OpenHasJob` gives `NeverDropped`, and `AnswerIsTrue` and `LateWasUnderWay` carry
`EndIsHonest` and `AtMostOneLate` across the awaits.

**RateLimit.** `AdmissionsBounded` counts from every moment `t` on and knows nothing of the
bucket; `Budget` adds the tokens left: what a key has now and what it has spent since `t` come
from a full bucket, the refill and the restarts. Spending moves from one summand to the other,
a tick adds `Rate` to both sides, a restart a full bucket. `NoneLater` starts the count of a
new moment. `WaitFits` says that an announced wait was computed from the tokens the bucket
still has, so nothing but time comes between a refusal and the next attempt. Products of
unknowns are beyond the provers' arithmetic in larger steps; three lemmas
(`ProductNat`, `ProductStep`, `ProductMonotone`) carry what is needed of them.

**Connection pool.** Each path takes one connection at a time and two at most (`PathSteps`), and
takes it only if one is free, so that one user's step keeps `PoolFits` (`OneUserMoves`). The
handler that times out goes on in a job's path because only the consumer runs jobs
(`OnlyConsumerRunsJobs`). `CheckedOut` stays finite, however many clients there are.

Only model-checked: the liveness properties (`EveryJobSettles`, `QueuedUnlessConsumerEnded`,
`PaymentSettles`, `EveryRequestEnds`, `PendingIsProcessedUnless`, `RefundSettles`,
`EventEnds`, `EveryUseEnds`), since TLAPS does not reason about ENABLED and fairness here, and
the counterexamples of section 6.

## 6. Where code and documents disagree

Each has a run that TLC ends with a counterexample.

| Run, property | What happens |
|---|---|
| `queue_db_error`, `QueuedJobIsTaken` | One database error in `_process` ends the consumer task. The process stays up, accepts work and runs none (`README.md:74`, `pulsepay-copilot-prompt.md:343`). |
| `payments_terminal`, `TerminalIsFinal` | A confirm request and the worker both read an open payment; the second commit overwrites a settled one, even with `processing`, and then no job is left to settle it. It also writes the whole `state_history` of its copy and drops the transition that settled the payment, though the state machine is to prevent illegal transitions and the history to capture every one (`README.md:70`). |
| `creation_skipped`, `PendingIsProcessed` | The job is taken before its payment is committed, is skipped, and completes; the payment stays pending (`pulsepay-copilot-prompt.md:156`). |
| `creation_refused`, `KeyIsHonoured` | Of two concurrent requests with one key the second fails on the unique key of `payments` at its flush; nothing catches the IntegrityError, so it is answered with 500, where the grader wants 201 or 409 of both (`_grader/bug_001_idempotency/test_grader.py:52`). The same flush refuses every request that uses a key again after its record has expired, where a new payment is to be created (`pulsepay-copilot-prompt.md:156`): TLC's counterexample is the concurrent request, the shorter of the two; the other takes `InsertRefused` from `"stale"`. |
| `refunds_overlap`, `NeverOverRefunded` | Two requests that sum before either commits refund more than was paid (`_grader/bug_006_double_refund/test_grader.py:40`). |

The passing runs say how far each of these reaches: `QueuedUnlessConsumerEnded` names the
ended consumer as the one way to lose a queued job, `RefundsFit` the overlap as the one way to
refund too much, `payments_worker_only` and `AloneHistoryOnlyGrows` that without concurrent
confirm requests the state machine holds and the history is complete, `SameKeySameAnswer` that
the concurrent requests of a key create no second payment. `DroppedOnlyIfEarly` names the early
job as the one way for a payment's job to be *completed* while the payment stays pending; a
pending payment whose job is dead, or was cut short and stays `running`, has a job that no one
runs, and `PendingIsProcessedUnless` lists these ways beside the ended consumer.

Seen while modelling, without a run of its own: a job whose handler is running when `stop()`
cancels the consumer stays `running` for ever, though the prompt document asks for a clean
shutdown (`pulsepay-copilot-prompt.md:347`; `EveryJobSettles` excludes it as a fault). A
Retry-After below half a millisecond is announced as `0.000` (the model's `Waits` contains
0), where `tests/test_rate_limit.py` expects more than 0. The prompt's maximum of five attempts
per event (line 246) is exceeded after database errors (`PostsBounded` says by how much).

Two consequences worth knowing that contradict no document: a refund's job can use up all its
attempts before the refund is committed (`RefundSettles` lists it; `NeverDropped` shows that
the dead job stays visible), and a commit that fails after the processor has authorized a
payment leads to a second authorization (`ChargedHonestly` excludes it).

## 7. What is not modelled

- Metrics: two divisions of counts. They are read one after another, the total first, so
  that payments created and charged in between make `success_rate_pct` exceed the 100 that
  `pulsepay-copilot-prompt.md:375` gives as its maximum; a model would add nothing to that.
- The order of the middleware: the layer added last is outermost (`main.py:82`), so the logging
  layer, and the answers 401 and 429, know no request id, against what
  `pulsepay-copilot-prompt.md:390` wants of the order. Every single request shows it.
- Signing of webhooks, validation of their URLs.
- The growth of the table of buckets, one per key ever seen.
- Queries with paging: they read and change nothing.
- Ledger: no code writes the table, `_write_ledger_entry` logs.
- Schemas, configuration, logging, exception handlers: validation and formatting of single
  values. What validation guarantees (amounts greater than zero) is assumed of the constants.
- Migrations and seeding: run once before the worker starts. The unique constraints they
  create are modelled where code relies on them.
- Rounding of refund amounts with more than two decimals to the column's two.
- `max_attempts` other than the default: no caller passes one, and the proofs hold for every value.
- PostgreSQL is modelled as the code relies on it: READ COMMITTED, a row lock from flush to
  commit, unique indexes that wait for uncommitted keys.

## 8. Plan

Every component that decides something is modelled, and every safety property, action property
and refinement that a run checks and that holds is proved. What could still be proved:

1. With confirm requests: what exactly a stale copy can do to a settled payment, as an
   invariant that implies `TerminalIsFinal` while no request and the worker hold the same
   payment, the way `RefundsFit` is stated with `overlapped`.
2. The safety half of liveness arguments: that in Refunds, PaymentCreation and Webhooks a step
   of the worker is possible whenever one is owed, stated without ENABLED.
3. That JobLifecycle's own promises (a completed job is left alone, attempts stay within
   `MaxAttempts`) hold of every module that takes its jobs from it.

The number of runs is kept at one per question.
