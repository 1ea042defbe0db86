# Verification of lead-scoring

TLA+ models of the lead-scoring backend (Go, Postgres, Redis) and of the page that shows a
lead, checked with TLC and proved with TLAPS. Paths are relative to `src/`.

## The system

| Part | Code | State | Operations | Correct when | Module |
|---|---|---|---|---|---|
| Job store and queue | `internal/platform/jobs/store.go`, `migrations/003_jobs.sql` | rows of `jobs`, the Redis list of ids, the Redis event channel | `Enqueue`, `ClaimNext`, `Complete`, `Fail`, `Get`, `Subscribe` | a job has one owner, one outcome, at most one score; no job is stranded | `JobQueue` |
| Worker | `cmd/worker/main.go` | position in its loop, the job in hand, its context | the loop, SIGTERM | it brings every job it claims to its end | `JobQueue` |
| Idempotency | `internal/platform/idempotency/store.go`, `CreateLead` in `internal/lead/controller/http.go` | three Redis keys per client key: `:request-hash`, `:response`, `:lock` | `Begin`, `Complete`, `Abort` | one lead per key; one body per key; answers and replays say the truth | `Idempotency`, `KeyedCreation` |
| Lead caches | `internal/lead/service/service.go` over `repository/postgres_repository.go` | Redis copies of leads, list pages and latest scores | get, create, update status, list, score, latest score | no copy stays behind its row; a refresh after a score job shows its score | `LeadCache` |
| Embeddings | `ensureLeadEmbedding`, `embedding/embedder.go`, `FindSimilar` | `lead_embeddings` | read, embed, upsert, search | only vectors of one model are compared; what is scored is embedded | `Scoring` |
| Scoring | `internal/lead/scoring/scorer.go`, `ScoreLead` | `lead_scores` | `Score`, fallback, insert | a probability within bounds, monotone in what speaks for a lead; the fallback answers | `LocalScorer`, `Scoring` |
| Process metrics | `internal/platform/appmetrics/metrics.go` | a registry per process | observe, count, format | a scrape is about the samples it counts; what the docs list is exposed | `Scoring` |
| Router and handlers | `internal/http/router.go`, `internal/lead/controller/http.go` | request metrics | every route | every answer is counted once, errors as errors | `Routes`, `Gateway` |
| Authentication and rate limiter | `internal/platform/auth/middleware.go` | a Redis counter per class of route and minute | `Wrap`, `allow` | no more than the limit per window; counters go away | `Gateway` |
| Job events to the browser | `internal/http/ws.go`, `web/src/pages/LeadDetailPage.tsx` | subscription, page state, refreshes under way | events, refresh, Run score | the page ends up with the newest score and a free button | `LeadPage`, `PageOverQueue` |
| Processes and wiring | `cmd/api/main.go`, `config`, compose files | - | start-up, shutdown | - | not modelled |

How they interact. A request passes the authentication and the limiter, its handler calls
the lead service, and its answer is counted. To create a lead or to score one the service
calls `Enqueue`, which inserts a `jobs` row, pushes its id to the Redis list and publishes
`queued`: three calls to two stores, with no transaction around them. A worker pops the id,
claims the row with a guarded UPDATE, does the work through the same lead service (which
reads and fills the shared caches, embeds the lead, searches its neighbours, scores and
inserts), and records the outcome with an unguarded UPDATE. Every status is published to the
WebSocket hub, and the browser reloads what it shows on `completed`. A creation with an
`Idempotency-Key` is bracketed by Redis scripts.

What is hard here: steps of several processes between two remote calls; calls that fail
before or after they took effect; ids lost between Redis and Postgres; a SIGTERM or a
closed client connection, which cancels the context that the cleaning-up needs; keys that
expire under a slow holder, or never; cache fills that arrive late; processes configured
with different models; events nobody was subscribed to; rounding after clamping. `hazards`
in `PROJECT.json` lists each of these at its line, with the properties about it.

## Modules

* `JobLifecycle` is the abstract specification: what one row of `jobs` goes through, with no
  queue, worker or failure. `Submit`, `Start`, `Record` (the score row), `Complete`, `Fail`.
* `JobQueue` is `store.go` with the callers of `Enqueue` and the worker's loop. It implements
  `JobLifecycle` under `status <- row`, `scored <- {j : scores[j] > 0}`.
* `KeyedCreation` is the abstract specification of lead creation: a key with one holder, which
  keeps it for replays once it has created its lead. `Idempotency` is the code: the creation of
  a lead under one key, with the three Redis keys. It implements `KeyedCreation`.
* `LeadCache`: the service methods over the three caches.
* `LocalScorer`: `conversionProbability`, a pure function, in exact arithmetic. `Scoring`
  extends it with the calls that embed, search and score.
* `Routes`: every route with the statuses its handler answers. `Gateway` extends it with what
  a request passes on its way.
* `LeadPage`: the page of one lead and its socket, over jobs that live the life of
  `JobLifecycle`. `PageOverQueue` puts the page on top of `JobQueue` instead, and is shown to
  implement `LeadPage`.
* `JobQueueProofs`, `IdempotencyProofs`, `LeadCacheProofs`, `LocalScorerProofs`,
  `ScoringProofs`, `GatewayProofs`, `LeadPageProofs`, `PageOverQueueProofs`: the proofs about
  each.
* `MCJobQueue` (three `.cfg` files), `MCIdempotency`, `MCLeadCache` and `MCScoring` (two each),
  `MCGateway`, `MCLeadPage`, `MCPageOverQueue`: the instances TLC checks.

Some definitions are mistakes that would be easy to make in this code: a comment beside each
names the property it breaks. No specification uses them; each has been seen to break that
property.

### JobQueue

| Variable | Stands for |
|---|---|
| `row` | `jobs.status`; `absent` before the INSERT |
| `api` | where the request is in `Enqueue` |
| `queue` | the Redis list, in the order of BRPOP |
| `pc`, `held` | where the worker is in its loop, and the variable `job` |
| `stopping` | workers whose `signal.NotifyContext` is cancelled |
| `caught` | those of them still in the remote call the signal found them in |
| `scores` | rows of `lead_scores` by the job that inserted them |
| `published` | statuses that were published for the job |
| `hit`, `unreported` | history: interrupted jobs, and jobs whose end could not be written down |
| `faults`, `stops` | the budgets spent |

One action is one remote call: `Insert`, `Push`, `PublishQueued`; `Poll`, `Pop`, `Claim`,
`PublishRunning`, `WorkOk`/`WorkError`, `Complete`/`Fail`, `PublishFinal`. Each call that can
fail has one action for "not executed" (`...Error`, `...Lost`) and one for "executed, reply
lost" (`...ReplyLost`), with what the code does next: `Enqueue` ignores the errors of LPUSH
and of the publish, `ClaimNext` those of the publish, the loop ignores that of `Fail` and
logs that of `Complete`. `Enqueue` has returned the job when `api` is `done`, and an error, or
nothing to anybody, when it is `failed`. `PushTwice` is the client library's own retry, the only way an id
gets into the list twice. `WorkOk` and its variants fold all that `UpsertLeadEmbedding` and
`ScoreLead` do into the one effect other jobs' rows can tell, the INSERT into `lead_scores`;
`Scoring` and `LeadCache` take those methods apart.

After a SIGTERM each call of the worker that uses the context fails, at no cost in faults.
`database/sql` does not send a call that begins with its context cancelled, so only the call
the signal found the worker in (`caught`) may have been carried out and return an error all
the same; a BRPOP in flight may still succeed.

`FinishRefused` is the end that cannot be written down though nothing is broken. `Complete`
returns the error of `json.Marshal` before its UPDATE when the result of a score job holds a
similarity that is NaN: one neighbour has a vector of zeros, another one gives the score its
number, and the score row is in. `Fail` is refused when the error it is to store quotes bytes
of the embedding provider that are no text to Postgres. The loop logs the first and ignores
the second, and the row stays running. The queue does not know of vectors, so any score job
may meet the first; `Scoring` shows where the NaN comes from.

### Idempotency

The requests with one key, each with a body; other keys share no state. `lock` and
`response` name the request whose token or lead they hold, `hash` the stored body. The
scripts are single actions, because Redis runs them so; the `GET` after the status 1 is an
action of its own (`Replay`). `gone` are requests whose client has left, which cancels
`r.Context()` for the calls that are left. `ExpireLock` may take the lock from a running
handler only if `SlowHandlers`. `ExpireHash` waits for the lock, and `ExpireResponse` for the
hash: the hash is set together with the lock but for 24 hours, and the response is set later
than the hash with the same TTL.
`lapsed` remembers the requests whose protection ended (an expired lock or response, or an
INSERT whose reply was lost): the properties say what holds up to then. The answers of
`writeError` and `writeJSON` are named by `answer`; `answer` is set where it is decided, and
a killed process takes it back.

`KeyedCreation` has one variable `holder` for what Redis keeps in two keys. It reads
`IF lock # None THEN lock ELSE response`: the script of `Complete` writes the response and
deletes the lock in one step, so the holder does not change. A request whose lock expired
while its handler runs has lapsed, and may still create a lead without holding the key, as
the code lets it. `OneBodyPerKey` says what keeping the hash through `Abort` amounts to:
until the hash expires (`forgotten`), all requests that reach the service have one body, so
neither a second payload gets in nor can a client correct a refused body under its key.

### LeadCache

One lead, one list page that shows it, its latest score; a version number stands for the
content of a row. A request has a list `todo` of the calls it has still to make, which is
the body of the service method (`Plan`); a cache miss adds the read and the fill. `late` and
`missed` remember the caches that received an old value or that a failed call did not
refresh. `Abandon` is an error of Postgres or a killed process.

### LocalScorer and Scoring

A probability is an integer: weights and probabilities in ten-thousandths, the sum before
`math.Round` in units of 10^-8, so that clamp and rounding are exact and in the order of the
code. The distance to a vector of zeros is NaN, which passes both comparisons of the clamp;
`Probability` follows it to the end. (Go computes in binary floating point: a sum that is not
exactly a half in decimal may be rounded the other way by it, one ten-thousandth away.)

In `Scoring` a call is one of `UpsertLeadEmbedding`, `SimilarLeads`, `ScoreLead` and the scrape
of `/metrics`, in the process that runs it. Its steps are the remote calls: `LoadLead`,
`ReadHit`/`ReadMiss`, `Embed`/`EmbedZero`, `Upsert`, `Search`, `DecideLocal`/`DecideRemote`/
`DecideFallback`, `Insert`/`InsertRefused`, and the two atomic adds of an observation (`AddDuration`, `AddSample`). `StepFails` and `ReplyLost` are
the failures of each. A decision is who decided, the probability, and whether Postgres takes
the reasoning as text: the remote scorer's may hold a zero byte, and the fallback's quotes the
error of the remote scorer with up to 4096 bytes of what it sent. `Storable` is both that and
the CHECK of `migrations/001_init.sql`. A neighbour whose similarity is NaN keeps the remote
scorer from being asked at all (`CanAsk`). A vector is the model it claims, the version of the provider behind
that name (`Drift` changes it) and whether it is all zeros. `Deployments` are the
configurations of the two processes: they may name different models while one of them has
not been redeployed. The vector index is approximate, so `Search` may miss neighbours.

### Routes and Gateway

`Answers[route][outcome]` is the status a handler writes for each way its request can end;
`Guarded`, `Expensive` and `Counted` are the path tests of `middleware.go` and `router.go`.
`Gateway` takes a request through `Pass`/`Unauthorized`/`Allow`, `Incr`, `Expire`, `Serve` and
`RecordRequest`. The clock counts minutes; `Tick` may come between any two steps, but no
request takes more than `MaxLag` minutes from its `time.Now` to its handler, which the
two-second timeouts of the Redis client justify. `IncrTwice` is an INCR repeated by the client
library, `IncrFails` one with an error, executed or not. `admitted`, `wasted`, `interrupted`,
`entered` and `measured` are history. A crash sets the request metrics to zero and leaves the
counters of Redis as they are.

### LeadPage and PageOverQueue

The jobs are `JobLifecycle`'s. `End` puts the event of the outcome into `outbox`, `Publish`
delivers it to a subscribed page (Redis keeps nothing for anybody else); `EndUntold` is an
end whose event is never published, `PublishLost` a publish that fails. `Mount` opens the
page, `Subscribe` is the hub's, `HandleEvent` is `onmessage`, `Click`, `Accept`, `Refuse` and
`Failed` are `onScore` up to and after its await; `SubmitClick` is the INSERT of the API in
between. A refresh goes through `LeadAnswers`, `ReadScore` and `ShowScore`, and several may be
under way. `missed` and `stale` remember that the page was not told of an end, or that
refreshes overlapped, failed or were answered with an older score. `LatestLeadScore` answers
from the score cache, and `LeadCache` shows that the cache may be behind with nothing lost and
nothing overlapping; which old score it holds depends on requests of other pages. `ReadScore`
therefore answers with any score that once was the newest. Lost events and refused requests have no bound here, closed
sockets and failed refreshes share `MaxFaults`.

`PageOverQueue` extends `JobQueue`. Each of its steps is a step of the queue together with
what the page gets of it, or a step of the page:

| `LeadPage` | in `PageOverQueue` |
|---|---|
| `status`, `scored` | `row`, the jobs with a score |
| `outbox` | the events of the workers that are about to publish an outcome |
| `SubmitClick`, `SubmitElsewhere` | `Insert`, once the job has been clicked if it is one of the page |
| `Accept` | `Enqueue` has returned (`api = "done"`) |
| `Refuse` | the INSERT reports an error, the API dies, or the request or its answer is lost |
| `Record` | `WorkOk` and `WorkReplyLost` of a score job |
| `End`, `Publish` | `Complete` or `Fail`, then `PublishFinal` |
| `EndUntold`, `PublishLost` | `FinishReplyLost`; `PublishFinalLost` or a crash before the publish |
| a stutter | everything else the API and the workers do |

The jobs of `PageOverQueue` are those of one lead: the jobs of others would only keep workers
busy. An event is delivered once at most; the client library could repeat a PUBLISH whose
reply it lost, which is left out (the page would refresh, or free its button, once more).

## Runs

| Run | Checks | Bounds | States |
|---|---|---|---|
| `jobqueue_safety` | type, ownership, scores, events, losses, final statuses, the refinement, `EveryJobProgresses` | 1 embed and 1 score job, 2 workers, 2 faults, 1 SIGTERM | 842 672 |
| `jobqueue_stop` | refutes `EveryStartedJobFinishes` | 1 job, no fault, 1 SIGTERM | - |
| `jobqueue_wake` | refutes `EveryQueuedJobStarts` | 1 job, 1 fault | - |
| `idempotency_safety` | type, protection, replays, answers, locks, `OneBodyPerKey`, the refinement of `KeyedCreation` | 3 requests (symmetric), 2 valid bodies and an invalid one, 2 faults, 1 disconnect, slow handlers | 265 064 |
| `idempotency_retry` | refutes `AtMostOneLead` | 2 requests, 1 body, no fault, 1 disconnect | - |
| `leadcache` | type, `FreshUnlessRaced`, `RefreshSeesScore`, `EventuallyFresh` | 3 operations: a writer, a reader of what it writes, any third one; 1 fault | 316 407 |
| `leadcache_refresh` | refutes `RefreshSeesLatestScore` | 3 operations, no fault | - |
| `scoring_safety` | type, `ScoredIsEmbedded`, `DecisionInBounds`, `MoreNeverHurts`, `FallbackKeepsScoring`, `ScrapeHasEverySample`, `NeighboursComparable` | 2 calls of any kind (symmetric), the weakest, a fair and the strongest lead, 2 models, 1 fault, 1 drift | 1 121 760 |
| `scoring_metrics` | refutes `FallbacksExposed` | the same calls, a remote scorer that fails | - |
| `gateway_safety` | type, `AtMostLimitPerWindow`, `BurstBounded`, `RefusalsEarned`, `LeakOnlyIfInterrupted`, `MetricsAccount` | 3 requests (symmetric) on an expensive, a general and an open route, limits of 1 and 2, 3 minutes, a lag of 1, 1 fault | 1 647 623 |
| `leadpage` | type, `FreedByAnotherJob`, `ShownIsNewest`, `ButtonReleased` | an embed job, a score job of the page and one from elsewhere, any of which may never end, 1 fault | 623 526 |
| `pagequeue` | `NobodyWaitsInVain`, `ImplementsPage` | an embed job and a score job of the page, 2 workers (symmetric), 1 fault of the queue, no SIGTERM, a page that stays connected | 941 547 |

Why the bounds are enough. Two workers and one duplicated id are what a double claim needs;
two faults allow a duplicate together with the loss of a reply or a crash, which is what a
second execution of a job would take; two jobs tell the ids apart in the list. For the
idempotency key a holder, a stranger that takes over the lock and a third that replays or
conflicts are the roles there are. For the caches a writer, a racing operation and a later
reader; requests are numbers there, so that each multiset of operations is tried in one
order only. For the embeddings two calls that meet on one lead, with two more leads as
neighbours that were won and lost; the extreme profiles reach both ends of the scale. For
the limiter three requests exceed either limit, and two minutes after its first INCR a
counter expires while the clock still goes on. For the page a job of another type, one of another
origin and its own, and refreshes of all three at once. For the page over the queue a job
that is not its own, which may free the button, fill the list and lead the second worker; a
closed socket or a failed refresh is a step of the page alone, and left to `leadpage`. The
proofs then remove these bounds from every safety property.

Deadlock. `Idempotency`, `LeadCache`, `Scoring`, `Gateway`, `LeadPage` and `PageOverQueue` let a fixed
set of requests or jobs run to its end, so their configurations do not check it. `JobQueue` never
ends, and deadlock is checked.

Fairness. A request that has inserted its row goes on to push and publish (a Go handler that
is not killed does). A worker that is up goes on with its loop, and one that is stopping
goes on through its refused calls. In `LeadCache` requests run to their end and Redis honours
TTLs. In `LeadPage` published events are delivered to a subscriber, and requests are answered
or fail; nobody has to open the page or to click, and no job has to start or to end, because
the queue has many ways to strand one. `ButtonReleased` is therefore conditional on the end of
the page's own jobs. No fault is ever
owed, nobody owes a new job, and no dead worker is owed a restart: `docker-compose.yml` gives
the worker no restart policy. The liveness properties of the queue are therefore conditional
on some worker staying up. `Idempotency`, `Scoring`, `Gateway` and `PageOverQueue` state
no liveness and no fairness.

## What the violations show

* `jobqueue_stop`: an ordinary SIGTERM in the middle of a job makes its work return an error,
  `Fail` is called with the context that the signal has cancelled, and the row stays `running`
  for ever while another worker is up.
* `jobqueue_wake`: an LPUSH fails, `Enqueue` discards the error and returns the job, and the
  workers poll an empty list for ever: nothing re-reads queued rows.
* `idempotency_retry`: a client that disconnects after the INSERT and retries two minutes
  later gets a second lead, because `Complete` is called with the cancelled request context.
* `leadcache_refresh`: the score cache is last-writer-wins, so an older score may be cached
  after a newer job has completed, and is served for the TTL.
* `scoring_metrics`: scoring runs in the worker, whose registry no route exposes, so the
  fallback counter that the monitoring guide lists for the API stays zero.

`LostOnlyIfInterrupted`, `FallbackKeepsScoring`, `Protected`, `RefreshSeesScore`, `ShownIsNewest`,
`FreedByAnotherJob` and `LeakOnlyIfInterrupted` have the other form: they name the ways in which
the promise fails, and say that the modelled code has no further one. So a job may stay running
for ever with no fault and no SIGTERM (its end could not be written down); a score job may fail
because of the remote scorer, by the bytes it sends; the page may show an older score than the
newest (a missed event, overlapping or failed refreshes, a score cache that is behind, a job
that failed after its score row); its button may be freed by a job it did not submit; and a
counter of the limiter may never expire (a failure between INCR and EXPIRE).

## Proofs

Every theorem holds for all values of the constants, from the named assumption of its module:
bounds are naturals, kinds of jobs are disjoint, `None` is no data. In the gateway, also that
`MaxLag` is below the TTL of a counter; in scoring, that a search returns five neighbours at
most. No safety property is inductive alone; each module of proofs strengthens them to an
`IInv`, proves `InductiveInvariant`, and reads the properties off it.

* `JobQueueProofs`. `Complete` and `Fail` look at no status, so `FinalIsFinal`,
  `EventsFollowRow` and the scores rest on `ExclusiveOwner`; that one rests on the guard of
  the claim, which finds the row queued while an owner's row says running; `RowMatchesPc` and
  `ScoreMatchesPc` tie each owner to what its job has done so far. From it: `TypeCorrect`,
  `ExclusiveOwnerHolds`, `AtMostOneScoreHolds`, `OutcomeMatchesScoreHolds`, `EventsHold`,
  `LostOnlyIfInterruptedHolds` (each step that drops a job that is not over puts it into `hit`
  or into `unreported`); `Refinement`, each step being a step of `JobLifecycle` or a
  stutter; and `FinalIsFinalHolds`, read off the abstract step.
* `IdempotencyProofs`. `KeysAgree` (the lock and the response exclude each other and both
  belong to the stored hash) and `HandlerKnows` (what a handler knows of its lead at each
  point) make `ProtectedHolds`, `ReplaySoundHolds`, `AnswersAreTrueHolds`,
  `ResponseMatchesHashHolds` and `ForeignLockSafeHolds` inductive. `HashKept` adds that the
  hash stays as long as a request relies on it, whence `OneBodyPerKeyHolds`. `Refinement`
  takes every action to a step of `KeyedCreation` or a stutter: `KeysAgree` makes the two Redis
  keys one holder, and a handler that creates without it has lapsed.
* `LeadCacheProofs`. `Shapes` says which calls can follow which in what a request has still to
  do, `Memories` what it has in hand when it makes a call: a fill is late only if its value
  was read or written before the latest write. `ScoreKeepsUp` adds that the score cache and
  every reader are at least at the newest finished job. From it: `TypeCorrect`,
  `FreshUnlessRacedHolds`, `RefreshSeesScoreHolds`.
* `LocalScorerProofs`. `ProbabilityInBounds`: 15 % to 95 % for any lead and up to five
  neighbours, so that the lower clamp is never reached. `ProbabilityMonotone`: clamp and
  rounding keep the order. `ScoringProofs` shows that what `ScoreLead` passes to the scorer
  satisfies the assumptions of both (`DecisionInBoundsHolds`, `MoreNeverHurtsHolds`), and proves
  `ScoredIsEmbeddedHolds`, `FallbackKeepsScoringHolds` (a call that fails without a fault has
  decided, and the decision tells why), `ScrapeHasEverySampleHolds` and
  `NeighboursComparableHolds`. `Steps` says what each call has in hand at each step, `Vectors`
  that what is stored under a model is of it, `Samples` that a total is ahead of its count by
  the calls between the two additions.
* `GatewayProofs`. `Count` is the invariant of a window: its counter cannot expire before the
  last request of its minute has counted, and until then covers all it admitted
  (`AtMostLimitPerWindowHolds`); what it counted beyond is refused or lost
  (`RefusalsEarnedHolds`). `Passed` counts the requests a window let through, and two windows
  make the burst (`BurstBoundedHolds`). Also `LeakOnlyIfInterruptedHolds` and
  `MetricsAccountHolds`.
* `LeadPageProofs`. `Reaches` lists where a new score can be on its way to the page: the job
  still to complete, the event to publish or to handle, the refresh to read or to show it.
  Each step moves it from one to the next, if refreshes do not overlap and the cache is not
  behind (`ShownIsNewestHolds`). `Truthful`, that an event tells the status of its job, gives
  `FreedByAnotherJobHolds`. `Asked`, that a job of the page has a row only after its click and
  before its acceptance, gives `WaitsForItsJobHolds`: whoever ends the wait of a page that has
  missed nothing also ends what it waited for.
* `PageOverQueueProofs`. `QueueStep` forgets the page, so that all of `JobQueueProofs` holds
  (`QueueUnderPage`). `PageRefinement` forgets the queue: `NextSimulated` takes every step, those
  of the queue action by action, to a step of `LeadPage` or a stutter. It needs the queue's
  invariant, because an UPDATE by id alone is a `Start`, `Complete` or `Fail` of
  `JobLifecycle` only in the hands of the job's owner; and `OnePublisher`, that two workers
  never have an event of one job to publish, because the publish of one would otherwise leave
  its event in the `outbox` of the other. The two are inductive together (`LiveInvariant`).
  Then the theorems of `LeadPageProofs` hold of the instance (`PageKeepsItsPromises`), and with
  the queue's `LostOnlyIfInterrupted` they make `NobodyWaitsInVainHolds`: a page that says
  *Scoring...* and has missed no event waits for an answer, for a job that a request, the list
  or a worker still has, or that a fault, a SIGTERM or an end that could not be written down
  has stranded, or for an event on its way.

Only model-checked: the liveness properties `EveryJobProgresses`, `EventuallyFresh` and
`ButtonReleased` (temporal reasoning under fairness is beyond the prover used here), and the
violations.

## Not modelled

* Start-up, configuration, connection pools, log shipping, OpenSearch and the monitoring
  stack: I/O that keeps no state of the program. What is configured is a constant or a choice
  of `Init`.
* The numeric content of vectors, the text of prompts, reasonings and answers, the decoding of
  bodies and the pagination: no property is about them, but for whether Postgres takes a
  reasoning as text. Paths that no route matches are
  answered by the standard library or the web UI before any of this code's state.
* `LeadsPage` and `LoginPage` fetch and show; the text of the live job strip in
  `LeadDetailPage` is overwritten by every event.
* The counters of jobs and cache hits in `appmetrics`: increments nothing depends on.
* `Get`, `Subscribe` and the score history change no state and appear as reads. A creation
  without a key has no idempotency state. The retry of `Begin` by the client library is
  modelled once per request.

## Possible extensions

The page over `LeadCache`, so that the older score it is answered with comes from the requests
that cached it; the vectors of `Scoring` under the results of the queue; two lists of the caches, to
tell pages apart; an event that is published twice.
