# Sentinel: a verification project in TLA+

This directory models the Sentinel content safety platform, the repository it
sits beside, checks the models with TLC and proves their safety properties with
TLAPS. Every definition is translated from the code under `src/sentinel/`, and for the
promotion of models under `scripts/`;
documents and tests were read for what they promise. `PROJECT.json` lists the
components, the runs, which lines each definition models, the hazards of the
code and the theorems.

From this directory, `tlc -config <run>.cfg <module>.tla` runs a check and
`tlapm <module>Proofs.tla` checks the proofs about it.

## The system

| Component | State | Operations | What is hard |
| --- | --- | --- | --- |
| Job service (`distributed/service.py`, `api/routes.py`) | job in Redis, input topic | `submit`, `get` | several threads per process, Redis and Kafka updated one after the other, a publication that fails or times out |
| Event processor and worker loop (`distributed/processor.py`, `worker.py`) | job in Redis; retry, result and dead-letter topics; committed offsets | poll, `process`, retry, dead-letter, commit | a crash between any two calls, redelivery, several workers, eviction from the group |
| Adapters (`distributed/adapters.py`) | Redis keys with a time to live, Kafka producer | `create` (SET NX), `get`, `save` (SET XX), `publish` | a job that expires in flight, a lost acknowledgement |
| Review service (`review/service.py`, `api/reviews.py`, `review/auth.py`) | cases and audit chains | enqueue, claim, decide, appeal; list, export | roles that change, competing reviewers, one case per request |
| Review ledger (`review/repository.py`) | JSONL file and its projection in memory | commit, replay | an append that fails or is cut off, restart, order of file, memory and answer |
| Request guard (`security/middleware.py`) | token bucket per client | read body, take a token, prune | bounded table, overflow bucket, arithmetic at the boundary, slow uploads |
| Threat intelligence (`threat_intelligence/`) | vectors in Qdrant, one per request id | search, then upsert | moderations between search and upsert, ids that are sent again, calls that fail |
| Moderation engine (`core/`, `ml/`) | none | `moderate`, rule scan | several sources of scores at the thresholds |
| Multimodal engine (`multimodal/`) | none | `moderate`, image inspection | disagreement of modalities, header parsing, refusals at several stages |
| Lifespan and composition (`main.py`, `runtime.py`, `security/config.py`, `distributed/bootstrap.py`) | settings and the objects of one process | import, start, stop | a startup that fails half-way, one switch read by two parsers |
| Evaluation (`evaluation/`, `scripts/check_evaluation_gate.py`) | corpus, scores, report | load, score, gate | rates over empty slices |
| Observability (`observability/`) | counters, the backlog gauge | increment, refresh | a gauge that lags the cases |
| Supply-chain checks, training scripts | files | - | - |

For a synchronous request the API calls the engine and hands responses that
need a human to the review service. The asynchronous path goes from the API
through Redis and the input topic to a worker, and from there to the result
topic and Redis. API and workers share nothing but Redis, Kafka and Qdrant;
review and request guard live inside one API process.

What makes each part correct:

- pipeline: an accepted job is decided, no event is lost, what Redis shows was
  published, one request id stands for one content, duplicates come from faults;
- review: the ledger and the projection tell the same story, the trail of a
  case is one unbroken path, only the claimant decides, only senior reviewers
  handle appeals, one case per request;
- request guard: exactly the configured allowance, with exact headers, in
  bounded memory;
- threat intelligence: a campaign is acted on once its members are answered, a
  replay is no evidence, and what concurrency lets escape is bounded;
- engines: the strictest evidence decides, the signals explain the decision, a
  contradiction of modalities reaches a reviewer, a refused request leaves no
  trace;
- rule scan and image walk: all phrases that occur, the first frame, and an end;
- API process: production is guarded as configured, ready means complete, a stop
  closes all connections;
- evaluation: no degenerate model or corpus is promoted.

## Modules

### Asynchronous pipeline

| Module | Models |
| --- | --- |
| `JobInfrastructure` | the Redis store, the topics, the committed offsets, the budget of faults |
| `JobService` | `DistributedModerationService.submit` in threads: SET NX, GET and compare, publish, save after republishing, save after a failed publication, death of a call |
| `JobWorker` | the loop of `sentinel.worker.run` with `ModerationEventProcessor.process`: poll, reject, load, mark, publish result / retry / dead letter, save, commit, crash, shutdown, eviction, restart |
| `JobPipeline` | both, with expiry of Redis keys and foreign messages, fairness, and the properties |
| `JobLifecycle` | abstract: what a client that polls one job is shown |
| `AtLeastOnceDelivery` | abstract: acknowledged only once settled, and all acknowledged in the end |
| `MCJobPipeline` | the instances for TLC |
| `JobPipelineProofs` | the theorems |

A job id is the uuid5 of the request id and a fingerprint the hash of the
request, so the request id and the content stand for them. Each call to Redis
or Kafka is one action; `phase[t]` and `step[w]` say which call a thread or
worker makes next, and `tjob[t]` and `wjob[w]` are the Python objects they carry
from one call to the next, which is where stale data lives. `Save` is SET XX:
it does nothing for an expired job. `log[tp]` is one partition of the input or
retry topic, `committed[tp]` the offset of the consumer group.
`engine.moderate` may return or raise in every attempt (`PublishResult`,
`PublishRetry`, `DeadLetterExhausted`).

Faults are drawn from a budget `MaxFaults`, of the kinds in `Faults`:

- `publish_failure`: `publish` raises, and the event is or is not in the topic
  (`flush` timed out, also over another thread's event on the same producer);
- `api_failure`: the API process dies in a call, or a Redis call raises;
- `worker_crash`: a worker dies or a call in it raises, at any step. A call that
  took effect before it raised is the crash after that step;
- `shutdown`: SIGTERM between messages;
- `eviction`: the group gives a busy worker's partitions away; the worker goes
  on until its commit is refused;
- `settled_expiry`, `expiry`: a Redis key runs out with nothing in flight, or
  at any time;
- `foreign_message`: a message on a consumed topic that fails the schema.

Redis and Kafka themselves lose nothing. Metrics, timestamps and logging are
left out.

### Human review

| Module | Models |
| --- | --- |
| `ReviewLedger` | `JsonlReviewRepository`: the file line by line, the projection, commit with its failures, replay at startup |
| `ReviewWorkflow` | `ReviewService`: enqueue, claim, decide, appeal; roles and policy version change when the API is started again; the properties |
| `ReviewEndpoints` | the endpoints of `api/reviews.py` and the enqueueing of `api/routes.py`: the backlog gauge they refresh and the feedback they export |
| `MCReviewWorkflow` | symmetry for TLC |

The service lock and the single event loop make an operation atomic up to its
commit, so an operation is one action, and its commit succeeds, fails or is cut
off by the death of the process. A line of `file` is a record or garbage and
either ends with a newline or not; text written behind a line that did not end
becomes one garbled line with it. An append that fails (`write_error`) may leave
nothing, a part, all but the newline or all of the line: leaving the `with`
block flushes the buffer a second time. `torn_crash` is the death of the
process within the append. The hash of an event is a number no other event has;
`damaged` remembers that an append failed or was torn. A principal is a
reviewer with the role the authorization file gave at startup; reason codes,
scores and times are left out. The gauge is part of the process: a restart
unsets it until the next call. A call that is refused (401, 403, 404, 409, 503)
is no step.

### Request guard

| Module | Models |
| --- | --- |
| `Allowance` | abstract: in every span of time a key is served at most its capacity plus its share of the span, a request within the allowance is served, remaining and retry-after are exact |
| `RequestGuard` | `ProductionSecurityMiddleware`: reading a body in chunks, taking a token with pruning, overflow bucket, refill and round-up |
| `MCRequestGuard` | symmetry for TLC |

The coroutine never waits between reading the clock and storing the bucket (the
lock is not contended, since its holder does not wait), so taking a token is one
action; while a body is read other requests pass. Tokens are counted in parts
of 1/`Window`, which makes the arithmetic exact. Exempt paths and a disabled limiter change no state.

### Moderation

| Module | Models |
| --- | --- |
| `ModerationPolicy` | thresholds, default rules, the risk of a campaign, signals, the decision and its fusion with image scores, as pure operators |
| `Moderation` | moderations that run side by side on the event loop, in threads and in workers, over the index: search, upsert, decide, answer, fail |
| `MCModeration` | its instance |
| `SynchronousModeration` | one request to the synchronous endpoints: decode, score the image, moderate the text, fuse, enqueue for review, answer, with the status of each refusal |
| `RuleScan` | `PhraseTrie.find` step by step; a node is the prefix that leads to it |
| `ImageInspection` | the loop of `_jpeg_metadata`, offset by offset over bytes |

In `Moderation` a text is the campaign it belongs to: contents whose vectors lie
within the similarity threshold of one another. Search and upsert are two steps,
since other processes call Qdrant in between, although on the event loop one
moderation runs to its end before the next begins. An image that comes without a
text touches no index. `Fail` ends a call at any point, with the vector stored
or not. The variables `prior`, `stored`, `answered` and `allowed` only observe.

In `ImageInspection` payloads are built of pieces (baseline and progressive
frames, stray and fill bytes, a Huffman table that contains a frame and whose
marker lies within the block of those of frames, segments that are too short) and cut off
anywhere at their end, so that the right answer is known from the pieces; the
walk sees bytes alone. Scores are hundredths.

### Process and promotion

| Module | Models |
| --- | --- |
| `ApiProcess` | import of the settings, the steps of `lifespan` with what each needs and opens, serving, shutdown |
| `Evaluation` | `load_cases`, scoring under each attack, rates and gates |
| `MCSequential` | `RuleScan`, `ImageInspection`, `SynchronousModeration`, `ApiProcess` and `Evaluation` side by side: an instance picks one part and the others stay |

`security/config.py` and `runtime.py` parse switches differently: `on` is true
for the one and not for the other, which `Boolean` and `RuntimeTrue` keep apart.
A production process with `SENTINEL_REVIEW_ENABLED=on` is therefore validated
with reviews and starts without them, which the model shows and no property
forbids: the repository's README promises reviews for `true` only.
`ProductionIsGuarded` is about the dangerous direction, reviews that run
although they were not validated. The environment `test` is treated by the
code as `development` is, and by the model too.

## Runs

| Run | Shows | Instance |
| --- | --- | --- |
| `delivery_safety` | no message is acknowledged unsettled; succeeded or exhausted jobs have their outcome published; offsets advance one by one; each decision beyond the first was paid for by a fault; a job that failed for good has nothing under way but redeliveries of settled work | 1 job, 2 threads, 2 workers, 2 attempts, any 2 faults of all kinds |
| `delivery_liveness` | the pipeline implements `AtLeastOnceDelivery`, including that the backlog drains | 1 thread, 2 workers, any 2 faults of all kinds |
| `conflicts` | one content wins under an id, and the result shown is its result | 2 contents, 2 threads, 1 worker, 2 faults |
| `lifecycle` | polling follows `JobLifecycle` and ends; an undecided accepted job is still worked on; the result shown is of the job's content, also when an id is used again after its job expired | 1 worker as in the Compose stack, 2 contents, 3 attempts, any 2 crashes, shutdowns, evictions or expiries of settled jobs |
| `review_workflow` | ledger and projection agree, startup never fails after whole appends, trails are paths, claimants decide, seniors handle appeals, one case per request; a gauge that shows anything shows the cases, an exported label is the last word in the ledger | 1 request, 2 policy versions, 2 reviewers, 2 verdicts, 7 events, any 2 faults |
| `request_guard` | token buckets implement `Allowance`; table and bodies are bounded | 2 clients, a table of 1, 2 requests per 3 s, 7 s, 5 served requests, bodies of at most 1 unit |
| `moderation` | a campaign with two answered members is not allowed any more, with five it is blocked; no campaign signal without its members; at most one escape for each process and one more | the event loop and a thread, 6 ids, 6 calls, 1 failure, 2 campaigns |
| `sequential` | rule scan, JPEG walk (also that it ends), synchronous request, startup and shutdown, promotion: each for all inputs of its instance | see below |

Four runs show where the program departs from what its documents say (listed
under `findings`):

- `retry_race`: with two workers and no fault, the retry event is decided before
  the worker that published it saves the job as accepted, and the late save
  stays. A decided job shows as accepted for as long as it is stored (24 hours), although ADR 0002 says that
  Kafka and Redis can *temporarily* disagree.
- `unpublished_job`: the API dies between SET NX and the publication. Later
  submissions of the id are answered 202 for a job no event exists for, so
  polling until it is decided, as the README tells, ends in a 404 once the job
  has expired after 24 hours.
- `succeeded_is_final`: a publication that timed out was delivered all the same,
  and `submit` saves failed over the result a worker stored meanwhile.
- `lost_record`: after an append that failed half way the next record is glued
  to the partial line. A transition that was answered with success is then not
  a line of the ledger. The run ends there; that the next startup is refused
  over the garbled line is a consequence (`Replays` is false of it).

Two related behaviours have no run of their own. The save after a republication
(`SaveAccepted`) can overwrite a decision as in `retry_race`; so
`AcceptedJobIsPending` is checked where publications do not fail. And only
succeeded stops an event, so one that comes for a job that failed for good makes
it processing again. `JobLifecycle` allows that, since the documents promise
suppression of duplicates and not that failed is final. What must not happen is
that work still due comes to a job that was given up: `ExhaustedIsSettled` says
that every event of such a job has had its outcome, so that only a redelivery
can open it.

### Why the bounds are enough

Two is the smallest number of threads and of workers that race. Two faults
cover a crash during the recovery from another, or an eviction after a failed
publication. Two attempts give a retry and its exhaustion, three a retry of a
retry. One job suffices for the safety of delivery: jobs share only partitions,
and a retry and an input event of one job already lie on different partitions
with different owners. The number of messages needs no bound of its own: only
submissions under an id that is free, retries and republications add one, and
faults pay for the repetition. Seven audit events cover claim, decision, appeal,
claim and decision of a case with one record lost; two policy versions and
roles drawn anew at each start cover demotion between claim and decision. Seven
seconds exceed two windows of three, after which idle buckets are pruned, and
capacity 2 per 3 seconds makes refills fractional.

Six calls are what the thresholds of a campaign ask for: five members that were
answered and one that comes after. Two processes race; a worker would take the
same steps as the event loop, so none is added. `FreshIdsInOrder` uses the least
id that is new, which loses nothing because new ids are interchangeable, and
`OtherContentOnce` lets a single id carry content of the other campaign: what a
replaced vector does to its campaign shows with one. `SearchLimit` is the
program's 20, above the number of ids, so no match is cut off.

`sequential` takes all pairs of phrases up to 3 of 2 letters over texts up to 4;
payloads of up to 3 of 7 pieces with up to 12 bytes missing, more than a whole
frame; 11 uploads, one for each way to be refused, with
every set-up of the process, rules one by one and together, model and label
scores on both sides of both thresholds, label probabilities that sum to at
most one, and two labels for one category; environments that differ in at most
two settings from those of development and production; corpora of up to 3 lines
with repeated ids, 3 attacks and scores on both sides of the threshold and out
of range. Disagreement, refusal and configuration are about pairs, which these
contain.

`CHECK_DEADLOCK FALSE` is set for `sequential`, whose computations end, for
`moderation`, whose calls are bounded, and for the review runs: when no event is left to be
made, or the ledger is refused at startup, the model stops, as a refused process
does.

### Fairness

`FairSpec` assumes weak fairness of each thread that is in a call (a thread of
the pool runs on without its client) and of each worker: it polls, handles what
it holds, commits, and is started again when it has ended. The last is the
operator's part: the job-pipeline runbook restarts the worker, the Compose file
does not. Nothing obliges a client to call or a fault to happen, and faults are
finitely many. No fairness is assumed between the outcomes of `engine.moderate`.

`sequential` assumes weak fairness of its next step: a loop of a running process
goes on. `InspectionEnds` needs it and nothing else.

## Proofs

The theorems hold for all values of the constants that meet the assumptions
below: any number of clients, threads, workers, reviewers, ids, texts, faults.
Each component's theorems are in a module of their own, and `tlapm <module>.tla`
checks it.

| Module | About |
| --- | --- |
| `JobPipelineProofs` | `JobPipeline`, with the safety of both abstract specifications |
| `ReviewProofs` | `ReviewLedger`, `ReviewWorkflow` and `ReviewEndpoints` |
| `RequestGuardProofs` | `RequestGuard` and its refinement of `Allowance` |
| `PolicyProofs` | the operators of `ModerationPolicy` |
| `SynchronousModerationProofs` | `SynchronousModeration` |
| `ModerationProofs` | `Moderation` |
| `SequentialProofs` | `ApiProcess`, `RuleScan`, `ImageInspection` and `Evaluation` |
| `CountingFacts` | lemmas on numbers and finite sets |

### Assumptions

TLC evaluates every assumption in the runs.

- `PartitionAssumption`: a job has a partition. `FaultsAssumption`: the budget
  is a natural. `SentinelAssumption`, `ErrorAssumption`, `RequestAssumption`,
  `MessageAssumption`, `UploadAssumption`, and parts of `LedgerAssumption` and
  `ModerationAssumption`: a value that stands for *none* is none of the values
  it stands beside.
- `ThreadAssumption`: the thread pool has a thread and finitely many.
  `ModerationAssumption` also takes ids, threads and workers as finite, and
  scores from 0 to 100; its `SearchLimit >= 6` holds with the program's 20, and
  is what five others besides a request's own vector need.
- `GuardAssumption`: capacity, window and table size are positive, which
  `_positive_integer` in `security/config.py` enforces.
- `EnvironmentAssumption`: a setting has one of its values.
- `ScanAssumption`: phrases are not empty, as those of all rules are.
- `EvidenceAssumption`, `LabelAssumption`: severities and probabilities lie
  between 0 and 1, labels are mapped to reviewed categories, and no rule speaks
  in the name of the fusion.
- `ScoreAssumption`, `RequirementAssumption`: scores are naturals, and the gates
  ask for some recall and allow fewer false positives than all, as
  `evaluation-gates.json` does.

Five hypotheses on the instance appear in theorems about the pipeline, each only
where the property fails without it:

- `NoExpiry`: no Redis key runs out. Needed for `OneContentPerJob` alone, which
  looks back at all there ever was: after its time to live an id is free again,
  and another content under it is legitimate.
- `JobsOutliveWork`: a key may run out, but not while there is work under way for
  its job. A job that expires in flight is outside the life cycle, and its event
  can decide a later job of the same id (`processor.py:51`).
- `OneWorker`: as in the Compose stack. With two, `retry_race` shows a job that
  stays accepted after its decision.
- `PublicationsGetThrough`: the API's publications do not fail.
  `succeeded_is_final` shows what they do when they fail.
- `CallsGetThrough`: nor does the API process die, or a Redis call raise, within a
  call. `unpublished_job` shows what happens then.
  Crashes, shutdowns, evictions, expiries and foreign messages stay possible.

### Job pipeline

| Theorem | Establishes |
| --- | --- |
| `Invariance`, `TypeCorrectness` | the inductive invariant `IInv`, and `TypeOK` |
| `EventsAreNotDropped` | `NoEventDropped` |
| `OutcomesArePublished` | `OutcomeWasPublished` |
| `OffsetsAreInOrder` | `OffsetsAdvanceByOne` |
| `DeliveryIsSafe` | the safety part of `AtLeastOnceDelivery` is implemented |
| `ContentInvariance`, `ResultsMatchFingerprints` | the inductive `ContentInv`, and `ResultMatchesFingerprint`, with `JobsOutliveWork` |
| `GivenUpIsSettled` | `ExhaustedIsSettled`, with `JobsOutliveWork` |
| `ContentsAreUnique` | `OneContentPerJob`, with `NoExpiry` |
| `CalmInvariance`, `AcceptedJobsArePending` | the inductive `CalmInv`, and `AcceptedJobIsPending`, with `OneWorker` and `CallsGetThrough` |
| `PollsFollowLifecycle` | the safety part of `JobLifecycle` is implemented, with `JobsOutliveWork` besides |
| `SuccessStays` | `SucceededIsFinal`, with `OneWorker` and `PublicationsGetThrough`: the finding needs a failing publication or a second worker |
| `SubmissionsArePaid`, `DuplicatesArePaid` | `DuplicatesNeedFaults`, under every fault |

`NoEventDropped` is not inductive: when a worker commits, it says nothing of the
message in the worker's hands. `IInv` adds what the program counter knows:

- `CallsOK`: a thread between two calls holds a request and, once it will save,
  a job that is neither succeeded nor exhausted;
- `HandlingOK`: a busy worker holds an existing message, the next one to commit
  unless it was evicted; and from the publication on that message is settled;
- `OffsetsOK`: committed offsets stay within the log;
- `OwnersExclusive`: two members of the group are never busy with one partition,
  so that one worker's commit leaves the others' positions alone.

The argument goes in two layers. `ServiceStepEffect` and `WorkerStepEffect`, one
case per action, reduce a step to what it may do to the shared state: topics
only grow (`Grows`), a job is left alone, removed or saved with a published
outcome (`SavesPublished`), an offset moves only with the message of its
committer. `SettledIsStable` and `PositionIsStable` show that growth keeps what
was settled. `StepKeepsInvariant` follows from these effects without looking at
the actions again, and so do `StepAdvances` and `StepDelivers`.

Contents (`ContentInv`). SET NX makes one content the owner of an id. The
invariant follows it through all work under way: messages that are not
acknowledged (`QueuedOwned`), calls (`CallOwns`), the message a worker holds,
evicted or not (`HoldsOwned`), and the job it carries (`WorkerOwns`) are of the
content stored under their id. A job that expires once it is settled has no
such work left, so whoever takes its id next starts clean
(`ExpiryKeepsContent`). With `NoExpiry` the same holds of all events and
acknowledgements of the past (`EventsOwned`, `AcksOwned`).

Attempts (`AttemptsInv`). That a job was given up says nothing of the other
events of its id, of which redeliveries and republications make many. The
invariant follows the chain of attempts: an event of some attempt is on its topic
only if a retry was scheduled for each attempt before (`Counted`), which stays
true because topics only grow (`AttemptsStay`). So for a job that was given up
in its last attempt each earlier one has had its retry and the last its dead
letter (`NothingIsDue`), whichever worker saw to it.

Calm pipeline (`CalmInv`). An undecided job has a thread about to publish it or
a message that is not acknowledged (`Pending`). `Following` says what the one
worker owes: before it saves *retry scheduled* the retry event is queued beside
the message it holds, and before it commits an undecided job has such a message
too. An eviction takes nothing from this, because what the evicted worker
handles is still the next message to commit (`AtHead`): there is nobody else who
could commit it. With one worker nobody else changes a job between its steps
either, and as long as jobs outlive their work the stored one is where the
program counter says (`JobInPlace`), so each save is a move of `JobLifecycle`
(`LifeStep`).

Success (`SuccessInv`). While publications get through no thread has anything to
save, so only the worker could overwrite a result. It saves over a job that was
undecided when it loaded it and, being the only worker, still is (`Deciding`);
a job that expires and is taken again meanwhile is undecided too.

Accounts (`SubmissionsPaid`, `DecisionsPaid`). Counting published events is not
inductive, since those about to be published are not yet counted. The account
of a job adds calls about to publish, threads that may still see a failed
publication and publish again, and one if the job is absent; a call whose
publication has failed counts for all threads at once. A fault adds
`Cardinality(Thread)` to what may be spent. The second account pays for
decisions: results on the topic, messages whose owner has not yet published
what it decided (`Unspent`) and evicted workers that may still decide
(`Zombies`) are no more than submissions and faults together. Each action is
shown to be costless, charged to a fault, a decision, or a retry that trades
one message for another.

### Review

| Theorem | Establishes |
| --- | --- |
| `WorkflowInvHolds`, `ReviewTypesHold` | the inductive `WorkflowInv`, and `TypeOK` |
| `ProjectionReplays`, `StartupsSucceed`, `AcknowledgedIsRecorded` | `ProjectionIsReplayable`, `StartupSucceeds`, `NothingAcknowledgedIsLost` |
| `AuditTrailsArePaths` | `AuditTrailIsPath` |
| `ClaimantsDecide`, `AppealsAreForSeniors` | `ClaimantDecides`, `SeniorsHandleAppeals` |
| `RequestsHaveOneCase` | `OneCasePerRequest` |
| `EndpointsImplementWorkflow` | the endpoints implement the workflow, so all of the above holds for them |
| `EndpointInvHolds`, `GaugesAreCurrent`, `ExportsAreTheLastWord` | `GaugeIsCurrent`, `ExportIsTheLastWord` |

The trail of a case is only as good as the ledger it is replayed from, and the
ledger may hold records that no answer ever acknowledged: written whole by an
append that then failed, and followed by others. So the invariant speaks of
every event that survives, on a line or in the process (`Known`). `EventsOK`:
its sequence number tells what it can be; the fourth event is the first appeal,
so a claim or decision from the fifth on is a senior's. `LinksOK`: events with
one hash are one event, and an event can follow the one whose hash it chains
to. Since a replay accepts a line only if it chains to the line before,
whatever trail it rebuilds is a path, through any damage that leaves a startup
possible. `RequestsOK` carries *one case per request* over restarts with
another policy version, `LedgerOK` the agreement of file and projection.

### Request guard

| Theorem | Establishes |
| --- | --- |
| `GuardInvHolds`, `GuardTypesHold` | the inductive `GuardInv`, and `TypeOK` |
| `MemoryStaysBounded` | `MemoryIsBounded` |
| `GuardImplementsAllowance` | `ImplementsAllowance`: `Allowance` is implemented, with exact headers |

A bucket stores two numbers and `Allowance` speaks of the whole history of a
key. `BucketsAreExact` ties them: a bucket holds `v` tokens or more exactly if
the history leaves room for `v` (`Room`), where a request served at some time
still takes its cost, less what has been refilled since (`Debt`). A key without
a bucket is in no debt, which is why pruning an idle bucket and making a full
one later is right.

### Moderation

| Theorem | Establishes |
| --- | --- |
| `EvidenceNeverWeakens` | more rules, models or matches, higher image scores, or an image besides a text never make an answer less risky or laxer |
| `SignalsTell` | for all rules, models' scores and matches: a text is blocked or allowed as its strictest evidence calls for, and its signals tell so |
| `FusedResponseIs` | for every text and image: the fused answer has all signals of both, and one of disagreement exactly when they contradict each other; the stricter decision wins |
| `RequestInvHolds`, `RefusalsLeaveNoTrace`, `StrictestWins`, `SignalsExplain`, `ContradictionsReviewed` | the properties of `SynchronousModeration`, from the inductive `RequestInv` |
| `ModerationInvHolds`, `ModerationTypesHold` | the inductive `ModerationInv`, and `TypeOK` |
| `CampaignsAreNoticed`, `CampaignsAreReal`, `FewEscape` | `CampaignIsNoticed`, `NoFalseCampaign`, `EscapesAreBounded` |

`PolicyProofs` shows that each response is `Explained`: its risk is the score of
one of its signals once it reaches a threshold, and no signal exceeds it; the
three theorems about the policy rest on that. In
`ModerationInv` the count a call carries is bounded on both sides
(`CountsAreEvidence`): by who ever stored its text and, from below, by the
answered members it had before it searched. Escapes need an account again
(`EscapesAreCounted`). A call is *light* while it carries fewer than two
matches. While at most two requests have stored a campaign's text, those and the
light ones are no more than the processes and one; afterwards no new
call is light; and whoever was allowed was light before.

### API process, rule scan, image walk, promotion

| Theorem | Establishes |
| --- | --- |
| `ProcessInvHolds`, `ProductionAlwaysGuarded`, `ReadyIsComplete`, `StopAlwaysCloses` | the properties of `ApiProcess`, for every set of environments |
| `ScanInvHolds`, `RulesAreFound` | `RulesThatOccurAreFound`, for every set of phrases and every text |
| `InspectionInvHolds`, `FirstFramesAreReported` | `FirstFrameIsReported`, for every list of pieces cut off anywhere |
| `WalkGoesForward` | each step moves the offset forward within the payload or gives the answer: the safety half of `InspectionEnds` |
| `EvaluationInvHolds`, `PromotionsAreEarned` | `PromotionIsEarned`, for every corpus, all attacks and all scores |

`ProcessInv` says of each part which phases lie behind the step that builds it
(`Taken`). `ScanInv` says that the node spells what was read since the start and
that the matches are the phrases with an occurrence the scan has passed.
`InspectionInv` says that a walk under way stands at the end of some piece and has
met no frame or broken segment before it (`Behind`). That ties the
offset, which comes from lengths read out of bytes, to the pieces the payload was
built of. `PayloadIsLaidOut` tells where each piece starts and that the bytes
there are its own, as far as they were not cut off; one lemma for each kind of
piece says what the walk does at its start (`StepAtPiece`), and a walk that
reads or refuses there gives the right answer (`ReadIsRight`, `RefusalIsRight`).
`EvaluationInv` says that every label of the corpus is among the scored
variants; the rest is arithmetic on rounded rates.

### Counting without induction over data

Histories, ledgers and sets of matches have any length. Where a proof must count
along one, `CountingFacts` derives what it needs from the least-number
principle, itself from the library's theorem on well-founded relations, which
takes the relation as a set and needs no operator parameter: a finite set of
numbers has a greatest member, elements up to a bound are counted one by one
(`CountStep`), and the n-th element is found by its count (`Numbered`). This is
why `ReviewLedger` numbers the lines of a case by counting instead of selecting
a subsequence, and why a bucket is compared with its history member by member.
The payload of an image is `FlattenSeq` of its pieces, which is recursive: that
every prefix of the pieces is spelled by the bytes before the next one follows by
the same principle (`FlattenIsSpelled`).

### Only model-checked

- Liveness, beyond this prover: `DeliversAtLeastOnce` and `FollowsLifecycle`
  beyond their safety parts, `InspectionEnds` beyond `WalkGoesForward`.
- The four findings are counterexamples, found by TLC.

## What is not modelled

- Normalization, the hashing of texts to vectors and the texts that attacks
  produce: transformations of characters. Their results are inputs here.
- Inference of the models: numerical code in external libraries, whose scores
  are inputs. `multimodal/transformer.py` is called by nothing.
- Headers of PNG and WebP: reads at fixed offsets; their outcomes are inputs of
  `SynchronousModeration`.
- Counters, histograms and correlation ids: incremented and never read by the
  program.
- Rounding of Python floats. A token bucket of the program adds up fractions of a
  token that are not exact, so a request at the very time its `Retry-After`
  named may be refused there and is served in `RequestGuard`.
- Thresholds for single categories of content, which `docs/slo.md` names for the
  promotion of models: the code of the gates has none.
- Training, download, SBOM, repository and load-test scripts: they run on their
  own from top to bottom. The choice of a model version in a report of several
  is left out of `Evaluation`.
- A worker enqueues no reviews: `processor.py` calls the engine alone. The
  models agree with the code; no property compares the two paths.
- Tampering with the ledger by hand, and a host that loses what the operating
  system has not yet written.
- Closing the job service may raise, and the engine is then never closed
  (`CloseJobService`); `StopClosesEverything` is about a stop in order.
- An expired job whose event is still queued can be decided under the content
  of a later job of the same id: `process` compares no fingerprints. The model
  can do it (`expiry`); no property is stated about it.

## Plan

1. Done: pipeline with its abstract specifications, review workflow, ledger and
   endpoints, request guard, moderation side by side and as one request, rule
   scan, image walk, API process, evaluation; a run for each.
2. Done: every safety property that a passing run checks is a theorem; so are
   the refinements of `Allowance`, of the review workflow by its endpoints, and
   of the safety parts of `JobLifecycle` and `AtLeastOnceDelivery`.
3. Model: a bound on escapes with workers beside the loop, and the review of
   responses in one composition with `Moderation`.
