# NexusFeed in TLA+

This directory specifies the parts of NexusFeed whose behaviour depends on the order of
things: the path of an event from `POST /events` over Kafka to Redis, the FAISS index that
is swapped while it serves, the assignment of users to experiments and the counting of their
results, the construction of a feed, training and the model registry, what a request meets
before and after the routes, and how an installation gets its data. TLC checks the modules on
small instances; TLAPS proves every safety property that a run checks, for every size. Paths
below are relative to `src/nexusfeed/` unless they begin with `src/`.

    tlc -config MCFaissIndex.cfg MCFaissIndex      # one run
    tlapm FaissIndexProofs.tla                     # one module of proofs

`PROJECT.json` lists the runs, the source lines behind each definition, the hazards with
the properties that cover them, the disagreements found between code and documentation, and
the theorems. For every checked property it names a mutant: a plausible bug in one of the
mapped definitions that makes TLC report that property violated. The mutated forms are the
`Mut...` operators that stand before the definition they replace; no specification uses
them.

## 1. The system

| Component | State it keeps | Operations | Hard because of |
|---|---|---|---|
| `POST /events`: `api/routers/events.py`, `ingestion/event_validator.py`, `event_router.py`, `kafka_producer.py`, `db/repositories/interaction_repo.py` | dedupe keys (Redis, TTL 1 h), records in two topics, rows of `interactions` | validate, mark, send twice with retries, insert, commit | three stores without a transaction; client retries; lost acknowledgements; pod deaths |
| Consumer group: `ingestion/kafka_consumer.py` | committed offsets, positions | poll, handle, retry, give up, commit | crash between handling and commit; rebalances; poison records |
| Feature pipeline: `features/feature_pipeline.py`, `workers/feature_pipeline_worker.py` | none of its own | `handle_event` on records of both topics | several Redis commands per record, replays, two copies of each event |
| Online store: `features/online_store.py` | Redis: recent items, trending, viewers, embeddings, scores, rate counters | one or more commands per method | multi-command methods, TTLs, caps |
| FAISS index: `retrieval/faiss_index.py`, `index_builder.py`, `src/scripts/seed_faiss_index.py` | `_index`, `_id_map`, a lock; two files | build, load, search, save | reads without the lock; two files without a rename |
| Experiments: `experiments/experiment_manager.py`, `bucketing.py`, `db/repositories/experiment_repo.py`, `api/routers/experiments.py` | the experiment row, assignments cached for 7 days | assign, create, stop | cached decisions; uncommitted rows; swallowed failures |
| Results: `experiments/metrics_tracker.py`, `_bump` in the same repository | counters in PostgreSQL | record | read, add and write back in a transaction the caller ends |
| `GET /feed`: `api/routers/feed.py`, `retrieval/candidate_generator.py`, `ranking/`, `experiments/bandit.py` | none shared | retrieve, rank, rerank, explore, respond | a pipeline whose stages undo each other; boundary values of `n`; what Redis says changes between awaits |
| Gateway: `api/middleware/`, `rate_limit_hit`, `create_app`; `api/routers/feedback.py` and the other writers of an item's score | a counter per key and window, `item:{id}:score` (TTL 5 min), `interactions` | authenticate, hit, feedback, refresh | layers that depend on their order; INCR and EXPIRE apart; window edges; a crash between commit and penalty |
| Training: `models/train.py`, `data_loading.py`, `src/training/` | losses of a run, best loss, epochs without improvement, the weights file | split, sample, fit, save, register; HPO trials; SageMaker jobs | stopping rule and what it leaves in `history`; a rejection loop; deaths half way through a registration |
| Model registry: `models/model_registry.py`, `app.state.model_version` | stages and tags in MLflow, a version label per pod | register, promote, roll back, boot | two operators at once; which version a rollback brings back |
| Seeding: `db/migrations/`, `src/scripts/generate_synthetic_data.py`, `seed_faiss_index.py`, `retrieval/index_builder.py`, `lifespan` in `api/main.py` | tables and partitions, the files of `./data`, index and model files, user embeddings (TTL 1 h) | migrate, generate, build, train, warm, boot | separate commits and files; scripts that are run twice, or die, while others read |
| Read-only routes, significance tests, online learning, explainability, baselines, models, observability, infrastructure | none that another part waits for | | |

How they interact. The API and the workers share only Kafka's log and Redis. `POST /events`
appends each event to `user-events` and then to `item-events`; a worker of the group
`nexusfeed` reads both and writes the recent items, viewers and trending scores that
`GET /feed` reads. Generator, seeding script and API share PostgreSQL, Redis and the files of
`./data`. Trainers, operators and the API share the MLflow registry. The experiment
routes and the feed share the experiment row and the Redis assignment cache. Nothing calls
back; everything asynchronous is an `await`, at which any other handler may run.

What makes each part correct, in short: *ingestion*: an answer tells the truth about what
the stores hold. *Consumer group*: no record is skipped or stuck. *Pipeline*: updates are
applied, over-counting is bounded, keys are bounded. *Index*: every search maps positions
through the id list of its own index. *Experiments*: a user keeps one assignment, made by a
committed row, and no recorded result is counted twice. *Feed*: the best candidates in the best
order, none twice. *Gateway*: a key gets its limit per window and no more; a penalty has its
report. *Lifecycle*: one version serves, released by someone, and complete if that was
after its registration, and its metrics are those of its weights. *Seeding*: what a file or a cache names exists, and belongs to whom it
says.

## 2. The modules

    AtLeastOnce  <--refines--  ConsumerGroup  <--extends--  FeaturePipeline
                                    ^
                                    |  instance Group
    EventIngestion  <--extends--  EventPipeline
    FaissIndex      Experiments      Feed      ModelLifecycle      Gateway      Seeding

`MC*.tla` give the constants their values for TLC; `*Proofs.tla` hold the theorems.

**EventIngestion** is one action per await of `ingest_event`. A request is one HTTP call;
calls that carry one event id are the client's retries, or a double submission. `pc[r]` is
the place in the handler, `attempt[r]` the local of the `send()` in progress, `marked` the
dedupe keys, `log` the partitions, `rows` the committed audit rows. A Redis or Kafka call
that raises may have taken effect (a lost reply), a commit that raises may have committed,
and `PodDies` ends a request anywhere. The timestamp check is `Receive` or
`RejectTimestamp`; clocks and payloads are not modelled. `won` and `expiries` are ghosts.

**ConsumerGroup** is `consume_forever` and `_process_with_retry` with Kafka's side of the
protocol. Three details decide the properties and are kept: `commit()` without arguments
commits the *positions* of the partitions *currently* assigned; a give-up commits too; a
`KafkaError` ends the process, any other exception is retried. Kafka's log, coordinator and
offsets are external and modelled from their use: a partition is assigned to one worker, the
new owner starts at the committed offset, and a rebalance may happen at any time, while the
old owner is still handling. `AtLeastOnce` is the contract: the committed offset moves
forward only, over settled records, which are settled in order but perhaps repeatedly.

**FeaturePipeline** extends it with the handler: six Redis commands, each its own step, any
of which may raise before or after the server has run it, whereupon the handler starts again
from the top. So does `created_at.timestamp()` (`feature_pipeline.py:48`) for dates it has no
number for, such as one of the year 1: that is after every command has been run, at each of the
`max_retries + 1` calls (`TimestampRaises`, `Calls`), and such records are the poison here.
`time.time()` is read when the handler starts; `clock` counts those readings, so two readings
never tie. Weights are quarters. `Total`, the sum in its properties, is the
number of points under a graph, so that sums are cardinalities; that needs finitely many
workers, partitions and weights (`FiniteAssumption`).

**EventPipeline** composes `EventIngestion`, which it extends, and `ConsumerGroup`, an instance
with its own `workerPc` and `workerAttempt`, over one `log`. A step is one of a request
(`Post`) or one of the workers (`Work`); that neither touches the other's variables is how they
are put together and nothing to be checked. `RoomAssumption` keeps the bound `MaxLog` of the
instance above the number of records that the requests can append at all.

**FaissIndex** has an action for every read and write of `_index` and `_id_map`, every lock
operation and every file. Threads belong to processes, which share the two files and may
die. Vectors and distances disappear: a search returns any set of positions of its index,
and `id_map[idx]` names them or is out of range. Three ghosts mark where the code promises
something: a call is `overlapped` when it touched a pair that another call was writing, a
process is `sound` when its pair came from a call nothing overlapped, the files are `intact`
when the last write ended such a save.

**Experiments** has the awaits of `get_assignment`, the INSERT that waits for an uncommitted
row of the same unique name, commit, rollback, stop, and what the routes answer when anything
raises: `GET /experiments` says "control" with no bucket (`NoActiveExperiment`), which counts
among the answers a user was `told`. A recorder is one call of `MetricsTracker` in a session of
its own: `_bump` reads the counter, the flush sends the sum and locks the row, the caller's commit shows it, and
any of them may fail. One counter of one variant stands for all, since nothing relates two. The
ghost `overlapped` marks a commit while another recorder carried an older reading.

**Feed** is `get_feed` stage by stage for one request: `Retrieved`, `Descending`,
`Adjusted`, `Capped`, `Cut` and `Slots` are the algorithms of the classes it calls. Python's
stable `sorted` is `Ordered` by the relation `Above`, and a comprehension that filters is `At`
the places it keeps: sets of pairs and of places, since the sorts of the community modules take
an operator and the provers cannot instantiate facts about those.
`get_feed` gives `Reranker.apply` no creation times, categories or embeddings, so MMR and
the freshness boost are not reached and are not in this module.

**ModelLifecycle** joins `Trainer.fit`, the scripts around it, `ModelRegistry` and the version
label of the API. Several trainers run side by side and share the default `--output`. `--epochs`
is any number; none at all leaves `history` empty. `StartTraining` has the command line and the
split, `Epoch` one turn of the loop with its early exit (`Improves`, `StaleAfter`, `Stops`,
`HistoryAfter`), `SaveWeights` and `Register` what `trainer.main` does afterwards, one MLflow call
per step; `rollback` is two calls, `FindPrevious` and `Rollback`, between which others promote. A
loss is any member of `ValLosses`, NaN included. `Negatives` is the set of what
`sample_in_batch_negatives` can return, which is empty where its loop never ends. Operators are
external: they promote any version that the registry lists, in any order and at any time, one
that is still being registered or whose registration died included, as `promote_to_production`
checks nothing. `promoted`, `early` (promoted before their registration had returned),
`untrained`, `previous`, `orderly` and `undisturbed` are ghosts.

**Gateway** is the stack of `create_app` as layers that a request goes down (`Stack` is the
reverse of the order of the `add_middleware` calls), with `rate_limit_hit` as its two Redis
calls and `POST /feedback` behind it. Time is counted in rate-limit windows, which is all that
`int(time.time() // window_seconds)` tells apart; a counter that was given its TTL in one window
expires in the next, before that is over. Every Redis call may fail before or after its effect;
`PodDies` stands only where a death leaves something, before EXPIRE, because without fairness a
request that takes no more steps is a death everywhere else.

**Seeding** names each table and file by the run of the generator it comes from. Generators and
seeders go through their steps in the order of `main()` (`After`), each with its crashes (a file
that was being written may be unreadable), while a pod goes through `lifespan`. The index and the
ranker are opened, which empties them, and written in another step, between which a pod may read
them; a seeder that dies there, or two that overlap there, leave a file that may be unreadable
(`cut`) until a later save has it for itself. The migration and the end of its 24 monthly
partitions are actions, too. The ghosts say when a promise is off: `mixed`, `loud` and `spoilt`
when the two arrays of users were read or left half written, `late` for the pods that booted
while an index was saved or found one that was cut, `dropped` and `lost` for what a downgrade
removed.

## 3. The runs

| Run | Question | Bounds | Why they are enough |
|---|---|---|---|
| `ingestion` | Do the answers tell the truth about the stores? | 3 calls, 1 event, 1 retry per send | A loser that finds the marker, a winner that fails and a winner after the expiry need three calls; events share no state |
| `group` | Is a record ever skipped, stuck or taken out of order? | 2 workers, 1 partition of 3 records, 1 retry, 2 faults | Old and new owner, poison beside healthy records, a crash after a rebalance |
| `pipeline` | What do interleaved handlers leave in Redis? | 2 workers, 3 events (one raises after its commands) in 2 topics with room for two, cap 1, 1 retry, 1 fault, 1 lapse of a key; `VIEW OrderOfStamps` | Both topics' copies of two events run concurrently, the second item trims, one replay, one record given up after it has counted twice |
| `e2e` | Does an accepted event arrive? | 2 calls, 1 worker, 1 fault, no retries | One failing and one succeeding path at either end |
| `faiss` | Where do index and id list stay a pair? | 3 threads in 2 processes, 2 generations of different size | Two writers and a reader in one process, a writer in another; positions with another item and with none |
| `experiments` | Can a user be given two assignments, or a result be counted twice? | 3 readers (two of one user, one held back), 2 creators with opposite ranges, 1 stopper, 3 recorders that add 1, 2 and nothing | The race needs two readers and two contradictory rows; two recorders overlap or follow each other |
| `feed` | Is the feed the best of the candidates? | 5 items, scores -1, 0, 1, 2, n in -1, 0, 2, 3 | Ties, negative scores and zeros, negative and zero n, a trending item already found, more candidates than places |
| `training` | When does a run stop, and what does it register? | 2 trainers, 0 or 4 epochs (2 in a trial), patience 2, losses 1 and NaN, 2 versions, 2 items, files of 1 and 12 rows | Either bound can end a run, before or after an improvement; one run saves over the other's file; 1 row cannot be split; 2 items are the fewest the sampling ends with |
| `lifecycle` | What may serve? | 2 trainers of one epoch, 3 versions, 2 operators, 1 pod | Three versions can be promoted out of order, two can be registered at once, one can be promoted half registered |
| `gateway` | Does the limiter limit, whatever fails? | 6 requests (3 to `/events`, one of them without a key; report, like, `/health`), 1 key, limit 1, 2 windows | Two hits race for a limit of one, meet in one window or in two, and find the counter of a dead request |
| `seeding` | Does what is seeded belong together? | 2 generators of 1 and 2 users, 1 seeder that runs again and again, 1 pod, embeddings and files that vanish | Arrays of different length, two generators interleaved, a second run over the files of the first, a pod that boots while a file is written. Two seeders at once are left to the proofs |

The type invariant of each module is a theorem instead of a checked property (`FeedTypes` in
`FeedInv` for `Feed`); the properties are described where they are defined. Those of most consequence:

* `AcceptedIsDurable`, `StreamBeforeAudit`, `LossIsReported`: what each answer of
  `POST /events` implies about Redis, Kafka and PostgreSQL; losses are never silent.
* `CommittedIsSettled`, `InOrder`, `DeliverySpec`: at-least-once
  delivery survives crashes, failing commits and rebalances in mid-handling.
* `DoneIsApplied`, `OvercountBounded`: replays never undo an update; trending counts a record
  once, or once for each call of one that raises after its commands, and each fault inflates it by
  at most one more delivery.
* `AcceptedIsProcessed`: from the 200 answer to Redis.
* `SwapsKeepPairs`, `CleanSaveRepairs`, `QuietSearchIsExact`: the lock suffices for writers;
  a clean save repairs whatever an interrupted one left; a search that no swap overlapped is
  exact, which is the strongest statement the code supports.
* `AssignmentStable`, `AssignedByCommittedRow`: however the cache, the database, failures and
  creators of one name interleave; beside its assignment a user may be told "no active
  experiment" and nothing else.
* `CountFollowsBumps`: a counter is never more than what was recorded, and less only after two
  recorders overlapped.
* `ServesTheBest`, `FeedAlmostFull`, `SeenNeverLifted`: on the feed as served. A seen item of
  negative score is not covered by the last one, and two zeros stay as they were ranked.
* `ServedWasReleased`, `OneProduction`, `RollbackFindsPrevious`: what serves was promoted by
  someone and carries its metrics unless that was too early; a rollback brings back the previous
  version as long as registered versions were promoted in the order of their numbers.
* `StopsInTime`, `MetricsLagByOne`: early stopping counts from the best epoch, and registered
  metrics are at most one epoch older than the weights, missing only from a run of no epoch. Once
  another run has saved over the common file, they describe other weights.
* `TimelyPassesBounded`, `OnlyCrashLeaksKeys`: the limit of a window holds for every request
  counted in it; a counter without a TTL is the trace of a crash.
* `NoKeyNoEffect`, `PenaltyFollowsRow`: the order of the layers, and of commit and penalty.
* `EmbeddingsAreOwn`, `NamedWasCommitted`, `RankerHasIndex`: after any number of interrupted
  and concurrent seedings, with the circumstances under which they fail. No file and no cached
  user comes from a run whose interactions were refused or never inserted.

One run checks what the repository says of itself and finds it violated:

| Run | Stated | What happens |
|---|---|---|
| `torn_search` | `faiss_index.py:4-6` "never a partial one" | Index and id map are two attributes read without the lock; a swap between the reads pairs one index with the other's ids |

Symmetry is used over the workers of `pipeline`, over the two alike requests of `gateway` and
over the trainers and the operators of `lifecycle`; these runs check safety
properties only, which treat them alike. The view of `pipeline` keeps the order of the clock's
readings and drops their values, on which no action and no property depends. `CHECK_DEADLOCK
FALSE` stands where the system really stops: requests are finitely many and end answered, logs
and faults are bounded, a feed request ends. The other runs check deadlock.

Bounds in the specifications themselves: `MaxLog` and `MaxFaults` (`ConsumerGroup`), the single
lapse of a Redis key (`lapsed`, `FeaturePipeline`), `MaxVersions` (`ModelLifecycle`) and
`MaxWindow` (`Gateway`). Everything else is bounded by the sets given to the constants.

### Other disagreements between code and documentation

Seen while modelling, visible in the definitions, and not given a run of their own:

* `event_router.py:10-11` promises "ordered per-user processing", but the worker also reads
  `item-events`, so each event is handled twice, the second time in another order.
* `api/routers/experiments.py:27` answers "no active experiment", but neither cache nor row is
  checked for its status: a stopped experiment goes on assigning (`GetByName`).
* `bandit.py:3`, "10% of feed slots serve randomly sampled items": the drawn items are looked
  up among the ranked ones and dropped, so the feed is short instead (`FeedAlmostFull` bounds
  by how much).
* `event_validator.py:48` says "already processed", but the marker is set before anything is
  published and nothing takes it back: when Redis sets it and its reply is lost, the call ends in
  an error without a send, and the client's next one is answered `duplicate_ignored`. A send that
  fails leaves the marker, too (`LossIsReported` says who was told).
* `bucketing.py:1` promises a "consistent assignment across sessions", but `GET /experiments`
  answers "control" whenever `get_assignment` raises (`api/routers/experiments.py:25`): who asks
  before the experiment exists, or while Redis or PostgreSQL is down, is told another variant than
  later (`Falls`). What is cached and what has a bucket stays the same (`AssignmentStable`).
* `reranker.py:15`, "discounted 50%": half of a negative score is more, so a seen item may be
  served above an unseen one that was ranked before it (`Adjusted`; `SeenNeverLifted` is about
  scores from zero on).
* `model_registry.py:60`, "the previous production version": when versions 2, 1 and 3 are promoted
  in turn, `rollback` takes the highest archived number, 2, and not 1; and it archives the version
  it replaces, so that a second one may bring that back (`RollbackFindsPrevious` says when it does
  what it says). All versions name the one `--output` file.
* `src/training/sagemaker_job.py` starts jobs without the arguments `trainer.py` requires, so
  they end at once (`Hyperparameters`).
* `rate_limit.py:1` says "sliding window"; windows are fixed, and up to twice the limit can pass
  around an edge.
* `negative_sampling.py:38-40` promises a fall-back to uniform samples; with fewer shown items
  than `ratio` it returns just those.
* `user_features.py:43-45` calls the cold-start embedding deterministic; it is seeded by
  `hash()` of strings, which differs between processes.
* Partitions of `interactions` are made once, for 24 months around the migration; after them
  every audit insert fails (`PartitionsEnd`, `UnauditedWasReported`).
* User embeddings expire after an hour and only the seeding script writes them.
* `diversity.py` caps a category by its share of the candidates, not of the `n` items served.
* `bucketing.py:21` has holdback users "always receive the baseline" feed; `get_feed` ranks for
  them as for anybody and only labels the response.

### Fairness

`EventIngestion!FairSpec`: weak fairness of each started handler. The event loop resumes
every coroutine whose await has finished, and the clients of Redis, Kafka and PostgreSQL have
timeouts, so a call returns or raises. Arrival of requests, expiry of markers and the death
of pods are not fair.

`ConsumerGroup!FairGroupSpec`: weak fairness of each live worker's loop, of `Restart`
(a Kubernetes Deployment replaces a dead container, `src/infra/kubernetes/
worker-deployment.yaml`) and of the assignment of an unowned partition (Kafka's coordinator).
Faults, crashes and rebalances are not fair but finitely many (`MaxFaults`): without that
bound no liveness property of a retry loop holds. `EventPipeline!FairPathSpec` is both.

`ModelLifecycle!Spec`: weak fairness of each trainer's next step; a process that runs goes on,
and `fit` waits for nobody. Starting runs, deaths and operators are not fair. An epoch can be
one step because of `HasRow`: the only loop inside it without a bound is the rejection loop,
which ends (with probability one) when there is something to return.

## 4. The proofs

TLAPS checks the following for all values of the constants that satisfy the `ASSUME`s of the
modules, which TLC evaluates in the runs.

**EventPipelineProofs**, first of `EventIngestion`. `TypeCorrect`; then the invariant `IInv`.
The properties are not inductive by themselves: that an accepted event is in both topics says
nothing about a request that has only reached "record". `Journey` says for each place in the
handler which stores have the event, and that only winners of the marker get past validation;
`UserFirst` and `MarkedWasWon` carry what outlives the request. From `JourneyInvariant` follow
`AcceptedDurable`, `StreamFirst` and `LossReported`. `OnePublisher` is a separate argument
that counts: `Winners` plus the marker, if set, against the expiries. `CopiesStayBounded` adds a
second count: an event has no more copies in a partition than its winners have used up attempts
there (`CopiesCounted`), and an attempt is a member of `won \X (0..MaxRetries)`.

Then of the path. `PathInv` is `IInv` and three relations between the two sides: a partition
holds no more records than attempts were used up on it (`RoomLeft`), each was sent by a winner
(`SentByWinner`), and the workers handle only what is in the log (`HandledInLog`). It yields
`UnauditedReported`. `PathKeepsGroup` says that no append of a request ever meets the bound
`MaxLog` of the group's `Publish`, which is where `RoomLeft` is needed: the theorems about the
group hold in the whole path.

**FeaturePipelineProofs**, first of `ConsumerGroup`. `GInv` adds to `CommittedIsSettled` and
`InOrder` where an owner is (`OffsetsInv`) and that the only unsettled record below its position
is the one it handles (`PositionSettled`). That is why committing the *position* is sound: at a
commit the record at hand is settled. It is proved action by action and yields
`NoRecordSkipped`, `PartitionsInOrder`, `CommittedMonotone` and `ImplementsAtLeastOnce`, the
refinement with `settled <- done \cup abandoned`: polling, retrying, crashing and rebalancing
are stutters, returning and giving up are `Settle`, committing is `Commit`.

Then of the pipeline. Every step of it is a step of the group or leaves the group alone, by the
way it is built (`PipelineStepIsGroupStep`), so the group's theorems hold of it
(`PipelineDelivery`).
`PipelineTypeCorrect` is inductive together with the group's invariant, and `CallsOK` says where
a call may stand and what it has in hand. Four arguments rest on them:

* `NoKeyStaysForever`: a key without a TTL has a writer that is about to send EXPIRE, unless a
  fault took that writer away.
* `RecentStaysBounded`: ZREMRANGEBYRANK keeps exactly `Cap` members only if scores are pairwise
  different, so `ScoresOK` compares the stamps still to be written with those in Redis. Then
  `RecentBounds`: every member above the cap has a worker about to trim, or a fault that
  stopped one.
* `DoneStaysApplied`: `Applied` credits a record from the moment its ZINCRBY has run, not only
  when its handler has returned, and follows the viewer from PFADD on.
* `OvercountStaysBounded`: a potential. `AllPaid` says that the score, plus what calls at work
  will still add (`Tokens`), plus what will be read again (`Pendings`), is paid for by the
  records taken up, each with the most one delivery of it adds (`Most`: its weight, once for each
  call), and by `HeaviestSignal` for each fault. `Replays` is what makes
  it work: at most one record of a partition, the one after the committed offset, can be read
  a second time.

**FaissIndexProofs.** For each call under way that nothing has overlapped, the half it has
in hand still agrees with the place it was read from (`SwapOK`, `LoadOK`, `SaveOK`,
`SearchOK`); the lock excludes a second swap. From that follow `SwapsPaired`,
`CleanSavePaired` and `QuietSearchExact`.

**ExperimentsProofs.** An uncommitted creator holds the name and no row is committed beside
it; a reader between database and Redis carries the row that is still the committed one.
So whatever assignment is answered or cached is `AssignVariant` of that row, and
`AssignmentIsStable`.
For `CountIsBumps`, `CarriesCount` says that no recorder carries more than the counter, and
exactly the counter until one of them has overlapped another.

**ModelLifecycleProofs.** Two invariants. `ReleaseInv`: trainers register versions of their own, which
carry the tags set so far (`RegistrationInv`); what is in production, archived, chosen or
reported was promoted, and is complete unless promoted early (`PromotedInv`); and, as long as
promotions are `orderly`, the newest archived version is the previous one (`OrderInv`). `LoopInv`:
`best` and `stale` are functions of the losses seen (`StaleIsSinceBest`), although `SinceBest`
is defined over the whole sequence by a minimum; NaN is a case of its own there.

**GatewayProofs.** `GInv`. The limit is a counting argument: inside a window INCR never returns
a number twice, because a counter does not expire in its own window (`TTLInv`), so the hits of
the requests that pass are pairwise different members of `1..Limit` (`DistinctHits`). The rest
follows from what each place of a request implies (`RequestInv`), with the order of the layers
computed from `Added`.

**SeedingProofs.** `SInv`. Each name in an index is traced to the commit of a catalogue before it
(`Known`), each in a file or Redis to that of interactions (`Written`), through what generators
and seeders have in hand (`NamedInv`). A model file implies that an index was saved, is being
saved or was cut off (`IndexSaved`), and a pod that found none, with no save under way, has seen
no seeder get to the training since (`Unseeded`, `RankerInv`); this is for any number of
seeders. The arrays are of one run unless a generator is halfway or they are `mixed`
(`ArraysInv`), which is what a seeder that is not `loud` has loaded (`LoadsInv`).

**FeedProofs.** First the operators: `Ordered` lists a finite set in the order of any strict
total order on it (`OrderedSorts`, by counting the members below each one), so `Descending` is
a permutation without inversions, `At` a sub-sequence, and `Capped`, for one category, changes
nothing. Then `FeedInv`, one conjunct per stage: the ranking permutes the candidates, the
re-ranking takes the best of them (`FinalInv`), exploration touches the last place only and
never with an item of the feed (`ResultInv`), so that the response is the re-ranked feed or all
of it but the last (`ServedInv`). `FeedServesTheBest`, `FeedStaysAlmostFull` and
`SeenStaysBelow` follow.

Only model-checked: the liveness properties (`EveryRequestAnswered`, `EveryRecordIsPassed`,
`AcceptedIsProcessed`, `EveryRunEnds`), which need fairness and `ENABLED`, out of this prover's
reach. Sums over sets (`Total`) and counts over sequences (`Copies`) are cardinalities for the
same kind of reason: a recursive definition would need induction over data.

## 5. What is abstracted or left out

* Payloads, vectors, metrics, logs, latencies and backoff intervals.
* Time: a TTL may run out at any moment after it was set; clocks only order the timestamps of
  `add_recent_item`, as if the pods' clocks agreed. The five-minute skew and the age limit of
  an event are one nondeterministic rejection.
* Kafka loses no acknowledged record (the producer waits for all in-sync replicas).
* `ConsumerGroup!Poll`: a record whose deserializer raises (`kafka_consumer.py:43`, in the
  iteration of line 58, outside the retry) would end the worker at each of its restarts. The
  repository's own producer writes JSON only, so such a record has to come from elsewhere.
* The HyperLogLog of unique viewers is a set: its counting error is not modelled.
* `POST /events` is not "fire-and-forget" and its audit write is awaited before the answer,
  whatever the comments at `events.py:37-39` say; `UnauditedWasReported` states the result.
* `Feed` is one request; what others do meanwhile is the free choice of the trending list and
  the seen items at the place where the handler reads them.
* `Gateway` ends a request to `/events` at the route, where `EventIngestion` begins. Access log
  and request ids pass every request on. The TTL of an item's score is a free choice.
* `Seeding`: the items' arrays are written and read like the users', and all that depends on
  them is whether a load fails, which `SeederDies` covers. The two files of the index are one
  here; `FaissIndex` has them apart. The item scores a seeder warms are `RefreshItemScore` of
  `Gateway`.
* `ModelLifecycle`: gradients and what a model computes. `promote_to_canary` sets two tags that
  nothing reads; it is left out.
* A session that is used for two bumps would read stale objects (`expire_on_commit=False`); the
  tracker has no caller yet, and a recorder has a session of its own here.

Not modelled, as in `PROJECT.json`: significance tests, models, evaluation, baselines and
explanations are numerical code without protocol or shared state; online learning is a pass over
a loader that nobody calls; routes that only read, observability and infrastructure change
nothing that the modelled parts wait for. `mmr_rerank`, the freshness boost, `record_reward`,
`register_arm` and `get_kafka_producer` have no caller that reaches them.

## 6. Plan

Done: all modules of section 2 and the proofs of section 4, which state every invariant and
every safety property of the runs. What is left, in order of use:

1. The assumptions of the proofs, whether some can be dropped: `FiniteAssumption` for partitions,
   and one category in `Feed`.
2. `mmr_rerank` and the freshness boost as functions, if a caller comes to pass what they need.
3. `Gateway` in front of `EventIngestion` in one composition, when a property relates the two.
4. Assignments that end with their experiment: nothing in the code makes this hold (section 3),
   so there is no property to prove until it reads the status.
