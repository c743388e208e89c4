# VoltPulse backend: specifications and proofs

TLA+ models of the VoltPulse telemetry backend (`src/`), checked by TLC on
small instances and, where it says so below, proved by TLAPS for every value of
their constants.

## The system

| component | state | operations | talks to |
| --- | --- | --- | --- |
| telemetry ingest API (`app/api/v1/telemetry.py`) | none of its own | `ingest_telemetry`, `ingest_telemetry_batch` | XADD to `stream:telemetry:raw`, live hash in Redis |
| stream and groups (`app/core/redis.py`, `app/main.py`) | entries, group position, pending entries list (PEL) | `setup_redis_streams` at every API start | persisters, evaluators |
| stream persister (`app/workers/stream_consumer.py`) | the batch in hand, time of the last recovery check | `run_consumer_loop`, `process_stream_entries` | XREADGROUP, XAUTOCLAIM, XACK; COPY into PostgreSQL |
| telemetry storage (`app/models/telemetry.py`, migration 002) | partitioned `telemetry_readings` | COPY, range queries | persister, rollup, analytics |
| evaluator (`app/workers/anomaly_consumer.py`) | the batch in hand | `run_anomaly_loop`, `process_evaluation_entries` | second consumer group, pub/sub, alert service |
| anomaly evaluator (`app/services/anomaly_service.py`) | one sorted set per device and metric | `record_and_evaluate` | evaluator |
| alert service (`app/services/alert_service.py`) | rows of `alerts`, key `alert:active:<device>:<rule>`, 60 s rule cache | `process_reading_alerts` | evaluator, pub/sub, alerts API (through the rows) |
| alerts API (`app/api/v1/alerts.py`) | the same rows | acknowledge, resolve, list | PostgreSQL |
| device auth and rate limit (`app/api/deps.py`) | counter per device code, 600 s credential cache | `get_current_device` | Redis, PostgreSQL |
| WebSocket gateway (`app/websocket/`) | subscriptions, one listener task | connect, disconnect, broadcast | pub/sub |
| scheduled tasks (`app/workers/scheduled_tasks.py`) | `energy_aggregates`, `device_status` | hourly rollup, connectivity sweep | PostgreSQL, pub/sub |
| user tokens (`app/api/v1/auth.py`) | refresh tokens in Redis, rows of `users` | register, login, refresh, logout | Redis, PostgreSQL |
| members (`app/api/v1/organizations.py`) | rows of `organizations` and `users` | add, change and remove members | PostgreSQL |
| alert rules (`app/api/v1/alert_rules.py`) | rows of `alert_rules` | create, list | alert service (through the rows and its cache) |
| provisioning, dashboard, analytics, anomalies | rows | CRUD and reads | PostgreSQL |

What makes it hard: every process is an asyncio program that loses control at
each `await`, several processes work for one consumer group, and every
component spreads one decision over two stores (Redis and PostgreSQL) that
share no transaction.  What makes each part correct:

- ingest to storage: an accepted reading is stored once, or is lost only for a
  reason the design accepts (it does not parse, or the stream is full); a
  worker that fails anywhere is made up for by another;
- alerts: one evaluator keeps one ACTIVE alert per device and rule, but for one more
  per failure or expired key; a breach that lasts has an alert that is not
  resolved, unless it begins with a key left on an alert that is over; when it
  ends its alert does; no event names an alert that is not committed, and
  none says of an ACTIVE one that it is resolved; a new rule gets past the caches;
- evaluator group: each reading is evaluated at most once; what may be lost is
  bounded by the crashes; a verdict is about the latest observations,
  in whatever order they came;
- gate: no more than twice the limit in any window, every counter expires, a
  deactivated device or revoked credential leaves the cache;
- live feed: who is subscribed hears every event while the listener lives, and
  a connect brings back a listener that died;
- tasks: one aggregate per device and hour, whatever runs twice;
- accounts: a session multiplies only by raced refreshes, an organization loses
  its last admin in two known ways only, a removed member stays removed.

## Modules

| module | models | extends or instantiates |
| --- | --- | --- |
| `StreamPersister` | stream, group, ingest and the persister workers | instantiates `ReadingDelivery` |
| `ReadingDelivery` | what the pipeline promises, without streams and workers | |
| `MCStreamPersister` | symmetry for TLC | `StreamPersister` |
| `StreamPersisterProofs` | six theorems | `StreamPersister` |
| `AlertLifecycle` | alert service with its rule cache, evaluator step, alerts API and alert rules API for one device and rule | |
| `AlertLifecycleProofs` | five theorems | `AlertLifecycle` |
| `EvaluatorGroup` | second consumer group, evaluator workers and the exception handler | |
| `EvaluatorGroupProofs` | five theorems | `EvaluatorGroup` |
| `AnomalyWindow` | the sorted set of observations and the z-score, as operators | |
| `EvaluatorWindow` | the evaluators filling one window and judging by it | `EvaluatorGroup`, `AnomalyWindow` |
| `MCEvaluatorWindow` | the observations for TLC | `EvaluatorWindow` |
| `EvaluatorWindowProofs` | its theorems | `EvaluatorWindow`, `EvaluatorGroupProofs` |
| `IngestGate` | rate limiter, credential cache and device lookup for one device code | |
| `IngestGateProofs` | four theorems | `IngestGate` |
| `LiveFeed` | sockets, subscriptions and listener task of one API process | |
| `LiveFeedProofs` | six theorems | `LiveFeed` |
| `HourlyRollup` | beat, broker and overlapping runs of the hourly rollup | |
| `MCHourlyRollup` | symmetry and the readings of each hour for TLC | `HourlyRollup` |
| `HourlyRollupProofs` | four theorems | `HourlyRollup` |
| `Accounts` | users, refresh tokens and the requests that change them | |
| `MCAccounts` | symmetry for TLC | `Accounts` |
| `AccountsProofs` | four theorems | `Accounts` |

The modules meet at shared data rather than at shared steps.  `StreamPersister` and
`EvaluatorGroup` are two groups on one stream, which neither of them can tell;
`AlertLifecycle` is what `ApplyRules` of `EvaluatorGroup` does to one alert; the
events of both are what `LiveFeed` publishes; `IngestGate` stands in front of `Ingest`;
the rows of `StreamPersister` are the readings of `HourlyRollup`.  Where components do
share steps they are composed: `EvaluatorWindow` replaces the free verdict of
`EvaluatorGroup` by the one of `AnomalyWindow` and keeps every other action.

Operators whose names hold an underscore (`Read_FullBatch`, ...) are variants
of an action with a plausible mistake; each documents a property that notices it.

### StreamPersister

Ids are positions in `log`; `firstId` is where trimming has got to, `cursor` the
group's last-delivered-id, `pending` the PEL.  An entry is one of three kinds:
good, malformed (the parse at lines 74-89 raises) and unstorable (COPY refuses).
`fresh` keeps the order of the deliveries of the last 30 s, so that the oldest
gets idle first (`BecomeIdle`) and no clock is needed.

A worker's `pc` says which await it is at:

| action | code |
| --- | --- |
| `Claim`, `SkipClaim` | recovery check due or not, lines 125-141 |
| `Read` | XREADGROUP, lines 143-154 |
| `AckMalformed` | the XACK inside the parse loop, lines 92-95 |
| `Commit`, `Reject` | the transaction around COPY, lines 97-100 |
| `Ack` | XACK of the committed batch, lines 102-103 |
| `NoGroup`, `Fail`, `Wake` | any exception, the handler and its sleep, lines 158-160 |
| `Crash`, `Restart` | the process ends, in the middle or by a signal at the top of the loop; a new one starts |

A call whose effect happened and whose answer was lost is its action followed
by `Fail`.  For the commit-and-lost-XACK case that is `Commit` and `Fail` at
"ack".  `XADD MAXLEN ~` may keep more than `MaxLen` entries, so `Ingest` trims
nondeterministically up to the limit.  XACK and XAUTOCLAIM do not look at the
owner of a pending entry, and consumer names are fresh per process, so the PEL
has no owners.  XAUTOCLAIM also bounds how many entries it examines
(ten times COUNT); with that many entries that are not idle in front of an idle
one it needs several checks.  The model lets it reach the idle ones at once.

### AlertLifecycle

One device and one rule, which is created at some time and has no way to be
disabled in this API.  Rules share nothing: the key and the rows are per rule.
The list of the device's rules in `cache:rules:<device>` is missing, has the rule or
has it not.  A worker that finds none selects and SETs in two steps, so that it may
cache a list from before the rule was created, and judges its reading by it.  `metric` says whether
the readings of the moment breach the rule, do not, or lack its metric, in which case the
rule is passed over (`Judge`); `Receive` samples it, so that readings of two workers may be
applied out of order.  The points of a worker are the awaits of
`process_reading_alerts`: GET, SELECT and SET of the rules; then GET of the key, COMMIT of the row, SET, PUBLISH on one branch,
SELECT, COMMIT, DEL, PUBLISH on the other.  `Abort` is the handler of
`process_evaluation_entries`, which acknowledges the reading whatever has been
done, or a crash; `ExpireKey` the 24 h expiry.  `LoadAlert` and `CommitAlert` are
the two halves of an operator's request; SQLAlchemy writes only a changed
attribute, so a request that sets the status it loaded writes nothing.

A row whose key was never SET or has expired is an orphan: no reading resolves it.  `Deduplicated` says
that one evaluator makes no other, and that each fault makes one at most.  The opposite
is a stale key, on an alert that is over.  A failure between the COMMIT of RESOLVED
(`alert_service.py:119`) and the DEL (121) leaves one, and so does an operator who
resolves an alert while the metric breaches its rule, since neither request of the alerts
API touches the key.  While it is there no reading raises anything: until a normal
reading deletes it, or for the rest of its 24 h.  The code says nothing against this, so
`LastingBreachIsAlerted` leaves it out by name (`NoStaleKey`, and the requests that
`Breached` excludes); for every other breach it asks for an alert that is not resolved and
that the key names, from some time on.  That acknowledging overwrites RESOLVED is in the
model too, and no property refuses it.

### EvaluatorGroup

The stream, `cursor` and `pending` are as above.  `batch` is what a worker has not gone
through, lowest id first.  The points are the awaits of one reading:

| action | code (`anomaly_consumer.py`) |
| --- | --- |
| `Read`, `IdleTurn` | XREADGROUP of new entries, lines 91-102 |
| `Unparseable` | the parsing in front of the first await raises, lines 26-37 |
| `Tick` | PUBLISH for the dashboards, lines 39-47 |
| `DetectAnomalies` | windows and anomaly records, lines 49-69; the verdict is free |
| `ApplyRules` | `process_reading_alerts`, line 72 |
| `Ack` | XACK, line 75 |
| `HandlerAck` | the exception handler's XACK, line 79 |
| `RaiseInEntry`, `RaiseInHandler`, `RaiseInRead` | a call raises, with its effect or without |
| `Wake` | the sleep of the outer handler, lines 105-107 |
| `Crash`, `Restart` | as for the persister |

There is no XAUTOCLAIM in this worker: what is pending when its worker fails
outside of the handler is `Abandoned`.

### AnomalyWindow and EvaluatorWindow

The window is a set of observations, each a value with its time, as the
member of the sorted set is a string of both: a measurement that is recorded
twice is there once.  `Record` is the transaction of ZADD and
ZREMRANGEBYRANK, `Outlier` the z-score with its root and divisions multiplied out, over
integers.  The doubles of the code round, and a deviation under 1e-6 counts as
none; over the integers of a run neither makes a difference.

`EvaluatorWindow` has one window, that of a device and metric to which all readings of the
run belong, with an observation per reading (`Samples`).  `LoseVerdict` is a call that raises, or a
death, behind the transaction on the window: the observation is in the window although
nobody judged it.  `ExpireWindow` is the 24 h expiry.
`NoVerdictAtMinimum` is about the boundary at ten samples: as the judged value is in its own
window, n samples hold none that is further than (n - 1) / sqrt(n) deviations
off, 2.85 for ten, so the code first flags with eleven.
`ThresholdBeyondMinimum` states what this needs of the constants, and the code's satisfy it.

### IngestGate

Requests that name one device code, in steps between awaits: INCR and TTL in one
transaction (`Arrive`), EXPIRE (`Arm`), GET of the cache (`Hit`, `Miss`), `Select`,
`SetCache`.  A counter is armed before the limit applies, so a request over the limit may
still be on its way to EXPIRE ("reject").  The clock is counted down: `ttl` and `cacheTtl` are what remains of the keys'
lives, and `passed[n]` is how many INCRs within the limit the last n ticks have seen.  The counter
stays at `Limit + 1`, since no code looks further.  A device keeps the key it was
provisioned with, so a key is named by its device, and verifying it is a
comparison that comes behind the last await and changes nothing.  The SELECT asks for active devices
of the code (`Active`), and only behind `scalar_one_or_none` is the credential looked at: a
second device makes the lookup raise unless it is deactivated itself, whatever its
credential.  `Deactivate` and `Revoke` are done in the database, as no endpoint does either.

`TwiceTheLimit` is what a fixed window promises: the comments at `deps.py:36` and `:50` speak
of 1000 requests per 60 s, which holds for windows that begin with the counter, and
twice that may pass in 60 s around the end of one.

### LiveFeed

A step is what runs between two awaits.  The lock of `ws_manager` guards sections
without an await, so it is never found taken.  A listener task is "start" until
Redis has its PSUBSCRIBE, "listen", "send" while it goes through its copy of the
subscribers, "closing" in its finally block and "done".  `LoseConnection` has both outcomes:
redis-py connects and subscribes again ("again"), or `listen` raises and the task ends; what Redis had
sent is lost either way.  A first PSUBSCRIBE that raises does so in front of the `try` and ends the task
at once, a repeated one inside of it, by way of the finally block (`PsubscribeRaises`).  A `Connect` that finds the task in its finally block does
not replace it, as `done()` is still false.  `EndpointRaises` is an exception other
than `WebSocketDisconnect`, after which the socket stays among the subscribers until a
send to it raises (`SendRaises`), channel by channel.  `EventsArrive` excuses a listener that is
not there; `SilenceEnds` says how long that lasts: any connect behind its end brings a task that
subscribes, or that fails in its turn.

### HourlyRollup

An aggregate is represented by the number of readings it integrates: what the
properties ask is which readings, and the trapezoidal rule is arithmetic over
reals.  Each SELECT sees what is committed by then.  The session factory has
autoflush off, so the INSERTs happen at the COMMIT, where one
existing row rolls back all (`Rollback`).  The period comes from the clock when the run
starts, not from the schedule: a task that waits beyond its hour sums up the next one beside the task
that is due then, and its own hour stays without aggregates.  The run has such a task; the properties
ask that the two do not disturb each other, and none refuses the hour that is left out.  Celery acknowledges a task before it runs, so `Die` loses
it; `Redeliver` stands for a broker that delivers twice and for a run by hand.
`README.md:57` of the repository calls the rollup idempotent.  It is in the sense of `AggregatesAreFinal`; a run
that comes second adds nothing at all, also not for a device whose readings came late.

### Accounts

A row of `users` is named by organization and email, since `uq_user_org_email` keeps
both together unique; `role` is "none" without a row.  Only ADMIN may do anything here,
so the other roles are one.  A request of a kind is in flight from its first query on:

| action | code |
| --- | --- |
| `Register`, `Flush`, `Found` | slug check, INSERT of the organization, COMMIT with its admin, `auth.py:42-56` |
| `Login`, `CommitLogin` | lookup by email, COMMIT of `last_login_at`, `auth.py:66-75` |
| `Refresh`, `DeleteOld` | GET and DEL of the old token, `auth.py:84-89` |
| `Issue` | SET of the new one, `auth.py:19-34` |
| `Logout` | DEL, `auth.py:97`; the 7 days of a token do the same |
| `Authenticate` | the SELECT of `get_current_user`, the role check and the early refusals |
| `CheckEmail`, `InsertMember` | `organizations.py:64-74` |
| `LoadMember`, `WriteMember` | SELECT and COMMIT, `organizations.py:92-99` and `118-126` |
| `Abort` | a call raises or the process dies; `get_db_session` rolls back |

`LoadMember` takes the current user from the session when he is the member, as
SQLAlchemy's identity map does: he is an ADMIN there even if he has been demoted
meanwhile.  `WriteMember` updates by primary key and only if the role differs from the one that
was loaded.  Two INSERTs of one slug wait for each other at the unique index (`Flush`).

`SessionsDoNotMultiply` counts: a refresh whose DEL finds nothing, because another took the
token first or a logout did, still gets a token of its own; each such race adds one session
and nothing else does.  `AdminsRemain` names the two ways in which an organization loses its
last admin, as the code forbids neither: an admin may demote himself, and a request that
was let in is not looked at again, so that two admins can remove each other.

## Runs

| run | instance | shows |
| --- | --- | --- |
| `persister_safety` | 2 workers, 3 entries of any kind, `MaxLen` 2, batches of 2, one fault at any await | type invariant, `SettledIsStored`, `RowsAreDelivered`, the inductive invariant `Consistent`, the action property `SettledIsFinal`, and `ReadingDelivery` implemented |
| `persister_liveness` | 2 workers, 3 good or unstorable entries, one fault at any await | `StoredUnlessPoisoned` |
| `persister_lost_ack` | 1 worker, 2 entries, two failing calls, one of them the XACK | `EveryReadingStored` is violated |
| `alerts_one_evaluator` | 1 evaluator, 1 operator, 3 changes of the metric, 1 abort, 1 expiry | `Deduplicated`, `ClearedAlertsEnd`, `LastingBreachIsAlerted` |
| `alerts_faults` | 2 evaluators, no operator, 2 changes, 1 abort | `EventsAreTrue`, `LastingBreachIsAlerted`, `RuleTakesEffect` |
| `alerts_two_evaluators` | 2 evaluators, 1 change, no fault | `AtMostOneActive` is violated |
| `evaluator_group` | `EvaluatorWindow`: 2 workers, 3 entries, `MaxLen` 2, batches of 2, one fault at any await, a window of 2 | `AtMostOnce`, `AbandonedBounded`, `SettledForAReason`, `EveryReadingEnds`, `WindowIsLatest`, `NoVerdictAtMinimum` |
| `ingest_gate` | 2 requests in flight, 2 devices of one code, `Limit`, `Window` and `CacheLife` 2, one fault | `TwiceTheLimit`, `LockoutEnds`, `RevokedEnds` |
| `gate_two_sites` | 1 request, 2 devices, no fault | `OwnKeyIsAccepted` is violated |
| `live_feed` | 2 sockets, 2 channels, 2 events, 2 listener tasks, 2 faults | `OneListener`, `InOrder`, `NoGaps`, `GhostsLeave`, `EventsArrive`, `SilenceEnds` |
| `hourly_rollup` | 2 devices, 2 overlapping runs, hours 0 to 2 with up to 3, 2 and no readings, one fault | `AggregatesAreTrue`, `AggregatesAreFinal`, `SuccessIsComplete` |
| `accounts` | 2 organizations, 2 emails, 2 requests at a time, 5 in all | `SessionsDoNotMultiply`, `AdminsRemain`, `RemovalIsFinal` |

Bounds.  Two workers are what the claim of a batch somebody still works on
needs.  Three entries with `MaxLen` 2 and batches of 2 have a full batch, a
short one, a trimmed entry that is pending, and one that is held.  One fault is
enough to leave a batch behind; the second would only leave another.  The
liveness run keeps `MaxLen` at the number of entries, since trimming would
excuse what it asks for, and it has no malformed entry: what a failing XACK inside the parse loop
costs is `SettledIsStored`, in the safety run.  The first reading may breach the rule, so that two changes of the metric
are a breach, its end and the next breach; the third brings the end of that one, or a reading
without the metric in between.  One abort and one expiry leave an orphan each, or a stale
key in front of the second breach.  The safety run treats workers as interchangeable; the
liveness runs do not.  In `evaluator_group` one fault with two workers leaves a worker
that goes on, since nobody must restart a dead one; a batch of 2 has a reading behind
the one that fails.  `ingest_gate` lets requests meet the limit, pass it and wait for the
window's end, with the second device only to make codes ambiguous.  Two sockets in
`live_feed` create two tasks at most, one per connect, so `MaxTasks` cuts nothing off; one
socket dies or leaves while the other must not miss an event.  `hourly_rollup` has two hours
that end, so that the task of the first may wait into the third and meet the one that is due then;
three readings separate two from "two at least", and nobody sums up the last hour before the
model ends, so it needs none.  The window of `evaluator_group` is full with two
observations; the third reading was measured first and is far off, so it is trimmed when it
comes last and pushes others out when it comes first.  With a minimum of two samples and a window of two
only a reading that does not stay in its window can be flagged, which is what
`NoVerdictAtMinimum` has to tell from the rest.  `accounts` has five requests: an organization is
registered, a member added, he logs in, and the two admins remove each other; two
emails and two organizations let one person be in both.

Fairness.  A worker's next step happens as every await returns or raises.
`Claim` is strongly fair because the loop compares the clock with the last check
at every turn: a worker that comes round forever makes the check every 15 s.
Time passes (`BecomeIdle`) and the API is started once (`SetupStreams`).  Nobody is
obliged to restart a dead worker, to send readings to the API, to fail, or to
answer an alert.  Redis expires a cached list of rules (`ExpireRules`).  In `ingest_gate` devices go on reporting, which is what repairs a counter without
expiry.  In `live_feed` awaits of the event loop end: a send to a peer that is gone raises
when its keepalive does, and the endpoint of such a peer notices.  `hourly_rollup` and `accounts` assume no
fairness.  Deadlock is checked everywhere but in `live_feed`, where all browsers may have
left for good.  For the alerts, evaluators get readings because devices report periodically, and a request of an
operator that has begun ends.

### What the violated runs show

1. `persister_lost_ack` (`stream_consumer.py:103`): a batch whose rows are committed
   and whose XACK fails stays pending.  Each recovery copies it again, meets the
   primary key and rolls back, with whatever else was claimed with it.
   The comment at line 127 promises recovery of orphaned messages.
2. `alerts_two_evaluators` (`alert_service.py:73`): GET, COMMIT and SET are apart, so
   two evaluators raise one alert twice and the key forgets the first.  `dev.sh`
   starts one evaluator; nothing in the code keeps it at one.
3. `gate_two_sites` (`deps.py:73`): provisioning makes a code unique within its site, the
   gate looks it up without the site.  With two active devices of one code
   `scalar_one_or_none` raises, and neither gets in once the cache has expired.

`StoredUnlessPoisoned` says what is left of `EveryReadingStored` in general: a storable reading is
stored or trimmed unless an entry that no COPY takes, because its row exists or because the table
refuses it (`stream_consumer.py:97`), stays pending for ever beside it.  The comment at
line 94 wants to prevent a poisoned PEL, and does for entries that do not parse.

## Proofs

`StreamPersisterProofs`, for any finite or infinite set of workers, any bounds and
sizes and any set of fault points (assumed: `MaxLen` and `BatchSize` are positive, the
other bounds natural, kinds and points among those named):

- `TypeCorrect`: `[]TypeOK`;
- `ConsistentAlways`: `[]Consistent`.  `SettledIsStored` alone is not inductive: a step
  that reads needs to know that everything up to `cursor` was delivered
  (`DeliveredInOrder`), an XACK that the batch at "ack" is committed
  (`RowsAreDelivered`), and the refinement that trimming obeys MAXLEN
  (`RetentionKept`).  One lemma per kind of step; steps that change neither log, rows
  nor PEL share `QuietConsistent`;
- `SettledIsStoredAlways`, `RowsAreDeliveredAlways`: two of its conjuncts;
- `SettledIsFinalAlways`: the action property, from the same invariant;
- `PipelineImplementsDelivery`: the refinement.  `lost` is what is neither stored,
  nor in Redis, nor in the hands of a worker that may still commit it; the proof
  shows that lost stays lost (`LostStaysLost`) and is excused (`ConsistentLoss`).

`AlertLifecycleProofs`:

- `TypeCorrect`: `[]TypeOK`;
- `AnnouncedAlways`: `[]Announced`, the inductive invariant, for any number of evaluators,
  operators and faults: what workers and requests hold between two awaits;
- `EventsAreTrueAlways`: `[]EventsAreTrue`, its first conjunct;
- `DeduplicatedAlways`: with one evaluator (assumed: `OneEvaluator`), `[]Deduplicated`, for any
  operators, changes, aborts and expiries.  `HeldAgrees` is the strengthening: what the worker holds
  still agrees with the key, or the key has expired.  `OneOrphanPerFault` counts: an abort
  or an expiry adds one orphan at most (`OneNewOrphan`), every other step none (`NoNewOrphan`);
- `OneActiveUntilAFault`: `[](aborts = 0 /\ expiries = 0 => AtMostOneActive)` with one evaluator: without
  orphans the key or the worker at "set" names the one ACTIVE alert.

`EvaluatorGroupProofs`, for any workers, entries, faults and sizes (`MaxLen` and `BatchSize`
positive):

- `TypeCorrect`: `[]TypeOK`;
- `HandledOnceAlways`: `[]HandledOnce`.  `AtMostOnce` is not inductive: `OwnBatch` says that no
  two workers hold one reading, `InTurn` that what has happened to a reading in
  hand agrees with the point its worker is at, and with both a PUBLISH or an
  evaluation is always the first.  `AbandonedBounded` counts: a fault adds the
  rest of one batch, which `OwnBatch` bounds;
- `AtMostOnceAlways`, `AbandonedBoundedAlways`, `SettledForAReasonAlways`: its conjuncts.

`HourlyRollupProofs`, for any devices, runs and bounds:

- `TypeCorrect`: `[]TypeOK`;
- `AggregatesAreFinalAlways`: the action property, from `Unique` at the COMMIT;
- `AggregatesAreTrueAlways`, `SuccessIsCompleteAlways`: from `SessionAgrees`, which says of each
  run that its period is over, that what it has added is no more than there is,
  and that for each active device it has queried it has what there was
  when it began.  The tables may grow while a run is under way, and
  `Untouched` shows that this disturbs none of it.

`EvaluatorWindowProofs`, for any workers, entries, faults, observations and sizes (assumed:
`SizesFit`, `ThresholdBeyondMinimum`, observations with one time are one):

- `ImplementsGroup`: `WSpec => Spec`, so that whatever is proved of `EvaluatorGroup` holds with
  the verdict of the window;
- `HandledOnceWithWindow`: `WSpec => []HandledOnce`, its first use;
- `WindowIsLatestAlways`: `[]WindowIsLatest`, from the lemma `LatestOfLatest`: the latest n of
  the latest n and one more are the latest n of all.  The hard case is an observation
  that comes late (`TooLate`): of what was trimmed and is later than it, take the
  latest; the n behind that are all still in the window;
- `NoVerdictAtMinimumAlways`: the action property.  While no more than `WindowSize` were recorded the
  window is all of them (`WindowFills`), so a verdict on the fewest samples would be one on a set
  that holds the value itself.  `NoneStandsOut` excludes it for every set of integers: the sum of
  the others squared is at most (n - 1) times the sum of their squares (`AllScattered`), and
  with that n - 1 times the spread is no less than the distance squared (`DistanceBounded`).
  `Total` and `Squares` are folds of the library, recursive functions over the subsets: that they
  have a solution (`SumsExist`) and what they bound are inductions on the number of elements, done
  by a least counterexample (`LeastExists`), as the induction theorems cannot be cited.

`AccountsProofs`, for any organizations, emails and requests:

- `TypeCorrect`: `[]TypeOK`.  That no more tokens are drawn than requests began is not inductive:
  `Counted` adds requests on their way to draw a token, open a session or miss a
  token to what has been drawn, opened and missed, and every step is a transfer (`Moved`);
- `SessionsDoNotMultiplyAlways`: the last conjunct of `Counted`;
- `RemovalIsFinalAlways`: the action property, from the three steps that write rows (`RowWriters`);
- `AdminsRemainAlways`: the action property, from `OwnMembers`: a request that changes a member is
  from the member's organization and no removal of its own author, so an author
  who is still an admin remains one.

`LiveFeedProofs`, for any sockets, channels, events, tasks and faults:

- `TypeCorrect`, `TasksInTurnAlways`: `[]TypeOK` and `[]TasksInTurn`.  Neither is inductive
  alone: that only a task at "send" has targets needs a created task to be a new one;
- `OneListenerAlways`: `[]OneListener`, from `TasksInTurn`: the tasks before the remembered
  one are done, those behind it do not exist;
- `FeedAlways`: `[]Feed`, the inductive invariant.  The inbox of a subscribed task is all that was
  published behind what it has taken (`InboxFollows`), a broadcast of any channel copies every
  open socket (`OpenIsSubscribed`), what was taken has reached the open sockets or is in the
  broadcast before them (`TakenReaches`), and nothing comes twice (`NothingTwice`).
  `FeedWriters` says which steps change the feed of a subscribed task at all, so that
  the others need no argument;
- `InOrderAlways`, `NoGapsAlways`: from `Feed`.

`IngestGateProofs`, for any requests, devices, limit, window, life of the cache and faults (limit,
window and life positive):

- `TypeCorrect`: `[]TypeOK`.  That a cached entry is a device needs that a request at "set", and no other, has found one;
- `TwoCountersAlways`: `[]TwoCounters`, the inductive invariant: the counter began k - 1 ticks ago,
  what passed since is its own, what passed before belongs to one other counter, and
  with `ttl` ticks to live it ends only when that other one is out of the window.  An INCR and its
  EXPIRE may be any time apart, and any EXPIRE arms the counter of any request;
- `TwiceTheLimitAlways`: `[]TwiceTheLimit`, as either counter lets `Limit` through;
- `RevokedStaysOutAlways`: the safety half of `RevokedEnds`: a device that is deactivated or whose
  credential is revoked gets into the cache again only from a request that had read its row before.

Model-checked only: the liveness properties (`StoredUnlessPoisoned`, `ClearedAlertsEnd`,
`LastingBreachIsAlerted`, `RuleTakesEffect`, `EveryReadingEnds`, `LockoutEnds`, `RevokedEnds`,
`GhostsLeave`, `EventsArrive`, `SilenceEnds`), which are out of the prover's reach, and the violated runs.  Every safety
property of the passing runs, invariants and action properties, is a theorem as well.

## Plan

All the components with control of their own are modelled.  What is left, in this order:

1. The 5 s cache of the dashboard's summary and the status of anomaly records, if anything comes
   to rely on them.

## Not modelled

Read-only queries, configuration, logging, schema migrations apart from the
constraints used above, the simulator, scripts and tests: they keep no state that a
property could be about.  Creating sites, devices and device types is one INSERT each,
with uniqueness left to the database; `IngestGate` has what matters of it.  An anomaly
record's status is overwritten by one UPDATE and nothing else reads it.
The integral of the rollup is over real numbers.  The connectivity sweep finds no device: nothing writes
the column `is_online`, although `models/device.py:77` says that the stream worker does.
The purge task only logs.  Passwords, signatures and the expiry of access tokens
after 15 minutes are left out of `Accounts`: a token that expired is refused, which only
takes requests away.
