# Plenora Cockpit: specifications and proofs

TLA+ modules of the parts of Plenora Cockpit that carry its logic, TLC configurations that
check them on small instances, and proofs of the properties that matter most for every
instance. Cockpit is a monitoring system: collectors measure a platform and push snapshots
to a backend; the backend turns observations into incidents; incidents fill a notification
outbox and a queue of AI analyses, each emptied by a worker of its own; another worker
watches the collectors, the notification worker and the outbox, and reports what it finds
through the same incidents. A monitoring system is only worth its alarms: it must not miss
a fault, must not call for nothing, must not call for the same fault without end, and must
not lose or pay for anything twice when a process dies. What it shows must not be better than
what was measured. Those are the properties here.

Paths are relative to the repository. `PROJECT.json` holds the runs, the mapping of every
definition to the lines it models, the hazards and the theorems.

    tlc -workers 2 -config Incidents.cfg MCIncidentStability.tla
    tlapm IncidentEngineProofs.tla

## 1. The system

| Component | State | Operations | Hard behaviour |
|---|---|---|---|
| Incident engine (`backend/app/monitoring.py`) | tables `observations`, `incidents`, `notification_events`, `analysis_requests` | `evaluate`, with `_recent` and `_notify` | observations late or out of order; several signals of one incident code; unique keys that would roll a snapshot back |
| Snapshot ingestion (`backend/app/ingest.py`) | `ingest_snapshots`, `collectors.last_sequence`, `last_seen_at` | `POST /ingest`: validate, authenticate, replay protection, store, evaluate | repeated, delayed, stale and reordered requests |
| Collector (`collector/src/runner.py`) and observer (`observer/publisher.py`) | a state file: last settled sequence number and the pending snapshots | `run_once`: probe, save, send, settle | crashes between request and save, a full buffer, a wrong secret, ageing |
| Notification worker (`backend/app/notifications.py`, `notification_worker.py`) | `notification_events.delivery_state`, attempts | `deliver_pending`, `record_worker_heartbeat` | a crash between mail and commit, mail servers that do not answer, row locks lost at a commit |
| Analysis worker and AI budget (`backend/app/analysis.py`, `ai_budget.py`) | `analysis_requests`, `ai_usage`, `ai_budget_months` | `process_pending`: claim, reserve, call, reconcile or release, finish | a paid call between two commits, retries, a budget that runs out |
| Self-monitoring (`backend/app/self_monitoring.py`) | none: it reads all of the above | `run_self_monitoring`: freshness of every collector and of the notification worker, age of the outbox, last delivery | it reacts to the mails its own incidents cause; two conditions share an incident code |
| Health aggregation (`backend/app/health_semantics.py`) | none | pure functions | stale, missing and optional signals |
| Operator API, sessions (`backend/app/main.py`, `auth.py`) | sessions, rate limiter (in memory) | the snapshot of an environment, login, logout, read-only queries | a bounded read of rows that arrive late; expiry |
| Owner command line (`backend/app/cli.py`) | none | enrolment, rotation, test mails and test analyses | waits for another process's commit; an answer that is lost after the commit |
| Probes (`collector/src/probes.py`, `database_catalog.py`, `contracts.py`) | none | measure one target each | classification of old or broken status files |
| Status boundaries and host observer (`deploy/*-status-boundary.py`, `host-observer.sh`, `observer/server.py`) | status files of the host, their copies in `/run` | read, check, publish atomically, one copy after the other | one boundary that refuses ends the others, stale copies, reboots |
| Secret rotation (`deploy/rotate-collector-secret.sh`) | the secret in a file, in the database and in a container | rotate with rollback (`trap ERR`), cleanup (`trap HUP INT TERM EXIT`) | commands that fail in between, signals that do not end the script, lost answers |
| Deployment scripts | none of their own | `deploy.sh` seeds the credential and starts the containers | a deployment after a rotation that was cut short |
| Configuration, frontend | none that others read | | |

How they interact: a collector calls `POST /ingest`, which calls `evaluate` once per
observation inside one transaction; `evaluate` writes notification events and analysis
requests into the same transaction. The two workers poll their tables, claim rows with
`FOR UPDATE SKIP LOCKED` and commit after every row. Self-monitoring calls the same
`evaluate` every 30 seconds inside a transaction of its own. An operator reads the newest
observations, of all sources together. The status of the backups takes the way of files:
the backup jobs write it, a script copies it every minute, the observer reads the copies and
pushes what it read like any collector. The secret a collector authenticates with is in a
file, in the database and in its container, and two scripts change it. There are no
callbacks and no shared memory between processes: everything goes through PostgreSQL, HTTP
and files.

What makes each component correct:

* Engine: one active incident per fingerprint; none without a cause; none missing for a
  fault that is seen twice; every lifecycle told once, in order, truthfully.
* Delivery of snapshots: at most once and in order at the backend, nothing good dropped but
  what the backend has or refused for its date, and no snapshot kept for ever.
* Outbox: recorded outcomes are true and final, attempts are bounded, every event settles.
* Budget: reservations and charges add up and stay within the month, calls are bounded, a
  test calls at most once.
* Self-monitoring: a silent source is noticed, once, and not before its margin.
* Operator view: HEALTHY is earned by a measurement of every component that is not too old,
  and of what was measured nothing but the limit on the rows read leaves anything out.
* Status of the backups: never better than the backups are, and a failure that lasts comes
  out.
* Secret rotation: success means that the three places agree on a new secret; a command that
  fails is undone (one is not, see section 4); a deployment repairs what an interruption left.

## 2. The modules

| Module | Models | Kind |
|---|---|---|
| `IncidentEngine` | `monitoring.evaluate`, `_recent`, `_notify` | state machine, implements `IncidentLifecycle` |
| `IncidentStability` | the same with a history of openings | promises of the documents |
| `IncidentLifecycle` | what the backend promises of the life of incidents | abstract specification |
| `IncidentEngineProofs` | ten theorems about the engine and its promises | proofs |
| `SnapshotFeed` | what collector and endpoint promise together | abstract specification |
| `SnapshotDelivery` | `run_once` of collector and observer against `POST /ingest` | state machine, implements `SnapshotFeed` |
| `SnapshotDeliveryProofs` | six theorems, the refinement among them | proofs |
| `NotificationOutbox` | `deliver_pending` and its worker | state machine |
| `NotificationOutboxProofs` | four theorems | proofs |
| `AnalysisBudget` | `process_pending`, `reserve`, `reconcile`, `release` | state machine |
| `AnalysisBudgetProofs` | six theorems | proofs |
| `SelfMonitoring` | `run_self_monitoring`, composed with `IncidentEngine` | state machine |
| `SelfMonitoringProofs` | six theorems | proofs |
| `SecretRotation` | `rotate-collector-secret.sh`, the commands of `cli.py` it runs, `deploy.sh` | state machine |
| `SecretRotationProofs` | four theorems | proofs |
| `HealthView` | `health_semantics.py` | operators |
| `OperatorView` | `main.snapshot` over rows that arrive late | state machine around `HealthView` |
| `OperatorViewProofs` | two theorems | proofs |
| `StatusBoundary` | `host-observer.sh`, the boundaries of the backups, `backup_probe`, `offsite_backup_probe` | state machine |
| `StatusBoundaryProofs` | two theorems | proofs |
| `MC...` | instances | for TLC |

A definition whose comment begins with "a fault for the runs to find" is no part of the
model. It is a plausible mistake in the code next to the definition that would contain it;
putting it in that definition's place makes a property of a run fail (`mutants` in
`PROJECT.json`).

### IncidentEngine

One observation is one step, because `evaluate` runs to its end within the transaction of
the endpoint or of self-monitoring. `recent[s]` is the result of `_recent`: the two newest
observations of a signal. The query orders by `observed_at` and then by a random id, so
`Stored` lets an observation with an equal time fall on either side; a late one may stay
outside the window while `evaluate` still judges it. The four branches of `evaluate` are
the actions `Recur` (active incident and a failure), `Open`, `Resolve` and `Quiet`.
`Notify` is `_notify`: the event and, for an opening or an escalation, the analysis
request. All signals belong to one target and one environment, so a fingerprint is an
incident code. `classify` and `incident_code` are parameters: which states a signal takes
and which code it reports under.

`IncidentStability` adds a history variable, the incidents a signal has opened since it was
last healthy, to state what `docs/INCIDENT-MODEL.md` promises.

`IncidentLifecycle` leaves the observations out: per code at most one incident lives, it is
opened, gets worse and is resolved; each of these is told once, when it happens, and the
first two ask for an analysis. `ImplementsLifecycle` is the refinement: what lives is the
active incident with its severity (`LivingOf`), `told` and `asked` are the two tables that
`_notify` fills. An evaluation that changes only a window, a count or a time is a stutter.

### SnapshotDelivery

`disk` is the state file. `run_once` saves after every change, and the list it loops over
loses its head exactly when the saved one does, so the file stands for the memory too.
`Poll` builds and saves (dropping the newest when `MAX_PENDING` is reached), `Send`,
`Serve`, `Settle`, `Refuse` are one request; `TimeOut` and `Crash` end a poll anywhere and
may leave the request in `late`, from where `ServeLate` still delivers it. `Verdict` is the
order of checks of the endpoint: schema, date, what it has already, secret, replay, targets.
The endpoint is a coroutine that never awaits, in one process, so it is one step.

The endpoint refuses a snapshot whose `generated_at` is more than five minutes off in either
direction. `date` says where each lies by the backend's clock: ahead, timely or past. The
clock of the collector is another one, so `Clocks` lets a snapshot be built with any of the
three; `Age` moves dates on, from ahead to timely to past, one by one. A clock that is set
back while a snapshot waits is left out. `Rotate` makes the secret wrong and right again.

A snapshot dated ahead gets a 400, a final answer, and `run_once` drops it although the
backend could take it minutes later. `OnlySettledDropped` therefore excepts the date: nothing
good is dropped for a timeout, a crash, a secret or a number. If a request of such a snapshot
is still under way it may be accepted after its number was settled, as long as nothing newer
was; `IngestedOnceInOrder` and `ImplementsFeed` hold all the same.

`SnapshotFeed` is the promise in one line: numbers settle one by one in order, and each is
delivered at most once, in order, and none before it is the next to settle. `ImplementsFeed`
is the refinement, with `delivered` the numbers in `ingest_snapshots` and `settled` the number
in the state file.

### NotificationOutbox

`Claim` selects the oldest pending events nobody has locked; `Try` is the mail; `Record` is
the commit, which releases every lock of the worker's transaction and not only the row's.
A worker works on the copies it claimed (`seen`). A try may fail, succeed, or succeed
without the worker learning of it; `Restart` kills the worker anywhere.

### AnalysisBudget

Every commit of `process_pending` is a step: settling without a provider, claiming, marking
a test, reserving, calling, reconciling or releasing, finishing. `Ends` says how a call can
end: a valid result, a useless one that is paid, one whose usage is missing, an HTTP error
that may be retried or not, or any other exception. `charged` is what the provider knows
and the ledger does not.

### SelfMonitoring

A cycle is one transaction. `StartCycle` fixes its time; `Check(s)` observes one signal and
evaluates it with `IncidentEngine!Evaluate` (the module extends the engine: its tables are
the engine's own); the last check commits, and only then are its events visible to the
worker. `Deliver` is one attempt of the worker, oldest first, and may fall between two
checks. `Hear` is an accepted snapshot or the worker's heartbeat. `Tick` lets everything
age. `Configure` restarts the services with mail set up or not.

The signals are the sources, `outbox` (age of the oldest pending event) and `delivery` (how
the last terminal delivery ended). `CodeOf` gives the last two one code, as
`incident_code` does. Collectors and the notification worker follow the same rule,
`_freshness_state` after `_missing_source_state`, so both are sources.

### SecretRotation

`envFile`, `dbHash` and `collector` are the three places of the secret. `pc` is the next
command of the script: `CheckBackend` to `VerifyGone` in the order of the file, `UndoEnv` to
`UndoCollector` those of `rollback`, which `set +e` lets go on after a failure. `script` is
what the script has in its variables and on disk; `cleanup` empties it. Each command
succeeds or fails. `Fails` are the failures that change nothing; the others are on their own:
`ChmodFails` (the `chmod` after the `mv` of the new file, before the script has noted that it
changed it), `RemoveFails` (the `rm` of the backup when all is done), a failing `up`, which may
leave the containers as they were, gone or new (`CollectorHalfWay`, `BackendHalfWay`), and the
steps of `rollback` itself. `RotateLost` is an `exec` that fails after the row was committed.
`Signal` runs
`cleanup` and does not end the script, which therefore ends where it next reads an unset
variable (`Unbound`), without `rollback`, or not at all. `Crash` ends it anywhere. The
documents promise nothing for these cases; `DeployRepairs` says what helps: `DeploySeed` and
`DeployUp`. `causes` remembers what went wrong beyond a command that failed; `FailureUndone`
speaks of the states in which nothing did. The failing `chmod` is such a cause: it alone is not
undone (section 4). One person runs one script at a time.

### OperatorView

`log` holds the snapshots of all sources in the order they were measured. A source measures
every minute and at each start of its process, so `Measure` may happen any number of times in
a minute, up to `MaxSnapshots`; self-monitoring measures twice a minute anyway. They arrive in
that order per source, at once or later (`Deliver`) or never (`Refuse`). What an operator
sees is a function of it. A row is a pair, the j-th row of the i-th snapshot: `Stored` are the
rows that arrived, `Newer` their order, `Limited` the bounded read (the rows with fewer than
`ViewLimit` newer ones), `Latest` the newest row of every signal, `Stale` the limit of five
minutes, and `aggregate_health` the state of the environment, with the rule for services
that are not known to run and for optional rows.

### StatusBoundary

`local` and `offsite` are the status files of the two backup jobs, `backupFile` and
`offsiteFile` the copies in `/run`. `PublishHost`, `PublishBackup` and `PublishOffsite` are
the commands of `host-observer.sh` in their order under `set -e`; a time stamp is kept as
its age in hours. `Corrupt` damages a source, `SwitchTimer` stops or starts the timer,
`Interrupt` kills the script between two commands, `Reboot` empties `/run`. `backup_probe`
and `offsite_health` are what the observer and the classification make of the copies. The
two jobs are not in the repository; they write what the boundaries accept, or not.

## 3. The runs

| Run | Checks | Shows |
|---|---|---|
| `incidents` | `TypeOK` `AtMostOneActive` `ActiveHasCause` `KeysUnique` `OutboxTellsLifecycle` `FailingHasIncident` `OneIncidentPerFault` `ImplementsLifecycle` | Observations in any order of time, of two signals of one code and one with a code of its own: one active incident per code, never without a cause; a fault of the signal on its own has one incident and keeps it; the outbox tells its life truthfully, it and the analysis queue follow the life of the incidents step by step, and no unique key ever refuses a row |
| `delivery` | `TypeOK` `IngestedOnceInOrder` `BufferResumes` `NeverReplayed` `OnlySettledDropped` `ImplementsFeed` `BufferDrains` | Snapshots arrive at most once and in order whatever is lost, late or repeated; nothing good is dropped that the backend does not have and has not refused for its date; none stays for ever, even while the secret is wrong |
| `outbox` | `TypeOK` `MailedAsRecorded` `RetriesBounded` `OutcomesFinal` `EventsSettle` | Outcomes are true and final, attempts bounded, and failing events do not keep later ones out for ever |
| `budget` | `TypeOK` `LedgerBalanced` `ChargesCovered` `TestsCalledOnce` `CallsBounded` `LeaksAreRestarts` `RequestsSettle` | The ledger balances and covers what it can know whatever a worker died in; calls are bounded; no request of an incident stays pending |
| `budget_crash` (violated) | `MissingUsageKept` | See finding 1 |
| `self_monitoring` | `TypeOKMonitor` `SilenceNoticed` `AlarmIsEarned` `OneAlarmPerSilence` | A silence is noticed, once, not before its margin |
| `self_monitoring_fails` (violated) | `FailedDeliveryStands` | See finding 2 |
| `rotation` | `TypeOK` `SuccessMeansAgreed` `FailureUndone` `DeployRepairs` | Success is true even after a signal; a command that fails is undone, the `chmod` of the new file apart; a deployment repairs the rest |
| `operator_view` | `HealthyIsEarned` `HiddenOnlyByLimit` | Late, lost and repeated measurements do not flatter the state, and hide nothing but what newer rows push out of the bounded read |
| `view_limit` (violated) | `NothingBadHidden` | See finding 3 |
| `status` | `TypeOK` `BackupsNotFlattered` `FailureNoticed` | The backups look healthy only when both are recent, never better than unknown when one is too old, and a lasting failure comes out |
| `status_fails_closed` (violated) | `OffsiteFailsClosed` | See finding 4 |

Deadlock is not looked for where `CHECK_DEADLOCK FALSE` is set (`incidents`, `delivery`,
`outbox`, both of the budget, both of the operator view): those models stop when their bound
is used up (no more observations, snapshots, events, requests or minutes), which the program
never does. `SelfMonitoring`, `SecretRotation` and `StatusBoundary` cannot stop, and their
runs do check.

### Bounds, and why they are enough

* `incidents`: three signals, two codes, four states, times 0 and 1, `MaxObservations = 6`.
  An incident takes two failures to open and two recoveries to resolve, so six observations
  reach a resolution and a second incident of the same code, or a late observation and a
  signal of the same code in between. The two signals of the shared code are
  interchangeable (symmetry). 1.2 million states.
* `delivery`: `MaxPending = 2`, `MaxBuilt = 4`: the buffer is full with two, the third is
  dropped and its number used again, and the fourth shows what follows. `MCKinds` lets every
  kind of snapshot come first or second, so that a good one follows it; `MCClocks` lets the
  first and third be dated ahead and the second past, so that a snapshot dated ahead is refused
  before a timely one and after one. 394,794 states, the liveness graph included.
* `outbox`: `MaxEvents = 3`, `Limit = 2`, `MaxAttempts = 2`: one event more than a batch
  takes, so the starvation of the third is possible; `MaxMishaps` bounds the crashes and
  unanswered mails per event.
* `budget`: two requests (one of them a test), `MaxAttempts = 2`, `Budget = 1`,
  `MaxCost = 1`, one broken call and one restart: the budget is used up by one paid call and
  is free again after an unpaid one, so refusals, retries, leaks and lost charges all
  happen. `budget_crash` has one request and a cost of two in a budget of three.
* `self_monitoring`: `MaxObservations = 12`, four cycles of three signals, one source,
  thresholds zero and one, two attempts of a mail. Two cycles open an incident and a third
  and fourth escalate or resolve it. Sources do not touch each other's incidents (proved,
  `OtherIncidentsStay`), so one is enough. The violated run has five cycles, one of which
  the failed mail needs.
* `rotation`: three rotations or as many as secrets last, and any number of deployments,
  with four mishaps: a failure within a rollback, after a signal, followed by a deployment
  that fails, fits in. 49,841 states; the theorems have no bound.
* `operator_view`: three minutes (0 to 2), rows that count for one minute, a source of four
  rows (with a service and an optional row) and one of a single row; `MaxSnapshots = 4`, so
  that a source may measure twice in a minute and the other one before and after.
  `ViewLimit = 5` is the rows of one minute, as the deployment's 100 is to its 95: up to 16 rows
  compete for it, and what the limit hides and what it does not both occur. `view_limit` has
  the same bounds. 227,251 states.
* `status`: three attempts of the jobs and two mishaps; success counts as old after one hour
  and as too old after two, a pending upload is forgiven within its hour.

### Fairness

* `SnapshotDelivery!Fairness`: `run_once` is called again and again by `main` and catches
  its own exceptions, and time passes (weak fairness of `Poll`, `Finish`, `Refuse`, `Age`).
  `Send`, `Serve` and `Settle` are strongly fair: a network or a process that fails every
  single time would keep a snapshot for ever, one that fails again and again does not.
  Nothing is assumed of the secret.
* `NotificationOutbox!Fairness` and `AnalysisBudget!Fairness`: the worker's loop runs on and
  containers restart (`restart: unless-stopped` in the compose files); strong fairness of
  the steps of a round says that the worker is not killed in the same step every time.
  `EventsSettle` moreover assumes, in its statement, that mail is configured now and then;
  how a mail or a call ends is left open, failure for ever included.
* `StatusBoundary!Fairness`: time passes and the script, once started, goes on (weak fairness
  of `Tick` and of `Helper`). The timer fires while it is active: that is the guard of
  `Tick`, and `SwitchTimer` may switch it off. Nothing is assumed of the backup jobs.
* `SelfMonitoring`, `SecretRotation` and `OperatorView` have no fairness: their properties
  are safety properties, stated in checks made rather than in time passed.

## 4. Findings

Each is a run whose one property, taken from a document, is violated.

1. `budget_crash`: a worker that dies between the provider call and `reconcile` leaves a
   reservation that the next run uses for a second call. Two charges, one in the ledger;
   `docs/SECURITY.md:6` says that missing usage keeps the whole reservation.
2. `self_monitoring_fails`: the age of the outbox and the last delivery share the code
   `notification_delivery_stale`. While the mail server refuses mail, the healthy age
   resolves the incident in the middle of a cycle and the failed delivery opens the next one
   at its end, every 30 seconds; each opens a mail that fails too, which keeps it going, and
   an analysis that costs. `docs/SELF-MONITORING.md:31` says that a failed last delivery is
   CRITICAL until a newer one is sent. The tests stop after two cycles or leave the other
   signal UNKNOWN.
3. `view_limit`: the snapshot reads the newest 100 rows, whatever source they are of
   (`backend/app/main.py:291`), and a minute of the deployment makes about 95. A source that
   delivers a minute late loses the rows it measured first, and so may any source when another
   one restarts and measures again within the minute (`main` calls `run_once` at once,
   `observer/publisher.py:230`, `collector/src/runner.py:166`); a bad state among them is not
   shown although it is new enough. `docs/OBSERVABILITY-CONTRACT.md:84` says that the overall
   state is the heaviest active one. No number of rows is safe, because restarts are not
   bounded; `OnlyTheLimitHides` proves that the limit is the only thing that hides a row.
4. `status_fails_closed`: under `set -e` a local backup status that is missing or invalid
   ends `host-observer.sh` before the offsite boundary (line 21), so an offsite status that
   is invalid as well is not published as unavailable;
   `docs/OBSERVABILITY-CONTRACT.md:194` says that it fails closed. `FailureNoticed` holds
   nevertheless: the old copy grows too old.

Met while modelling, without a run of their own:

* Finding 2 is one case of a general one. Two signals of one code resolve each other's
  incident: while `tls.days_remaining` stays WARNING and `https.status_code` is HEALTHY,
  every poll resolves and opens one. So `FailingHasIncident` and `OneIncidentPerFault` are
  stated for the signals that are alone under their code; for the others
  `docs/INCIDENT-MODEL.md:20` (no new incident every poll) does not hold.
* A fault within half an hour of the resolution gets a new incident, where
  `docs/INCIDENT-MODEL.md:123` says that it reopens the old one.
* When `chmod` fails after the `mv` in `write_secret` (`deploy/rotate-collector-secret.sh:82`),
  `env_updated` is not set yet: `rollback` does not set the file back and recreates the
  collector with the new secret, which the database does not have. `docs/DEPLOYMENT.md:183`
  says that after an error file and hash are set back. Without the exception for this cause
  `FailureUndone` would not hold. A deployment repairs it.
* A snapshot dated more than five minutes ahead is refused with the 400 of one that is too old
  and dropped (`backend/app/ingest.py:248`, `collector/src/runner.py:116`), although the
  backend could take it later. `docs/SECURITY.md:66` says that such dates are refused; that the
  measurement is lost it does not say.
* `docs/OBSERVABILITY-CONTRACT.md:191` makes every offsite status other than success CRITICAL;
  the code and its tests forgive a pending upload for 45 minutes (`collector/src/probes.py:176`),
  and so does `offsite_health` in `StatusBoundary`.
* A commit releases the locks of the whole batch, so two workers would mail the same event
  and call for the same test. The deployment runs one worker of each; the runs and the
  theorems (`OneWorker`) do the same.

## 5. The proofs

`tlapm` checks every theorem to the last leaf, for every value of the constants: any signals,
codes, times, limits and bounds, under the assumptions named in the modules
(`EngineAssumption`, `SelfMonitoringAssumption` and so on: the types of the constants, and
what `config.py` enforces of the thresholds). Each module's `Inv` is the inductive
invariant: the properties, strengthened by what the table names. A step of the
specification has one lemma per action, or per group of actions that leave the same things
alone.

`IncidentEngineProofs`:

| Theorem | Establishes | Argument |
|---|---|---|
| `TypeCorrect` | `[]TypeOK` | inductive as it stands; one step per branch of `evaluate` |
| `OneActive` | `[]AtMostOneActive` | inductive with `TypeOK`: `Open` needs `Active(code) = {}`, nothing reopens |
| `ActiveIncidentHasCause` | `[]ActiveHasCause` | with `OneActive`: an incident opens on a window that fails, and the observation that makes the last window healthy resolves it, because it is healthy itself (`StoredEnters`) |
| `FailingSignalHasIncident` | `[]FailingHasIncident` | only the signal itself can resolve the incident of a code it has alone |
| `IncidentHistory` | `HistoryKept` | `StepKeeps`: what each branch does index by index (`RecurEffect`, `ResolveEffect`, `OpenEffect`); no run checks this one |
| `OutboxIsTruthful` | `[]OutboxTellsLifecycle` | `OutboxInv` strengthens it by the order of an incident's events; a step tells nothing, one escalation, one resolution or one opening (`WhatStepsTell`) |
| `RequestsMirror` | `[]RequestsMirrorOutbox` | outbox and queue grow by the same step; no run checks this one |
| `KeysNeverCollide` | `[]KeysUnique` | from the order of events and of requests: severities rise, openings come first, resolutions last |
| `LifecycleImplemented` | `ImplementsLifecycle` | what a step tells (`WhatStepsTell`) is what happens to the one incident that lives for its code (`EscalationLives`, `ResolutionLives`, `OpeningLives`), or nothing (`SilenceLives`); that it is the only one is `OneActive`, before the step and after it |
| `OneIncidentForAFault` | `SpecStability => []OneIncidentPerFault` | `OpenedStays`: the incident a signal opened is active until the signal is healthy twice, so it opens no second |

`SelfMonitoringProofs`:

| Theorem | Establishes | Argument |
|---|---|---|
| `MonitorRunsEngine` | `SpecMonitor => Spec` | every check is a step of the engine (its observation is newer than all before it), everything else leaves the engine's tables alone; so all theorems above hold while Cockpit watches itself |
| `MonitorImplementsLifecycle` | `SpecMonitor => ImplementsLifecycle` | the two refinements together |
| `MonitorTypeCorrect` | `[]TypeOKMonitor` | `RowsInv`: one row for each event, and one that waits has attempts to spare |
| `SilenceIsNoticed`, `AlarmsAreEarned`, `OneAlarmForASilence` | `[]SilenceNoticed`, `[]AlarmIsEarned`, `[]OneAlarmPerSilence` | `AlarmInv` |

`AlarmInv` ties the three together: a source that a check found late is late still, because
ages only grow until it is heard; so its next observation fails too, the second failure
opens an incident if there is none (`FailureEffect`), and neither the source nor another
code's signal can resolve it (`OtherIncidentsStay`). None of the three is inductive alone:
one alarm per silence needs the incident to stay active, and that needs the source to stay
late.

The others:

| Module | Theorems | The invariant, and why it is needed |
|---|---|---|
| `SnapshotDeliveryProofs` | `TypeCorrect`, `OnceInOrder`, `FileResumes`, `OwnNeverReplayed`, `DroppedWhenSettled`, `FeedImplemented` | what waits was measured in the order of its numbers (`PendingOrdered`, with `BufferResumes`), the backend is at most one number ahead of the file (`BackendBehind`), a late request is the head of the buffer or done with, and those done with have smaller numbers than all that waits and keep the order in which they were measured (`LateHarmless`), an answer says what the tables say (`AnswersTrue`). A late request that is done with may still be accepted, when its date lay ahead; without `LateHarmless` it could take the number of another snapshot or come out of order. `FeedImplemented` maps each step to a step of `SnapshotFeed` or a stutter |
| `NotificationOutboxProofs` | `TypeCorrect`, `MailIsOnRecord`, `AttemptsBounded`, `OutcomesAreFinal` | one worker; its copies agree with the rows it has yet to record (`CopiesTrue`); a mail that left is on record, under way to it, or a mishap (`MailsAccounted`) |
| `AnalysisBudgetProofs` | `TypeCorrect`, `LedgerStaysBalanced`, `ChargesAccounted`, `TestsAreCalledOnce`, `CallsAreBounded`, `OnlyRestartsLeak` | one worker; what it holds is reserved (`Holding`), a test it calls for is marked (`TestsHeld`), the calls of a request are those on record, those of restarts and the one under way (`CallsCounted`), and likewise for charges and leaks (`ChargesKnown`, `LeaksKnown`) |
| `SecretRotationProofs` | `TypeCorrect`, `SuccessIsAgreed`, `FailuresUndone`, `DeploymentRepairs` | secrets are made one after the other and none twice (`SecretsFresh`); how far the script is and what agrees by then (`Progress`); as long as `causes` is empty, it knows what it changed and can undo it, wherever in the script and wherever in `rollback` it is (`Undoable`) |
| `StatusBoundaryProofs` | `TypeCorrect`, `NotFlattered` | a copy is never younger than what it was copied from (`CopiesNotYounger`): the copies hold time stamps, and a source only gets younger |
| `OperatorViewProofs` | `HealthyEarned`, `OnlyTheLimitHides` | only the type of the log (`LogTyped`): the rest is about one state. See below |

Neither assumes anything of the limit or of how often a source measures. `HealthyEarned`:
whatever rows are read, a component is HEALTHY only through a row that is
(`AggregateIsEarned`, from the service up). `OnlyTheLimitHides`: the newest row of a signal is
among the rows read, or as many newer rows as are read push it out (`ReadOrPushedOut`, where
`StoredFinite` makes the rows countable); and what is read and counts shows in the sum
(`AggregateShows`).

Only model-checked:

* The liveness properties `BufferDrains`, `EventsSettle`, `RequestsSettle` and
  `FailureNoticed`: they need fairness, which is out of the prover's reach, as is `ENABLED`.

The violated properties have nothing to prove.

## 6. What is not modelled

* `classify`, `incident_code` and the thresholds of single signals: parameters of the
  engine. Only the signals of the backups have theirs, in `StatusBoundary`.
* Two collectors that resolve to one target (`_collector_target`): they share an observation
  window although their fingerprints differ. A deactivated collector. Both are listed as
  hazards.
* Two transactions that evaluate at once: the deployment has one process for ingestion and
  one for self-monitoring, and no incident code that both report under. `last_seen_at` of an
  incident, which no decision reads.
* The loss of a collector's state volume, the turn of a month in the AI budget, the order of
  the mails of one incident.
* Sessions, the login limiter and logout; the other queries of the operator API, which only
  read.
* Of the command line, the owner's enrolment and the commands that queue a test and wait for
  it; the tests themselves are requests of `AnalysisBudget`.
* The probes other than those of the backups: they measure one target each and keep no
  state. The age of `host.json`, which the observer does not look at (listed as a hazard).
  The observer's server, a read-only proxy.
* Two rotations at once, and a `cp` of a rollback that stops half way, by itself or by a crash.
* A clock that is set back while a snapshot waits in a buffer.
* Texts, prices, prompts, logging, the frontend, and the deployment scripts that are run by
  hand: input and output only.

## 7. Plan

Done, in this order: the engine (everything else feeds it or is fed by it) with its proofs,
snapshot delivery with its abstract specification, the outbox, the budget, self-monitoring
on top of the engine, secret rotation, the operator's view, the status of the backups, and
the proofs of all of these.

Next, most important first:

1. The policy of the signals: `classify` and `incident_code` as functions; which signals
   share a code, and so where finding 2 can happen.
2. Two collectors on one target, activation and deactivation, in `SelfMonitoring`.
3. Sessions and the rate limiter.
4. The order of the mails of one incident; the turn of the month.
5. Ingestion, engine and the two workers together, in a small instance.
