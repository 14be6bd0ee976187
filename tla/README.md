# Verification of the uptime console

The console watches web sites.  Operators create monitors; a scheduler enqueues a check of
every monitor that is due; workers carry the checks out and record check events, a summary in
the monitor's row, and incidents; a web server answers GraphQL queries, caches the dashboard
and streams events to the browsers.  PostgreSQL holds the tables, Redis holds the job queue
(asynq), the cache, the sessions, the rate counters and a pub/sub channel.

This directory holds TLA+ modules of the parts of the program in which several actors meet,
the configurations with which TLC checks them on small instances, and proofs that TLAPS checks
for every value of the constants.  `PROJECT.json` names for every definition the lines of the
source it models, for every property a plausible bug that would break it, and the hazards the
properties are for.

    tlc -config MCJobRuns.cfg MCJobRuns       a run
    tlapm JobRunsProofs.tla                   a proof module

## The system

| Component | State | Operations | Meets |
| --- | --- | --- | --- |
| Monitors, events, incidents (`internal/db/store.go`, migrations) | three tables; one open incident per monitor by a partial unique index | create, delete, record a check, open, resolve, prune | workers, resolvers, pruning, through row locks |
| Checks (`internal/jobs/jobs.go`) | none of its own | look up, HTTP request, transaction of three statements | deletion of the monitor, other checks of it |
| Job runs (`Enqueue`, `perform`) | `job_runs` and asynq's tasks | insert, enqueue, mark running, work, mark finished, announce | two databases without a transaction, retries, redelivery |
| Maintenance runs (`RunMaintenanceTask`) | `maintenance_runs` | insert, enqueue, complete | the jobs |
| Scheduler (`scheduleDueMonitorChecks`) | a ticker | list due monitors, enqueue one by one | other schedulers, operators, the queue |
| Dashboard cache (`internal/cache`, the `Dashboard` resolver) | one key with a life of ten seconds | read through, delete after a write, clear | requests that race with writers |
| Events (`internal/event/bus.go`, `PublishEvent`, the `events` handler) | subscribers and their channels, Redis pub/sub | publish, fall back, forward, subscribe, write, unsubscribe | publishers, the bridge, slow and leaving clients |
| Rate limit (`internal/security`) | a counter per client and minute | increment, expire, decide | concurrent requests, the counter's life |
| Setup (`internal/db/migrate.go`, `Seed`) | `schema_migrations`, the schema, demo data | migrate, seed | other setups, other releases |
| Processes (`internal/app`, `internal/server`, `RunWorker`) | connections, goroutines | start with retries, serve, shut down | signals, asynq's own handling of them |
| Sessions (`internal/appauth`) | session keys in Redis, cookies in the browsers | login, logout, look up | requests of one browser next to one another, lost answers, Redis errors |
| GraphQL (`graph`, `graph/generated`, `internal/ability`) | the results of a request's fields so far | execute a field, ask the abilities, make a null of a null | other requests, clients that leave, rows with nulls |

What makes each of them right:

- *Monitors and incidents*: a monitor has at most one open incident, one that is down has one
  unless an operator resolved it, one that is up has none a check opened; the summary in the
  row is that of one check.
- *Jobs*: the row tells what becomes of the task, whatever call fails or process stops.
- *Maintenance runs*: a run's status agrees with what was queued.
- *Scheduler*: no due monitor waits for ever.
- *Cache*: an outdated summary is served for a bounded time only.
- *Events*: in order, once, and no publisher waits for a client.
- *Rate limit*: the limit holds in every minute, and no other minute counts.
- *Setup*: every migration takes effect once and in order, and a setup that reports success has
  what it needs.
- *Sessions*: a request acts as whoever gave the password for its token, and a logout ends it.
- *GraphQL*: no request writes more than its user's role permits, and no data is dropped
  without an error.
- *Processes*: a process that is told to stop ends, closes what it opened, and closes it under
  nobody whose time is not over.

The hard behaviours, each at its line, are the `hazards` of `PROJECT.json`.

## The modules

    MonitorHealth      the promise of the tables, one atomic step per operation
      MonitorChecks    the transactions, statement by statement; implements MonitorHealth
    JobRuns            the row and the task of a background job
      MaintenanceRuns  the resolver composed with the actions of JobRuns; implements JobRuns
    DueChecks          the schedulers, the queue's order and the workers
    DashboardCache     the cached summary and its age
    EventStream        from PublishEvent to the client
    RateLimit          the counters and the middleware
    Setup              migrations and seed, several processes at once
    Requests           the requests and users of the web server
      Sessions         browsers, cookies and session keys
      GraphQL          how the fields of an operation are executed
        Schema         the object types, as far as null goes
    Lifecycle          one process from its start to its end

Each `X.tla` has the model and its properties, `MCX.tla` and its `.cfg` files the instances.
MonitorHealth, Schema and Requests have no instance of their own: the first is the specification
that MonitorChecks implements and is checked against, with its invariants (`HealthInv`); the
others are parts of GraphQL and Sessions.

The theorems are in modules of their own, each of one component or of two that belong together:

    MonitorChecksProofs      MonitorHealth and MonitorChecks
    JobRunsProofs            JobRuns
    MaintenanceRunsProofs    MaintenanceRuns
    FreshnessProofs          DashboardCache and DueChecks
    EventStreamProofs        EventStream
    RateLimitProofs          RateLimit
    ProcessProofs            Setup and Lifecycle
    RequestProofs            Sessions and GraphQL

A proof module extends the components it is about.  Where it extends two, the formulas of one
bear its name: `ScheduleSpec` and `ScheduleTypeOK` in DueChecks, `ProcessSpec` and so on in
Lifecycle, `ExecutionSpec` and so on in GraphQL.

### MonitorHealth and MonitorChecks

`lastStatus`, `lastCheckedAt`, `events` and `incidents` are the columns of the tables that
decide something.  MonitorHealth has one action for each operation of the store.  In
MonitorChecks a check is a worker's walk through `fetched` (the HTTP answer is there),
`inserted`, `updated`, `synced` and COMMIT, with an ABORT from each of them.

PostgreSQL's READ COMMITTED is modelled by what the statements rely on: a statement sees what
is committed when it starts; what a transaction wrote is in `check[w]` until it commits; a
statement that meets a row another transaction writes waits, which is a guard.  The INSERT's
foreign key shares the row with other inserts and keeps it from being deleted; the UPDATE owns
it until the end.  `ON CONFLICT DO NOTHING` waits for a transaction that has inserted a
conflicting row.  `now()` is the time a transaction began, so times may be recorded out of
order.  The status `degraded` of the tables is never produced by the code and has no value
here.  `CheckMonitor` does not look at `enabled`, so a disabled monitor is checked like
another; who is *scheduled* is DueChecks.

`waived` and `by` are history: an operator may resolve the incident of a monitor that stays
down, and an operator's incident without a check is not a check's.

### JobRuns and MaintenanceRuns

`row[j]`, `task[j]`, `caller[j]` (Enqueue) and `work[w]` (perform) are the four places that
know about a job.  Every call may fail, with or without effect, every process may stop between
any two calls; `hit[j]` remembers whether that happened to the enqueuer or in the last attempt,
which is when nobody is left to report it.  `CallerStops` stands for a process that ends and
for a request that is cancelled: `MarkJobFinished` gets the same context as the
`EnqueueContext` that failed.  `WorkerStops` stands for a shutdown, which cancels the handler's
context, and for a crash.  `repeated` remembers a success that was recorded in an attempt asynq
did not hear succeed, because the worker stopped or the call that recorded it reported an error:
asynq tries such a job again, and its row goes from `succeeded` back to `running`.  asynq is external: one worker has a task at a time, a failed attempt
or an expired lease is retried until the limit, then archived; the delay of a retry is left
out.

MaintenanceRuns takes the actions of JobRuns by INSTANCE, gives them the same variables, and
adds the resolver's: its run is completed with what Enqueue returned, not with what becomes of
the job, so `succeeded` says that the job was queued.

### DueChecks

`rotation` is the order of `last_checked_at` among enabled monitors, `due` those whose interval
is over.  Times are nothing but that order, so a tick may come at any moment.  `Fire` is a tick
with its query, of which `DueMonitors` says what WHERE, ORDER BY and LIMIT say: the listed
monitors are due, in order, and none that is left out comes before one of them.  `EnqueueNext`
is one enqueued check, and the first error ends the batch.  Reseeding may
enable a disabled demo monitor (`Seed`); that it may also change a monitor's interval is left
out, since an interval may be over at any time here.  The query leaves the order among monitors
never checked open; the model fixes it at creation.

### DashboardCache

A summary is abstracted to whether it is what the database says and, if not, for how many ticks
it has not been.  A request reads and later sets; a writer commits and later deletes, or never
does, since its error is dropped.  Entries leave by deletion, clearing or expiry.
`cache:public_status` is only ever deleted in this repository and is left out.

### EventStream

One server process with its bus, bridge and streams; publishers in that process or another.
`Publish` puts an event into every channel that has room and drops it otherwise; a failed call
of Redis may leave a copy under way (`stray`) and makes `PublishEvent` fall back to its own
process's bus.  The channel inside go-redis's subscription may drop messages as well; a
loss there is a loss on `wire` by `Disconnect`.  The keepalive comment is left out.

### RateLimit

One client, one clock.  A request computes its key, increments the key's counter, sets its life
if it got the number one, and decides.  `late` counts the ticks from the key to the increment.
Web servers with clocks of their own are left out.

### Setup

A setup looks for the table, creates it, and for each of its release's files looks up the
version, executes the file, inserts the version and commits; then it seeds.  Creating what
another open transaction has created waits for it and fails if it commits.  `release[p]` lets
setups of older and newer releases meet on a database an earlier release may have made.

### Sessions

A login's token is named by its request.  A request is verified, stores its key, and its answer
brings the cookie, or is lost; a logout sends the DEL, whose error is dropped, and its answer
takes back whatever cookie the browser has by then.  Any other request reads its cookie when it
is sent and is looked up in two calls.  A second login replaces the cookie and leaves the old
session alive until its life is over, which the properties allow: nothing in the code says
otherwise.  A call that reports an error may have had its effect, and has it by then; that
nothing of it arrives later is assumed of Redis's client, whose connection is closed after an
error.

### GraphQL and Schema

A request is an operation, a user and a result for each of its fields: `value`, `denied` (the
ability), `refused` (the arguments), `internal` (a call), `reported` or `silent` (a null the
schema does not allow, with or without an error).  The fields of a mutation run in order, those
of a query in any.  There is no transaction around them, and nothing undoes what a field did
when a later one fails; `effects` is the history of the writes.  The database is one monitor
with a name and URL and the incidents on it, enough for one request to be in another's way;
what a write does to jobs, cache and events is in their modules.  A cancelled context
(`Leave`) makes every later call fail.

`Schema` takes from the three places that decide about null (the Go types, the executors and
the field functions of the generated server) which fields each of them means.

### Lifecycle

`pc` is main: `app.New` step by step with its retries and its deadline, the command, the
`select`, Shutdown, and `app.Close`.  Handlers are requests, event streams or jobs; they may
call the store, and nothing obliges one to end.  asynq's `Run` is a goroutine of its own: it may
start late, waits for the same signals, and calls the Shutdown that `RunWorker` calls as well,
of which the second returns at once.  `pgxpool.Close` waits for calls under way.

Two ways to stop in disorder are part of the program and `ClosesUnderNobody` names them: if the
signal comes before asynq's server has started, main's Shutdown does nothing, and jobs may begin
while `app.Close` runs; if `Run` has the signal first, main's Shutdown returns at once and the
queue and the store are closed under handlers `Run` still waits for.

## The runs

| Run | Question | Bounds |
| --- | --- | --- |
| `checks` | Do concurrent transactions implement the atomic operations, keep their promises and the summary, and end although they wait for locks? | 2 monitors, 3 incidents, 2 workers, 3 transactions |
| `jobs` | Do row and task agree, and does an accepted job end, and show it? | 2 jobs, 2 workers, 2 attempts, 2 faults |
| `maintenance` | Does a run agree with its job, and does an accepted task end? | 2 tasks, 1 worker, 2 attempts, 2 faults of jobs, 1 of resolvers |
| `due` | Is every due monitor checked? | 3 monitors, 2 schedulers listing 2, 1 outstanding check, 1 worker, 1 request, 1 fault |
| `cache` | How long is an outdated summary served? | 2 readers, 2 writers, life and fill of 2 ticks, 3 writes, 1 clear |
| `cache_rebuild` | Does a clear force the next request to rebuild? (violated) | 1 write, 2 clears |
| `events` | Are streams in order, and does nobody wait for them? | 2 publishers of 2 events, 1 stream with room for 2, 2 faults |
| `ratelimit` | Does the limit hold, and only in its minute? | 3 requests, limits 1 and 2, minutes of 2 ticks, life 3, 1 fault |
| `setup` | Do concurrent setups make the schema once and in order? | 3 setups, 2 migrations, 1 fault |
| `sessions` | Whom do requests act as, and does a logout end a session? | 2 browsers, 3 requests, 2 users, life of 2 ticks, 1 fault |
| `graphql` | Who writes what, and is dropped data explained? | 2 requests of 2 or 3 fields, together all 14; a user of each role, or none |
| `lifecycle` | Does a process that is told to stop close what it opened, under nobody, and end? | each command, 2 handlers |

Why the bounds are enough.  The hazards are meetings of two actors on one thing with, at most,
a third that interferes: two workers on one monitor and another monitor beside them, an
enqueuer and a worker on one job, a reader overtaken by a writer, two setups and one of another
release.  Two faults let a job lose an attempt and the recording of its failure, or its
enqueuer's call and one of the worker's; two attempts have a retry and an archive.  A tick that lists two of three monitors
leaves one waiting, and its first error gives up the second; with one outstanding check left
the other scheduler ticks as well.  A channel with room for two of four events overflows.  Three requests
exceed a limit of two.  Three requests of a browser are a login, a logout and what comes between
them, or two logins and a look-up.  The safety properties with theorems do not depend on the bounds; the
runs find mistakes before the proofs are tried and are the only evidence for the rest.

`CHECK_DEADLOCK FALSE` is there where the modelled actors use up what they are given (jobs
done, transactions begun, setups ended, requests answered, the process ended, time over).

What `cache_rebuild` shows: `internal/maintenance/maintenance.go:9` says that
`rebuild_rollups` will "force the next request to rebuild cached summaries".  A request that read
the database before the clear sets the entry after it, and the next request is answered from it.
The entry is gone after ten seconds, as `StalenessIsBounded` says.

### Bounds that are assumptions

- `MaxFill` (DashboardCache): a request waits no longer than that between its read and its
  cache write.  `StalenessIsBounded` is relative to it.  The code has no such limit except that
  of the request's context.
- `MaxDelay` (RateLimit) with `Minute + MaxDelay <= Life`: a request increments within the 15
  seconds by which a counter outlives its minute.  A request that is slower may find the
  counter gone.
- `MaxBacklog` (DueChecks): a scheduler ticks, and an operator asks for a check, when no more
  than that many checks are listed or pending; it bounds the queue.

- Redis keeps what it is given: the tasks of JobRuns, MaintenanceRuns and DueChecks, the counters
  of RateLimit until their life is over, and the sessions of Sessions.  The Redis that
  `docker-compose.yml:32` runs does not promise that: it evicts any key at its memory limit
  (`allkeys-lru`) and keeps nothing over a restart (`--save "" --appendonly no`).  Then a task may
  vanish with its row at `queued` or `running`, a due monitor is listed again at a later tick, a
  counter starts again within its minute, and a session ends early.  `AcceptedSettles`,
  `TaskEnds`, `RowTellsTheEnd`, `RunIsHonest`, `LimitHolds` and the theorems about them are
  relative to this; an evicted cache entry is one that is cleared early.

All others (`MaxChecks`, `MaxFaults`, `MaxRequestFaults`, `MaxCommits`, `MaxClears`,
`MaxEvents`, `MaxRequests`, `MaxClock`) only bound how much happens.

### Fairness

- *Checks, jobs, maintenance, setup*: whoever has begun goes on.  HTTP requests and database
  calls have timeouts or return.  Nobody has to begin: creating monitors, asking for tasks and
  starting setups is free, and so is stopping.
- *Queue*: a pending task is taken by some worker and an expired lease is noticed; asynq's
  server loops for both.
- *DueChecks*: tickers tick.  Strong fairness, since room for a tick comes and goes by the
  bound `MaxBacklog` and not in the code.  Nothing is assumed of operators, but their requests
  are bounded.
- *DashboardCache*: time passes and a request that has read sets the entry or gives up; no
  writer ever has to delete it.
- *EventStream*: calls of Redis return and the bridge forwards.  Nothing at all is assumed of
  the clients: that is the point of `PublishersNeverWait`.
- *Sessions*: time passes.  Nothing is assumed of the browsers or of the server.
- *Lifecycle*: main goes on, the time of a shutdown comes to an end, the database answers a call
  under way.  Strong fairness for leaving `retry`: Go's `select` chooses at random among what is
  ready, so `ctx.Done()` is not passed over for ever.  No handler need end.

## What is proved

TLAPS proves each of these for any sets of monitors, incidents, jobs, workers, requests,
processes and for any bounds, from the constants' assumptions alone.

| Of | Theorems | The argument |
| --- | --- | --- |
| MonitorHealth | types; `Inv`, the four promises | the conjunction is inductive: recovery and deletion act on all of a monitor's open incidents, opening asks that there be none.  The only assumption is that `NoMonitor` is not a monitor |
| MonitorChecks | types; `IInv`; `ImplementsHealth`; `HealthInv`, hence MonitorHealth's promises of the real tables; `SummaryIsOneCheck`; `EventsHaveMonitor` | what a transaction decided about incidents must still be right when it commits (`SyncStillValid`), which holds since it owns the monitor's row from its UPDATE on (`RowLock`) and the monitor cannot be deleted (`MonitorIsHeld`); a COMMIT maps to the one atomic step of MonitorHealth and every other statement to a stutter |
| JobRuns | types; `IInv`; `ExecutionIsVisible`; `RowTellsTheEnd` (`EndIsRecorded` and `QueuedIsBacked`); `SuccessIsStable` | one handler per job (`OneHandler`), so nobody overwrites what an attempt has recorded (`OutcomeIsRecorded`, `SuccessIsPending`) but the enqueuer's late report |
| MaintenanceRuns | `ImplementsJobs`; types; `IInv`; `RunIsHonest` | every step is one of JobRuns or leaves its variables, so its invariant is inherited; the rest says in which order the resolver does things |
| DueChecks | types, with the rotation; `TurnsAreKept` | the types are inductive: removing, inserting and appending keep a sequence of distinct monitors one and the others in their order (`RemoveOne`, `InsertOne`, `AppendOne`), and every step is one of these or leaves the rotation alone (`StepTurns`).  `TurnsAreKept`, on which the absence of starvation rests, says that whoever comes behind a due monitor stays there until that one is checked |
| DashboardCache | types; `IInv`; `StalenessIsBounded` | age and remaining life together never exceed the life and one fill |
| EventStream | types, with the capacity; `ChannelsAreOpen`; `StreamsInOrder` | a channel is closed by the last thing its handler does.  An event for which no call failed passes through the wire, a channel and the hands of a client, never back: each of the three is in order, what is further on was published before what follows, and all of it before what its publisher publishes next (`AllInOrder`).  What did not come by the first call for an event is known to have failed (`FaultsKnown`) |
| RateLimit | types; `IInv`; `LimitHolds`; `LimitedForAReason` | a counter is removed only after the last increment of its minute (`InTime`, `LivesLongEnough`), so it is ahead of all numbers given (`CounterIsAhead`) and they differ (`NumbersDiffer`); those let through are an injection into 1 .. limit.  In a minute without a failed call the counter is no more than the requests that incremented it (`CountsRequests`), which are assumed to be finitely many |
| Setup | types; `EffectsAreRecorded`, `InOrder`, `DoneIsComplete`, together `SetupIsSound`; `OneSucceeds` | a version that is inserted and not committed is not recorded, and by one setup only (`OneRecorder`); where a setup is says what is recorded (`ProgressIsReal`).  Unless a call failed, whoever is behind is behind one that is ahead (`OneIsAhead`): the one that made the table or committed last is the first at what it does next, and cannot fail |
| Lifecycle | types; `ClosesUnderNobody`; `NothingLeftOpen` | where main is says what it has opened (`Opened`) and where asynq's Run has brought its server (`InService`); main closes nothing before it is excused (`Waits`), which it then stays: a handler that comes later comes through a server that started late |
| Sessions | types; `ActsAsOwner`; `EndedStaysEnded` | a key is that of whoever proved its token (`KeysAreProved`), and until it is stored nobody but its login knows the token (`TokensAreIssued`), so a deletion that Redis confirmed is the last word on it |
| GraphQL | types, with the incidents' foreign key; `EffectsAreAllowed`; `NullsAreExplained` | every resolver ends its field once and writes at most once, and only what its user may change (`FieldsStep`).  A field that wrote has ended, as have those before it (`EffectsInOrder`), and a mutation's next write is of the first that has not.  The three tables of Schema agree for every type (`ObjectSurvives`), so only `viewer` is ever null without an error (`OnlyViewerIsSilent`) |

Hardly any of the safety properties is inductive as it stands: each speaks of what is committed,
recorded or delivered, and needs to know what those who are under way still have in hand.  The
inductive invariant of each component (`IInv`, or `LifecycleInv` and `ExecutionInv`) adds just
that; TLC found each of them to hold of the component's instance before it was proved.

So every invariant and every action property that a run checks is a theorem.  Only model-checked
is liveness (`ChecksEnd`, `AcceptedSettles`, `TaskEnds`, `NoStarvation`, `EventuallyCurrent`,
`PublishersNeverWait`, `SetupEnds`, `LogoutTakesEffect`, `SignalEnds`), since the provers cannot
reason about fairness and ENABLED.  That `DueMonitors` always has exactly one answer, so that a
tick is never in the way of the model, needs induction over the number of due monitors and is
not proved either.

## Not modelled

- *Configuration*: environment variables parsed once at the start, without state.  The one value
  that ends a process later, an interval that is not positive, is in Lifecycle.
- *Host guard, CORS, security headers and the policy for monitors' URLs*: functions of one
  request and the configuration; no step of another actor can come between.
- *The rest of the generated server*: introspection, fragments, aliases and deferral, and the
  complexity functions, which nothing in the program calls for a limit.  gqlgen's library is
  seen through what the generated code asks of it.
- *The order of events of different publishers*: the `queued` event of a job may come after the
  `running` event; no code promises an order, and the repository has no client that reads one.

Left out everywhere: the text of messages, names, URLs and durations.

## What could come next

A refinement of what a component promises to the others, as MonitorHealth is for the tables, for
EventStream (a lossy queue for each publisher and stream) and for DashboardCache (a register that
is read with a bounded delay); and a composition of JobRuns with EventStream, if a client ever
comes to depend on the order of a job's events.
