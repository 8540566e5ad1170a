# Clock Relay in TLA+

Clock Relay fires schedules (cron, rate, one-time) and, when one is due or when
an operator asks for it, calls a target: an HTTP endpoint or a Faktory queue. It
keeps its schedules and a log of its runs in a bbolt file. This directory holds
TLA+ modules of its core, TLC configurations that check them on small
instances, and TLAPS proofs for every size.

All source paths below are relative to the repository.

## The system

| Part | State | Operations | Talks to |
|---|---|---|---|
| Store (`internal/store`) | schedules; run records; in the bbolt file also an index by start time, an index of running records by schedule, a count of completed records | `SaveSchedule`, `DeleteSchedule`, `ListSchedules`, `SaveRun`, `UpdateRun`, `ListRuns`, `ClearRuns`, `PruneRuns`, `HasRunningRun`, open, close | called by the engine, from many goroutines; each operation is one transaction (or one critical section of `MemoryStore`) |
| Engine (`internal/engine`) | `schedules` and `entryIDs` under `e.mu`; the pruning counter under `runPruneStateMu`; the entries of the cron library | `NewEngine`, `Start`, `Stop`, `SaveSchedule`, `DeleteSchedule`, `TogglePause`, `TriggerManual`, `Trigger`, `executeRun`, `maybePruneRuns`, `ClearRuns` | the store, the cron library (which calls `Trigger` in a goroutine of its own), the targets |
| Config (`internal/config`) | none | normalise, apply defaults, validate | engine, server, main |
| Server (`internal/server`) | none of its own; the pages open in browsers | JSON routes, HTML forms, the list | engine, one goroutine per request |
| Targets (`internal/target`) | none | one HTTP request, one Faktory push, a listing of Faktory queues | the outside world |
| Process (`cmd/clock-relay`) | none | open the store, start the engine and the server, shut down on a signal | all of the above |

What makes it hard:

* **Interleaving.** A fire and a manual run walk through `Trigger` without a
  lock across their store operations: look the schedule up, ask for a running
  record, save a record, mark a one-time schedule, run, save the result, count.
  Between any two of these another attempt, an edit or a clearing may come.
* **Identity.** A run id is a hash of schedule name, source and scheduled time.
  A fire's scheduled time is cut to the minute; a record is replaced by any other
  with its id.
* **Crashes.** The file survives, the memory does not; records of runs that were
  live stay `running`.
* **Derived data.** Two indexes and a count have to follow the records through
  overwriting, pruning while a cursor walks, clearing and rebuilding.
* **Retention.** Pruning happens every 100 runs or five minutes, decided under a
  mutex and carried out outside it, and may fail.
* **Distance.** A target may act and its answer be lost; a page may be submitted
  long after its job was edited, completed or deleted; the browser alters and
  refuses things by rules of its own.
* **Arithmetic.** Ticks of a rate are counted from its start on 64-bit durations.
* **Shutdown.** Handlers, cron jobs and runs are waited for in turn, with limits
  on some and none on others, before the store is closed.

What makes each part correct:

* Store: the derived data is exact, so that callers see a plain map of records;
  pruning never fails and never takes a running record.
* Attempts: a live run is in the log as running, so the no-overlap check sees it
  (the fires of a one-time schedule that is armed again for the same time share
  one record and are excepted);
  a running record has an owner and becomes final, unless a failure left it; a
  final record is not rewritten; a one-time schedule runs once, through edits,
  renames and restarts.
* Schedules: cron entries are those of the schedules that are due to run, with
  their present definition; a paused schedule does not run.
* Retention: the log stays within its policy plus what is in flight.
* Timing: every tick of a rate, and the one of a one-time job, fires once.
* Forms: an accepted page makes the job what its user saw and changed; a page
  that is out of date creates nothing and re-arms nothing.
* Targets and process: a success is true, a call is recorded, the store outlives
  the runs, and a signal ends the process.

## Modules

| Module | What it is |
|---|---|
| `RunRecords` | Run logs as values: a record, the functions `Put` and `Without` that every change of a log is made of, and the retention policy (`PruneVictims`) of `pruneRuns`. |
| `RunLog` | The abstract store: `MemoryStore`'s run half, one map and one step per operation, with the answer given to the caller in `reply`. |
| `BoltStore` | The same in the bbolt file: one variable per bucket, one action per operation, each a transaction. `ImplementsRunLog` says that it implements `RunLog`. |
| `Engine` | Attempts, schedules, cron entries, the log and the clock, with crashes and restarts. |
| `ScheduleRules` | One schedule as a value: defaults, validation, what the cron library is given, what the store gives back. |
| `ScheduleCatalog` | The schedules as sequences of store operations that fail or are cut off, with seeding and restarts. |
| `Ticks` | What the timing of a job promises, without arithmetic of a width: it is due at `start`, `start + every`, ... |
| `FireTimes` | `cronSchedule`, `rateSchedule.Next`, `onceSchedule.Next` and the loop that calls them. `FiresAtTicks` says that it implements `Ticks`. |
| `TargetCalls` | The calls of `internal/target`, and what the other end makes of them. |
| `Lifecycle` | The process: `main`, `Engine.Start`, `Engine.Stop`, handlers, cron jobs and runs. It extends `TargetCalls`: a run is a call with a record. |
| `JobForms` | Pages, forms, JSON requests and buttons, on top of `ScheduleRules`. |
| `BoltStoreProofs`, `EngineProofs`, `EngineRunsProofs`, `ScheduleCatalogProofs`, `ScheduleCatalogSurvivalProofs`, `FireTimesProofs`, `LifecycleProofs`, `JobFormsProofs` | The proofs. |
| `MCBoltStore`, `MCEngine`, `MCScheduleCatalog`, `MCFireTimes`, `MCLifecycle`, `MCJobForms` | Small values for TLC. |

Definitions whose comment begins with "Mutant:" are wrong versions of the
definition after them. They show that the properties tell the code from a
plausible bug in it; no specification uses them.

### RunRecords, RunLog and BoltStore

A record keeps the schedule name, the status and `started_at`: no decision reads
anything else. `succeeded`, `failed` and `skipped` are told apart by nothing and
stand together in `Outcomes`.

`BoltStore!WriteRun` is `writeRun`: it takes the old record's keys out of both
indexes, adds the new ones and changes the count by `CompletedDelta`.
`PruneRuns` is one transaction that first removes finished records older than
the cutoff and then, from the lowered count, as many of the oldest as exceed the
limit. `WalkFails` is the case in which a walk meets a key without a record:
`runByID` fails and the transaction is rolled back. `PruneNeverFails` says it
does not arise. `OpenBoltStore` rebuilds everything derived when one of the three
buckets is missing, which `Init` allows in any combination. `Close` is an orderly
close or a crash: between two transactions they are the same.

The order of a page of `ListRuns` is not modelled, only which records are on it.
Schedule names are taken not to contain a NUL character, which separates name and
id in the keys of the second index.

### Engine

An attempt is a goroutine with a place (`pc`) and its locals (`job`):

| place | code it stands before | action |
|---|---|---|
| `called` | `Trigger` takes the read lock | `Load` |
| `checking` | `HasRunningRun` | `Check` |
| `refused` | `SaveRun` of a skipped record | `SaveSkipped` |
| `admitted` | `SaveRun` of a running record | `SaveRunning` |
| `marking` | `markOneTimeCompleted` | `MarkOneTimeCompleted` |
| `running` | the target and `UpdateRun` | `Finish` |
| `counting` | the critical section of `maybePruneRuns` | `CountRun` |
| `pruning` | `pruneRuns` | `Prune` |

`Fire` and `TriggerManual` begin an attempt. Each of `SaveSchedule`,
`DeleteSchedule` and `TogglePause` holds `e.mu` for its whole body and is one
step; `ScheduleCatalog` takes them apart. Every
store operation of an attempt may fail (`Fault`). A crash loses memory and every
attempt; a restart is `NewEngine`: load or seed, prune, register.

Cron and rate schedules are the same to the engine once an entry exists, and are
both `recurring`. The cron library may fire a recurring entry at any moment, up to
`FiresPerMinute` times in a minute; 1 is what cron expressions and rates give
as long as they are left alone. A one-time entry fires once. It can be made again
for the time it had: when `completed_at` could not be stored, after a deletion, or
when `run_at` is moved away and back. The fires before and after then have one run
id, and the first to end, or a skipped one, ends the record for both. `SharesRecord`
names such attempts; the properties about records of live runs except them.

Time is a count of minutes. `elapsed` in `CountRun` stands for the five-minute
limit and is left open.

### ScheduleRules and ScheduleCatalog

`ScheduleRules` has the decisions the code makes about one schedule. A text is a
name for all texts treated alike. There are three places where a schedule is
looked at, and they do not ask the same: `LoadConfig` (`ValidConfig`) is content
with any cron expression, `validateSchedule` (`ValidSchedule`) parses it, and
`cronSchedule` (`NotSchedulable`) does not look at names or targets. `Reloaded` is
what `ListSchedules` returns of what `SaveSchedule` stored: an empty body, which
the JSON form leaves out, comes back as nil. Empty headers and arguments do too,
which makes no difference to what is sent.

`ScheduleCatalog` has one operation under way at a time, since each holds `e.mu`.
`op` tells the store operation it stands before:

| `op.pc` | code | action |
|---|---|---|
| `saving` | `SaveSchedule`, store the new schedule | `SaveNew` |
| `dropping` | a rename: delete the original | `DropOriginal` |
| `undropping`, `resaving` | that failed: delete the new, save the old | `UndropNew`, `ResaveOriginal` |
| `undoing`, `restoring` | the new one could not be registered: delete it, save and register the old | `UndoNew`, `RestoreOld` |
| `repausing` | `TogglePause`, a resumed schedule could not be registered | `Repause` |

`Install` is the change of memory that goes with the last store operation.
`acked` is no state of the program: it is what callers have been told, and
`doubt` the names of which they cannot know, because an operation on them was cut
off or left unfinished. A failing store operation changes nothing.
`CompletedStaysCompleted` follows a schedule from its old name to its new one
through the step that answers a rename (`IsRenamed`).

### Ticks and FireTimes

One job stands for all, since entries do not touch each other. `plan` is the
`cron.Schedule` that `cronSchedule` makes when the entry is made, `seen` the time
the scheduler last asked it for its next time, `next` the answer. `Look` is the
first time the loop of the cron library sees an entry and `Fire` every later one,
in time or late. A duration wraps (`Wrap`) except in `time.Time.Sub` (`Sub`),
which sticks at the ends. `Task` maps a job to what it asks for, in integers
without a width; a rate whose ticks do not fit a duration (`Fits`) maps to
"wild", of which `Ticks` promises nothing. 292 years of nanoseconds fit.

`OnceIsPlanned` leaves out one window: a time that passes after the entry was made
and before the first look is never fired, because `onceSchedule.Next` then says
there is none. `Lag` bounds that window.

### TargetCalls and Lifecycle

| `call[c].pc` | code | next |
|---|---|---|
| `triggering` | `Trigger`, up to `SaveRun` of the running record | `Refuse`, `SaveRun` |
| `spawning` | `wg.Add(1)`, `go` | `Spawn` |
| `called` | `TriggerTarget` or `FaktoryQueues`, before anything is sent | `Prepare`, `Fail` |
| `sending`, `reading` | `httpClient.Do`; `io.ReadAll` and the status | `Accept`, `Answer`, `ReadBody`, `Fail` |
| `dialing`, `pushing`, `listing` | `server.Open`; `client.Push`; `client.QueueSizes` | `Open`, `Accept`, `Confirm`, `ListQueues`, `Fail` |
| `ended` | `UpdateRun`, or the answer with the queues | `UpdateRun`, `RespondQueues` |
| `unsaved` | an open store refused `UpdateRun`; the error was logged | none: the record stays `running` |

`accepted` is the outside world: the calls the other end has acted on. `Fail` can
come before or after that. `phase` is the place of `main`; the deferred calls run
in reverse order, `Engine.Stop` before `Close`. `late` remembers that `Shutdown`
gave up on a handler, after which that handler and others on open connections go
on beside the rest of the shutdown. A write to a closed store fails, a write to an
open one may, and either error is only logged.

### JobForms

A page is rendered from a job once. `fields` is what it holds, kept as the job it
would be, and `want` what its user means: the job as it was shown with every change
made. Three things stand between `want` and the job that is saved: what an input
can show (`Shown`), what the browser checks and submits (`BrowserAccepts`, `Sent`)
and what `scheduleFromRequest` reads (`Submitted`); then come the defaults and
checks of `ScheduleRules`. The browser's part follows the HTML standard: a select
falls back to its first option; a `datetime-local` input drops seconds that are
zero and shows nothing of a time with an offset (`ShownTime`); `min` and `required`
are checked on hidden fields and not on disabled ones. `Texts` stands for all texts
of a job, and `Enterable` says which of them each input can hold. Seconds other than zero, which such an
input refuses to submit, and number fields left empty are not in the instance.

A new job is a Faktory job: the picker leads to no other form. Its name is made of
its job type by the wizard's Continue; Enter submits the form from any step, so
`Submit` does not wait for it.

What an edit by form does lose: the paused flag (the job resumes), the body of an
HTTP request, a method that is not among the four options, and the timeout of a
Faktory job, which becomes five seconds. `SameJob` leaves these out.

## What the runs check

A run whose instance stops when its attempts, requests or minutes are used up sets
`CHECK_DEADLOCK FALSE`. `MCBoltStore` never stops and is checked for deadlock.

Runs that pass:

| run | question | instance |
|---|---|---|
| `bolt_store` | Are the derived buckets exact, and does the file answer like a map? | 3 ids, 2 schedules, 2 times, so ties, overwriting, any pruning and any missing bucket occur; 3 ids are needed for one record to be kept, one pruned by age and one by count |
| `engine_runs` | Does the no-overlap check see every recorded run, is a final record left alone, can anything but a failure block a schedule, can a one-time schedule run again, do cron entries follow the schedules, and how large can the log become? | 3 attempts (one live, one in the check, one pruning), 2 names, so that a rename has a place to go and to collide with, two operations, which may save a one-time schedule that allows overlaps and arm it again for the same time, so that two fires share a record while a third attempt is in the check (`SharesRecord`), a crash, after which a completed one-time schedule could be registered again, a fault, `max_records` 1 and a pruning period of 2, so that a pruning can be pending while more is counted |
| `catalog` | Are answered changes kept, entries in step, versions kept and restarts possible? | 2 names, five kinds of schedule of which two are refused, 4 requests, 3 failures, 2 crashes, a file that gains and loses a Faktory instance; 3 failures fail an operation and both its compensations |
| `engine_settles` | Does every running record become final, and does the log stay within its policy when time passes? | 2 attempts with clearing and shared ids, two minutes, so that records are pruned by age, no crash and no fault |
| `fire_times` | Does every tick fire once? | rates and one-time jobs with starts before, within and after the clock, intervals that wrap and that do not, a scheduler that looks late |
| `lifecycle` | Are results true and calls recorded, does the store outlive the runs, and does a signal end the process, also when updates of records fail? | 2 calls, so that one can be waited for while the other is late; a good and a bad target of each kind; every exit of `main` |
| `job_forms` | Does an accepted page do what its user saw, and nothing else? | 2 tabs, 2 names, 2 Faktory instances, jobs the forms cannot show in full, 2 changes, 3 requests: create, complete or rename, submit |

Each bound is the smallest at which the interesting case happens; the theorems
below remove the bounds for all of these but liveness. `engine_runs` stays within
one minute so that its two requests and three attempts can be explored in full;
`engine_settles` lets the clock move on, which pruning by age needs.

Runs that expect a violation, each against a sentence of the repository:

| run | what happens |
|---|---|
| `engine_overlap` | Two attempts ask for a running record before either saves one; both run, although the job is labelled "No overlap". |
| `engine_crash` | The record of a run cut off by a crash stays `running`; from then on attempts are refused "because a previous run is still running". |
| `catalog_bad_seed` | A seed whose cron expression does not parse is stored, then refused; so is every later start, though the file is corrected. |
| `engine_once_edit` | `run_at` is edited between `SaveRun` and `markOneTimeCompleted`; the new time is marked completed and never runs. |
| `forms_uneditable` | The edit page of a Faktory job on a cron schedule holds a hidden rate interval of 0, which the browser refuses to submit; "Faktory jobs can be created and edited in the UI". |

Four more things the code does are excepted by a property or a hypothesis and
shown by no run: a crash while a file is seeded leaves a part of it, which the next
start takes for the whole; an empty body is lost by the store; a one-time job whose
time passes between the making of its entry and the first look at it never runs; and
the untouched page of a completed one-time job whose time was written with seconds
arms it again.

## Fairness

`Engine!FairSpec` adds weak fairness of `Step(a)` for each attempt: a goroutine
that can go on does so. The code justifies it as far as locks go: none is held
while waiting for another goroutine. That the call of a target ends is justified by
the schedule's timeout for an HTTP request and for dialing a Faktory server. Once
a Faktory connection is open no deadline of the code reaches it, and that the
server answers or drops it is an assumption. Nothing is assumed of fires, requests,
the clock or crashes. `RunningRecordsSettle` is checked without crashes and faults:
with either, a running record may stay for good, as `engine_crash` shows for a crash.

`Lifecycle!FairSpec` is the same for each call, with the same assumption, and for
`main`. Nothing is assumed of signals. `StopsEventually` needs it of the calls
because `wg.Wait` has no limit.

## What is proved

For every value of the constants, from the assumptions named in the modules
(`OutcomesAssumption`, `BoltStoreAssumption`, `EngineAssumption`,
`CatalogAssumption`, `TimingAssumption`, `InstancesAssumption`,
`TargetsAssumption`, `FormsAssumption`):

* `BoltStoreProofs`: `StoreTypes`, `StoreInvariant`, `PruningNeverFails`,
  `StoreImplementsRunLog`, `RunningRecordsKept`. The invariant is `TypeOK` with
  `IndexesExact`, inductive as it stands; the refinement maps each action to the
  operation of `RunLog` of the same name and opening and closing to a stutter.
  The main step is that the keys a pruning removes are a choice `PruneVictims`
  allows, which needs the exact count.
* `EngineProofs`: `TypeCorrectness`, and `EntriesAlwaysFollow`. Types need
  `Informed`: an attempt that has begun has a proper run id, and one that is live
  a start time. `Follow` is inductive and goes through one lemma for each way in
  which entries and schedules change together.
* `EngineRunsProofs`: `RunningRecordsAreOwned`, without crashes and faults;
  `LiveRunsStayRecorded` and `GuardIsSound`, with crashes and faults, when
  `Orderly` holds: the log is not cleared, and a schedule fires once a minute. The
  invariant `Recorded` adds what makes ids unique: a manual run is named after its
  own request, and a fire of this minute shows in `fires` (`Origins`, which takes
  the times at which ids may be shared: those of one-time schedules). An attempt
  that writes takes the record of another live one from under it only when both
  have such a time (`WritesItsOwn`), and once they share an id they do so until a
  crash ends them (`SharingStays`). Without
  `Orderly` it does not hold: a second fire in one minute (of a
  descriptor such as `@every 30s`) is refused, and its skipped record replaces the
  running one, whose id it shares; and of a run whose log was cleared the check
  finds no record.
  The same module proves `RetentionIsBounded`: each step either adds one
  completed record and one attempt that counts, or turns what was counted into a
  pending pruning, or prunes to the limit (`PrunedBound`).
  `FinalRecordsStay` needs only that a schedule fires once a minute: its invariant
  `Filed` has the same `Origins` and `OwnRecords`: a
  record carries the id of an attempt that has begun, and one whose id is its own
  finds no record before its `SaveRun`.
  `OnlyFailuresBlock` and `OnceIsRunOnce` need no circumstances. For the first,
  `Blocked` counts: a record loses its last live attempt by an `UpdateRun` that
  fails or a crash, and each of those leaves one. For the second, `Planned`
  takes fires for permits: each seed brings one, each request and each failure
  one more, and a fire uses up that of its entry. A restart can make an entry
  again only from the file, when a request has emptied the store, or from a stored
  schedule that is not completed; of that `Planned` says that the fires which will
  not mark it any more (`Unmarking`) leave a permit over, and the others are lost
  when the process ends. `InStep` says that memory and store agree while it runs.
* `ScheduleCatalogProofs`: `CatalogTypes`, `EntriesAlwaysFollow`,
  `AlwaysStartsAgain`. The last needs `Startable`: stored schedules are
  normalised, loading changes nothing the rules look at (`Alike`), and what a
  running engine has at hand in `op` and `schedules` is as good as what it stored.
* `ScheduleCatalogSurvivalProofs`: `AckedAlwaysSurvive`,
  `EditAlwaysKeepsAVersion`, `CompletedIsKept`. `Progress` says for each place of
  an operation how store, memory and callers differ on its two names; each step
  then moves from one line of it to another. For `CompletedIsKept`, `Carried` says
  that what is about to be saved has the completion of what it replaces, under
  whichever name. All three assume `NoEmptyBodies`, without
  which a restart changes schedules: an empty body is stored without and comes back
  as nil (`Reloaded`), for which `triggerHTTP` posts a body of its own.
* `FireTimesProofs`: `TypeCorrectness`, `NoTickIsForgotten`,
  `FireTimesImplementsTicks`, `OnceJobsArePlanned`. The invariant says that `next`
  is `NextOf` at the last look. The rest is arithmetic: where the ticks fit,
  nothing wraps, `RateNext` is the first tick after the look, and there is none
  between the two.
* `LifecycleProofs`: `TypeCorrectness`, `SuccessMeansAcceptance`,
  `CallsAreAlwaysRecorded`, `StoreOutlivesRuns`. The invariant ties the place of a
  call to its record and to what the other end has done, and the phase of `main` to
  which calls can still be on their way; after `WaitForRuns` there are none but
  those of late handlers. A record still running then is one whose `UpdateRun`
  failed (`unsaved`).
* `JobFormsProofs`: `JobsStayValid`, `PagesSayWhatTheyDo`, `NoEditCreates`,
  `NoPageArmsAgain`, `EditPagesCanBeSaved`. The invariant `Forms` says that the
  table of jobs is in order (`Table`) and that the fields of every open page
  `Follow` what its user means. It says nothing of the job as it is now: that a
  stale page is harmless comes from `CanSave` and `WithCompletion`, which look at
  the table when the page arrives. `Follows` leaves out what a form cannot carry;
  the lemmas `SubmittedSame`, `CompletionStays` and `UntouchedIsAccepted` take it
  through the browser, the parser and the defaults. `EditPagesCanBeSaved` leaves
  out the two kinds of page that cannot be saved: those that cannot show the time
  of the job, which has an offset, and those of Faktory jobs without a rate
  interval. `NoPageArmsAgain` leaves out the times a form rewrites. `SavedKeeps` and `SavedCounts`
  describe what one accepted request makes of the table. `FormsAssumption` asks
  little of the texts (that there are those the program writes) and of what users
  enter: what the inputs of a page can hold (`Enterable`). `ShownTime` may turn a
  time into one without seconds or into nothing, and leaves alone what it made.

Only model-checked: liveness (`RunningRecordsSettle`, `StopsEventually`), which
needs `ENABLED` and fairness and is out of the prover's reach.

## Not modelled

* Labels, styles, the list of jobs and its refresh, the step of the wizard, routes
  that only read, run event logging: they change no state.
* Descriptions, headers and arguments of jobs: no decision looks at them.
* YAML parsing, and the parsing of times and durations: a text is taken to parse or
  not. Settings of server, retention and logging are constants.
* Cron expressions: when one matches is the cron library's affair, and an entry of
  `Engine` may fire in any minute.
* The load test and the example runner: not part of the program.
* The targets' protocols, the cron library's loop, bbolt and the browser: external,
  by the assumptions above.

What is left to do: the composition of `Engine` with `BoltStore`, which `RunLog`
now stands between, and of `Engine` with `FireTimes`; both multiply the states of
what each checks alone and add no interaction, as each operation of the store is
one transaction and each entry fires on its own.
