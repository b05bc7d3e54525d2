# Green Metrics Tool in TLA+

The Green Metrics Tool measures the energy use of software. A repository is submitted through the API, becomes a row
of the `jobs` table, and is executed by a client on a measurement machine; the client also keeps the machine in order,
and a scheduler submits watched repositories again and again. What makes this hard is not any one of these programs
but that they meet in a PostgreSQL database: every statement commits on its own (`lib/db.py` opens no transaction that
spans two), no row is locked, and no `UPDATE` of the job state looks at the state it replaces. Processes die, are
restarted by systemd or cron, lose the database and go on.

This directory holds TLA+ models of these protocols, the TLC configurations that check them on small instances, and
proofs of their main properties for every instance. `PROJECT.json` is the index: it says which source lines each
definition stands for, which run checks which property, and which change of a definition, of the kind a bug in that
code would be, makes each property fail. The definitions commented "Mutant:" in the modules are those changes; no
specification uses them.

## Inventory of the system

| Component | State it keeps | Operations | What is hard about it | Modules |
|---|---|---|---|---|
| Job queue: `lib/job/*.py` | the `jobs` table, `runs.job_id` | `insert`, `get_job`, `clear_old_jobs`, `check_job_running`, `process`, `_process` of three job types | check and update are separate statements; outcomes are written unconditionally; failures of failure handling | `JobQueue`, `JobLane` |
| Cancellation and submission: `update_job`, `runs_add` in `api/scenario_runner.py` | none of its own | read then `UPDATE` to CANCELLED; `INSERT` | acts on a state read earlier | `JobQueue`, `Watchlist` |
| One-off worker `cron/jobs.py` | the job in hand | one job per start, cron starts it again | overlapping starts | `JobQueue` |
| Cluster client `cron/client.py` with `lib/validate.py` and `tools/cluster/maintenance_original.py` | `machines.needs_revalidation` and a local copy of it, `client_status`, timers and counters in memory | maintenance, control measurement, job, sleep, reboot | two memories decide one question; reboots that do not happen; death between a change and its record | `ClusterClient` |
| Watchlist: `cron/watchlist.py`, `lib/watchlist.py`, routes of the API | the `watchlist` table | pass over all rows, add, delete | a pass acts for minutes on rows it read at its start; marker and run are two statements | `Watchlist` |
| One measurement: `lib/scenario_runner.py`, `metric_providers/`, `lib/schema_checker.py` | containers, networks, processes, phases, the `runs` row | set up, phases, flows, post-processing, clean-up | every step may fail, and so may the handling of a failure; the next run finds what this one left | `ScenarioRun` |
| What a measurement runs: `lib/scenario_runner.py`, `lib/resource_limits.py`, `runner.py` | branch and dependencies kept from file to file, images, the order of services, containers and their health, processes | clone, load, limits, build, order, set up, commands, flows, looks at containers and exit codes, kill, clean | containers and detached commands end when they like; what was seen a moment ago decides; one runner serves many files | `Workload` |
| System checks: `lib/system_checks*.py` | none | checks at the start and the end of a run | what a failure means depends on when it comes | as outcomes in `JobQueue` and `ClusterClient` |
| Users and quotas: `lib/user.py`, `authenticate` in `api/api_helpers.py` | `users.capabilities`, one JSON document, and the keys beside it | authenticate and deduct, change settings and keys, deduct a measurement | read-modify-write of the whole document, minutes or hours apart | `Accounts` |
| Database access: `lib/db.py` | a connection pool, shared by threads | `query`, `fetch`, `copy_from`, transactions, with retries | repeats a statement whose fate is unknown; replaces the pool under the feet of other threads | `DbRetry` |
| CarbonDB: `cron/carbondb_*.py`, `cron/backfill_*.py`, `api/eco_ci.py`, `api/power_hog.py`, `api/carbondb.py`, `tools/rebuild_carbondb.py` | the measurement tables, `carbondb_data_raw`, `carbondb_data`, `carbon_intensity` | arrive, locate, fill intensities, copy, deduplicate, compress, rebuild | overlapping scripts without a common transaction, windows of days that must fit together | `CarbonDb` |
| Phase statistics: `lib/phase_stats.py`, `lib/metric_importer.py`, `lib/post_metric_providers/` | samples, `phase_stats` rows of a run, warnings | import, derive carbon, one computation per run | boundaries of phases, single samples, silent providers, rounding | `PhaseStats` |
| Read routes, comparison, optimizations, host inspection, front end, installers | tables written once, or none | single statements, reads | little that interleaves | not modelled |

Most interact through the database only. The API and the watchlist insert jobs; a client selects, executes and labels
them and inserts the e-mails about them; `cron/jobs.py` sends those; the client's `process()` calls the scenario
runner, which inserts the `runs` row that points back at the job and deducts the measured seconds from the user's
quota; the samples of its providers become the phase statistics of the run, and those feed CarbonDB. All of them reach
the database through the pool of `lib/db.py`.

What makes the components correct:

* Queue: a lane (a machine, or a type of e-mail) executes one job at a time, in order if so configured; an outcome is
  true and final; nothing is measured or mailed twice; every job ends unless a crash blocks its lane.
* Client: no job runs on a machine whose packages changed, or whose last control measurement was bad, before a control
  measurement; maintenance lies between any two jobs; a flagged machine is measured.
* Watchlist: no commit, tag or day is lost or counted twice; one bad item does not stop the others.
* Measurement: no leftover of an earlier run runs along with a measured phase; every container, network and provider
  that was started is gone afterwards, whatever failed; stored phases are closed; a run that is not marked as failed
  is complete, a marked one is reported to the caller; measurements are imported once.
* Workload: services start behind what they depend on and when that is ready; failures of commands and containers are
  noticed before the run counts; nothing runs on; nothing of one file reaches the next.
* Accounts: what is deducted is deducted once and not lost; no quota is overdrawn without bound.
* Database access: what was answered is stored, once unless the commit was in doubt; every call ends.
* CarbonDB: a measurement gets into the sums once, with an intensity of its time, and is never lost from them.
* Statistics: each sample counts once and for the right phase; totals, means, slices and the SCI add up; gaps are
  reported.

## Modules

### JobLane and JobQueue

`JobLane` is the abstract promise: each lane is a server that executes one claimed job at a time; a job is queued
once, may be handed back, may be stuck when its server died, and once over stays over.

`JobQueue` is the code. `rows` is the `jobs` table; `pc` and `job` are where each worker is and the job object it
holds; `cancelling` are the `PUT /v1/job` requests between their `SELECT` and their `UPDATE`; `hasRun` is the UNIQUE
column `runs.job_id`; `sent` and `reports` are what left the system. One action is one statement: `GetJob` (purge and
select), `CheckJobRunning`, `SetRunning`, the steps of `_process()`, and the outcome (`SetFinished`, `SetWaiting`,
`SetFailed`, `NotifyFailure`), including the route by which a refusal to start a job ends in the same `except
BaseException` as a failed one. `Die` is a killed process at any of these points; `DatabaseGivesUp` is an outage
longer than the 300 seconds of `with_db_retry`, with the difference between an error inside and outside the `try`
block; no `UPDATE` went through. `AnswerIsLost` is the same outage after an `UPDATE` to FINISHED or WAITING that did
go through, whose `COMMIT` was not answered: the worker takes it for a failure. A worker in `Clients` is
`cron/client.py`, which looks for a running job once more and may prefer a control measurement; the others are
`cron/jobs.py`.

### ClusterClient

The endless loop of `cron/client.py` from process start to process death. `flag` is the column `needs_revalidation`,
`wanted` the local copy, which is read once at the start and differs from the column when a reboot does not happen.
`fresh` says that a `measurement_control_end` younger than `time_between_control_workload_validations` (D) is in
`client_status`; it is written by `SetStatus`, which suppresses a repeated status as `set_status()` does. Timers are
abstracted to whether they have run out. The job itself is one step with all its ways to end (success, temperature
error, other error, an exception that leaves the loop), each of which runs the `finally` maintenance. D is taken to be
at most a day, as in the shipped configuration: the sleeps of D and of a day outlast it. The mode `--testing` is left
out.

The comment at `cron/client.py:228` says "every 24 hours", the condition beside it 12 hours; the model has "due" and
depends on neither.

### Watchlist

`rows` is the `watchlist` table, `head` the newest commit or tag the repository's host would name, counted up by
pushes. A pass copies the listed rows (`snap`), with their markers and whether they are due by the calendar, and works
through them in any order: `Touch` and `InsertDated` are the two statements of a calendar item; `MarkerItem`,
`LookupAnswers` or `LookupFails`, then `InsertRun` and `Mark` as often as the item asks for runs. `AddLooksUp`,
`AddLists` and `AddAsksForRuns` are `runs_add`; its one to three `INSERT`s at the end are one step, since none of the
properties tells them apart. `Foreign` is a commit of another branch: `runs_add` names no branch when it asks for the
newest commit. `PassDies` stands for death, a lost database and an answer that cannot be parsed. The history variables
`asked`, `runs`, `slots`, `doubled` and `torn` are never read by the actions.

### ScenarioRun

One machine and the runs on it, one after the other. `Body` lists the lines of `run()` in their order, with lines that
differ in nothing a property sees drawn together ("build", "dependencies"); `pc` and `at` are where the run is. Any
line may raise (`Raise`), with the exception kept as `check` (a `ConfigurationCheckError`, which lets the client put
the job back) or `error`; then come `_set_run_failed()` (`MarkFailed`), the twelve steps of `_post_process()`, each of
which may fail and is then followed by another marking and by the steps after it, and `cleanup()`, which may fail too;
`Killed` ends a run anywhere. `MayFail` holds the early returns of the steps ("if not self._run_id") and the steps
that touch nothing that can fail. An exception of a later stage replaces the earlier one, as a `raise` in a `finally`
does: `first` and `exc` are the two.

`live` and `up` are the host: whose provider process runs, and whose container under which name. A run sees `none`,
its own (`this`) or a leftover (`earlier`), so that the number of runs needs no bound. Each run chooses a scenario,
the providers its user leaves enabled, and whether it prunes the whole host. `ImportProviders` and `LookForContainers`
are the two places that notice leftovers. `Unnoticed` is an interrupt between the start of a process or container and
the statement that notes it. `StartRun` uses the runner again after a success, as `runner.py` does for several files,
or takes a new one, as the client does. `StopAll` is the `docker stop` of a full prune, which may fail for any of the
containers without anybody hearing of it (`check=False`, `lib/host_platform.py:177`); `docker rm -f` is taken to work
when it returns without an error, and `pgrep` to find what runs. The `INSERT` of the row may be answered late or
never: `InsertAgain` repeats it after the first one went through, and `InsertRefused` gives up after that, so that
there is a row nobody knows of (`lost`). A provider may be noisy (an entry in stderr is an error of the step, its
measurements are imported all the same), refuse to stop, or have something that cannot be read or imported.

### Workload

What `ScenarioRun` draws together in its line "workload", in full: one `ScenarioRunner` that `runner.py` takes through
several files. `asked` and `branch` are the option and the attribute `self._branch`; `packages` is
`__container_dependencies`; both survive a file. `Load` picks any scenario of the constant `Scenarios`, a record of
what the file says: images, memory, `depends_on` with conditions, health checks, forbidden settings and commands.
`_order_services` is modelled call by call (`Root`, `Descend`, `Return`, with `stack` for the recursion),
`_setup_services` look by look (`WaitFor`, `Inspect`, `InspectHealth`, `Sleep`, `GiveUp`), since containers may change
between any two looks. `procs` are the started commands; `listed` is what the runner holds in `__ps_to_read` and
`__ps_to_kill`; a command of a flow is handed over to it only when the flow is over. `_check_running_containers` and
`_check_process_returncodes` are loops over `todo`. `Kill` and `KillFails` are `_read_and_cleanup_processes`;
`RemoveContainer`, `RemoveImages`, `Reap` and `ReapFails` are `cleanup()`, with `CleanupFails` for a `docker rm` or a
prune that raises and takes the rest of the cleanup with it. A process is the client `docker exec` and the command it
has started: `runs` while both do, `left` when only the client was killed (`Killed`, `FlowTimesOut`), `gone` when such
a command has ended with its container. `ContainerExits`, `HealthTurns` and `ProcessEnds` may come at any moment.
`Strangers` are containers of somebody else on the host; they stay up. `early`, `late`, `healed` and the set `gone` of
containers are history.

### PhaseStats

From the samples to the rows of `phase_stats`. The clock counts ticks; `world` fixes what the machine uses per tick,
what the other providers sample, which flows are hidden and what is configured of the SCI. The energy provider samples
when it likes within `Gaps`; phases start and end as `_start_phase` and `_end_phase` do, with the padding sleep; a run
may fail in any of them (`Fail`). Then `Import`, the derivation of carbon from energy (`calculate_co2_intensity`), and
`build_and_store_phase_stats` phase by phase into `csv`, one `COPY`, and the two statements of
`reconstruct_runtime_phase`. Numbers are exact fractions until the code rounds them; `Round` rounds half to even.
Factors that only scale (network and embodied carbon) are 1.

### CarbonDb

Measurements of four kinds arrive through three routes and from runs, each from a `Place`, with or without place,
intensity and carbon sent along, at most 30 days late. Time is counted in slots. Each script is a little process:
`GeoTable` and `GeoFill`, `IntensityTable`, `IntensityFill` and `UpdateCarbon`, `StartCopying`, `CopyKind` and
`CopierRemoves`, `Compress`, and the rebuild. `readings` is the table `carbon_intensity`, of which `Near` takes those
of a row's place from around its creation; `IntensityFill` is `get_carbon_intensity` with its cache of an hour per
process, so that what it gives may be older than the row it is given to. The clock runs while the back-fill does,
`MaxDelay` slots at most from its first table to its last. `row` holds the source row and each copy of a measurement,
told apart by the number of the pass that made it; `counted` says how often it is in its day's sum. `blind` and
`again` are history: of which a copy was made before its carbon was known, and since the last removal of duplicates.
Windows are constants in the proportions of the code (30, 60 days).

### DbRetry

Threads call `DB()` and one of its methods. `pc` follows a call through the loop of `with_db_retry`: an attempt is
`execute`, `commit` and `answer`, any of which may meet a broken connection (`Break`) or an error whose text looks
like one (`Catch`); recovery looks at the pool, closes it, deletes the attribute, creates a new one and sleeps
(`Check`, `Close`, `Del`, `Create`, `Wake`), each a step other threads may come between. `Expire` is the end of the
300 seconds. `unread` is the file of a `copy_from`, which is read by the first attempt.

### Accounts

The row of one user. Requests (`Authenticate`, `Deduct`, a setting or a key with `ChangeSetting`, `Save`, `ChangeKey`,
`SaveKey`) and jobs (`StartJob`, `Measured`, `Pay`) hold a `User` with a copy of the document and write the whole copy
back. A write may be repeated for a lost answer, and a process may die. `base`, `stale`, `paid`, `last` and `repeated`
are history.

### MC modules

Each component has an `MC` module that names the workers, items, services, worlds or threads of its instances.

## What the runs check

| Run | What it shows | Bounds, and why they are enough |
|---|---|---|
| `cluster` | recommended set-up, one worker per lane, FIFO: `MailSentOnce`, `NoOvertaking`, and that `JobQueue` implements `JobLane` | 3 jobs: one executing, one queued, one that the first inserts; one fault and one soft failure |
| `overlap` | two workers on one machine, random order: `SingleMeasurement` and `EndedStaysEnded` need no exclusion; `EveryJobEnds` under fair workers | 2 jobs, 2 workers, one fault, one soft failure |
| `client` | `JobOnSoundMachine` (`JobOnRevalidatedMachine`, `JobOnValidatedMachine`, `MaintenanceBetweenJobs`), `RevalidationComes` | four events out of update, failed maintenance, ignored reboot, bad or failed control, death, so that any four of them may follow each other; 2 temperature errors stand for 10 |
| `watchlist` | `MarkedIsAsked`, `SeriesAreWhole`, `PassServes`, `EveryRevisionIsRun` | a daily item, a series of three runs per commit, an item whose branch is gone; two days, two commits, one death |
| `scenario` | `HostIsClean` (`MeasuredAlone`, `CleanAfterwards`), `OutcomeIsTrue` (`UnmarkedIsComplete`, `MarkedIsReported`, `EarlyCheckReachesCaller`), `ImportedOnce` | any number of runs; three failures per run, so that a line, the post-processing and the cleanup of one run may fail; two services, two providers of which a user disables one, two flows, since each relation is between two of a kind |
| `workload` | `OrderIsRight` (`DependenciesFirst`, `CyclesAreReal`), `StartedWhenReady`, `FailuresEndTheRun`, `DeadContainersAreNoticed`, `NothingRunsOn`, `ImagesAreFresh`, `MemoryIsThere`, `EveryFileEnds`, types | two files of 70 scenarios: all 64 graphs over two services and an unknown name, and a diamond over three with a health check, two flows with detached and ignored commands, a foreign container, forbidden settings, memory that does and does not suffice; two looks at a dependency; names that contain or clean to each other |
| `reuse` | a disagreement, below | as `workload` |
| `phasestats` | `NothingIsCountedTwice`, `EnergyAddsUp` (`EnergyIsOfThePhase`, `SlicesAddUp`), `RuntimeIsVisibleFlows`, `MeansAreMeans`, `CarbonAddsUp` (`CarbonFollowsEnergy`, `SciChargesOnce`), `StatsAreWhole`, `SilenceIsWarned`, types | four worlds, 15 ticks, phases of up to four ticks, gaps of two or four, so that phases have no, one or several samples, on and off their borders; phases follow each other without a pause, where a sample can be torn between two; four ways to lose measurements |
| `carbon` | `CountedOnce`, `CarbonIsOfItsTime`, `SumsAreWhole` (`LastCopyStays`, `LateArrivalsCount`, `SumsAreKept`), types | a measurement of Eco CI, of Power HOG or of a run alone, or two of the API that share a sum and come from two places; five slots of half a day with windows of one and two days, and up to three slots late; a back-fill of two slots, longer than its look-back; two copies and a rebuild, so that a copy meets an older one and one under way |
| `dbretry` | `RowsAreTrue` (`AnsweredIsStored`, `DoubledOnlyInDoubt`, `TransactionsAreWhole`), `EveryCallEnds` | an insert, a copy and a transaction at once, since a pool that is replaced concerns whoever else is using it; one broken connection, after which errors and repeats go on by themselves |
| `copy` | a disagreement, below | as `dbretry`, two threads |
| `accounts` | `OverdraftIsBounded`, `BooksBalance` | two requests and two jobs on one machine, quotas of one, so that each can be the last one and find it used up; one lost answer |

A property in parentheses is a conjunct of the one before it. The runs do not repeat what is proved for all constants
and follows closely from other proofs or properties: the types of the other six modules, `LaneExclusive` (part of
`JobLane`), `RunningHasOwner`, `FinishedIsDone`, `OncePerDay`, `StoredPhasesAreClosed`, `StartsFresh`, `PoolIsComing`
and `KeyIsLast` are theorems only.

Deadlock is checked in every run but `phasestats`, whose one run comes to its end. `MaxFaults` (per run in
`ScenarioRun`), `MaxSoftFails`, `MaxEvents`, `MaxCrashes`, `MaxBreaks`, `MaxDay`, `MaxRevision`, `MaxFiles`,
`MaxTime`, `MaxDelay`, `MaxStay`, `MaxPause`, `MaxArrival`, `MaxLateness`, `MaxBatches`, `MaxRebuilds` and
`MaxDuration` bound what the environment and the calendar may do, never what the program may do. `phasestats` was also
checked with pauses between phases (`MaxPause = 1`) and fewer worlds. `SYMMETRY` is used in `accounts` only, which
checks invariants: requests, jobs and values are interchangeable, as no definition names one.

### Fairness

`JobQueue`: every worker goes on with straight-line code (weak fairness), and does not prefer a control measurement to
a waiting job for ever (strong fairness of `ClientProceed`): one is due only every D. Submission, cancellation and
faults are owed nothing. `EveryJobEnds` excepts lanes blocked by an orphaned RUNNING row, which nothing in the code
ever resets.

`ClusterClient`: the process keeps going and systemd starts it again (weak fairness of all its steps together); no
outcome of a step is owed. `RevalidationComes` therefore excepts a client that finds a job of its machine running:
such a row keeps it from everything.

`Watchlist`: cron starts passes again and again and they go on; a request that has listed its item ends; the host
answers for an existing branch if it is asked again and again (strong fairness of `LookupAnswers` per item), which is
what retrying at the next pass relies on.

`Workload`: the runner is one thread that goes on whenever it can (weak fairness of `Step`, the union of its actions);
nothing is owed by containers and processes, and nothing by one branch of a choice. `EveryFileEnds` holds since
waiting and killing are counted. A command that never returns is outside: flows have their time limits, for the setup
see below.

`DbRetry`: each thread goes on, and the 300 seconds run out for it (weak fairness per thread and of `Expire`).

`Accounts`, `CarbonDb` and `PhaseStats` make no liveness claims: cron owes no order, and clients owe no requests.

### Disagreements found

Two are the counterexamples of runs and are quoted with their lines in `PROJECT.json`.

* `copy`: `copy_from()` reads the file inside the function that is repeated; after a connection that broke behind the
  read the next attempt copies nothing and reports success, and the measurements of that provider are gone.
* `reuse`: after a file with `--commit-hash` the runner keeps "(HEAD detached at ...)" as its branch and hands it to
  `git clone -b` for the next file or iteration, which fails.

The following are definitions at the end of `JobQueue` and `Watchlist` that TLC refutes within seconds (the comments
there name the constants). They have no run of their own.

* `RunningIsNotCancelled`: `PUT /v1/job` may cancel a job that has started meanwhile, and says it was cancelled; the
  job is measured all the same, and its outcome overwrites CANCELLED ("already running and cannot be cancelled
  anymore").
* `RequeuedIsUnmeasured`: a system check that fails after the measurement puts the job back to WAITING as if nothing
  had been measured; the retry meets the UNIQUE `runs.job_id` and the job FAILs ("as not the run itself has failed",
  `lib/job/base.py:74`).
* `FailsOnlyWhenRun`: the refusal to start a job beside a running one marks it FAILED (`lib/job/base.py:66`);
  overlapping starts of `jobs.py` lose unsent e-mails.
* `NoContradictingMail`: "successfully processed" is queued before the clean-up that can still fail the job.
* `OncePerWeek`: a weekly item with a daily pass runs every eighth day.
* `OnlyNewCommits`: an item on another branch than the default one gets its first commit measured again by the first
  pass.

Without a property: the docstring of `lib/job/base.py` says FAILED and NOTIFIED jobs are deleted after 14 days, the
query deletes FINISHED, CANCELLED and FAILED ones and no state NOTIFIED exists; with `no_url_check` an item is listed
without a marker, so the first pass repeats the run `runs_add` asked for; a daily item runs twice on the day it is
added, once directly and once by the pass. When the mail server is down, every failed e-mail queues a failure notice
about itself, which fails in turn; the bounded models do not follow this chain.

Two passes of the watchlist at once (`cron/watchlist.py:40`) both see an item as due and insert two runs: `OncePerDay`
is stated for passes that do not overlap.

Of the runs of a machine. The comment in `_stop_metric_providers` (lines 2547-2548) wants all providers stopped before
any failure counts, but only a `RuntimeError` of `read_metrics()` is collected: a `ValueError` or a failed import
leaves the loop, the providers after it are stopped by `cleanup()`, and their measurements are lost (the model has
this; the run is then marked, so `UnmarkedIsComplete` holds). When `run()` breaks before `_start_measurement()`, the
first step of post-processing raises a `TypeError` that replaces the cause. A failing `cleanup()` leaves the run
unmarked although its caller gets an exception, so a job can FAIL with a run that looks fine. A killed process leaves
its providers and containers: the next run refuses to start beside them, and goes on refusing until somebody removes
them, unless it uses neither the provider nor the name; `MeasuredAlone` therefore speaks of the run's own providers
and names. `docker run` may refuse after it created a container, which is then not in `__containers`; it does not run,
but its name is taken. `__usage_scenario_variables_used_buffer` is emptied by `cleanup()`, so that a runner used again
no longer notices unused variables.

Of the workload. `__container_dependencies` (written in 2200-2213) is not reset by `cleanup()` (2928-2988): a file
without services of its own gets the packages of the file before it into its row (`PackagesAreOwn`, which TLC
refutes). `docker ps -q -f name=` finds a container by any part of its name (881), although the comment (886) wants it
to have stopped "unexpectedly": a dead container is overlooked while one lives whose name contains its own. A share of
memory that rounds down to 0 (`lib/scenario_runner.py:989`) becomes `docker run --memory=0`, no limit at all. Images
whose names differ only in characters that `_clean_image_name` replaces (1213-1221, 1236-1246) are taken for each
other; `ImagesAreFresh` says what still holds. Setup commands have no timeout. The processes of a flow that fails are
not handed over (the comment at 2478 says they are kept for cleanup), so one detached in a foreign container runs on.
A container that `docker run` created and could not start is not removed. Detached commands may exit with 255, -15 or
-9 and count as fine. Killing a `docker exec`, at the end of the flows or when a flow's time is over, ends the client
and not the command; in the scenario's own containers that ends with the container, elsewhere it runs on. `docker rm
-f` has `check=True` (2945): when it fails for one container, the others stay, and the loop at 2957 that kills what is
left is not reached. `NothingRunsOn` excepts both.

Of the database and of accounts. `with_db_retry` tells broken connections by words like "network" in the error's text,
so a constraint that contains one is retried for 300 seconds. A thread that finds no attribute `_pool` gets an
`AttributeError`, which nothing retries. A pool may be replaced without being closed (`lost`). A failed run deducts 0
seconds and still writes its old copy of the document back; this undoes what happened meanwhile, deductions of others
included (`stale` in `BooksBalance`).

Of CarbonDB. Rows copied before their carbon was known count once per copy (`blind`; the comment at
`carbondb_copy_over_and_remove_duplicates.py:141` calls this "not problematic"), and since a copy is created when it
is made, it is filled with the intensity of that time, up to 60 days later, where the comment at
`backfill_carbon_intensity.py:56` says that "it makes no sense to look for later values". The same holds, up to 30
days, for what arrives late: the look-back starts at the arrival. Measurements of Power HOG without an intensity keep
a carbon of 0. What is compressed between copy and deduplication counts copies (`again`) until the next compression.
Old rows of Power HOG stay uncounted in `carbondb_data_raw`. A row whose address the service cannot place stops the
pass before the rows behind it. A rebuild brings back only what its sources still hold with their carbon.

Of the statistics. The mean of [RUNTIME] is weighted with the time of all visible flows, also of those without
samples, which count as 0 (`MeansAreMeans` excepts them). The SCI of [RUNTIME] is the sum of the ratios of the flows.
`network_power` is typed TOTAL and summed. Between the `INSERT` and the `UPDATE` of `reconstruct_runtime_phase`,
readers see sums where means belong. With more jitter than the padding the tail of a phase may count for the next one
or for none, and so does a second sample in one pause. A metric that has a row but no samples makes the whole
computation fail, and the run has no statistics.

## What is proved

`JobQueueProofs`, `ClusterClientProofs`, `ScenarioRunProofs`, `WorkloadProofs`, `PhaseStatsProofs`, `UsersProofs`,
which holds the proofs of `Watchlist` and `Accounts`, and `DatabaseProofs`, which holds those of `DbRetry` and
`CarbonDb`, prove, with TLAPS and for all constants that meet the ASSUMEs of the modules (any number of jobs, lanes,
workers, items, passes, services, providers, flows, threads, requests, measurements, any bounds). Where two modules
share a proof module, the definitions of one that every specification has bear its name (`AccountTypes`, `CallInit`).
`SumsProofs` holds what is known of sums (`Sums`), by contradiction on a smallest set that would be a counterexample,
as induction theorems cannot be instantiated here; that the recursive function behind a fold exists is shown size by
size. What is proved:

* `JobQueue`: `TypeOK`, `RunningHasOwner`, `SingleMeasurement`, `EndedStaysEnded` and `FinishedIsDone`
  unconditionally; `LaneExclusive`, `MailSentOnce`, `NoOvertaking` and the refinement `ImplementsJobLane` from
  `OneWorkerPerLane`, the assumption the recommended set-up makes and `FailsOnlyWhenRun` shows to be needed.
* `ClusterClient`: `TypeOK` and `JobOnSoundMachine`.
* `Watchlist`: `TypeOK` and `MarkedIsAsked` for any number of overlapping passes; `OncePerDay`, `SeriesAreWhole` and
  `PassServes` from `OneAtATime` (no two passes at once), without which two passes that read the same row both insert
  a run.
* `ScenarioRun`: `TypeOK`, `HostIsClean`, `OutcomeIsTrue`, `ImportedOnce`, `StoredPhasesAreClosed` and `StartsFresh`,
  unconditionally; of the constants only that a scenario's services and a user's selection are among those named, and
  that there are finitely many providers.
* `Workload`: `TypeOK`, `MemoryIsThere`, `OrderIsRight`, `StartedWhenReady`, `FailuresEndTheRun`,
  `DeadContainersAreNoticed`, `NothingRunsOn` and `ImagesAreFresh`, for any scenarios and files of finitely many
  services; that "has a name which contains the name of" (`Lookalikes`) is transitive is assumed, as it is of
  substrings.
* `PhaseStats`: `TypeOK`, `NothingIsCountedTwice`, `EnergyAddsUp`, `RuntimeIsVisibleFlows`, `MeansAreMeans`,
  `CarbonAddsUp`, `StatsAreWhole` and `SilenceIsWarned`, for any worlds, clocks, paddings, sampling and any number of
  flows, custom metrics and intensity providers; of the constants only that containers are finitely many and that the
  intensities are a sequence of names.
* `DbRetry`: `CallTypes`, `RowsAreTrue` and `PoolIsComing`, for any number of threads and kinds of calls, `update`
  included, which the run leaves out.
* `CarbonDb`: `TypeOK`, `CountedOnce`, `CarbonIsOfItsTime` and `SumsAreWhole`, for any measurements of any kinds, any
  windows and any number of starts of the scripts.
* `Accounts`: `AccountTypes`, `OverdraftIsBounded`, `BooksBalance` and `KeyIsLast`; of the constants only that there
  are finitely many requests.

None of the safety properties is inductive by itself. The strengthenings, and what they say about the code:

* `MeasuredHasRun` (a worker that measures has inserted its runs row): with the UNIQUE column this keeps a second
  worker out, so `SingleMeasurement` needs nothing from the queue.
* `HeldInLane` and `CheckedIsClear`: between the check and the `UPDATE` to RUNNING no other row of the lane becomes
  RUNNING, because only the lane's one worker could do it. This is where `OneWorkerPerLane` enters.
* `DoneInHand`: a worker about to write FINISHED has a measured job with its report queued, or a sent mail.
* `IdsInOrder` and `OldestInHand`: ids are handed out in the order of insertion, and from a worker's `SELECT` to the
  outcome no older row of its lane waits. What is inserted meanwhile is younger, and only the lane's one worker puts a
  row back.
* `HeldStates`: which states the row a worker holds can have at each of its lines. With the mapping of `rows`, `pc`
  and `orphaned` to what a lane's server does, every step of `JobQueue` is then a step of `JobLane` or none.
* `WaitingIsUnsent`: a mail that waits was not sent; a late cancellation, a crash after sending and a refusal must all
  leave the row in a state from which it is never WAITING again.
* `ChangeIsRemembered`: changed packages are known to the flag, to the local copy, to the absence of a fresh control
  measurement, or to a client on its way to record them, or a client died with that knowledge.
* `VerdictIsRemembered`: an unjudged or bad verdict is in the hands of the client that sits it out, or the record of
  its measurement is no longer fresh, or a client died with it. `CopyIsCurrent` relates the two copies of the flag.
* `MaintenanceIsDue`: if maintenance has not run since the last job, it is due or under way.
* `BehindHost` and `FoundIsAsked`: no marker, run or pass is ahead of the host's newest commit, and a pass about to
  write a marker has asked for a run of it. A slow pass may set a marker back, never beyond what was asked for.
* `SlotsAreRecorded`: while an item is listed, the last day it was run for is not after its `last_scheduled`; this is
  what the order "record the day, then insert the run" buys. `RowsDiffer` and `DueIsUnserved` carry it to the rows a
  pass has read: what it holds to be due was not run that day, which needs that no other pass runs meanwhile.
* `SeriesInv`: an item on the list is settled (its marker has caught up with its runs) or a pass is at its runs; the
  marker a pass has read is still that of the table; the runs of the revision in hand and those still to be inserted
  are a series. `LastIsServed` and `DueIsServed` do the same for the day an item was last scheduled for and the run of
  that day.
* `CheckedFirst` and `OpenIsKnown`: at every line of the run, which phase is under way, and that the two checks for
  leftovers lie before the first one. What enters the host after the checks is this run's own, as only the next run
  makes it old.
* `ProvidersTracked`, `ContainersTracked`, `NetworkTracked`: what is up is in the collections of the runner the
  cleanup goes over, or known to be beyond its reach. The order of the cleanup matters: the network after its
  containers.
* `ImportsAreAhead`: a provider still to be stopped has no measurements yet, and post-processing never comes back to
  that step.
* `StepsAreDone` and `ImportsAreComplete`: a run that may still end unmarked has saved every step behind it; has all
  its providers listed and started before post-processing; and imports from each before the step counts as done.
* `NothingToFail`: as long as the row is missing there are no containers, providers or errors for a later stage to
  fail over.
* `FreshBetweenRuns`: a runner that is used again after a success was emptied by the cleanup.
* `SortOK`: the open calls of `order_service_names` are a way along the dependencies, through services not in their
  place; visited names are on it or placed. So a visited name that is met again closes a ring, and a diamond does not.
* `NoticedOK` and `KilledOK`: outside of flows every process is listed, and a failed one that is not detached is ahead
  of the loop that looks at it; what runs under its client was detached, and after a file is in the loop that kills,
  or of the flow that failed, unless a process was stubborn or Docker failed in the cleanup. `HostOK` adds where
  containers are up and that a command which goes on has its container up, `ReadyOK` that what a service no longer
  waits for was met in its turn, and `ImagesOK` that tags belong to the file.
* `LimitsOK`: from the step that lays limits down to the end of the file, a service has the limit it states or an
  equal share, rounded down, of what these leave; before that there is no row. `QueueOK`: what is started has its
  place.
* `EarlyOK`: a service that was dead before it was last looked at does not run again in this file; in the last look it
  is still to come, or is taken for a container whose longer name contains its own, and that one lives, or is itself
  still to come.
* `PhasesInOrder` and `BordersOK`: phases are in the order of time, with the padding sleep between them, and the flows
  lie inside of [RUNTIME], which is not closed before the last of them.
* `SeriesOK` and `SamplesOK`: each energy sample is what the machine used since the one before, no longer than a gap
  ago; carbon is the product of energy and the intensity of its time. Samples of a phase therefore add up to what was
  used from the one before the first to the last of them (`SamplesAddUpTo`), and the padding has such a last one
  behind the phase.
* `BuiltOK` and `RowsOK`: rows are built phase by phase behind `idx` and stored together; those of each phase are
  exactly what `PhaseRows` makes of its samples (`MadeOf`), and the two statements of `reconstruct_runtime_phase` turn
  the rows of the visible flows into those of [RUNTIME] (`RuntimeRow`). The properties of values are then arithmetic:
  the least and the greatest sample bound a mean whatever it is weighed by, a rounded value differs from its fraction
  by half a unit at most, shares over the common denominator add up to the whole (`SumOfFractions`, `PartsAddUp`,
  `RoundedAddUp`).
* `Strong`, the conjunction of these with `PlanOK`, is what all five properties of values are derived from. Least and
  greatest samples are found with the well-foundedness of the naturals.
* `CallOK`: how far a call has come says what it has committed, unless it is in doubt; a file that was read, and a
  transaction, are never written twice, because one has nothing left and the other no second attempt.
* `CopiesAreTrue`: how each copy of the document differs from the document its process last saw: by what it has
  deducted, or not at all. With `CopiesInBounds` a stale write cannot overdraw further than one measurement.

* Of `CarbonDb`, `OriginsOK` (copies come from a source that stays) and `CopiesAgree`: copies taken with their carbon
  known are equal to their source, so a removal takes all of them but one. `OnceOK`: within the look-back there is one
  copy of what was not copied anew since. The day of the clock only moves rows out of the look-back, never into it.
* `FetchedOK` and `SuitedOK`: rows that wait for an intensity were young when the back-fill started, or have come
  since, and what it has in its cache was read since then; so every reading in a row is of its place and within
  look-back and duration of its creation, or of that of the source it was copied from with its carbon.
* `TakenOK` and `HeldOK`: what is in a sum has a row to compress, or else the rebuild has deleted all the rows of that
  sum. Then no compression touches the sum, and the next copy brings back all of them at once, because measurements
  that share a sum were created on the same day and the cut of the copy lies between days. The greatest of equal
  copies is found with the well-foundedness of the naturals.

`CountedOnce` is an action property: it speaks of what a compression writes, since what stands in `carbondb_data`
between a copy and the next compression is out of date by design. Its exceptions are events (a blind copy, a copy
since the last removal) and not the presence of duplicates, so a removal that removes nothing breaks it: the mutant
compares the time of the copy, and no two copies are equal.

Only model-checked: the liveness properties, which are out of the prover's reach. Each safety property a passing run
checks is also a theorem.

## What is not modelled

* The read routes of the API, badges, the comparison of runs and the front end: they select and format.
* Optimization providers, hardware and host inspection: they read a finished run, or the host.
* Installers, migrations and the tools an administrator starts, but for the rebuild of CarbonDB.
* What system checks look at on a machine: their outcomes are in `JobQueue`, `ClusterClient` and `ScenarioRun`.
* The statistics of control measurements: only their verdict is in `ClusterClient`.
* Of the runner: the --dev switches, time travel, local folders as `--uri`, volumes, ports, files and networks beyond
  their being there, the contents of logs.
* Of CarbonDB: passes over empty tables, the merge of identical measurements, and passes of the back-fill that last
  longer than `MaxDelay` (theorems have any value of it).
* Of the statistics: metrics that are neither energy, power, carbon, network, share nor custom, and warnings other
  than that of gaps. The clock is taken to be monotonic.

Clock changes and PostgreSQL's isolation below a statement are left out: each statement is one atomic step, which the
code's autocommit gives for statements on one row; the purge and the select of `get_job()` touch different rows and
are one step. The content of messages, logs and reports is abstract everywhere.

## Plan

1. Compositions: `Accounts` with the retries of `DbRetry`, and a watchlist whose runs go through `JobQueue`.
2. The validation of incoming measurements, if a property beyond its single conditions turns up.

The order follows the damage a defect does: a wrong measurement first, wrong accounts next, then wrong statistics.
