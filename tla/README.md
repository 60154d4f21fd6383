# FIDB build farm: a TLA+ verification

`src/` builds function-identification databases on a pool of long-lived worker
machines.  A coordinator (one SQLite file) holds the queue: batches of jobs,
leases, retries, stage evidence and the blocks that are admitted for
execution.  Workers claim jobs, build them for minutes to hours, publish an
attempt directory and report.  Around the queue stand long campaigns that
measure what it produced (machine validation, the linked-reference retrofit,
function matching), the qualifications that admit them, and the commands that
keep sources, toolchains, evidence and packages.  Nearly everything that can go
wrong is a matter of order: a worker reports after its lease was given to
another one, a plan is refreshed while its jobs run, a supervisor is killed and
its workers are not, a review lands between the reading of an authority and the
sealing of what was made from it.  The modules here state what must hold in
every order, check it with TLC on small instances, and prove the statements
about the ledger with TLAPS for all instances.

Paths below are relative to `src/src/fidb_poc/` unless they start otherwise.

## 1. The system

| part | code | state | operations |
|---|---|---|---|
| Job coordinator | `coordinator.py` | SQLite tables `jobs`, `attempts`, `stage_attempts`, `pathological_cell_quarantines`, `batches`, `coordinator_state` (policy, armed, paused, primary and look-ahead block) | synchronize / reconfigure / disarm the queue, claim, renew, record stages, complete, fail, recover expired leases, admit and finish blocks, quarantine and release, requeue, pause, resume |
| Queue configuration, operations policy | `coordinator_config.py`, `operations_policy.py`, `performance_profiles.py` | TOML documents, a notification outbox | parse, digest, decide windows, cutoffs and modes |
| Local queue worker | `queue_cli.py`, `timing.py` | a process, its heartbeat thread and cutoff timer, staging and published attempt directories | loop: look, admit, claim, execute, publish, report, finish block |
| Remote worker protocol | `remote_api.py`, `remote_worker.py` | remote staging, upload locks, partial files | claim/renew/stage/fail/complete over HTTP, chunked upload |
| Cell execution | `cell_runner.py`, `pipeline.py`, `staged_backend.py`, `adapters.py`, `ghidra_fid.py`, ... | a project directory, a resolver that outlives its cells | resolve, acquire, build, populate, publish a manifest, seal |
| Local HTTP API, campaign registry | `local_api.py`, `campaign_registry.py`, `incident_report.py`, `external_workers.py` | selection file, cached projections | typed requests to the coordinator, switch of campaign, snapshots |
| Retention | `retention.py` | plan documents, holds, failure bundles, collector lock | plan, apply (delete old attempts and composites) |
| Database export | `database_export.py` | snapshots, safeguards, packages, receipts | safeguard, freeze a population, build, seal |
| Machine validation | `machine_validation*.py`, `validation_*.py`, `cohort_validation.py` | run directory: state, claim files, checkpoints, results; sealed link generations | qualify links, supervise worker processes, pause, resume, archive, take folds over |
| Linked-reference retrofit | `linked_reference_*.py` | run lock, status files, task and generation seals | supervised resumable tasks |
| FID matching | `fid_*.py`, `hash_gpu_trial.py` | campaign lock, case summaries, reports, evidence | canary and full runs, schedule, scoring |
| Lane databases | `lane_*.py`, `scripts/deduplicate_lane_db.py` | immutable raw and compact generations | plan, compile, compact |
| Hash evidence | `machine_validation_hashes.py`, `corpus_hash_index.py`, `ecological_validation.py` | corpus index, batches, reports, cases | analyse a run, append it to the index, analyse a binary |
| Planning | `width_run.py`, `plan_*.py`, `batch_time_model.py`, `auto_batch_builder.py`, ... | TOML/CSV, width run documents | compile plans, pack, measure a width |
| Toolchains | `toolchain_*.py` | content-addressed stores, bindings, compositions, qualifications | pull, prepare, bind, compose, qualify, resolve |
| Sources and recipes | `source_acquisition.py`, `recipe_*.py`, ... | registries, locks, receipts, recipe evidence | refresh, resolve, pull, qualify recipes |
| Hunt, CLI, control panel, scripts and units | `hunt.py`, `cli.py`, `src/control-panel`, `src/scripts`, `src/operations` | none durable | drive the other parts |

**How they interact.**  Workers, the two HTTP services and the operator's
command line all open the same SQLite file; every public operation of
`Coordinator` is one `BEGIN IMMEDIATE` transaction.  There is no message
between workers: they see each other only through the ledger.  A worker knows
its lease by `(job, token, generation)`, and every write it makes is fenced by
it (`_require_lease_locked`).  Attempt directories are private to a generation
until `os.replace` publishes them.  Remote workers reach the same operations
through `remote_api.py`, whose server thread stores uploads and publishes on
their behalf.  The campaigns share nothing with the queue but files: they start
processes of their own, in sessions of their own, and know of them through pids,
lock files, status files and seals.

**What is hard.**  Leases expire by wall clock and are recovered only by the
next caller, whoever that is; the same call then may be the late answer of the
worker that lost the lease.  Jobs are identified by plan digest, so a refreshed
plan brings the same work under new ids while the old ids still run.  Blocks
are admitted and closed by whichever worker polls first, from a document it
read earlier.  Publication spans a file system and a database.  Requests time
out at the client while their handler thread keeps running.  Workers outlive
killed supervisors.  Campaigns resume from whatever files a killed run left, and
must not take an old run's files for their own.  Reviews edit authorities while
long-lived processes hold what they read before.  The list of hazards, each with
its line and the properties aimed at it, is `hazards` in `PROJECT.json`.

**What makes each part correct.**  Coordinator: the tables agree, ended
evidence is never rewritten, complete is final, limits hold, every job settles.
Worker: a reported result survives a power loss, work runs only in admitted
blocks and inside its window, the queue drains although workers die.  Upload: an
artifact appears only whole, replays are harmless, the loop ends.  Retention:
nothing held, live or unbundled is deleted.  Validation, retrofit and matching:
no position is run by two processes at once, none is lost, a restart resumes,
what is sealed is complete.  Pipeline and cells: a manifest or a seal names only
what is there and what it was made from.  Evidence: totals are those of a
recount.  Stores: a name never shows content that was not verified for it.

## 2. Modules

| module | models | uses |
|---|---|---|
| `JobRow` | one row of `jobs` with its `attempts` and `stage_attempts`, and what each SQL statement does to it, as operators | - |
| `Coordinator` | the ledger: one action per public operation of `Coordinator` | extends `JobRow` |
| `CoordinatorService` | the same ledger left to its workers after one synchronization | extends `Coordinator` |
| `JobLease` | abstract: a lease service with fencing tokens | - |
| `CoordinatorLease` | the refinement mapping | extends `Coordinator`, instantiates `JobLease` |
| `QueueWorker` | `_run_worker` in block mode, `_execute_claim`, heartbeat and publication of several worker processes | extends `Coordinator` |
| `WindowWorker` | workers on a schedule of windows: claim window, cutoff timer, outbox | extends `Coordinator` |
| `RemoteWorker` | remote workers and the API's handler threads | extends `Coordinator` |
| `RemoteUpload` | `_upload` and `_store_upload_chunk` | - |
| `Pipeline` | `pipeline.execute` and `staged_backend` in one project directory | - |
| `CellExecution` | `run_cell` from a resolved cell to its seal, in long-lived processes | - |
| `ValidationRun` | `run_validation`, its workers (`_worker`) and the operator's start, pause, requeue and resume | - |
| `LinkQualification` | the link qualification and the folds a validation run takes from it | - |
| `HashEvidence` | the hash analyses and the corpus index | - |
| `LinkedRetrofit` | the retrofit's run, workers, timeouts and seals | - |
| `MatchingCampaign` | campaign runs, how cases are given out, matchers, reports, schedule | - |
| `FidScoring` | streamed candidate scoring, engines 1 and 2 | - |
| `RecipeQualification` | the recipe runs that promote a width batch | - |
| `WidthRun` | a width run with its process pool and replays | - |
| `LaneDatabase` | lane plan, raw generation, compaction | - |
| `Ecological` | ecological cases, their starters and processes | - |
| `ControlPanel` | campaigns, selection, cached projections | - |
| `Retention` | collections: holds, plan, lock, application | - |
| `DatabaseExport` | safeguard and package build | - |
| `Toolchains` | a toolchain route through reviews | - |
| `SourceAcquisition` | metadata, locks, pulls, receipts | - |
| `CoordinatorProofs`, `ServiceProofs`, `UploadProofs`, `RemoteProofs`, `MaintenanceProofs`, `CampaignProofs`, `ValidationProofs`, `RecordsProofs` | theorems | extend what they prove about |
| `MC*` | instances for TLC | |

The header comment of each module says what it stands for and what it leaves
out; the correspondence definition by definition is `map` in `PROJECT.json`.
The notes below give what a reader needs before opening them.

### JobRow and Coordinator

A job is a record `jobs[j]` with the columns decisions depend on (`state`,
`active`, `generation`, `attemptCount`, `worker`-side lease columns, the retry
delay) and its attempts in order of generation, each with its stage spans in
order.  `quarantined` (jobs with an active pathological quarantine), `order`
(active batches by position), `armed`, `paused`, `policy`, `primary`,
`lookahead` and `lastAdmission` are the remaining columns the code branches on.
Actions have the names of the methods.

- A call that raises rolls back, so it is a stuttering step: an action's guard
  is the conjunction of the conditions under which the method commits.
- `_recover_expired_locked` runs first in every fenced write and in `claim`; it
  is `Recovered(jobs)` inside those actions, never a step of its own
  (`RecoverExpired` is the public method of that name).
- A worker's call takes *any* generation up to the current one (`LeaseStep(j,
  g)`): a late report of a worker long fenced off is always possible.
- Times are counters that run down: `Age` is one tick of the clock.  What the
  code compares is `now >= lease_expires_at` and `now >= next_eligible_at`.
- `sync_queue` is one action: rows no longer listed are deactivated, listed
  rows inserted or reactivated, terminal evidence of the same work in another
  plan generation is carried (`AuthorityOf` stands for batch, cell, factors,
  queue row and resolved cell; two jobs with equal authority are the same work
  under different plan digests), and the two admissions are cleared if their
  batch left.

Left out of the ledger: the `events`, `plans` and `resolved_cells` tables, the
worker registry, migrations and reports.  `expected_count` and
`expected_sync_generation` arguments of operator commands are equalities with
the current value, so an accepted command has the right one.  Schedule
admission identifiers are a small set, needed only because
`start_next_block` admits one id once.  `renew`'s optional `lease_seconds`
(no caller passes it) is left out.

`CoordinatorService` is the ledger without its operator: one synchronization,
claims, worker reports, ticks, block admission.  These are the promises of an
unattended night, so they are stated without operator actions that change
limits on purpose: a job requeued by an operator may be claimed once more
although its attempts are spent, so `RetryCap` is a property of this module.

### Workers

`QueueWorker`: `pc[w]` is where worker `w` is in `_run_worker` /
`_execute_claim`; `seen[w]` the block document it last read (`claim_batches`),
which may be stale when it claims; `beat[w]` its heartbeat thread; `disk[j][g]`
the attempt directory of a generation (private, flushed, renamed, durable).
Faults are kills, interrupts (SIGTERM/SIGINT handled in the `try`), I/O errors,
lost heartbeats and power losses, together at most `MaxFaults`.  A power loss
may undo a rename whose directories were not flushed; the ledger commits with
`synchronous=FULL` and stays.  The schedule is the one `auto_batch_builder.py`
writes (`finish_started_batch`, `chain_batches`, enabled).  `run_cell` is one
step.

`WindowWorker`: the loop with `finish_started_batch` off.  A clock is an hour of
the day and a date; `DayLength` is 3, so the modelled hours lie around midnight
and windows cross it.  A worker claims only inside the claim window of its
schedule; a timer sends it SIGTERM at the hard cutoff, which stays pending until
the main thread comes to it.  Three things the model shows and its properties
leave to the comments: SIGTERM that arrives outside the `try` of
`_execute_claim` ends the worker with status 130 and leaves its heartbeat's
lease to expire, and systemd (`Restart=on-abnormal`) does not start it again; an
operator's SIGTERM that arrives at the cutoff is taken for the cutoff's and the
worker goes on.

`RemoteWorker`: a client waits for one call at a time and abandons it after its
timeout; `calls` holds the handler threads that still run, next to those of later
calls.  The three uploads of an attempt are one call here.  `RemoteUpload` is
their protocol: one artifact, a client and the server's handler with its file
lock.  `handler` is the next step of the request that holds the lock, and each
step is one file-system operation, so a crash can fall between any two.
`requests` is what the network may still deliver: late, and any number of
times.  The client in fact sends each request once, so arbitrary repetition
over-approximates it; the server has explicit replay branches and it is those
that `ReplaysAccepted` is about.

### Building

`Pipeline` is one project directory: sources acquired, cells of libraries x
groups built and populated group by group, the manifest written at the end; a run
that starts again in the directory a killed run left removes the databases, one
by one, before the manifest (`clearing`).  `CellExecution` keeps one number for the reviewed files: a
resolver read them at some review, a synchronization resolved the cell at
another, and the seal must pin what was built.

### Campaigns

`ValidationRun`: `sup` is the supervisor process with its local variables,
`workers` the worker processes with what the supervisor knows of each; the rest
are files: `claims` (a claim is *unsigned* between `O_EXCL` creation and the
writing of the pid), `result`, `timeouts` (archived failures), `status`, `pause`,
`lock`.  Each step is one file operation or one process operation, so the two
looks of a worker around its claim, the supervisor's kill-release-check-write-
archive sequence and the operator's read-then-write of the status all
interleave.  The loop looks at its workers in any order (the code: in the order
of their slots), which only adds behaviours.

What the model shows besides the properties: the claims of a timed-out worker
are released (`machine_validation_runner.py:2261`) *before* the failure is
recorded (`2262`), so another worker can start on the position first.  With
both fold checkpoints present that worker can finish between the supervisor's
check for a result and its write, and its complete result is overwritten with
`cell-timeout`, or archived; `CompleteKept` without `sup.overtaken` fails so.
Recording the failure before releasing the claims would leave no such window.

`LinkQualification`: qualifiers link, audit and strip one image per cell, keep a
report and seal it; a validation run is admitted by the seal, hard-links the
images and prepares the folds it could not take.  An image is the number of the
link that made it.  Qualifiers have no lock: `overlapped` remembers that two
worked at once, and the properties except it.  An image torn by a power loss
under a flushed marker is never linked again.  `RecipeQualification` has no lock
either (`recipeOverlap`).  Its inputs are a content, not a revision: an edit may
bring back what was there before, which the digests of the code cannot tell from
no edit at all (`editedAway`).

`LinkedRetrofit` and `MatchingCampaign` are supervised runs under a lock whose
workers are sessions of their own (`survived`: workers that outlived a
supervisor).  `MatchingCampaign` shares summaries between a canary and a full
run and adds the schedule that chains them; a campaign that names no reference
(`Legacy`) takes over the summaries of its earlier texts (`SameText`).
`HashEvidence` has three kinds of analysts of which only one takes a
lock, an index that is one SQLite database, and files renamed into place.

### Records

`FidScoring` keeps what the winners depend on (chunks, culling, devices,
provenance) with integer scores.  `WidthRun` is the process pool that one dying
process breaks, `LaneDatabase` the generations linked into place, whose ledgers
are first digested and then opened again (`CheckLedger`, `ReadLedger`), `Ecological`
the case document that every writer rewrites whole, `ControlPanel` the requests
that resolve the active campaign anew for each path they need.

### Maintenance

`Retention` reads the holds, then the ledger, then the disk, while all of them
change; a plan is its content.  `DatabaseExport` keeps of the ledger only which
population it is at; a build reads it twice, and the receipt of the safeguard
four times: when it inspects, when it verifies, for the checksums and for tar.
`Toolchains` keeps of a stored thing what it was computed from; of
`SourceAcquisition`'s locks, the metadata they were resolved from.

### MC modules that hold several parts

Components that share no variable are checked side by side in one run:
`MCCampaigns`, `MCRecords`, `MCMaintenance` and `MCLive` have a variable `part`,
chosen in the initial state; `Only(p)` lets a part's actions run in its states
while the other parts rest in their initial states.  The state space is the
disjoint union of those of the parts, nothing interacts that does not interact
in the code.  Properties of one part are guarded by `part` where TLC would
otherwise evaluate them at length in the states of another.  Symmetry is used in
`MCRecords`, over workers that are alike (`MCSymmetry`).

## 3. Runs

| run | question | bounds |
|---|---|---|
| `ledger` | Do jobs, attempts and spans agree, is evidence kept, is complete final, and is the coordinator a `JobLease`, under every operation in every order? | 1 job, 3 generations, 2 stages, 2 spans over all attempts, every failure class, lease of 2 ticks, backoff of 1 |
| `service` | Do jobs settle and blocks close? | 2 blocks of one job, 1 slot, 3 generations |
| `remote` | Is a remote result durable, does no staging come back, do jobs settle? | 1 job, 2 clients, 2 attempts, 1 fault |
| `live` | Does the queue drain, does the upload loop end, with whole artifacts only? | worker: 2 workers, 2 blocks, 1 span, 1 fault; upload: 5 bytes in chunks of 2, 3 crashes |
| `campaigns` | Service limits; validation, link qualification and hash evidence; retrofit; matching; pipeline, cells and recipes | service: 3 blocks, 4 jobs (one blocked), 2 slots, threshold 2; validation: 2 positions, 2 slots, 2 supervisors, 1 fault, 1 restart; retrofit: 2 tasks, 2 slots, 3 pids; matching: 2 cases, 2 runners, one edit of the authority to either of two, 1 kill; pipeline: 2 libraries x 2 groups, 3 runs, 1 kill; cells: 5 kinds, 2 processes, 2 reviews, 1 kill; links: 2 cells in batches of one, 2 qualifiers, 4 links, 2 admissions, 1 kill, 1 power loss; recipes: 2 cells, 2 runners, 2 contents, 2 edits, 2 starts, 1 kill; hashes: 3 runs, 3 analysts, 2 analyses, 1 kill |
| `records` | Attempts, windows, control panel, ecological cases, scoring, width runs, lane databases | worker: 1 job, 2 workers, 3 attempts, 2 spans, 2 faults; window: three hours around midnight, six schedules, 1 fault; panel: 2 campaigns, 2 clients, 1 switch, 2 commits; ecological: 2 cases, 2 starters, 2 analysts, 1 kill; scoring: 2 functions, 2 candidates, 2 indexes, all populations of four inputs, chunks of 1 and 3; width: 2 cells, 2 processes, 2 replays, 1 fault; lanes: 3 cells, 2 compilers, 1 compactor, one edit, one spoiled ledger, one removal, 1 kill |
| `maintenance` | Plan refreshes, retention, export, toolchains, sources | refresh: 2 generations of one work plus another batch whose job waits for a worker of another pool, 1 attempt; retention: 1 job, 2 attempts, 1 hold, 2 collectors, 1 accident; export: 2 populations, 1 package, 1 kill; toolchains: 2 operators, 1 review, 1 fault; sources: 2 locks, 2 candidates, 2 pullers, 2 fetches, 1 loss |
| `lookahead_primary`, `quarantine_terminal` | findings 1 and 2 (violations) | as refresh |
| `interrupted_resumable` | finding 3 (violation) | 1 supervisor, 1 fault |
| `nothing_pending` | finding 4 (violation) | 1 runner, 1 matcher, 2 cases |
| `own_run_pruned` | finding 5 (violation) | 1 run, 1 collector |

Why the bounds are enough to be interesting: three generations let a first
holder report while the third attempt runs; two spans let a stage be reported
again after it ended, or one attempt's span be open while another's is closed;
two jobs of equal authority and a configuration without their batch give every
transition a plan refresh has (replace, drop, return); three blocks let one be
promoted while the next is admitted and a blocked row is skipped; five bytes in
chunks of two have a first, a middle and a short last chunk.  In the campaigns
two units of work let one be done while the other is not, two actors let one act
on what the other changed, one kill leaves files for one resumption, and one
review or edit separates what was read before from what is read after; two
edits of the recipes let a content come back.  Of the two authorities that a
matching campaign may be edited to, one names a reference and one does not, so
that its summaries are taken over or are not.  A third pipeline run finds what
was left by a second one that was killed while it removed the first one's
databases.  One package is enough for a safeguard to cross its build at every
step: two populations make the receipts differ.  Two
faults in a worker's life let a kill follow a lost heartbeat.  Chunks of three
rows hold two candidates' rows of different indexes, so that equal inputs meet
within a chunk and across two.  For the properties of section 5's table the
proofs remove the bounds altogether.

Two constraints cut the exploration at states the properties except:
`MCBound` (a run resumed beside orphaned validation workers, retrofit workers
that survived their supervisor, two qualifiers or two recipe runs at work at
once) and `MCRecordsBound` (a control-panel answer that crossed a change of the
selection).  The states themselves are reached and examined; only what follows
them is not.

Deadlock checking is off where the modelled system really stops: a drained
queue, a campaign or command that is over.

### Fairness

- `ServiceFairness`: workers poll, the clock advances, blocks are polled for.
  Nothing obliges a worker to report.  `<>[][~RenewStep]_vars` says that no
  lease is renewed for ever: external commands of an execution run under
  timeouts (`pipeline.py` 1800 and 3600 s, `source_build.py` 2400 and 3000 s)
  and window mode has a hard cutoff.  An analysis that hangs inside the Ghidra
  process in block mode contradicts the assumption: its heartbeat renews for
  ever and the block never closes; it is a hazard without a
  property; `src/dev_notes.md:8-24` names the missing hard timeout as future
  work.
- `WorkerFairness`: a running worker takes its next step.  systemd restarts a
  worker that a signal killed and starts all after a boot
  (`Restart=on-abnormal`); one that exited by itself, after SIGTERM or with
  status 1, stays stopped.  Therefore `live` has fewer faults than workers: with
  as many, all workers may have stopped.
- `UploadFairness`: a request that was sent is handled or times out.
- `FairRemoteSpec`: the remote services are started again (`Restart=always`),
  handler threads run to their end, and so does an attempt.
- `LiveSpec` restates `WorkerFairness` and `UploadFairness`, each in the states
  of its part.

## 4. Properties

*Ledger.*  `LedgerConsistent` (JobRow's `RowInv` for every row): a row is live
exactly when the attempt of its generation is, in the same state, and every
older attempt has ended (`LeaseMatchesAttempt`); lease columns are set only while
the job is live (`LeaseColumns`); a job is complete exactly when its newest
attempt is, and no other attempt ever was (`OneSuccess`); an open span is the
newest span of the newest attempt of a running job and its current stage
(`SpanDiscipline`); a blocked row is never executed (`NeverAttempted`).
`EvidencePreserved`: no step changes an ended attempt or a closed span.
`CompleteIsFinal`.  `ImplementsJobLease`.  `OneJobPerAuthority`, `BlocksListed`,
`RefreshKeepsOutcome` for plan refreshes.  `ServiceLimits` (worker limit, retry
cap, circuit breaker), `BlocksInOrder`, `JobsSettle`, `BlocksClose` for the
unattended queue.

*Workers.*  `AttemptsSound`: work is taken from admitted blocks, a generation's
directory is fresh, a result is on disk for good before the ledger says
complete.  `WorkSettles`.  `WindowHolds`: windows are those of the schedule,
nothing is claimed outside them or runs past the cutoff, and the outbox keeps
whole lines.  `RemoteResultDurable`, `NoStagingLeft`, `RemoteSettles`.
`UploadExact` (an artifact appears only whole, a replay is never refused),
`UploadEnds`.

*Building.*  `OutputsTrue`: a manifest's complete cells have their databases and
objects, of the same run, and no others do (databases that a new run has begun
to remove may be missing); a seal pins what was queued and built.

*Campaigns.*  `RunControlled` (one worker per position, a stopped run has no
workers, nothing is stranded) and `CompleteKept` for a validation run.
`QualificationsTrue`: a sealed link qualification is true of the images it
names, a validation run takes no other images, a batch is promoted only as it was
built (unless its inputs were edited under a run and brought back) and evidence of
failures is kept, and a hash report stands on a batch of
its run that the index holds.  `HashesTrue`: the index's running totals are those
of a recount over the runs it names, none of them twice.  `SealsHold`: a
generation is sealed with all its tasks, no worker is stopped for a task that an
earlier worker left.  `MatchingHolds`: a report counts summaries of its own
method and, if its campaign names a reference, of its own campaign, and names the
evidence in place.

*Records.*  `PanelTrue`, `EcologicalHolds`, `ScoringHolds` (whatever engine,
chunking, order and device, the winners are all winners, with every index that
supplied them), `WidthHolds`, `LanesHold` (a generation holds every row of its
source and no other; of a ledger changed between digest and reading, as many).

*Maintenance.*  `CollectionSafe` (only what the plan may take, after its evidence
is in a bundle), `HoldsWin` (nothing goes that was held when the apply took its
lock), `StoresSound` (a package is of a safeguarded population; the receipt in it
is the one that was verified, listed and named, and its snapshot holds that
population, unless a safeguard crossed the build; tools that resolve are those of
the authority and binding in force, and were qualified), `RecordsKept` (a receipt loses nothing).

The exceptions each property makes are in its comment and among the hazards; a
history variable carries each (`sup.overtaken`, `orphaned`, `overlapped`,
`crossed`, `clearing`, `editedAway`, `slipped`, ...).  Each property has a mutant:
a change of a mapped definition a real slip would make, under which TLC finds the
property violated.

### Findings

1. **Look-ahead without a primary** (`coordinator.py:1130`).  `sync_queue`
   clears the two admissions independently.  If the new configuration drops the
   primary's batch and keeps the look-ahead's, the queue is left with a
   look-ahead and no primary, which `start_next_block` calls impossible
   (`coordinator.py:1521-1524`) and refuses; nothing but another synchronization
   that drops that batch too leads out.
2. **Quarantined jobs are requeued** (`coordinator.py:2954`).
   `requeue_failed_batch` takes every failed job of the batch, also those under
   an active pathological quarantine, although the notes say that such a job
   fails terminally and is released only with an exact count and a rationale
   (`src/dev_notes.md:13-20`).
3. **An interrupted validation run that cannot be resumed**
   (`machine_validation_runner.py:2862`).  `resume_validation` wants fewer complete
   than expected units.  A child that ends before its first status leaves
   `expected_work_units` 0, and a supervisor killed during post-processing leaves
   all units complete: both read as `interrupted`, which
   `src/validation/README.md:209-211` says can be resumed explicitly, and both are
   refused; `start_validation` refuses them too.
4. **A finished campaign that is never published**
   (`fid_matching_campaign.py:1266`).  Without a report, `campaign_status`
   aggregates the case summaries and `scheduled_campaign` (`1731`) takes
   `measured-complete` for the end.  A full run that ends after its last case and
   before its report leaves the schedule at `nothing-pending` for ever, without
   the `full-hash-evidence.sqlite3` that `src/validation/README.md:347` describes.
5. **A run's own composites are not pruned**
   (`machine_validation_runner.py:2445`).  The run says `retaining` while it
   triggers the collection, and the collector counts only `complete` runs
   (`retention.py:841-847`): what `src/validation/README.md:269` says is pruned
   once truth is sealed stays until a later collection.

Observations on the way, within what the documents promise: link qualifiers and
recipe runs take no lock, and two at once mix their reports; toolchain
directories are renamed into place without a flush; a snapshot that crosses a
change of campaign is cached under the wrong campaign; two first hash analyses
at once replace each other's index; two pulls of one lock lose records.

Five more concern what is read twice, and each is an exception of a property:

- A hold added after `compile_retention_plan` has read `holds.toml`
  (`retention.py:1259`), before it reads the ledger and scans the disk, is not
  seen by the apply under way, although `src/docs/operations/retention.md:28`
  says that operator holds always win.
- `build_export` reads the safeguard's receipt again after it has verified it,
  for the checksums and for tar (`database_export.py:1021-1037`, `1060`), and
  names in `release.toml` (`1004`) the population it inspected before: a
  safeguard completed during a build leaves a package whose receipt is of another
  population, or is not the one its checksums list, where
  `src/docs/operations/export.md:38` says that the receipt binds the package to
  its population.
- A pipeline run that is killed while it removes the databases of the run before
  leaves a manifest that names complete cells without databases
  (`pipeline.py:1839-1841`); with the manifest removed first it would not.
- Recipes that are edited during a qualification and brought back: cells that
  began in between were built of the other content
  (`recipe_qualification.py:338`), and their rows are promoted, because only the
  digests at the start and at the status are compared (`413-421`, `532-541`).
- A signature ledger that is changed between its digest
  (`lane_compiler.py:250`) and its reading (`253-290`) enters the lane database
  if it has as many rows.

And one of what is not compared: the default matching campaign, which names no
reference, takes over summaries made under an earlier text of the campaign
(`fid_matching_campaign.py:655-658`).

## 5. Proofs

The theorems hold for every value of the constants that satisfies the named
assumptions of the modules (`JobAssumption`, `RemoteAssumption`, ...), which TLC
evaluates for the instances.  They say of a constant only what the code fixes:
stages, slots and revisions are finite lists; a placeholder (`Nothing`,
`NoFileYet`) is not one of the things it stands in for; a bound is a natural
number.

| module | theorems | say |
|---|---|---|
| `CoordinatorProofs` | `TypeCorrect`, `LedgerSafe`, `EvidenceSafe`, `CompletionSafe`; `OneJobSafe`, `BlocksListedSafe`, `RefreshSafe` | `TypeOK`, `LedgerConsistent`, `EvidencePreserved`, `CompleteIsFinal`; the properties of plan refreshes |
| `ServiceProofs` | `ServiceLimitsSafe`, `BlocksInOrderSafe`, `SettledStaysSafe`; `Refinement` | `ServiceLimits`, `BlocksInOrder`; a settled job is never opened again; `ImplementsJobLease` |
| `UploadProofs` | `UploadSafe` | `UploadExact` |
| `RemoteProofs` | `RemoteTypeSafe`, `DurableSafe`, `StagingSafe` | `RemoteTypeOK`, `RemoteResultDurable`, `NoStagingLeft` |
| `MaintenanceProofs` | `CollectionIsSafe`, `HoldsAlwaysWin`, `RetentionTyped` | `CollectionSafe`, `HoldsWin`; one bundle for a failure, one collector in the lock |
| | `PackageSafe`, `ToolsSafe`, `StoresAreSound`, `RecordsKeptSafe`, `MaintenanceTyped` | `StoresSound` and its two parts, `RecordsKept`, `MaintenanceTypeOK` |
| `CampaignProofs` | `RetrofitSafe`, `PipelineSafe`, `CellsSafe`, `OutputsSafe`, `RecipesSafe`, `QualificationsSafe` | `SealsHold`, `OutputsTrue`, `QualificationsTrue`, and their parts for each campaign |
| | `MatchingSound`, `MatchingSafe` | `MatchingHolds`, and matching by itself |
| | `RetrofitTypeSafe`, `MatchingTyped`, `PipelineTyped`, `CellsTyped`, `RecipesTyped`, `CampaignsTyped` | `CampaignsTypeOK`, and its parts for each campaign |
| `ValidationProofs` | `ValidationInvariant`, `ValidationTypeCorrect`, `ValidationRunControlled`, `ValidationCompleteKept` | `ValidationTypeOK`, `RunControlled`, `CompleteKept` |
| | `LinksSafe`, `LinksTypeSafe` | `LinksTrue`, `LinkTypeOK` |
| | `ReportsBacked`, `RunsStayApart`, `EvidenceTyped` | `ReportBacked`, `RunsApart` (the part of `HashesTrue` without totals), `HashTypeOK` |
| `RecordsProofs` | `WorkersServe`, `AttemptsSafe` | local workers refine the unattended queue; `AttemptsSound` |
| | `LanesSafe`, `CasesSafe`, `WidthSafe`, `WindowsSafe`, `PanelSafe` | `LanesHold`, `EcologicalHolds`, `WidthHolds`, `WindowHolds`, `PanelTrue` |
| | `ScoringSafe` | `ScoringHolds` |
| | `RecordsTyped` | `RecordsTypeOK` |

**Ledger.**  `LedgerConsistent` is a conjunction over rows, so it is proved row by
row.  The first part of `CoordinatorProofs` shows for each SQL statement modelled
in `JobRow` (grant, extend, start/skip/end a span, finish, abandon, expire,
isolate, reopen, interrupt, age) that from a row that is `Sound` (well typed and
`RowInv`) and satisfies the statement's guard it makes a `Sound` row and keeps its
evidence.  Its second part has one step per action: which rows it changes, by
which operator, after which recovery; each such step is a `SoundStep`.
`Inv == TypeOK /\ LedgerConsistent` is inductive as it stands, because `RowInv`
was written with the parts that induction needs: that a row has as many attempts
as its generation says, and that only the newest of them can be open.  A fenced
write compares generations; it is harmless only because the row's generation is
its newest attempt, which is `LeaseMatchesAttempt`.

`RefreshInv == Inv /\ OneJobPerAuthority /\ BlocksListed`.  Every action but
`SyncQueue` leaves the active flags and the batches alone; `SelectedOnce` shows
that a synchronization selects one job for each piece of work, from
`ConfigAssumption` (a configuration lists no work twice) and the check for
ambiguous evidence; a carried job lies in a listed batch because equal authority
includes an equal batch (`AuthorityAssumption`).

The last part of `ServiceProofs` maps a row to the status, token and results of `JobLease`,
classifies the moves of the rows in one step (`LeaseMove`: one job granted or
accepted while others lapse, or, with no job live, an operator's
reassignment), and shows each of them to be an abstract step or a stutter.

**Service.**  `ServiceInv` adds to `Inv` that every row is within its attempts, a
leased row has no failure class, and nothing is there before the
synchronization.  Two facts carry it.  After the synchronization no action of the
unattended queue opens a settled row (`SettledStays`), so what is left of a block
only shrinks and an admission that was right stays right.  And a lease that
expires brings no failure class with it, so only `fail` adds to what the circuit
breaker counts, and `fail` asks it.

**Local workers.**  Every step of a worker is a step of the service or leaves the
ledger alone (`WorkersServe`: `WorkerSpec => ServiceSpec`), so all of the above
holds under them.  `WorkerInv` adds three facts.  A batch that a worker has once
seen admitted is admitted still or has nothing left to claim, because an
unattended queue opens no job again: a claim filtered by an old block document
takes work of an open block or none.  A lease names its attempt directory alone:
no two workers hold it, and no directory is there before its generation is.  And
where a worker is in `_execute_claim` says how far its directory is; a power
loss moves both back.

**Uploads.**  `FilesMatch` says what the partial file, the metadata and the
destination hold at each step of the handler; `Calm`, what is true while nothing
has crashed and no file was changed behind the protocol: every request still in
the network fits the prefix that is there.  A replay is therefore never refused.

**Remote results.**  `RemoteInv` adds a protocol of clients and calls
(`OneWait`: a client waits for one call only; `LeasesApart`: a lease has one
holder, and what a client has yet to do with it no late call of its past is
doing), which no step of the coordinator touches, and where a call has left the
files at each of its steps.  A late call can do no harm because its generation is
at most the job's (`LeasesKnown`) and the ledger's proofs say that a complete
generation stays.

**Retention.**  A collector works from rows it read before.  The invariant is that
what they say of an ended attempt is still so (`RowsOld`, from the ledger: ended
evidence never changes), hence an action that was sound when planned is sound for
good (`ActionSound`); that a plan has one bundle for a job (`OneBundle`); and that
what is being removed is in a bundle by then (`CollectorSound`).  Holds are only
added, so those that were there when the lock was taken are among those that are
read after it (`promised`), and a plan takes nothing held (`CurrentUnheld`).

**Stores.**  `ExportInv`: what the safeguard and the build rely on at each step
about the snapshot and the package they write; the receipt that a build has read
first was true when it was written (`TrueReceipt`) and is in force still, unless a
safeguard crossed the build (`BuildStands`).  `ToolsInv`: every composed or
qualified thing is computed from its own digest's route and input, and a command
past verification has a payload that is its pack's.  `AcquisitionInv`: what a
pull has on record was verified, and contains what the lock's receipt says.

**Campaigns.**  `RetrofitInv`: a live worker is the process of its slot and works
on its slot's chunk, unless it outlived its supervisor (chunks are disjoint, so
workers are); a worker that is sealing has its outputs; outputs and valid seals
only grow, so a sealed generation stays sealed.  The pids of a run number its
slots without repetition because a sequence that is as long as the finite set it
covers is injective (`NumberedOnce`).  `PipelineInv`: one fact for each cell by
how far the phase has come; `FirstIsThere` shows that the next cell of a phase is
one of those left, from the least element of a set of naturals; `BuildsFit`: from the
removal of the manifest until it is written there is none, which is why databases
may come and go in between.  `CellInv`: an
attempt past its resolution has built what it pins, or a review came between.
`RecipeInv`: what a row is built of is what its report is of, or the report's
content was edited while a run of it was on (`OfReport`); so in a report of the
present inputs, if these were not, it is of the present inputs.
`LinkInv`: a marker, once there, names an audited image and is never replaced; a
thread that makes an image makes one that no marker names and no other thread
makes; one qualifier at most is at work; a qualified row is the marker of its
fold.  The last two are invariants of the runs that did not overlap, which is
what the properties are stated for.  `CampaignsAre` carries all of them to the
composition: its steps are steps of one campaign and stutter for the others.

The types say more than where a variable lies, and need facts of their own:
a group, a run and the counts of a cell stay within the plan (`CountsFit`);
attempts are numbered as they begin, so that no more are sealed than were begun
(`NumbersFit`); a result lies in a directory that is there, and only a run that
is on builds (`DirectoriesFit`); a fold's files are images that were linked or
torn, and the threads of a qualifier that is not on are idle unless two
overlapped (`FoldsAre`, `ThreadsAre`, `ReportsAre`).

**Function matching.**  `MatchFits`: of the cases that a run expects, each that
counts as qualified agrees with the run's authority (`SameText`), is still ahead of
a worker of the run, or a worker died, and then the report is not clean (`CasesCovered`).  The chunks
that `BalancedChunks` deals out hold every case and no case twice (`ChunksFit`), so
when a run ends clean with no case ahead, all agree with its authority.  What a
finished clean report counted stays in force: a case is matched again only when
its summary does not agree with the authority in force, and while that authority
is in force it does (`InForceFits`).  The newest report is the one that a
status names because a finite set of numbers has a greatest element
(`FiniteMax`).

**Hash evidence.**  Analyses are numbered as they begin.  `EvidenceInv`: a file
carries the number of the analysis that wrote it and the source which that
analysis read, so what an analysis finds under its own number is what it wrote,
and an index opened on another's file puts the run in `mixed`.  The index only
grows (`IndexGrows`), unless a first index is installed over another, which
`overwritten` keeps; hence a batch that a report names is there for good.  An
analysis that is past the index holds the ordinal of a batch of its run
(`RowBacked`).  `ApartInv`: the batches of the index, and of every first index
that is still to be installed, are of different runs without a common owner,
because the transaction looks for both again; as many runs as batches then follow
from an injection (`ApartRuns`).

**Validation runs.**  `ValidationInv` has three facts about claims, commands and
positions.  A worker at work on a position signed the claim that is there, and
only its own supervisor takes it away, after it stopped the worker (`ClaimFits`);
signed claims name their worker, so two workers never run one position.  The
status names the supervisor from its first write to its last and is active as
long as there are workers, so a command, which asks for an inactive run, finds no
supervisor, and a run reported stopped has no worker (`OperatorFits`).  Every
position has, once workers were started and until the report, a result or
somebody still to see to it: a worker that has it ahead, a worker that ended and
is not yet disposed of, a claim nobody signed, or a worker out of restarts
(`Covered`).  A claim left by a worker that ended is one of a worker not yet
disposed of (`CrewWorkFits`), which is why the removal of its claims loses no
position.  The last two are about runs that no worker outlived, as the properties
are; the first is about every run.  `CompleteKept` adds that a worker at its cell
has found no complete result there since it signed, and that a supervisor's write
over one is in `sup.overtaken`.

**Lane databases.**  `LaneInv` ties what a compiler has written to the cells it
has ingested, with the rows of each or, of a ledger that slipped, as many others
(`BuilderFits`, `RowsOfCells`), and what it plans to the registry that it names,
unless the registry was edited; a compactor that has copied holds the rows of the
raw database whose digest it took, or that database is gone and cannot be the one
it finds at the end unless it was built again meanwhile (`CompactorFits`).

**Ecological cases.**  The lock file is there while an analyst is past it, and no
two are (`LockFits`).  Each case that is queued or running has a starter or an
analyst that will still write it, or one of three things happened to it that the
property excuses (`CasesTended`).

**Width runs.**  A process executes a cell whose future runs (`FuturesFit`); what
is collected of a replay is the manifest on disk, and later replays write to
other directories (`ManifestsFit`).  A run is measured complete when it counts as
many complete cells as there are cells of all replays: then all are complete,
because a subset as large as its finite set is the set (`AllComplete`).

**Windows.**  `SchedulePolicy.evaluate` looks at the windows of yesterday and today
and for the next one at nine days; `ScheduleFacts` shows that this says the same as
looking at all dates.  A window opens on its day and closes by the end of the next
(`WindowSpan`), so no other date is open (`OpenDates`), and a later date starts
later (`LaterStart`).  The days are of any length: multiplication by it is kept in
two lemmas (`DaysApart`, `DaysLater`).  `WindowInv` adds that a claim under a cutoff
has its alarm armed or the signal pending for as long as it is executed
(`TimedFits`), and that each part of a notice that was cut short is on the open
line or on a spoiled one, and that the holder of the outbox lock wrote the last of
that line (`OutboxFits`).

**Scoring.**  The winners of a query are kept by culling after each chunk, on
whichever device is in use.  `ScoreInv`: what is kept of a stream are the winners
of the rows culled so far, and rows that were read and not culled wait in the
chunk; so the end of a stream has the winners of all its rows.  The winners of two
sets together are those of the winners of each (`MaxOfBounded`, from the greatest
element of a bounded set), so neither the size of the chunks nor the change from
the GPU to the processor in the middle of a stream makes a difference; the devices
that a decision names are those that culled for it.

**Control panel.**  `SnapshotsFit`: what a request has read lies between the commits
of one ledger, in the order in which it read it, so that a projection whose first
and last reading agree with the generation is one state.  `SelectionFits`: while a
selection is being replaced, no campaign is armed or at work; nobody can begin
work on such a ledger but by a synchronization, which the property excuses when
it meets the change.

**What the attempts showed.**  The collector as first modelled chose among the
actions of one kind in any order and could begin one and go on with another,
which `RetentionInv` did not survive: the code finishes an action before the
next, and so does the model now.  The set of payloads in
`SourceAcquisition` did not leave out the mark of an unresolved candidate, as it
was meant to; the typing of its cache failed on it.  The properties of the
campaigns and stores had been stated for their own part only; their proofs need
no such guard, and it is gone.  `ValidationRun` kept lists of
positions as sequences cut from the queue; they are kept now as the sets of their
turns, whose order is the queue's, with the foremost of them for the head.
`CompactExact` was false of more compilers than the run has: a raw database is
digested, removed, replaced by another of as many rows, which is copied, removed
again, and the first one built anew with the digest it had, for nothing in it
depends on when it is built (`deduplicate_lane_db.py:282, 294, 352`).  The
history variable `returned` keeps what was published again under a compactor, and
the property excuses it.  A lane with no occurrence passed as frozen in the model;
the code refuses it (`lane_database.py:509`), and so does the model now.
`LinkTypeOK` said that a link qualifier that is not on has no thread at work.  That is
false of overlapped runs: a qualifier killed and started again may end while a
thread left by the run before it goes on, and completes a row for a run that is
not on (`LinkTypeOK` excepts `overlapped` now, as the other properties do).  The
bound of `ReviseSource` was a sum over all runs, a fold that no proof can open; it
counts the runs that were revised, and how often each, now.  The largest-first
dealing of cases and the culling of scored rows were folds, and so out of reach:
`BalancedChunks` says now of every case that it goes to the worker with the least
load when its turn comes, and `Cull` takes a chunk's winners at once.

**Only model-checked.**  Every liveness property: fairness and ENABLED are out of
the prover's reach.  And the running totals of `HashesTrue`: they are sums over
runs and signatures (`MapThenSumSet`), and what a fold computes for every set
needs induction over data.  That the index counts each run once, which the totals
rest on, is proved (`RunsStayApart`).

## 6. Plan

Proofs: every safety property that the runs check is proved but for the totals of
`HashesTrue`, which stay with TLC.

To model: the canary run of a validation and its gate; the qualification of match
backends; the operators of planning (the chunking of `auto_batch_builder.py`, the
estimates of `batch_time_model.py`); stage reports of remote jobs; an instance for
the liveness of a validation run (a supervisor that is not killed ends).

## 7. Not modelled

- The hunt workflow, the command line and the configuration loaders: sequential,
  without shared state.
- The control panel's web interface: it polls the API and keeps nothing.
- Compilation of TOML authorities into plans, catalogues, recipe generation: pure
  functions of reviewed files.
- What compilers, archivers and Ghidra compute, ELF parsing, float arithmetic of
  scores.
- Read-only reports: coverage, discrimination, quality metrics, incident reports,
  inventories of bytes.
- Authentication, rate limits, time zones, power losses of stores that are not
  flushed.

Each part of `PROJECT.json`'s `components` says what of it is left out.
