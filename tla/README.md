# Verification of Rancher Runway

TLA+ models of the program in `src/`, TLC runs that check them on small
instances, and TLAPS proofs for every value of the constants.

Rancher Runway is a local control panel (a Go HTTP server inside a Wails
desktop app) that sets up, checks and destroys Rancher clusters on AWS and
Linode. The panel itself never talks to Terraform: it starts a *lifecycle
worker*, a `go test` binary, as a child process for each operation, follows it,
and keeps *run records* that name the infrastructure it is responsible for.
Around that core it keeps local labs, installs its own runtime, plans which
charts and images to install, searches and judges images, and has a sign-off
automation that runs in CI.

Two kinds of things can go wrong. The panel loses track: of infrastructure, of
a worker, of an operation, of a record, of saved state, while goroutines,
processes, polls and restarts interleave. Or it *says or chooses something
wrong*, because registries, charts and tags answer partly, fail, or move
between two lookups.

## Inventory

Paths are relative to `src/`; `cp_*` stands for `terratest/control_panel_*`.

| Component | State | Operations | Interacts through |
|---|---|---|---|
| Lifecycle engine (`cp_lifecycle.go`, `control_panel.go`) | operation table under `p.mu` (running, pid, run id, output), persisted to `lifecycle-state.json` | start of setup, readiness, downstream provisioning, cleanup; goroutine per command; stop; poll; restart | spawns workers, updates run records, feeds the batch |
| Cleanup batch (`cp_cleanup_batch.go`) | batch entry of the table, the batch goroutine | start, item loop, cancel, accounting | starts cleanups as children, waits on their completion channel |
| Run records (`cp_run.go`) | one JSON file per run, `current-run.json`, no lock | create, status update, downstream update, remove, list | called by handlers, goroutines, polls |
| Workers (`ha_test.go`, `cluster_setup.go`, `downstream_linode_*.go`, `hosted_tenant_*.go`, `linode_docker.go`) | Terraform state, downstream records, cloud | provision, install, import, add downstreams, delete, destroy | environment from the panel, exit status back |
| Panel session (`cp_session.go`) | `panel-session.json` | start, reuse, forget, end | refuses to stop while an operation runs |
| K3D Lab, Steve Lab (`k3d_lab.go`, `steve_lab.go`) | lab records, local clusters and endpoints, port pool | create, start, stop, delete, replace, clean up | entries of their own in the operation table |
| Desktop runtime (`desktop/wails/runtime_manager.go`) | installed runtimes, managed workspace | stage, activate, migrate, recover, put off | reads `lifecycle-state.json` and lab records |
| Lookup cache (`release_lookup_cache.go`) | `release-lookup-cache.json` | look up, remember, fall back | shared by panel and worker processes |
| Version planner (`rancher_plan.go`, `rancher_image_registry.go`) | pins and failed repositories of one resolution | resolve versions, charts, images | setup worker, sign-off |
| Image lookup, PR verifier (`image_lookup.go`, `pr_build_verifier.go`) | answers of one request | list, rank, inspect, compare | UI; the planner for pairs |
| Cost ledger, inventory (`cost_ledger.go`, `aws_inventory.go`) | append-only ledger | append, summarise | cleanup |
| Sign-off automation (`automation/*`, `.github/workflows/*`) | ledger, lane runs of CI | resolve, plan, dispatch, validate, record, merge | planner, workflows |
| Setup editors (`interactive_setup.go`, `rancher_preflight_editor.go`) | dialogue, `tool-config.yml` | edit, save | setup |
| Preflight, readiness, cluster views, UI, Terraform modules, packaging | none of their own | | |

What makes each correct, and what makes it hard:

- **Lifecycle engine.** Conflicting workers never run together; every operation
  ends; a status in a record was earned by the worker that did the work; the
  panel never forgets infrastructure. Hard because an operation is spread over
  a critical section, a goroutine, a process and a later record update, and
  because a restart keeps the process and loses the goroutine.
- **Cleanup batch.** It owns the table while it runs, counts each run once,
  stops when told, always ends. Hard because a stop can come before the child
  has a pid, and the child reports over a channel.
- **Run records.** Updates of different runs do not disturb each other, readers
  find whole records. Hard because the record functions take no lock of their
  own, each updates two files, `os.WriteFile` truncates first, and *listing*
  writes too.
- **Workers.** What they create is on record from before it exists until after
  it is gone; a Rancher is destroyed after the downstreams it manages; a setup
  that succeeded is complete on every instance. Hard because a worker can be
  killed between any two steps, destroys stop halfway, and the goroutines of a
  setup share one error variable.
- **Labs.** A cluster on the machine is listed; an entry is given back; a
  record does not go on naming a dead process. Hard because one entry covers
  several commands, so it can look stale while its action runs, and because
  goroutine, watcher and requests write back copies of a record.
- **Desktop runtime.** State that a worker saved survives every upgrade,
  failure and death; a workspace in use is not moved. Hard because an upgrade
  is a sequence of renames.
- **Session, cache.** One panel serves; entries are kept. Hard because the files
  are shared between processes and the checks are not atomic with the writes.
- **Planner, search, verdicts, sign-off.** What is installed exists and is one
  build of what was asked; a list, rank or verdict does not claim more than was
  seen; a lane is neither repeated nor left out without having passed. Hard
  because each answer takes many lookups that fail separately, while heads are
  published and tags move.

Everything in the code that is hard to test is in `PROJECT.json` under
`hazards`, each with its line and the properties that cover it, or a note.

## Modules

| Module | What it is | Code |
|---|---|---|
| `PanelLifecycle` | engine, batch, records as atomic operations, workers by phase, restart | `cp_lifecycle.go`, `cp_cleanup_batch.go`, `control_panel.go`, `cp_run.go` |
| `PanelInvariant` | the inductive invariant, and the mapping to `RunSlots` | |
| `RunSlots` | abstract specification: what the panel promises about its slots | |
| `RunRecordFiles` | the record operations as sequences of file steps | `cp_run.go` |
| `RunWorkers` | the steps inside the workers of one run | `cluster_setup.go`, `ha_test.go`, `hosted_tenant_lifecycle_test.go`, `downstream_linode_lifecycle_test.go`, `downstream_records.go`, `linode_docker.go`, `cost_ledger.go` |
| `LocalLabs` | both labs: entries, tasks, records, clusters, endpoints, watchers, ports | `k3d_lab.go`, `steve_lab.go`, `filesystem.go` |
| `RuntimeInstall` | installation, workspace swap, migration, recovery | `desktop/wails/runtime_manager.go`, `app.go` |
| `LookupCache` | the cache file, its temporary file, the mutex of each process | `release_lookup_cache.go` |
| `PanelSession` | the session file and the panels that start, reuse and end | `cp_session.go`, `control_panel.go` |
| `ImagePairs` | versions, label validators, preferred pair, bundle of a patch; `registry`, which gains images | `rancher_image_registry.go`, `image_lookup.go`, `rancher_plan.go` |
| `RancherPlan` | the planner's auto mode, one plan per HA | `rancher_plan.go`, `rancher_image_registry.go` |
| `ImageLookup` | options, bounded scans, ranking | `image_lookup.go` |
| `ImageEvidence` | PR verdict, build.yaml of an image and of its source | `pr_build_verifier.go`, `image_lookup.go` |
| `SignoffRules` | pure decisions of the sign-off tools | `automation/signoff-plan/main.go` |
| `Signoff` | resolution, dispatch, lane runs | `automation/signoff-plan/main.go`, `signoff-plan.yml`, `validate-resolved-rancher-version.sh` |
| `SignoffLedger` | planning by hand with the ledger, recording | `automation/signoff-plan/main.go` |
| `MCPanelLifecycle`, `MCRunRecordFiles`, `MCLocalLabs`, `MCServices`, `MCSignoff`, `MCImages` | instances for TLC | |
| `PanelLifecycle_proofs`, `PanelBatch_proofs` | proofs about `PanelLifecycle`: the invariant; the refinement, the batch, the statuses | |
| `Services_proofs` | proofs about `PanelSession`, `LookupCache` and `RuntimeInstall` | |
| `Images_proofs` | proofs about `ImageEvidence`, `ImageLookup` and `RancherPlan` | |
| `Signoff_proofs` | proofs about `Signoff` and `SignoffLedger` | |
| `RunRecordFiles_proofs`, `RunWorkers_proofs`, `LocalLabs_proofs` | proofs about the module each is named for | |

### PanelLifecycle

A step is what one goroutine does between two points where another one can run:
a critical section of `p.mu`, or one run-record operation outside it. The SIGINT
that `abortOperation` sends after it unlocked is part of its step, since a
signal to a worker that has exited meanwhile does nothing.

| Variable | Code |
|---|---|
| `ops` | `p.operations`: `Running`, `PID`, `RunID` of the six cloud operations |
| `jobs` | one goroutine of `runPanelCommand` and its worker process per slot; `pc` is the point in the function, `target` the run in the worker's environment, `phase` how far a destroy is, `out` the run id that `finishPanelCommand` read |
| `handlers` | HTTP requests (and the automatic follow-ups of a setup or readiness) that passed their unlocked checks and wait for the lock |
| `recs`, `current` | run files and `current-run.json` |
| `batch`, `sweep` | the batch entry and the goroutine of `runCleanupBatch` |
| `mgmt`, `ds` | what exists in the cloud |
| `interrupted`, `used` | SIGINTs sent to batch children; run ids drawn (history) |

| Actions | Code |
|---|---|
| `StartSetup` | `startSetup`, `startIsolatedRun`, `startPanelCommand`, `createCurrentRunRecord` |
| `RequestReadiness`, `RequestDownstream`, `RequestCleanup` | the checks before `startPanelCommand` |
| `StartRequested`, `RefuseRequested`, `RecordRefusal` | `startPanelCommand` and the error path of its caller |
| `ComputeEnv`, `Spawn`, `RecordPid`, `Finish`, `RecordOutcome`, `AfterSetup`, `AfterReadiness` | `runPanelCommand`, `panelCommandEnv`, `setOperationPID`, `finishPanelCommand`, `updateRunStatusAfterOperation`, `AfterSuccess` |
| `Provision`, `ProvisionDownstream`, `DeleteDownstreams`, `Destroy`, `WorkerExit` | the worker process |
| `StartBatch`, `Sweep...` | `startCleanupBatch`, `runCleanupBatch`, `finishCleanupBatchItem`, `finishCleanupBatch` |
| `AbortBatch`, `AbortOperation`, `Poll`, `Restart` | `abortOperation`, `snapshotOperationForRuns`, `loadPersistedOperations` |

Three *fault windows* are constants, so that a run says which it opens:
`restart` (the panel dies at any point and a new one loads its state),
`spawnCrash` (it may die between `cmd.Start` and the write of the pid),
`reapRace` (another goroutine may win `p.mu` between `cmd.Wait` and
`finishPanelCommand`, and so meet the pid of a reaped worker). The program
really has all three; everything proved or checked, except by the run
`reap_race`, holds with the last two closed.

Left out: output buffers and streams, the environment beyond the run it
names, wall-clock times, and `startSetup`'s configuration checks (a setup that
they refuse changes nothing). A worker is reduced to its phases; `RunWorkers`
opens them.

### RunRecordFiles

The same record operations below that grain. `file` maps each path to a record, to
`Absent` or to `Torn`; a write is a truncation and a fill, with another task's
bytes or an unlinked file possibly in between; the operations are the control
flow of `updateRunRecordStatus`, `updateRunDownstreamStatus`, `removeRunRecord`,
`createCurrentRunRecord` and `listRunRecords`. A field is abstracted to the
number of the update that wrote it. Operations overlap freely, those of one run
too: `finishPanelCommand` unlocks `p.mu` before it updates the record, and requests,
refusals and batch items update records without the lock. Only a creation keeps
`p.mu` throughout, and a run is removed while no creation of it is under way.
`overlapped` (history) holds the runs that had two operations under way at a time.
In `PanelLifecycle` an update is one step; what is lost below that grain is a
known window.

### RunSlots

The abstract panel: a slot is created, provisioned, extended by downstreams,
shrunk, destroyed, released, with no operations, locks or processes. It says
that a slot is recorded before anything exists for it, that the management
infrastructure goes last, and that a record is released only when nothing is
left. `PanelInvariant!ImplementsSlots` maps `recorded` to the runs with a
record, `provisioned` to `mgmt` and `extended` to `ds`.

### RunWorkers

One run, one worker at a time (`SerializedWorkers` of `PanelLifecycle` is what
grants that). `worker` is its kind and the step of its main goroutine;
`thread[h]` the goroutine of instance h, a position in a path of named steps
(`SetupPath`, `ProvisionPath`, `DeletePath`, `ClusterPath`), each a remote
command, an API call or one atomic write of the instance's record. `FailStep`
fails any of them, with the code's deferred write of the failure phase; `Kill`
ends the worker anywhere. `joining` and `joinErr` are the node goroutines of an
instance and their shared error, `imports` the registration tokens, `billed` the
ledger. `infra`, `clusters`, `objects` are the cloud, `RancherWorks` and
`MakeToken` what Rancher does on its own (external).

### LocalLabs

`entry[l]` is a lab's operation entry, `tasks` are goroutines with the copy of
the record they carry (`Script` is the sequence of commands of each action),
`records` the lab records, `clusters` and `endpoints` what runs on the machine,
`watched` the runs with a `watchSteveEndpointProcess`. `CommandExits` lets every
command succeed or fail with what it leaves behind, `Collect` writes the task's
copy back, `Poll` is the state request that marks an entry stale and corrects
Steve records, `Restart` leaves commands and endpoints running. Fault windows:
`restart`, `spawnCrash` as above, and `gap` (the entry is looked at between two
commands of one action, when its pid is dead and the action goes on).

### RuntimeInstall

`runtimes` holds the installed versions, `workspace`, `previous`, `staged` are
directories with version, completeness, the mutable state they hold and the
pids they record; `app.at` is the step of `installManagedRuntimeLocked`. Each
rename, the migration and the pointer are steps of their own; `StepFails` and
`ActivateFails` fail them, `Die` ends the app between any two, `Damage` spoils a
runtime or workspace once, `Upgrade` is Homebrew (external). `Gaps` opens
the death between the two renames (`swap`) and before a pid is recorded
(`spawn`).

### LookupCache and PanelSession

In `LookupCache` a save is truncate, write and rename of one temporary file; a
file descriptor follows its file through a rename, and two writers of one file
tear it. `mutex` is per process. In `PanelSession` a panel reads, checks,
forgets, listens, and writes its session in separate steps; `Killed` is a panel
that leaves its record behind; `Prompt` says that a live panel answers the
health check within 750 ms.

### ImagePairs, RancherPlan, ImageLookup, ImageEvidence

A version is a record of kind, line, patch and commit; a tag is the version it
names; an answer of a registry is a status with the labels of the image. The
string work (parsing, ordering, matching of tags) is the operators over
those records. `RancherPlan` makes its early checks and its plans one HA at a
time; `session` carries what one resolution remembers (failed repositories),
`pins` the heads that selectors were resolved to. `ImageLookup` scans each
repository and inspects each pair at its own moment, in any order, as its
worker pools do. Between any two steps `registry` may gain the images in
`Published`. `ImageEvidence` keeps a set of looked-up images per PR check and
a scan over layers per drawer, while `MoveTag` moves head tags.

### SignoffRules, Signoff, SignoffLedger

`Signoff` is one target: `planner` is the planner between its registry calls,
`plan` what it resolved, `runs` the lane workflow runs with the branch and the
resolution they were given, `planRuns` the planner runs. `Inputs` is what a user may
give a planner: its branch, whether successful lanes are run again, how many may
run, a run to ignore; `Snapshot` applies them to the `ListLimit` newest runs, and
notes in `unseen` which runs its planner leaves out of account. `Publish` and `MoveAlias` happen
meanwhile; `StartByHand` is a lane dispatched by a person. `SignoffLedger` is the
tool over a list of targets: `book` is the ledger, `history` what was ever
recorded (history variable), `drafts` the plans of the last run. Lists whose
order nothing depends on are sets or functions from places: the lanes of a plan,
the plans of a run, what pruning keeps (a target stays when fewer than
`MaxTargets` come before it).

## Runs

All runs end within their limits on two workers of TLC.

| Run | Instance | Checks |
|---|---|---|
| `panel_restart` | 2 ha runs, one with downstreams, 2 workers, restarts | `NoOrphanedInfrastructure`: what exists is recorded. `NoStrandedDownstreams`: downstreams do not outlive their Rancher. `SerializedWorkers`: conflicting workers never coexist, those of a dead panel included. `ImplementsSlots`: refinement of `RunSlots`. `EarnedStatuses`: a status is written for a worker that earned it |
| `panel_batch` | 2 ha runs, batches, stops, restarts | `BatchIsExclusive`, `CancelReachesWorker`, `BatchAccounting`, `CancelStopsQueue` |
| `panel_progress` | 1 run, batches and stops, no faults, fairness | `OperationsEnd`, `DownstreamSettles`, `BatchEnds` |
| `panel_reattach` | 1 run, restarts, fairness | `TrackedPidLeaves`: a worker that outlived its panel cannot block the table for ever |
| `record_writers` | 2 runs, 2 tasks, 2 updates of each kind, no polls | `Settled`: a run of which no two operations overlapped keeps its updates whatever the other run's operations do, and the current record agrees with its file |
| `record_recovery` | 2 runs, 2 tasks, polls, a crash, fairness | `NoForeignUpdates`, `CurrentRunRecovers` |
| `workers` | a run of each deployment type: 2 HAs with downstreams, a host and 2 tenants, a Linode Docker instance; fairness | `CreatedIsRecorded`, `NoOrphanedDownstream`, `SetupIsComplete`, `BilledOnce`, `SetupEnds` |
| `services` | 3 versions of the desktop app; 3 lookups in 2 processes; 3 panels; 1 cluster, 1 Steve run, 1 port, 2 tasks; fairness | `OpenRuntimeMatches`, `StateSurvives`, `WorkspaceKeptForWorker` (runtime); `EntriesKept` (cache); `OnePanel` (session); `ClusterIsRecorded`, `LabEntryReleased`, `GhostEndpointsLeave` (labs) |
| `images` | three release lines with sound and unsound pairs, four chart indexes, 28 queries, 6 image builds; 2 sign-off builds, 2 lanes, 2 planner runs on 2 branches, up to 3 lane runs of which a planner lists 1; a ledger with an old policy | `PlanFitsRequest`, `PlannedImagesExist` (planner); `GroupsAreHonest`, `RankingIsComplete`, `ReportsAgree` (search); `PRVerdictIsSupported`, `BuildYAMLIsGenuine` (evidence); `PlannedPairIsOneBuild`, `LanesRunThePlan`, `LanesAreNotRepeated`, `SkippedLanesPassed` (sign-off) |

`services` and `images` are sums: a behaviour is one of one component, which
share no state. Each component has its own Init and Next (`RuntimeSpec`,
`LabsSpec`, `PlannerSpec`, ...) and can be run alone with the same constants.

Three runs expect a violation, each a disagreement between the code and what the
repository says of it (`findings` in `PROJECT.json` quotes the lines):

| Run | What TLC shows |
|---|---|
| `reap_race` | the finish of a reaped cleanup takes over the entry of the next one and removes the record of a run whose infrastructure stands |
| `stuck_downstream` | a restart between finish and record update leaves `downstreamStatus: running`, which every retry refuses |
| `poll_resurrects` | a poll of the UI writes a removed record back |

### Known windows

The models contain further behaviours that the code really has and that a
maintainer may want to close. They are kept out of the runs by a constant, a
guard of a property or a bound, and are named here so that nobody takes the
runs to exclude them:

- *Spawn crash* (`spawnCrash`): a worker whose pid was never persisted runs
  beside a conflicting one after the restart. The desktop app (`Gaps`) and the
  labs have the same window.
- *Lost update of a run*: two operations of one run overlap between the read and
  the write of `cp_run.go:254-262`. `finishPanelCommand` releases `p.mu` before the
  record update (`cp_lifecycle.go:724-738`), and requests, refusals, readiness
  starts (`:456`, `:217`, `:173`) and batch items (`cp_cleanup_batch.go:189-191`)
  update records on their own. One of two updates is lost, or an update that has
  read a record writes it back after its removal. `RunRecordFiles` contains it;
  `Settled` holds for the runs to which it did not happen (`overlapped`).
  `PanelLifecycle` takes each update of a record as one step and so does not
  show it.
- *Linode readiness*: readiness of a Linode Docker slot is not in the class of
  `linodeCleanup`; the two run side by side.
- *Fallback of `panelCommandEnv`*: a cleanup whose record disappears before its
  launch gets the environment of the *current* run (`CleanupInv` accounts for it).
- *K3D Lab between two commands* (`k3dGap`): the entry holds a dead pid, a poll
  or a request takes it for stale, a second action starts, and the two write
  their copies of the record over each other: `ClusterIsRecorded` fails. The
  same window of Steve Lab is open in `services`.
- *Port pool*: an endpoint that is still being prepared is not counted, so two
  can be given one port (`README.md:274`); the later one fails to listen.
- *Two active endpoints*: two starts that replace the active one both pass the
  check before the lock (`README.md:285`).
- *Swap* (`swap` of `RuntimeInstall`): the app dies between the two renames; the
  old workspace is then in the previous directory and a new one is seeded.
- *Slow panel* (`Prompt`): a live panel that misses its health check is
  replaced.
- *Two processes updating the cache at once* (`overlap`): the shared temporary
  file tears or loses an entry.
- *Worker dies between destroy and ledger*: the cost is not recorded.
- *Ledger keys*: target and lane only; a recorded upgrade lane is left out
  although its previous release, its webhook image or the build behind a head
  alias has changed since.
- *build.yaml scan*: whiteouts of directories and opaque markers in the layer
  being read are treated in the scan's own way, and an opaque marker at the root
  of a layer is recorded and never looked up (`image_lookup.go:2820`);
  `Ordinary` leaves these images out of `BuildYAMLIsGenuine`.
- *build.yaml passed over*: a build.yaml over 1 MiB and an entry of its name that
  is not a regular file are passed over without a word (`image_lookup.go:1330-1345`):
  the drawer shows the one of a lower layer, or none, and marks nothing as skipped.
  The model does the same (`PassedOver`); `BuildYAMLIsGenuine` speaks of the
  topmost entry of the others.
- *Spelling of labels*: the ranking and the drawer judge the same pair by other
  rules for strings. The ranking takes one spelling of the Prime source
  (`rancher_image_registry.go:444-446`) and compares the canonical tag exactly
  (`image_lookup.go:911`); the drawer lowercases the source and trims `/` and `.git`
  (`image_lookup.go:2668-2673`), compares the tag with `EqualFold` (`:2634`) and does
  not accept a reference with a scheme, which the ranking strips. `ReportsAgree`
  names these spellings (`primeAlike`, `cased`, `schemed`) as the only ones for which
  one report may say verified and the other not.
- *What a sign-off planner leaves out*: `ignore_active_runner_id`
  (`signoff-plan.yml:156`) takes an active run out of the count and out of the
  titles that block, the list ends at 200 runs (`:151`), successes count on one
  branch only (`:161`) and not at all with `rerun_successful_lanes` (`:180`). A lane
  of an immutable target is then repeated, while it runs in the first two cases,
  which also exceed `max_parallel_lanes`. All are in the model;
  `LanesAreNotRepeated` excepts exactly the runs that a planner left out and the
  successes of another branch or of a rerun.
- *A command of the lab that hangs*: k3d start, stop and delete (`k3d_lab.go:434`,
  `:439`, `:448`) and kubeconfig get (`:478`) have no timeout, so the entry of K3D
  Lab is given back only if they end; that they do is assumed.

### Bounds, and why they are enough

- *Two runs*: the code compares run ids for equality only, and the hazards are
  between a run and another one. The liveness runs use one, because their
  actors are the operations of a run and its batch.
- *Two workers*: a conflict class admits one worker, a second slot lets the
  goroutine of a finished command overlap with the next command, or a surviving
  worker with a new one. *One handler*: a request between its check and the
  lock, beside the automatic follow-ups that use the same slot.
- *Run ids are drawn once* (`randomConfirmationToken`), so the number of setups
  is bounded by `Runs` and a behaviour may come to an end: `CHECK_DEADLOCK
  FALSE` where it can. The same holds of lab ids, versions and planner runs.
- *MaxUpdates*, *MaxCrashes* in `RunRecordFiles`: an update overlaps with at
  most one other record operation per task, so one or two of each kind reach
  every overlap. In `record_recovery` one run is updated (`UpdatedRuns`) and both are
  created and removed, with polls and a crash.
- `RunWorkers`: two HAs (one fails, one goes on), two tenants (the latest token
  can be the other's), one more server and a GPU node per instance, and two
  cluster names for one HA: a retry draws a second one.
- `RuntimeInstall`: three versions, so that an upgrade can meet one that was put
  off, and two pieces of state, one of them saved before and one during it; one
  piece of damage at a time.
- `LookupCache`: two goroutines of one process and one of another, two keys.
  `PanelSession`: three panels, a live one, a dying one and one that starts;
  launches take turns, for the code takes no lock at all around a launch and two
  at the same moment would simply both serve.
- `LocalLabs`: two tasks meet in one entry; one run id per lab is enough for
  what does not speak of ports.
- `RancherPlan`, `ImageLookup`: one build of every kind of version in the newest
  line, one sound and two unsound commits, and one published late; indexes from
  one without the line to one in which all sources have it. Scan limits are
  scaled down (`MaxTagScan`, `TagPageSize`, `limit`) so that a listing meets each
  from below, exactly, and from above. Two HAs are asked where one
  resolution could differ between them.
  The list of the staging servers just fits `MaxTagScan` (8) until a build is published.
- `Signoff`: a list of one run (`ListLimit`), so that the second of two runs hides
  the first, and one lane at a time (`MaxParallel`). Each input of a planner is given
  for one kind of immutable target (`McInputs`); that runs are pushed from the list
  is left to another, with three lane runs where the rest have two (`MaxRuns`) and
  one build (`FewBuilds`). Two builds are enough for an alias that moves and a pair
  that mixes; a flaw of labels shows in the first plan or lane (`FlawsOnce`).
- `SignoffLedger`: two planning runs and two recorded lanes: what the first
  leaves, the second leaves out.
- Symmetry is declared over workers, handlers, tasks and, where all are of one
  kind, runs; the specifications choose nothing by name, and no liveness run
  uses it.

### Fairness

- `PanelLifecycle`: goroutines are scheduled (`JobStep`, `SweepStep`), a request
  that passed its checks reaches the lock, a worker ends at the latest by the
  `-test.timeout` it is started with, an open panel polls.
- `RunRecordFiles`: goroutines are scheduled and an open panel polls.
- `RunWorkers`: goroutines are scheduled, and each wait has the deadline that
  the code gives it; a deadline ends as a failed step.
- `LocalLabs`: goroutines and watchers are scheduled, an open panel polls, and
  commands end. k3d create, `kubectl wait` and the waits for an endpoint have
  timeouts; that brew and k3d start, stop, delete and kubeconfig get end is an
  assumption, since the code gives them none.

Nothing else is assumed of what the user asks for, of success, of processes that
nobody waits for, or of the cloud.

### Mutants

Each property of each passing run is paired in `PROJECT.json` with a mutant of a
mapped definition (operators named `Broken...`, `Lazy...`, `Careless...`,
`Hasty...`, ...), a plausible bug that the run must find: a conflict class
without readiness, a status written for a removed record, a downstream whose
finalizers are not waited for, a session file removed by whoever ends, a ranking
from a list that was cut short, a verdict that forgets failed lookups, a lane
that ignores the resolution it was given.

## Proofs

Everything in this section is checked by TLAPS for every value of the constants:
any sets of runs, workers, handlers, panels, lookups, versions, tasks, instances,
clusters, image builds, lanes; any number of steps, restarts and crashes. What a
theorem assumes beyond its module's named `ASSUME`s is in the last column. Those
`ASSUME`s say that sets of names of different things are disjoint, that null
values are not among the values, and that bounds are numbers; for the images,
that a registry has finitely many tags, answers with records of their type and
writes no two commits of a patch alike (`RegistryAssumption`), that the
registries asked for exist, list tags they know, and requests have one of their
forms (`TagAssumption`, `QueryAssumption`, `AskAssumption`), that no two commits
descend from each other and the layers of an image are sequences
(`EvidenceAssumption`), that the builds of a release line are numbered and a plan
lists no lane twice (`SignoffAssumption`), and that a release carries no
pre-release number and the ledger starts with records of the past
(`LedgerAssumption`). TLC evaluates them
on every run of the module.

| Module | Theorem | States | Assumes |
|---|---|---|---|
| `PanelLifecycle_proofs` | `Invariance` | `Spec => []IInv` | `TameFaults` |
| | `TypeCorrect` | `Spec => []TypeOK` | `TameFaults` |
| | `InfrastructureIsRecorded` | `Spec => []NoOrphanedInfrastructure` | `TameFaults` |
| | `WorkersAreSerialized` | `Spec => []SerializedWorkers` | `TameFaults` |
| `PanelBatch_proofs` | `NothingStranded` | `Spec => []NoStrandedDownstreams` | `TameFaults`, `OneClass` |
| | `Refinement` | `Spec => ImplementsSlots` | `TameFaults`, `OneClass` |
| | `BatchInvariance` | `Spec => [](IInv /\ BatchInv)` | `TameFaults` |
| | `BatchHoldsTheTable` | `Spec => []BatchIsExclusive` | `TameFaults` |
| | `CancelInterrupts` | `Spec => []CancelReachesWorker` | `TameFaults` |
| | `BatchAccountsForItsRuns` | `Spec => []BatchAccounting` | `TameFaults` |
| | `CancelStopsTheQueue` | `Spec => CancelStopsQueue` | `TameFaults` |
| | `StatusesAreEarned` | `Spec => EarnedStatuses` | `TameFaults` |
| `Services_proofs` | `OnePanelServes` | `SessionSpec => []OnePanel` | `Prompt` |
| | `CacheKeepsEntries` | `LookupSpec => EntriesKept` | |
| | `RuntimeInvariance` | `RuntimeSpec => []RuntimeInv` | |
| | `OpenedRuntimeMatches` | `RuntimeSpec => []OpenRuntimeMatches` | |
| | `WorkspaceIsKept` | `RuntimeSpec => WorkspaceKeptForWorker` | |
| | `SavedStateSurvives` | `RuntimeSpec => []StateSurvives` | `Gaps` closed |
| `RunRecordFiles_proofs` | `RecordsInvariance` | `Spec => []RecordsInv` | |
| | `UpdatesStayHome` | `Spec => []NoForeignUpdates` | |
| | `RecordsSettle` | `Spec => [](crashes = 0 => Settled)` | `~Polls` |
| `RunWorkers_proofs` | `ControlInvariance` | `WorkersSpec => []ControlInv` | |
| | `LedgerHasNoDoubles` | `WorkersSpec => []BilledOnce` | |
| | `DownstreamIsRecorded` | `WorkersSpec => []CreatedIsRecorded` | |
| | `DownstreamIsManaged` | `WorkersSpec => []NoOrphanedDownstream` | |
| | `SuccessIsComplete` | `WorkersSpec => []SetupIsComplete` | |
| `LocalLabs_proofs` | `LabsInvariance` | `LabsSpec => []LabsInv` | `k3dGap`, `spawnCrash` closed |
| | `ClustersAreListed` | `LabsSpec => []ClusterIsRecorded` | `k3dGap`, `spawnCrash` closed |
| `Images_proofs` | `PRVerdictHolds` | `EvidenceSpec => []PRVerdictIsSupported` | |
| | `BuildYAMLHolds` | `EvidenceSpec => []BuildYAMLIsGenuine` | |
| | `ReportsHold` | `LookupSpec => []ReportsAgree` | |
| | `GroupsHold` | `LookupSpec => []GroupsAreHonest` | |
| | `RankingHolds` | `LookupSpec => []RankingIsComplete` | |
| | `PlansFit` | `PlannerSpec => []PlanFitsRequest` | |
| | `PlannedImagesHold` | `PlannerSpec => []PlannedImagesExist` | |
| `Signoff_proofs` | `PlannedPairHolds` | `SignoffSpec => []PlannedPairIsOneBuild` | |
| | `LanesHold` | `SignoffSpec => []LanesRunThePlan` | |
| | `RepeatsHold` | `SignoffSpec => []LanesAreNotRepeated` | |
| | `LedgerHolds` | `LedgerSpec => SkippedLanesPassed` | |

`TameFaults` closes the windows `spawnCrash` and `reapRace` (the run `reap_race`
shows what happens in the second). `OneClass` says that there are no Linode
Docker runs: with them, a Linode cleanup runs beside a downstream worker, and
when its record disappears the fallback of `panelCommandEnv` can point it at that
worker's run. `Prompt`, `Gaps` and the `Faults` of the labs are the windows
listed above. `Settled` is proved up to the first crash and without
polls, since it fails beyond: with polls `poll_resurrects` is the
counterexample, and a crash may leave a torn file behind. It says nothing of
`overlapped` runs, whose updates the code does lose, but holds beside them.

**Lifecycle.** `NoOrphanedInfrastructure` is not inductive: a record is removed
on the word of a worker that exited earlier, for the run id that the entry held
when it was finished. `IInv` therefore says who owns an entry (`OwnerInv`: a
goroutine or the worker it left behind, with its run and pid), that a class has
one owner (`ExclusiveInv`), that setups and cleanups run in the class of their
run (`KindInv`), that a setup still under way has its record (`RecordInv`), that
a successful cleanup has left nothing of its run, whether it destroyed it or
found it gone (`CleanupInv`), and what the batch may believe of its child
(`SweepInv`). The step lemma `InvNext` goes action by action, with lemmas for
what a start, a change of one slot, and the disappearance of goroutines keep.
`NothingStranded` adds `SweptInv`, that nothing adds downstreams behind a cleanup
that has deleted them; it rests on `IInv` for the one-owner argument.
`Refinement` shows each step to be a step of `RunSlots` or a stutter, using both.

**Batch and statuses.** `BatchInv` is added to `IInv`. `HoldsInv`: the batch
entry runs as long as its goroutine does, and the only other entry that can be
running is the cleanup of the run the batch is at, while it waits for it.
`ReachInv`: the batch knows the pid of the child it waits for, and has
interrupted that child if it is cancelled. `TallyInv`: at every step of the
goroutine each run of the batch is done, failed, still to do or the one at hand,
and one that is done has no record. `EnvInv`, for `EarnedStatuses`: a worker
whose environment names another run than its entry does belongs to a run without
a record, so its success is written nowhere.

**Session and cache.** `SessionInv`: a launch that has found no panel to answer is
from then on the only one that can (`LaunchOK`), and a panel that serves is named
by the session file (`ListedOK`).
`LookupInv`: an update holds the mutex of its process, and, until two processes
overlap, the one that updates has in memory, then in its file descriptor, then in
the temporary file, everything the cache holds.

**Desktop runtime.** `RuntimeInv` says what has been validated by each step of
an installation (`ChosenInv`), that a workspace is replaced by a complete copy
of the right version and only while no recorded process lives (`ReplaceInv`),
and that a held workspace is the one opened last (`HeldInv`). The state that
workers save needs two more parts: every live process is recorded or about to be
(`LiveInv`), and at each point of the swap one named directory holds everything
saved (`DataInv`); the windows of `Gaps` are exactly where these two fail.

**Run records.** `RecordsInv` says, per step of an operation, what it may carry,
and that a file never holds another run's record: enough for `NoForeignUpdates`,
polls and crashes included. `Settled` needs `SettledInv`, which says for a run at
rest that never overlapped (`RestInv`) and for each step of a status update, downstream update or
creation (`ReadInv`, `WriteInv`) and of a removal (`RemoveInv`) how far the two
files are behind.

**Workers.** `ControlInv` is the skeleton: which path a goroutine follows under
which worker (`ThreadInv`), at which step the worker is (`WorkerInv`), and that
nothing is paid for twice (`LedgerInv`). `CloudInv` relates the step of a
goroutine to the record on disk and the cloud: what exists carries the recorded
name (`NamedInv`), the record goes last (`StepInv`), and a cleanup that destroys
has deleted before (`DeletedInv`). `ProgressInv` says for each instance what it
has reached by the step it is at; the joiners of an instance are the hard part,
since their failures meet in one shared error (`NodesInv`).

**Labs.** `LabsInv` says that one goroutine has the entry of K3D Lab and its pid
(`EntryInv`), what each carries at each step (`TaskInv`), and that a record, or a
copy of one that could still be written back, is missing or says deleted only
when the cluster is absent and no creation of it is under way (`RecordInv`).

**Image evidence.** `EvidenceInv`: what a check has seen of an image was its
build when it was looked up, and a comparison has failed or tells how the two
commits are related, so that a verdict rests on what was seen although tags have
moved since. The drawer needs to know what the scan has passed: `ScanProgress`
says that the hidden paths and emptied directories are those of all layers above
the one it is at, and that none of these layers holds a visible build.yaml that is not passed over;
`ScanTells` shows that reading one more layer keeps this, `Topmost` says that
what is shown then is the topmost, and `Declared` that a source is fetched for
the image that was opened.

**Search.** `LookupInv`: an image that was found is never replaced
(`PublishImage` fills gaps), so each verdict on a pair is still the verdict on
what the registry answers now (`PairsJudged`); `RulesAgree` shows for
every immutable head in which direction the two sets of rules for labels come to
the same, and for which spellings they do not. `SearchInv` adds
what the lists rest on: what a registry held when the search began it still
holds (`Lasting`), a list is of a repository that was asked for (`GroupsKnown`),
and the two properties themselves. The scan is stated without a fold, as the tags
that the pages read list (`Read`) and the page at which it stops (`Stops`), so that
what a page adds needs no induction. For `RankingIsComplete` the order of the
ranking is a measure of each pair, and of finitely many pairs one is first
(`GreatestOf`): no newer pair that could be verified from the start is left out.

**Planner.** `PlannerInv` says of the early check of each HA that the pair it found
fits the request and stands in one of the registries it may take (`EarlyFits`), of
each pin that it is a standing pair of its selector and that a selector has one
(`PinsHold`), and of each plan that its chart, Kubernetes version and images fit
(`PlanFits`, `ImagesFit`). A pair that stands goes on standing, since registries
only gain images (`PairedStays`); a failed repository stays failed for the rest of
the resolution. The chart search is followed operator by operator, from what a row
is (`RowsTell`) over the best match of a source (`BestTells`), the offers of all
sources (`OffersTell`) and the fallback to a release (`FallbackTells`) to the chart
(`ChartTells`); the images by the three ways a head gets its pair: the one of the
early check, the pin, the bundle of a patch (`BundleTells`). `PlannerStep` puts the
check, the pin and the plan of an HA together.

**Sign-off.** `SignoffType` types labels, planner and runs. `RunsInv` says of each
run what it was given and what it then installs. `RepeatInv` relates a snapshot to
what is dispatched after it: a run of a planner with the title of a lane that is
still to be dispatched has failed, was left out of account, or has succeeded where
this planner does not look, and there is room for all of them among the runs that
are counted; runs that a person starts meanwhile can only cancel a waiting one.
`PlanInv` carries from one registry call to the next which image was read by which
tag, up to the plan. For the ledger, `LedgerInv` says that it holds the last record
of each lane of its targets and that a target that was dropped is no later than any
it holds (`Agrees`): a record makes its target the latest of all, and what pruning
drops has at least as many targets before it as what it keeps (`PrunedTells`). The
release before a target is the newest of finitely many, since the one with the
fewest above it has none above it (`NewestExists`). The least and the greatest of a
set of numbers come from the well-foundedness of < on the naturals (`LeastExists`,
`GreatestExists`).

**Model-checked only.** The eight liveness properties (`OperationsEnd`,
`DownstreamSettles`, `BatchEnds`, `TrackedPidLeaves`, `CurrentRunRecovers`,
`SetupEnds`, `LabEntryReleased`, `GhostEndpointsLeave`): fairness and ENABLED are
outside the prover's reach. Every invariant and every action property that a
passing run checks is proved.

## Plan

Done: the lifecycle engine at two grains with `RunSlots`; the workers; the labs;
the desktop runtime; session and cache; the planner, the search, the evidence;
the sign-off automation and its ledger; the proofs of their safety.

Worth adding, in this order:

1. `LocalLabs`: that a Steve endpoint that serves is on record, and the pool of
   ports with a run that is still being planned.
2. `PanelLifecycle`: the directories of a slot (`cleanLocalArtifacts`) beside a
   setup that has just been accepted.
3. Preflight and readiness checks as a module of their own.

## Not modelled

Whole components: preflight and readiness checks, panel state and cluster views
(read-only views over kubeconfigs, helm and the Rancher API), setup editors and
prompts (a dialogue of one user before a setup), files and settings, command
line entry points, the UI, the Terraform modules and the release workflow,
packaging. They keep no state of which a behaviour over several steps could go
wrong, or are outside the program.

Parts of modelled components, each because it is data without a decision that a
property speaks of, or out of a model's reach:

- planner: the manual mode (commands are passed through), installer checksums,
  the confirmation dialog, resolution files, caches that only save a repeated
  request;
- search: HTTP clients with their authentication and retries, the JSON around
  the answers, filters of artifacts and architecture suffixes;
- sign-off: the rendering of reports and tool configurations, the redaction of
  artifacts, and the verification of signatures, which the code records in a
  report and never acts on;
- workers: the commands on the nodes, key pairs, the SSH bootstrap, the plan and
  catalog files; panel: output streams (a line over 64 KiB stops
  `bufio.Scanner`), the directories of a slot besides its records
  (`cleanLocalArtifacts`, module copies), opening the browser;
- labs: what runs inside a cluster, the build of a Steve version; kubectl
  calls that have no timeout of their own are taken to end;
- runtime: the dialogs, locating the bundle, menus.

`PROJECT.json` lists every component with its status.
