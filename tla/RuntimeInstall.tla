--------------------------- MODULE RuntimeInstall ---------------------------
(***************************************************************************)
(* The desktop app and the workspace it manages: a packaged runtime is     *)
(* staged, validated and activated by a rename; a workspace of another     *)
(* version is rebuilt from the runtime, its mutable state migrated, and    *)
(* swapped in by two renames; an upgrade is put off while a process that   *)
(* the workspace records is alive.  The app may die between any two steps  *)
(* and its workers live on.                                                *)
(***************************************************************************)
EXTENDS FiniteSets, Naturals

CONSTANTS
  MaxVersion,   \* versions of the app are 1..MaxVersion
  States,       \* pieces of mutable state a worker may save
  Gaps,         \* steps at which the app may die, of "swap" and "spawn"
  NoDir

Versions == 1..MaxVersion
Kinds == {"lifecycle", "steve"}

\* A directory is the version of its source, its completeness and its state.
Directories == [version : 0..MaxVersion, whole : BOOLEAN, data : SUBSET States, pids : SUBSET Kinds]
ASSUME RuntimeAssumption == MaxVersion \in Nat \ {0} /\ NoDir \notin Directories

VARIABLES
  bundle,      \* version of the app bundle that Homebrew installed
  app,         \* the app: step, version it installs, runtime it selected
  runtimes,    \* runtime/<version>: "none", "valid", "invalid"
  workspace, previous, staged, \* directories of mutable state, or NoDir
  pointer,     \* current-runtime
  spawning,    \* workers being started by the app: "none", "entry", "started"
  live,        \* kinds of the processes that are alive
  saved,       \* state that workers have saved
  damaged      \* bound: something was damaged once

installVars == <<app, runtimes, workspace, previous, staged, pointer>>
runtimeVars == <<bundle, installVars, spawning, live, saved, damaged>>

Closed == [at |-> "closed", version |-> 0, runtime |-> 0, moved |-> FALSE]
Seeded(v) == [version |-> v, whole |-> TRUE, data |-> {}, pids |-> {}]

RuntimeInit ==
  /\ bundle = 1 /\ app = Closed
  /\ runtimes = [v \in Versions |-> "none"]
  /\ workspace = NoDir /\ previous = NoDir /\ staged = NoDir
  /\ pointer = 0
  /\ spawning = [k \in Kinds |-> "none"] /\ live = {}
  /\ saved = {} /\ damaged = FALSE

At(step) == app.at = step
Serving == app.at \in {"open", "closing"}
Go(step) == app' = [app EXCEPT !.at = step]

\* runtimeLifecycleActive: a recorded pid above zero of a live process.
LifecycleActive == workspace # NoDir /\ workspace.pids \cap live # {}
WorkspaceVersion == IF workspace = NoDir THEN 0 ELSE workspace.version
WorkspaceValid(v) == workspace # NoDir /\ workspace.version = v /\ workspace.whole

-----------------------------------------------------------------------------
(* The app starts, or answers the next request after an error.             *)

Launch ==
  /\ At("closed")
  /\ Go("start")
  /\ UNCHANGED <<bundle, runtimes, workspace, previous, staged, pointer, spawning, live, saved, damaged>>

\* installManagedRuntime: the package is validated, the lock taken.
BeginInstall ==
  /\ At("start")
  /\ app' = [app EXCEPT !.version = bundle,
                        !.at = IF runtimes[bundle] = "valid" THEN "select" ELSE "stage"]
  /\ staged' = NoDir
  /\ UNCHANGED <<bundle, runtimes, workspace, previous, pointer, spawning, live, saved, damaged>>

\* stageManagedRuntime: an invalid runtime is moved to quarantine.
Quarantine ==
  /\ At("stage") /\ runtimes[app.version] = "invalid"
  /\ runtimes' = [runtimes EXCEPT ![app.version] = "none"]
  /\ UNCHANGED <<bundle, app, workspace, previous, staged, pointer, spawning, live, saved, damaged>>

ActivateRuntime ==
  /\ At("stage") /\ runtimes[app.version] = "none"
  /\ runtimes' = [runtimes EXCEPT ![app.version] = "valid"]
  /\ Go("select")
  /\ UNCHANGED <<bundle, workspace, previous, staged, pointer, spawning, live, saved, damaged>>

CarelessSelect(v) ==
  IF LifecycleActive /\ v \notin {0, app.version} THEN "deferred"
  ELSE IF WorkspaceValid(app.version) THEN "point" ELSE "seed"

EagerSelect(v) == IF WorkspaceValid(app.version) THEN "point" ELSE "seed"

\* installManagedRuntimeLocked, the choice of runtime and workspace.
Select(v) ==
  IF LifecycleActive /\ \/ v = 0
                        \/ v # app.version /\ runtimes[v] # "valid"
                        \/ v = app.version /\ ~WorkspaceValid(v)
  THEN "start"
  ELSE IF LifecycleActive /\ v # app.version THEN "deferred"
  ELSE IF WorkspaceValid(app.version) THEN "point" ELSE "seed"

SelectWorkspace ==
  LET choice == Select(WorkspaceVersion) IN
  /\ At("select")
  /\ app' = IF choice = "deferred" THEN [app EXCEPT !.at = "open", !.runtime = WorkspaceVersion]
            ELSE [app EXCEPT !.at = choice]
  /\ UNCHANGED <<bundle, runtimes, workspace, previous, staged, pointer, spawning, live, saved, damaged>>

SeedWorkspace ==
  /\ At("seed")
  /\ staged' = Seeded(app.version)
  /\ Go("migrate")
  /\ UNCHANGED <<bundle, runtimes, workspace, previous, pointer, spawning, live, saved, damaged>>

ForgetfulMigrate ==
  /\ At("migrate")
  /\ Go("drop")
  /\ UNCHANGED <<bundle, runtimes, workspace, previous, staged, pointer, spawning, live, saved, damaged>>

\* migrateRuntimeState: config, outputs with all pids, terraform state.
Migrate ==
  /\ At("migrate")
  /\ staged' = IF workspace = NoDir THEN staged
               ELSE [staged EXCEPT !.data = workspace.data, !.pids = workspace.pids]
  /\ Go("drop")
  /\ UNCHANGED <<bundle, runtimes, workspace, previous, pointer, spawning, live, saved, damaged>>

\* The backup makes room for the workspace only when there is one.
DropPrevious ==
  /\ At("drop")
  /\ previous' = IF workspace = NoDir THEN previous ELSE NoDir
  /\ Go("move")
  /\ UNCHANGED <<bundle, runtimes, workspace, staged, pointer, spawning, live, saved, damaged>>

MoveAway ==
  /\ At("move")
  /\ previous' = IF workspace = NoDir THEN previous ELSE workspace
  /\ workspace' = NoDir
  /\ app' = [app EXCEPT !.at = "swap", !.moved = workspace # NoDir]
  /\ UNCHANGED <<bundle, runtimes, staged, pointer, spawning, live, saved, damaged>>

Activate ==
  /\ At("swap")
  /\ workspace' = staged /\ staged' = NoDir
  /\ Go("point")
  /\ UNCHANGED <<bundle, runtimes, previous, pointer, spawning, live, saved, damaged>>

\* The failed rename is undone if a workspace was moved away.
ActivateFails ==
  /\ At("swap")
  /\ IF app.moved THEN workspace' = previous /\ previous' = NoDir
     ELSE UNCHANGED <<workspace, previous>>
  /\ staged' = NoDir
  /\ Go("start")
  /\ UNCHANGED <<bundle, runtimes, pointer, spawning, live, saved, damaged>>

\* Any other step fails: an error page, until the next request.
StepFails ==
  /\ app.at \in {"stage", "seed", "migrate", "drop", "move", "point"}
  /\ Go("start")
  /\ staged' = NoDir
  /\ UNCHANGED <<bundle, runtimes, workspace, previous, pointer, spawning, live, saved, damaged>>

\* current-runtime, the environment for workers, the panel's handler, which
\* reads the recorded operations.
Open ==
  /\ At("point")
  /\ pointer' = app.version
  /\ app' = [app EXCEPT !.at = "open", !.runtime = app.version, !.moved = FALSE]
  /\ UNCHANGED <<bundle, runtimes, workspace, previous, staged, spawning, live, saved, damaged>>

-----------------------------------------------------------------------------
(* The open app: its workers, and its end.                                 *)

\* An operation entry with no pid yet, the process, its pid.
BeginWorker(k) ==
  /\ Serving /\ k \notin live /\ spawning[k] = "none"
  /\ spawning' = [spawning EXCEPT ![k] = "entry"]
  /\ UNCHANGED <<bundle, installVars, live, saved, damaged>>
SpawnWorker(k) ==
  /\ Serving /\ spawning[k] = "entry"
  /\ live' = live \cup {k}
  /\ spawning' = [spawning EXCEPT ![k] = "started"]
  /\ UNCHANGED <<bundle, installVars, saved, damaged>>
NotePid(k) ==
  /\ Serving /\ spawning[k] = "started"
  /\ workspace' = [workspace EXCEPT !.pids = @ \cup {k}]
  /\ spawning' = [spawning EXCEPT ![k] = "none"]
  /\ UNCHANGED <<bundle, app, runtimes, previous, staged, pointer, live, saved, damaged>>

\* A worker works in the directory of this name, whichever it is.
Save(s) ==
  /\ "lifecycle" \in live /\ workspace # NoDir /\ s \notin saved
  /\ workspace' = [workspace EXCEPT !.data = @ \cup {s}]
  /\ saved' = saved \cup {s}
  /\ UNCHANGED <<bundle, app, runtimes, previous, staged, pointer, spawning, live, damaged>>

WorkerEnds(k) ==
  /\ k \in live /\ spawning[k] = "none"
  /\ live' = live \ {k}
  /\ UNCHANGED <<bundle, installVars, spawning, saved, damaged>>

\* beforeClose looks for running operations once; then a dialog about GPU
\* nodes may be open for any time, and requests are still served.
AskClose ==
  /\ At("open") /\ "lifecycle" \notin live /\ \A k \in Kinds : spawning[k] = "none"
  /\ Go("closing")
  /\ UNCHANGED <<bundle, runtimes, workspace, previous, staged, pointer, spawning, live, saved, damaged>>
CancelClose ==
  /\ At("closing") /\ Go("open")
  /\ UNCHANGED <<bundle, runtimes, workspace, previous, staged, pointer, spawning, live, saved, damaged>>
Quit ==
  /\ At("closing")
  /\ (\E k \in Kinds : spawning[k] = "started") => "spawn" \in Gaps
  /\ app' = Closed
  /\ spawning' = [k \in Kinds |-> "none"]
  /\ UNCHANGED <<bundle, runtimes, workspace, previous, staged, pointer, live, saved, damaged>>

Die ==
  /\ app.at \notin {"closed", "closing"}
  /\ At("swap") => "swap" \in Gaps
  /\ (\E k \in Kinds : spawning[k] = "started") => "spawn" \in Gaps
  /\ app' = Closed
  /\ spawning' = [k \in Kinds |-> "none"]
  /\ UNCHANGED <<bundle, runtimes, workspace, previous, staged, pointer, live, saved, damaged>>

\* External: Homebrew replaces the bundle only, whatever the app is doing.
Upgrade ==
  /\ bundle < MaxVersion
  /\ bundle' = bundle + 1
  /\ UNCHANGED <<installVars, spawning, live, saved, damaged>>

\* External: a file of a runtime or of the workspace goes bad (bound: once,
\* and while the app is closed).
Damage ==
  /\ At("closed") /\ ~damaged /\ damaged' = TRUE
  /\ \/ /\ \E v \in Versions : runtimes[v] = "valid" /\ runtimes' = [runtimes EXCEPT ![v] = "invalid"]
        /\ UNCHANGED workspace
     \/ /\ workspace # NoDir
        /\ \/ workspace' = [workspace EXCEPT !.version = 0]
           \/ workspace' = [workspace EXCEPT !.whole = FALSE]
        /\ UNCHANGED runtimes
  /\ UNCHANGED <<bundle, app, previous, staged, pointer, spawning, live, saved>>

InstallStep ==
  \/ BeginInstall \/ Quarantine \/ ActivateRuntime \/ SelectWorkspace \/ SeedWorkspace
  \/ Migrate \/ DropPrevious \/ MoveAway \/ Activate \/ ActivateFails \/ StepFails \/ Open
WorkerStep(k) == BeginWorker(k) \/ SpawnWorker(k) \/ NotePid(k) \/ WorkerEnds(k)

RuntimeNext ==
  \/ Launch \/ InstallStep \/ AskClose \/ CancelClose \/ Quit \/ Die \/ Upgrade \/ Damage
  \/ \E k \in Kinds : WorkerStep(k)
  \/ \E s \in States : Save(s)
RuntimeSpec == RuntimeInit /\ [][RuntimeNext]_runtimeVars

-----------------------------------------------------------------------------
(* Properties.                                                             *)

\* An open app works with a valid immutable runtime of the version of its
\* workspace, whether it installed, upgraded or put an upgrade off
\* (installManagedRuntimeLocked), after damage, failures and deaths; only an
\* upgrade that was put off may leave it with an incomplete workspace.
OpenRuntimeMatches ==
  Serving => /\ workspace # NoDir /\ workspace.version = app.runtime
             /\ app.runtime = app.version => workspace.whole
             /\ runtimes[app.runtime] = "valid" /\ pointer = app.runtime

\* While a process that the workspace records is alive, whatever happened to
\* the app that started it, the workspace is neither moved away nor replaced
\* (runtimeLifecycleActive).
WorkspaceKeptForWorker ==
  [][LifecycleActive => workspace' # NoDir /\ (workspace'.version = workspace.version \/ damaged # damaged')]_runtimeVars

\* State that a worker saved is in the workspace of an open app: no sequence of
\* upgrades, failed steps and deaths of the app loses it.
StateSurvives == Serving => saved \subseteq workspace.data
=============================================================================
