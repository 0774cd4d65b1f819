--------------------------- MODULE PanelLifecycle ---------------------------
(***************************************************************************)
(* The lifecycle engine of the local control panel: the operation table    *)
(* guarded by p.mu, the goroutine and worker process behind each started   *)
(* command, the run records that name the slots, the cleanup batch, and    *)
(* the restart of the panel over its persisted state.                      *)
(*                                                                         *)
(* A step is what one goroutine does between two points where another one  *)
(* can run: a critical section of p.mu, or one run-record operation made   *)
(* outside it.  Module RunRecordFiles looks inside a record operation.     *)
(***************************************************************************)
EXTENDS FiniteSets, Naturals

CONSTANTS
  Runs,            \* run ids; a random token is never drawn twice
  Workers,         \* goroutine slots, each with the pid of its worker process
  Handlers,        \* requests between their unlocked checks and the lock
  KindOf,          \* deployment type of each run: ha, hosted or linode
  WithDownstreams, \* ha runs whose record froze an enabled downstream plan
  Requests,        \* which requests of RequestKinds the environment makes
  Faults,          \* which of the three fault windows below a run opens
  NoRun, NoWorker

RequestKinds == {"setup", "readiness", "downstream", "cleanup", "batch", "stop"}
FaultWindows == {"restart",    \* the panel process dies and is started again
                 "spawnCrash", \* ... between cmd.Start and setOperationPID
                 "reapRace"}   \* p.mu is won between cmd.Wait and the finish

ASSUME RunsAssumption == NoRun \notin Runs /\ NoWorker \notin Workers
ASSUME KindAssumption == KindOf \in [Runs -> {"ha", "hosted", "linode"}]
ASSUME FaultAssumption == Faults \subseteq FaultWindows /\ Requests \subseteq RequestKinds
ASSUME PlanAssumption == \A r \in WithDownstreams : r \in Runs /\ KindOf[r] = "ha"

Ops == {"setup", "readiness", "downstream", "cleanup", "linodeSetup", "linodeCleanup"}
LinodeOps == {"linodeSetup", "linodeCleanup"}
SetupOps == {"setup", "linodeSetup"}
CleanupOps == {"cleanup", "linodeCleanup"}

\* The order in which startCleanupBatch and the conflict check visit the table.
Rank == [setup |-> 1, readiness |-> 2, downstream |-> 3, cleanup |-> 4,
         linodeSetup |-> 5, linodeCleanup |-> 6]

BrokenConflictsWith(o) ==
  CASE o \in LinodeOps   -> LinodeOps
    [] o = "downstream"  -> {"downstream"}
    [] OTHER             -> Ops \ (LinodeOps \cup {"downstream"})

ConflictsWith(o) == IF o \in LinodeOps THEN LinodeOps ELSE Ops \ LinodeOps
SetupOpFor(r) == IF KindOf[r] = "linode" THEN "linodeSetup" ELSE "setup"
CleanupOpFor(r) == IF KindOf[r] = "linode" THEN "linodeCleanup" ELSE "cleanup"

-----------------------------------------------------------------------------
VARIABLES
  ops,         \* the operation table: running, tracked pid, run id
  jobs,        \* one goroutine of runPanelCommand per slot, with its worker
  handlers,    \* requests that passed their checks and wait for p.mu
  recs,        \* run records: management status and downstream status
  current,     \* the run named by current-run.json
  batch,       \* the cleanup batch entry of the operation table
  sweep,       \* the goroutine of runCleanupBatch
  interrupted, \* batch children that were sent SIGINT; a signal to another
               \* worker does nothing that WorkerExit does not allow anyway
  mgmt,        \* runs whose Terraform state holds resources
  ds,          \* runs with downstream clusters
  used         \* history: run ids drawn so far

vars == <<ops, jobs, handlers, recs, current, batch, sweep, interrupted,
          mgmt, ds, used>>
cloud == <<mgmt, ds>>

\* An operator named Broken... is its namesake with a bug put in: the mutation
\* tests replace the one by the other and expect a property to fail.

Statuses == {"none", "setup_running", "setup_complete", "setup_failed",
             "ready", "readiness_failed", "cleanup_failed"}
DownstreamStatuses == {"none", "pending", "running", "ready", "failed"}

NoRecord == [status |-> "none", dstat |-> "none"]
IdleOp == [running |-> FALSE, pid |-> NoWorker, run |-> NoRun]
IdleJob == [pc |-> "idle", op |-> "setup", run |-> NoRun, child |-> FALSE,
            target |-> NoRun, phase |-> "start", ok |-> FALSE, out |-> NoRun]
IdleHandler == [pc |-> "idle", op |-> "setup", run |-> NoRun]
IdleBatch == [running |-> FALSE, cancel |-> FALSE, pid |-> NoWorker, run |-> NoRun,
              ids |-> {}, done |-> {}, failed |-> {}]
IdleSweep == [pc |-> "idle", run |-> NoRun, ok |-> FALSE, todo |-> {}]

JobPcs == {"idle", "launch", "spawn", "setpid", "wait", "orphan", "finish",
           "record", "after"}
Phases == {"start", "swept", "destroyed"}
SweepPcs == {"idle", "next", "read", "lock", "await", "account", "tally", "close"}

RunOrNone == Runs \cup {NoRun}
PidOrNone == Workers \cup {NoWorker}

OpEntry == [running : BOOLEAN, pid : PidOrNone, run : RunOrNone]
Job == [pc : JobPcs, op : Ops, run : RunOrNone, child : BOOLEAN, target : RunOrNone,
        phase : Phases, ok : BOOLEAN, out : RunOrNone]
Handler == [pc : {"idle", "checked", "refused"}, op : Ops, run : RunOrNone]
RunRecord == [status : Statuses, dstat : DownstreamStatuses]
Batch == [running : BOOLEAN, cancel : BOOLEAN, pid : PidOrNone, run : RunOrNone,
          ids : SUBSET Runs, done : SUBSET Runs, failed : SUBSET Runs]
Sweep == [pc : SweepPcs, run : RunOrNone, ok : BOOLEAN, todo : SUBSET Runs]

\* Entries, goroutines, requests, records, the batch and its sweep keep the
\* fields that their Go types have.
TypeOK ==
  /\ ops \in [Ops -> OpEntry]
  /\ jobs \in [Workers -> Job]
  /\ handlers \in [Handlers -> Handler]
  /\ recs \in [Runs -> RunRecord]
  /\ current \in RunOrNone
  /\ batch \in Batch
  /\ sweep \in Sweep
  /\ interrupted \subseteq Workers
  /\ mgmt \subseteq Runs /\ ds \subseteq Runs /\ used \subseteq Runs

Init ==
  /\ ops = [o \in Ops |-> IdleOp]
  /\ jobs = [w \in Workers |-> IdleJob]
  /\ handlers = [h \in Handlers |-> IdleHandler]
  /\ recs = [r \in Runs |-> NoRecord]
  /\ current = NoRun
  /\ batch = IdleBatch
  /\ sweep = IdleSweep
  /\ interrupted = {}
  /\ mgmt = {} /\ ds = {} /\ used = {}

-----------------------------------------------------------------------------
(* Run records.  Reads and writes go through readRunRecord, so an update   *)
(* of a run without a record changes nothing.                              *)

Recorded(r) == r \in Runs /\ recs[r] # NoRecord

\* The update writes a record that was removed meanwhile.
BrokenSetStatus(r, s) ==
  /\ recs' = [recs EXCEPT ![r].status = s]
  /\ current' = r

\* updateRunRecordStatus rewrites the record and makes the run the current one.
SetStatus(r, s) ==
  /\ recs' = IF Recorded(r) THEN [recs EXCEPT ![r].status = s] ELSE recs
  /\ current' = IF Recorded(r) THEN r ELSE current

\* updateRunDownstreamStatus leaves the current run as it is.
WithDownstreamStatus(rs, r, s) ==
  IF r \in Runs /\ rs[r] # NoRecord THEN [rs EXCEPT ![r].dstat = s] ELSE rs

RemoveRecord(r) ==
  /\ recs' = [x \in Runs |-> IF x = r THEN NoRecord ELSE recs[x]]
  /\ current' = IF current = r THEN NoRun ELSE current

-----------------------------------------------------------------------------
(* Processes and stale marking.                                            *)

\* The worker process of a slot exists.  A worker that has exited but was not
\* yet reaped by cmd.Wait still answers signal 0.
Alive(w) == jobs[w].pc \in {"setpid", "wait", "orphan"}

\* processAlive as the other goroutines see it: with the reap race closed, the
\* goroutine that reaped a worker takes p.mu before anyone looks at its pid.
ProcessAlive(w) ==
  Alive(w) \/ (jobs[w].pc = "finish" /\ "reapRace" \notin Faults)

\* An entry whose pid is not known yet counts as dead.
BrokenDead(o) == ops[o].running /\ (ops[o].pid # NoWorker => ~ProcessAlive(ops[o].pid))

Dead(o) == ops[o].running /\ ops[o].pid # NoWorker /\ ~ProcessAlive(ops[o].pid)
Live(o) == ops[o].running /\ ~Dead(o)
Blocked(S) == \E o \in S : Live(o)

\* A check over S marks the dead entries it visits before the first live one.
Visited(S) == {o \in S : Dead(o) /\ \A l \in S : Live(l) => Rank[o] < Rank[l]}

BrokenOpsAfterStale(S) ==
  [o \in Ops |-> IF o \in S THEN [ops[o] EXCEPT !.running = FALSE] ELSE ops[o]]

OpsAfterStale(S) ==
  [o \in Ops |-> IF o \in S THEN [ops[o] EXCEPT !.running = FALSE, !.pid = NoWorker] ELSE ops[o]]

\* markOperationStaleLocked also fails the downstream status of the stale run.
RecsAfterStale(S) ==
  IF "downstream" \in S
    THEN WithDownstreamStatus(recs, ops["downstream"].run, "failed")
    ELSE recs

\* snapshotOperationForRuns: a poll of the UI marks one dead operation.
Poll(o) ==
  /\ Dead(o)
  /\ ops' = OpsAfterStale({o})
  /\ recs' = RecsAfterStale({o})
  /\ UNCHANGED <<jobs, handlers, current, batch, sweep, interrupted, cloud, used>>

-----------------------------------------------------------------------------
(* startPanelCommand: one critical section of p.mu.                        *)

FreeSlot(w) ==
  /\ jobs[w] = IdleJob
  /\ batch.pid # w
  /\ \A o \in Ops : ops[o].pid # w

\* The entry of o is claimed for run r and slot w gets its goroutine.
Claim(o, r, child, w) ==
  /\ FreeSlot(w)
  /\ ~Blocked(ConflictsWith(o))
  /\ ops' = [OpsAfterStale(Visited(ConflictsWith(o))) EXCEPT
               ![o] = [running |-> TRUE, pid |-> NoWorker, run |-> r]]
  /\ jobs' = [jobs EXCEPT ![w] = [IdleJob EXCEPT !.pc = "launch", !.op = o,
                                                 !.run = r, !.child = child]]

\* clearCompletedCleanupBatch, after a cleanup outside a batch was started.
BatchAfterStart(o) == IF o \in CleanupOps THEN IdleBatch ELSE batch

\* A setup starts while a batch runs.
BrokenStartSetup(r, w) ==
  /\ r \notin used
  /\ Claim(SetupOpFor(r), r, FALSE, w)
  /\ recs' = [recs EXCEPT ![r] = [status |-> "setup_running", dstat |-> "none"]]
  /\ current' = r
  /\ used' = used \cup {r}
  /\ UNCHANGED <<handlers, batch, sweep, interrupted, cloud>>

\* startSetup and startIsolatedRun: a fresh run id gets its record, which
\* becomes the current one, before the worker is started.
StartSetup(r, w) ==
  /\ r \notin used
  /\ ~batch.running
  /\ Claim(SetupOpFor(r), r, FALSE, w)
  /\ recs' = [RecsAfterStale(Visited(ConflictsWith(SetupOpFor(r)))) EXCEPT
                ![r] = [status |-> "setup_running",
                        dstat |-> IF r \in WithDownstreams THEN "pending" ELSE "none"]]
  /\ current' = r
  /\ used' = used \cup {r}
  /\ UNCHANGED <<handlers, batch, sweep, interrupted, cloud>>

Enqueue(h, o, r) ==
  /\ handlers[h] = IdleHandler
  /\ handlers' = [handlers EXCEPT ![h] = [pc |-> "checked", op |-> o, run |-> r]]

\* readinessPreflightError refuses hosted runs and runs without outputs.
ReadinessAllowed(r) == r \in Runs /\ KindOf[r] # "hosted" /\ r \in mgmt

\* startReadiness acts on whichever run is current.
RequestReadiness(h) ==
  /\ ReadinessAllowed(current)
  /\ Enqueue(h, "readiness", current)
  /\ UNCHANGED <<ops, jobs, recs, current, batch, sweep, interrupted, cloud, used>>

\* startConfiguredDownstreamsForRun, up to its call of startPanelCommand.
DownstreamAllowed(r) ==
  /\ Recorded(r)
  /\ r \in WithDownstreams
  /\ recs[r].status = "ready"
  /\ ~ops["downstream"].running
  /\ recs[r].dstat \notin {"running", "ready"}

RequestDownstream(h, r) ==
  /\ DownstreamAllowed(r)
  /\ Enqueue(h, "downstream", r)
  /\ UNCHANGED <<ops, jobs, recs, current, batch, sweep, interrupted, cloud, used>>

\* startCleanupForRunWithBatch outside a batch: the record is read unlocked.
RequestCleanup(h, r) ==
  /\ Recorded(r)
  /\ Enqueue(h, CleanupOpFor(r), r)
  /\ UNCHANGED <<ops, jobs, recs, current, batch, sweep, interrupted, cloud, used>>

StartRequested(h, w) ==
  LET o == handlers[h].op
      r == handlers[h].run
      stale == Visited(ConflictsWith(o))
  IN  /\ handlers[h].pc = "checked"
      /\ ~batch.running
      /\ Claim(o, r, FALSE, w)
      /\ recs' = IF o = "downstream"
                   THEN WithDownstreamStatus(RecsAfterStale(stale), r, "running")
                   ELSE RecsAfterStale(stale)
      /\ batch' = BatchAfterStart(o)
      /\ handlers' = [handlers EXCEPT ![h] = IdleHandler]
      /\ UNCHANGED <<current, sweep, interrupted, cloud, used>>

\* startPanelCommand returns an error: a batch runs, a conflicting operation
\* runs, or the lifecycle worker cannot be invoked.
RefuseRequested(h) ==
  LET o == handlers[h].op
      stale == IF batch.running THEN {} ELSE Visited(ConflictsWith(o))
  IN  /\ handlers[h].pc = "checked"
      /\ ops' = OpsAfterStale(stale)
      /\ recs' = RecsAfterStale(stale)
      /\ handlers' = [handlers EXCEPT ![h] =
                        IF o = "downstream" THEN [@ EXCEPT !.pc = "refused"] ELSE IdleHandler]
      /\ UNCHANGED <<jobs, current, batch, sweep, interrupted, cloud, used>>

\* A refused downstream start writes the failure into the record.
RecordRefusal(h) ==
  /\ handlers[h].pc = "refused"
  /\ recs' = WithDownstreamStatus(recs, handlers[h].run, "failed")
  /\ handlers' = [handlers EXCEPT ![h] = IdleHandler]
  /\ UNCHANGED <<ops, jobs, current, batch, sweep, interrupted, cloud, used>>

-----------------------------------------------------------------------------
(* runPanelCommand: the goroutine of slot w.                               *)

AtPc(w, pc) == jobs[w].pc = pc

\* panelCommandEnv takes the run id of the operation entry.  A setup uses its
\* paths; any other operation needs the record, and without one it falls back
\* to the current run.
ComputeEnv(w) ==
  LET o == jobs[w].op
      r == ops[o].run
      resolved == IF o \in SetupOps \/ Recorded(r) THEN r ELSE current
  IN  /\ AtPc(w, "launch")
      /\ jobs' = [jobs EXCEPT ![w] = [@ EXCEPT !.target = resolved, !.pc = "spawn"]]
      /\ UNCHANGED <<ops, handlers, recs, current, batch, sweep, interrupted, cloud, used>>

\* A failed start leaves the goroutine without its finish.
BrokenSpawn(w) ==
  /\ AtPc(w, "spawn")
  /\ \/ jobs' = [jobs EXCEPT ![w].pc = "setpid"]
     \/ jobs' = [jobs EXCEPT ![w] = IdleJob]
  /\ UNCHANGED <<ops, handlers, recs, current, batch, sweep, interrupted, cloud, used>>

\* cmd.Start succeeds, or fails as lifecycleInvocation and the pipes before it
\* can; the result of the job is still FALSE then.
Spawn(w) ==
  /\ AtPc(w, "spawn")
  /\ \/ jobs' = [jobs EXCEPT ![w].pc = "setpid"]
     \/ jobs' = [jobs EXCEPT ![w].pc = "finish"]
  /\ UNCHANGED <<ops, handlers, recs, current, batch, sweep, interrupted, cloud, used>>

\* The running batch is destroying the run of this cleanup entry.
BatchOwns(o) == o \in CleanupOps /\ batch.running /\ batch.run = ops[o].run

\* A cancel that came before the pid is forgotten.
BrokenRecordPid(w) ==
  LET o == jobs[w].op IN
  /\ AtPc(w, "setpid")
  /\ ops' = [ops EXCEPT ![o].pid = w]
  /\ batch' = IF BatchOwns(o) THEN [batch EXCEPT !.pid = w] ELSE batch
  /\ jobs' = [jobs EXCEPT ![w].pc = "wait"]
  /\ UNCHANGED <<handlers, recs, current, sweep, interrupted, cloud, used>>

\* setOperationPID mirrors the pid to the batch; a batch that was cancelled
\* before the pid was known has the worker interrupted now.
RecordPid(w) ==
  LET o == jobs[w].op IN
  /\ AtPc(w, "setpid")
  /\ ops' = [ops EXCEPT ![o].pid = w]
  /\ batch' = IF BatchOwns(o) THEN [batch EXCEPT !.pid = w] ELSE batch
  /\ interrupted' = IF BatchOwns(o) /\ batch.cancel THEN interrupted \cup {w} ELSE interrupted
  /\ jobs' = [jobs EXCEPT ![w].pc = "wait"]
  /\ UNCHANGED <<handlers, recs, current, sweep, cloud, used>>

\* A finished entry keeps its run id for display.  The model keeps it only
\* while another goroutine of the same operation can still read it.
RunAfterFinish(w) ==
  IF \E v \in Workers \ {w} : jobs[v].op = jobs[w].op /\ jobs[v].pc \notin {"idle", "record", "after"}
    THEN ops[jobs[w].op].run ELSE NoRun

\* finishPanelCommand under p.mu: the entry of the operation is cleared and
\* the run id to record is taken from that entry.  The error value of a batch
\* child goes to the completion channel.
Finish(w) ==
  LET o == jobs[w].op
      r == ops[o].run
  IN  /\ AtPc(w, "finish")
      /\ ops' = [ops EXCEPT ![o] = [IdleOp EXCEPT !.run = RunAfterFinish(w)]]
      /\ batch' = IF BatchOwns(o) THEN [batch EXCEPT !.pid = NoWorker] ELSE batch
      /\ IF jobs[w].child
           THEN /\ jobs' = [jobs EXCEPT ![w] = IdleJob]
                /\ sweep' = [sweep EXCEPT !.pc = "account", !.ok = jobs[w].ok]
           ELSE /\ jobs' = [jobs EXCEPT ![w] = [@ EXCEPT !.pc = "record", !.out = r]]
                /\ sweep' = sweep
      /\ UNCHANGED <<handlers, recs, current, interrupted, cloud, used>>

\* The result of readiness is ignored.
BrokenOutcomeStatus(o, ok) ==
  CASE o \in SetupOps   -> IF ok THEN "setup_complete" ELSE "setup_failed"
    [] o = "readiness"  -> "ready"
    [] OTHER            -> "cleanup_failed"

OutcomeStatus(o, ok) ==
  CASE o \in SetupOps   -> IF ok THEN "setup_complete" ELSE "setup_failed"
    [] o = "readiness"  -> IF ok THEN "ready" ELSE "readiness_failed"
    [] OTHER            -> "cleanup_failed"

\* AfterSuccess is set for ha and linode setups and for ha readiness.
HasAfterSuccess(w) ==
  /\ jobs[w].ok
  /\ \/ jobs[w].op \in SetupOps /\ KindOf[jobs[w].run] # "hosted"
     \/ jobs[w].op = "readiness" /\ KindOf[jobs[w].run] = "ha"

\* A failed cleanup removes the record too.
BrokenRecordOutcome(w) ==
  LET o == jobs[w].op
      r == jobs[w].out
      ok == jobs[w].ok
  IN  /\ AtPc(w, "record")
      /\ IF o \in CleanupOps
           THEN RemoveRecord(r)
           ELSE SetStatus(r, OutcomeStatus(o, ok))
      /\ jobs' = [jobs EXCEPT ![w] = IdleJob]
      /\ UNCHANGED <<ops, handlers, batch, sweep, interrupted, cloud, used>>

\* A failed downstream operation leaves the status of its run.
LazyRecordOutcome(w) ==
  LET o == jobs[w].op
      r == jobs[w].out
      ok == jobs[w].ok
  IN  /\ AtPc(w, "record")
      /\ IF o = "downstream"
           THEN /\ recs' = IF ok THEN WithDownstreamStatus(recs, r, "ready") ELSE recs
                /\ UNCHANGED current
           ELSE SetStatus(r, OutcomeStatus(o, ok))
      /\ jobs' = [jobs EXCEPT ![w] = IF HasAfterSuccess(w) THEN [@ EXCEPT !.pc = "after"] ELSE IdleJob]
      /\ UNCHANGED <<ops, handlers, batch, sweep, interrupted, cloud, used>>

\* updateRunStatusAfterOperation, after p.mu was released.
RecordOutcome(w) ==
  LET o == jobs[w].op
      r == jobs[w].out
      ok == jobs[w].ok
  IN  /\ AtPc(w, "record")
      /\ \/ /\ o = "downstream"
            /\ recs' = WithDownstreamStatus(recs, r, IF ok THEN "ready" ELSE "failed")
            /\ UNCHANGED current
         \/ o \in CleanupOps /\ ok /\ RemoveRecord(r)
         \/ /\ o # "downstream" /\ ~(o \in CleanupOps /\ ok)
            /\ SetStatus(r, OutcomeStatus(o, ok))
      /\ jobs' = [jobs EXCEPT ![w] = IF HasAfterSuccess(w) THEN [@ EXCEPT !.pc = "after"] ELSE IdleJob]
      /\ UNCHANGED <<ops, handlers, batch, sweep, interrupted, cloud, used>>

\* startReadinessAfterSetup asks for the current run; the preflight may refuse.
AfterSetup(w, h) ==
  /\ AtPc(w, "after") /\ jobs[w].op \in SetupOps
  /\ \/ ReadinessAllowed(current) /\ Enqueue(h, "readiness", current)
     \/ UNCHANGED handlers
  /\ jobs' = [jobs EXCEPT ![w] = IdleJob]
  /\ UNCHANGED <<ops, recs, current, batch, sweep, interrupted, cloud, used>>

\* startConfiguredDownstreamsAfterReadiness names the run it was started with.
\* A check that fails after the plans and status were accepted fails the record.
AfterReadiness(w, h) ==
  LET r == jobs[w].run IN
  /\ AtPc(w, "after") /\ jobs[w].op = "readiness"
  /\ IF DownstreamAllowed(r)
       THEN Enqueue(h, "downstream", r) /\ UNCHANGED recs
       ELSE /\ UNCHANGED handlers
            /\ IF r \in WithDownstreams /\ recs[r].dstat \notin {"running", "ready"}
                 THEN recs' = WithDownstreamStatus(recs, r, "failed")
                 ELSE UNCHANGED recs
  /\ jobs' = [jobs EXCEPT ![w] = IdleJob]
  /\ UNCHANGED <<ops, current, batch, sweep, interrupted, cloud, used>>

-----------------------------------------------------------------------------
(* The worker processes (TestHaSetup, TestHAWaitReady, TestHACleanup,      *)
(* TestHAProvisionConfiguredLinodeDownstreams) act on their target run.    *)

Provision(w) ==
  /\ Alive(w) /\ jobs[w].op \in SetupOps
  /\ mgmt' = mgmt \cup {jobs[w].target}
  /\ UNCHANGED <<ops, jobs, handlers, recs, current, batch, sweep, interrupted, ds, used>>

ProvisionDownstream(w) ==
  /\ Alive(w) /\ jobs[w].op = "downstream"
  /\ jobs[w].target \in mgmt
  /\ ds' = ds \cup {jobs[w].target}
  /\ UNCHANGED <<ops, jobs, handlers, recs, current, batch, sweep, interrupted, mgmt, used>>

\* A cleanup deletes the recorded downstream clusters, and only when that has
\* succeeded it destroys what Terraform holds.
DeleteDownstreams(w) ==
  /\ Alive(w) /\ jobs[w].op \in CleanupOps
  /\ jobs[w].phase = "start" /\ jobs[w].target \in Runs
  /\ ds' = ds \ {jobs[w].target}
  /\ jobs' = [jobs EXCEPT ![w].phase = "swept"]
  /\ UNCHANGED <<ops, handlers, recs, current, batch, sweep, interrupted, mgmt, used>>

Destroy(w) ==
  /\ Alive(w) /\ jobs[w].op \in CleanupOps
  /\ jobs[w].phase = "swept"
  /\ mgmt' = mgmt \ {jobs[w].target}
  /\ jobs' = [jobs EXCEPT ![w].phase = "destroyed"]
  /\ UNCHANGED <<ops, handlers, recs, current, batch, sweep, interrupted, ds, used>>

\* What a worker must have achieved to exit with status zero.
Achieved(w) ==
  LET t == jobs[w].target IN
  CASE jobs[w].op \in SetupOps     -> t \in mgmt
    [] jobs[w].op = "readiness"    -> t \in mgmt
    [] jobs[w].op = "downstream"   -> t \in ds
    [] jobs[w].op \in CleanupOps   -> jobs[w].phase = "destroyed"

\* The worker exits and is reaped: by cmd.Wait in its goroutine, or by init
\* when the panel that started it is gone.
WorkerExit(w, ok) ==
  /\ jobs[w].pc \in {"wait", "orphan"}
  /\ ok => Achieved(w)
  /\ jobs' = [jobs EXCEPT ![w] = IF @.pc = "wait"
                                   THEN [@ EXCEPT !.pc = "finish", !.ok = ok, !.phase = "start"]
                                   ELSE IdleJob]
  /\ interrupted' = interrupted \ {w}
  /\ UNCHANGED <<ops, handlers, recs, current, batch, sweep, cloud, used>>

-----------------------------------------------------------------------------
(* The cleanup batch.                                                      *)

\* resolveCleanupBatchRunIDs and startCleanupBatch: any selection of recorded
\* runs, refused while a cloud operation runs.
StartBatch(S) ==
  /\ S # {} /\ \A r \in S : Recorded(r)
  /\ ~batch.running
  /\ ~Blocked(Ops)
  /\ ops' = OpsAfterStale(Visited(Ops))
  /\ recs' = RecsAfterStale(Visited(Ops))
  /\ batch' = [IdleBatch EXCEPT !.running = TRUE, !.ids = S]
  /\ sweep' = [IdleSweep EXCEPT !.pc = "next", !.todo = S]
  /\ UNCHANGED <<jobs, handlers, current, interrupted, cloud, used>>

\* runCleanupBatch, head of its loop, under p.mu.
SweepNext ==
  /\ sweep.pc = "next"
  /\ IF sweep.todo = {} \/ ~batch.running \/ batch.cancel
       THEN /\ sweep' = [sweep EXCEPT !.pc = "close"]
            /\ UNCHANGED batch
       ELSE \E r \in sweep.todo :
              /\ batch' = [batch EXCEPT !.run = r, !.pid = NoWorker]
              /\ sweep' = [sweep EXCEPT !.pc = "read", !.run = r, !.todo = @ \ {r}]
  /\ UNCHANGED <<ops, jobs, handlers, recs, current, interrupted, cloud, used>>

\* The child reads its record; without one the item has failed.
SweepRead ==
  /\ sweep.pc = "read"
  /\ sweep' = IF Recorded(sweep.run)
                THEN [sweep EXCEPT !.pc = "lock"]
                ELSE [sweep EXCEPT !.pc = "account", !.ok = FALSE]
  /\ UNCHANGED <<ops, jobs, handlers, recs, current, batch, interrupted, cloud, used>>

\* The next child is started although the batch was cancelled.
BrokenSweepStart(w) ==
  LET o == CleanupOpFor(sweep.run) IN
  /\ sweep.pc = "lock"
  /\ Claim(o, sweep.run, TRUE, w)
  /\ sweep' = [sweep EXCEPT !.pc = "await"]
  /\ UNCHANGED <<handlers, recs, current, batch, interrupted, cloud, used>>

\* startPanelCommand for a batch child.
SweepStart(w) ==
  LET o == CleanupOpFor(sweep.run) IN
  /\ sweep.pc = "lock"
  /\ batch.running /\ ~batch.cancel
  /\ Claim(o, sweep.run, TRUE, w)
  /\ recs' = RecsAfterStale(Visited(ConflictsWith(o)))
  /\ sweep' = [sweep EXCEPT !.pc = "await"]
  /\ UNCHANGED <<handlers, current, batch, interrupted, cloud, used>>

\* The error of a refused start is dropped and the child is awaited.
BrokenSweepRefused ==
  /\ sweep.pc = "lock"
  /\ sweep' = [sweep EXCEPT !.pc = IF ~batch.running \/ batch.cancel THEN "close" ELSE "await"]
  /\ UNCHANGED <<ops, jobs, handlers, recs, current, batch, interrupted, cloud, used>>

\* The child is not started: the batch was cancelled, which ends the loop, or
\* startPanelCommand failed, which fails the item.
SweepRefused ==
  LET stop == ~batch.running \/ batch.cancel
      stale == IF stop THEN {} ELSE Visited(ConflictsWith(CleanupOpFor(sweep.run)))
  IN  /\ sweep.pc = "lock"
      /\ ops' = OpsAfterStale(stale)
      /\ recs' = RecsAfterStale(stale)
      /\ sweep' = IF stop THEN [sweep EXCEPT !.pc = "close"]
                          ELSE [sweep EXCEPT !.pc = "account", !.ok = FALSE]
      /\ UNCHANGED <<jobs, handlers, current, batch, interrupted, cloud, used>>

\* finishCleanupBatchItem, its record operation and then its critical section.
SweepAccount ==
  /\ sweep.pc = "account"
  /\ IF sweep.ok THEN RemoveRecord(sweep.run) ELSE SetStatus(sweep.run, "cleanup_failed")
  /\ sweep' = [sweep EXCEPT !.pc = "tally"]
  /\ UNCHANGED <<ops, jobs, handlers, batch, interrupted, cloud, used>>

\* A failed item counts as done.
BrokenSweepTally ==
  /\ sweep.pc = "tally"
  /\ batch' = [batch EXCEPT !.pid = NoWorker, !.run = NoRun, !.done = @ \cup {sweep.run}]
  /\ sweep' = [sweep EXCEPT !.pc = "next", !.run = NoRun]
  /\ UNCHANGED <<ops, jobs, handlers, recs, current, interrupted, cloud, used>>

SweepTally ==
  /\ sweep.pc = "tally"
  /\ batch' = [batch EXCEPT !.pid = NoWorker, !.run = NoRun,
                            !.done = IF sweep.ok THEN @ \cup {sweep.run} ELSE @,
                            !.failed = IF sweep.ok THEN @ ELSE @ \cup {sweep.run}]
  /\ sweep' = [sweep EXCEPT !.pc = "next", !.run = NoRun]
  /\ UNCHANGED <<ops, jobs, handlers, recs, current, interrupted, cloud, used>>

\* finishCleanupBatch.
SweepClose ==
  /\ sweep.pc = "close"
  /\ batch' = IF batch.running THEN [batch EXCEPT !.running = FALSE, !.pid = NoWorker, !.run = NoRun]
                               ELSE batch
  /\ sweep' = IdleSweep
  /\ UNCHANGED <<ops, jobs, handlers, recs, current, interrupted, cloud, used>>

-----------------------------------------------------------------------------
(* abortOperation and the restart of the panel.                            *)

Signalled(p) ==
  IF p # NoWorker /\ Alive(p) /\ jobs[p].child THEN interrupted \cup {p} ELSE interrupted

AbortBatch ==
  /\ batch.running
  /\ batch' = [batch EXCEPT !.cancel = TRUE]
  /\ interrupted' = Signalled(batch.pid)
  /\ UNCHANGED <<ops, jobs, handlers, recs, current, sweep, cloud, used>>

\* Stopping the cleanup that a batch is waiting for cancels the batch.
AbortOperation(o) ==
  /\ ops[o].running
  /\ batch' = IF BatchOwns(o) THEN [batch EXCEPT !.cancel = TRUE] ELSE batch
  /\ interrupted' = Signalled(ops[o].pid)
  /\ UNCHANGED <<ops, jobs, handlers, recs, current, sweep, cloud, used>>

\* The panel dies and a new one loads the persisted table: every goroutine is
\* gone, worker processes survive in their own process groups, the batch is
\* marked stale, and so is every running entry without a live pid.
Restart ==
  LET stale == {o \in Ops : ops[o].running /\ (ops[o].pid = NoWorker \/ ~Alive(ops[o].pid))}
  IN  /\ "restart" \in Faults
      /\ "spawnCrash" \in Faults \/ \A w \in Workers : ~AtPc(w, "setpid")
      /\ ops' = OpsAfterStale(stale)
      /\ recs' = RecsAfterStale(stale)
      /\ jobs' = [w \in Workers |-> IF Alive(w) THEN [jobs[w] EXCEPT !.pc = "orphan", !.child = FALSE]
                                                ELSE IdleJob]
      /\ handlers' = [h \in Handlers |-> IdleHandler]
      /\ batch' = IF batch.running THEN [batch EXCEPT !.running = FALSE, !.pid = NoWorker] ELSE batch
      /\ sweep' = IdleSweep
      /\ interrupted' = {}
      /\ UNCHANGED <<current, cloud, used>>

-----------------------------------------------------------------------------
HandlerStep(h) ==
  \/ "readiness" \in Requests /\ RequestReadiness(h)
  \/ "downstream" \in Requests /\ \E r \in Runs : RequestDownstream(h, r)
  \/ "cleanup" \in Requests /\ \E r \in Runs : RequestCleanup(h, r)
  \/ \E w \in Workers : StartRequested(h, w)
  \/ RefuseRequested(h)
  \/ RecordRefusal(h)

JobStep(w) ==
  \/ ComputeEnv(w) \/ Spawn(w) \/ RecordPid(w) \/ Finish(w) \/ RecordOutcome(w)
  \/ \E h \in Handlers : AfterSetup(w, h) \/ AfterReadiness(w, h)

WorkerStep(w) ==
  \/ Provision(w) \/ ProvisionDownstream(w) \/ DeleteDownstreams(w) \/ Destroy(w)
  \/ \E ok \in BOOLEAN : WorkerExit(w, ok)

SweepStep ==
  \/ SweepNext \/ SweepRead \/ SweepRefused \/ SweepAccount \/ SweepTally \/ SweepClose
  \/ \E w \in Workers : SweepStart(w)

Next ==
  \/ "setup" \in Requests /\ \E r \in Runs, w \in Workers : StartSetup(r, w)
  \/ \E h \in Handlers : HandlerStep(h)
  \/ \E w \in Workers : JobStep(w) \/ WorkerStep(w)
  \/ "batch" \in Requests /\ \E S \in SUBSET Runs : StartBatch(S)
  \/ SweepStep
  \/ \E o \in Ops : Poll(o)
  \/ "stop" \in Requests /\ (AbortBatch \/ \E o \in Ops : AbortOperation(o))
  \/ Restart

Spec == Init /\ [][Next]_vars

\* Goroutines are scheduled, an accepted request reaches the lock, a worker ends
\* at the latest at its -test.timeout, and an open panel polls its state.
Fairness ==
  /\ WF_vars(SweepStep)
  /\ \A w \in Workers : WF_vars(JobStep(w)) /\ WF_vars(\E ok \in BOOLEAN : WorkerExit(w, ok))
  /\ \A h \in Handlers : WF_vars(\/ \E w \in Workers : StartRequested(h, w)
                                 \/ RefuseRequested(h) \/ RecordRefusal(h))
  /\ WF_vars(\E o \in Ops : Poll(o))

FairSpec == Spec /\ Fairness

-----------------------------------------------------------------------------
(* Properties of the lifecycle.                                            *)

\* Cloud resources always belong to a recorded slot: no order of starts, stops,
\* polls and restarts leaves a Terraform state that no run record names
\* (removeRunRecord, createCurrentRunRecord).
NoOrphanedInfrastructure == \A r \in mgmt : Recorded(r)

\* Downstream clusters never outlive the management Rancher that manages them:
\* a cleanup destroys it only when no downstream worker can still add one.
NoStrandedDownstreams == ds \subseteq mgmt

\* Worker processes of operations that conflict never coexist, whether their
\* panel is still the one that started them or not.
SerializedWorkers ==
  \A v, w \in Workers :
    v # w /\ Alive(v) /\ Alive(w) => jobs[v].op \notin ConflictsWith(jobs[w].op)

\* A record becomes ready only by a readiness worker that verified that very
\* run, and its downstreams only by a worker that provisioned them.
EarnedBy(w, op, r) ==
  /\ AtPc(w, "record") /\ jobs[w].ok
  /\ jobs[w].op = op /\ jobs[w].target = r

EarnedStatuses ==
  [][\A r \in Runs :
       /\ recs'[r].status = "ready" /\ recs[r].status # "ready" =>
            \E w \in Workers : EarnedBy(w, "readiness", r)
       /\ recs'[r].dstat = "ready" /\ recs[r].dstat # "ready" =>
            \E w \in Workers : EarnedBy(w, "downstream", r)]_vars

\* While a batch runs it holds the whole operation table: the only entry that
\* can run is the cleanup of the run the batch is at.
BatchIsExclusive ==
  batch.running =>
    \A o \in Ops : ops[o].running => /\ ops[o].run = batch.run /\ sweep.run = batch.run
                                     /\ o = CleanupOpFor(ops[o].run)

\* A cancelled batch has interrupted the worker it waits for, even when the
\* request came before the pid of the worker was known.
CancelReachesWorker ==
  batch.running /\ batch.cancel =>
    \A w \in Workers : AtPc(w, "wait") /\ jobs[w].child => w \in interrupted

\* Every run of a batch is accounted for exactly once, and what it reports as
\* done is destroyed and no longer recorded.
BatchAccounting ==
  /\ batch.done \cap batch.failed = {}
  /\ \A r \in batch.done : r \notin mgmt /\ ~Recorded(r)
  /\ sweep.pc = "close" /\ ~batch.cancel => batch.done \cup batch.failed = batch.ids

\* A downstream status of running has someone who will still change it: the
\* retry path refuses such a record, so it would be stuck otherwise.
DownstreamHasOwner ==
  \A r \in Runs : recs[r].dstat = "running" =>
    \/ ops["downstream"].running /\ ops["downstream"].run = r
    \/ \E w \in Workers : AtPc(w, "record") /\ jobs[w].op = "downstream" /\ jobs[w].out = r

\* Once a batch is cancelled, none of its queued runs gets a cleanup worker.
CancelStopsQueue ==
  [][batch.running /\ batch.cancel =>
       \A w \in Workers : ~(AtPc(w, "idle") /\ jobs'[w].pc = "launch" /\ jobs'[w].child)]_vars

\* A started batch ends, whatever its children do and whenever it is cancelled:
\* no order of events leaves runCleanupBatch waiting for a completion.
BatchEnds == batch.running ~> ~batch.running

\* Without restarts every started operation gives its entry back.
OperationsEnd == \A o \in Ops : ops[o].running ~> ~ops[o].running

\* No worker blocks the table for ever: its pid leaves the entry when its
\* goroutine finishes or, after restarts at any point, when a poll or the next
\* start finds it dead.
TrackedPidLeaves ==
  \A o \in Ops, w \in Workers : ops[o].pid = w ~> ops[o].pid # w

\* Provisioning of downstreams always reaches a verdict that can be retried.
DownstreamSettles ==
  \A r \in Runs : recs[r].dstat = "running" ~> recs[r].dstat # "running"
=============================================================================
