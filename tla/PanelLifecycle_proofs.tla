----------------------- MODULE PanelLifecycle_proofs -----------------------
(***************************************************************************)
(* The inductive invariant of PanelLifecycle and what follows from it, for *)
(* every set of runs, workers and handlers.                                *)
(***************************************************************************)
EXTENDS PanelInvariant, TLAPS

-----------------------------------------------------------------------------
(* Types.                                                                  *)

LEMMA OpEntryUpdates ==
  ASSUME NEW e \in OpEntry
  PROVE  /\ e.run \in RunOrNone /\ e.pid \in PidOrNone
         /\ [e EXCEPT !.running = FALSE, !.pid = NoWorker] \in OpEntry
         /\ \A p \in PidOrNone : [e EXCEPT !.pid = p] \in OpEntry
         /\ \A r \in RunOrNone : [running |-> TRUE, pid |-> NoWorker, run |-> r] \in OpEntry
         /\ \A r \in RunOrNone : [IdleOp EXCEPT !.run = r] \in OpEntry
BY DEF OpEntry, PidOrNone, IdleOp

LEMMA RecordUpdates ==
  ASSUME NEW e \in RunRecord
  PROVE  /\ \A s \in DownstreamStatuses : [e EXCEPT !.dstat = s] \in RunRecord
         /\ \A s \in Statuses : [e EXCEPT !.status = s] \in RunRecord
BY DEF RunRecord

LEMMA DownstreamStatusType ==
  ASSUME NEW rs \in [Runs -> RunRecord], NEW r, NEW s \in DownstreamStatuses
  PROVE  WithDownstreamStatus(rs, r, s) \in [Runs -> RunRecord]
BY RecordUpdates DEF WithDownstreamStatus

LEMMA StaleTypes ==
  ASSUME TypeOK, NEW S
  PROVE  /\ OpsAfterStale(S) \in [Ops -> OpEntry]
         /\ RecsAfterStale(S) \in [Runs -> RunRecord]
<1>1. OpsAfterStale(S) \in [Ops -> OpEntry]
  BY OpEntryUpdates DEF TypeOK, OpsAfterStale
<1>2. RecsAfterStale(S) \in [Runs -> RunRecord]
  BY DownstreamStatusType DEF TypeOK, RecsAfterStale, DownstreamStatuses
<1> QED
  BY <1>1, <1>2

LEMMA JobUpdates ==
  ASSUME NEW j \in Job
  PROVE  /\ IdleJob \in Job
         /\ j.op \in Ops /\ j.run \in RunOrNone /\ j.out \in RunOrNone /\ j.target \in RunOrNone
         /\ j.ok \in BOOLEAN /\ j.child \in BOOLEAN /\ j.pc \in JobPcs
         /\ \A pc \in JobPcs : [j EXCEPT !.pc = pc] \in Job
         /\ \A r \in RunOrNone : [j EXCEPT !.target = r, !.pc = "spawn"] \in Job
         /\ \A r \in RunOrNone : [j EXCEPT !.pc = "record", !.out = r] \in Job
         /\ \A ph \in Phases : [j EXCEPT !.phase = ph] \in Job
         /\ [j EXCEPT !.pc = "orphan", !.child = FALSE] \in Job
         /\ \A ok \in BOOLEAN : [j EXCEPT !.pc = "finish", !.ok = ok, !.phase = "start"] \in Job
         /\ \A o \in Ops, r \in RunOrNone, c \in BOOLEAN :
              [IdleJob EXCEPT !.pc = "launch", !.op = o, !.run = r, !.child = c] \in Job
BY DEF Job, IdleJob, JobPcs, Phases, Ops, RunOrNone

LEMMA BatchUpdates ==
  ASSUME NEW b \in Batch
  PROVE  /\ IdleBatch \in Batch
         /\ b.pid \in PidOrNone /\ b.run \in RunOrNone
         /\ \A p \in PidOrNone : [b EXCEPT !.pid = p] \in Batch
         /\ [b EXCEPT !.cancel = TRUE] \in Batch
         /\ \A r \in Runs : [b EXCEPT !.run = r, !.pid = NoWorker] \in Batch
         /\ [b EXCEPT !.running = FALSE, !.pid = NoWorker] \in Batch
         /\ [b EXCEPT !.running = FALSE, !.pid = NoWorker, !.run = NoRun] \in Batch
         /\ \A S \in SUBSET Runs : [IdleBatch EXCEPT !.running = TRUE, !.ids = S] \in Batch
BY DEF Batch, IdleBatch, PidOrNone, RunOrNone

LEMMA SweepUpdates ==
  ASSUME NEW s \in Sweep
  PROVE  /\ IdleSweep \in Sweep
         /\ s.run \in RunOrNone /\ s.todo \in SUBSET Runs /\ s.ok \in BOOLEAN
         /\ \A pc \in SweepPcs : [s EXCEPT !.pc = pc] \in Sweep
         /\ \A ok \in BOOLEAN : [s EXCEPT !.pc = "account", !.ok = ok] \in Sweep
         /\ [s EXCEPT !.pc = "next", !.run = NoRun] \in Sweep
         /\ \A r \in Runs, S \in SUBSET Runs : [s EXCEPT !.pc = "read", !.run = r, !.todo = S] \in Sweep
         /\ \A S \in SUBSET Runs : [IdleSweep EXCEPT !.pc = "next", !.todo = S] \in Sweep
BY DEF Sweep, IdleSweep, SweepPcs, RunOrNone

LEMMA HandlerUpdates ==
  ASSUME NEW h \in Handler
  PROVE  /\ IdleHandler \in Handler
         /\ h.op \in Ops /\ h.run \in RunOrNone
         /\ [h EXCEPT !.pc = "refused"] \in Handler
         /\ \A o \in Ops, r \in RunOrNone : [pc |-> "checked", op |-> o, run |-> r] \in Handler
BY DEF Handler, IdleHandler, Ops, RunOrNone

LEMMA TypeInit == ASSUME Init PROVE TypeOK
BY DEF Init, TypeOK, IdleOp, IdleJob, IdleHandler, IdleBatch, IdleSweep, NoRecord, OpEntry, Job,
       Handler, RunRecord, Batch, Sweep, RunOrNone, PidOrNone, JobPcs, SweepPcs, Phases,
       Statuses, DownstreamStatuses, Ops

\* The types of what the parts of an action write.
LEMMA ClaimTypes ==
  ASSUME TypeOK, NEW o \in Ops, NEW r \in RunOrNone, NEW c \in BOOLEAN, NEW w \in Workers, Claim(o, r, c, w)
  PROVE  ops' \in [Ops -> OpEntry] /\ jobs' \in [Workers -> Job]
<1> DEFINE f == OpsAfterStale(Visited(ConflictsWith(o)))
<1>1. f \in [Ops -> OpEntry]
  BY StaleTypes
<1>2. ops' = [f EXCEPT ![o] = [running |-> TRUE, pid |-> NoWorker, run |-> r]]
  BY DEF Claim
<1>3. [running |-> TRUE, pid |-> NoWorker, run |-> r] \in OpEntry
  BY DEF OpEntry, PidOrNone, RunOrNone
<1>4. [IdleJob EXCEPT !.pc = "launch", !.op = o, !.run = r, !.child = c] \in Job
  BY DEF Job, IdleJob, JobPcs, Phases, Ops, RunOrNone
<1>5. jobs' \in [Workers -> Job]
  BY <1>4 DEF Claim, TypeOK
<1> HIDE DEF f
<1> QED
  BY <1>1, <1>2, <1>3, <1>5

LEMMA OpFor ==
  ASSUME NEW r \in Runs
  PROVE  SetupOpFor(r) \in SetupOps /\ CleanupOpFor(r) \in CleanupOps
BY DEF SetupOpFor, CleanupOpFor, SetupOps, CleanupOps

LEMMA OpSets == SetupOps \subseteq Ops /\ CleanupOps \subseteq Ops /\ "readiness" \in Ops /\ "downstream" \in Ops
BY DEF SetupOps, CleanupOps, Ops

LEMMA EnqueueTypes ==
  ASSUME TypeOK, NEW h \in Handlers, NEW o \in Ops, NEW r \in Runs, Enqueue(h, o, r)
  PROVE  handlers' \in [Handlers -> Handler]
<1>1. [pc |-> "checked", op |-> o, run |-> r] \in Handler
  BY DEF Handler, RunOrNone
<1> QED
  BY <1>1 DEF TypeOK, Enqueue

LEMMA RecordTypes ==
  ASSUME TypeOK, NEW r
  PROVE  /\ RemoveRecord(r) => recs' \in [Runs -> RunRecord] /\ current' \in RunOrNone
         /\ \A s \in Statuses : SetStatus(r, s) => recs' \in [Runs -> RunRecord] /\ current' \in RunOrNone
<1>1. NoRecord \in RunRecord
  BY DEF NoRecord, RunRecord, Statuses, DownstreamStatuses
<1>2. ASSUME RemoveRecord(r) PROVE recs' \in [Runs -> RunRecord] /\ current' \in RunOrNone
  BY <1>1, <1>2 DEF RemoveRecord, TypeOK, RunOrNone
<1>3. ASSUME NEW s \in Statuses, SetStatus(r, s) PROVE recs' \in [Runs -> RunRecord] /\ current' \in RunOrNone
  BY <1>3, RecordUpdates DEF SetStatus, TypeOK, RunOrNone, Recorded
<1> QED
  BY <1>2, <1>3

LEMMA TypeNext ==
  ASSUME TypeOK, OwnerInv, RecordInv, SweepInv, [Next]_vars
  PROVE  TypeOK'
<1>1. ASSUME NEW r \in Runs, NEW w \in Workers, StartSetup(r, w) PROVE TypeOK'
  <2>1. ops' \in [Ops -> OpEntry] /\ jobs' \in [Workers -> Job]
    BY <1>1, ClaimTypes, OpFor, OpSets DEF StartSetup, RunOrNone
  <2>2. recs' \in [Runs -> RunRecord]
    <3>1. RecsAfterStale(Visited(ConflictsWith(SetupOpFor(r)))) \in [Runs -> RunRecord]
      BY StaleTypes
    <3>2. [status |-> "setup_running", dstat |-> IF r \in WithDownstreams THEN "pending" ELSE "none"]
            \in RunRecord
      BY DEF RunRecord, Statuses, DownstreamStatuses
    <3> QED
      BY <1>1, <3>1, <3>2 DEF StartSetup
  <2> QED
    BY <1>1, <2>1, <2>2 DEF TypeOK, StartSetup, cloud, RunOrNone
<1>2. ASSUME NEW h \in Handlers, RequestReadiness(h) PROVE TypeOK'
  BY <1>2, EnqueueTypes, OpSets DEF RequestReadiness, ReadinessAllowed, TypeOK, cloud
<1>3. ASSUME NEW h \in Handlers, NEW r \in Runs, RequestDownstream(h, r) PROVE TypeOK'
  BY <1>3, EnqueueTypes, OpSets DEF RequestDownstream, TypeOK, cloud
<1>4. ASSUME NEW h \in Handlers, NEW r \in Runs, RequestCleanup(h, r) PROVE TypeOK'
  BY <1>4, EnqueueTypes, OpSets, OpFor DEF RequestCleanup, TypeOK, cloud
<1>5. ASSUME NEW h \in Handlers, NEW w \in Workers, StartRequested(h, w) PROVE TypeOK'
  <2> DEFINE o == handlers[h].op
             S == Visited(ConflictsWith(o))
  <2>1. o \in Ops /\ handlers[h].run \in RunOrNone
    BY HandlerUpdates DEF TypeOK
  <2>2. ops' \in [Ops -> OpEntry] /\ jobs' \in [Workers -> Job]
    BY <1>5, <2>1, ClaimTypes DEF StartRequested
  <2>3. RecsAfterStale(S) \in [Runs -> RunRecord]
    BY StaleTypes
  <2>4. recs' \in [Runs -> RunRecord]
    BY <1>5, <2>3, DownstreamStatusType DEF StartRequested, DownstreamStatuses
  <2>5. handlers' \in [Handlers -> Handler]
    BY <1>5, HandlerUpdates DEF StartRequested, TypeOK
  <2>6. batch' \in Batch
    BY <1>5, BatchUpdates DEF StartRequested, BatchAfterStart, TypeOK
  <2> QED
    BY <1>5, <2>2, <2>4, <2>5, <2>6 DEF StartRequested, TypeOK, cloud
<1>6. ASSUME NEW h \in Handlers, RefuseRequested(h) PROVE TypeOK'
  <2> DEFINE S == IF batch.running THEN {} ELSE Visited(ConflictsWith(handlers[h].op))
  <2>1. OpsAfterStale(S) \in [Ops -> OpEntry] /\ RecsAfterStale(S) \in [Runs -> RunRecord]
    BY StaleTypes
  <2>2. handlers' \in [Handlers -> Handler]
    BY <1>6, HandlerUpdates DEF RefuseRequested, TypeOK
  <2> QED
    BY <1>6, <2>1, <2>2 DEF RefuseRequested, TypeOK, cloud
<1>7. ASSUME NEW h \in Handlers, RecordRefusal(h) PROVE TypeOK'
  <2>1. handlers' \in [Handlers -> Handler]
    BY <1>7, HandlerUpdates DEF RecordRefusal, TypeOK
  <2>2. recs' \in [Runs -> RunRecord]
    BY <1>7, DownstreamStatusType DEF RecordRefusal, TypeOK, DownstreamStatuses
  <2> QED
    BY <1>7, <2>1, <2>2 DEF RecordRefusal, TypeOK, cloud
<1>8. ASSUME NEW w \in Workers, ComputeEnv(w) PROVE TypeOK'
  <2>1. jobs' \in [Workers -> Job]
    BY <1>8, JobUpdates, OpEntryUpdates DEF ComputeEnv, TypeOK
  <2> QED
    BY <1>8, <2>1 DEF ComputeEnv, TypeOK, cloud
<1>9. ASSUME NEW w \in Workers, Spawn(w) PROVE TypeOK'
  <2>1. jobs' \in [Workers -> Job]
    <3>1. \A pc \in JobPcs : [jobs EXCEPT ![w].pc = pc] \in [Workers -> Job]
      BY JobUpdates DEF TypeOK
    <3>2. "setpid" \in JobPcs /\ "finish" \in JobPcs
      BY DEF JobPcs
    <3> QED
      BY <1>9, <3>1, <3>2 DEF Spawn
  <2> QED
    BY <1>9, <2>1 DEF Spawn, TypeOK, cloud
<1>10. ASSUME NEW w \in Workers, RecordPid(w) PROVE TypeOK'
  <2>1. jobs' \in [Workers -> Job]
    BY <1>10, JobUpdates DEF RecordPid, TypeOK, JobPcs
  <2>2. ops' \in [Ops -> OpEntry]
    BY <1>10, JobUpdates, OpEntryUpdates DEF RecordPid, TypeOK, PidOrNone
  <2>3. batch' \in Batch
    BY <1>10, BatchUpdates DEF RecordPid, TypeOK, PidOrNone
  <2> QED
    BY <1>10, <2>1, <2>2, <2>3 DEF RecordPid, TypeOK, cloud
<1>11. ASSUME NEW w \in Workers, Finish(w) PROVE TypeOK'
  <2> DEFINE o == jobs[w].op
  <2>1. o \in Ops /\ ops[o] \in OpEntry /\ ops[o].run \in RunOrNone
    BY JobUpdates, OpEntryUpdates DEF TypeOK
  <2>2. ops' \in [Ops -> OpEntry]
    BY <1>11, <2>1, OpEntryUpdates DEF Finish, RunAfterFinish, TypeOK, RunOrNone
  <2>3. batch' \in Batch
    BY <1>11, BatchUpdates DEF Finish, TypeOK, PidOrNone
  <2>4. jobs' \in [Workers -> Job]
    <3>1. [jobs EXCEPT ![w] = IdleJob] \in [Workers -> Job]
      BY JobUpdates DEF TypeOK
    <3>2. [jobs EXCEPT ![w] = [@ EXCEPT !.pc = "record", !.out = ops[o].run]] \in [Workers -> Job]
      BY <2>1, JobUpdates DEF TypeOK
    <3> QED
      BY <1>11, <3>1, <3>2 DEF Finish
  <2>5. sweep' \in Sweep
    <3>1. jobs[w].ok \in BOOLEAN /\ sweep \in Sweep
      BY JobUpdates DEF TypeOK
    <3>2. [sweep EXCEPT !.pc = "account", !.ok = jobs[w].ok] \in Sweep
      BY <3>1, SweepUpdates
    <3> QED
      BY <1>11, <3>1, <3>2 DEF Finish
  <2> QED
    BY <1>11, <2>2, <2>3, <2>4, <2>5 DEF Finish, TypeOK, cloud
<1>12. ASSUME NEW w \in Workers, RecordOutcome(w) PROVE TypeOK'
  <2>1. recs' \in [Runs -> RunRecord] /\ current' \in RunOrNone
    <3>1. OutcomeStatus(jobs[w].op, jobs[w].ok) \in Statuses
      BY DEF OutcomeStatus, Statuses
    <3>2. \A s \in DownstreamStatuses : WithDownstreamStatus(recs, jobs[w].out, s) \in [Runs -> RunRecord]
      BY DownstreamStatusType DEF TypeOK
    <3>3. "ready" \in DownstreamStatuses /\ "failed" \in DownstreamStatuses
      BY DEF DownstreamStatuses
    <3> QED
      BY <1>12, <3>1, <3>2, <3>3, RecordTypes DEF RecordOutcome, TypeOK
  <2>2. jobs' \in [Workers -> Job]
    BY <1>12, JobUpdates DEF RecordOutcome, TypeOK, JobPcs
  <2> QED
    BY <1>12, <2>1, <2>2 DEF RecordOutcome, TypeOK, cloud
<1>13. ASSUME NEW w \in Workers, NEW h \in Handlers, AfterSetup(w, h) PROVE TypeOK'
  <2>1. jobs' \in [Workers -> Job]
    BY <1>13, JobUpdates DEF AfterSetup, TypeOK
  <2>2. handlers' \in [Handlers -> Handler]
    BY <1>13, EnqueueTypes, OpSets DEF AfterSetup, ReadinessAllowed, TypeOK
  <2> QED
    BY <1>13, <2>1, <2>2 DEF AfterSetup, TypeOK, cloud
<1>14. ASSUME NEW w \in Workers, NEW h \in Handlers, AfterReadiness(w, h) PROVE TypeOK'
  <2>1. jobs' \in [Workers -> Job]
    BY <1>14, JobUpdates DEF AfterReadiness, TypeOK
  <2>2. handlers' \in [Handlers -> Handler]
    BY <1>14, EnqueueTypes, OpSets DEF AfterReadiness, DownstreamAllowed, Recorded, TypeOK
  <2>3. recs' \in [Runs -> RunRecord]
    BY <1>14, DownstreamStatusType DEF AfterReadiness, TypeOK, DownstreamStatuses
  <2> QED
    BY <1>14, <2>1, <2>2, <2>3 DEF AfterReadiness, TypeOK, cloud
<1>15. ASSUME NEW w \in Workers, Provision(w) PROVE TypeOK'
  <2>1. jobs[w].target \in Runs
    <3>1. Owns(w) /\ Unfinished(w) /\ jobs[w].pc # "launch"
      BY <1>15 DEF Provision, Alive, Owns, Unfinished
    <3>2. jobs[w].run \in Runs
      BY <3>1 DEF OwnerInv, OwnerOK, TypeOK
    <3> QED
      BY <1>15, <3>1, <3>2 DEF Provision, RecordInv, SettingUp
  <2> QED
    BY <1>15, <2>1 DEF Provision, TypeOK
<1>16. ASSUME NEW w \in Workers, ProvisionDownstream(w) PROVE TypeOK'
  BY <1>16 DEF ProvisionDownstream, TypeOK
<1>17. ASSUME NEW w \in Workers, DeleteDownstreams(w) PROVE TypeOK'
  <2>1. jobs' \in [Workers -> Job]
    BY <1>17, JobUpdates DEF DeleteDownstreams, TypeOK, Phases
  <2> QED
    BY <1>17, <2>1 DEF DeleteDownstreams, TypeOK
<1>18. ASSUME NEW w \in Workers, Destroy(w) PROVE TypeOK'
  <2>1. jobs' \in [Workers -> Job]
    BY <1>18, JobUpdates DEF Destroy, TypeOK, Phases
  <2> QED
    BY <1>18, <2>1 DEF Destroy, TypeOK
<1>19. ASSUME NEW w \in Workers, NEW ok \in BOOLEAN, WorkerExit(w, ok) PROVE TypeOK'
  <2>1. jobs' \in [Workers -> Job]
    BY <1>19, JobUpdates DEF WorkerExit, TypeOK
  <2>2. interrupted' \subseteq Workers
    BY <1>19 DEF WorkerExit, TypeOK
  <2> QED
    BY <1>19, <2>1, <2>2 DEF WorkerExit, TypeOK, cloud
<1>20. ASSUME NEW S \in SUBSET Runs, StartBatch(S) PROVE TypeOK'
  <2>1. OpsAfterStale(Visited(Ops)) \in [Ops -> OpEntry] /\ RecsAfterStale(Visited(Ops)) \in [Runs -> RunRecord]
    BY StaleTypes
  <2>2. batch' \in Batch
    BY <1>20, BatchUpdates DEF StartBatch, TypeOK
  <2>3. sweep' \in Sweep
    BY <1>20, SweepUpdates DEF StartBatch, TypeOK
  <2> QED
    BY <1>20, <2>1, <2>2, <2>3 DEF StartBatch, TypeOK, cloud
<1>21. ASSUME SweepNext PROVE TypeOK'
  <2>1. CASE sweep.todo = {} \/ ~batch.running \/ batch.cancel
    BY <1>21, <2>1, SweepUpdates DEF SweepNext, TypeOK, cloud, SweepPcs
  <2>2. CASE ~(sweep.todo = {} \/ ~batch.running \/ batch.cancel)
    <3>1. PICK r \in sweep.todo : /\ batch' = [batch EXCEPT !.run = r, !.pid = NoWorker]
                                  /\ sweep' = [sweep EXCEPT !.pc = "read", !.run = r, !.todo = @ \ {r}]
      BY <1>21, <2>2 DEF SweepNext
    <3>2. r \in Runs /\ sweep.todo \ {r} \in SUBSET Runs
      BY SweepUpdates DEF TypeOK
    <3>3. batch' \in Batch /\ sweep' \in Sweep
      BY <3>1, <3>2, BatchUpdates, SweepUpdates DEF TypeOK
    <3> QED
      BY <1>21, <3>3 DEF SweepNext, TypeOK, cloud
  <2> QED
    BY <2>1, <2>2
<1>22. ASSUME SweepRead PROVE TypeOK'
  BY <1>22, SweepUpdates DEF SweepRead, TypeOK, cloud, SweepPcs
<1>23. ASSUME NEW w \in Workers, SweepStart(w) PROVE TypeOK'
  <2> DEFINE o == CleanupOpFor(sweep.run)
  <2>1. o \in Ops /\ sweep.run \in RunOrNone
    BY SweepUpdates, OpSets DEF TypeOK, CleanupOpFor, CleanupOps
  <2>2. ops' \in [Ops -> OpEntry] /\ jobs' \in [Workers -> Job]
    BY <1>23, <2>1, ClaimTypes DEF SweepStart
  <2>3. RecsAfterStale(Visited(ConflictsWith(o))) \in [Runs -> RunRecord]
    BY StaleTypes
  <2>4. sweep' \in Sweep
    BY <1>23, SweepUpdates DEF SweepStart, TypeOK, SweepPcs
  <2> QED
    BY <1>23, <2>2, <2>3, <2>4 DEF SweepStart, TypeOK, cloud
<1>24. ASSUME SweepRefused PROVE TypeOK'
  <2> DEFINE S == IF ~batch.running \/ batch.cancel THEN {} ELSE Visited(ConflictsWith(CleanupOpFor(sweep.run)))
  <2>1. OpsAfterStale(S) \in [Ops -> OpEntry] /\ RecsAfterStale(S) \in [Runs -> RunRecord]
    BY StaleTypes
  <2>2. sweep' \in Sweep
    BY <1>24, SweepUpdates DEF SweepRefused, TypeOK, SweepPcs
  <2> QED
    BY <1>24, <2>1, <2>2 DEF SweepRefused, TypeOK, cloud
<1>25. ASSUME SweepAccount PROVE TypeOK'
  <2>1. recs' \in [Runs -> RunRecord] /\ current' \in RunOrNone
    BY <1>25, RecordTypes DEF SweepAccount, Statuses
  <2>2. sweep' \in Sweep
    BY <1>25, SweepUpdates DEF SweepAccount, TypeOK, SweepPcs
  <2> QED
    BY <1>25, <2>1, <2>2 DEF SweepAccount, TypeOK, cloud
<1>26. ASSUME SweepTally PROVE TypeOK'
  <2>1. sweep.run \in Runs
    BY <1>26 DEF SweepTally, SweepInv, SweepOK, TypeOK
  <2>2. sweep' \in Sweep
    BY <1>26, SweepUpdates DEF SweepTally, TypeOK
  <2>3. batch' \in Batch
    BY <1>26, <2>1 DEF SweepTally, TypeOK, Batch, PidOrNone, RunOrNone
  <2> QED
    BY <1>26, <2>2, <2>3 DEF SweepTally, TypeOK, cloud
<1>27. ASSUME SweepClose PROVE TypeOK'
  BY <1>27, SweepUpdates, BatchUpdates DEF SweepClose, TypeOK, cloud
<1>28. ASSUME NEW o \in Ops, Poll(o) PROVE TypeOK'
  BY <1>28, StaleTypes DEF Poll, TypeOK, cloud
<1>29. ASSUME AbortBatch PROVE TypeOK'
  <2>1. interrupted' \subseteq Workers
    BY <1>29, BatchUpdates DEF AbortBatch, Signalled, TypeOK, PidOrNone
  <2> QED
    BY <1>29, <2>1, BatchUpdates DEF AbortBatch, TypeOK, cloud
<1>30. ASSUME NEW o \in Ops, AbortOperation(o) PROVE TypeOK'
  <2>1. interrupted' \subseteq Workers
    BY <1>30, OpEntryUpdates DEF AbortOperation, Signalled, TypeOK, PidOrNone
  <2> QED
    BY <1>30, <2>1, BatchUpdates DEF AbortOperation, TypeOK, cloud
<1>31. ASSUME Restart PROVE TypeOK'
  <2>1. jobs' \in [Workers -> Job]
    BY <1>31, JobUpdates DEF Restart, TypeOK
  <2>2. ops' \in [Ops -> OpEntry] /\ recs' \in [Runs -> RunRecord]
    BY <1>31, StaleTypes DEF Restart
  <2>3. batch' \in Batch /\ sweep' \in Sweep
    BY <1>31, BatchUpdates, SweepUpdates DEF Restart, TypeOK
  <2>4. handlers' \in [Handlers -> Handler]
    BY <1>31 DEF Restart, IdleHandler, Handler, Ops, RunOrNone
  <2> QED
    BY <1>31, <2>1, <2>2, <2>3, <2>4 DEF Restart, TypeOK, cloud
<1>32. CASE UNCHANGED vars
  BY <1>32 DEF TypeOK, vars
<1> QED
  BY <1>1, <1>2, <1>3, <1>4, <1>5, <1>6, <1>7, <1>8, <1>9, <1>10, <1>11, <1>12, <1>13, <1>14, <1>15,
     <1>16, <1>17, <1>18, <1>19, <1>20, <1>21, <1>22, <1>23, <1>24, <1>25, <1>26, <1>27, <1>28,
     <1>29, <1>30, <1>31, <1>32 DEF Next, HandlerStep, JobStep, WorkerStep, SweepStep

-----------------------------------------------------------------------------
(* Locking: an entry with an owner is never found stale.                   *)

\* The owner of an operation keeps its entry live.
LEMMA OwnerIsLive ==
  ASSUME TypeOK, OwnerInv, TameFaults, NEW w \in Workers, Owns(w)
  PROVE  ~Dead(jobs[w].op) /\ Live(jobs[w].op)
BY RunsAssumption DEF OwnerInv, OwnerOK, Owns, TameFaults, Dead, Live, ProcessAlive, Alive

\* A start that finds its class free finds it without an owner.
LEMMA FreeClassHasNoOwner ==
  ASSUME TypeOK, OwnerInv, TameFaults, NEW S, ~Blocked(S)
  PROVE  \A w \in Workers : Owns(w) => jobs[w].op \notin S
BY OwnerIsLive DEF Blocked

\* Marking dead entries stale changes no entry that has an owner.
LEMMA StaleKeepsOwned ==
  ASSUME TypeOK, OwnerInv, TameFaults, NEW S, \A o \in S : Dead(o)
  PROVE  \A w \in Workers : Owns(w) => OpsAfterStale(S)[jobs[w].op] = ops[jobs[w].op]
<1> SUFFICES ASSUME NEW w \in Workers, Owns(w)
             PROVE  OpsAfterStale(S)[jobs[w].op] = ops[jobs[w].op]
  OBVIOUS
<1>1. jobs[w].op \notin S
  BY OwnerIsLive
<1>2. jobs[w].op \in Ops
  BY JobUpdates DEF TypeOK
<1> QED
  BY <1>1, <1>2 DEF OpsAfterStale

LEMMA VisitedIsDead == \A S : \A o \in Visited(S) : Dead(o)
BY DEF Visited

-----------------------------------------------------------------------------
(* Records.                                                                *)

\* A status written into a record leaves it a record.
LEMMA StatusKeepsRecord ==
  ASSUME NEW rs \in [Runs -> RunRecord], NEW x, NEW s \in DownstreamStatuses \ {"none"}
  PROVE  \A r \in Runs : WithDownstreamStatus(rs, x, s)[r] # NoRecord <=> rs[r] # NoRecord
BY DEF WithDownstreamStatus, RunRecord, NoRecord

\* Marking stale neither adds nor removes a record.
LEMMA StaleKeepsRecords ==
  ASSUME TypeOK, NEW S
  PROVE  \A r \in Runs : RecsAfterStale(S)[r] # NoRecord <=> Recorded(r)
<1>1. "failed" \in DownstreamStatuses \ {"none"}
  BY DEF DownstreamStatuses
<1> QED
  BY <1>1, StatusKeepsRecord DEF TypeOK, RecsAfterStale, Recorded

LEMMA SetStatusKeepsRecords ==
  ASSUME TypeOK, NEW x, NEW s \in Statuses \ {"none"}, SetStatus(x, s)
  PROVE  \A r \in Runs : Recorded(r)' <=> Recorded(r)
<1>1. ASSUME NEW e \in RunRecord PROVE [e EXCEPT !.status = s] # NoRecord
  BY DEF RunRecord, NoRecord
<1> QED
  BY <1>1 DEF SetStatus, Recorded, TypeOK

-----------------------------------------------------------------------------
(* How the invariant is preserved.                                         *)

\* The job of a slot goes on with what it was started for, or is dropped.
GoesOn(v) ==
  \/ jobs'[v] = IdleJob
  \/ /\ jobs'[v].op = jobs[v].op /\ jobs'[v].run = jobs[v].run
     /\ jobs'[v].child => jobs[v].child /\ jobs'[v].pc \in {"launch", "spawn", "setpid", "wait", "finish"}
     /\ Owns(v)' => Owns(v)
     /\ Unfinished(v)' => Unfinished(v)
     /\ jobs'[v].op \in SetupOps /\ Unfinished(v)' /\ jobs'[v].pc # "launch" =>
          jobs'[v].target = jobs'[v].run

\* Records disappear only for runs of which nothing is left.
RecordsShrink ==
  \A r \in Runs : /\ Recorded(r)' => Recorded(r)
                  /\ Recorded(r) => Recorded(r)' \/ Gone(r)

\* A dropped job claims nothing.
LEMMA DroppedJob ==
  ASSUME NEW v \in Workers, jobs'[v] = IdleJob
  PROVE  ~Owns(v)' /\ ~jobs'[v].child /\ OwnerOK(v)' /\ CleanupOK(v)' /\ ChildOK(v)' /\ GoesOn(v)
BY DEF IdleJob, Owns, OwnerOK, CleanupOK, ChildOK, CleanupOps, GoesOn

\* What is gone stays gone, as long as no setup is started.
LEMMA GoneStays ==
  ASSUME used' = used, mgmt' \subseteq mgmt, \A v \in Workers : GoesOn(v)
  PROVE  \A r : Gone(r) => Gone(r)'
<1> SUFFICES ASSUME NEW r, NEW v \in Workers, SettingUp(v, r)'
             PROVE  SettingUp(v, r)
  BY DEF Gone
<1>1. jobs'[v] # IdleJob
  BY DEF SettingUp, Unfinished, IdleJob
<1> QED
  BY <1>1 DEF GoesOn, SettingUp

\* A slot whose job did not change still agrees with the table.
LEMMA Unchanged ==
  ASSUME IInv, NEW v \in Workers, jobs'[v] = jobs[v], used \subseteq used',
         Owns(v) => ops'[jobs[v].op] = ops[jobs[v].op],
         \A r : Gone(r) => Gone(r)'
  PROVE  OwnerOK(v)' /\ CleanupOK(v)' /\ GoesOn(v)
<1>1. OwnerOK(v)'
  BY DEF IInv, OwnerInv, OwnerOK, Owns
<1>2. CleanupOK(v)'
  BY DEF IInv, CleanupInv, CleanupOK
<1>3. GoesOn(v)
  <2>1. jobs[v].child => jobs[v].pc \in {"launch", "spawn", "setpid", "wait", "finish"}
    BY DEF IInv, SweepInv, ChildOK
  <2>2. SettingUp(v, jobs[v].run) /\ jobs[v].pc # "launch" => jobs[v].target = jobs[v].run
    BY DEF IInv, TypeOK, OwnerInv, OwnerOK, Owns, RecordInv, SettingUp, Unfinished
  <2> QED
    BY <2>1, <2>2 DEF GoesOn, Owns, Unfinished, SettingUp
<1> QED
  BY <1>1, <1>2, <1>3
\* A step that starts no operation preserves the parts of the invariant that
\* relate slots to each other and to the records.
LEMMA Shrink ==
  ASSUME IInv, TypeOK', OwnerInv', HandlerInv', CleanupInv', SweepOK',
         \A v \in Workers : ChildOK(v)',
         used' = used, mgmt' \subseteq mgmt,
         \A v \in Workers : GoesOn(v), RecordsShrink
  PROVE  IInv'
<1>1. \A v \in Workers :
        /\ Owns(v)' => Owns(v) /\ jobs'[v].op = jobs[v].op /\ jobs'[v].run = jobs[v].run
        /\ jobs'[v].child => jobs[v].child
        /\ \A r : SettingUp(v, r)' => SettingUp(v, r) /\ jobs'[v].run = jobs[v].run
  BY DEF GoesOn, Owns, IdleJob, SettingUp, Unfinished
<1>2. ExclusiveInv'
  BY <1>1 DEF IInv, ExclusiveInv
<1>3. KindInv'
  BY <1>1 DEF IInv, KindInv
<1>4. SweepInv'
  BY <1>1 DEF IInv, SweepInv
<1>5. \A r \in Runs : Recorded(r)' => r \in used'
  BY DEF IInv, RecordInv, RecordsShrink
<1>6. ASSUME NEW w \in Workers, NEW r \in Runs, SettingUp(w, r)'
      PROVE  Recorded(r)' /\ (jobs'[w].pc # "launch" => jobs'[w].target = r)
  <2>1. SettingUp(w, r)
    BY <1>1, <1>6
  <2>2. Recorded(r) /\ ~Gone(r)
    BY <2>1 DEF IInv, RecordInv, Gone
  <2>3. Recorded(r)'
    BY <2>2 DEF RecordsShrink
  <2>4. jobs'[w].pc # "launch" => jobs'[w].target = r
    BY <1>6 DEF GoesOn, SettingUp, Unfinished, IdleJob
  <2> QED
    BY <2>3, <2>4
<1>7. NoOrphanedInfrastructure'
  BY DEF IInv, TypeOK, NoOrphanedInfrastructure, RecordsShrink, Gone
<1> QED
  BY <1>2, <1>3, <1>4, <1>5, <1>6, <1>7 DEF IInv, RecordInv

\* Steps that leave every job, the sweep and the infrastructure alone.
LEMMA Frame ==
  ASSUME IInv, TypeOK', HandlerInv', jobs' = jobs, sweep' = sweep, mgmt' = mgmt, used' = used,
         \A v \in Workers : Owns(v) => ops'[jobs[v].op] = ops[jobs[v].op],
         \A r \in Runs : Recorded(r)' <=> Recorded(r)
  PROVE  IInv'
<1>1. \A r : Gone(r) <=> Gone(r)'
  BY DEF Gone, SettingUp, Unfinished
<1>2. \A v \in Workers : OwnerOK(v)' /\ CleanupOK(v)' /\ GoesOn(v)
  BY <1>1, Unchanged
<1>3. SweepOK'
  BY <1>1 DEF IInv, SweepInv, SweepOK
<1>4. \A v \in Workers : ChildOK(v)'
  BY DEF IInv, SweepInv, ChildOK
<1>5. RecordsShrink
  BY DEF RecordsShrink
<1> QED
  BY <1>2, <1>3, <1>4, <1>5, Shrink DEF OwnerInv, CleanupInv

\* Steps that change the job of one slot.
LEMMA OneSlot ==
  ASSUME IInv, TypeOK', HandlerInv', sweep' = sweep, mgmt' \subseteq mgmt, used' = used,
         NEW w \in Workers, GoesOn(w),
         \A v \in Workers \ {w} : jobs'[v] = jobs[v] /\ (Owns(v) => ops'[jobs[v].op] = ops[jobs[v].op]),
         (\A r : Gone(r) => Gone(r)') => OwnerOK(w)' /\ CleanupOK(w)',
         RecordsShrink
  PROVE  IInv'
<1>1. \A r : Gone(r) => Gone(r)'
  <2>1. ASSUME NEW r, Gone(r), NEW v \in Workers, SettingUp(v, r)' PROVE SettingUp(v, r)
    <3>1. CASE v = w
      BY <2>1, <3>1 DEF GoesOn, SettingUp, Unfinished, IdleJob
    <3>2. CASE v # w
      BY <2>1, <3>2 DEF SettingUp, Unfinished
    <3> QED
      BY <3>1, <3>2
  <2> QED
    BY <2>1 DEF Gone
<1>2. \A v \in Workers : OwnerOK(v)' /\ CleanupOK(v)' /\ GoesOn(v)
  BY <1>1, Unchanged
<1>3. SweepOK'
  BY <1>1 DEF IInv, SweepInv, SweepOK
<1>4. \A v \in Workers : ChildOK(v)'
  <2>1. ChildOK(w)'
    BY DEF IInv, SweepInv, ChildOK, GoesOn, IdleJob
  <2>2. \A v \in Workers \ {w} : ChildOK(v)'
    BY DEF IInv, SweepInv, ChildOK
  <2> QED
    BY <2>1, <2>2
<1> QED
  BY <1>2, <1>3, <1>4, Shrink DEF OwnerInv, CleanupInv
\* Steps of the sweep between two children.
LEMMA SweepFrame ==
  ASSUME IInv, TypeOK', HandlerInv', jobs' = jobs, mgmt' = mgmt, used' = used,
         \A v \in Workers : Owns(v) => ops'[jobs[v].op] = ops[jobs[v].op],
         \A v \in Workers : ~jobs[v].child,
         RecordsShrink,
         (\A r : Gone(r) => Gone(r)') => SweepOK'
  PROVE  IInv'
<1>1. \A r : Gone(r) <=> Gone(r)'
  BY DEF Gone, SettingUp, Unfinished
<1>2. \A v \in Workers : OwnerOK(v)' /\ CleanupOK(v)' /\ GoesOn(v)
  BY <1>1, Unchanged
<1>3. SweepOK' /\ \A v \in Workers : ChildOK(v)'
  BY <1>1 DEF ChildOK
<1> QED
  BY <1>2, <1>3, Shrink DEF OwnerInv, CleanupInv

\* What a claim does to the table and to the slot it takes.
Claimed(o, r, c, w) ==
  /\ jobs[w] = IdleJob
  /\ \A v \in Workers \ {w} : /\ jobs'[v] = jobs[v]
                              /\ Owns(v) => jobs[v].op \notin ConflictsWith(o)
                              /\ Owns(v) => ops'[jobs[v].op] = ops[jobs[v].op]
  /\ jobs'[w].pc = "launch" /\ jobs'[w].op = o /\ jobs'[w].run = r /\ jobs'[w].child = c
  /\ jobs'[w].phase = "start" /\ jobs'[w].ok = FALSE
  /\ ops'[o].running /\ ops'[o].pid = NoWorker /\ ops'[o].run = r

LEMMA ClaimEffect ==
  ASSUME TypeOK, OwnerInv, TameFaults,
         NEW o \in Ops, NEW r, NEW c \in BOOLEAN, NEW w \in Workers, Claim(o, r, c, w)
  PROVE  Claimed(o, r, c, w)
<1> DEFINE f == OpsAfterStale(Visited(ConflictsWith(o)))
<1>1. jobs[w] = IdleJob
  BY DEF Claim, FreeSlot
<1>2. jobs' = [jobs EXCEPT ![w] = [IdleJob EXCEPT !.pc = "launch", !.op = o, !.run = r, !.child = c]]
  BY DEF Claim
<1>3. \A v \in Workers \ {w} : jobs'[v] = jobs[v]
  BY <1>2 DEF TypeOK
<1>4. jobs'[w].pc = "launch" /\ jobs'[w].op = o /\ jobs'[w].run = r /\ jobs'[w].child = c
      /\ jobs'[w].phase = "start" /\ jobs'[w].ok = FALSE
  BY <1>2 DEF TypeOK, IdleJob
<1>5. \A v \in Workers : Owns(v) => jobs[v].op \notin ConflictsWith(o)
  BY FreeClassHasNoOwner DEF Claim
<1>6. \A v \in Workers : Owns(v) => f[jobs[v].op] = ops[jobs[v].op]
  BY StaleKeepsOwned, VisitedIsDead
<1>7. f \in [Ops -> OpEntry] /\ o \in ConflictsWith(o)
  BY StaleTypes DEF ConflictsWith, Ops, LinodeOps
<1>8. ops' = [f EXCEPT ![o] = [running |-> TRUE, pid |-> NoWorker, run |-> r]]
  BY DEF Claim
<1> HIDE DEF f
<1>9. ops'[o].running /\ ops'[o].pid = NoWorker /\ ops'[o].run = r
  BY <1>7, <1>8
<1>10. \A v \in Workers : Owns(v) => ops'[jobs[v].op] = ops[jobs[v].op]
  BY <1>5, <1>6, <1>7, <1>8
<1> QED
  BY <1>1, <1>3, <1>4, <1>5, <1>9, <1>10 DEF Claimed

\* Steps that start an operation.
LEMMA Starts ==
  ASSUME IInv, TameFaults, TypeOK', HandlerInv',
         NEW o \in Ops, NEW r \in Runs, NEW c \in BOOLEAN, NEW w \in Workers, Claim(o, r, c, w),
         used \subseteq used', r \in used', mgmt' = mgmt,
         o \in SetupOps => o = SetupOpFor(r) /\ r \notin used /\ Recorded(r)',
         o \in CleanupOps => o = CleanupOpFor(r),
         \A x \in Runs : (Recorded(x) => Recorded(x)') /\ (Recorded(x)' => x \in used'),
         c => o \in CleanupOps /\ sweep.pc # "await" /\ sweep'.pc = "await" /\ sweep'.run = r /\ sweep'.todo = sweep.todo,
         ~c => sweep' = sweep
  PROVE  IInv'
<1>1. TypeOK /\ OwnerInv /\ ExclusiveInv /\ KindInv
  BY DEF IInv
<1>2. Claimed(o, r, c, w)
  BY <1>1, ClaimEffect
<1>3. \A x : Gone(x) => Gone(x)'
  <2> SUFFICES ASSUME NEW x, Gone(x), NEW v \in Workers, SettingUp(v, x)'
               PROVE  SettingUp(v, x)
    BY DEF Gone
  <2>1. CASE v = w
    BY <1>2, <2>1 DEF Claimed, SettingUp, Gone
  <2>2. CASE v # w
    BY <1>2, <2>2 DEF Claimed, SettingUp, Unfinished
  <2> QED
    BY <2>1, <2>2
<1>4. OwnerInv'
  <2>1. OwnerOK(w)'
    BY <1>2 DEF Claimed, OwnerOK
  <2>2. \A v \in Workers \ {w} : OwnerOK(v)'
    BY <1>2, <1>3, Unchanged DEF Claimed
  <2> QED
    BY <2>1, <2>2 DEF OwnerInv
<1>5. ExclusiveInv'
  <2>1. \A v \in Workers \ {w} : Owns(v)' => Owns(v) /\ jobs'[v].op = jobs[v].op
    BY <1>2 DEF Claimed, Owns
  <2>2. \A p, q \in Ops : p \in ConflictsWith(q) <=> q \in ConflictsWith(p)
    BY DEF ConflictsWith, Ops, LinodeOps
  <2>3. \A v \in Workers : jobs[v].op \in Ops
    BY <1>1, JobUpdates DEF TypeOK
  <2> QED
    BY <1>1, <1>2, <2>1, <2>2, <2>3 DEF Claimed, ExclusiveInv
<1>6. KindInv'
  <2>1. \A v \in Workers \ {w} : Owns(v)' => Owns(v) /\ jobs'[v].op = jobs[v].op /\ jobs'[v].run = jobs[v].run
    BY <1>2 DEF Claimed, Owns
  <2> QED
    BY <1>1, <1>2, <2>1 DEF Claimed, KindInv
<1>7. RecordInv'
  <2>1. \A v \in Workers, x \in Runs : v # w /\ SettingUp(v, x)' => SettingUp(v, x)
    BY <1>2 DEF Claimed, SettingUp, Unfinished
  <2>2. \A x \in Runs : SettingUp(w, x)' => x = r /\ o \in SetupOps
    BY <1>2 DEF Claimed, SettingUp
  <2> QED
    BY <1>2, <2>1, <2>2 DEF Claimed, IInv, RecordInv
<1>8. CleanupInv'
  <2>1. CleanupOK(w)'
    BY <1>2 DEF Claimed, CleanupOK
  <2>2. \A v \in Workers \ {w} : CleanupOK(v)'
    BY <1>2, <1>3, Unchanged DEF Claimed
  <2> QED
    BY <2>1, <2>2 DEF CleanupInv
<1>9. SweepInv'
  <2>1. SweepOK'
    BY <1>2, <1>3 DEF Claimed, IInv, SweepInv, SweepOK
  <2>2. c => \A v \in Workers : ~jobs[v].child
    BY DEF IInv, SweepInv, ChildOK
  <2>3. \A v \in Workers : ChildOK(v)'
    BY <1>2, <2>2 DEF Claimed, IInv, SweepInv, ChildOK
  <2>4. \A u, v \in Workers : jobs'[u].child /\ jobs'[v].child => u = v
    BY <1>2, <2>2 DEF Claimed, IInv, SweepInv, IdleJob
  <2> QED
    BY <2>1, <2>3, <2>4 DEF SweepInv
<1>10. NoOrphanedInfrastructure'
  BY <1>1 DEF IInv, NoOrphanedInfrastructure, TypeOK
<1> QED
  BY <1>4, <1>5, <1>6, <1>7, <1>8, <1>9, <1>10 DEF IInv
-----------------------------------------------------------------------------
(* The steps.                                                              *)

\* A request for a known run keeps the requests in order.
LEMMA EnqueueKeeps ==
  ASSUME TypeOK, HandlerInv, used' = used, NEW h \in Handlers, NEW o \in Ops \ SetupOps, NEW r \in used,
         Enqueue(h, o, r), o \in CleanupOps => o = CleanupOpFor(r)
  PROVE  HandlerInv'
BY DEF TypeOK, HandlerInv, Enqueue

\* A request that leaves its slot keeps the other requests in order.
LEMMA HandlersKeep ==
  ASSUME TypeOK, HandlerInv, used \subseteq used', NEW h \in Handlers,
         \/ handlers' = [handlers EXCEPT ![h] = IdleHandler]
         \/ handlers' = [handlers EXCEPT ![h] = [@ EXCEPT !.pc = "refused"]] /\ handlers[h].pc = "checked"
  PROVE  HandlerInv'
<1>1. CASE handlers' = [handlers EXCEPT ![h] = IdleHandler]
  BY <1>1 DEF TypeOK, HandlerInv, IdleHandler
<1>2. CASE handlers' = [handlers EXCEPT ![h] = [@ EXCEPT !.pc = "refused"]] /\ handlers[h].pc = "checked"
  <2>1. handlers[h] \in Handler
    BY DEF TypeOK
  <2>2. handlers'[h].pc = "refused" /\ handlers'[h].op = handlers[h].op /\ handlers'[h].run = handlers[h].run
    BY <1>2, <2>1 DEF TypeOK, Handler
  <2>3. \A g \in Handlers \ {h} : handlers'[g] = handlers[g]
    BY <1>2 DEF TypeOK
  <2> QED
    BY <1>2, <2>2, <2>3 DEF HandlerInv
<1> QED
  BY <1>1, <1>2

\* Changing the program counter of a job changes nothing else of it.
LEMMA PcEffect ==
  ASSUME TypeOK, NEW w \in Workers, NEW pc, jobs' = [jobs EXCEPT ![w].pc = pc]
  PROVE  /\ jobs'[w].pc = pc /\ jobs'[w].op = jobs[w].op /\ jobs'[w].run = jobs[w].run
         /\ jobs'[w].child = jobs[w].child /\ jobs'[w].target = jobs[w].target
         /\ jobs'[w].phase = jobs[w].phase /\ jobs'[w].ok = jobs[w].ok /\ jobs'[w].out = jobs[w].out
         /\ \A v \in Workers \ {w} : jobs'[v] = jobs[v]
BY DEF TypeOK, Job

\* A setup past its launch acts on its own run.
LEMMA SetupTarget ==
  ASSUME IInv, NEW w \in Workers, jobs[w].op \in SetupOps, Unfinished(w), jobs[w].pc # "launch"
  PROVE  jobs[w].target = jobs[w].run
<1>1. jobs[w].run \in Runs
  BY DEF IInv, TypeOK, OwnerInv, OwnerOK, Owns, Unfinished
<1> QED
  BY <1>1 DEF IInv, RecordInv, SettingUp

\* A run without a record, or whose cleanup holds the table, has no setup.
LEMMA UnrecordedIsGone ==
  ASSUME IInv, NEW r \in used, ~Recorded(r)
  PROVE  Gone(r)
BY DEF IInv, TypeOK, RecordInv, NoOrphanedInfrastructure, Gone

\* No two owners share an entry.
LEMMA DistinctEntries ==
  ASSUME IInv, NEW v \in Workers, NEW w \in Workers, v # w, Owns(v), Owns(w)
  PROVE  jobs[v].op # jobs[w].op
<1>1. jobs[w].op \in ConflictsWith(jobs[w].op)
  <2>1. jobs[w].op \in Ops
    BY JobUpdates DEF IInv, TypeOK
  <2> QED
    BY <2>1 DEF ConflictsWith, Ops, LinodeOps
<1> QED
  BY <1>1 DEF IInv, ExclusiveInv

LEMMA CleanupExcludesSetup ==
  ASSUME IInv, NEW w \in Workers, Owns(w), jobs[w].op \in CleanupOps
  PROVE  \A v \in Workers : ~SettingUp(v, jobs[w].run)
<1> SUFFICES ASSUME NEW v \in Workers, SettingUp(v, jobs[w].run)
             PROVE  FALSE
  OBVIOUS
<1>1. Owns(v) /\ jobs[v].run = jobs[w].run /\ jobs[v].op \in SetupOps
  BY DEF SettingUp, Unfinished, Owns
<1>2. v # w
  BY <1>1 DEF SetupOps, CleanupOps
<1>3. jobs[v].op = SetupOpFor(jobs[w].run) /\ jobs[w].op = CleanupOpFor(jobs[w].run)
  BY <1>1 DEF IInv, KindInv
<1>4. jobs[v].op \in ConflictsWith(jobs[w].op)
  BY <1>3 DEF SetupOpFor, CleanupOpFor, ConflictsWith, Ops, LinodeOps
<1> QED
  BY <1>1, <1>2, <1>4 DEF IInv, ExclusiveInv

LEMMA RecordEffect ==
  ASSUME TypeOK, NEW w \in Workers, NEW r,
         jobs' = [jobs EXCEPT ![w] = [@ EXCEPT !.pc = "record", !.out = r]]
  PROVE  /\ jobs'[w].pc = "record" /\ jobs'[w].op = jobs[w].op /\ jobs'[w].run = jobs[w].run
         /\ jobs'[w].child = jobs[w].child /\ jobs'[w].phase = jobs[w].phase
         /\ jobs'[w].ok = jobs[w].ok /\ jobs'[w].out = r
         /\ \A v \in Workers \ {w} : jobs'[v] = jobs[v]
BY DEF TypeOK, Job

\* A worker exits in the hands of its goroutine.
LEMMA ExitEffect ==
  ASSUME TypeOK, NEW w \in Workers, NEW ok \in BOOLEAN,
         jobs' = [jobs EXCEPT ![w] = [@ EXCEPT !.pc = "finish", !.ok = ok, !.phase = "start"]]
  PROVE  /\ jobs'[w].pc = "finish" /\ jobs'[w].op = jobs[w].op /\ jobs'[w].run = jobs[w].run
         /\ jobs'[w].child = jobs[w].child /\ jobs'[w].phase = "start" /\ jobs'[w].ok = ok
         /\ \A v \in Workers \ {w} : jobs'[v] = jobs[v]
BY DEF TypeOK, Job

\* Gone of the run the sweep is at, in the next state.
LEMMA SweptRunGone ==
  ASSUME NEW r, Gone(r)', sweep'.run = r
  PROVE  Gone(sweep.run)'
BY DEF Gone, SettingUp

LEMMA PhaseEffect ==
  ASSUME TypeOK, NEW w \in Workers, NEW ph, jobs' = [jobs EXCEPT ![w].phase = ph]
  PROVE  /\ jobs'[w].pc = jobs[w].pc /\ jobs'[w].op = jobs[w].op /\ jobs'[w].run = jobs[w].run
         /\ jobs'[w].child = jobs[w].child /\ jobs'[w].target = jobs[w].target
         /\ jobs'[w].phase = ph /\ jobs'[w].ok = jobs[w].ok /\ jobs'[w].out = jobs[w].out
         /\ \A v \in Workers \ {w} : jobs'[v] = jobs[v]
BY DEF TypeOK, Job

\* The sweep takes a run from its list.
LEMMA TakeEffect ==
  ASSUME NEW s \in Sweep, NEW r \in s.todo, sweep' = [s EXCEPT !.pc = "read", !.run = r, !.todo = @ \ {r}]
  PROVE  sweep'.pc = "read" /\ sweep'.todo \subseteq s.todo /\ sweep'.run = r
BY DEF Sweep

\* A worker outlives its panel.
LEMMA OrphanEffect ==
  ASSUME NEW j \in Job, NEW k, k = [j EXCEPT !.pc = "orphan", !.child = FALSE]
  PROVE  /\ k.pc = "orphan" /\ k.op = j.op /\ k.run = j.run /\ k.child = FALSE
         /\ k.target = j.target /\ k.phase = j.phase /\ k.ok = j.ok
BY DEF Job

\* Every step preserves the invariant.
LEMMA InvNext ==
  ASSUME IInv, TameFaults, [Next]_vars
  PROVE  IInv'
<1>0. TypeOK' /\ TypeOK /\ OwnerInv /\ HandlerInv /\ KindInv /\ RecordInv /\ CleanupInv /\ SweepInv
  BY TypeNext DEF IInv
<1>1. ASSUME NEW r \in Runs, NEW w \in Workers, StartSetup(r, w) PROVE IInv'
  <2> DEFINE o == SetupOpFor(r)
             new == [status |-> "setup_running", dstat |-> IF r \in WithDownstreams THEN "pending" ELSE "none"]
  <2>1. o \in SetupOps /\ o \in Ops /\ o \notin CleanupOps
    BY OpFor, OpSets DEF SetupOps, CleanupOps
  <2>2. HandlerInv'
    BY <1>0, <1>1 DEF StartSetup, HandlerInv
  <2>3. /\ recs' = [RecsAfterStale(Visited(ConflictsWith(o))) EXCEPT ![r] = new]
        /\ new # NoRecord
    BY <1>1 DEF StartSetup, NoRecord
  <2>4. RecsAfterStale(Visited(ConflictsWith(o))) \in [Runs -> RunRecord]
    BY <1>0, StaleTypes
  <2>5. \A x \in Runs : Recorded(x)' <=> Recorded(x) \/ x = r
    BY <1>0, <2>3, <2>4, StaleKeepsRecords DEF Recorded
  <2>6. used' = used \cup {r} /\ mgmt' = mgmt /\ r \notin used /\ Claim(o, r, FALSE, w) /\ sweep' = sweep
    BY <1>1 DEF StartSetup, cloud
  <2> HIDE DEF o
  <2>7. \A x \in Runs : (Recorded(x) => Recorded(x)') /\ (Recorded(x)' => x \in used')
    BY <1>0, <2>5, <2>6 DEF RecordInv
  <2> QED
    BY <1>0, <2>1, <2>2, <2>5, <2>6, <2>7, Starts DEF o
<1>2. ASSUME NEW h \in Handlers, RequestReadiness(h) PROVE IInv'
  <2>1. current \in used
    BY <1>0, <1>2 DEF RequestReadiness, ReadinessAllowed, IInv, NoOrphanedInfrastructure, RecordInv
  <2>2. HandlerInv'
    BY <1>0, <1>2, <2>1, EnqueueKeeps, OpSets DEF RequestReadiness, SetupOps, CleanupOps
  <2> QED
    BY <1>0, <1>2, <2>2, Frame DEF RequestReadiness, cloud, Recorded
<1>3. ASSUME NEW h \in Handlers, NEW r \in Runs, RequestDownstream(h, r) PROVE IInv'
  <2>1. r \in used
    BY <1>0, <1>3 DEF RequestDownstream, DownstreamAllowed, RecordInv
  <2>2. HandlerInv'
    BY <1>0, <1>3, <2>1, EnqueueKeeps, OpSets DEF RequestDownstream, SetupOps, CleanupOps
  <2> QED
    BY <1>0, <1>3, <2>2, Frame DEF RequestDownstream, cloud, Recorded
<1>4. ASSUME NEW h \in Handlers, NEW r \in Runs, RequestCleanup(h, r) PROVE IInv'
  <2>1. r \in used
    BY <1>0, <1>4 DEF RequestCleanup, RecordInv
  <2>2. CleanupOpFor(r) \in Ops \ SetupOps
    BY OpFor, OpSets DEF SetupOps, CleanupOps
  <2>3. HandlerInv'
    BY <1>0, <1>4, <2>1, <2>2, EnqueueKeeps DEF RequestCleanup
  <2> QED
    BY <1>0, <1>4, <2>3, Frame DEF RequestCleanup, cloud, Recorded
<1>6. ASSUME NEW h \in Handlers, RefuseRequested(h) PROVE IInv'
  <2> DEFINE S == IF batch.running THEN {} ELSE Visited(ConflictsWith(handlers[h].op))
  <2>1. ops' = OpsAfterStale(S) /\ recs' = RecsAfterStale(S)
    BY <1>6 DEF RefuseRequested
  <2>2. \A o \in S : Dead(o)
    BY VisitedIsDead
  <2> HIDE DEF S
  <2>3. \A v \in Workers : Owns(v) => ops'[jobs[v].op] = ops[jobs[v].op]
    BY <1>0, <2>1, <2>2, StaleKeepsOwned
  <2>4. \A r \in Runs : Recorded(r)' <=> Recorded(r)
    BY <1>0, <2>1, StaleKeepsRecords DEF Recorded
  <2>5. HandlerInv'
    BY <1>0, <1>6, HandlersKeep DEF RefuseRequested
  <2> QED
    BY <1>0, <1>6, <2>3, <2>4, <2>5, Frame DEF RefuseRequested, cloud
<1>7. ASSUME NEW h \in Handlers, RecordRefusal(h) PROVE IInv'
  <2>1. \A r \in Runs : Recorded(r)' <=> Recorded(r)
    BY <1>0, <1>7, StatusKeepsRecord DEF RecordRefusal, Recorded, TypeOK, DownstreamStatuses
  <2>2. HandlerInv'
    BY <1>0, <1>7, HandlersKeep DEF RecordRefusal
  <2> QED
    BY <1>0, <1>7, <2>1, <2>2, Frame DEF RecordRefusal, cloud
<1>5. ASSUME NEW h \in Handlers, NEW w \in Workers, StartRequested(h, w) PROVE IInv'
  <2> DEFINE o == handlers[h].op
             r == handlers[h].run
             S == Visited(ConflictsWith(o))
  <2>1. o \in Ops \ SetupOps /\ r \in used /\ r \in Runs /\ (o \in CleanupOps => o = CleanupOpFor(r))
    BY <1>0, <1>5, HandlerUpdates DEF StartRequested, HandlerInv, TypeOK
  <2>2. Claim(o, r, FALSE, w) /\ used' = used /\ mgmt' = mgmt /\ sweep' = sweep
    BY <1>5 DEF StartRequested, cloud
  <2>3. RecsAfterStale(S) \in [Runs -> RunRecord]
    BY <1>0, StaleTypes
  <2>4. \A x \in Runs : RecsAfterStale(S)[x] # NoRecord <=> Recorded(x)
    BY <1>0, StaleKeepsRecords
  <2>5. recs' = RecsAfterStale(S) \/ recs' = WithDownstreamStatus(RecsAfterStale(S), r, "running")
    BY <1>5 DEF StartRequested
  <2>6. \A x \in Runs : Recorded(x)' <=> Recorded(x)
    BY <2>3, <2>4, <2>5, StatusKeepsRecord DEF Recorded, DownstreamStatuses
  <2>7. HandlerInv'
    BY <1>0, <1>5, HandlersKeep DEF StartRequested
  <2> HIDE DEF o, r
  <2> QED
    BY <1>0, <2>1, <2>2, <2>6, <2>7, Starts DEF RecordInv
<1>8. ASSUME NEW w \in Workers, ComputeEnv(w) PROVE IInv'
  <2> DEFINE o == jobs[w].op
             r == jobs[w].run
  <2>1. /\ jobs'[w].pc = "spawn" /\ jobs'[w].op = o /\ jobs'[w].run = r
        /\ jobs'[w].child = jobs[w].child /\ jobs'[w].phase = jobs[w].phase /\ jobs'[w].ok = jobs[w].ok
        /\ jobs'[w].target = IF o \in SetupOps \/ Recorded(ops[o].run) THEN ops[o].run ELSE current
        /\ \A v \in Workers \ {w} : jobs'[v] = jobs[v]
    BY <1>0, <1>8 DEF ComputeEnv, TypeOK, Job
  <2>2. jobs[w].pc = "launch" /\ Owns(w) /\ Unfinished(w)
    BY <1>8 DEF ComputeEnv, AtPc, Owns, Unfinished
  <2>3. ops[o].run = r /\ r \in used
    BY <1>0, <2>2 DEF OwnerInv, OwnerOK
  <2>4. OwnerOK(w)'
    BY <1>0, <1>8, <2>1, <2>2 DEF ComputeEnv, OwnerInv, OwnerOK
  <2>5. o \in CleanupOps /\ jobs'[w].target # r => Gone(r)
    <3> SUFFICES ASSUME o \in CleanupOps, jobs'[w].target # r
                 PROVE  Gone(r)
      OBVIOUS
    <3>1. ~Recorded(r)
      BY <2>1, <2>3 DEF SetupOps, CleanupOps
    <3> QED
      BY <2>3, <3>1, UnrecordedIsGone
  <2>6. (\A x : Gone(x) => Gone(x)') => CleanupOK(w)'
    BY <1>0, <2>1, <2>2, <2>5 DEF CleanupInv, CleanupOK
  <2>7. GoesOn(w)
    BY <2>1, <2>2, <2>3 DEF GoesOn, Owns, Unfinished
  <2>8. HandlerInv' /\ RecordsShrink
    BY <1>0, <1>8, HandlersKeep DEF ComputeEnv, RecordsShrink, Recorded, HandlerInv
  <2> QED
    BY <1>0, <1>8, <2>1, <2>4, <2>6, <2>7, <2>8, OneSlot DEF ComputeEnv, cloud
<1>9. ASSUME NEW w \in Workers, Spawn(w) PROVE IInv'
  <2>1. PICK pc \in {"setpid", "finish"} : jobs' = [jobs EXCEPT ![w].pc = pc]
    BY <1>9 DEF Spawn
  <2>2. jobs[w].pc = "spawn" /\ Owns(w) /\ Unfinished(w)
    BY <1>9 DEF Spawn, AtPc, Owns, Unfinished
  <2>3. OwnerOK(w)'
    BY <1>0, <1>9, <2>1, <2>2, PcEffect DEF Spawn, OwnerInv, OwnerOK
  <2>4. (\A x : Gone(x) => Gone(x)') => CleanupOK(w)'
    BY <1>0, <2>1, <2>2, PcEffect DEF CleanupInv, CleanupOK
  <2>5. GoesOn(w)
    BY <2>1, <2>2, PcEffect, SetupTarget, <1>0 DEF GoesOn, Owns, Unfinished
  <2>6. HandlerInv' /\ RecordsShrink
    BY <1>0, <1>9 DEF Spawn, RecordsShrink, Recorded, HandlerInv
  <2> QED
    BY <1>0, <1>9, <2>1, <2>3, <2>4, <2>5, <2>6, PcEffect, OneSlot DEF Spawn, cloud
<1>10. ASSUME NEW w \in Workers, RecordPid(w) PROVE IInv'
  <2> DEFINE o == jobs[w].op
  <2>1. jobs' = [jobs EXCEPT ![w].pc = "wait"]
    BY <1>10 DEF RecordPid
  <2>2. jobs[w].pc = "setpid" /\ Owns(w) /\ Unfinished(w)
    BY <1>10 DEF RecordPid, AtPc, Owns, Unfinished
  <2>3. /\ ops'[o].pid = w /\ ops'[o].run = ops[o].run /\ ops'[o].running = ops[o].running
        /\ \A x \in Ops \ {o} : ops'[x] = ops[x]
    <3>1. o \in Ops /\ ops[o] \in OpEntry
      BY <1>0, JobUpdates DEF TypeOK
    <3>2. ops' = [ops EXCEPT ![o].pid = w]
      BY <1>10 DEF RecordPid
    <3> HIDE DEF o
    <3> QED
      BY <1>0, <3>1, <3>2 DEF TypeOK, OpEntry
  <2>4. OwnerOK(w)'
    <3>1. used' = used
      BY <1>10 DEF RecordPid
    <3>2. jobs'[w].pc = "wait" /\ jobs'[w].op = o /\ jobs'[w].run = jobs[w].run
      BY <1>0, <2>1, PcEffect
    <3>3. ops[o].running /\ ops[o].run = jobs[w].run /\ jobs[w].run \in used
      BY <1>0, <2>2 DEF OwnerInv, OwnerOK
    <3> QED
      BY <2>3, <3>1, <3>2, <3>3 DEF OwnerOK
  <2>5. (\A x : Gone(x) => Gone(x)') => CleanupOK(w)'
    BY <1>0, <2>1, <2>2, PcEffect DEF CleanupInv, CleanupOK
  <2>6. GoesOn(w)
    BY <2>1, <2>2, PcEffect, SetupTarget, <1>0 DEF GoesOn, Owns, Unfinished
  <2>7. \A v \in Workers \ {w} : Owns(v) => ops'[jobs[v].op] = ops[jobs[v].op]
    BY <1>0, <2>2, <2>3, DistinctEntries, JobUpdates DEF TypeOK
  <2>8. HandlerInv' /\ RecordsShrink
    BY <1>0, <1>10 DEF RecordPid, RecordsShrink, Recorded, HandlerInv
  <2> QED
    BY <1>0, <1>10, <2>1, <2>4, <2>5, <2>6, <2>7, <2>8, PcEffect, OneSlot DEF RecordPid, cloud
<1>11. ASSUME NEW w \in Workers, Finish(w) PROVE IInv'
  <2> DEFINE o == jobs[w].op
  <2>1. jobs[w].pc = "finish" /\ Owns(w)
    BY <1>11 DEF Finish, AtPc, Owns
  <2>2. ops[o].run = jobs[w].run
    BY <1>0, <2>1 DEF OwnerInv, OwnerOK
  <2>3. \A v \in Workers \ {w} : Owns(v) => ops'[jobs[v].op] = ops[jobs[v].op]
    <3>1. \A x \in Ops \ {o} : ops'[x] = ops[x]
      BY <1>0, <1>11 DEF Finish, TypeOK
    <3> QED
      BY <1>0, <2>1, <3>1, DistinctEntries, JobUpdates DEF TypeOK
  <2>4. mgmt' = mgmt /\ used' = used /\ HandlerInv' /\ RecordsShrink
    BY <1>0, <1>11 DEF Finish, cloud, HandlerInv, RecordsShrink, Recorded
  <2>5. CASE jobs[w].child
    <3>1. jobs'[w] = IdleJob /\ \A v \in Workers \ {w} : jobs'[v] = jobs[v]
      BY <1>0, <1>11, <2>5 DEF Finish, TypeOK
    <3>2. sweep'.pc = "account" /\ sweep'.ok = jobs[w].ok /\ sweep'.run = sweep.run /\ sweep'.todo = sweep.todo
      BY <1>0, <1>11, <2>5 DEF Finish, TypeOK, Sweep
    <3>3. \A r : Gone(r) => Gone(r)'
      BY <2>4, <3>1 DEF Gone, SettingUp, Unfinished, IdleJob
    <3>4. \A v \in Workers : OwnerOK(v)' /\ CleanupOK(v)' /\ GoesOn(v)
      BY <2>3, <2>4, <3>1, <3>3, Unchanged, DroppedJob
    <3>5. \A v \in Workers : ChildOK(v)'
      BY <1>0, <2>5, <3>1, DroppedJob DEF SweepInv, ChildOK
    <3>6. SweepOK'
      <4>1. jobs[w].op \in CleanupOps /\ jobs[w].run = sweep.run /\ sweep.pc = "await"
        BY <1>0, <2>5 DEF SweepInv, ChildOK
      <4>2. PICK r : r = sweep.run
        OBVIOUS
      <4>3. jobs[w].ok => Gone(r)
        BY <1>0, <2>1, <4>1, <4>2 DEF CleanupInv, CleanupOK
      <4>4. jobs[w].ok => Gone(sweep.run)'
        BY <3>2, <3>3, <4>2, <4>3, SweptRunGone
      <4> QED
        BY <1>0, <2>1, <2>4, <3>2, <4>1, <4>4 DEF SweepInv, SweepOK, OwnerInv, OwnerOK
    <3> QED
      BY <1>0, <2>4, <3>4, <3>5, <3>6, Shrink DEF OwnerInv, CleanupInv
  <2>6. CASE ~jobs[w].child
    <3>1. /\ jobs'[w].pc = "record" /\ jobs'[w].op = o /\ jobs'[w].run = jobs[w].run
          /\ jobs'[w].out = jobs[w].run /\ jobs'[w].ok = jobs[w].ok /\ jobs'[w].phase = jobs[w].phase
          /\ jobs'[w].child = jobs[w].child
          /\ \A v \in Workers \ {w} : jobs'[v] = jobs[v]
      <4>1. jobs' = [jobs EXCEPT ![w] = [@ EXCEPT !.pc = "record", !.out = jobs[w].run]]
        BY <1>11, <2>2, <2>6 DEF Finish
      <4> QED
        BY <1>0, <4>1, RecordEffect
    <3>2. OwnerOK(w)'
      BY <3>1 DEF OwnerOK, Owns
    <3>3. (\A x : Gone(x) => Gone(x)') => CleanupOK(w)'
      BY <1>0, <2>1, <3>1 DEF CleanupInv, CleanupOK
    <3>4. GoesOn(w)
      BY <2>6, <3>1 DEF GoesOn, Owns, Unfinished
    <3>5. sweep' = sweep
      BY <1>11, <2>6 DEF Finish
    <3> QED
      BY <1>0, <2>3, <2>4, <3>1, <3>2, <3>3, <3>4, <3>5, OneSlot
  <2> QED
    BY <2>5, <2>6
<1>12. ASSUME NEW w \in Workers, RecordOutcome(w) PROVE IInv'
  <2>1. jobs[w].pc = "record"
    BY <1>12 DEF RecordOutcome, AtPc
  <2>2. ~jobs[w].child
    BY <1>0, <2>1 DEF SweepInv, ChildOK
  <2>3. RecordsShrink
    <3>1. CASE jobs[w].op = "downstream"
      BY <1>0, <1>12, <3>1, StatusKeepsRecord DEF RecordOutcome, RecordsShrink, Recorded, TypeOK,
         DownstreamStatuses, CleanupOps
    <3>2. CASE jobs[w].op \in CleanupOps /\ jobs[w].ok
      <4>1. Gone(jobs[w].out) /\ RemoveRecord(jobs[w].out)
        BY <1>0, <1>12, <2>1, <3>2 DEF CleanupInv, CleanupOK, RecordOutcome, CleanupOps
      <4> QED
        BY <4>1 DEF RemoveRecord, RecordsShrink, Recorded
    <3>3. CASE jobs[w].op # "downstream" /\ ~(jobs[w].op \in CleanupOps /\ jobs[w].ok)
      <4>1. OutcomeStatus(jobs[w].op, jobs[w].ok) \in Statuses \ {"none"}
        BY DEF OutcomeStatus, Statuses
      <4> QED
        BY <1>0, <1>12, <3>3, <4>1, SetStatusKeepsRecords DEF RecordOutcome, RecordsShrink
    <3> QED
      BY <3>1, <3>2, <3>3
  <2>4. sweep' = sweep /\ mgmt' = mgmt /\ used' = used /\ ops' = ops /\ HandlerInv'
    BY <1>0, <1>12 DEF RecordOutcome, cloud, HandlerInv
  <2>5. \A v \in Workers \ {w} : jobs'[v] = jobs[v]
    BY <1>0, <1>12 DEF RecordOutcome, TypeOK
  <2>6. OwnerOK(w)' /\ CleanupOK(w)' /\ GoesOn(w)
    <3>1. CASE jobs'[w] = IdleJob
      BY <3>1, DroppedJob
    <3>2. CASE jobs'[w] # IdleJob
      <4>1. jobs' = [jobs EXCEPT ![w].pc = "after"]
        BY <1>0, <1>12, <3>2 DEF RecordOutcome, TypeOK
      <4>2. /\ jobs'[w].pc = "after" /\ jobs'[w].op = jobs[w].op /\ jobs'[w].run = jobs[w].run
            /\ jobs'[w].child = jobs[w].child /\ jobs'[w].phase = jobs[w].phase
        BY <1>0, <4>1, PcEffect
      <4>3. jobs[w].phase = "start"
        BY <1>0, <2>1 DEF CleanupInv, CleanupOK
      <4> QED
        BY <2>2, <4>2, <4>3 DEF OwnerOK, Owns, CleanupOK, GoesOn, Unfinished
    <3> QED
      BY <3>1, <3>2
  <2> QED
    BY <1>0, <2>3, <2>4, <2>5, <2>6, OneSlot
<1>13. ASSUME NEW w \in Workers, NEW h \in Handlers, AfterSetup(w, h) PROVE IInv'
  <2>1. jobs'[w] = IdleJob /\ \A v \in Workers \ {w} : jobs'[v] = jobs[v]
    BY <1>0, <1>13 DEF AfterSetup, TypeOK
  <2>2. HandlerInv'
    <3>1. CASE UNCHANGED handlers
      BY <1>0, <1>13, <3>1 DEF AfterSetup, HandlerInv
    <3>2. CASE ReadinessAllowed(current) /\ Enqueue(h, "readiness", current)
      <4>1. current \in used
        BY <1>0, <3>2 DEF ReadinessAllowed, IInv, NoOrphanedInfrastructure, RecordInv
      <4> QED
        BY <1>0, <1>13, <3>2, <4>1, EnqueueKeeps, OpSets DEF AfterSetup, SetupOps, CleanupOps
    <3> QED
      BY <1>13, <3>1, <3>2 DEF AfterSetup
  <2>3. OwnerOK(w)' /\ CleanupOK(w)' /\ GoesOn(w)
    BY <2>1, DroppedJob
  <2> QED
    BY <1>0, <1>13, <2>1, <2>2, <2>3, OneSlot DEF AfterSetup, cloud, RecordsShrink, Recorded
<1>14. ASSUME NEW w \in Workers, NEW h \in Handlers, AfterReadiness(w, h) PROVE IInv'
  <2>1. jobs'[w] = IdleJob /\ \A v \in Workers \ {w} : jobs'[v] = jobs[v]
    BY <1>0, <1>14 DEF AfterReadiness, TypeOK
  <2>2. HandlerInv'
    <3>1. CASE UNCHANGED handlers
      BY <1>0, <1>14, <3>1 DEF AfterReadiness, HandlerInv
    <3>2. CASE DownstreamAllowed(jobs[w].run) /\ Enqueue(h, "downstream", jobs[w].run)
      <4>1. jobs[w].run \in used
        BY <1>0, <3>2 DEF DownstreamAllowed, Recorded, RecordInv
      <4> QED
        BY <1>0, <1>14, <3>2, <4>1, EnqueueKeeps, OpSets DEF AfterReadiness, SetupOps, CleanupOps
    <3> QED
      BY <1>14, <3>1, <3>2 DEF AfterReadiness
  <2>3. OwnerOK(w)' /\ CleanupOK(w)' /\ GoesOn(w)
    BY <2>1, DroppedJob
  <2>4. RecordsShrink
    <3>1. recs' = recs \/ recs' = WithDownstreamStatus(recs, jobs[w].run, "failed")
      BY <1>14 DEF AfterReadiness
    <3> QED
      BY <1>0, <3>1, StatusKeepsRecord DEF RecordsShrink, Recorded, TypeOK, DownstreamStatuses
  <2> QED
    BY <1>0, <1>14, <2>1, <2>2, <2>3, <2>4, OneSlot DEF AfterReadiness, cloud
<1>15. ASSUME NEW w \in Workers, Provision(w) PROVE IInv'
  <2> DEFINE r == jobs[w].run
  <2>1. SettingUp(w, r) /\ jobs[w].target = r /\ r \in Runs
    <3>1. jobs[w].op \in SetupOps /\ Unfinished(w) /\ Owns(w) /\ jobs[w].pc # "launch"
      BY <1>15 DEF Provision, Alive, Unfinished, Owns
    <3> QED
      BY <1>0, <3>1, SetupTarget DEF SettingUp, OwnerInv, OwnerOK, TypeOK
  <2>2. Recorded(r)
    BY <1>0, <2>1 DEF RecordInv
  <2>3. mgmt' = mgmt \cup {r} /\ UNCHANGED <<ops, jobs, handlers, recs, sweep, used>>
    BY <1>15, <2>1 DEF Provision
  <2>4. \A x : Gone(x) => Gone(x)'
    BY <2>1, <2>3 DEF Gone, SettingUp, Unfinished
  <2>5. \A v \in Workers : OwnerOK(v)' /\ CleanupOK(v)'
    BY <2>3, <2>4, Unchanged
  <2>6. SweepInv'
    BY <1>0, <2>3, <2>4 DEF SweepInv, SweepOK, ChildOK
  <2>7. RecordInv' /\ NoOrphanedInfrastructure'
    BY <1>0, <2>2, <2>3 DEF RecordInv, Recorded, SettingUp, Unfinished, IInv, NoOrphanedInfrastructure
  <2>8. ExclusiveInv' /\ KindInv' /\ HandlerInv'
    BY <1>0, <2>3 DEF IInv, ExclusiveInv, KindInv, HandlerInv, Owns
  <2> QED
    BY <1>0, <2>5, <2>6, <2>7, <2>8 DEF IInv, OwnerInv, CleanupInv
<1>16. ASSUME NEW w \in Workers, ProvisionDownstream(w) PROVE IInv'
  BY <1>0, <1>16, Frame DEF ProvisionDownstream, Recorded, HandlerInv
<1>17. ASSUME NEW w \in Workers, DeleteDownstreams(w) PROVE IInv'
  <2>1. jobs' = [jobs EXCEPT ![w].phase = "swept"]
    BY <1>17 DEF DeleteDownstreams
  <2>2. jobs[w].pc \in {"setpid", "wait", "orphan"} /\ Owns(w) /\ Unfinished(w)
        /\ jobs[w].op \in CleanupOps /\ jobs[w].op \notin SetupOps
    BY <1>17 DEF DeleteDownstreams, Alive, Owns, Unfinished, CleanupOps, SetupOps
  <2>3. OwnerOK(w)'
    BY <1>0, <1>17, <2>1, <2>2, PhaseEffect DEF DeleteDownstreams, OwnerInv, OwnerOK
  <2>4. (\A x : Gone(x) => Gone(x)') => CleanupOK(w)'
    BY <1>0, <2>1, <2>2, PhaseEffect DEF CleanupInv, CleanupOK
  <2>5. GoesOn(w)
    BY <1>0, <2>1, <2>2, PhaseEffect DEF GoesOn, Owns, Unfinished, SweepInv, ChildOK
  <2>6. HandlerInv' /\ RecordsShrink
    BY <1>0, <1>17 DEF DeleteDownstreams, RecordsShrink, Recorded, HandlerInv
  <2> QED
    BY <1>0, <1>17, <2>1, <2>3, <2>4, <2>5, <2>6, PhaseEffect, OneSlot DEF DeleteDownstreams
<1>18. ASSUME NEW w \in Workers, Destroy(w) PROVE IInv'
  <2>1. jobs' = [jobs EXCEPT ![w].phase = "destroyed"]
    BY <1>18 DEF Destroy
  <2>2. jobs[w].pc \in {"setpid", "wait", "orphan"} /\ Owns(w) /\ Unfinished(w)
        /\ jobs[w].op \in CleanupOps /\ jobs[w].op \notin SetupOps
    BY <1>18 DEF Destroy, Alive, Owns, Unfinished, CleanupOps, SetupOps
  <2>3. OwnerOK(w)'
    BY <1>0, <1>18, <2>1, <2>2, PhaseEffect DEF Destroy, OwnerInv, OwnerOK
  <2>4. (\A x : Gone(x) => Gone(x)') => Gone(jobs[w].run)'
    <3> SUFFICES ASSUME \A x : Gone(x) => Gone(x)'
                 PROVE  Gone(jobs[w].run)'
      OBVIOUS
    <3>1. PICK r : r = jobs[w].run
      OBVIOUS
    <3>2. Gone(r)'
      <4>1. CASE jobs[w].target # r
        BY <1>0, <2>2, <3>1, <4>1 DEF CleanupInv, CleanupOK
      <4>2. CASE jobs[w].target = r
        <5>1. r \in used' /\ r \notin mgmt'
          BY <1>0, <1>18, <2>2, <3>1, <4>2 DEF Destroy, OwnerInv, OwnerOK
        <5>2. \A v \in Workers : ~SettingUp(v, r)
          BY <2>2, <3>1, CleanupExcludesSetup
        <5>3. \A v \in Workers : ~SettingUp(v, r)'
          BY <1>0, <2>1, <2>2, <5>2, PhaseEffect DEF SettingUp, Unfinished
        <5> QED
          BY <5>1, <5>3 DEF Gone
      <4> QED
        BY <4>1, <4>2
    <3>3. jobs'[w].run = r
      BY <1>0, <2>1, <3>1, PhaseEffect
    <3> QED
      BY <3>2, <3>3 DEF Gone, SettingUp
  <2>5. (\A x : Gone(x) => Gone(x)') => CleanupOK(w)'
    BY <1>0, <2>1, <2>2, <2>4, PhaseEffect DEF CleanupInv, CleanupOK
  <2>6. GoesOn(w)
    BY <1>0, <2>1, <2>2, PhaseEffect DEF GoesOn, Owns, Unfinished, SweepInv, ChildOK
  <2>7. HandlerInv' /\ RecordsShrink
    BY <1>0, <1>18 DEF Destroy, RecordsShrink, Recorded, HandlerInv
  <2> QED
    BY <1>0, <1>18, <2>1, <2>3, <2>5, <2>6, <2>7, PhaseEffect, OneSlot DEF Destroy
<1>19. ASSUME NEW w \in Workers, NEW ok \in BOOLEAN, WorkerExit(w, ok) PROVE IInv'
  <2>1. sweep' = sweep /\ mgmt' = mgmt /\ used' = used /\ ops' = ops /\ HandlerInv' /\ RecordsShrink
    BY <1>0, <1>19 DEF WorkerExit, cloud, HandlerInv, RecordsShrink, Recorded
  <2>2. \A v \in Workers \ {w} : jobs'[v] = jobs[v]
    BY <1>0, <1>19 DEF WorkerExit, TypeOK
  <2>3. OwnerOK(w)' /\ ((\A x : Gone(x) => Gone(x)') => CleanupOK(w)') /\ GoesOn(w)
    <3>1. CASE jobs[w].pc = "wait"
      <4>1. jobs' = [jobs EXCEPT ![w] = [@ EXCEPT !.pc = "finish", !.ok = ok, !.phase = "start"]]
        BY <1>19, <3>1 DEF WorkerExit
      <4>2. Owns(w) /\ OwnerOK(w) /\ ChildOK(w) /\ CleanupOK(w)
        BY <1>0, <3>1 DEF Owns, OwnerInv, SweepInv, CleanupInv
      <4>3. ok /\ jobs[w].op \in CleanupOps => Gone(jobs[w].run)
        BY <1>19, <3>1, <4>2 DEF WorkerExit, Achieved, CleanupOK, CleanupOps, SetupOps
      <4>4. OwnerOK(w)'
        <5>1. jobs'[w].pc = "finish" /\ jobs'[w].op = jobs[w].op /\ jobs'[w].run = jobs[w].run
          BY <1>0, <4>1, ExitEffect
        <5> QED
          BY <2>1, <3>1, <4>2, <5>1 DEF OwnerOK
      <4>5. (\A x : Gone(x) => Gone(x)') => CleanupOK(w)'
        BY <1>0, <4>1, <4>3, ExitEffect DEF CleanupOK
      <4>6. GoesOn(w)
        BY <1>0, <4>1, <4>2, ExitEffect DEF GoesOn, Owns, Unfinished
      <4> QED
        BY <4>4, <4>5, <4>6
    <3>2. CASE jobs[w].pc # "wait"
      <4>1. jobs'[w] = IdleJob
        BY <1>0, <1>19, <3>2 DEF WorkerExit, TypeOK
      <4> QED
        BY <4>1, DroppedJob
    <3> QED
      BY <3>1, <3>2
  <2> QED
    BY <1>0, <2>1, <2>2, <2>3, OneSlot
<1>28. ASSUME NEW o \in Ops, Poll(o) PROVE IInv'
  <2>1. \A v \in Workers : Owns(v) => ops'[jobs[v].op] = ops[jobs[v].op]
    BY <1>0, <1>28, StaleKeepsOwned DEF Poll
  <2>2. \A r \in Runs : Recorded(r)' <=> Recorded(r)
    BY <1>0, <1>28, StaleKeepsRecords DEF Poll, Recorded
  <2> QED
    BY <1>0, <1>28, <2>1, <2>2, Frame DEF Poll, cloud, HandlerInv
<1>29. ASSUME AbortBatch PROVE IInv'
  BY <1>0, <1>29, Frame DEF AbortBatch, cloud, HandlerInv, Recorded
<1>30. ASSUME NEW o \in Ops, AbortOperation(o) PROVE IInv'
  BY <1>0, <1>30, Frame DEF AbortOperation, cloud, HandlerInv, Recorded
<1>20. ASSUME NEW S \in SUBSET Runs, StartBatch(S) PROVE IInv'
  <2>1. \A v \in Workers : ~Owns(v)
    <3>1. \A v \in Workers : jobs[v].op \in Ops
      BY <1>0, JobUpdates DEF TypeOK
    <3> QED
      BY <1>0, <1>20, <3>1, FreeClassHasNoOwner DEF StartBatch
  <2>2. \A v \in Workers : ~jobs[v].child
    BY <1>0, <2>1 DEF SweepInv, ChildOK, Owns
  <2>3. RecordsShrink
    BY <1>0, <1>20, StaleKeepsRecords DEF StartBatch, RecordsShrink, Recorded
  <2>4. sweep'.pc = "next" /\ sweep'.todo = S
    BY <1>20 DEF StartBatch, IdleSweep
  <2>5. SweepOK'
    BY <1>0, <1>20, <2>4 DEF StartBatch, SweepOK, RecordInv
  <2> QED
    BY <1>0, <1>20, <2>1, <2>2, <2>3, <2>5, SweepFrame DEF StartBatch, cloud, HandlerInv
<1>21. ASSUME SweepNext PROVE IInv'
  <2>1. sweep'.pc \in {"close", "read"} /\ sweep'.todo \subseteq sweep.todo
        /\ (sweep'.pc = "read" => sweep'.run \in sweep.todo)
    <3>1. CASE sweep.todo = {} \/ ~batch.running \/ batch.cancel
      BY <1>0, <1>21, <3>1 DEF SweepNext, TypeOK, Sweep
    <3>2. CASE ~(sweep.todo = {} \/ ~batch.running \/ batch.cancel)
      <4>1. PICK r \in sweep.todo : sweep' = [sweep EXCEPT !.pc = "read", !.run = r, !.todo = @ \ {r}]
        BY <1>21, <3>2 DEF SweepNext
      <4> QED
        BY <1>0, <4>1, TakeEffect DEF TypeOK
    <3> QED
      BY <3>1, <3>2
  <2>2. SweepOK'
    BY <1>0, <1>21, <2>1 DEF SweepNext, SweepInv, SweepOK
  <2> QED
    BY <1>0, <1>21, <2>2, SweepFrame DEF SweepNext, cloud, HandlerInv, RecordsShrink, Recorded, SweepInv, ChildOK
<1>22. ASSUME SweepRead PROVE IInv'
  <2>1. /\ sweep'.pc = "lock" \/ (sweep'.pc = "account" /\ sweep'.ok = FALSE)
        /\ sweep'.run = sweep.run /\ sweep'.todo = sweep.todo
    BY <1>0, <1>22 DEF SweepRead, TypeOK, Sweep
  <2>2. SweepOK'
    BY <1>0, <1>22, <2>1 DEF SweepRead, SweepInv, SweepOK
  <2> QED
    BY <1>0, <1>22, <2>2, SweepFrame DEF SweepRead, cloud, HandlerInv, RecordsShrink, Recorded, SweepInv, ChildOK
<1>23. ASSUME NEW w \in Workers, SweepStart(w) PROVE IInv'
  <2> DEFINE o == CleanupOpFor(sweep.run)
             r == sweep.run
  <2>1. r \in used /\ r \in Runs
    BY <1>0, <1>23 DEF SweepStart, SweepInv, SweepOK, TypeOK
  <2>2. o \in Ops /\ o \in CleanupOps /\ o \notin SetupOps
    BY <2>1, OpFor, OpSets DEF CleanupOps, SetupOps
  <2>3. Claim(o, r, TRUE, w) /\ used' = used /\ mgmt' = mgmt /\ sweep.pc = "lock"
    BY <1>23 DEF SweepStart, cloud
  <2>4. sweep'.pc = "await" /\ sweep'.run = sweep.run /\ sweep'.todo = sweep.todo
    BY <1>0, <1>23 DEF SweepStart, TypeOK, Sweep
  <2>5. \A x \in Runs : Recorded(x)' <=> Recorded(x)
    BY <1>0, <1>23, StaleKeepsRecords DEF SweepStart, Recorded
  <2>6. HandlerInv'
    BY <1>0, <1>23 DEF SweepStart, HandlerInv
  <2>7. o = CleanupOpFor(r)
    OBVIOUS
  <2> HIDE DEF o, r
  <2> QED
    BY <1>0, <2>1, <2>2, <2>3, <2>4, <2>5, <2>6, <2>7, Starts DEF RecordInv, r
<1>24. ASSUME SweepRefused PROVE IInv'
  <2> DEFINE S == IF ~batch.running \/ batch.cancel THEN {} ELSE Visited(ConflictsWith(CleanupOpFor(sweep.run)))
  <2>1. ops' = OpsAfterStale(S) /\ recs' = RecsAfterStale(S)
    BY <1>24 DEF SweepRefused
  <2>2. \A o \in S : Dead(o)
    BY VisitedIsDead
  <2> HIDE DEF S
  <2>3. \A v \in Workers : Owns(v) => ops'[jobs[v].op] = ops[jobs[v].op]
    BY <1>0, <2>1, <2>2, StaleKeepsOwned
  <2>4. RecordsShrink
    BY <1>0, <2>1, StaleKeepsRecords DEF Recorded, RecordsShrink
  <2>5. /\ sweep'.pc = "close" \/ (sweep'.pc = "account" /\ sweep'.ok = FALSE)
        /\ sweep'.run = sweep.run /\ sweep'.todo = sweep.todo
    BY <1>0, <1>24 DEF SweepRefused, TypeOK, Sweep
  <2>6. SweepOK'
    BY <1>0, <1>24, <2>5 DEF SweepRefused, SweepInv, SweepOK
  <2> QED
    BY <1>0, <1>24, <2>3, <2>4, <2>6, SweepFrame DEF SweepRefused, cloud, HandlerInv, SweepInv, ChildOK
<1>25. ASSUME SweepAccount PROVE IInv'
  <2>1. sweep'.pc = "tally" /\ sweep'.run = sweep.run /\ sweep'.todo = sweep.todo
    BY <1>0, <1>25 DEF SweepAccount, TypeOK, Sweep
  <2>2. SweepOK'
    BY <1>0, <1>25, <2>1 DEF SweepAccount, SweepInv, SweepOK
  <2>3. RecordsShrink
    <3>1. CASE sweep.ok
      BY <1>0, <1>25, <3>1 DEF SweepAccount, RemoveRecord, RecordsShrink, Recorded, SweepInv, SweepOK
    <3>2. CASE ~sweep.ok
      BY <1>0, <1>25, <3>2, SetStatusKeepsRecords DEF SweepAccount, RecordsShrink, Statuses
    <3> QED
      BY <3>1, <3>2
  <2> QED
    BY <1>0, <1>25, <2>2, <2>3, SweepFrame DEF SweepAccount, cloud, HandlerInv, SweepInv, ChildOK
<1>26. ASSUME SweepTally PROVE IInv'
  <2>1. sweep'.pc = "next" /\ sweep'.todo = sweep.todo
    BY <1>0, <1>26 DEF SweepTally, TypeOK, Sweep
  <2>2. SweepOK'
    BY <1>0, <1>26, <2>1 DEF SweepTally, SweepInv, SweepOK
  <2> QED
    BY <1>0, <1>26, <2>2, SweepFrame DEF SweepTally, cloud, HandlerInv, RecordsShrink, Recorded, SweepInv, ChildOK
<1>27. ASSUME SweepClose PROVE IInv'
  <2>1. sweep'.pc = "idle" /\ sweep'.todo = {}
    BY <1>27 DEF SweepClose, IdleSweep
  <2>2. SweepOK'
    BY <2>1 DEF SweepOK
  <2> QED
    BY <1>0, <1>27, <2>2, SweepFrame DEF SweepClose, cloud, HandlerInv, RecordsShrink, Recorded, SweepInv, ChildOK
<1>31. ASSUME Restart PROVE IInv'
  <2> DEFINE S == {o \in Ops : ops[o].running /\ (ops[o].pid = NoWorker \/ ~Alive(ops[o].pid))}
  <2>1. /\ ops' = OpsAfterStale(S) /\ recs' = RecsAfterStale(S)
        /\ mgmt' = mgmt /\ used' = used /\ sweep' = IdleSweep
        /\ handlers' = [h \in Handlers |-> IdleHandler]
    BY <1>31 DEF Restart, cloud
  <2>2. \A v \in Workers : Alive(v) => jobs[v].pc \in {"wait", "orphan"}
    BY <1>31 DEF Restart, TameFaults, Alive, AtPc
  <2>3. ASSUME NEW v \in Workers, Alive(v)
        PROVE  OwnerOK(v)' /\ GoesOn(v) /\ ~jobs'[v].child /\ ((\A x : Gone(x) => Gone(x)') => CleanupOK(v)')
    <3>1. Owns(v) /\ Unfinished(v) /\ OwnerOK(v) /\ CleanupOK(v) /\ jobs[v].op \in Ops
      BY <1>0, <2>2, <2>3, JobUpdates DEF Owns, Unfinished, OwnerInv, CleanupInv, TypeOK
    <3>2. jobs'[v] = [jobs[v] EXCEPT !.pc = "orphan", !.child = FALSE]
      BY <1>31, <2>3 DEF Restart
    <3>3. jobs'[v].pc = "orphan" /\ jobs'[v].op = jobs[v].op /\ jobs'[v].run = jobs[v].run
          /\ jobs'[v].child = FALSE /\ jobs'[v].target = jobs[v].target
          /\ jobs'[v].phase = jobs[v].phase /\ jobs'[v].ok = jobs[v].ok
      <4>1. jobs[v] \in Job
        BY <1>0 DEF TypeOK
      <4> QED
        BY <3>2, <4>1, OrphanEffect
    <3>4. ops[jobs[v].op].pid = v /\ v # NoWorker
      BY <2>2, <2>3, <3>1, RunsAssumption DEF OwnerOK
    <3>5. ops'[jobs[v].op] = ops[jobs[v].op]
      BY <2>1, <2>3, <3>1, <3>4 DEF OpsAfterStale
    <3>6. OwnerOK(v)'
      BY <2>1, <3>1, <3>3, <3>4, <3>5 DEF OwnerOK
    <3>7. GoesOn(v)
      BY <2>2, <2>3, <3>1, <3>3, SetupTarget DEF GoesOn
    <3>8. (\A x : Gone(x) => Gone(x)') => CleanupOK(v)'
      BY <2>2, <2>3, <3>1, <3>3 DEF CleanupOK
    <3> QED
      BY <3>3, <3>6, <3>7, <3>8
  <2>4. ASSUME NEW v \in Workers, ~Alive(v)
        PROVE  OwnerOK(v)' /\ GoesOn(v) /\ ~jobs'[v].child /\ CleanupOK(v)'
    <3>1. jobs'[v] = IdleJob
      BY <1>31, <2>4 DEF Restart
    <3> QED
      BY <3>1, DroppedJob
  <2>5. \A v \in Workers : OwnerOK(v)' /\ GoesOn(v) /\ ~jobs'[v].child
                           /\ ((\A x : Gone(x) => Gone(x)') => CleanupOK(v)')
    BY <2>3, <2>4
  <2>6. \A x : Gone(x) => Gone(x)'
    BY <2>1, <2>5, GoneStays
  <2>7. RecordsShrink
    BY <1>0, <2>1, StaleKeepsRecords DEF RecordsShrink, Recorded
  <2>8. SweepOK' /\ HandlerInv' /\ \A v \in Workers : ChildOK(v)'
    BY <2>1, <2>5 DEF SweepOK, IdleSweep, HandlerInv, IdleHandler, ChildOK
  <2> QED
    BY <1>0, <2>1, <2>5, <2>6, <2>7, <2>8, Shrink DEF OwnerInv, CleanupInv
<1>32. CASE UNCHANGED vars
  BY <1>0, <1>32, Frame DEF vars, HandlerInv, Recorded
<1> QED
  BY <1>1, <1>2, <1>3, <1>4, <1>5, <1>6, <1>7, <1>8, <1>9, <1>10, <1>11, <1>12, <1>13, <1>14, <1>15,
     <1>16, <1>17, <1>18, <1>19, <1>20, <1>21, <1>22, <1>23, <1>24, <1>25, <1>26, <1>27, <1>28,
     <1>29, <1>30, <1>31, <1>32 DEF Next, HandlerStep, JobStep, WorkerStep, SweepStep

-----------------------------------------------------------------------------
(* The theorems.                                                           *)

\* The panel starts with no slots and no operations.
LEMMA InvInit ==
  ASSUME Init
  PROVE  IInv
<1>1. \A w \in Workers : /\ ~Owns(w) /\ ~Unfinished(w) /\ ~jobs[w].child /\ ~jobs[w].ok
                         /\ jobs[w].pc = "idle" /\ jobs[w].phase = "start"
  BY DEF Init, IdleJob, Owns, Unfinished
<1>2. \A r \in Runs : ~Recorded(r)
  BY DEF Init, Recorded
<1>3. TypeOK
  BY TypeInit
<1>4. HandlerInv /\ NoOrphanedInfrastructure /\ SweepOK
  BY DEF Init, HandlerInv, IdleHandler, NoOrphanedInfrastructure, SweepOK, IdleSweep
<1>5. OwnerInv /\ ExclusiveInv /\ KindInv /\ RecordInv /\ CleanupInv /\ SweepInv
  BY <1>1, <1>2, <1>4 DEF OwnerInv, OwnerOK, ExclusiveInv, KindInv, RecordInv, SettingUp,
     CleanupInv, CleanupOK, SweepInv, ChildOK
<1> QED
  BY <1>3, <1>4, <1>5 DEF IInv

\* The invariant holds throughout, for every number of runs, workers and
\* handlers, every mix of deployment types and any number of restarts.
THEOREM Invariance ==
  ASSUME TameFaults
  PROVE  Spec => []IInv
<1>1. Init => IInv
  BY InvInit
<1>2. IInv /\ [Next]_vars => IInv'
  BY InvNext
<1> QED
  BY <1>1, <1>2, PTL DEF Spec

\* Type correctness of the operation table, jobs, records, batch and sweep.
THEOREM TypeCorrect ==
  ASSUME TameFaults
  PROVE  Spec => []TypeOK
<1>1. IInv => TypeOK
  BY DEF IInv
<1> QED
  BY <1>1, Invariance, PTL

\* A run that still has infrastructure always has its run record: neither a
\* cleanup, a batch, a stale operation nor a restart loses it
\* (updateRunStatusAfterOperation, finishCleanupBatchItem, removeRunRecord).
THEOREM InfrastructureIsRecorded ==
  ASSUME TameFaults
  PROVE  Spec => []NoOrphanedInfrastructure
<1>1. IInv => NoOrphanedInfrastructure
  BY DEF IInv
<1> QED
  BY <1>1, Invariance, PTL

\* Worker processes of conflicting operations never coexist, across stale
\* marking, polls and restarts (startPanelCommand, conflictingOperationRunningLocked).
THEOREM WorkersAreSerialized ==
  ASSUME TameFaults
  PROVE  Spec => []SerializedWorkers
<1>1. IInv => SerializedWorkers
  BY DEF IInv, ExclusiveInv, SerializedWorkers, Owns, Alive
<1> QED
  BY <1>1, Invariance, PTL
=============================================================================
