------------------------- MODULE PanelBatch_proofs --------------------------
(***************************************************************************)
(* PanelLifecycle implements RunSlots when all runs are in one conflict    *)
(* class; and what the cleanup batch holds, counts and stops, and which    *)
(* statuses are earned, for every set of runs, workers and handlers.       *)
(***************************************************************************)
EXTENDS PanelLifecycle_proofs

-----------------------------------------------------------------------------
(* The refinement of RunSlots.                                             *)

\* A slot is not newly swept, and a swept one still means the same run.
KeepsPhase(v) ==
  jobs'[v].phase = "swept" =>
    jobs[v].phase = "swept" /\ jobs'[v].op = jobs[v].op /\ jobs'[v].target = jobs[v].target

\* At most one record disappears, of a run of which nothing is left.
ReleasesOne ==
  \E r \in RunOrNone : /\ r \in Runs => Gone(r)
                       /\ \A x \in Runs : Recorded(x)' <=> Recorded(x) /\ x # r

\* Steps that neither draw a run id nor touch the infrastructure.
Quiet ==
  /\ used' = used /\ mgmt' = mgmt /\ ds' = ds
  /\ ReleasesOne
  /\ \A v \in Workers : KeepsPhase(v)

CloudStep(w) == Provision(w) \/ ProvisionDownstream(w) \/ DeleteDownstreams(w) \/ Destroy(w)

\* Only one slot owns an entry when there is one conflict class.
LEMMA SingleOwner ==
  ASSUME IInv, OneClass, NEW v \in Workers, NEW w \in Workers, Owns(v), Owns(w)
  PROVE  v = w
<1>1. ASSUME NEW u \in Workers, Owns(u) PROVE jobs[u].op \in Ops \ LinodeOps
  <2>1. jobs[u].op \in Ops /\ jobs[u].run \in Runs
    BY <1>1, JobUpdates DEF IInv, TypeOK, OwnerInv, OwnerOK
  <2>2. SetupOpFor(jobs[u].run) = "setup" /\ CleanupOpFor(jobs[u].run) = "cleanup"
    BY <2>1 DEF OneClass, SetupOpFor, CleanupOpFor
  <2> QED
    BY <1>1, <2>1, <2>2 DEF IInv, KindInv, LinodeOps, SetupOps, CleanupOps
<1> QED
  BY <1>1 DEF IInv, ExclusiveInv, ConflictsWith

LEMMA KeepsRecords ==
  ASSUME \A x \in Runs : Recorded(x)' <=> Recorded(x)
  PROVE  ReleasesOne
<1>1. NoRun \notin Runs /\ NoRun \in RunOrNone
  BY RunsAssumption DEF RunOrNone
<1> QED
  BY <1>1 DEF ReleasesOne

LEMMA RemoveReleases ==
  ASSUME TypeOK, NEW r \in RunOrNone, r \in Runs => Gone(r), RemoveRecord(r)
  PROVE  ReleasesOne
BY DEF ReleasesOne, RemoveRecord, Recorded, TypeOK

LEMMA DownstreamStatusReleases ==
  ASSUME TypeOK, NEW x, NEW s \in DownstreamStatuses \ {"none"}, recs' = WithDownstreamStatus(recs, x, s)
  PROVE  ReleasesOne
BY StatusKeepsRecord, KeepsRecords DEF Recorded, TypeOK

\* Slots whose worker has not begun, or has been reaped, are not swept.
LEMMA OnlyWorkersSweep ==
  ASSUME IInv, NEW v \in Workers, jobs[v].pc \notin {"setpid", "wait", "orphan"}
  PROVE  jobs[v].phase = "start"
BY DEF IInv, CleanupInv, CleanupOK

\* The other slots are left alone and this one does not enter the phase.
LEMMA OneSlotKeepsPhase ==
  ASSUME NEW w \in Workers, \A v \in Workers \ {w} : jobs'[v] = jobs[v],
         jobs'[w].phase # "swept" \/
           (jobs'[w].phase = jobs[w].phase /\ jobs'[w].op = jobs[w].op /\ jobs'[w].target = jobs[w].target)
  PROVE  \A v \in Workers : KeepsPhase(v)
BY DEF KeepsPhase

LEMMA SameJobsKeepPhase ==
  ASSUME jobs' = jobs
  PROVE  \A v \in Workers : KeepsPhase(v)
BY DEF KeepsPhase

\* Every step is a start of a setup, a step of a worker, or quiet.
LEMMA StepKinds ==
  ASSUME IInv, TameFaults, [Next]_vars
  PROVE  \/ \E r \in Runs, w \in Workers : StartSetup(r, w)
         \/ \E w \in Workers : CloudStep(w)
         \/ Quiet
<1>0. TypeOK /\ OwnerInv /\ CleanupInv /\ SweepInv
  BY DEF IInv
<1>a. \A S : recs' = RecsAfterStale(S) => ReleasesOne
  BY <1>0, StaleKeepsRecords, KeepsRecords DEF Recorded
<1>b. recs' = recs => ReleasesOne
  BY KeepsRecords DEF Recorded
<1>2. ASSUME NEW h \in Handlers, RequestReadiness(h) PROVE Quiet
  BY <1>2, <1>b, SameJobsKeepPhase DEF RequestReadiness, cloud, Quiet
<1>3. ASSUME NEW h \in Handlers, NEW r \in Runs, RequestDownstream(h, r) PROVE Quiet
  BY <1>3, <1>b, SameJobsKeepPhase DEF RequestDownstream, cloud, Quiet
<1>4. ASSUME NEW h \in Handlers, NEW r \in Runs, RequestCleanup(h, r) PROVE Quiet
  BY <1>4, <1>b, SameJobsKeepPhase DEF RequestCleanup, cloud, Quiet
<1>5. ASSUME NEW h \in Handlers, NEW w \in Workers, StartRequested(h, w) PROVE Quiet
  <2> DEFINE o == handlers[h].op
             S == Visited(ConflictsWith(o))
  <2>1. o \in Ops
    BY <1>0, HandlerUpdates DEF TypeOK
  <2>2. Claimed(o, handlers[h].run, FALSE, w)
    BY <1>0, <1>5, <2>1, ClaimEffect DEF StartRequested
  <2>3. ReleasesOne
    <3>1. RecsAfterStale(S) \in [Runs -> RunRecord]
      BY <1>0, StaleTypes
    <3>2. "running" \in DownstreamStatuses \ {"none"}
      BY DEF DownstreamStatuses
    <3>3. \A x \in Runs : Recorded(x)' <=> RecsAfterStale(S)[x] # NoRecord
      BY <1>5, <3>1, <3>2, StatusKeepsRecord DEF StartRequested, Recorded
    <3> QED
      BY <1>0, <3>3, StaleKeepsRecords, KeepsRecords
  <2>4. \A v \in Workers : KeepsPhase(v)
    BY <2>2, OneSlotKeepsPhase DEF Claimed
  <2> QED
    BY <1>5, <2>3, <2>4 DEF StartRequested, cloud, Quiet
<1>6. ASSUME NEW h \in Handlers, RefuseRequested(h) PROVE Quiet
  BY <1>6, <1>a, SameJobsKeepPhase DEF RefuseRequested, cloud, Quiet
<1>7. ASSUME NEW h \in Handlers, RecordRefusal(h) PROVE Quiet
  <2>1. "failed" \in DownstreamStatuses \ {"none"}
    BY DEF DownstreamStatuses
  <2>2. ReleasesOne
    BY <1>0, <1>7, <2>1, DownstreamStatusReleases DEF RecordRefusal
  <2> QED
    BY <1>7, <2>2, SameJobsKeepPhase DEF RecordRefusal, cloud, Quiet
<1>8. ASSUME NEW w \in Workers, ComputeEnv(w) PROVE Quiet
  <2>1. /\ \A v \in Workers \ {w} : jobs'[v] = jobs[v]
        /\ jobs'[w].phase = jobs[w].phase
    BY <1>0, <1>8 DEF ComputeEnv, TypeOK, Job
  <2>2. jobs[w].phase = "start"
    BY <1>8, OnlyWorkersSweep DEF ComputeEnv, AtPc
  <2> QED
    BY <1>8, <1>b, <2>1, <2>2, OneSlotKeepsPhase DEF ComputeEnv, cloud, Quiet
<1>9. ASSUME NEW w \in Workers, Spawn(w) PROVE Quiet
  <2>1. \E pc \in {"setpid", "finish"} : jobs' = [jobs EXCEPT ![w].pc = pc]
    BY <1>9 DEF Spawn
  <2>2. \A v \in Workers : KeepsPhase(v)
    BY <1>0, <2>1, PcEffect, OneSlotKeepsPhase
  <2> QED
    BY <1>9, <1>b, <2>2 DEF Spawn, cloud, Quiet
<1>10. ASSUME NEW w \in Workers, RecordPid(w) PROVE Quiet
  <2>1. jobs' = [jobs EXCEPT ![w].pc = "wait"]
    BY <1>10 DEF RecordPid
  <2>2. \A v \in Workers : KeepsPhase(v)
    BY <1>0, <2>1, PcEffect, OneSlotKeepsPhase
  <2> QED
    BY <1>10, <1>b, <2>2 DEF RecordPid, cloud, Quiet
<1>11. ASSUME NEW w \in Workers, Finish(w) PROVE Quiet
  <2>1. jobs[w].phase = "start"
    BY <1>11, OnlyWorkersSweep DEF Finish, AtPc
  <2>2. \A v \in Workers : KeepsPhase(v)
    <3>1. CASE jobs' = [jobs EXCEPT ![w] = IdleJob]
      <4>1. jobs'[w].phase = "start" /\ \A v \in Workers \ {w} : jobs'[v] = jobs[v]
        BY <1>0, <3>1 DEF TypeOK, IdleJob
      <4> QED
        BY <4>1, OneSlotKeepsPhase
    <3>2. CASE \E r : jobs' = [jobs EXCEPT ![w] = [@ EXCEPT !.pc = "record", !.out = r]]
      <4>1. jobs'[w].phase = jobs[w].phase /\ \A v \in Workers \ {w} : jobs'[v] = jobs[v]
        BY <1>0, <3>2, RecordEffect
      <4> QED
        BY <2>1, <4>1, OneSlotKeepsPhase
    <3> QED
      BY <1>11, <3>1, <3>2 DEF Finish
  <2> QED
    BY <1>11, <1>b, <2>2 DEF Finish, cloud, Quiet
<1>12. ASSUME NEW w \in Workers, RecordOutcome(w) PROVE Quiet
  <2>1. jobs[w].phase = "start" /\ jobs[w].out \in RunOrNone
    BY <1>0, <1>12, OnlyWorkersSweep, JobUpdates DEF RecordOutcome, AtPc, TypeOK
  <2>2. \A v \in Workers : KeepsPhase(v)
    <3>1. CASE jobs' = [jobs EXCEPT ![w] = IdleJob]
      <4>1. jobs'[w].phase = "start" /\ \A v \in Workers \ {w} : jobs'[v] = jobs[v]
        BY <1>0, <3>1 DEF TypeOK, IdleJob
      <4> QED
        BY <4>1, OneSlotKeepsPhase
    <3>2. CASE jobs' = [jobs EXCEPT ![w] = [@ EXCEPT !.pc = "after"]]
      <4>1. jobs' = [jobs EXCEPT ![w].pc = "after"]
        BY <1>0, <3>2
      <4> QED
        BY <1>0, <2>1, <4>1, PcEffect, OneSlotKeepsPhase
    <3> QED
      BY <1>12, <3>1, <3>2 DEF RecordOutcome
  <2>3. ReleasesOne
    <3>1. CASE jobs[w].op = "downstream"
      BY <1>0, <1>12, <3>1, DownstreamStatusReleases
         DEF RecordOutcome, DownstreamStatuses, CleanupOps
    <3>2. CASE jobs[w].op \in CleanupOps /\ jobs[w].ok
      <4>1. Gone(jobs[w].out) /\ RemoveRecord(jobs[w].out)
        BY <1>0, <1>12, <3>2 DEF CleanupInv, CleanupOK, RecordOutcome, CleanupOps, AtPc
      <4> QED
        BY <1>0, <2>1, <4>1, RemoveReleases
    <3>3. CASE jobs[w].op # "downstream" /\ ~(jobs[w].op \in CleanupOps /\ jobs[w].ok)
      <4>1. OutcomeStatus(jobs[w].op, jobs[w].ok) \in Statuses \ {"none"}
        BY DEF OutcomeStatus, Statuses
      <4> QED
        BY <1>0, <1>12, <3>3, <4>1, SetStatusKeepsRecords, KeepsRecords DEF RecordOutcome
    <3> QED
      BY <3>1, <3>2, <3>3
  <2> QED
    BY <1>12, <2>2, <2>3 DEF RecordOutcome, cloud, Quiet
<1>13. ASSUME NEW w \in Workers, NEW h \in Handlers, AfterSetup(w, h) PROVE Quiet
  <2>1. jobs'[w].phase = "start" /\ \A v \in Workers \ {w} : jobs'[v] = jobs[v]
    BY <1>0, <1>13 DEF AfterSetup, TypeOK, IdleJob
  <2> QED
    BY <1>13, <1>b, <2>1, OneSlotKeepsPhase DEF AfterSetup, cloud, Quiet
<1>14. ASSUME NEW w \in Workers, NEW h \in Handlers, AfterReadiness(w, h) PROVE Quiet
  <2>1. jobs'[w].phase = "start" /\ \A v \in Workers \ {w} : jobs'[v] = jobs[v]
    BY <1>0, <1>14 DEF AfterReadiness, TypeOK, IdleJob
  <2>2. ReleasesOne
    <3>1. "failed" \in DownstreamStatuses \ {"none"}
      BY DEF DownstreamStatuses
    <3>2. recs' = recs \/ recs' = WithDownstreamStatus(recs, jobs[w].run, "failed")
      BY <1>14 DEF AfterReadiness
    <3> QED
      BY <1>0, <1>b, <3>1, <3>2, DownstreamStatusReleases
  <2> QED
    BY <1>14, <2>1, <2>2, OneSlotKeepsPhase DEF AfterReadiness, cloud, Quiet
<1>19. ASSUME NEW w \in Workers, NEW ok \in BOOLEAN, WorkerExit(w, ok) PROVE Quiet
  <2>1. jobs'[w].phase = "start" /\ \A v \in Workers \ {w} : jobs'[v] = jobs[v]
    <3>1. CASE jobs[w].pc = "wait"
      BY <1>0, <1>19, <3>1, ExitEffect DEF WorkerExit
    <3>2. CASE jobs[w].pc # "wait"
      BY <1>0, <1>19, <3>2 DEF WorkerExit, TypeOK, IdleJob
    <3> QED
      BY <3>1, <3>2
  <2> QED
    BY <1>19, <1>b, <2>1, OneSlotKeepsPhase DEF WorkerExit, cloud, Quiet
<1>20. ASSUME NEW S \in SUBSET Runs, StartBatch(S) PROVE Quiet
  BY <1>20, <1>a, SameJobsKeepPhase DEF StartBatch, cloud, Quiet
<1>21. ASSUME SweepNext PROVE Quiet
  BY <1>21, <1>b, SameJobsKeepPhase DEF SweepNext, cloud, Quiet
<1>22. ASSUME SweepRead PROVE Quiet
  BY <1>22, <1>b, SameJobsKeepPhase DEF SweepRead, cloud, Quiet
<1>23. ASSUME NEW w \in Workers, SweepStart(w) PROVE Quiet
  <2> DEFINE o == CleanupOpFor(sweep.run)
  <2>1. o \in Ops
    BY OpSets DEF CleanupOpFor, CleanupOps
  <2>2. Claimed(o, sweep.run, TRUE, w)
    BY <1>0, <1>23, <2>1, ClaimEffect DEF SweepStart
  <2>3. \A v \in Workers : KeepsPhase(v)
    BY <2>2, OneSlotKeepsPhase DEF Claimed
  <2> QED
    BY <1>23, <1>a, <2>3 DEF SweepStart, cloud, Quiet
<1>24. ASSUME SweepRefused PROVE Quiet
  BY <1>24, <1>a, SameJobsKeepPhase DEF SweepRefused, cloud, Quiet
<1>25. ASSUME SweepAccount PROVE Quiet
  <2>1. ReleasesOne
    <3>1. CASE sweep.ok
      <4>1. sweep.run \in RunOrNone /\ Gone(sweep.run) /\ RemoveRecord(sweep.run)
        BY <1>0, <1>25, <3>1 DEF SweepAccount, SweepInv, SweepOK, TypeOK, Sweep
      <4> QED
        BY <1>0, <4>1, RemoveReleases
    <3>2. CASE ~sweep.ok
      BY <1>0, <1>25, <3>2, SetStatusKeepsRecords, KeepsRecords DEF SweepAccount, Statuses
    <3> QED
      BY <3>1, <3>2
  <2> QED
    BY <1>25, <2>1, SameJobsKeepPhase DEF SweepAccount, cloud, Quiet
<1>26. ASSUME SweepTally PROVE Quiet
  BY <1>26, <1>b, SameJobsKeepPhase DEF SweepTally, cloud, Quiet
<1>27. ASSUME SweepClose PROVE Quiet
  BY <1>27, <1>b, SameJobsKeepPhase DEF SweepClose, cloud, Quiet
<1>28. ASSUME NEW o \in Ops, Poll(o) PROVE Quiet
  BY <1>28, <1>a, SameJobsKeepPhase DEF Poll, cloud, Quiet
<1>29. ASSUME AbortBatch PROVE Quiet
  BY <1>29, <1>b, SameJobsKeepPhase DEF AbortBatch, cloud, Quiet
<1>30. ASSUME NEW o \in Ops, AbortOperation(o) PROVE Quiet
  BY <1>30, <1>b, SameJobsKeepPhase DEF AbortOperation, cloud, Quiet
<1>31. ASSUME Restart PROVE Quiet
  <2>1. ASSUME NEW v \in Workers PROVE KeepsPhase(v)
    <3>1. CASE Alive(v)
      <4>1. jobs[v] \in Job /\ jobs'[v] = [jobs[v] EXCEPT !.pc = "orphan", !.child = FALSE]
        BY <1>0, <1>31, <3>1 DEF Restart, TypeOK
      <4>2. jobs'[v].phase = jobs[v].phase /\ jobs'[v].op = jobs[v].op /\ jobs'[v].target = jobs[v].target
        BY <4>1, OrphanEffect
      <4> QED
        BY <4>2 DEF KeepsPhase
    <3>2. CASE ~Alive(v)
      BY <1>31, <3>2 DEF Restart, KeepsPhase, IdleJob
    <3> QED
      BY <3>1, <3>2
  <2> QED
    BY <1>31, <1>a, <2>1 DEF Restart, cloud, Quiet
<1>32. CASE UNCHANGED vars
  BY <1>32, <1>b, SameJobsKeepPhase DEF vars, Quiet
<1> QED
  BY <1>2, <1>3, <1>4, <1>5, <1>6, <1>7, <1>8, <1>9, <1>10, <1>11, <1>12, <1>13, <1>14,
     <1>19, <1>20, <1>21, <1>22, <1>23, <1>24, <1>25, <1>26, <1>27, <1>28,
     <1>29, <1>30, <1>31, <1>32 DEF Next, HandlerStep, JobStep, WorkerStep, SweepStep, CloudStep

-----------------------------------------------------------------------------
(* The infrastructure.                                                     *)

\* What both directions of the argument rest on.
CloudInv == IInv /\ SweptInv /\ NoStrandedDownstreams

\* The panel starts with no infrastructure.
LEMMA CloudInit ==
  ASSUME Init
  PROVE  CloudInv
<1>1. SweptInv /\ NoStrandedDownstreams
  BY DEF Init, SweptInv, IdleJob, NoStrandedDownstreams
<1> QED
  BY <1>1, InvInit DEF CloudInv

\* A worker that provisions downstreams is alone.
LEMMA NoSweepBeside ==
  ASSUME CloudInv, OneClass, NEW v \in Workers, ProvisionDownstream(v)
  PROVE  \A w \in Workers : jobs[w].phase # "swept"
<1> SUFFICES ASSUME NEW w \in Workers, jobs[w].phase = "swept"
             PROVE  FALSE
  OBVIOUS
<1>1. Owns(w) /\ Owns(v)
  BY OnlyWorkersSweep DEF CloudInv, ProvisionDownstream, Alive, Owns
<1>2. v = w
  BY <1>1, SingleOwner DEF CloudInv
<1> QED
  BY <1>2 DEF CloudInv, SweptInv, ProvisionDownstream, CleanupOps

\* Every step keeps the downstreams within the management infrastructure.
LEMMA CloudNext ==
  ASSUME CloudInv, TameFaults, OneClass, [Next]_vars
  PROVE  CloudInv'
<1>1. IInv' /\ IInv /\ TypeOK
  BY InvNext DEF CloudInv, IInv
<1>2. CASE \E r \in Runs, w \in Workers : StartSetup(r, w)
  <2>1. PICK r \in Runs, w \in Workers : StartSetup(r, w)
    BY <1>2
  <2>2. SetupOpFor(r) \in Ops
    BY OpFor, OpSets
  <2>3. Claimed(SetupOpFor(r), r, FALSE, w)
    BY <1>1, <2>1, <2>2, ClaimEffect DEF IInv, StartSetup
  <2>4. \A v \in Workers : KeepsPhase(v)
    BY <2>3, OneSlotKeepsPhase DEF Claimed
  <2> QED
    BY <1>1, <2>1, <2>4 DEF CloudInv, SweptInv, KeepsPhase, NoStrandedDownstreams, StartSetup, cloud
<1>3. CASE Quiet
  BY <1>1, <1>3 DEF CloudInv, SweptInv, Quiet, KeepsPhase, NoStrandedDownstreams
<1>4. ASSUME NEW w \in Workers, Provision(w) PROVE CloudInv'
  BY <1>1, <1>4 DEF CloudInv, SweptInv, NoStrandedDownstreams, Provision
<1>5. ASSUME NEW w \in Workers, ProvisionDownstream(w) PROVE CloudInv'
  BY <1>1, <1>5, NoSweepBeside DEF CloudInv, SweptInv, NoStrandedDownstreams, ProvisionDownstream
<1>6. ASSUME NEW w \in Workers, DeleteDownstreams(w) PROVE CloudInv'
  <2>1. jobs' = [jobs EXCEPT ![w].phase = "swept"] /\ ds' = ds \ {jobs[w].target} /\ mgmt' = mgmt
        /\ jobs[w].op \in CleanupOps
    BY <1>6 DEF DeleteDownstreams
  <2>2. SweptInv'
    BY <1>1, <2>1, PhaseEffect DEF CloudInv, SweptInv
  <2> QED
    BY <1>1, <2>1, <2>2 DEF CloudInv, NoStrandedDownstreams
<1>7. ASSUME NEW w \in Workers, Destroy(w) PROVE CloudInv'
  <2>1. jobs' = [jobs EXCEPT ![w].phase = "destroyed"] /\ mgmt' = mgmt \ {jobs[w].target} /\ ds' = ds
        /\ jobs[w].phase = "swept"
    BY <1>7 DEF Destroy
  <2>2. SweptInv'
    BY <1>1, <2>1, PhaseEffect DEF CloudInv, SweptInv
  <2> QED
    BY <1>1, <2>1, <2>2 DEF CloudInv, SweptInv, NoStrandedDownstreams
<1> QED
  BY <1>1, <1>2, <1>3, <1>4, <1>5, <1>6, <1>7, StepKinds DEF CloudStep

\* With one conflict class a cleanup destroys the management Rancher of a run
\* only when its downstream clusters are gone and stay gone (TestHACleanup,
\* conflictingPanelOperationNames).
THEOREM NothingStranded ==
  ASSUME TameFaults, OneClass
  PROVE  Spec => []NoStrandedDownstreams
<1>1. Init => CloudInv
  BY CloudInit
<1>2. CloudInv /\ [Next]_vars => CloudInv'
  BY CloudNext
<1>3. CloudInv => NoStrandedDownstreams
  BY DEF CloudInv
<1> QED
  BY <1>1, <1>2, <1>3, PTL DEF Spec

-----------------------------------------------------------------------------
(* The refinement.                                                         *)

\* The slots that RunSlots sees as recorded.
RecordedRuns == {r \in Runs : Recorded(r)}

\* The panel starts as RunSlots does.
LEMMA SlotsInit == Init => Slots!Init
BY DEF Init, Slots!Init, Recorded

\* Every step is a step of RunSlots or changes nothing it shows.
LEMMA SlotsNext ==
  ASSUME CloudInv, TameFaults, OneClass, [Next]_vars
  PROVE  [Slots!Next]_Slots!vars
<1>1. IInv /\ TypeOK /\ OwnerInv /\ RecordInv
  BY DEF CloudInv, IInv
<1>2. ASSUME NEW r \in Runs, NEW w \in Workers, StartSetup(r, w) PROVE Slots!Create(r)
  <2> DEFINE S == Visited(ConflictsWith(SetupOpFor(r)))
             new == [status |-> "setup_running", dstat |-> IF r \in WithDownstreams THEN "pending" ELSE "none"]
  <2>1. recs' = [RecsAfterStale(S) EXCEPT ![r] = new] /\ new # NoRecord
    BY <1>2 DEF StartSetup, NoRecord
  <2>2. RecsAfterStale(S) \in [Runs -> RunRecord]
    BY <1>1, StaleTypes
  <2>3. \A x \in Runs : Recorded(x)' <=> Recorded(x) \/ x = r
    BY <1>1, <2>1, <2>2, StaleKeepsRecords DEF Recorded
  <2>4. RecordedRuns' = RecordedRuns \cup {r}
    BY <2>3 DEF RecordedRuns
  <2> QED
    BY <1>2, <2>4 DEF StartSetup, cloud, Slots!Create, RecordedRuns
<1>3. ASSUME NEW w \in Workers, Provision(w) PROVE \E r \in Runs : Slots!Provision(r)
  <2> DEFINE r == jobs[w].run
  <2>1. jobs[w].op \in SetupOps /\ Unfinished(w) /\ Owns(w) /\ jobs[w].pc # "launch"
    BY <1>3 DEF Provision, Alive, Unfinished, Owns
  <2>2. r \in Runs /\ jobs[w].target = r
    BY <1>1, <2>1, SetupTarget DEF OwnerInv, OwnerOK, TypeOK
  <2>3. Recorded(r)
    BY <1>1, <2>1, <2>2 DEF RecordInv, SettingUp
  <2>4. recs' = recs /\ RecordedRuns' = RecordedRuns
    BY <1>3 DEF Provision, RecordedRuns, Recorded
  <2> QED
    BY <1>3, <2>2, <2>3, <2>4 DEF Provision, Slots!Provision, RecordedRuns
<1>4. ASSUME NEW w \in Workers, ProvisionDownstream(w) PROVE \E r \in Runs : Slots!Extend(r)
  <2>1. jobs[w].target \in Runs
    BY <1>1, <1>4 DEF ProvisionDownstream, TypeOK
  <2>2. RecordedRuns' = RecordedRuns
    BY <1>4 DEF ProvisionDownstream, RecordedRuns, Recorded
  <2> QED
    BY <1>4, <2>1, <2>2 DEF ProvisionDownstream, Slots!Extend, RecordedRuns
<1>5. ASSUME NEW w \in Workers, DeleteDownstreams(w) PROVE \E r \in Runs : Slots!Shrink(r)
  <2>1. RecordedRuns' = RecordedRuns
    BY <1>5 DEF DeleteDownstreams, RecordedRuns, Recorded
  <2> QED
    BY <1>5, <2>1 DEF DeleteDownstreams, Slots!Shrink, RecordedRuns
<1>6. ASSUME NEW w \in Workers, Destroy(w) PROVE (\E r \in Runs : Slots!Destroy(r)) \/ UNCHANGED Slots!vars
  <2>1. RecordedRuns' = RecordedRuns
    BY <1>6 DEF Destroy, RecordedRuns, Recorded
  <2>2. CASE jobs[w].target \in Runs
    BY <1>6, <2>1, <2>2 DEF Destroy, CloudInv, SweptInv, Slots!Destroy, RecordedRuns
  <2>3. CASE jobs[w].target \notin Runs
    BY <1>1, <1>6, <2>1, <2>3 DEF Destroy, TypeOK, Slots!vars, RecordedRuns
  <2> QED
    BY <2>2, <2>3
<1>7. ASSUME Quiet PROVE (\E r \in Runs : Slots!Release(r)) \/ UNCHANGED Slots!vars
  <2>1. PICK r \in RunOrNone : /\ r \in Runs => Gone(r)
                               /\ \A x \in Runs : Recorded(x)' <=> Recorded(x) /\ x # r
    BY <1>7 DEF Quiet, ReleasesOne
  <2>2. RecordedRuns' = RecordedRuns \ {r}
    BY <2>1 DEF RecordedRuns
  <2>3. CASE r \in RecordedRuns
    <3>1. r \in Runs /\ r \notin mgmt
      BY <2>1, <2>3 DEF RecordedRuns, Gone
    <3> QED
      BY <1>7, <2>2, <2>3, <3>1 DEF Quiet, Slots!Release, RecordedRuns
  <2>4. CASE r \notin RecordedRuns
    BY <1>7, <2>2, <2>4 DEF Quiet, Slots!vars, RecordedRuns
  <2> QED
    BY <2>3, <2>4
<1> QED
  BY <1>1, <1>2, <1>3, <1>4, <1>5, <1>6, <1>7, StepKinds DEF CloudStep, Slots!Next

\* The panel keeps the promise of RunSlots: no slot is provisioned without a
\* record, none loses its record or its management Rancher too early
\* (startPanelCommand, TestHACleanup, updateRunStatusAfterOperation).
THEOREM Refinement ==
  ASSUME TameFaults, OneClass
  PROVE  Spec => ImplementsSlots
<1>1. Init => CloudInv
  BY CloudInit
<1>2. CloudInv /\ [Next]_vars => CloudInv'
  BY CloudNext
<1>3. Init => Slots!Init
  BY SlotsInit
<1>4. CloudInv /\ [Next]_vars => [Slots!Next]_Slots!vars
  BY SlotsNext
<1> QED
  BY <1>1, <1>2, <1>3, <1>4, PTL DEF Spec, ImplementsSlots, Slots!Spec

-----------------------------------------------------------------------------
(* Facts about one step.                                                   *)

\* Marking stale starts no operation.
LEMMA StaleRunsNothing ==
  ASSUME TypeOK, NEW S, NEW o \in Ops
  PROVE  OpsAfterStale(S)[o].run = ops[o].run /\ (OpsAfterStale(S)[o].running => ops[o].running)
BY DEF OpsAfterStale, TypeOK, OpEntry

\* Run ids stay drawn.
LEMMA UsedGrows ==
  ASSUME IInv, TameFaults, [Next]_vars
  PROVE  used \subseteq used'
<1>1. CASE \E r \in Runs, w \in Workers : StartSetup(r, w)
  BY <1>1 DEF StartSetup
<1>2. CASE \E w \in Workers : CloudStep(w)
  BY <1>2 DEF CloudStep, Provision, ProvisionDownstream, DeleteDownstreams, Destroy
<1>3. CASE Quiet
  BY <1>3 DEF Quiet
<1> QED
  BY <1>1, <1>2, <1>3, StepKinds

\* A run that was released is never recorded again.
LEMMA UnrecordedStays ==
  ASSUME IInv, TameFaults, [Next]_vars, NEW r \in used, ~Recorded(r)
  PROVE  ~Recorded(r)'
<1>0. TypeOK /\ r \in Runs
  BY DEF IInv, TypeOK
<1>1. ASSUME NEW x \in Runs, NEW w \in Workers, StartSetup(x, w) PROVE ~Recorded(r)'
  <2> DEFINE f == RecsAfterStale(Visited(ConflictsWith(SetupOpFor(x))))
  <2>1. f \in [Runs -> RunRecord] /\ f[r] = NoRecord
    BY <1>0, StaleTypes, StaleKeepsRecords
  <2>2. PICK e : recs' = [f EXCEPT ![x] = e]
    BY <1>1 DEF StartSetup
  <2>3. x # r
    BY <1>1 DEF StartSetup
  <2> HIDE DEF f
  <2> QED
    BY <1>0, <2>1, <2>2, <2>3 DEF Recorded
<1>2. CASE \E w \in Workers : CloudStep(w)
  BY <1>2 DEF CloudStep, Provision, ProvisionDownstream, DeleteDownstreams, Destroy, Recorded
<1>3. CASE Quiet
  BY <1>0, <1>3 DEF Quiet, ReleasesOne
<1> QED
  BY <1>1, <1>2, <1>3, StepKinds

Waits(w) == AtPc(w, "wait") /\ jobs[w].child

\* Steps that are none of the batch's business: it goes on as it was, or an
\* operation is started while there is none.
Apart ==
  /\ sweep' = sweep
  /\ \/ /\ batch' = batch
        /\ \A o \in Ops : ops'[o].running => ops[o].running /\ ops'[o].run = ops[o].run
     \/ ~batch.running /\ batch' \in {batch, IdleBatch}
  /\ \A w \in Workers : Waits(w)' => Waits(w) /\ (w \in interrupted => w \in interrupted')

\* The steps that touch the batch, its goroutine or its child.
BatchStep ==
  \/ \E S \in SUBSET Runs : StartBatch(S)
  \/ SweepStep
  \/ \E w \in Workers : RecordPid(w) \/ Finish(w)
  \/ AbortBatch \/ \E o \in Ops : AbortOperation(o)
  \/ Restart

LEMMA SameJobsWait ==
  ASSUME jobs' = jobs, interrupted' = interrupted
  PROVE  \A w \in Workers : Waits(w)' => Waits(w) /\ (w \in interrupted => w \in interrupted')
BY DEF Waits, AtPc

LEMMA OneJobWaits ==
  ASSUME NEW w \in Workers, \A v \in Workers \ {w} : jobs'[v] = jobs[v],
         jobs'[w].pc # "wait" \/ (jobs'[w].pc = jobs[w].pc /\ jobs'[w].child = jobs[w].child),
         interrupted' = interrupted \/ (interrupted' = interrupted \ {w} /\ jobs'[w].pc # "wait")
  PROVE  \A v \in Workers : Waits(v)' => Waits(v) /\ (v \in interrupted => v \in interrupted')
BY DEF Waits, AtPc

LEMMA BatchSteps ==
  ASSUME IInv, TameFaults, [Next]_vars
  PROVE  Apart \/ BatchStep
<1>0. TypeOK /\ OwnerInv /\ HandlerInv
  BY DEF IInv
<1>a. ASSUME NEW S, ops' = OpsAfterStale(S)
      PROVE  \A o \in Ops : ops'[o].running => ops[o].running /\ ops'[o].run = ops[o].run
  BY <1>0, <1>a, StaleRunsNothing
<1>1. ASSUME NEW r \in Runs, NEW w \in Workers, StartSetup(r, w) PROVE Apart
  <2>1. Claimed(SetupOpFor(r), r, FALSE, w)
    BY <1>0, <1>1, OpFor, OpSets, ClaimEffect DEF StartSetup
  <2>2. \A v \in Workers : Waits(v)' => Waits(v) /\ (v \in interrupted => v \in interrupted')
    BY <1>1, <2>1, OneJobWaits DEF Claimed, StartSetup
  <2> QED
    BY <1>1, <2>2 DEF StartSetup, Apart
<1>2. ASSUME NEW h \in Handlers, RequestReadiness(h) PROVE Apart
  BY <1>2, SameJobsWait DEF RequestReadiness, Apart
<1>3. ASSUME NEW h \in Handlers, NEW r \in Runs, RequestDownstream(h, r) PROVE Apart
  BY <1>3, SameJobsWait DEF RequestDownstream, Apart
<1>4. ASSUME NEW h \in Handlers, NEW r \in Runs, RequestCleanup(h, r) PROVE Apart
  BY <1>4, SameJobsWait DEF RequestCleanup, Apart
<1>5. ASSUME NEW h \in Handlers, NEW w \in Workers, StartRequested(h, w) PROVE Apart
  <2>1. handlers[h].op \in Ops
    BY <1>0, HandlerUpdates DEF TypeOK
  <2>2. Claimed(handlers[h].op, handlers[h].run, FALSE, w)
    BY <1>0, <1>5, <2>1, ClaimEffect DEF StartRequested
  <2>3. \A v \in Workers : Waits(v)' => Waits(v) /\ (v \in interrupted => v \in interrupted')
    BY <1>5, <2>2, OneJobWaits DEF Claimed, StartRequested
  <2> QED
    BY <1>5, <2>3 DEF StartRequested, BatchAfterStart, Apart
<1>6. ASSUME NEW h \in Handlers, RefuseRequested(h) PROVE Apart
  BY <1>6, <1>a, SameJobsWait DEF RefuseRequested, Apart
<1>7. ASSUME NEW h \in Handlers, RecordRefusal(h) PROVE Apart
  BY <1>7, SameJobsWait DEF RecordRefusal, Apart
<1>8. ASSUME NEW w \in Workers, ComputeEnv(w) PROVE Apart
  <2>1. jobs'[w].pc = "spawn" /\ \A v \in Workers \ {w} : jobs'[v] = jobs[v]
    BY <1>0, <1>8 DEF ComputeEnv, TypeOK, Job
  <2> QED
    BY <1>8, <2>1, OneJobWaits DEF ComputeEnv, Apart
<1>9. ASSUME NEW w \in Workers, Spawn(w) PROVE Apart
  <2>1. PICK pc \in {"setpid", "finish"} : jobs' = [jobs EXCEPT ![w].pc = pc]
    BY <1>9 DEF Spawn
  <2>2. jobs'[w].pc # "wait" /\ \A v \in Workers \ {w} : jobs'[v] = jobs[v]
    BY <1>0, <2>1, PcEffect
  <2> QED
    BY <1>9, <2>2, OneJobWaits DEF Spawn, Apart
<1>12. ASSUME NEW w \in Workers, RecordOutcome(w) PROVE Apart
  <2>1. jobs'[w].pc # "wait" /\ \A v \in Workers \ {w} : jobs'[v] = jobs[v]
    BY <1>0, <1>12 DEF RecordOutcome, TypeOK, Job, IdleJob
  <2> QED
    BY <1>12, <2>1, OneJobWaits DEF RecordOutcome, Apart
<1>13. ASSUME NEW w \in Workers, NEW h \in Handlers, AfterSetup(w, h) PROVE Apart
  <2>1. jobs'[w].pc # "wait" /\ \A v \in Workers \ {w} : jobs'[v] = jobs[v]
    BY <1>0, <1>13 DEF AfterSetup, TypeOK, IdleJob
  <2> QED
    BY <1>13, <2>1, OneJobWaits DEF AfterSetup, Apart
<1>14. ASSUME NEW w \in Workers, NEW h \in Handlers, AfterReadiness(w, h) PROVE Apart
  <2>1. jobs'[w].pc # "wait" /\ \A v \in Workers \ {w} : jobs'[v] = jobs[v]
    BY <1>0, <1>14 DEF AfterReadiness, TypeOK, IdleJob
  <2> QED
    BY <1>14, <2>1, OneJobWaits DEF AfterReadiness, Apart
<1>15. ASSUME NEW w \in Workers, Provision(w) \/ ProvisionDownstream(w) PROVE Apart
  BY <1>15, SameJobsWait DEF Provision, ProvisionDownstream, Apart
<1>17. ASSUME NEW w \in Workers, DeleteDownstreams(w) \/ Destroy(w) PROVE Apart
  <2>1. \E ph : jobs' = [jobs EXCEPT ![w].phase = ph]
    BY <1>17 DEF DeleteDownstreams, Destroy
  <2>2. /\ jobs'[w].pc = jobs[w].pc /\ jobs'[w].child = jobs[w].child
        /\ \A v \in Workers \ {w} : jobs'[v] = jobs[v]
    BY <1>0, <2>1, PhaseEffect
  <2> QED
    BY <1>17, <2>2, OneJobWaits DEF DeleteDownstreams, Destroy, Apart
<1>19. ASSUME NEW w \in Workers, NEW ok \in BOOLEAN, WorkerExit(w, ok) PROVE Apart
  <2>1. jobs'[w].pc # "wait" /\ \A v \in Workers \ {w} : jobs'[v] = jobs[v]
    <3>1. CASE jobs[w].pc = "wait"
      BY <1>0, <1>19, <3>1, ExitEffect DEF WorkerExit
    <3>2. CASE jobs[w].pc # "wait"
      BY <1>0, <1>19, <3>2 DEF WorkerExit, TypeOK, IdleJob
    <3> QED
      BY <3>1, <3>2
  <2> QED
    BY <1>19, <2>1, OneJobWaits DEF WorkerExit, Apart
<1>28. ASSUME NEW o \in Ops, Poll(o) PROVE Apart
  BY <1>28, <1>a, SameJobsWait DEF Poll, Apart
<1>32. CASE UNCHANGED vars
  BY <1>32, SameJobsWait DEF vars, Apart
<1> QED
  BY <1>1, <1>2, <1>3, <1>4, <1>5, <1>6, <1>7, <1>8, <1>9, <1>12, <1>13, <1>14, <1>15, <1>17,
     <1>19, <1>28, <1>32 DEF Next, HandlerStep, JobStep, WorkerStep, BatchStep

-----------------------------------------------------------------------------
(* The batch holds the table.                                              *)

\* A child is what the batch holds the table for.
LEMMA ChildHolds ==
  ASSUME IInv, NEW w \in Workers, jobs[w].child
  PROVE  /\ Owns(w) /\ jobs[w].op \in Ops /\ jobs[w].op \in CleanupOps
         /\ sweep.pc = "await" /\ jobs[w].run = sweep.run
         /\ ops[jobs[w].op].running /\ ops[jobs[w].op].run = sweep.run
BY JobUpdates DEF IInv, TypeOK, SweepInv, ChildOK, OwnerInv, OwnerOK, Owns

\* Steps of the sweep between two children find and leave the table idle.
LEMMA IdleHolds ==
  ASSUME TypeOK, HoldsInv, sweep.pc \notin {"idle", "await"}, sweep'.pc # "await",
         \A o \in Ops : ops'[o].running => ops[o].running,
         batch'.running <=> sweep'.pc # "idle",
         batch'.running /\ AtItem' => batch'.run = sweep'.run
  PROVE  HoldsInv'
BY DEF HoldsInv

LEMMA HoldsNext ==
  ASSUME IInv, HoldsInv, TameFaults, [Next]_vars
  PROVE  HoldsInv'
<1>0. TypeOK /\ OwnerInv /\ sweep \in Sweep /\ batch \in Batch
  BY DEF IInv, TypeOK
<1>a. ASSUME NEW S, ops' = OpsAfterStale(S)
      PROVE  \A o \in Ops : ops'[o].running => ops[o].running
  BY <1>0, <1>a, StaleRunsNothing
<1>1. CASE Apart
  BY <1>1 DEF Apart, HoldsInv, AtItem, IdleBatch
<1>2. ASSUME NEW S \in SUBSET Runs, StartBatch(S) PROVE HoldsInv'
  <2>1. \A o \in Ops : ~ops'[o].running
    <3> SUFFICES ASSUME NEW o \in Ops
                 PROVE  ~OpsAfterStale(Visited(Ops))[o].running
      BY <1>2 DEF StartBatch
    <3>1. ~Live(o)
      BY <1>2 DEF StartBatch, Blocked
    <3>2. Dead(o) => o \in Visited(Ops)
      BY <1>2 DEF StartBatch, Blocked, Visited
    <3> QED
      BY <1>0, <3>1, <3>2 DEF Live, OpsAfterStale, TypeOK, OpEntry
  <2>2. batch'.running /\ sweep'.pc = "next"
    BY <1>2 DEF StartBatch, IdleBatch, IdleSweep
  <2> QED
    BY <2>1, <2>2 DEF HoldsInv, AtItem
<1>3. ASSUME SweepNext PROVE HoldsInv'
  <2>1. ops' = ops /\ batch'.running = batch.running /\ sweep'.pc \in {"close", "read"}
        /\ (sweep'.pc = "read" => batch'.run = sweep'.run)
    <3>1. CASE sweep.todo = {} \/ ~batch.running \/ batch.cancel
      BY <1>0, <1>3, <3>1 DEF SweepNext, Sweep
    <3>2. CASE ~(sweep.todo = {} \/ ~batch.running \/ batch.cancel)
      <4>1. PICK r \in sweep.todo : /\ batch' = [batch EXCEPT !.run = r, !.pid = NoWorker]
                                    /\ sweep' = [sweep EXCEPT !.pc = "read", !.run = r, !.todo = @ \ {r}]
        BY <1>3, <3>2 DEF SweepNext
      <4>2. batch'.running = batch.running /\ batch'.run = r
        BY <1>0, <4>1 DEF Batch
      <4> QED
        BY <1>0, <1>3, <4>1, <4>2, TakeEffect DEF SweepNext
    <3> QED
      BY <3>1, <3>2
  <2> QED
    BY <1>0, <1>3, <2>1, IdleHolds DEF SweepNext, HoldsInv, AtItem
<1>4. ASSUME SweepRead PROVE HoldsInv'
  <2>1. sweep'.pc \in {"lock", "account"} /\ sweep'.run = sweep.run
    BY <1>0, <1>4 DEF SweepRead, Sweep
  <2> QED
    BY <1>0, <1>4, <2>1, IdleHolds DEF SweepRead, HoldsInv, AtItem
<1>5. ASSUME NEW w \in Workers, SweepStart(w) PROVE HoldsInv'
  <2> DEFINE o == CleanupOpFor(sweep.run)
             f == OpsAfterStale(Visited(ConflictsWith(o)))
  <2>1. f \in [Ops -> OpEntry] /\ \A x \in Ops : ~f[x].running
    BY <1>0, <1>5, StaleTypes, StaleRunsNothing DEF SweepStart, HoldsInv
  <2>2. ops' = [f EXCEPT ![o] = [running |-> TRUE, pid |-> NoWorker, run |-> sweep.run]]
    BY <1>5 DEF SweepStart, Claim
  <2>3. sweep'.pc = "await" /\ sweep'.run = sweep.run /\ batch' = batch /\ sweep.pc = "lock"
    BY <1>0, <1>5 DEF SweepStart, Sweep
  <2>4. \A x \in Ops : ops'[x].running => x = o /\ ops'[x].run = sweep.run
    <3> HIDE DEF f, o
    <3> QED
      BY <2>1, <2>2
  <2> QED
    BY <2>3, <2>4 DEF HoldsInv, AtItem
<1>6. ASSUME SweepRefused PROVE HoldsInv'
  <2>1. sweep'.pc \in {"close", "account"} /\ sweep'.run = sweep.run /\ batch' = batch
    BY <1>0, <1>6 DEF SweepRefused, Sweep
  <2>2. \A o \in Ops : ops'[o].running => ops[o].running
    BY <1>6, <1>a DEF SweepRefused
  <2> QED
    BY <1>0, <1>6, <2>1, <2>2, IdleHolds DEF SweepRefused, HoldsInv, AtItem
<1>7. ASSUME SweepAccount PROVE HoldsInv'
  <2>1. sweep'.pc = "tally" /\ sweep'.run = sweep.run
    BY <1>0, <1>7 DEF SweepAccount, Sweep
  <2> QED
    BY <1>0, <1>7, <2>1, IdleHolds DEF SweepAccount, HoldsInv, AtItem
<1>8. ASSUME SweepTally PROVE HoldsInv'
  <2>1. sweep'.pc = "next" /\ batch'.running = batch.running
    BY <1>0, <1>8 DEF SweepTally, Sweep, Batch
  <2> QED
    BY <1>0, <1>8, <2>1, IdleHolds DEF SweepTally, HoldsInv, AtItem
<1>9. ASSUME SweepClose PROVE HoldsInv'
  <2>1. sweep'.pc = "idle" /\ ~batch'.running
    BY <1>0, <1>9 DEF SweepClose, IdleSweep, Batch
  <2> QED
    BY <2>1 DEF HoldsInv
<1>10. ASSUME NEW w \in Workers, RecordPid(w) PROVE HoldsInv'
  <2>1. \A o \in Ops : ops'[o].running = ops[o].running /\ ops'[o].run = ops[o].run
    BY <1>0, <1>10 DEF RecordPid, TypeOK, OpEntry
  <2>2. batch'.running = batch.running /\ batch'.run = batch.run /\ sweep' = sweep
    BY <1>0, <1>10 DEF RecordPid, Batch
  <2> QED
    BY <2>1, <2>2 DEF HoldsInv, AtItem
<1>11. ASSUME NEW w \in Workers, Finish(w) PROVE HoldsInv'
  <2>1. batch'.running = batch.running /\ batch'.run = batch.run
    BY <1>0, <1>11 DEF Finish, Batch
  <2>2. \A o \in Ops \ {jobs[w].op} : ops'[o] = ops[o]
    BY <1>0, <1>11 DEF Finish, TypeOK
  <2>3. jobs[w].op \in Ops /\ ~ops'[jobs[w].op].running
    BY <1>0, <1>11, JobUpdates DEF Finish, TypeOK, IdleOp
  <2>4. CASE jobs[w].child
    <3>1. sweep'.pc = "account" /\ sweep'.run = sweep.run
      BY <1>0, <1>11, <2>4 DEF Finish, Sweep
    <3>2. batch.running => \A o \in Ops : ~ops'[o].running
      BY <2>2, <2>3, <2>4, ChildHolds DEF HoldsInv
    <3> QED
      BY <2>1, <2>4, <3>1, <3>2, ChildHolds DEF HoldsInv, AtItem
  <2>5. CASE ~jobs[w].child
    BY <1>11, <2>1, <2>2, <2>3, <2>5 DEF Finish, HoldsInv, AtItem
  <2> QED
    BY <2>4, <2>5
<1>12. ASSUME AbortBatch \/ \E o \in Ops : AbortOperation(o) PROVE HoldsInv'
  <2>1. batch'.running = batch.running /\ batch'.run = batch.run /\ sweep' = sweep /\ ops' = ops
    BY <1>0, <1>12 DEF AbortBatch, AbortOperation, Batch
  <2> QED
    BY <2>1 DEF HoldsInv, AtItem
<1>13. ASSUME Restart PROVE HoldsInv'
  <2>1. ~batch'.running /\ sweep'.pc = "idle"
    BY <1>0, <1>13 DEF Restart, IdleSweep, Batch
  <2> QED
    BY <2>1 DEF HoldsInv
<1> QED
  BY <1>1, <1>2, <1>3, <1>4, <1>5, <1>6, <1>7, <1>8, <1>9, <1>10, <1>11, <1>12, <1>13, BatchSteps
     DEF BatchStep, SweepStep

-----------------------------------------------------------------------------
(* A stop reaches the child.                                               *)

\* Only the child of the running batch has an entry while the batch runs.
LEMMA ChildIsAlone ==
  ASSUME IInv, HoldsInv, batch.running, NEW v \in Workers, NEW w \in Workers, Owns(v), jobs[w].child
  PROVE  v = w /\ BatchOwns(jobs[w].op)
<1>1. jobs[v].op \in Ops /\ ops[jobs[v].op].running
  BY JobUpdates DEF IInv, TypeOK, OwnerInv, OwnerOK
<1>2. Owns(w) /\ jobs[w].op \in Ops /\ ops[jobs[w].op].running
  BY ChildHolds
<1>3. jobs[v].op = jobs[w].op
  BY <1>1, <1>2 DEF HoldsInv
<1>4. v = w
  BY <1>2, <1>3, DistinctEntries
<1>5. BatchOwns(jobs[w].op)
  BY ChildHolds DEF BatchOwns, HoldsInv, AtItem
<1> QED
  BY <1>4, <1>5

\* While the batch is between two children none of them waits.
LEMMA NoChildWaits ==
  ASSUME IInv, sweep.pc # "await", jobs' = jobs
  PROVE  ReachInv'
BY DEF IInv, SweepInv, ChildOK, ReachInv, AtPc

LEMMA ReachNext ==
  ASSUME IInv, HoldsInv, ReachInv, TameFaults, [Next]_vars
  PROVE  ReachInv'
<1>0. TypeOK /\ OwnerInv /\ sweep \in Sweep /\ batch \in Batch
  BY DEF IInv, TypeOK
<1>1. CASE Apart
  BY <1>1 DEF Apart, ReachInv, Waits, IdleBatch
<1>2. ASSUME NEW S \in SUBSET Runs, StartBatch(S) PROVE ReachInv'
  BY <1>2, NoChildWaits DEF StartBatch, HoldsInv
<1>3. CASE SweepNext \/ SweepRead \/ SweepRefused \/ SweepAccount \/ SweepTally \/ SweepClose
  BY <1>3, NoChildWaits DEF SweepNext, SweepRead, SweepRefused, SweepAccount, SweepTally, SweepClose
<1>5. ASSUME NEW w \in Workers, SweepStart(w) PROVE ReachInv'
  <2>1. CleanupOpFor(sweep.run) \in Ops
    BY OpSets DEF CleanupOpFor, CleanupOps
  <2>2. Claimed(CleanupOpFor(sweep.run), sweep.run, TRUE, w)
    BY <1>0, <1>5, <2>1, ClaimEffect DEF SweepStart
  <2>3. \A v \in Workers : Waits(v)' => Waits(v)
    BY <2>2 DEF Claimed, Waits, AtPc
  <2> QED
    BY <1>5, <2>3 DEF SweepStart, ReachInv, Waits
<1>10. ASSUME NEW w \in Workers, RecordPid(w) PROVE ReachInv'
  <2>1. jobs'[w].child = jobs[w].child /\ \A v \in Workers \ {w} : jobs'[v] = jobs[v]
    BY <1>0, <1>10, PcEffect DEF RecordPid
  <2>2. Owns(w) /\ batch'.running = batch.running /\ batch'.cancel = batch.cancel
    BY <1>0, <1>10 DEF RecordPid, Owns, AtPc, Batch
  <2>3. SUFFICES ASSUME batch.running, NEW v \in Workers, AtPc(v, "wait")', jobs'[v].child
                 PROVE  batch'.pid = v /\ (batch.cancel => v \in interrupted')
    BY <2>2 DEF ReachInv
  <2>4. jobs[v].child /\ Owns(v)
    BY <2>1, <2>3, ChildHolds
  <2>5. v = w /\ BatchOwns(jobs[w].op)
    BY <2>2, <2>3, <2>4, ChildIsAlone
  <2> QED
    BY <1>0, <1>10, <2>5 DEF RecordPid, Batch
<1>11. ASSUME NEW w \in Workers, Finish(w) PROVE ReachInv'
  <2>1. /\ \A v \in Workers \ {w} : jobs'[v] = jobs[v]
        /\ jobs'[w].pc # "wait"
    <3>1. CASE jobs[w].child
      BY <1>0, <1>11, <3>1 DEF Finish, TypeOK, IdleJob
    <3>2. CASE ~jobs[w].child
      BY <1>0, <1>11, <3>2, RecordEffect DEF Finish
    <3> QED
      BY <3>1, <3>2
  <2>2. Owns(w) /\ batch'.running = batch.running
    BY <1>0, <1>11 DEF Finish, Owns, AtPc, Batch
  <2>3. SUFFICES ASSUME batch.running, NEW v \in Workers, AtPc(v, "wait")', jobs'[v].child
                 PROVE  FALSE
    BY <2>2 DEF ReachInv
  <2>4. v # w /\ jobs[v].child
    BY <2>1, <2>3 DEF AtPc
  <2> QED
    BY <2>2, <2>3, <2>4, ChildIsAlone
<1>12. ASSUME AbortBatch PROVE ReachInv'
  <2>1. SUFFICES ASSUME NEW v \in Workers, AtPc(v, "wait"), jobs[v].child
                 PROVE  batch'.pid = v /\ v \in interrupted'
    BY <1>12 DEF AbortBatch, ReachInv, AtPc
  <2>2. batch.pid = v /\ batch'.pid = batch.pid
    BY <1>0, <1>12, <2>1 DEF AbortBatch, ReachInv, Batch
  <2> QED
    BY <1>12, <2>1, <2>2, RunsAssumption DEF AbortBatch, Signalled, Alive, AtPc
<1>14. ASSUME NEW o \in Ops, AbortOperation(o) PROVE ReachInv'
  <2>1. /\ batch'.running = batch.running /\ batch'.pid = batch.pid
        /\ interrupted \subseteq interrupted' /\ jobs' = jobs
    BY <1>0, <1>14 DEF AbortOperation, Signalled, Batch
  <2>2. SUFFICES ASSUME batch.running, NEW v \in Workers, AtPc(v, "wait"), jobs[v].child,
                        ~batch.cancel, batch'.cancel
                 PROVE  v \in interrupted'
    BY <2>1 DEF ReachInv, AtPc
  <2>3. BatchOwns(o) /\ ops[o].running
    BY <1>14, <2>2 DEF AbortOperation
  <2>4. o = jobs[v].op
    BY <2>2, <2>3, ChildHolds DEF HoldsInv
  <2>5. ops[o].pid = v
    BY <1>0, <2>2, <2>4 DEF OwnerInv, OwnerOK, Owns, AtPc
  <2> QED
    BY <1>14, <2>2, <2>5, RunsAssumption DEF AbortOperation, Signalled, Alive, AtPc
<1>13. ASSUME Restart PROVE ReachInv'
  <2>1. ~batch'.running
    BY <1>0, <1>13 DEF Restart, Batch
  <2> QED
    BY <2>1 DEF ReachInv
<1> QED
  BY <1>1, <1>2, <1>3, <1>5, <1>10, <1>11, <1>12, <1>13, <1>14, BatchSteps DEF BatchStep, SweepStep

-----------------------------------------------------------------------------
(* The accounts of the batch.                                              *)

\* What was tallied stays tallied, and what was released stays released.
LEMMA DoneStays ==
  ASSUME IInv, TallyInv, TameFaults, [Next]_vars
  PROVE  /\ \A r \in batch.done : r \in used' /\ ~Recorded(r)'
         /\ sweep.pc = "tally" /\ sweep.ok =>
              \A x : x = sweep.run => x \in used' /\ ~Recorded(x)'
<1>1. \A r \in batch.done : r \in used /\ ~Recorded(r)
  BY DEF TallyInv
<1>2. sweep.pc = "tally" /\ sweep.ok => sweep.run \in used /\ ~Recorded(sweep.run)
  BY DEF TallyInv, IInv, SweepInv, SweepOK
<1>3. \A r \in used : ~Recorded(r) => r \in used' /\ ~Recorded(r)'
  BY UsedGrows, UnrecordedStays
<1>4. \A r \in batch.done : r \in used' /\ ~Recorded(r)'
  BY <1>1, <1>3
<1>5. ASSUME sweep.pc = "tally", sweep.ok, NEW x, x = sweep.run
      PROVE  x \in used' /\ ~Recorded(x)'
  <2>1. x \in used /\ ~Recorded(x)
    BY <1>2, <1>5
  <2> QED
    BY <1>3, <2>1
<1> QED
  BY <1>4, <1>5

\* Steps that leave the accounts as they are.
LEMMA TallyFrame ==
  ASSUME IInv, TallyInv, TameFaults, [Next]_vars, sweep' = sweep,
         batch'.done = batch.done, batch'.failed = batch.failed, batch'.ids = batch.ids,
         batch.cancel => batch'.cancel
  PROVE  TallyInv'
<1>1. PICK x : x = sweep.run
  OBVIOUS
<1>2. \A r \in batch'.done : r \in used' /\ ~Recorded(r)'
  BY DoneStays
<1>3. sweep'.pc = "tally" /\ sweep'.ok => ~Recorded(x)'
  BY <1>1, DoneStays
<1>4. x = sweep'.run
  BY <1>1
<1>5. sweep'.pc = "tally" /\ sweep'.ok => ~Recorded(sweep.run)'
  BY <1>3, <1>4 DEF Recorded
<1> QED
  BY <1>2, <1>5 DEF TallyInv, AtItem

\* Steps of the sweep on its way from one item to the next.
LEMMA ItemFrame ==
  ASSUME IInv, TallyInv, TameFaults, [Next]_vars, batch' = batch, AtItem, AtItem',
         sweep'.run = sweep.run, sweep'.todo = sweep.todo,
         sweep'.pc = "tally" /\ sweep'.ok => ~Recorded(sweep.run)'
  PROVE  TallyInv'
<1>1. \A r \in batch'.done : r \in used' /\ ~Recorded(r)'
  BY DoneStays
<1>3. sweep.pc \notin {"idle", "close"} /\ sweep'.pc \notin {"idle", "close"}
  BY DEF AtItem
<1> QED
  BY <1>1, <1>3 DEF TallyInv, AtItem

LEMMA TallyNext ==
  ASSUME IInv, HoldsInv, TallyInv, TameFaults, [Next]_vars
  PROVE  TallyInv'
<1>0. TypeOK /\ sweep \in Sweep /\ batch \in Batch
  BY DEF IInv, TypeOK
<1>a. \A r \in batch.done : r \in used' /\ ~Recorded(r)'
  BY DoneStays
<1>1. CASE Apart
  <2>1. CASE batch' = batch
    BY <1>1, <2>1, TallyFrame DEF Apart
  <2>2. CASE batch' # batch
    BY <1>1, <2>2 DEF Apart, HoldsInv, TallyInv, IdleBatch
  <2> QED
    BY <2>1, <2>2
<1>2. ASSUME NEW S \in SUBSET Runs, StartBatch(S) PROVE TallyInv'
  <2>1. batch'.done = {} /\ batch'.failed = {} /\ batch'.ids = S /\ sweep'.pc = "next" /\ sweep'.todo = S
    BY <1>2 DEF StartBatch, IdleBatch, IdleSweep
  <2> QED
    BY <2>1 DEF TallyInv, AtItem
<1>3. ASSUME SweepNext PROVE TallyInv'
  <2>1. CASE sweep.todo = {} \/ ~batch.running \/ batch.cancel
    <3>1. /\ sweep.pc = "next" /\ sweep'.pc = "close" /\ sweep'.todo = sweep.todo /\ batch' = batch
          /\ batch.running
      BY <1>0, <1>3, <2>1 DEF SweepNext, Sweep, HoldsInv
    <3> QED
      BY <1>a, <2>1, <3>1 DEF TallyInv, AtItem, Recorded
  <2>2. CASE ~(sweep.todo = {} \/ ~batch.running \/ batch.cancel)
    <3>1. PICK r \in sweep.todo : /\ batch' = [batch EXCEPT !.run = r, !.pid = NoWorker]
                                  /\ sweep' = [sweep EXCEPT !.pc = "read", !.run = r, !.todo = @ \ {r}]
      BY <1>3, <2>2 DEF SweepNext
    <3>2. /\ batch'.done = batch.done /\ batch'.failed = batch.failed /\ batch'.ids = batch.ids
          /\ sweep.pc = "next"
      BY <1>0, <1>3, <3>1 DEF SweepNext, Batch
    <3>3. sweep'.pc = "read" /\ sweep'.run = r /\ sweep'.todo = sweep.todo \ {r}
      BY <1>0, <3>1 DEF Sweep
    <3> QED
      BY <1>a, <3>1, <3>2, <3>3 DEF TallyInv, AtItem, Recorded
  <2> QED
    BY <2>1, <2>2
<1>4. ASSUME SweepRead PROVE TallyInv'
  <2>1. /\ sweep'.pc \in {"lock", "account"} /\ sweep'.run = sweep.run /\ sweep'.todo = sweep.todo
        /\ batch' = batch /\ sweep.pc = "read"
    BY <1>0, <1>4 DEF SweepRead, Sweep
  <2> QED
    BY <2>1, ItemFrame DEF AtItem
<1>5. ASSUME NEW w \in Workers, SweepStart(w) PROVE TallyInv'
  <2>1. /\ sweep'.pc = "await" /\ sweep'.run = sweep.run /\ sweep'.todo = sweep.todo
        /\ batch' = batch /\ sweep.pc = "lock"
    BY <1>0, <1>5 DEF SweepStart, Sweep
  <2> QED
    BY <2>1, ItemFrame DEF AtItem
<1>6. ASSUME SweepRefused PROVE TallyInv'
  <2>1. batch' = batch /\ sweep'.run = sweep.run /\ sweep'.todo = sweep.todo /\ sweep.pc = "lock"
    BY <1>0, <1>6 DEF SweepRefused, Sweep
  <2>2. CASE ~batch.running \/ batch.cancel
    <3>1. sweep'.pc = "close" /\ batch.cancel
      BY <1>0, <1>6, <2>1, <2>2 DEF SweepRefused, Sweep, HoldsInv
    <3> QED
      BY <1>a, <2>1, <3>1 DEF TallyInv, AtItem, Recorded
  <2>3. CASE batch.running /\ ~batch.cancel
    <3>1. sweep'.pc = "account"
      BY <1>0, <1>6, <2>3 DEF SweepRefused, Sweep
    <3> QED
      BY <2>1, <3>1, ItemFrame DEF AtItem
  <2> QED
    BY <2>2, <2>3
<1>7. ASSUME SweepAccount PROVE TallyInv'
  <2>1. /\ sweep'.pc = "tally" /\ sweep'.run = sweep.run /\ sweep'.todo = sweep.todo
        /\ sweep'.ok = sweep.ok /\ batch' = batch /\ sweep.pc = "account"
    BY <1>0, <1>7 DEF SweepAccount, Sweep
  <2>2. sweep.ok => ~Recorded(sweep.run)'
    BY <1>0, <1>7, <2>1 DEF SweepAccount, RemoveRecord, Recorded
  <2> QED
    BY <2>1, <2>2, ItemFrame DEF AtItem
<1>8. ASSUME SweepTally PROVE TallyInv'
  <2> DEFINE r == sweep.run
  <2>1. /\ sweep'.pc = "next" /\ sweep'.todo = sweep.todo /\ sweep.pc = "tally"
        /\ batch'.ids = batch.ids /\ batch'.cancel = batch.cancel
        /\ batch'.done = IF sweep.ok THEN batch.done \cup {r} ELSE batch.done
        /\ batch'.failed = IF sweep.ok THEN batch.failed ELSE batch.failed \cup {r}
    BY <1>0, <1>8 DEF SweepTally, Sweep, Batch
  <2>2. PICK x : x = r
    OBVIOUS
  <2>3. sweep.ok => x \in used' /\ ~Recorded(x)'
    BY <2>1, <2>2, DoneStays
  <2>4. \A y \in batch'.done : y \in used' /\ ~Recorded(y)'
    BY <1>a, <2>1, <2>2, <2>3
  <2>5. /\ (batch.done \cup batch.failed) \cap sweep.todo = {} /\ batch.done \cap batch.failed = {}
        /\ r \notin batch.done \cup batch.failed \cup sweep.todo
        /\ batch.ids = batch.done \cup batch.failed \cup sweep.todo \cup {r}
    BY <2>1 DEF TallyInv, AtItem
  <2>6. x \notin batch.done \cup batch.failed \cup sweep.todo
    BY <2>2, <2>5
  <2>7. batch'.done \cup batch'.failed = batch.done \cup batch.failed \cup {x}
    BY <2>1, <2>2
  <2>8. batch'.done \cap batch'.failed = {}
    BY <2>1, <2>2, <2>5, <2>6
  <2>9. /\ (batch'.done \cup batch'.failed) \cap sweep'.todo = {}
        /\ batch'.ids = batch'.done \cup batch'.failed \cup sweep'.todo
    BY <2>1, <2>2, <2>5, <2>6, <2>7
  <2> HIDE DEF r
  <2>10. sweep'.pc = "next"
    BY <2>1
  <2> QED
    BY <2>4, <2>8, <2>9, <2>10 DEF TallyInv, AtItem
<1>9. ASSUME SweepClose PROVE TallyInv'
  <2>1. sweep'.pc = "idle" /\ batch'.done = batch.done /\ batch'.failed = batch.failed
    BY <1>0, <1>9 DEF SweepClose, IdleSweep, Batch
  <2> QED
    BY <1>a, <2>1 DEF TallyInv, Recorded
<1>10. ASSUME NEW w \in Workers, RecordPid(w) PROVE TallyInv'
  BY <1>0, <1>10, TallyFrame DEF RecordPid, Batch
<1>11. ASSUME NEW w \in Workers, Finish(w) PROVE TallyInv'
  <2>1. /\ batch'.done = batch.done /\ batch'.failed = batch.failed
        /\ batch'.ids = batch.ids /\ batch'.cancel = batch.cancel
    BY <1>0, <1>11 DEF Finish, Batch
  <2>2. CASE jobs[w].child
    <3>1. sweep'.pc = "account" /\ sweep'.run = sweep.run /\ sweep'.todo = sweep.todo
      BY <1>0, <1>11, <2>2 DEF Finish, Sweep
    <3>2. sweep.pc = "await"
      BY <2>2, ChildHolds
    <3> QED
      BY <1>a, <2>1, <3>1, <3>2 DEF TallyInv, AtItem, Recorded
  <2>3. CASE ~jobs[w].child
    BY <1>11, <2>1, <2>3, TallyFrame DEF Finish
  <2> QED
    BY <2>2, <2>3
<1>12. ASSUME AbortBatch \/ \E o \in Ops : AbortOperation(o) PROVE TallyInv'
  <2>1. /\ batch'.done = batch.done /\ batch'.failed = batch.failed /\ batch'.ids = batch.ids
        /\ batch.cancel => batch'.cancel
        /\ sweep' = sweep
    BY <1>0, <1>12 DEF AbortBatch, AbortOperation, Batch
  <2> QED
    BY <2>1, TallyFrame
<1>13. ASSUME Restart PROVE TallyInv'
  <2>1. sweep'.pc = "idle" /\ batch'.done = batch.done /\ batch'.failed = batch.failed
    BY <1>0, <1>13 DEF Restart, IdleSweep, Batch
  <2> QED
    BY <1>a, <2>1 DEF TallyInv, Recorded
<1> QED
  BY <1>1, <1>2, <1>3, <1>4, <1>5, <1>6, <1>7, <1>8, <1>9, <1>10, <1>11, <1>12, <1>13, BatchSteps
     DEF BatchStep, SweepStep

-----------------------------------------------------------------------------
(* The runs that workers act on, and the statuses they report.             *)

\* A worker that is not started or reported keeps its run and its target, and
\* a batch child is launched only for a batch that goes on.
KeepsEnv(v) ==
  \/ jobs'[v] = jobs[v]
  \/ jobs'[v].pc \in {"idle", "after"}
  \/ jobs'[v].pc = "launch" /\ (jobs'[v].child => batch.running /\ ~batch.cancel)
  \/ /\ jobs[v].pc \in {"spawn", "setpid", "wait", "orphan", "finish"}
     /\ jobs'[v].pc \in {"spawn", "setpid", "wait", "orphan", "finish"}
     /\ jobs'[v].run = jobs[v].run /\ jobs'[v].target = jobs[v].target

ReportsRun(v) == Finish(v) /\ ~jobs[v].child

LEMMA OthersKeepEnv ==
  ASSUME NEW w \in Workers, \A v \in Workers \ {w} : jobs'[v] = jobs[v],
         KeepsEnv(w) \/ ComputeEnv(w) \/ ReportsRun(w)
  PROVE  \A v \in Workers : KeepsEnv(v) \/ ComputeEnv(v) \/ ReportsRun(v)
BY DEF KeepsEnv

LEMMA EnvSteps ==
  ASSUME IInv, TameFaults, [Next]_vars
  PROVE  \A v \in Workers : KeepsEnv(v) \/ ComputeEnv(v) \/ ReportsRun(v)
<1> DEFINE G == \A v \in Workers : KeepsEnv(v) \/ ComputeEnv(v) \/ ReportsRun(v)
<1>0. TypeOK /\ OwnerInv
  BY DEF IInv
<1>a. ASSUME jobs' = jobs PROVE G
  BY <1>a DEF KeepsEnv
<1>b. ASSUME NEW o \in Ops, NEW r, NEW child \in BOOLEAN, NEW w \in Workers, Claim(o, r, child, w),
             child => batch.running /\ ~batch.cancel
      PROVE  G
  <2>0. Claimed(o, r, child, w)
    BY <1>0, <1>b, ClaimEffect
  <2>1. /\ jobs'[w].pc = "launch" /\ jobs'[w].child = child
        /\ \A v \in Workers \ {w} : jobs'[v] = jobs[v]
    BY <2>0 DEF Claimed
  <2>2. KeepsEnv(w)
    <3>1. CASE child = TRUE
      BY <1>b, <2>1, <3>1 DEF KeepsEnv
    <3>2. CASE child = FALSE
      BY <2>1, <3>2 DEF KeepsEnv
    <3> QED
      BY <3>1, <3>2
  <2> QED
    BY <2>1, <2>2, OthersKeepEnv
<1>c. ASSUME NEW w \in Workers, NEW pc \in {"setpid", "wait", "finish"},
             jobs[w].pc \in {"spawn", "setpid"}, jobs' = [jobs EXCEPT ![w].pc = pc]
      PROVE  G
  <2>1. KeepsEnv(w) /\ \A v \in Workers \ {w} : jobs'[v] = jobs[v]
    BY <1>0, <1>c, PcEffect DEF KeepsEnv
  <2> QED
    BY <2>1, OthersKeepEnv
<1>1. ASSUME NEW r \in Runs, NEW w \in Workers, StartSetup(r, w) PROVE G
  BY <1>1, <1>b, OpFor, OpSets DEF StartSetup
<1>2. ASSUME NEW h \in Handlers, HandlerStep(h) PROVE G
  <2>1. ASSUME NEW w \in Workers, StartRequested(h, w) PROVE G
    <3>1. handlers[h].op \in Ops
      BY <1>0, HandlerUpdates DEF TypeOK
    <3> QED
      BY <2>1, <3>1, <1>b DEF StartRequested
  <2> QED
    BY <1>2, <1>a, <2>1 DEF HandlerStep, RequestReadiness, RequestDownstream, RequestCleanup,
       RefuseRequested, RecordRefusal
<1>3. ASSUME NEW w \in Workers, ComputeEnv(w) PROVE G
  <2>1. \A v \in Workers \ {w} : jobs'[v] = jobs[v]
    BY <1>0, <1>3 DEF ComputeEnv, TypeOK
  <2> QED
    BY <1>3, <2>1, OthersKeepEnv
<1>4. ASSUME NEW w \in Workers, Spawn(w) PROVE G
  BY <1>4, <1>c DEF Spawn, AtPc
<1>5. ASSUME NEW w \in Workers, RecordPid(w) PROVE G
  BY <1>5, <1>c DEF RecordPid, AtPc
<1>6. ASSUME NEW w \in Workers, Finish(w) PROVE G
  <2>1. \A v \in Workers \ {w} : jobs'[v] = jobs[v]
    BY <1>0, <1>6 DEF Finish, TypeOK
  <2>2. jobs[w].child => jobs'[w].pc = "idle"
    BY <1>0, <1>6 DEF Finish, TypeOK, IdleJob
  <2> QED
    BY <1>6, <2>1, <2>2, OthersKeepEnv DEF KeepsEnv, ReportsRun
<1>7. ASSUME NEW w \in Workers, NEW h \in Handlers,
             AfterSetup(w, h) \/ AfterReadiness(w, h)
      PROVE  G
  <2>1. /\ jobs'[w].pc \in {"idle", "after"}
        /\ \A v \in Workers \ {w} : jobs'[v] = jobs[v]
    BY <1>0, <1>7 DEF AfterSetup, AfterReadiness, TypeOK, Job, IdleJob
  <2> QED
    BY <2>1, OthersKeepEnv DEF KeepsEnv
<1>8. ASSUME NEW w \in Workers, RecordOutcome(w) PROVE G
  <2>1. /\ jobs'[w].pc \in {"idle", "after"}
        /\ \A v \in Workers \ {w} : jobs'[v] = jobs[v]
    BY <1>0, <1>8 DEF RecordOutcome, TypeOK, Job, IdleJob
  <2> QED
    BY <2>1, OthersKeepEnv DEF KeepsEnv
<1>9. ASSUME NEW w \in Workers, Provision(w) \/ ProvisionDownstream(w) PROVE G
  BY <1>9, <1>a DEF Provision, ProvisionDownstream
<1>10. ASSUME NEW w \in Workers, DeleteDownstreams(w) \/ Destroy(w) PROVE G
  <2>1. \E ph : jobs' = [jobs EXCEPT ![w].phase = ph]
    BY <1>10 DEF DeleteDownstreams, Destroy
  <2>2. Owns(w) /\ jobs[w].pc \in {"setpid", "wait", "orphan"}
    BY <1>10 DEF DeleteDownstreams, Destroy, Alive, Owns
  <2>3. KeepsEnv(w) /\ \A v \in Workers \ {w} : jobs'[v] = jobs[v]
    BY <1>0, <2>1, <2>2, PhaseEffect DEF KeepsEnv
  <2> QED
    BY <2>3, OthersKeepEnv
<1>11. ASSUME NEW w \in Workers, NEW ok \in BOOLEAN, WorkerExit(w, ok) PROVE G
  <2>1. KeepsEnv(w) /\ \A v \in Workers \ {w} : jobs'[v] = jobs[v]
    <3>1. CASE jobs[w].pc = "wait"
      BY <1>0, <1>11, <3>1 DEF WorkerExit, TypeOK, Job, KeepsEnv
    <3>2. CASE jobs[w].pc # "wait"
      BY <1>0, <1>11, <3>2 DEF WorkerExit, TypeOK, IdleJob, KeepsEnv
    <3> QED
      BY <3>1, <3>2
  <2> QED
    BY <2>1, OthersKeepEnv
<1>12. ASSUME NEW w \in Workers, SweepStart(w) PROVE G
  <2>1. CleanupOpFor(sweep.run) \in Ops
    BY DEF CleanupOpFor, Ops
  <2> QED
    BY <1>12, <1>b, <2>1 DEF SweepStart
<1>13. CASE Restart
  <2>1. SUFFICES ASSUME NEW v \in Workers PROVE KeepsEnv(v)
    OBVIOUS
  <2>2. CASE Alive(v)
    <3>1. jobs[v] \in Job /\ jobs'[v] = [jobs[v] EXCEPT !.pc = "orphan", !.child = FALSE]
      BY <1>0, <1>13, <2>2 DEF Restart, TypeOK
    <3> QED
      BY <2>2, <3>1, OrphanEffect DEF KeepsEnv, Alive
  <2>3. CASE ~Alive(v)
    BY <1>13, <2>3 DEF Restart, IdleJob, KeepsEnv
  <2> QED
    BY <2>2, <2>3
<1>14. CASE \/ \E S \in SUBSET Runs : StartBatch(S)
            \/ SweepNext \/ SweepRead \/ SweepRefused \/ SweepAccount \/ SweepTally \/ SweepClose
            \/ \E o \in Ops : Poll(o)
            \/ AbortBatch \/ \E o \in Ops : AbortOperation(o)
            \/ UNCHANGED vars
  BY <1>14, <1>a DEF StartBatch, SweepNext, SweepRead, SweepRefused, SweepAccount, SweepTally,
     SweepClose, Poll, AbortBatch, AbortOperation, vars
<1> QED
  BY <1>1, <1>2, <1>3, <1>4, <1>5, <1>6, <1>7, <1>8, <1>9, <1>10, <1>11, <1>12, <1>13, <1>14
     DEF Next, JobStep, WorkerStep, SweepStep

LEMMA EnvNext ==
  ASSUME IInv, EnvInv, TameFaults, [Next]_vars
  PROVE  EnvInv'
<1> SUFFICES ASSUME NEW v \in Workers PROVE EnvOK(v)'
  BY DEF EnvInv
<1>0. TypeOK /\ OwnerOK(v) /\ EnvOK(v) /\ jobs[v] \in Job
  BY DEF IInv, TypeOK, OwnerInv, EnvInv
<1>a. \A r \in used : r \in used' /\ (~Recorded(r) => ~Recorded(r)')
  BY UsedGrows, UnrecordedStays
<1>1. CASE KeepsEnv(v)
  <2>1. ASSUME NEW x, x = jobs'[v].run, jobs'[v].pc \in {"spawn", "setpid", "wait", "orphan", "finish"},
               jobs'[v].target # x
        PROVE  ~Recorded(x)'
    <3>1. x \in used /\ ~Recorded(x)
      BY <1>0, <1>1, <2>1 DEF KeepsEnv, OwnerOK, Owns, EnvOK
    <3> QED
      BY <1>a, <3>1
  <2>2. ASSUME NEW x, x = jobs'[v].out, jobs'[v].pc = "record"
        PROVE  x \in used' /\ (jobs'[v].target # x => ~Recorded(x)')
    <3>1. x \in used /\ (jobs'[v].target # x => ~Recorded(x))
      BY <1>0, <1>1, <2>2 DEF KeepsEnv, EnvOK
    <3> QED
      BY <1>a, <3>1
  <2> QED
    BY <2>1, <2>2 DEF EnvOK
<1>2. CASE ComputeEnv(v)
  <2>1. jobs[v].pc = "launch" /\ ops[jobs[v].op].run = jobs[v].run /\ recs' = recs
    BY <1>0, <1>2 DEF ComputeEnv, AtPc, OwnerOK, Owns
  <2>2. /\ jobs'[v].pc = "spawn" /\ jobs'[v].run = jobs[v].run
        /\ jobs'[v].target = IF jobs[v].op \in SetupOps \/ Recorded(jobs[v].run)
                               THEN jobs[v].run ELSE current
    BY <1>0, <1>2, <2>1 DEF ComputeEnv, TypeOK, Job
  <2>3. jobs'[v].target # jobs'[v].run => recs[jobs'[v].run] = NoRecord \/ jobs'[v].run \notin Runs
    BY <2>2 DEF Recorded
  <2> QED
    BY <2>1, <2>2, <2>3 DEF EnvOK, Recorded
<1>3. CASE ReportsRun(v)
  <2>1. /\ jobs[v].pc = "finish" /\ ops[jobs[v].op].run = jobs[v].run /\ recs' = recs
        /\ jobs[v].run \in used /\ used' = used
    BY <1>0, <1>3 DEF ReportsRun, Finish, AtPc, OwnerOK, Owns
  <2>2. jobs'[v].pc = "record" /\ jobs'[v].target = jobs[v].target /\ jobs'[v].out = jobs[v].run
    BY <1>0, <1>3, <2>1 DEF ReportsRun, Finish, TypeOK, Job
  <2>3. jobs'[v].target # jobs'[v].out => recs[jobs[v].run] = NoRecord \/ jobs[v].run \notin Runs
    BY <1>0, <2>1, <2>2 DEF EnvOK, Recorded
  <2> QED
    BY <2>1, <2>2, <2>3 DEF EnvOK, Recorded
<1> QED
  BY <1>1, <1>2, <1>3, EnvSteps

\* A step after which no status is ready that was not ready before.
EarnsNothing ==
  \A r \in Runs : /\ recs'[r].status = "ready" => recs[r].status = "ready"
                  /\ recs'[r].dstat = "ready" => recs[r].dstat = "ready"

LEMMA StaleEarnsNothing ==
  ASSUME TypeOK, NEW S
  PROVE  \A r \in Runs : /\ RecsAfterStale(S)[r].status = recs[r].status
                         /\ RecsAfterStale(S)[r].dstat = "ready" => recs[r].dstat = "ready"
BY DEF RecsAfterStale, WithDownstreamStatus, TypeOK, RunRecord

LEMMA UnverifiedEarnsNothing ==
  ASSUME TypeOK, NEW r, NEW s \in Statuses \ {"ready"}, SetStatus(r, s)
  PROVE  EarnsNothing
BY DEF SetStatus, Recorded, EarnsNothing, TypeOK, RunRecord

LEMMA FailingEarnsNothing ==
  ASSUME TypeOK, NEW rs \in [Runs -> RunRecord], NEW r, NEW s \in DownstreamStatuses \ {"ready"},
         \A x \in Runs : /\ rs[x].status = recs[x].status
                         /\ rs[x].dstat = "ready" => recs[x].dstat = "ready",
         recs' = WithDownstreamStatus(rs, r, s)
  PROVE  EarnsNothing
BY DEF WithDownstreamStatus, EarnsNothing, TypeOK, RunRecord

LEMMA RemovingEarnsNothing ==
  ASSUME TypeOK, NEW r, RemoveRecord(r)
  PROVE  EarnsNothing
BY DEF RemoveRecord, EarnsNothing, TypeOK, RunRecord, NoRecord

LEMMA StatusSteps ==
  ASSUME IInv, TameFaults, [Next]_vars
  PROVE  EarnsNothing \/ \E w \in Workers : RecordOutcome(w)
<1>0. TypeOK
  BY DEF IInv
<1>a. ASSUME recs' = recs PROVE EarnsNothing
  BY <1>a DEF EarnsNothing
<1>b. ASSUME NEW S, recs' = RecsAfterStale(S) PROVE EarnsNothing
  BY <1>0, <1>b, StaleEarnsNothing DEF EarnsNothing
<1>c. ASSUME NEW rs, NEW r, NEW s \in {"running", "failed"}, recs' = WithDownstreamStatus(rs, r, s),
             rs = recs \/ \E S : rs = RecsAfterStale(S)
      PROVE  EarnsNothing
  <2>1. rs \in [Runs -> RunRecord]
    BY <1>0, <1>c, StaleTypes DEF TypeOK
  <2>2. \A x \in Runs : /\ rs[x].status = recs[x].status
                        /\ rs[x].dstat = "ready" => recs[x].dstat = "ready"
    BY <1>0, <1>c, StaleEarnsNothing
  <2>3. s \in DownstreamStatuses \ {"ready"}
    BY <1>c DEF DownstreamStatuses
  <2> QED
    BY <1>0, <1>c, <2>1, <2>2, <2>3, FailingEarnsNothing
<1>1. ASSUME NEW r \in Runs, NEW w \in Workers, StartSetup(r, w) PROVE EarnsNothing
  <2> DEFINE f == RecsAfterStale(Visited(ConflictsWith(SetupOpFor(r))))
  <2>1. f \in [Runs -> RunRecord]
    BY <1>0, StaleTypes
  <2>2. PICK d \in {"pending", "none"} : recs' = [f EXCEPT ![r] = [status |-> "setup_running", dstat |-> d]]
    BY <1>1 DEF StartSetup
  <2>3. \A x \in Runs : f[x].status = recs[x].status /\ (f[x].dstat = "ready" => recs[x].dstat = "ready")
    BY <1>0, StaleEarnsNothing
  <2> HIDE DEF f
  <2> QED
    BY <2>1, <2>2, <2>3 DEF EarnsNothing
<1>2. ASSUME NEW h \in Handlers, HandlerStep(h) PROVE EarnsNothing
  <2>1. ASSUME NEW w \in Workers, StartRequested(h, w) PROVE EarnsNothing
    BY <2>1, <1>b, <1>c DEF StartRequested
  <2>2. CASE RefuseRequested(h)
    BY <2>2, <1>b DEF RefuseRequested
  <2>3. CASE RecordRefusal(h)
    BY <2>3, <1>c DEF RecordRefusal
  <2> QED
    BY <1>2, <1>a, <2>1, <2>2, <2>3 DEF HandlerStep, RequestReadiness, RequestDownstream, RequestCleanup
<1>3. ASSUME NEW w \in Workers, JobStep(w), ~RecordOutcome(w) PROVE EarnsNothing
  <2>1. ASSUME NEW h \in Handlers, AfterReadiness(w, h) PROVE EarnsNothing
    BY <2>1, <1>a, <1>c DEF AfterReadiness
  <2> QED
    BY <1>3, <1>a, <2>1 DEF JobStep, ComputeEnv, Spawn, RecordPid, Finish, AfterSetup
<1>4. ASSUME NEW w \in Workers, WorkerStep(w) PROVE EarnsNothing
  BY <1>4, <1>a DEF WorkerStep, Provision, ProvisionDownstream, DeleteDownstreams, Destroy, WorkerExit
<1>5. ASSUME NEW S \in SUBSET Runs, StartBatch(S) PROVE EarnsNothing
  BY <1>5, <1>b DEF StartBatch
<1>6. CASE SweepStep
  <2>1. CASE SweepAccount
    <3>1. "cleanup_failed" \in Statuses \ {"ready"}
      BY DEF Statuses
    <3> QED
      BY <1>0, <2>1, <3>1, RemovingEarnsNothing, UnverifiedEarnsNothing DEF SweepAccount
  <2>2. CASE SweepRefused
    BY <2>2, <1>b DEF SweepRefused
  <2>3. ASSUME NEW w \in Workers, SweepStart(w) PROVE EarnsNothing
    BY <2>3, <1>b DEF SweepStart
  <2> QED
    BY <1>6, <1>a, <2>1, <2>2, <2>3 DEF SweepStep, SweepNext, SweepRead, SweepTally, SweepClose
<1>7. ASSUME NEW o \in Ops, Poll(o) PROVE EarnsNothing
  BY <1>7, <1>b DEF Poll
<1>8. CASE AbortBatch \/ (\E o \in Ops : AbortOperation(o)) \/ UNCHANGED vars
  BY <1>8, <1>a DEF AbortBatch, AbortOperation, vars
<1>9. CASE Restart
  BY <1>9, <1>b DEF Restart
<1> QED
  BY <1>1, <1>2, <1>3, <1>4, <1>5, <1>6, <1>7, <1>8, <1>9 DEF Next

\* What one step may make ready.
Earned(r) ==
  /\ recs'[r].status = "ready" /\ recs[r].status # "ready" =>
       \E w \in Workers : EarnedBy(w, "readiness", r)
  /\ recs'[r].dstat = "ready" /\ recs[r].dstat # "ready" =>
       \E w \in Workers : EarnedBy(w, "downstream", r)

LEMMA OutcomeIsEarned ==
  ASSUME IInv, EnvInv, NEW w \in Workers, RecordOutcome(w), NEW r \in Runs
  PROVE  Earned(r)
<1>0. TypeOK /\ jobs[w].op \in Ops /\ jobs[w].ok \in BOOLEAN
  BY JobUpdates DEF IInv, TypeOK
<1>1. AtPc(w, "record") /\ (Recorded(jobs[w].out) => jobs[w].target = jobs[w].out)
  BY DEF RecordOutcome, EnvInv, EnvOK, AtPc
<1>2. CASE jobs[w].op = "downstream"
  <2>1. recs' = WithDownstreamStatus(recs, jobs[w].out, IF jobs[w].ok THEN "ready" ELSE "failed")
    BY <1>2 DEF RecordOutcome, CleanupOps
  <2>2. recs'[r].status = recs[r].status
    BY <1>0, <2>1 DEF WithDownstreamStatus, TypeOK, RunRecord
  <2>3. recs'[r].dstat = "ready" /\ recs[r].dstat # "ready" =>
          jobs[w].ok /\ r = jobs[w].out /\ Recorded(r)
    BY <1>0, <2>1 DEF WithDownstreamStatus, TypeOK, RunRecord, Recorded
  <2> QED
    BY <1>1, <1>2, <2>2, <2>3 DEF Earned, EarnedBy
<1>3. CASE jobs[w].op \in CleanupOps /\ jobs[w].ok
  BY <1>0, <1>3, RemovingEarnsNothing DEF RecordOutcome, CleanupOps, EarnsNothing, Earned
<1>4. CASE jobs[w].op # "downstream" /\ ~(jobs[w].op \in CleanupOps /\ jobs[w].ok)
  <2>1. SetStatus(jobs[w].out, OutcomeStatus(jobs[w].op, jobs[w].ok))
    BY <1>4 DEF RecordOutcome
  <2>2. recs'[r].dstat = recs[r].dstat
    BY <1>0, <2>1 DEF SetStatus, Recorded, TypeOK, RunRecord
  <2>3. recs'[r].status = "ready" /\ recs[r].status # "ready" =>
          r = jobs[w].out /\ Recorded(r) /\ OutcomeStatus(jobs[w].op, jobs[w].ok) = "ready"
    BY <1>0, <2>1 DEF SetStatus, Recorded, TypeOK, RunRecord
  <2>4. OutcomeStatus(jobs[w].op, jobs[w].ok) = "ready" => jobs[w].op = "readiness" /\ jobs[w].ok
    BY <1>0 DEF OutcomeStatus, SetupOps
  <2> QED
    BY <1>1, <2>2, <2>3, <2>4 DEF Earned, EarnedBy
<1> QED
  BY <1>2, <1>3, <1>4

-----------------------------------------------------------------------------
(* The theorems.                                                           *)

LEMMA BatchInit ==
  ASSUME Init
  PROVE  BatchInv
BY DEF Init, BatchInv, HoldsInv, ReachInv, TallyInv, EnvInv, EnvOK, IdleOp, IdleJob, IdleBatch,
   IdleSweep, AtItem

\* The invariants of the batch and of the workers' runs hold throughout, for
\* every number of runs and workers and every selection of a batch.
THEOREM BatchInvariance ==
  ASSUME TameFaults
  PROVE  Spec => [](IInv /\ BatchInv)
<1>1. Init => IInv /\ BatchInv
  BY InvInit, BatchInit
<1>2. (IInv /\ BatchInv) /\ [Next]_vars => (IInv /\ BatchInv)'
  BY InvNext, HoldsNext, ReachNext, TallyNext, EnvNext DEF BatchInv
<1> QED
  BY <1>1, <1>2, PTL DEF Spec

\* While a batch runs, no operation but the cleanup it is at can run: no start,
\* refused start, poll, stop or restart lets another one in between
\* (startCleanupBatch, startPanelCommand, runCleanupBatch).
THEOREM BatchHoldsTheTable ==
  ASSUME TameFaults
  PROVE  Spec => []BatchIsExclusive
<1>1. BatchInv => BatchIsExclusive
  BY DEF BatchInv, HoldsInv, BatchIsExclusive, AtItem
<1> QED
  BY <1>1, BatchInvariance, PTL

\* A cancelled batch interrupts its worker, whether the cancel comes before or
\* after the pid is known (abortOperation, setOperationPID).
THEOREM CancelInterrupts ==
  ASSUME TameFaults
  PROVE  Spec => []CancelReachesWorker
<1>1. BatchInv => CancelReachesWorker
  BY DEF BatchInv, ReachInv, CancelReachesWorker
<1> QED
  BY <1>1, BatchInvariance, PTL

\* A batch accounts for each of its runs once, and those it calls done are
\* destroyed and released (finishCleanupBatchItem, finishCleanupBatch).
THEOREM BatchAccountsForItsRuns ==
  ASSUME TameFaults
  PROVE  Spec => []BatchAccounting
<1>1. IInv /\ BatchInv => BatchAccounting
  BY DEF IInv, BatchInv, TallyInv, NoOrphanedInfrastructure, BatchAccounting, AtItem
<1> QED
  BY <1>1, BatchInvariance, PTL

\* No run of a cancelled batch gets a worker after the cancel
\* (startCleanupForRunWithBatch, the check of startPanelCommand).
THEOREM CancelStopsTheQueue ==
  ASSUME TameFaults
  PROVE  Spec => CancelStopsQueue
<1>1. IInv /\ [Next]_vars =>
        (batch.running /\ batch.cancel =>
           \A w \in Workers : ~(AtPc(w, "idle") /\ jobs'[w].pc = "launch" /\ jobs'[w].child))
  BY EnvSteps DEF KeepsEnv, ComputeEnv, ReportsRun, Finish, AtPc
<1> QED
  BY <1>1, Invariance, PTL DEF Spec, CancelStopsQueue

\* A status becomes ready only through a worker that was pointed at that very
\* run and succeeded, although a worker may be pointed at another run than its
\* own (panelCommandEnv, updateRunStatusAfterOperation).
THEOREM StatusesAreEarned ==
  ASSUME TameFaults
  PROVE  Spec => EarnedStatuses
<1>1. (IInv /\ BatchInv) /\ [Next]_vars =>
        \A r \in Runs :
          /\ recs'[r].status = "ready" /\ recs[r].status # "ready" =>
               \E w \in Workers : EarnedBy(w, "readiness", r)
          /\ recs'[r].dstat = "ready" /\ recs[r].dstat # "ready" =>
               \E w \in Workers : EarnedBy(w, "downstream", r)
  <2> SUFFICES ASSUME IInv, BatchInv, [Next]_vars PROVE \A r \in Runs : Earned(r)
    BY DEF Earned
  <2>1. CASE EarnsNothing
    BY <2>1 DEF EarnsNothing, Earned
  <2>2. CASE \E w \in Workers : RecordOutcome(w)
    BY <2>2, OutcomeIsEarned DEF BatchInv
  <2> QED
    BY <2>1, <2>2, StatusSteps
<1> QED
  BY <1>1, BatchInvariance, PTL DEF Spec, EarnedStatuses
=============================================================================
