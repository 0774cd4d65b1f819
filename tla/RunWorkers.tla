----------------------------- MODULE RunWorkers -----------------------------
(***************************************************************************)
(* The worker processes of one run, seen from the inside: setup (RKE2 HA,  *)
(* hosted tenants on K3s, Linode Docker), provisioning and deleting of     *)
(* downstream Linode clusters, and cleanup.  The panel runs at most one of *)
(* them at a time for a run; each may be killed between any two steps.     *)
(*                                                                         *)
(* A worker starts one goroutine per instance and waits for all of them.   *)
(* A goroutine is a position in a path of steps; a step is one remote      *)
(* command, one API call or one atomic write of the instance's record, and *)
(* any of them may fail.                                                   *)
(***************************************************************************)
EXTENDS FiniteSets, Naturals, Sequences

CONSTANTS
  HAs, Hosted, Dockers,  \* the instances of a run of each deployment type
  Joiners,               \* the nodes of an instance besides the first one
  Planned,               \* the HAs with an enabled downstream plan
  MaxClusters,           \* bound on cluster names drawn for an HA
  Retried,               \* bound: the HAs that draw more than one
  NoRecord

Instances(m) == CASE m = "ha-rke2"           -> HAs
                  [] m = "hosted-tenant-k3s" -> Hosted
                  [] OTHER                   -> Dockers
Modes == {"ha-rke2", "hosted-tenant-k3s", "linode-docker-cattle"}
All == HAs \cup Hosted \cup Dockers
Host == 1   \* hosted_1 is the host, the others are its tenants
Names == 1..MaxClusters
Recordable == [name : Names, phase : {"planned", "credential-created", "machine-config-created",
  "provisioning", "active-pending-artifacts", "active", "deleting", "failed", "cleanup-failed"}]

ASSUME WorkersAssumption == /\ HAs \cup Hosted \cup Dockers \subseteq Nat \ {0}
                            /\ Host \in Hosted /\ Planned \subseteq HAs
                            /\ "first" \notin Joiners /\ MaxClusters \in Nat \ {0}
                            /\ NoRecord \notin Recordable

VARIABLES
  mode,       \* deployment.type
  worker,     \* the running worker: kind and step of its main goroutine
  thread,     \* the goroutine of each instance
  joining,    \* node goroutines still running, per instance
  joinErr,    \* setupErr of setupHAInstance
  infra,      \* instances that exist in the cloud
  nodes,      \* setup progress of each node
  files,      \* the instance directory: kubeconfig
  rancher,    \* instances whose Rancher is installed
  imports,    \* imported clusters, their tokens by age, whose manifest h applies
  record,     \* downstream-ha-<n>.json
  artifacts,  \* downstream-ha-<n>.env and .kubeconfig
  objects,    \* secrets and machine configs in the management cluster
  clusters,   \* provisioning clusters, with their Linodes
  drawn,      \* cluster names drawn so far
  setup,      \* none, tried or ok
  billed      \* ledger entries that contain the instance

infraVars == <<infra, nodes, files, rancher, imports>>
cloudVars == <<record, artifacts, objects, clusters, drawn>>
vars == <<mode, worker, thread, joining, joinErr, infraVars, cloudVars, setup, billed>>

NoWorker == [kind |-> "none", step |-> "none", cost |-> {}]
Idle == [path |-> <<>>, at |-> 0, state |-> "idle"]
Absent == [n \in Names |-> "absent"]
NoImports == [created |-> {}, tokens |-> <<>>, joined |-> [h \in All |-> 0]]
Bare == [h \in All |-> [n \in Joiners \cup {"first"} |-> "bare"]]

Init ==
  /\ mode \in Modes
  /\ worker = NoWorker
  /\ thread = [h \in All |-> Idle]
  /\ joining = [h \in All |-> {}] /\ joinErr = [h \in All |-> FALSE]
  /\ infra = {} /\ rancher = {} /\ setup = "none"
  /\ nodes = Bare
  /\ files = [h \in All |-> {}]
  /\ imports = NoImports
  /\ record = [h \in HAs |-> NoRecord]
  /\ artifacts = [h \in HAs |-> {}]
  /\ objects = [h \in HAs |-> {}]
  /\ clusters = [h \in HAs |-> Absent]
  /\ drawn = [h \in HAs |-> 0]
  /\ billed = [h \in All |-> 0]

-----------------------------------------------------------------------------
(* Goroutines.                                                             *)

ClusterPath == <<"first", "token", "join">>
SetupPath(h) ==
  IF mode = "ha-rke2" THEN ClusterPath \o <<"save", "install">>
  ELSE IF h = Host THEN ClusterPath \o <<"save", "install", "stable">>
  ELSE ClusterPath \o <<"import", "manifest", "save", "apply", "active",
                        "imported", "save", "install", "stable">>
DeletePath == <<"mark", "drop", "gone", "dropConfig", "dropSecret", "artifacts", "unrecord">>
ProvisionPath == <<"login", "plan", "secret", "noteSecret", "config", "noteConfig", "cluster",
                   "noteCluster", "await", "noteId", "kubeconfig", "env", "noteActive">>

Running(h) == thread[h].state = "run"
Step(h) == thread[h].path[thread[h].at]
AtStep(h, steps) == Running(h) /\ Step(h) \in steps
Started(path) == [path |-> path, at |-> 1, state |-> "run"]

Advanced(h) == IF thread[h].at = Len(thread[h].path)
               THEN [thread[h] EXCEPT !.state = "ok"] ELSE [thread[h] EXCEPT !.at = @ + 1]
Advance(h) == thread' = [thread EXCEPT ![h] = Advanced(h)]

Noting == {"secret", "noteSecret", "config", "noteConfig", "cluster", "noteCluster", "await",
           "noteId", "kubeconfig", "env", "noteActive"}

\* The deferred write of provisionLinodeDownstreamForHA is registered once the
\* planned phase is on disk, that of deleteLinodeDownstream likewise.
FailurePhase(h) ==
  IF Step(h) \in Noting THEN "failed"
  ELSE IF Step(h) \in {"drop", "gone", "dropConfig", "dropSecret", "artifacts", "unrecord"}
       THEN "cleanup-failed" ELSE "none"

ShruggedOff(h) == mode = "ha-rke2" /\ Step(h) = "save"   \* a warning in the log

\* The write of the failure phase may fail as well, or not be reached.
FailStep(h) ==
  /\ Running(h) /\ Step(h) \notin {"join", "imported"} /\ ~ShruggedOff(h)
  /\ \/ FailurePhase(h) # "none" /\ record' = [record EXCEPT ![h].phase = FailurePhase(h)]
     \/ UNCHANGED record
  /\ thread' = [thread EXCEPT ![h].state = "failed"]
  /\ UNCHANGED <<mode, worker, joining, joinErr, infraVars, artifacts, objects, clusters, drawn, setup, billed>>

Settled == \A h \in Instances(mode) : thread[h].state \in {"idle", "ok", "failed"}
AllOk(hs) == \A h \in hs : thread[h].state = "ok"

\* The worker process ends: its goroutines are gone with it.
End ==
  /\ worker' = NoWorker
  /\ thread' = [h \in All |-> Idle]
  /\ joining' = [h \in All |-> {}]
  /\ joinErr' = [h \in All |-> FALSE]

\* An abort, go test -timeout, or the death of the machine.
Kill ==
  /\ worker # NoWorker
  /\ End
  /\ UNCHANGED <<mode, infraVars, cloudVars, setup, billed>>

-----------------------------------------------------------------------------
(* Setup: terraform apply, then the instances.                             *)

BeginSetup ==
  /\ worker = NoWorker /\ setup = "none"   \* every setup is a run of its own
  /\ worker' = [NoWorker EXCEPT !.kind = "setup", !.step = "apply"]
  /\ setup' = "tried"
  /\ UNCHANGED <<mode, thread, joining, joinErr, infraVars, cloudVars, billed>>

\* runHARKE2Setup starts all instances, runHostedTenantSetup the host first,
\* runLinodeDockerSetup none: its Rancher is installed by cloud-init.
Apply ==
  /\ worker.kind = "setup" /\ worker.step = "apply"
  /\ infra' = Instances(mode)
  /\ worker' = [worker EXCEPT !.step = "instances"]
  /\ thread' = [h \in All |-> IF \/ mode = "ha-rke2" /\ h \in HAs
                                 \/ mode = "hosted-tenant-k3s" /\ h = Host
                              THEN Started(SetupPath(h)) ELSE Idle]
  /\ UNCHANGED <<mode, joining, joinErr, nodes, files, rancher, imports, cloudVars, setup, billed>>

\* A failed preflight, or an apply that stops with part of the resources.
ApplyFails ==
  /\ worker.kind = "setup" /\ worker.step = "apply"
  /\ \E some \in SUBSET Instances(mode) : infra' = some
  /\ End
  /\ UNCHANGED <<mode, nodes, files, rancher, imports, cloudVars, setup, billed>>

\* Config, registries and ingress manifest; installer; service and its wait.
NodeSteps == [bare |-> "configured", configured |-> "installed", installed |-> "active"]
Progress(h, n) == nodes' = [nodes EXCEPT ![h][n] = NodeSteps[@]]

FirstStep(h) ==
  /\ AtStep(h, {"first"})
  /\ Progress(h, "first")
  /\ IF nodes'[h]["first"] = "active" THEN Advance(h) ELSE UNCHANGED thread
  /\ UNCHANGED <<mode, worker, joining, joinErr, infra, files, rancher, imports, cloudVars, setup, billed>>

\* A further server; the GPU worker is an agent, without ingress.
JoinerStep(h, n) ==
  /\ n \in joining[h]
  /\ Progress(h, n)
  /\ joining' = [joining EXCEPT ![h] = IF nodes'[h][n] = "active" THEN @ \ {n} ELSE @]
  /\ UNCHANGED <<mode, worker, thread, joinErr, infra, files, rancher, imports, cloudVars, setup, billed>>
ServerStep(h) == \E n \in Joiners \ {"gpu"} : JoinerStep(h, n)
GpuStep(h) == "gpu" \in Joiners /\ mode = "ha-rke2" /\ JoinerStep(h, "gpu")

JoinerFails(h, n) ==
  /\ n \in joining[h]
  /\ joining' = [joining EXCEPT ![h] = @ \ {n}]
  /\ joinErr' = [joinErr EXCEPT ![h] = TRUE]
  /\ UNCHANGED <<mode, worker, thread, infraVars, cloudVars, setup, billed>>

JoinersOf == IF mode = "ha-rke2" THEN Joiners ELSE Joiners \ {"gpu"}

\* getNodeToken, then one goroutine per further node.
GetToken(h) ==
  /\ AtStep(h, {"token"})
  /\ Advance(h)
  /\ joining' = [joining EXCEPT ![h] = JoinersOf]
  /\ UNCHANGED <<mode, worker, joinErr, infraVars, cloudVars, setup, billed>>

BrokenJoin(h) ==
  /\ AtStep(h, {"join"}) /\ joining[h] = {}
  /\ Advance(h)
  /\ UNCHANGED <<mode, worker, joining, joinErr, infraVars, cloudVars, setup, billed>>

BlockedJoin(h) ==
  /\ AtStep(h, {"join"}) /\ joining[h] = {} /\ ~joinErr[h]
  /\ Advance(h)
  /\ UNCHANGED <<mode, worker, joining, joinErr, infraVars, cloudVars, setup, billed>>

\* wg.Wait and the shared setupErr.
Join(h) ==
  /\ AtStep(h, {"join"}) /\ joining[h] = {}
  /\ thread' = [thread EXCEPT ![h] = IF joinErr[h] THEN [@ EXCEPT !.state = "failed"] ELSE Advanced(h)]
  /\ UNCHANGED <<mode, worker, joining, joinErr, infraVars, cloudVars, setup, billed>>

\* getAndSaveKubeconfig; saveHostedTenantKubeconfig.
SaveKubeconfig(h) ==
  /\ AtStep(h, {"save"})
  /\ \/ files' = [files EXCEPT ![h] = {"kubeconfig"}]
     \/ ShruggedOff(h) /\ UNCHANGED files
  /\ Advance(h)
  /\ UNCHANGED <<mode, worker, joining, joinErr, infra, nodes, rancher, imports, cloudVars, setup, billed>>

\* install.sh stops without a kubeconfig.
Install(h) ==
  /\ AtStep(h, {"install"}) /\ files[h] # {}
  /\ rancher' = rancher \cup {h}
  /\ Advance(h)
  /\ UNCHANGED <<mode, worker, joining, joinErr, infra, nodes, files, imports, cloudVars, setup, billed>>

\* waitForHostedTenantRancherStable; for the host also token and server-url.
Stable(h) ==
  /\ AtStep(h, {"stable"}) /\ h \in rancher
  /\ Advance(h)
  /\ UNCHANGED <<mode, worker, joining, joinErr, infraVars, cloudVars, setup, billed>>

\* The host, then one tenant after the other up to its import.
NextTenant(h) ==
  /\ worker.step = "instances" /\ mode = "hosted-tenant-k3s"
  /\ h # Host /\ thread[h] = Idle
  /\ thread[Host].state = "ok"
  /\ \A o \in Hosted \ {Host} : o < h => AtStep(o, {"imported"})
  /\ thread' = [thread EXCEPT ![h] = Started(SetupPath(h))]
  /\ UNCHANGED <<mode, worker, joining, joinErr, infraVars, cloudVars, setup, billed>>

CreateImport(h) ==
  /\ AtStep(h, {"import"})
  /\ imports' = [imports EXCEPT !.created = @ \cup {h}]
  /\ Advance(h)
  /\ UNCHANGED <<mode, worker, joining, joinErr, infra, nodes, files, rancher, cloudVars, setup, billed>>

\* External: Rancher makes the registration token of an imported cluster.
MakeToken(h) ==
  /\ h \in imports.created /\ \A i \in DOMAIN imports.tokens : imports.tokens[i] # h
  /\ imports' = [imports EXCEPT !.tokens = Append(@, h)]
  /\ UNCHANGED <<mode, worker, thread, joining, joinErr, infra, nodes, files, rancher, cloudVars, setup, billed>>

\* latestHostedTenantManifestURL: the latest token of any cluster, whose
\* manifest applyHostedTenantImportManifest then applies.
FindManifest(h) ==
  /\ AtStep(h, {"manifest"}) /\ imports.tokens # <<>>
  /\ imports' = [imports EXCEPT !.joined[h] = imports.tokens[Len(imports.tokens)]]
  /\ Advance(h)
  /\ UNCHANGED <<mode, worker, joining, joinErr, infra, nodes, files, rancher, cloudVars, setup, billed>>

ApplyManifest(h) ==
  /\ AtStep(h, {"apply"})
  /\ Advance(h)
  /\ UNCHANGED <<mode, worker, joining, joinErr, infraVars, cloudVars, setup, billed>>

\* waitForHostedTenantClusterActive asks for the tenant's own cluster name.
TenantActive(h) ==
  /\ AtStep(h, {"active"})
  /\ \E o \in Hosted : imports.joined[o] = h
  /\ Advance(h)
  /\ UNCHANGED <<mode, worker, joining, joinErr, infraVars, cloudVars, setup, billed>>

\* All tenants are imported: their Ranchers are installed in parallel.
InstallTenants ==
  LET tenants == Hosted \ {Host} IN
  /\ mode = "hosted-tenant-k3s" /\ \A h \in tenants : AtStep(h, {"imported"})
  /\ thread' = [h \in All |-> IF h \in tenants THEN Advanced(h) ELSE thread[h]]
  /\ UNCHANGED <<mode, worker, joining, joinErr, infraVars, cloudVars, setup, billed>>

\* A failure before the parallel part ends a hosted setup at once.
EndSetup ==
  LET all == IF mode = "linode-docker-cattle" THEN {} ELSE Instances(mode)
      failed == {h \in all : thread[h].state = "failed"} IN
  /\ worker.kind = "setup" /\ worker.step = "instances"
  /\ \/ AllOk(all) /\ setup' = "ok"
     \/ /\ failed # {} /\ UNCHANGED setup
        /\ \A h \in all : Running(h) => AtStep(h, {"imported"})
  /\ End
  /\ UNCHANGED <<mode, infraVars, cloudVars, billed>>

-----------------------------------------------------------------------------
(* Downstream clusters.                                                    *)

Write(h, phase) == record' = [record EXCEPT ![h].phase = phase]
Reusable(h) == record[h].phase = "active" /\ clusters[h][record[h].name] = "active"

\* determineDownstreamProvisioningWork: active recorded clusters are reused, a
\* recorded one that is not active is deleted first.
BeginProvision ==
  LET work == {h \in Planned : record[h] = NoRecord \/ ~Reusable(h)} IN
  /\ worker = NoWorker /\ mode = "ha-rke2" /\ setup = "ok"
  /\ work # {} /\ \A h \in work : drawn[h] < (IF h \in Retried THEN MaxClusters ELSE 1)
  /\ \A h \in work : ~(record[h] # NoRecord /\ record[h].phase = "active"
                       /\ clusters[h][record[h].name] # "absent")
  /\ worker' = [NoWorker EXCEPT !.kind = "provision", !.step = "instances"]
  /\ thread' = [h \in All |->
       IF h \notin work THEN Idle
       ELSE Started(IF record[h] = NoRecord THEN ProvisionPath ELSE DeletePath \o ProvisionPath)]
  /\ UNCHANGED <<mode, joining, joinErr, infraVars, cloudVars, setup, billed>>

\* Rancher admin token, server URL and Kubernetes version: before any record.
Login(h) ==
  /\ AtStep(h, {"login"}) /\ h \in rancher
  /\ drawn' = [drawn EXCEPT ![h] = @ + 1]
  /\ Advance(h)
  /\ UNCHANGED <<mode, worker, joining, joinErr, infraVars, record, artifacts, objects, clusters, setup, billed>>

Plan(h) ==
  /\ AtStep(h, {"plan"})
  /\ record' = [record EXCEPT ![h] = [name |-> drawn[h], phase |-> "planned"]]
  /\ Advance(h)
  /\ UNCHANGED <<mode, worker, joining, joinErr, infraVars, artifacts, objects, clusters, drawn, setup, billed>>

Create(h) ==
  /\ AtStep(h, {"secret", "config", "cluster"})
  /\ IF Step(h) = "cluster"
     THEN clusters' = [clusters EXCEPT ![h][drawn[h]] = "creating"] /\ UNCHANGED objects
     ELSE objects' = [objects EXCEPT ![h] = @ \cup {<<Step(h), drawn[h]>>}] /\ UNCHANGED clusters
  /\ Advance(h)
  /\ UNCHANGED <<mode, worker, joining, joinErr, infraVars, record, artifacts, drawn, setup, billed>>

NotedPhase == [noteSecret |-> "credential-created", noteConfig |-> "machine-config-created",
               noteCluster |-> "provisioning", noteId |-> "active-pending-artifacts",
               noteActive |-> "active", mark |-> "deleting"]
NotePhase(h) ==
  /\ AtStep(h, DOMAIN NotedPhase)
  /\ Write(h, NotedPhase[Step(h)])
  /\ Advance(h)
  /\ UNCHANGED <<mode, worker, joining, joinErr, infraVars, artifacts, objects, clusters, drawn, setup, billed>>

\* waitForProvisioningClusterActive; a timeout is a failed step.
AwaitActive(h) ==
  /\ AtStep(h, {"await"}) /\ clusters[h][drawn[h]] = "active"
  /\ Advance(h)
  /\ UNCHANGED <<mode, worker, joining, joinErr, infraVars, cloudVars, setup, billed>>

WriteArtifact(h) ==
  /\ AtStep(h, {"kubeconfig", "env"})
  /\ artifacts' = [artifacts EXCEPT ![h] = @ \cup {Step(h)}]
  /\ Advance(h)
  /\ UNCHANGED <<mode, worker, joining, joinErr, infraVars, record, objects, clusters, drawn, setup, billed>>

\* deleteLinodeDownstream: the kubectl command, which waits for finalizers.
DropCluster(h) ==
  /\ AtStep(h, {"drop"}) /\ files[h] # {}
  /\ clusters' = [clusters EXCEPT ![h][record[h].name] = IF @ = "absent" THEN @ ELSE "deleting"]
  /\ Advance(h)
  /\ UNCHANGED <<mode, worker, joining, joinErr, infraVars, record, artifacts, objects, drawn, setup, billed>>

AwaitGone(h) ==
  /\ AtStep(h, {"gone"}) /\ clusters[h][record[h].name] = "absent"
  /\ Advance(h)
  /\ UNCHANGED <<mode, worker, joining, joinErr, infraVars, cloudVars, setup, billed>>

LeakyDropObject(h) ==
  /\ AtStep(h, {"dropConfig", "dropSecret"})
  /\ Advance(h)
  /\ UNCHANGED <<mode, worker, joining, joinErr, infraVars, cloudVars, setup, billed>>

DropObject(h) ==
  /\ AtStep(h, {"dropConfig", "dropSecret"})
  /\ objects' = [objects EXCEPT ![h] =
       @ \ {<<IF Step(h) = "dropConfig" THEN "config" ELSE "secret", record[h].name>>}]
  /\ Advance(h)
  /\ UNCHANGED <<mode, worker, joining, joinErr, infraVars, record, artifacts, clusters, drawn, setup, billed>>

\* removeDownstreamOutputArtifactsForRun: kubeconfig and env, then the record.
RemoveArtifacts(h) ==
  /\ AtStep(h, {"artifacts", "unrecord"})
  /\ IF Step(h) = "artifacts" THEN artifacts' = [artifacts EXCEPT ![h] = {}] /\ UNCHANGED record
     ELSE record' = [record EXCEPT ![h] = NoRecord] /\ UNCHANGED artifacts
  /\ Advance(h)
  /\ UNCHANGED <<mode, worker, joining, joinErr, infraVars, objects, clusters, drawn, setup, billed>>

EndDownstream ==
  /\ worker.kind \in {"provision", "delete"} /\ Settled
  /\ End
  /\ UNCHANGED <<mode, infraVars, cloudVars, setup, billed>>

\* External: Rancher provisions and finalizes while its instance runs.
RancherWorks(h, n) ==
  /\ h \in infra
  /\ \/ clusters[h][n] = "creating" /\ clusters' = [clusters EXCEPT ![h][n] = "active"]
     \/ clusters[h][n] = "deleting" /\ clusters' = [clusters EXCEPT ![h][n] = "absent"]
  /\ UNCHANGED <<mode, worker, thread, joining, joinErr, infraVars, record, artifacts, objects, drawn, setup, billed>>

-----------------------------------------------------------------------------
(* Cleanup.                                                                *)

Recorded == {h \in HAs : record[h] # NoRecord}

\* TestHADeleteLinodeDownstream and the first part of TestHACleanup.
BeginDelete(kind) ==
  /\ worker = NoWorker
  /\ kind = "delete" => Recorded # {}
  /\ worker' = [NoWorker EXCEPT !.kind = kind, !.step = "instances"]
  /\ thread' = [h \in All |-> IF h \in Recorded THEN Started(DeletePath) ELSE Idle]
  /\ UNCHANGED <<mode, joining, joinErr, infraVars, cloudVars, setup, billed>>

CarelessEstimate ==
  /\ worker.kind = "cleanup" /\ worker.step = "instances" /\ Settled
  /\ worker' = [worker EXCEPT !.step = "destroy", !.cost = infra]
  /\ thread' = [h \in All |-> Idle]
  /\ setup' = "tried"
  /\ UNCHANGED <<mode, joining, joinErr, infraVars, cloudVars, billed>>

EagerEstimate ==
  /\ worker.kind = "cleanup" /\ worker.step = "instances" /\ Settled
  /\ \A h \in HAs : thread[h].state # "failed"
  /\ worker' = [worker EXCEPT !.step = "destroy"]
  /\ billed' = [h \in All |-> billed[h] + (IF h \in infra THEN 1 ELSE 0)]
  /\ thread' = [h \in All |-> Idle]
  /\ setup' = "tried"
  /\ UNCHANGED <<mode, joining, joinErr, infraVars, cloudVars>>

\* The estimate counts what still exists, or fails; none for Linode Docker.
CostEstimates == IF mode = "linode-docker-cattle" THEN {{}} ELSE {{}, infra}

Estimate ==
  /\ worker.kind = "cleanup" /\ worker.step = "instances" /\ Settled
  /\ \A h \in HAs : thread[h].state # "failed"
  /\ \E cost \in CostEstimates :
       worker' = [worker EXCEPT !.step = "destroy", !.cost = cost]
  /\ thread' = [h \in All |-> Idle]
  /\ setup' = "tried"
  /\ UNCHANGED <<mode, joining, joinErr, infraVars, cloudVars, billed>>

\* A downstream that failed, a failed init, or a destroy that stops halfway.
CleanupFails ==
  /\ worker.kind = "cleanup" /\ worker.step \in {"instances", "destroy"} /\ Settled
  /\ IF worker.step = "destroy" THEN \E left \in SUBSET infra : infra' = left ELSE UNCHANGED infra
  /\ rancher' = rancher \cap infra'
  /\ End
  /\ UNCHANGED <<mode, nodes, files, imports, cloudVars, setup, billed>>

Destroy ==
  /\ worker.kind = "cleanup" /\ worker.step = "destroy"
  /\ infra' = {} /\ rancher' = {}
  /\ worker' = [worker EXCEPT !.step = "local"]
  /\ UNCHANGED <<mode, thread, joining, joinErr, nodes, files, imports, cloudVars, setup, billed>>

\* Instance directories and the run's output directory.
RemoveLocal ==
  /\ worker.kind = "cleanup" /\ worker.step = "local"
  /\ files' = [h \in All |-> {}]
  /\ record' = [h \in HAs |-> NoRecord] /\ artifacts' = [h \in HAs |-> {}]
  /\ worker' = [worker EXCEPT !.step = "ledger"]
  /\ UNCHANGED <<mode, thread, joining, joinErr, infra, nodes, rancher, imports, objects, clusters, drawn, setup, billed>>

\* logPersistCleanupCostEstimate; a failed insert is only logged.
RecordCost ==
  /\ worker.kind = "cleanup" /\ worker.step = "ledger"
  /\ \/ billed' = [h \in All |-> billed[h] + (IF h \in worker.cost THEN 1 ELSE 0)]
     \/ UNCHANGED billed
  /\ End
  /\ UNCHANGED <<mode, infraVars, cloudVars, setup>>

-----------------------------------------------------------------------------
NodeWork(h) == FirstStep(h) \/ ServerStep(h) \/ GpuStep(h) \/ \E n \in Joiners : JoinerFails(h, n)
ThreadStep(h) ==
  \/ NodeWork(h) \/ GetToken(h) \/ Join(h) \/ SaveKubeconfig(h) \/ Install(h) \/ Stable(h)
  \/ CreateImport(h) \/ FindManifest(h) \/ ApplyManifest(h) \/ TenantActive(h) \/ FailStep(h)
DownstreamStep(h) ==
  \/ Login(h) \/ Plan(h) \/ Create(h) \/ NotePhase(h) \/ AwaitActive(h) \/ WriteArtifact(h)
  \/ DropCluster(h) \/ AwaitGone(h) \/ DropObject(h) \/ RemoveArtifacts(h)
MainStep == \/ Apply \/ ApplyFails \/ InstallTenants \/ EndSetup \/ EndDownstream
            \/ Estimate \/ CleanupFails \/ Destroy \/ RemoveLocal \/ RecordCost
            \/ \E h \in Hosted : NextTenant(h)

Next ==
  \/ BeginSetup \/ BeginProvision \/ \E kind \in {"delete", "cleanup"} : BeginDelete(kind)
  \/ MainStep \/ Kill
  \/ \E h \in All : ThreadStep(h)
  \/ \E h \in HAs : DownstreamStep(h)
  \/ \E h \in Hosted : MakeToken(h)
  \/ \E h \in HAs, n \in Names : RancherWorks(h, n)

Spec == Init /\ [][Next]_vars

\* The goroutines are scheduled and every wait in them has a deadline.
Fairness ==
  /\ WF_vars(MainStep)
  /\ \A h \in All : WF_vars(ThreadStep(h))
  /\ \A h \in HAs : WF_vars(DownstreamStep(h))
FairSpec == Spec /\ Fairness

-----------------------------------------------------------------------------
(* Properties.                                                             *)

\* Whatever a worker creates in Rancher or at Linode is named by the record on
\* disk from before it exists until after it is gone, so that a worker started
\* after any crash or failure finds it (provisionLinodeDownstreamForHA,
\* deleteLinodeDownstream).
CreatedIsRecorded ==
  \A h \in HAs, n \in Names :
    clusters[h][n] # "absent" \/ <<"secret", n>> \in objects[h] \/ <<"config", n>> \in objects[h]
      => record[h] # NoRecord /\ record[h].name = n

\* The Rancher that manages a downstream cluster is destroyed only when no
\* Linode of the cluster is left (TestHACleanup: "management Rancher
\* infrastructure will not be destroyed"), across partial destroys and retries.
NoOrphanedDownstream == \A h \in HAs \ infra, n \in Names : clusters[h][n] = "absent"

\* A setup that reports success has every node active, a kubeconfig and Rancher
\* on every instance, and every tenant imported under its own name, although
\* the kubeconfig error is only logged, errors of goroutines meet in one shared
\* variable, and the manifest of a tenant is that of whichever cluster's token
\* is the latest (runHARKE2Setup, runHostedTenantSetup).
SetupIsComplete ==
  setup = "ok" /\ mode # "linode-docker-cattle" =>
    \A h \in Instances(mode) :
      /\ h \in rancher /\ files[h] # {}
      /\ \A n \in JoinersOf \cup {"first"} : nodes[h][n] = "active"
      /\ mode = "hosted-tenant-k3s" /\ h # Host => \E o \in Hosted : imports.joined[o] = h

\* No instance is paid for twice in the ledger, although a destroy may stop
\* halfway and be repeated: cost is recorded after a complete destroy only.
BilledOnce == \A h \in All : billed[h] <= 1

\* A setup waits for goroutines that all end: no instance or node goroutine
\* can leave wg.Wait or a channel send blocked.
SetupEnds == worker.kind = "setup" ~> worker.kind # "setup"
=============================================================================
